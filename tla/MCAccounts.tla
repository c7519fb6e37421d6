------------------------------ MODULE MCAccounts ------------------------------
EXTENDS Accounts, TLC

CONSTANTS n1, n2

\* The names are interchangeable, and so are the requests.
Symmetry == Permutations(Names) \cup Permutations(Requests)
=============================================================================
