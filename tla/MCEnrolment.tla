----------------------------- MODULE MCEnrolment -----------------------------
EXTENDS Enrolment, TLC

CONSTANTS d1, d2, o1, o2, t1, c1, c2

\* One key: two devices may be set up with it.
MCTokenOrg == t1 :> o1
=============================================================================
