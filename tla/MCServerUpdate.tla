---------------------------- MODULE MCServerUpdate ----------------------------
\* Migration is about databases of its own, as a new version finds them.
EXTENDS ServerUpdate, Migration, TLC

CONSTANTS c0, h1, h2, h3

\* The server of another image, once it is up, has taken over whatever database
\* the one before it and starts that were cut short have left.
StartResumes == (\E h \in Helpers : state[h] = "up") => EveryStartResumes
=============================================================================
