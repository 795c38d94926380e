------------------------------- MODULE MCServer -------------------------------
(* Instances of Server for TLC.                                             *)
EXTENDS Server

CONSTANTS l1, p1, k1, t1, t2

\* One part at a time: the others would only interleave with it.  A folder is closed
\* by two calls of Terminate at once.
OneByOne ==
    ({{"listener"}, {"connection"}, {"udp"}} \X {{t1}}) \union {<<{"folder"}, {t1, t2}>>}
=============================================================================
