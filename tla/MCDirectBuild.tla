---------------------------- MODULE MCDirectBuild ----------------------------
(* Instances of DirectBuild for TLC.                                        *)
EXTENDS DirectBuild

CONSTANTS b1, b2, p1, p2, o1, s1, s2

\* Two levels and one, an empty input, both kinds, and two calls with the same
\* tmp name but different scratch parents.
MCJobs ==
  {[kind |-> "qwt", output |-> o1, scratch |-> s1, rows |-> 1, levels |-> 2],
   [kind |-> "qwt", output |-> o1, scratch |-> s2, rows |-> 0, levels |-> 0],
   [kind |-> "hqwt", output |-> o1, scratch |-> s2, rows |-> 1, levels |-> 1]}

\* Two threads of one process, sharing DIRECT_BUILD_ID.
OneProcess == [b \in {b1, b2} |-> p1]
OwnPid == [p \in {p1} |-> 101]

\* Two processes that both believe to be process 1, as two containers do.
TwoProcesses == [b \in {b1, b2} |-> IF b = b1 THEN p1 ELSE p2]
SharedOutputJobs ==
  {[kind |-> "qwt", output |-> o1, scratch |-> s, rows |-> 1, levels |-> 1] :
     s \in {s1, s2}}
SamePid == [p \in {p1, p2} |-> 1]
==============================================================================
