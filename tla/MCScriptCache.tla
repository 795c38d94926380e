---------------------------- MODULE MCScriptCache ----------------------------
(* Instances of ScriptCache for TLC.                                        *)
EXTENDS ScriptCache, TLC

CONSTANTS t1, t2, m1, m2, script

\* Later versions of the script require one module more.
ThenFirst  == [v \in Versions |-> IF v = 0 THEN {m2} ELSE {m1, m2}]
ThenSecond == [v \in Versions |-> IF v = 0 THEN {m1} ELSE {m1, m2}]

\* The file of every module is found under its name; or the second module is in a
\* folder, and its file has the same name as the first.
Plain    == [m \in Modules |-> m]
SameName == [m \in Modules |-> m1]

\* How often each file is saved.
ScriptTwice == [f \in Files |-> IF f = script THEN 2 ELSE IF f = m2 THEN 1 ELSE 0]
Once == [f \in Files |-> 1]

Symmetric == Permutations(Threads)
=============================================================================
