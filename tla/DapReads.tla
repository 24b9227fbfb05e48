------------------------------ MODULE DapReads ------------------------------
(* What a client of a remote dataset may count on, whatever the cache in   *)
(* between does: a get that succeeds returns exactly the elements asked    *)
(* for, all of one version of the dataset, and never of an older version   *)
(* than an earlier get of the same variable did; a get may fail, and then  *)
(* it returns nothing.                                                     *)
EXTENDS Naturals

CONSTANTS Vars, Cells, Failed

VARIABLES
  server, (* the version of the dataset at the server *)
  seen,   (* the version of a variable that was returned last *)
  answer  (* what the last get returned *)

vars == <<server, seen, answer>>

Init == server = 0 /\ seen = [v \in Vars |-> 0] /\ answer = Failed

(* The dataset changes at the server *)
Change == server' = server + 1 /\ UNCHANGED <<seen, answer>>

Read(v, cells) ==
  \E n \in seen[v] .. server :
    /\ seen' = [seen EXCEPT ![v] = n]
    /\ answer' = [var |-> v, data |-> [c \in cells |-> n]]
    /\ UNCHANGED server

Fail == answer' = Failed /\ UNCHANGED <<server, seen>>

Next ==
  \/ Change
  \/ \E v \in Vars : \E cells \in SUBSET Cells[v] : Read(v, cells)
  \/ Fail

Spec == Init /\ [][Next]_vars
=============================================================================
