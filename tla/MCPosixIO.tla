----------------------------- MODULE MCPosixIO -----------------------------
(* Instances of PosixIO for TLC.                                           *)
EXTENDS PosixIO, TLC

CONSTANTS plain, mark

Budget(n, k, moves) == plain :> n @@ mark :> k @@ "move" :> moves
Start(length, at, budget) ==
  [size |-> length, mark |-> at, left |-> budget]

(* Files of each size, written to; and a file of two blocks with a byte    *)
(* that tells what the moves do to it.                                     *)
Writing == {Start(size, Size, Budget(2, 1, 0)) : size \in {0, 5}}
Moving  == {Start(4, at, Budget(1, 0, 2)) : at \in {0, 3}}
WritingAndMoving == Writing \cup Moving

NewFile == {Start(0, Size, Budget(2, 1, 0))}
OldFile  == {Start(5, Size, Budget(2, 1, 0))}
=============================================================================
