------------------------------- MODULE MCNC3 -------------------------------
(* Instances of NC3 for TLC.                                               *)
EXTENDS NC3

CONSTANT MaxRedefs  (* bound: calls of nc_redef                             *)

VARIABLE redefs

(* The arguments of nc_enddef alone, and with room after the header and    *)
(* aligned sections.                                                       *)
Room     == [h_minfree |-> 2, v_align |-> 1, v_minfree |-> 2, r_align |-> 4]
Aligned  == [Default EXCEPT !.r_align = 8]
Gap      == [Default EXCEPT !.v_minfree = 10]
OneWay   == {Default}
TwoWays  == {Default, Room}
Realigned == {Default, Gap, Aligned}

(* A fixed variable, and records that need padding unless they are the     *)
(* only ones.                                                              *)
TwoShapes == {[rec |-> FALSE, xlen |-> 2], [rec |-> TRUE, xlen |-> 1]}

(* The bytes of one variable, and a gap of one byte before the records     *)
(* that nothing rounds up.                                                 *)
OneByte   == {[rec |-> TRUE, xlen |-> 1]}
Unaligned == {Default, [Default EXCEPT !.v_minfree = 1]}

(* Steps before which nothing has changed, and a move of a fixed variable. *)
FirstSteps == [op : {"move_recs_r", "write_NC"}, done : {0}]
FirstVariable == [op : {"move_vars_r"}, done : {0}]

MCInit == Init /\ redefs = 0
MCNext ==
  /\ Next
  /\ redefs' = IF old = None /\ old' # None THEN redefs + 1 ELSE redefs
  /\ redefs' <= MaxRedefs
MCSpec == MCInit /\ [][MCNext]_<<vars, redefs>>
=============================================================================
