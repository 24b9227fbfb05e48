----------------------------- MODULE NCRecords -----------------------------
(* A classic dataset as dfile.c, dvar.c and dvarput.c promise it to its    *)
(* clients: variables with values, record variables that all have the same *)
(* number of records, an attribute, and a define mode whose changes take   *)
(* effect together when it ends, or not at all.  It says nothing of where  *)
(* values are kept.                                                        *)
EXTENDS Naturals, Sequences

CONSTANTS
  Values, Fill, AttSizes, MaxRecs,
  Absent  (* there is no dataset                                           *)

VARIABLES
  ds,     (* the dataset as it is outside define mode                      *)
  defs    (* the definitions made in define mode, Absent outside           *)

vars == <<ds, defs>>

Init == ds = Absent /\ defs = Absent

Create == ds = Absent /\ defs' = [vars |-> <<>>, att |-> 0] /\ UNCHANGED ds

Redef ==
  /\ ds # Absent /\ defs = Absent
  /\ defs' = [vars |-> <<>>, att |-> ds.att]
  /\ UNCHANGED ds

(* Variables are only added.                                               *)
DefVar(rec) ==
  /\ defs # Absent
  /\ defs' = [defs EXCEPT !.vars = Append(@, rec)]
  /\ UNCHANGED ds
DefAtt(size) ==
  /\ defs # Absent
  /\ defs' = [defs EXCEPT !.att = size]
  /\ UNCHANGED ds

(* What was defined is there, with fill values for all records there are,  *)
(* and what was there before has not changed.                              *)
Filled(n) == [r \in 1 .. n |-> Fill]
Enddef ==
  LET numrecs == IF ds = Absent THEN 0 ELSE ds.numrecs
      before  == IF ds = Absent THEN <<>> ELSE ds.vars
  IN /\ defs # Absent
     /\ ds' = [att     |-> defs.att,
               numrecs |-> numrecs,
               vars    |-> before \o [i \in DOMAIN defs.vars |->
                             [rec  |-> defs.vars[i],
                              data |-> Filled(IF defs.vars[i] THEN numrecs ELSE 1)]]]
     /\ defs' = Absent

Abort == defs # Absent /\ defs' = Absent /\ UNCHANGED ds

(* The record that is written exists from then on, and so do all before it *)
(* in every record variable.                                               *)
Longer(var, n) == [var EXCEPT !.data = @ \o Filled(n)]
Grown(n) ==
  [ds EXCEPT !.numrecs = n,
             !.vars = [i \in DOMAIN ds.vars |->
               IF ds.vars[i].rec THEN Longer(ds.vars[i], n - ds.numrecs)
                                 ELSE ds.vars[i]]]
Put(i, r, v) ==
  LET grown == IF ds.vars[i].rec /\ r > ds.numrecs THEN Grown(r) ELSE ds
  IN /\ ds.vars[i].rec \/ r = 1
     /\ ds' = [grown EXCEPT !.vars[i].data[r] = v]
     /\ UNCHANGED defs
PutAtt(size) == ds' = [ds EXCEPT !.att = size] /\ UNCHANGED defs

Next ==
  \/ Create \/ Redef \/ Enddef \/ Abort
  \/ \E rec \in BOOLEAN : DefVar(rec)
  \/ \E size \in AttSizes : DefAtt(size)
  \/ /\ ds # Absent /\ defs = Absent
     /\ \/ \E i \in DOMAIN ds.vars, r \in 1 .. MaxRecs, v \in Values : Put(i, r, v)
        \/ \E size \in AttSizes : PutAtt(size)

Spec == Init /\ [][Next]_vars
=============================================================================
