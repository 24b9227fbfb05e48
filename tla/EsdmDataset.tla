---------------------------- MODULE EsdmDataset -----------------------------
(* What an ESDM container and an open dataset mean to those who use them,  *)
(* and that this is a netCDF dataset.  ds is what the process that has the *)
(* dataset open sees, saved what another would find; both are worked out   *)
(* from the state of the driver after every step.                          *)
EXTENDS EsdmDispatch

CONSTANTS Absent   (* the dataset does not exist                           *)

VARIABLES ds, saved

AsFunction(atts) ==
  [a \in {atts[k].name : k \in DOMAIN atts} |-> atts[Find(atts, a)].value]

Sizes(dimt) ==
  [n \in {dimt[k].name : k \in DOMAIN dimt} |-> dimt[Find(dimt, n)].size]

VarMeaning(v, dset, dimt) ==
  [name  |-> dset.name,
   shape |-> [j \in DOMAIN v.dimids |-> dimt[v.dimids[j]].name],
   atts  |-> AsFunction(dset.atts),
   fill  |-> dset.fill]

Meaning(h) ==
  [dims |-> Sizes(h.dimt),
   vars |-> [i \in DOMAIN h.vars |->
               VarMeaning(h.vars[i], h.c.datasets[h.vars[i].dset], h.dimt)],
   atts |-> AsFunction(h.c.atts)]

(* What a committed container and an open dataset mean.                    *)
SavedIn(c) ==
  IF c = NoContainer THEN Absent
  ELSE CHOOSE m \in {Meaning(h) : h \in {Opened(c)}} : TRUE
CurrentIn(c, h) == IF h = Closed THEN SavedIn(c) ELSE Meaning(h)

MeaningInit == Init /\ ds = CurrentIn(store, e) /\ saved = SavedIn(store)
MeaningNext == Next /\ ds' = CurrentIn(store', e') /\ saved' = SavedIn(store')
MeaningSpec == MeaningInit /\ [][MeaningNext]_<<vars, ds, saved>>

(* A dataset in ESDM is a netCDF dataset: whatever is defined, renamed,    *)
(* put or deleted changes what it should and nothing else, closing and     *)
(* opening it lose nothing, and what was not committed is lost as a whole. *)
AbstractDataset == INSTANCE NCDataset
IsDataset == AbstractDataset!Spec
=============================================================================
