------------------------------ MODULE NameList ------------------------------
(* What a list of named objects promises the layers above it (NCindex for  *)
(* netCDF-4's groups and attributes, NC_dimarray and NC_vararray for the   *)
(* classic format): the objects have an order, no two have the same name,  *)
(* and a name is found exactly when an object has it.                      *)
EXTENDS Naturals, Sequences, SequencesExt

CONSTANT Names

VARIABLE names (* the names of the objects, in order                         *)

Init == names = <<>>

IsNew(n) == n \notin ToSet(names)

Define(n)    == IsNew(n) /\ names' = Append(names, n)
Rename(i, n) == IsNew(n) /\ names' = [names EXCEPT ![i] = n]
Delete(i)    == names' = RemoveAt(names, i)

Next ==
  \/ \E n \in Names : Define(n)
  \/ \E i \in DOMAIN names, n \in Names : Rename(i, n)
  \/ \E i \in DOMAIN names : Delete(i)

Spec == Init /\ [][Next]_names
=============================================================================
