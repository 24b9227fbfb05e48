----------------------------- MODULE NCDataset -----------------------------
(* The netCDF data model as ddim.c, dvar.c and datt.c document it: named   *)
(* dimensions, variables in the order of their definition, attributes, and *)
(* a fill value per variable.  There are no ids: what a dataset means does *)
(* not depend on how a driver numbers dimensions.  saved is what another   *)
(* process would find, ds what the one that has it open sees.              *)
EXTENDS Naturals, Sequences

CONSTANTS DimNames, VarNames, AttNames, FillAtt, Lengths, Values, Default,
          MaxRank,
          Absent   (* the dataset does not exist                           *)

VARIABLES ds, saved

vars == <<ds, saved>>

Nothing == [x \in {} |-> 0]
Empty   == [dims |-> Nothing, vars |-> <<>>, atts |-> Nothing]

With(f, x, v)    == [y \in DOMAIN f \cup {x} |-> IF y = x THEN v ELSE f[y]]
Without(f, x)    == [y \in DOMAIN f \ {x} |-> f[y]]
Renamed(f, x, y) == With(Without(f, x), y, f[x])

Init == ds = saved

Create == ds = Absent /\ saved = Absent /\ ds' = Empty

DefDim(n, len) ==
  /\ n \notin DOMAIN ds.dims
  /\ ds' = [ds EXCEPT !.dims = With(@, n, len)]

ShapeRenamed(v, n, m) ==
  [v EXCEPT !.shape = [j \in DOMAIN @ |-> IF @[j] = n THEN m ELSE @[j]]]
RenameDim(n, m) ==
  /\ n \in DOMAIN ds.dims /\ m \notin DOMAIN ds.dims
  /\ ds' = [ds EXCEPT
       !.dims = Renamed(@, n, m),
       !.vars = [i \in DOMAIN @ |-> ShapeRenamed(@[i], n, m)]]

NameIsNew(v) == \A i \in DOMAIN ds.vars : ds.vars[i].name # v

DefVar(v, shape) ==
  /\ NameIsNew(v)
  /\ \A j \in DOMAIN shape : shape[j] \in DOMAIN ds.dims
  /\ ds' = [ds EXCEPT !.vars = Append(@, [name |-> v, shape |-> shape,
                                          atts |-> Nothing, fill |-> Default])]

RenameVar(i, v) == NameIsNew(v) /\ ds' = [ds EXCEPT !.vars[i].name = v]

(* The _FillValue attribute of a variable is its fill value.               *)
PutAtt(i, a, x) ==
  ds' = [ds EXCEPT !.vars[i].atts = With(@, a, x),
                   !.vars[i].fill = IF a = FillAtt THEN x ELSE @]
NoFill(i) ==
  ds' = [ds EXCEPT !.vars[i].atts = Without(@, FillAtt),
                   !.vars[i].fill = Default]
DelAtt(i, a) == ds' = [ds EXCEPT !.vars[i].atts = Without(@, a)]
RenameAtt(i, a, b) ==
  LET atts == ds.vars[i].atts IN
  /\ a \in DOMAIN atts /\ b \notin DOMAIN atts
  /\ ds' = [ds EXCEPT !.vars[i].atts = Renamed(@, a, b)]

PutGlobal(a, x) == ds' = [ds EXCEPT !.atts = With(@, a, x)]
DelGlobal(a)    == ds' = [ds EXCEPT !.atts = Without(@, a)]
RenameGlobal(a, b) ==
  /\ a \in DOMAIN ds.atts /\ b \notin DOMAIN ds.atts
  /\ ds' = [ds EXCEPT !.atts = Renamed(@, a, b)]

Change ==
  \/ \E n \in DimNames, len \in Lengths : DefDim(n, len)
  \/ \E n, m \in DimNames : RenameDim(n, m)
  \/ \E v \in VarNames, k \in 0 .. MaxRank :
       \E shape \in [1 .. k -> DimNames] : DefVar(v, shape)
  \/ \E i \in DOMAIN ds.vars :
       \/ \E v \in VarNames : RenameVar(i, v)
       \/ NoFill(i)
       \/ \E a \in AttNames :
            \/ DelAtt(i, a)
            \/ \E x \in Values : PutAtt(i, a, x)
            \/ \E b \in AttNames : RenameAtt(i, a, b)
  \/ \E a \in AttNames :
       \/ DelGlobal(a)
       \/ \E x \in Values : PutGlobal(a, x)
       \/ \E b \in AttNames : RenameGlobal(a, b)

Save   == saved' = ds /\ UNCHANGED ds
Revert == ds' = saved /\ UNCHANGED saved

Next ==
  \/ (Create \/ (ds # Absent /\ Change)) /\ UNCHANGED saved
  \/ Save
  \/ Revert

Spec == Init /\ [][Next]_vars
=============================================================================
