----------------------------- MODULE NCContents -----------------------------
(* What a netCDF-4 dataset means to its clients when ids do not matter:    *)
(* the names of its dimensions, and under each variable's name the names   *)
(* of its dimensions, its fill value, and whether there is data in it.  A  *)
(* variable is a coordinate variable by its name alone, and nothing more   *)
(* follows from that.  saved is what a process that opens the file finds.  *)
EXTENDS Sequences, Naturals

CONSTANTS Names, Fills, Default, Ranks,
          Absent   (* there is no dataset                                  *)

VARIABLES ds, saved

vars == <<ds, saved>>

Put(f, x, v)     == [y \in DOMAIN f \cup {x} |-> IF y = x THEN v ELSE f[y]]
Moved(f, x, y)   == [z \in (DOMAIN f \ {x}) \cup {y} |->
                       IF z = y THEN f[x] ELSE f[z]]
Replaced(s, x, y) == [k \in DOMAIN s |-> IF s[k] = x THEN y ELSE s[k]]

Init == ds = Absent /\ saved = Absent

Create == ds = Absent /\ saved = Absent /\ ds' = [dims |-> {}, vars |-> <<>>]

DefDim(n) == n \notin ds.dims /\ ds' = [ds EXCEPT !.dims = @ \cup {n}]
RenameDim(n, m) ==
  /\ n \in ds.dims /\ m \notin ds.dims
  /\ ds' = [dims |-> (ds.dims \ {n}) \cup {m},
            vars |-> [v \in DOMAIN ds.vars |->
                        [ds.vars[v] EXCEPT !.shape = Replaced(@, n, m)]]]

DefVar(v, shape) ==
  /\ v \notin DOMAIN ds.vars
  /\ ds' = [ds EXCEPT !.vars =
       Put(@, v, [shape |-> shape, fill |-> Default, data |-> FALSE])]
RenameVar(v, u) ==
  /\ v \in DOMAIN ds.vars /\ u \notin DOMAIN ds.vars
  /\ ds' = [ds EXCEPT !.vars = Moved(@, v, u)]

(* A fill value is not changed under data.                                 *)
PutFill(v, f) == ~ds.vars[v].data /\ ds' = [ds EXCEPT !.vars[v].fill = f]

(* Data may or may not be in the file before it is saved.                  *)
Written(s, v) ==
  IF s = Absent THEN s ELSE IF v \notin DOMAIN s.vars THEN s
  ELSE [s EXCEPT !.vars[v].data = TRUE]
PutData(v) == ds' = Written(ds, v) /\ saved' \in {saved, Written(saved, v), ds'}

Change ==
  \/ \E n \in Names : DefDim(n)
  \/ \E n, m \in Names : RenameDim(n, m)
  \/ \E v \in Names, k \in Ranks : \E shape \in [1 .. k -> ds.dims] :
       DefVar(v, shape)
  \/ \E v, u \in Names : RenameVar(v, u)
  \/ \E v \in DOMAIN ds.vars, f \in Fills : PutFill(v, f)

Save   == saved' = ds /\ UNCHANGED ds
Revert == ds' = saved /\ UNCHANGED saved

Next ==
  \/ Save
  \/ Revert
  \/ Create /\ UNCHANGED saved
  \/ ds # Absent /\ \E v \in DOMAIN ds.vars : PutData(v)
  \/ ds # Absent /\ Change /\ UNCHANGED saved

Spec == Init /\ [][Next]_vars
=============================================================================
