---------------------------- MODULE EsdmDispatch ----------------------------
(* The ESDM driver, esdm_dispatch.c: how it keeps a netCDF dataset in an   *)
(* ESDM container.  A container has datasets with named dimensions, and    *)
(* attributes; it knows no dimensions apart from its datasets and no ids.  *)
(* The driver numbers the dimensions in a table of its own (dimt), which   *)
(* it stores in two hidden attributes when it commits and rebuilds when it *)
(* opens the container.                                                    *)
(*                                                                         *)
(* One process has the dataset open at a time; the data of the variables   *)
(* is left out.  Ids count from 1 here, from 0 in the code.  The ESDM      *)
(* library is not part of the repository: its calls are modelled by what   *)
(* the driver relies on, and they do not fail.                             *)
EXTENDS Naturals, Sequences, SequencesExt, FiniteSets

CONSTANTS
  DimNames, VarNames, AttNames,
  FillAtt,  (* the name _FillValue                                         *)
  Lengths,  (* the lengths of dimensions; 0 is NC_UNLIMITED                *)
  Values,   (* the values of attributes                                    *)
  Memory,   (* what the memory that a client hands over may hold           *)
  Typed,    (* of it, what is of the type it shall be stored as            *)
  Converted, (* the value that its conversion to that type makes           *)
  Raw,      (* the value that is there when it is read as of that type     *)
  Default,  (* the default fill value of the type                          *)
  MaxDims,  (* bound: dimensions                                           *)
  MaxVars,  (* bound: variables                                            *)
  MaxRank,  (* bound: dimensions of a variable                             *)
  Foreign,  (* containers that exist at the start, not written by netCDF   *)
  Unusual   (* what clients do that the documentation has errors for       *)

ASSUME NamesAssumption ==
  /\ IsFiniteSet(DimNames) /\ Lengths \subseteq Nat
  /\ Default \notin Values
  /\ {MaxDims, MaxVars, MaxRank} \subseteq Nat
  /\ Unusual \subseteq {"redefine", "taken", "rename_fill", "mistyped_fill"}

ASSUME MemoryAssumption ==
  /\ Typed \subseteq Memory
  /\ Converted \in [Memory -> Values] /\ Raw \in [Memory -> Values]
  /\ \A m \in Typed : Converted[m] = Raw[m]

VARIABLES
  store,   (* the container as it was committed last                       *)
  e,       (* the nc_esdm_t of the open dataset                            *)
  defining (* history: the client is in define mode, having created the    *)
           (* dataset, called nc_redef or defined something since the last *)
           (* nc_enddef                                                    *)

vars == <<store, e, defining>>

NoContainer == [datasets |-> <<>>, exists |-> FALSE]
Closed      == [vars |-> <<>>, open |-> FALSE]
IsOpen      == e # Closed

(* The position of the entry with that name in a table, 0 if there is none *)
Find(table, name) == SelectInSeq(table, LAMBDA x : x.name = name)

-----------------------------------------------------------------------------
(* ESDM: attributes and datasets *)

(* link_attribute with replacement.                                        *)
Linked(atts, name, value) ==
  LET k == Find(atts, name)
      a == [name |-> name, value |-> value]
  IN IF k = 0 THEN Append(atts, a) ELSE [atts EXCEPT ![k] = a]

Unlinked(atts, name) ==
  IF Find(atts, name) = 0 THEN atts ELSE RemoveAt(atts, Find(atts, name))

(* esdm_dataset_rename_dim, for every dimension of that name.              *)
DimsRenamed(dset, name, new) ==
  [dset EXCEPT !.dims = [j \in DOMAIN @ |-> IF @[j].name = name
                                            THEN [@[j] EXCEPT !.name = new]
                                            ELSE @[j]]]

NewContainer ==
  [datasets |-> <<>>, atts |-> <<>>, nc_dims |-> {}, exists |-> TRUE]

-----------------------------------------------------------------------------
(* Opening *)

(* Bug: what is in the table is not looked for.                            *)
DimTable_all(dims) == dims

(* The table that results when dimensions are added one after the other,   *)
(* each name once.                                                         *)
DimTable(dims) ==
  LET table[n \in 0 .. Len(dims)] ==
        IF n = 0 THEN <<>>
        ELSE LET t == table[n - 1] IN
             IF Find(t, dims[n].name) = 0 THEN Append(t, dims[n]) ELSE t
  IN table[Len(dims)]

(* The dimensions of all datasets, one after the other.                    *)
Occurrences(c) ==
  FlattenSeq([i \in DOMAIN c.datasets |-> c.datasets[i].dims])

(* The test of ESDM_open: "Dimensions are not matching".                   *)
Matching(c) ==
  \A i, k \in DOMAIN Occurrences(c) :
    Occurrences(c)[i].name = Occurrences(c)[k].name
      => Occurrences(c)[i].size = Occurrences(c)[k].size

(* The dimensions of the hidden attributes; a bug forgets them, and those  *)
(* that no dataset has are lost.                                           *)
Stored_none(c) == <<>>
Stored(c) == IF c.nc_dims = {} THEN <<>> ELSE CHOOSE t \in c.nc_dims : TRUE

(* The nc_esdm_t that ESDM_open builds; the hidden attributes are removed. *)
Opened(c) ==
  LET dimt == DimTable(Occurrences(c) \o Stored(c)) IN
  [c |-> [c EXCEPT !.nc_dims = {}],
   original_nc |-> c.nc_dims # {},
   dimt |-> dimt,
   vars |-> [i \in DOMAIN c.datasets |->
               [dset |-> i,
                dimids |-> [j \in DOMAIN c.datasets[i].dims |->
                              Find(dimt, c.datasets[i].dims[j].name)]]]]

ESDM_create ==
  /\ ~IsOpen /\ store = NoContainer
  /\ e' = [c |-> NewContainer, original_nc |-> TRUE, dimt |-> <<>>,
           vars |-> <<>>]
  /\ defining' = TRUE
  /\ UNCHANGED store

(* The open mode is not looked at: a dataset is always open for writing.   *)
ESDM_open ==
  /\ ~IsOpen /\ store # NoContainer /\ Matching(store)
  /\ e' = Opened(store)
  /\ defining' = FALSE
  /\ UNCHANGED store

-----------------------------------------------------------------------------
(* Committing *)

(* What ncesdm_container_commit makes of the container.                    *)
Committed ==
  IF e.original_nc THEN [e.c EXCEPT !.nc_dims = {e.dimt}] ELSE e.c

(* The driver does nothing: only the client's mode changes.                *)
ESDM_redef ==
  /\ IsOpen /\ defining' = TRUE
  /\ UNCHANGED <<store, e>>

ESDM__enddef ==
  /\ IsOpen
  /\ store' = Committed
  /\ e' = [e EXCEPT !.c.nc_dims = {}]
  /\ defining' = FALSE

(* The hidden attributes stay.                                             *)
ESDM_sync ==
  /\ IsOpen
  /\ store' = Committed
  /\ e' = [e EXCEPT !.c = Committed]
  /\ UNCHANGED defining

ESDM_close ==
  /\ IsOpen
  /\ store' = Committed
  /\ e' = Closed
  /\ defining' = FALSE

(* The driver does nothing and nc_abort frees the NC object.  A crash of   *)
(* the process is the same to the container.                               *)
ESDM_abort ==
  /\ IsOpen
  /\ e' = Closed
  /\ defining' = FALSE
  /\ UNCHANGED store

-----------------------------------------------------------------------------
(* Dimensions and variables *)

(* A name that is there gets the new length, and the caller no id.         *)
ESDM_def_dim(name, len) ==
  LET k == Find(e.dimt, name) IN
  /\ IsOpen
  /\ IF k # 0
     THEN /\ "redefine" \in Unusual \/ e.dimt[k].size = len
          /\ e' = [e EXCEPT !.dimt[k].size = len]
     ELSE /\ Len(e.dimt) < MaxDims
          /\ e' = [e EXCEPT !.dimt = Append(@, [name |-> name, size |-> len])]
  /\ defining' = TRUE
  /\ UNCHANGED store

(* Bug: only the table is changed.                                         *)
ESDM_rename_dim_table(dimid, name) ==
  /\ IsOpen /\ dimid \in DOMAIN e.dimt /\ Find(e.dimt, name) = 0
  /\ e' = [e EXCEPT !.dimt[dimid].name = name]
  /\ UNCHANGED <<store, defining>>

ESDM_rename_dim(dimid, name) ==
  /\ IsOpen /\ dimid \in DOMAIN e.dimt
  /\ Find(e.dimt, name) = 0
  /\ e' = [e EXCEPT
       !.c.datasets = [i \in DOMAIN @ |->
                         DimsRenamed(@[i], e.dimt[dimid].name, name)],
       !.dimt[dimid].name = name]
  /\ UNCHANGED <<store, defining>>

(* esdm_dataset_create refuses a name that the container has.              *)
ESDM_def_var(name, dimids) ==
  /\ IsOpen /\ Len(e.vars) < MaxVars
  /\ Find(e.c.datasets, name) = 0
  /\ \A j \in DOMAIN dimids : dimids[j] \in DOMAIN e.dimt
  /\ e' = [e EXCEPT
       !.c.datasets = Append(@,
          [name |-> name, dims |-> [j \in DOMAIN dimids |-> e.dimt[dimids[j]]],
           atts |-> <<>>, fill |-> Default]),
       !.vars = Append(@, [dset |-> Len(e.c.datasets) + 1, dimids |-> dimids])]
  /\ defining' = TRUE
  /\ UNCHANGED store

(* There is no test whether the name is taken.                             *)
ESDM_rename_var(varid, name) ==
  /\ IsOpen /\ varid \in DOMAIN e.vars
  /\ "taken" \in Unusual \/ Find(e.c.datasets, name) = 0
  /\ e' = [e EXCEPT !.c.datasets[e.vars[varid].dset].name = name]
  /\ UNCHANGED <<store, defining>>

-----------------------------------------------------------------------------
(* Attributes and fill values *)

SetDataset(varid, dset) ==
  /\ e' = [e EXCEPT !.c.datasets[e.vars[varid].dset] = dset]
  /\ UNCHANGED <<store, defining>>
SetGlobal(atts) ==
  /\ e' = [e EXCEPT !.c.atts = atts]
  /\ UNCHANGED <<store, defining>>

(* Bug: the fill value of the dataset is forgotten.                        *)
ESDM_put_att_link(varid, name, m) ==
  LET dset == e.c.datasets[e.vars[varid].dset] IN
  SetDataset(varid, [dset EXCEPT !.atts = Linked(@, name, Converted[m])])

(* _FillValue is the fill value of the dataset too, and is of the          *)
(* variable's type, or the call is refused.  The memory it comes from may  *)
(* be of another: it is converted for the attribute, but not for ESDM.     *)
ESDM_put_att(varid, name, m) ==
  LET dset == e.c.datasets[e.vars[varid].dset] IN
  /\ "mistyped_fill" \in Unusual \/ name # FillAtt \/ m \in Typed
  /\ SetDataset(varid,
       [dset EXCEPT !.fill = IF name = FillAtt THEN Raw[m] ELSE @,
                    !.atts = Linked(@, name, Converted[m])])

(* A fill value of the variable's type, or none (NC_NOFILL or a null       *)
(* pointer).                                                               *)
ESDM_def_var_fill(varid, value) ==
  LET dset == e.c.datasets[e.vars[varid].dset] IN
  SetDataset(varid,
    IF value = Default
    THEN [dset EXCEPT !.fill = Default, !.atts = Unlinked(@, FillAtt)]
    ELSE [dset EXCEPT !.fill = value, !.atts = Linked(@, FillAtt, value)])

ESDM_del_att(varid, name) ==
  LET dset == e.c.datasets[e.vars[varid].dset] IN
  SetDataset(varid, [dset EXCEPT !.atts = Unlinked(@, name)])

(* ESDM_inq_attid finds the attribute; when there is none it returns       *)
(* nothing in particular and sets no number, so that any attribute may be  *)
(* renamed.  There is no test whether the new name is taken.               *)
AttsRenamed(atts, name, new) ==
  {[atts EXCEPT ![k].name = new] :
   k \in {k \in DOMAIN atts :
            /\ Find(atts, name) \in {0, k}
            /\ "taken" \in Unusual \/ Find(atts, new) = 0
            /\ "rename_fill" \in Unusual \/ new # FillAtt}}

ESDM_rename_att(varid, name, new) ==
  LET dset == e.c.datasets[e.vars[varid].dset] IN
  \E atts \in AttsRenamed(dset.atts, name, new) :
    SetDataset(varid, [dset EXCEPT !.atts = atts])

(* The same three for NC_GLOBAL, where _FillValue cannot be put.           *)
put_att_global(name, m) ==
  name # FillAtt /\ SetGlobal(Linked(e.c.atts, name, Converted[m]))
del_att_global(name) == SetGlobal(Unlinked(e.c.atts, name))
rename_att_global(name, new) ==
  \E atts \in AttsRenamed(e.c.atts, name, new) : SetGlobal(atts)

-----------------------------------------------------------------------------
(* A dataset that exists may have been written by a program that does not  *)
(* use netCDF.                                                             *)
Init ==
  /\ store \in {NoContainer} \cup Foreign
  /\ e = Closed
  /\ defining = FALSE

Attributes ==
  \/ \E varid \in DOMAIN e.vars :
       \/ \E value \in {Raw[m] : m \in Typed} \cup {Default} :
            FillAtt \in AttNames /\ ESDM_def_var_fill(varid, value)
       \/ \E name \in AttNames :
            \/ ESDM_del_att(varid, name)
            \/ \E new \in AttNames : ESDM_rename_att(varid, name, new)
            \/ \E m \in Memory : ESDM_put_att(varid, name, m)
  \/ \E name \in AttNames :
       \/ del_att_global(name)
       \/ \E new \in AttNames : rename_att_global(name, new)
       \/ \E m \in Memory : put_att_global(name, m)

Next ==
  \/ ESDM_create \/ ESDM_open \/ ESDM_close \/ ESDM_abort
  \/ ESDM_redef \/ ESDM__enddef \/ ESDM_sync
  \/ \E name \in DimNames :
       \/ \E len \in Lengths : ESDM_def_dim(name, len)
       \/ \E dimid \in 1 .. MaxDims : ESDM_rename_dim(dimid, name)
  \/ \E name \in VarNames :
       \/ \E varid \in 1 .. MaxVars : ESDM_rename_var(varid, name)
       \/ \E rank \in 0 .. MaxRank :
            \E dimids \in [1 .. rank -> 1 .. MaxDims] :
              ESDM_def_var(name, dimids)
  \/ IsOpen /\ Attributes

Spec == Init /\ [][Next]_vars
-----------------------------------------------------------------------------
(* Properties *)

Dimensions == [name : DimNames, size : Lengths]
Att        == [name : AttNames, value : Values]
Dataset    == [name : VarNames, dims : Seq(Dimensions), atts : Seq(Att),
               fill : Values \cup {Default}]
Container  == [datasets : Seq(Dataset), atts : Seq(Att),
               nc_dims : SUBSET Seq(Dimensions), exists : {TRUE}]

(* Names, lengths and values are those of the netCDF interface, and the    *)
(* dimension ids of every variable lie in the table of dimensions.         *)
TypeOK ==
  /\ store # NoContainer => store \in Container
  /\ IsOpen =>
       /\ e.c \in Container /\ e.original_nc \in BOOLEAN
       /\ e.dimt \in Seq(Dimensions) /\ Len(e.dimt) <= MaxDims
       /\ \A i \in DOMAIN e.vars : e.vars[i].dimids \in Seq(DOMAIN e.dimt)
  /\ defining \in BOOLEAN

(* No two dimensions of a dataset have the same name, so that a name in    *)
(* the container leads to one id.                                          *)
DimNamesUnique ==
  \A i, k \in DOMAIN e.dimt : e.dimt[i].name = e.dimt[k].name => i = k

(* The driver's two tables describe the container: ids count the datasets  *)
(* in the container's order (which ESDM_inq_varid uses), and the ids in    *)
(* dimidsp lead to the names and lengths that ESDM has for the dimensions. *)
TablesAgree ==
  IsOpen =>
    /\ DimNamesUnique
    /\ Len(e.vars) = Len(e.c.datasets)
    /\ \A i \in DOMAIN e.vars :
         LET v == e.vars[i] IN
         /\ v.dset = i
         /\ Len(v.dimids) = Len(e.c.datasets[i].dims)
         /\ \A j \in DOMAIN v.dimids :
              /\ v.dimids[j] \in DOMAIN e.dimt
              /\ e.dimt[v.dimids[j]] = e.c.datasets[i].dims[j]

(* What the driver has committed it can open again.                        *)
ReopenAccepted == store # NoContainer => Matching(store)

(* "The _FillValue attribute specifies the fill value used": what a client *)
(* reads from the attribute is what ESDM fills with                        *)
(* (docs/attribute_conventions.md).                                        *)
FillAttrMatches ==
  IsOpen => \A i \in DOMAIN e.c.datasets :
    LET dset == e.c.datasets[i]
        k    == Find(dset.atts, FillAtt)
    IN k # 0 => dset.atts[k].value = dset.fill
=============================================================================
