------------------------------ MODULE NC4Coord ------------------------------
(* netCDF-4: how libhdf5 keeps dimensions and variables in an HDF5 file.   *)
(* A dimension is a dimension scale: a data set of its own, or the data    *)
(* set of the coordinate variable, the variable that has the dimension's   *)
(* name and the dimension first.  Definitions and renames after the file   *)
(* was written have to turn the one into the other and back, and what the  *)
(* file holds has to mean the same when it is read again.                  *)
(*                                                                         *)
(* One file with its root group, dimensions of fixed length, no attributes *)
(* but _FillValue, no classic model.  Dimension ids count from 0 as in the *)
(* code, variable ids from 1.  Strings are compared, never built: a link's *)
(* name is a netCDF name with or without "_nc4_non_coord_".                *)
EXTENDS HDF5File

CONSTANTS
  Names,    (* of dimensions and of variables                              *)
  Fills,    (* fill values a client sets                                   *)
  Default,  (* the default fill value of the type                          *)
  Absent,   (* there is no file                                            *)
  Ranks,      (* of the variables a client defines                         *)
  MaxObjects, (* bounds: of dimensions and variables together, of the      *)
  MaxPlaces,  (* ranks of all variables together, of the variables with a  *)
  MaxMarked,  (* fill value or data, and of the dimension ids when a file  *)
  MaxIds,     (* is opened                                                 *)
  Unusual   (* what clients do that the code has trouble with              *)

ASSUME NamesAssumption == IsFiniteSet(Names) /\ Default \notin Fills

VARIABLES
  w,    (* the metadata in memory and the HDF5 file: dims, vars, next      *)
        (* (next_dimid), links, sets, and err: a failed call or assertion  *)
  mode, (* NC_INDEF and redef of NC_FILE_INFO_T, no file, a closed file    *)
  touched (* history: a definition changed the file, not yet the metadata  *)

vars == <<w, mode, touched>>

Plain(n)    == [pre |-> FALSE, name |-> n]
NonCoord(n) == [pre |-> TRUE, name |-> n]

VarOf(x, n) == SelectInSeq(x.vars, LAMBDA v : v.name = n)
DimOf(x, n) == SelectInSeq(x.dims, LAMBDA d : d.name = n)
(* nc4_find_dim: alldims is indexed by id, the group's list by position.   *)
DimPos(x, id) == SelectLastInSeq(x.dims, LAMBDA d : d.id = id)

(* What stands for a dimension in the file: hdf_dimscaleid or the data set *)
(* of the coordinate variable; None if it is not there.                    *)
DimSet(x, i) ==
  LET c == x.dims[i].coord_var
  IN IF c # 0 THEN x.vars[c].set ELSE x.dims[i].scaleid

Asserted(x, p) == IF p THEN x ELSE Fail(x, "assert")
NoneAttached(v) == [d \in DOMAIN v.dimids |-> FALSE]
NULL == <<>>

(* The places of a dimension in variables that are not scales.             *)
Uses(x, id) ==
  {<<j, d>> \in (DOMAIN x.vars) \X (1 .. MaxPlaces) :
     /\ ~x.vars[j].dimscale /\ x.vars[j].created
     /\ d \in DOMAIN x.vars[j].dimids /\ x.vars[j].dimids[d] = id}

AttachAt(x, j, d, s) ==
  LET y == Attach(x, x.vars[j].set, s, d)
  IN IF x.vars[j].attached = NULL THEN Fail(y, "assert")
     ELSE [y EXCEPT !.vars[j].attached[d] = TRUE]
DetachAt(x, j, d, s) ==
  [Detach(x, x.vars[j].set, s, d) EXCEPT !.vars[j].attached[d] = FALSE]

rec_reattach_scales(x, id, s) ==
  FoldSet(LAMBDA p, y : AttachAt(y, p[1], p[2], s), x, Uses(x, id))
rec_detach_scales(x, id, s) ==
  FoldSet(LAMBDA p, y : DetachAt(y, p[1], p[2], s), x,
          {p \in Uses(x, id) : /\ x.vars[p[1]].attached # NULL
                               /\ x.vars[p[1]].attached[p[2]]})

-----------------------------------------------------------------------------
(* Coordinate variables are made and broken *)

delete_existing_dimscale_dataset(x, i) ==
  LET y == rec_detach_scales(x, x.dims[i].id, x.dims[i].scaleid)
  IN Unlink([y EXCEPT !.dims[i].scaleid = None], Plain(x.dims[i].name))

(* A bug to catch: the dimension keeps its coordinate variable.            *)
Break_keep(x, j, i) ==
  [rec_detach_scales(x, x.dims[i].id, x.vars[j].set) EXCEPT
     !.vars[j].attached = NoneAttached(x.vars[j]), !.vars[j].dimscale = FALSE,
     !.vars[j].was = TRUE, !.vars[j].became = FALSE]

nc4_break_coord_var(x, j, i) ==
  LET ok == /\ x.dims[i].coord_var = j /\ x.vars[j].dimids[1] = x.dims[i].id
            /\ x.dims[i].scaleid = None /\ x.vars[j].attached = NULL
      y  == rec_detach_scales(Asserted(x, ok), x.dims[i].id, x.vars[j].set)
  IN [y EXCEPT !.vars[j].attached = NoneAttached(x.vars[j]),
               !.vars[j].dimscale = FALSE,
               !.vars[j].was = TRUE, !.vars[j].became = FALSE,
               !.dims[i].coord_var = 0]

(* The scales of a variable, detached one by one.  A dimension that is not *)
(* in the file any more is detached already, or must not happen.           *)
ScaleAt(x, j, d) == DimSet(x, DimPos(x, x.vars[j].dimids[d]))
DetachAll(x, j, missing) ==
  FoldSet(LAMBDA d, y :
            IF ScaleAt(y, j, d) # None THEN DetachAt(y, j, d, ScaleAt(y, j, d))
            ELSE [Asserted(y, missing) EXCEPT !.vars[j].attached[d] = FALSE],
          x, {d \in DOMAIN x.vars[j].attached : x.vars[j].attached[d]})

(* The data set of a variable becomes the scale at once if there is one in *)
(* use; otherwise the next write of the variable has to see to it.         *)
JoinDim(x, j, i) ==
  [(IF x.dims[i].scaleid = None THEN x
    ELSE Unlink([x EXCEPT !.dims[i].scaleid = None], Plain(x.dims[i].name)))
     EXCEPT !.vars[j].dimscale = TRUE, !.vars[j].attached = NULL,
            !.dims[i].coord_var = j]
nc4_reform_coord_var(x, j, i) ==
  IF x.vars[j].attached # NULL \/ x.vars[j].was
  THEN [rec_reattach_scales(JoinDim(DetachAll(x, j, TRUE), j, i),
                            x.dims[i].id, x.vars[j].set)
          EXCEPT !.vars[j].was = FALSE]
  ELSE [JoinDim(x, j, i) EXCEPT !.vars[j].became = TRUE]

-----------------------------------------------------------------------------
(* Writing the metadata *)

WriteDimid(x, s, id) == IF Failed(x) THEN x ELSE [x EXCEPT !.sets[s].dimid = id]

NewSet(rank, scale, fill) ==
  [scale |-> scale, scales |-> [d \in 1 .. rank |-> {}], dimid |-> Unset,
   coords |-> <<>>, fill |-> fill, data |-> FALSE]

write_dim(x, i, ids) ==
  LET dim == x.dims[i]
      y == IF dim.scaleid # None THEN x
           ELSE [Create(x, Plain(dim.name), NewSet(1, "dim", Default))
                   EXCEPT !.dims[i].scaleid = FreshSet(x)]
  IN IF ids THEN WriteDimid(y, y.dims[i].scaleid, dim.id) ELSE y

var_create_dataset(x, j, ids) ==
  LET v    == x.vars[j]
      rank == Len(v.dimids)
      set  == [NewSet(rank, IF v.dimscale THEN "var" ELSE "no", v.fill) EXCEPT
                 !.coords = IF v.dimscale /\ rank > 1 THEN v.dimids ELSE <<>>,
                 !.dimid  = IF v.dimscale /\ ids THEN v.dimids[1] ELSE Unset]
      y    == IF v.att_null THEN Fail(x, "null") ELSE x
  IN [Create(y, IF v.hdf5_name = NULL THEN Plain(v.name) ELSE v.hdf5_name, set)
        EXCEPT !.vars[j].set = FreshSet(x),
               !.vars[j].created = TRUE, !.vars[j].is_new_var = FALSE]

remove_coord_atts(x, s) ==
  [x EXCEPT !.sets[s].dimid = Unset, !.sets[s].scale = "no"]

(* write_var, step by step.  Is the data set made anew?  Then it is        *)
(* detached from the variables it is a scale of.                           *)
There(x, j) ==
  DimOf(x, x.vars[j].name) # 0 /\ Exists(x, Plain(x.vars[j].name))
Replaces(x, j) ==
  \/ x.vars[j].created /\ x.vars[j].fill_val_changed
  \/ x.vars[j].became /\ There(x, j)
DetachOld(x, j) ==
  LET dims == x.vars[j].dimids
      s    == DimSet(x, DimOf(x, x.vars[j].name))
  IN IF ~There(x, j) THEN x
     ELSE IF s = None \/ dims = <<>> THEN Fail(x, "assert")
     ELSE rec_detach_scales(x, dims[1], s)

(* A bug to catch: the data set stays a scale.                             *)
EndScale_stays(x, j) ==
  IF ~x.vars[j].was \/ x.vars[j].attached = NULL THEN x
  ELSE DetachAll(x, j, FALSE)

(* A former coordinate variable is no scale any more.                      *)
EndScale(x, j) ==
  IF ~x.vars[j].was \/ x.vars[j].attached = NULL THEN x
  ELSE DetachAll(IF x.vars[j].created THEN remove_coord_atts(x, x.vars[j].set)
                 ELSE x, j, FALSE)

DropSet(x, j) == Unlink([x EXCEPT !.vars[j].set = None], Plain(x.vars[j].name))
(* A bug to catch: the new data set is not attached again.                 *)
Reattach_never(x, j) == x

ReattachNew(x, j) ==
  IF x.vars[j].dimscale
  THEN rec_reattach_scales(x, x.vars[j].dimids[1], x.vars[j].set)
  ELSE [x EXCEPT !.vars[j].attached =
          IF @ = NULL THEN NULL ELSE NoneAttached(x.vars[j])]
MakeSet(x, j, ids) ==
  IF x.vars[j].is_new_var THEN var_create_dataset(x, j, ids)
  ELSE IF ids /\ x.vars[j].dimids # <<>>
  THEN WriteDimid(x, x.vars[j].set, x.vars[j].dimids[1])
  ELSE x

write_var(x, j, ids) ==
  LET done(y) == [y EXCEPT !.vars[j].was = FALSE, !.vars[j].became = FALSE,
                           !.vars[j].fill_val_changed = FALSE]
      anew(y) == ReattachNew(var_create_dataset(DropSet(y, j), j, ids), j)
  IN IF Failed(x) THEN x
     ELSE IF Replaces(x, j) THEN done(anew(EndScale(DetachOld(x, j), j)))
     ELSE done(MakeSet(EndScale(x, j), j, ids))

(* A bug to catch: coordinate variables of rank two need no ids.           *)
Detect_flat(x) ==
  \E j, k \in {i \in DOMAIN x.vars : x.vars[i].dimscale} :
    k < j /\ x.vars[j].dimids[1] < x.vars[k].dimids[1]

(* Should the ids of the dimensions be written with them?                  *)
nc4_detect_preserve_dimids(x) ==
  LET coord == {j \in DOMAIN x.vars : x.vars[j].dimscale}
  IN \E j \in coord :
       \/ Len(x.vars[j].dimids) > 1 \/ x.vars[j].is_new_var \/ x.vars[j].became
       \/ \E k \in coord : k < j /\ x.vars[j].dimids[1] < x.vars[k].dimids[1]

(* Dimensions in their order; at one with a coordinate variable, the       *)
(* variables up to that one; at last the others.                           *)
write_vars(acc, to, ids) ==
  [x    |-> FoldLeft(LAMBDA y, k : write_var(y, acc.done + k, ids), acc.x,
                     [k \in 1 .. to - acc.done |-> k]),
   done |-> to]
nc4_rec_write_metadata(x, ids) ==
  LET upto(acc, i) ==
        IF x.dims[i].coord_var = 0 THEN acc.done
        ELSE IF x.dims[i].coord_var > acc.done THEN x.dims[i].coord_var
        ELSE Len(x.vars)
      dimAt(acc, i) == IF x.dims[i].coord_var # 0 THEN acc
                       ELSE [acc EXCEPT !.x = write_dim(@, i, ids)]
      steps == [k \in 1 .. Len(x.dims) + 1 |-> k]
  IN FoldLeft(LAMBDA acc, k :
                IF k > Len(x.dims) THEN write_vars(acc, Len(x.vars), ids)
                ELSE write_vars(dimAt(acc, k), upto(acc, k), ids),
              [x |-> x, done |-> 0], steps).x

attach_dimscales(x) ==
  LET places == {<<j, d>> \in (DOMAIN x.vars) \X (1 .. MaxPlaces) :
                   /\ ~x.vars[j].dimscale /\ d \in DOMAIN x.vars[j].attached
                   /\ ~x.vars[j].attached[d]}
      at(p, y) == LET s == DimSet(y, DimPos(y, y.vars[p[1]].dimids[p[2]]))
                  IN AttachAt(Asserted(y, s # None), p[1], p[2], s)
  IN FoldSet(at, x, places)

sync_netcdf4_file(x) ==
  attach_dimscales(nc4_rec_write_metadata(x, nc4_detect_preserve_dimids(x)))

-----------------------------------------------------------------------------
(* Reading the metadata *)

ReadVar(set, l) ==
  [name |-> l.name.name, hdf5_name |-> NULL,
   dimids |-> [d \in DOMAIN set.scales |-> Unset], dimscale |-> FALSE,
   created |-> TRUE, is_new_var |-> FALSE, was |-> FALSE, became |-> FALSE,
   attached |-> NULL, set |-> l.set, fill |-> set.fill,
   fill_val_changed |-> FALSE, written |-> FALSE, att_null |-> FALSE]

AllWritten(x) ==
  FoldSet(LAMBDA j, y : [y EXCEPT !.vars[j].written = TRUE], x, DOMAIN x.vars)

(* A bug to catch: the next id is counted, not taken from the ids read.    *)
Scale_counts(x, l) ==
  LET set == x.sets[l.set]
  IN [x EXCEPT !.next = @ + 1,
        !.dims = Append(@, [name |-> l.name.name,
                   id |-> IF set.dimid = Unset THEN x.next ELSE set.dimid,
                   coord_var |-> 0,
                   scaleid |-> IF set.scale = "dim" THEN l.set ELSE None])]

read_scale(x, l) ==
  LET set == x.sets[l.set]
      id  == IF set.dimid = Unset THEN x.next ELSE set.dimid
  IN [x EXCEPT !.next = IF id >= @ THEN id + 1 ELSE @,
               !.dims = Append(@, [name |-> l.name.name, id |-> id,
                          coord_var |-> 0,
                          scaleid |-> IF set.scale = "dim" THEN l.set ELSE None])]

(* A coordinate variable of rank above one has its dimension ids in an     *)
(* attribute; any other has its own dimension.                             *)
read_coord_var(x, l) ==
  LET set == x.sets[l.set]
      ok  == IF Len(set.scales) > 1 THEN set.coords # <<>>
             ELSE Len(set.scales) = 1 /\ ~l.name.pre
      ids == IF Len(set.scales) > 1 THEN set.coords ELSE <<Last(x.dims).id>>
  IN [Asserted(x, ok) EXCEPT
        !.vars = Append(@, [ReadVar(set, l) EXCEPT !.dimscale = TRUE,
                                                   !.dimids = ids]),
        !.dims[Len(x.dims)].coord_var = Len(x.vars) + 1]

(* Whether the scales of a variable count is told by those of its first    *)
(* dimension; a scale that is gone cannot be visited.                      *)
read_other_var(x, l) ==
  LET set == x.sets[l.set]
      has == set.scales # <<>> /\ set.scales[1] # {}
  IN [Asserted(x, has => ScalesOf(set) \subseteq DOMAIN x.sets) EXCEPT
        !.vars = Append(@, [ReadVar(set, l) EXCEPT !.attached =
                   IF has THEN [d \in DOMAIN set.scales |-> TRUE] ELSE NULL])]

read_dataset(x, l) ==
  IF x.sets[l.set].scale = "no" THEN read_other_var(x, l)
  ELSE LET y == read_scale(x, l)
       IN IF x.sets[l.set].scale = "dim" THEN y ELSE read_coord_var(y, l)

(* Variables get the dimensions whose data sets they are attached to; one  *)
(* with none gets phony dimensions, which is not followed any further.     *)
nc4_rec_match_dimscales(x) ==
  LET owner(s) == SelectInSeq(x.dims, LAMBDA d :
                    s = IF d.coord_var # 0 THEN x.vars[d.coord_var].set
                        ELSE d.scaleid)
      idAt(v, d) ==
        IF \E s \in x.sets[v.set].scales[d] : owner(s) # 0
        THEN x.dims[owner(CHOOSE s \in x.sets[v.set].scales[d] :
                            owner(s) # 0)].id
        ELSE Unset
      matched(v) ==
        IF v.dimscale \/ v.attached = NULL THEN v
        ELSE [v EXCEPT !.dimids = [d \in DOMAIN @ |-> idAt(v, d)]]
      phony == \E j \in DOMAIN x.vars :
                 LET v == x.vars[j]
                 IN ~v.dimscale /\ v.attached = NULL /\ v.dimids # <<>>
  IN [(IF phony THEN Fail(x, "phony") ELSE x)
        EXCEPT !.vars = [j \in DOMAIN @ |-> matched(@[j])]]

OnlyFile(x) == [x EXCEPT !.dims = <<>>, !.vars = <<>>, !.next = 0]

(* Every variable of a file counts as written, with or without data.       *)
nc4_rec_read_metadata(x) ==
  nc4_rec_match_dimscales(
    AllWritten(FoldLeft(read_dataset, OnlyFile(x), x.links)))

-----------------------------------------------------------------------------
(* The calls *)

Open(x) == {x.vars[j].set : j \in DOMAIN x.vars}
             \cup {x.dims[i].scaleid : i \in DOMAIN x.dims}
Become(x) == w' = Reclaimed(x, Open(x)) /\ w.err = "none"
Define(x) ==
  Become(x) /\ touched' = (touched \/ x.links # w.links \/ x.sets # w.sets)
Write(x)  == Become(x) /\ touched' = FALSE
IsOpen    == mode \in {"define", "redef", "data"}
Objects   == Len(w.dims) + Len(w.vars)
Places    == FoldSet(LAMBDA j, n : n + Len(w.vars[j].dimids), 0, DOMAIN w.vars)
HasData(v) == v.set \in DOMAIN w.sets /\ w.sets[v.set].data
Marked    == {j \in DOMAIN w.vars :
                w.vars[j].fill # Default \/ HasData(w.vars[j])}
InDefine  == mode \in {"define", "redef"}

(* A change that needs define mode enters it.                              *)
Redefining == mode' = IF mode = "data" THEN "redef" ELSE mode

(* What clients do is limited to what the code copes with, but for what    *)
(* Unusual names.                                                          *)
Usual(habit, p) == habit \in Unusual \/ ~p

Init ==
  /\ w = [dims |-> <<>>, vars |-> <<>>, next |-> 0,
          links |-> <<>>, sets |-> EmptyFile.sets, err |-> "none"]
  /\ mode = "none" /\ touched = FALSE

nc_create == mode = "none" /\ mode' = "define" /\ UNCHANGED <<w, touched>>

NC4_def_dim(n) ==
  /\ IsOpen /\ Objects < MaxObjects
  /\ DimOf(w, n) = 0
  /\ Usual("clash", VarOf(w, n) # 0)
  /\ Define([w EXCEPT !.next = @ + 1,
                !.dims = Append(@, [name |-> n, id |-> w.next, coord_var |-> 0,
                                    scaleid |-> None])])
  /\ Redefining

Prefixed(v) ==
  \/ v.hdf5_name # NULL
  \/ \E k \in DOMAIN w.links : w.links[k].set = v.set /\ w.links[k].name.pre
OthersPending(x, j) ==
  \E k \in DOMAIN x.vars : k # j /\ (x.vars[k].was \/ x.vars[k].became)
WasScale(x, j) ==
  /\ x.vars[j].was /\ x.vars[j].created
  /\ LET set == x.sets[x.vars[j].set]
     IN set.scale # "no" /\ (Len(set.scales) > 1 => set.coords # <<>>)
OwnDim(x, j, i) ==
  x.vars[j].dimids # <<>> /\ x.vars[j].dimids[1] = x.dims[i].id
NC4_rename_dim(i, n) ==
  LET j   == VarOf(w, n)
      dim == w.dims[i]
      noScale(x) == IF x.dims[i].scaleid = None THEN x
                    ELSE delete_existing_dimscale_dataset(x, i)
      noVar(x) == IF x.dims[i].coord_var = 0 THEN x
                  ELSE nc4_break_coord_var(x, x.dims[i].coord_var, i)
      newVar(x) == IF j = 0 THEN x
                   ELSE IF x.vars[j].dimids = <<>> THEN Fail(x, "null")
                   ELSE IF x.vars[j].dimids[1] # x.dims[i].id THEN x
                   ELSE nc4_reform_coord_var(x, j, i)
  IN /\ IsOpen /\ DimOf(w, n) = 0
     /\ Usual("clash", j # 0 /\ ~OwnDim(w, j, i))
     /\ Usual("switch", \E k \in {j, dim.coord_var} \ {0} : OthersPending(w, k))
     /\ Usual("dim_into", j # 0 /\ (dim.coord_var # 0 \/ ~WasScale(w, j)))
     /\ Usual("two_ids", j # 0 /\ Len(w.dims) > 1)
     /\ Define(newVar(noVar([noScale(w) EXCEPT !.dims[i].name = n])))
     /\ UNCHANGED mode

NC4_def_var(n, ids) ==
  LET i     == DimOf(w, n)
      coord == i # 0 /\ ids # <<>> /\ ids[1] = w.dims[i].id
      x     == IF ~coord \/ w.dims[i].scaleid = None THEN w
               ELSE delete_existing_dimscale_dataset(w, i)
      y     == IF coord THEN [x EXCEPT !.dims[i].coord_var = Len(w.vars) + 1]
               ELSE x
  IN /\ IsOpen /\ Objects < MaxObjects /\ Places + Len(ids) <= MaxPlaces
     /\ VarOf(w, n) = 0
     /\ Define([y EXCEPT !.vars = Append(@,
          [name |-> n, hdf5_name |-> IF i # 0 /\ ~coord THEN NonCoord(n) ELSE NULL,
           dimids |-> ids, dimscale |-> coord,
           created |-> FALSE, is_new_var |-> TRUE, was |-> FALSE,
           became |-> FALSE,
           attached |-> IF coord THEN NULL ELSE [d \in DOMAIN ids |-> FALSE],
           set |-> None, fill |-> Default, fill_val_changed |-> FALSE,
           written |-> FALSE, att_null |-> FALSE])])
     /\ Redefining

NC4_rename_var(j, n) ==
  LET v == w.vars[j]
      i == IF v.dimids = <<>> THEN 0 ELSE DimPos(w, v.dimids[1])
      noScale(x) == IF i = 0 THEN x ELSE IF x.dims[i].scaleid = None THEN x
                    ELSE delete_existing_dimscale_dataset(x, i)
      linked(x) == IF ~v.created THEN x
                  ELSE Move(noScale(x), Plain(v.name), Plain(n))
      noDim(x) == IF ~v.dimscale THEN x ELSE nc4_break_coord_var(x, j, i)
      newDim(x) == IF i = 0 THEN x ELSE IF x.dims[i].name # n THEN x
                   ELSE [nc4_reform_coord_var(x, j, i) EXCEPT
                           !.vars[j].became = TRUE]
  IN /\ IsOpen /\ VarOf(w, n) = 0
     /\ Usual("prefixed", Prefixed(v))
     /\ Usual("clash", DimOf(w, n) \notin {0, i})
     /\ Usual("switch", (v.dimscale \/ DimOf(w, n) # 0) /\ OthersPending(w, j))
     /\ Usual("new_into", DimOf(w, n) # 0 /\ ~v.created)
     /\ Usual("data_into", DimOf(w, n) # 0 /\ HasData(v))
     /\ Define(newDim(noDim([linked(w) EXCEPT !.vars[j].name = n])))
     /\ UNCHANGED mode

(* _FillValue: refused once nc_enddef, an open or a put marked the         *)
(* variable written; a new attribute is in the list by then, without data. *)
nc4_put_att(j, f) ==
  LET v   == w.vars[j]
      new == v.fill = Default /\ ~v.att_null
  IN /\ IsOpen /\ Cardinality(Marked \cup {j}) <= MaxMarked
     /\ Usual("late_fill", v.written /\ new)
     /\ Usual("prefixed", v.created /\ ~v.written /\ Prefixed(v))
     /\ IF new THEN Redefining ELSE UNCHANGED mode
     /\ Define(IF v.written THEN [w EXCEPT !.vars[j].att_null = new \/ @]
               ELSE [w EXCEPT !.vars[j].fill = f,
                              !.vars[j].fill_val_changed = @ \/ v.created])

NC4_put_vara(j) ==
  LET put(x) == IF Failed(x) THEN x
                ELSE [x EXCEPT !.vars[j].written = TRUE,
                               !.sets[x.vars[j].set].data = TRUE]
  IN /\ IsOpen /\ Cardinality(Marked \cup {j}) <= MaxMarked
     /\ Usual("data_into", mode = "data" /\ w.vars[j].became)
     /\ Usual("pending_fill", mode = "data" /\ w.vars[j].fill_val_changed)
     /\ IF InDefine THEN Write(put(sync_netcdf4_file(w)))
        ELSE Become(put(w)) /\ UNCHANGED touched
     /\ mode' = "data"

(* A get leaves define mode like a put, and like a put that marks no other *)
(* variable written.  In data mode it changes nothing.                     *)
NC4_get_vara ==
  InDefine /\ Write(sync_netcdf4_file(w)) /\ mode' = "data"

NC4_redef == mode = "data" /\ mode' = "redef" /\ UNCHANGED <<w, touched>>
NC4_enddef ==
  InDefine /\ Write(sync_netcdf4_file(AllWritten(w))) /\ mode' = "data"
NC4_sync ==
  /\ IsOpen /\ mode' = "data"
  /\ Write(sync_netcdf4_file(
       IF InDefine THEN sync_netcdf4_file(AllWritten(w)) ELSE w))

CloseFile(x) ==
  /\ w' = Reclaimed(OnlyFile(x), {}) /\ w.err = "none"
  /\ mode' = "closed" /\ touched' = FALSE
NC4_close == IsOpen /\ CloseFile(sync_netcdf4_file(w))
NC4_abort ==
  \/ mode \in {"redef", "data"} /\ Usual("abort", touched) /\ CloseFile(w)
  \/ /\ mode = "define"
     /\ mode' = "none" /\ touched' = FALSE
     /\ w' = OnlyFile([w EXCEPT !.links = <<>>, !.sets = EmptyFile.sets])

nc4_open_file ==
  /\ mode = "closed" /\ mode' = "data"
  /\ Write(nc4_rec_read_metadata(w)) /\ w'.next <= MaxIds

-----------------------------------------------------------------------------
Dimids == {w.dims[i].id : i \in DOMAIN w.dims}

Definitions ==
  \/ \E n \in Names :
       \/ NC4_def_dim(n)
       \/ \E i \in DOMAIN w.dims : NC4_rename_dim(i, n)
       \/ \E k \in Ranks : \E ids \in [1 .. k -> Dimids] : NC4_def_var(n, ids)
       \/ \E j \in DOMAIN w.vars : NC4_rename_var(j, n)
  \/ \E j \in DOMAIN w.vars, f \in Fills : nc4_put_att(j, f)

Next ==
  \/ nc_create
  \/ Definitions
  \/ \E j \in DOMAIN w.vars : NC4_put_vara(j)
  \/ w.vars # <<>> /\ NC4_get_vara
  \/ NC4_redef
  \/ NC4_enddef
  \/ NC4_sync
  \/ NC4_close
  \/ NC4_abort
  \/ nc4_open_file

Spec == Init /\ [][Next]_vars

-----------------------------------------------------------------------------
(* What an open dataset means, and a closed one to the next that opens it. *)
Meaning(x) ==
  LET nameOf(id) == IF DimPos(x, id) = 0 THEN "lost" ELSE x.dims[DimPos(x, id)].name
      meant(v) == [shape |-> [d \in DOMAIN v.dimids |-> nameOf(v.dimids[d])],
                   fill |-> v.fill,
                   data |-> v.set \in DOMAIN x.sets /\ x.sets[v.set].data]
  IN [dims |-> {x.dims[i].name : i \in DOMAIN x.dims},
      vars |-> [n \in {x.vars[j].name : j \in DOMAIN x.vars} |->
                  meant(x.vars[VarOf(x, n)])]]

Unreadable == [dims |-> {"unreadable"}, vars |-> <<>>]
Contents(x, m) ==
  CASE m = "none"   -> Absent
    [] m = "closed" -> LET y == nc4_rec_read_metadata(x)
                       IN IF Failed(y) THEN Unreadable ELSE Meaning(y)
    [] OTHER        -> Meaning(x)

(* The metadata in memory has the shape of NC_DIM_INFO_T and               *)
(* NC_VAR_INFO_T, and refers to dimensions, variables and data sets there  *)
(* are: coord_var and dimscale are two ends of one link, and a data set    *)
(* that is open is in the file or was until its link was removed.          *)
Flags == {"dimscale", "created", "is_new_var", "was", "became",
          "fill_val_changed", "written", "att_null"}
TypeOK ==
  /\ mode \in {"none", "define", "redef", "data", "closed"}
  /\ touched \in BOOLEAN
  /\ \A i \in DOMAIN w.dims :
       /\ w.dims[i].name \in Names /\ w.dims[i].id \in 0 .. w.next - 1
       /\ w.dims[i].scaleid \in DOMAIN w.sets \cup {None}
       /\ w.dims[i].coord_var \in {0} \cup DOMAIN w.vars
  /\ \A j \in DOMAIN w.vars :
       LET v == w.vars[j]
       IN /\ v.name \in Names /\ v.fill \in Fills \cup {Default}
          /\ \A x \in Flags : v[x] \in BOOLEAN
          /\ v.set \in DOMAIN w.sets \cup {None} /\ v.created = (v.set # None)
          /\ v.attached # NULL => DOMAIN v.attached = DOMAIN v.dimids
          /\ v.dimscale = (\E i \in DOMAIN w.dims : w.dims[i].coord_var = j)

(* A dimension is found by its id or its name: no two share one, in memory *)
(* and after the file is read again (hdf_dimscaleid, _Netcdf4Dimid).       *)
IdsDistinct ==
  \A i, k \in DOMAIN w.dims :
    w.dims[i].id = w.dims[k].id \/ w.dims[i].name = w.dims[k].name => i = k

(* Once the metadata is written, the scales the file attaches to a data    *)
(* set are those of the dimensions its variable has, in their places: what *)
(* renames took apart is put together again (attach_dimscales).            *)
ScalesAttached ==
  mode = "data" /\ ~touched =>
    \A j \in DOMAIN w.vars :
      LET v == w.vars[j]
          set == w.sets[v.set]
      IN v.created /\ set.scale = "no" =>
           \A d \in DOMAIN v.dimids :
             set.scales[d] = {DimSet(w, DimPos(w, v.dimids[d]))}

(* nc_sync takes no data away: what was put before is in the data set of   *)
(* its variable afterwards (NC4_put_vars, write_var).                      *)
SyncKeepsData ==
  [][NC4_sync => \A j \in DOMAIN w.vars :
                   HasData(w.vars[j]) => HasData(w.vars[j])']_vars

(* No call to HDF5 fails and no assertion does.                            *)
NoFault == w.err = "none"
=============================================================================
