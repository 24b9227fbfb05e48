------------------------------ MODULE HDF5File ------------------------------
(* The HDF5 library as the netCDF-4 code uses it: the root group of a file *)
(* with its links in the order of their creation, data sets that are       *)
(* dimension scales or have scales attached, and a call that fails.  HDF5  *)
(* is not part of the repository.                                          *)
(*                                                                         *)
(* The operators take a record with the fields links, sets and err, and    *)
(* possibly more, and return it as the call leaves it.  Once a call failed *)
(* nothing changes any more.  A data set is known by its number.           *)
EXTENDS Integers, SequencesExt

None     == 0   (* no data set: an hid_t that is not open                  *)
Unset    == -1  (* no _Netcdf4Dimid attribute                              *)

EmptyFile == [links |-> <<>>, sets |-> [x \in {} |-> 0]]

Failed(w)  == w.err # "none"
Fail(w, e) == IF Failed(w) THEN w ELSE [w EXCEPT !.err = e]

LinkOf(w, name) == SelectInSeq(w.links, LAMBDA l : l.name = name)
Exists(w, name) == LinkOf(w, name) # 0

ScalesOf(set) == UNION Range(set.scales)
Attached(w)   == UNION {ScalesOf(w.sets[i]) : i \in DOMAIN w.sets}

(* The number the next data set gets: the least one nothing refers to.     *)
FreshSet(w) ==
  LET used == DOMAIN w.sets \cup Attached(w)
  IN CHOOSE i \in 1 .. Cardinality(used) + 1 :
       i \notin used /\ \A k \in 1 .. i - 1 : k \in used

(* H5Dcreate, H5Gunlink and H5Gmove: a moved link is the newest one.       *)
Create(w, name, set) ==
  IF Failed(w) \/ Exists(w, name) THEN Fail(w, "hdf5")
  ELSE [w EXCEPT !.links = Append(@, [name |-> name, set |-> FreshSet(w)]),
                 !.sets = (FreshSet(w) :> set) @@ @]
Unlink(w, name) ==
  IF Failed(w) \/ ~Exists(w, name) THEN Fail(w, "hdf5")
  ELSE [w EXCEPT !.links = RemoveAt(@, LinkOf(w, name))]
Move(w, name, to) ==
  IF Failed(w) \/ ~Exists(w, name) \/ Exists(w, to) THEN Fail(w, "hdf5")
  ELSE [w EXCEPT !.links = Append(RemoveAt(@, LinkOf(w, name)),
                    [name |-> to, set |-> @[LinkOf(w, name)].set])]

(* H5DSattach_scale and H5DSdetach_scale: a data set that has scales       *)
(* cannot be one, a scale has none, what is attached is a scale from then  *)
(* on, and only what is attached can be detached.                          *)
Attach(w, i, s, d) ==
  IF \/ Failed(w) \/ s \notin DOMAIN w.sets \/ s = i
     \/ w.sets[i].scale # "no" \/ ScalesOf(w.sets[s]) # {}
  THEN Fail(w, "hdf5")
  ELSE [w EXCEPT !.sets[i].scales[d] = @ \cup {s},
                 !.sets[s].scale = IF @ = "no" THEN "var" ELSE @]
Detach(w, i, s, d) ==
  IF Failed(w) \/ s \notin w.sets[i].scales[d] THEN Fail(w, "hdf5")
  ELSE [w EXCEPT !.sets[i].scales[d] = @ \ {s}]

(* A data set lasts while a link leads to it or a handle is open.          *)
Reclaimed(w, open) ==
  LET kept == {w.links[k].set : k \in DOMAIN w.links} \cup open
  IN [w EXCEPT !.sets = [i \in DOMAIN @ \cap kept |-> @[i]]]
=============================================================================
