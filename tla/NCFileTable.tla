---------------------------- MODULE NCFileTable ----------------------------
(***************************************************************************)
(* The table of open datasets of the netCDF library (nclistmgr.c) and the  *)
(* life of the NC objects it points to, as NC_create, NC_open, nc_close    *)
(* and nc_abort (dfile.c) drive it through a dispatcher.  Three            *)
(* dispatchers are told apart, because they treat failure differently:     *)
(* "NC3" (nc3internal.c), "ESDM" (esdm_dispatch.c) and "DAP2"              *)
(* (ncd2dispatch.c), whose open creates a second, hidden NC3 dataset (the  *)
(* substrate) while its own open is still in progress.                     *)
(*                                                                         *)
(* An external id is slot << ID_SHIFT; the model keeps the slot.  The id   *)
(* -1, which NCD2_open passes on when it never got a substrate, is kept    *)
(* as -1: shifted as an unsigned int it names the last slot.               *)
(***************************************************************************)
EXTENDS Integers, FiniteSets, Sequences

CONSTANTS
  NCs,              (* the NC objects that can be allocated               *)
  Kind,             (* the dispatcher that handles each of them           *)
  NCFILELISTLENGTH, (* the number of slots, slot 0 never used             *)
  NULL

Kinds == {"NC3", "ESDM", "DAP2"}

ASSUME KindAssumption   == Kind \in [NCs -> Kinds]
ASSUME LengthAssumption == NCFILELISTLENGTH \in Nat \ {0}
ASSUME NullAssumption   == NULL \notin NCs

VARIABLES
  nc_filelist, (* slot -> NC object or NULL                               *)
  allocated,   (* nc_filelist itself is not a null pointer                *)
  numfiles,
  ext_ncid,    (* ext_ncid of each NC object, 0 when never added          *)
  phase,       (* where each NC object is in its life                     *)
  data,        (* what its dispatchdata field refers to                   *)
  nc3id,       (* a DAP2 object's substrate.nc3id                         *)
  calls,       (* the opens in progress, the innermost one last           *)
  hidden       (* the NC objects created as substrates                    *)

vars == <<nc_filelist, allocated, numfiles, ext_ncid, phase, data, nc3id,
          calls, hidden>>

Slots  == 0 .. NCFILELISTLENGTH - 1
Phases == {"free", "opening", "building", "failing", "open"}

(* "live": allocated and owned; "null": no data; "dangling": freed but     *)
(* still pointed to.  A "free" object whose data is live has leaked it.    *)
DataStates == {"null", "live", "dangling"}

TypeOK ==
  /\ nc_filelist \in [Slots -> NCs \cup {NULL}]
  /\ allocated \in BOOLEAN
  /\ numfiles \in Int
  /\ ext_ncid \in [NCs -> Slots]
  /\ phase \in [NCs -> Phases]
  /\ data \in [NCs -> DataStates]
  /\ nc3id \in [NCs -> Slots \cup {-1}]
  /\ calls \in Seq(NCs)
  /\ hidden \in SUBSET NCs

Occupied == {i \in Slots : nc_filelist[i] # NULL}

-----------------------------------------------------------------------------
(* nclistmgr.c *)

FreeSlots == {i \in Slots : i # 0 /\ nc_filelist[i] = NULL}

(* Mutant: the id is numfiles, not the slot, so a reused slot gets a wrong *)
(* id.                                                                     *)
add_to_NCList_count(n) ==
  LET new_id == CHOOSE i \in FreeSlots : \A j \in FreeSlots : i <= j IN
  /\ nc_filelist' = [nc_filelist EXCEPT ![new_id] = n]
  /\ allocated' = TRUE
  /\ numfiles' = numfiles + 1
  /\ ext_ncid' = [ext_ncid EXCEPT ![n] = numfiles + 1]

(* Mutant: the id is shifted twice.                                        *)
add_to_NCList_shift(n) ==
  LET new_id == CHOOSE i \in FreeSlots : \A j \in FreeSlots : i <= j IN
  /\ nc_filelist' = [nc_filelist EXCEPT ![new_id] = n]
  /\ allocated' = TRUE
  /\ numfiles' = numfiles + 1
  /\ ext_ncid' = [ext_ncid EXCEPT ![n] = new_id * 65536]

(* A full table leaves ext_ncid at the 0 that calloc put there.            *)
add_to_NCList(n) ==
  IF FreeSlots = {}
  THEN /\ ext_ncid' = [ext_ncid EXCEPT ![n] = 0]
       /\ UNCHANGED <<nc_filelist, allocated, numfiles>>
  ELSE LET new_id == CHOOSE i \in FreeSlots : \A j \in FreeSlots : i <= j IN
       /\ nc_filelist' = [nc_filelist EXCEPT ![new_id] = n]
       /\ allocated' = TRUE
       /\ numfiles' = (IF allocated THEN numfiles ELSE 0) + 1
       /\ ext_ncid' = [ext_ncid EXCEPT ![n] = new_id]

IsListed(n) ==
  /\ numfiles # 0 /\ allocated
  /\ ext_ncid[n] # 0
  /\ nc_filelist[ext_ncid[n]] = n

(* Mutant: the slot is cleared and numfiles is not decremented.            *)
del_from_NCList_nodec(S) ==
  LET gone == {n \in S : IsListed(n)} IN
  /\ nc_filelist' = [i \in Slots |-> IF nc_filelist[i] \in gone
                                     THEN NULL ELSE nc_filelist[i]]
  /\ UNCHANGED <<numfiles, allocated, ext_ncid>>

(* Delete a set of objects; the table is freed with its last entry.        *)
del_from_NCList(S) ==
  LET gone == {n \in S : IsListed(n)} IN
  /\ nc_filelist' = [i \in Slots |-> IF nc_filelist[i] \in gone /\
                                        i = ext_ncid[nc_filelist[i]]
                                     THEN NULL ELSE nc_filelist[i]]
  /\ numfiles' = numfiles - Cardinality(gone)
  /\ allocated' = (allocated /\ (gone = {} \/ numfiles' # 0))
  /\ UNCHANGED ext_ncid

(* The object an id names, or NULL: NC_check_id returns NC_EBADID.  The id *)
(* -1 is not a multiple of 1 << ID_SHIFT, which only NC3 objects reject.   *)
find_in_NCList(id) ==
  LET f == nc_filelist[IF id = -1 THEN NCFILELISTLENGTH - 1 ELSE id] IN
  IF \/ numfiles <= 0 \/ ~allocated \/ f = NULL
     \/ id = -1 /\ Kind[f] = "NC3"
  THEN NULL ELSE f

-----------------------------------------------------------------------------
Init ==
  /\ nc_filelist = [i \in Slots |-> NULL]
  /\ allocated = FALSE
  /\ numfiles = 0
  /\ ext_ncid = [n \in NCs |-> 0]
  /\ phase = [n \in NCs |-> "free"]
  /\ data = [n \in NCs |-> "null"]
  /\ nc3id = [n \in NCs |-> 0]
  /\ calls = <<>>
  /\ hidden = {}

Innermost == calls[Len(calls)]
Return    == calls' = SubSeq(calls, 1, Len(calls) - 1)

(* Mutant: malloc where the code has calloc, nc3id keeps an old id.        *)
Begin_malloc(n) ==
  /\ phase[n] = "free" /\ data[n] # "live"
  /\ add_to_NCList(n)
  /\ phase' = [phase EXCEPT ![n] = "opening"]
  /\ data' = [data EXCEPT ![n] = "null"]
  /\ UNCHANGED nc3id
  /\ calls' = Append(calls, n)

(* new_NC and add_to_NCList, whose result is ignored; the dispatcher's     *)
(* open or create is now in progress.  An object that leaked its data is   *)
(* not handed out again.                                                   *)
Begin(n) ==
  /\ phase[n] = "free" /\ data[n] # "live"
  /\ add_to_NCList(n)
  /\ phase' = [phase EXCEPT ![n] = "opening"]
  /\ data' = [data EXCEPT ![n] = "null"]
  /\ nc3id' = [nc3id EXCEPT ![n] = 0]
  /\ calls' = Append(calls, n)

UserOpen(n) == calls = <<>> /\ Begin(n) /\ hidden' = hidden \ {n}

(* NCD2_open calls nc_create for its substrate.                            *)
NCD2_create_substrate(n) ==
  /\ calls # <<>> /\ Kind[Innermost] = "DAP2" /\ phase[Innermost] = "opening"
  /\ Kind[n] = "NC3"
  /\ Begin(n)
  /\ hidden' = hidden \cup {n}

(* The call that is waiting for the innermost open receives id, or -1.     *)
Outer == IF Len(calls) > 1 THEN {calls[Len(calls) - 1]} ELSE {}

(* Mutant: every DAP2 object records the first id as its substrate's.      *)
OpenSucceeds_first(n) ==
  /\ calls # <<>> /\ n = Innermost /\ phase[n] = "opening"
  /\ Kind[n] # "DAP2"
  /\ phase' = [m \in NCs |-> IF m = n THEN "open"
                             ELSE IF m \in Outer THEN "building" ELSE phase[m]]
  /\ data' = [data EXCEPT ![n] = "live"]
  /\ nc3id' = [m \in NCs |-> IF m \in Outer THEN 1 ELSE nc3id[m]]
  /\ Return
  /\ UNCHANGED <<nc_filelist, allocated, numfiles, ext_ncid, hidden>>

OpenSucceeds(n) ==
  /\ calls # <<>> /\ n = Innermost /\ phase[n] = "opening"
  /\ Kind[n] # "DAP2"
  /\ phase' = [m \in NCs |-> IF m = n THEN "open"
                             ELSE IF m \in Outer THEN "building" ELSE phase[m]]
  /\ data' = [data EXCEPT ![n] = "live"]
  /\ nc3id' = [m \in NCs |-> IF m \in Outer THEN ext_ncid[n] ELSE nc3id[m]]
  /\ Return
  /\ UNCHANGED <<nc_filelist, allocated, numfiles, ext_ncid, hidden>>

(* Mutant: the object of a failed open is freed and left in the list.      *)
OpenFails_listed(n) ==
  /\ calls # <<>> /\ n = Innermost /\ phase[n] = "opening"
  /\ Kind[n] # "DAP2"
  /\ phase' = [m \in NCs |-> IF m = n THEN "free"
                             ELSE IF m \in Outer THEN "failing" ELSE phase[m]]
  /\ nc3id' = [m \in NCs |-> IF m \in Outer THEN -1 ELSE nc3id[m]]
  /\ Return
  /\ UNCHANGED <<nc_filelist, allocated, numfiles, ext_ncid, data, hidden>>

(* NC3_create and NC3_open release what they allocated.  ESDM_open sets    *)
(* dispatchdata before it reads the datasets, and releases nothing when    *)
(* one of them is refused.                                                 *)
OpenFails(n) ==
  /\ calls # <<>> /\ n = Innermost /\ phase[n] = "opening"
  /\ Kind[n] # "DAP2"
  /\ \E d \in IF Kind[n] = "ESDM" THEN {"null", "live"} ELSE {"null"} :
       data' = [data EXCEPT ![n] = d]
  /\ del_from_NCList({n})
  /\ phase' = [m \in NCs |-> IF m = n THEN "free"
                             ELSE IF m \in Outer THEN "failing" ELSE phase[m]]
  /\ nc3id' = [m \in NCs |-> IF m \in Outer THEN -1 ELSE nc3id[m]]
  /\ Return
  /\ UNCHANGED hidden

(* The states in which a dispatcher's abort may leave its data: NC3_abort  *)
(* returns early when NC_sync fails, ESDM_abort does nothing.              *)
AbortedData(n) == IF Kind[n] = "ESDM" THEN {"live"} ELSE {"null", "live"}

(* NCD2_close of n, then del_from_NCList and free_NC of n: the object its  *)
(* nc3id names is aborted as well, whatever that object is.  Once n is     *)
(* open its substrate is read-only and is aborted without a sync.  The     *)
(* id -1 may name a DAP2 object, even n itself, whose abort recurses: the  *)
(* model stops there.                                                      *)
NCD2_close_and_free(n) ==
  LET ncsub == find_in_NCList(nc3id[n])
      subs  == {ncsub} \ {NULL}
      gone  == {n} \cup subs IN
  /\ \A m \in subs : Kind[m] # "DAP2"
  /\ del_from_NCList(gone)
  /\ phase' = [m \in NCs |-> IF m \in gone THEN "free" ELSE phase[m]]
  /\ \E d \in IF subs = {} \/ phase[n] = "open" THEN {"null"}
               ELSE AbortedData(ncsub) :
       data' = [m \in NCs |-> IF m = n THEN "null"
                              ELSE IF m = ncsub THEN d ELSE data[m]]

(* The rest of NCD2_open.  NC_check_id(nc3id) must find the substrate.     *)
NCD2_open_succeeds(n) ==
  /\ calls # <<>> /\ n = Innermost /\ phase[n] = "building"
  /\ find_in_NCList(nc3id[n]) # NULL
  /\ phase' = [phase EXCEPT ![n] = "open"]
  /\ data' = [data EXCEPT ![n] = "live"]
  /\ Return
  /\ UNCHANGED <<nc_filelist, allocated, numfiles, ext_ncid, nc3id, hidden>>

NCD2_open_fails(n) ==
  /\ calls # <<>> /\ n = Innermost /\ Kind[n] = "DAP2"
  /\ NCD2_close_and_free(n)
  /\ Return
  /\ UNCHANGED <<nc3id, hidden>>

(* The eager prefetch fails: n is taken out of the table first, so         *)
(* NCD2_close does not find it and releases neither the substrate nor the  *)
(* DAP data.                                                               *)
NCD2_prefetch_fails(n) ==
  /\ calls # <<>> /\ n = Innermost /\ phase[n] = "building"
  /\ find_in_NCList(nc3id[n]) # NULL
  /\ del_from_NCList({n})
  /\ phase' = [phase EXCEPT ![n] = "free"]
  /\ data' = [data EXCEPT ![n] = "live"]
  /\ Return
  /\ UNCHANGED <<nc3id, hidden>>

(* The user's calls, with the id an open returned.  A dispatcher that is   *)
(* called without live data dereferences a null or freed pointer: the      *)
(* model stops there.                                                      *)
UserHas(n) ==
  /\ calls = <<>> /\ phase[n] = "open" /\ n \notin hidden
  /\ find_in_NCList(ext_ncid[n]) = n
  /\ data[n] = "live"

nc_close_ok(n) ==
  /\ UserHas(n)
  /\ \/ /\ Kind[n] # "DAP2"
        /\ del_from_NCList({n})
        /\ phase' = [phase EXCEPT ![n] = "free"]
        /\ data' = [data EXCEPT ![n] = "null"]
     \/ Kind[n] = "DAP2" /\ NCD2_close_and_free(n)
  /\ UNCHANGED <<nc3id, calls, hidden>>

(* A dispatcher's close returns an error: the object stays in the table.   *)
(* NC3_close has released its data unless it failed on the file size or    *)
(* the padding; ESDM_close has always freed its data.  NCD2_close returns  *)
(* what nc_abort of the read-only substrate returns, which does not fail.  *)
nc_close_fails(n) ==
  /\ UserHas(n)
  /\ \/ Kind[n] = "NC3" /\ \E d \in {"null", "live"} :
          data' = [data EXCEPT ![n] = d]
     \/ Kind[n] = "ESDM" /\ data' = [data EXCEPT ![n] = "dangling"]
  /\ UNCHANGED <<nc_filelist, allocated, numfiles, ext_ncid, phase, nc3id,
                 calls, hidden>>

nc_abort(n) ==
  /\ UserHas(n)
  /\ \/ /\ Kind[n] # "DAP2"
        /\ del_from_NCList({n})
        /\ phase' = [phase EXCEPT ![n] = "free"]
        /\ \E d \in AbortedData(n) : data' = [data EXCEPT ![n] = d]
     \/ Kind[n] = "DAP2" /\ NCD2_close_and_free(n)
  /\ UNCHANGED <<nc3id, calls, hidden>>

Next ==
  \E n \in NCs :
    \/ UserOpen(n) \/ NCD2_create_substrate(n)
    \/ OpenSucceeds(n) \/ OpenFails(n)
    \/ NCD2_open_succeeds(n) \/ NCD2_open_fails(n) \/ NCD2_prefetch_fails(n)
    \/ nc_close_ok(n) \/ nc_close_fails(n) \/ nc_abort(n)

Spec == Init /\ [][Next]_vars

-----------------------------------------------------------------------------
(* numfiles is the number of occupied slots, and the list exists when one  *)
(* is: del_from_NCList frees the whole list when the count reaches zero,   *)
(* and NC_check_id rejects every id then.                                  *)
CountExact ==
  /\ numfiles = Cardinality(Occupied)
  /\ Occupied # {} => allocated

(* The list never refers to an NC object that free_NC has released, and    *)
(* each object is in the slot its ext_ncid names, in that one only.        *)
NoDangling ==
  \A i \in Slots : nc_filelist[i] # NULL =>
    /\ phase[nc_filelist[i]] # "free"
    /\ ext_ncid[nc_filelist[i]] = i

(* The id that nc_open or nc_create returned finds its dataset for as long *)
(* as it is open (dfile.c: "Add to list of known open files and define     *)
(* ext_ncid").                                                             *)
OpenIsFindable ==
  \A n \in NCs : phase[n] = "open" => find_in_NCList(ext_ncid[n]) = n

(* Every open DAP2 dataset has an open substrate of its own: nc_close of   *)
(* it reaches that substrate and no dataset of the user.                   *)
SubstrateOwned ==
  \A n \in NCs : Kind[n] = "DAP2" /\ phase[n] = "open" =>
    LET s == find_in_NCList(nc3id[n]) IN
    /\ s \in hidden /\ phase[s] = "open"
    /\ \A m \in NCs \ {n} :
         Kind[m] = "DAP2" /\ phase[m] = "open" => nc3id[m] # nc3id[n]

(* A step of an open in progress, failing or not, never closes a dataset   *)
(* that the user has open: the clean-up of NCD2_open aborts the substrate  *)
(* it created and nothing else.                                            *)
OpenClosesNoOther ==
  [][calls # <<>> => \A n \in NCs \ hidden :
       phase[n] = "open" => phase'[n] = "open"]_vars

(* A substrate is open only as long as the DAP2 dataset it belongs to.     *)
SubstrateHasOwner ==
  \A s \in hidden : phase[s] = "open" =>
    \E n \in NCs : phase[n] # "free" /\ find_in_NCList(nc3id[n]) = s

(* A dataset that the table still holds as open has its dispatcher's data: *)
(* a call with its id, a second nc_close for one, has something to work on *)
(* (dfile.c: when nc_close fails to leave define mode "nc_abort() will     *)
(* automatically be called", and nc_abort releases the id).                *)
OpenHasData == \A n \in NCs : phase[n] = "open" => data[n] = "live"
=============================================================================
