------------------------- MODULE NCFileTableProofs -------------------------
(* The table of open datasets is consistent for every number of slots and  *)
(* every set of NC objects, whatever dispatchers serve them.  The argument *)
(* separates the table from the life of the objects: Table is preserved by *)
(* add_to_NCList and del_from_NCList alone (lemmas AddTable and DelTable), *)
(* which also say how the set of listed objects changes; the rest of each  *)
(* action only moves objects between phases.  On top of it come the opens  *)
(* in progress (Nesting), who is listed (Identified), and which substrate  *)
(* a DAP2 object has (Owned, NotShared).                                   *)
EXTENDS NCFileTable, DataFacts

Listed == {n \in NCs : \E i \in Slots : nc_filelist[i] = n}

Table ==
  /\ nc_filelist \in [Slots -> NCs \cup {NULL}]
  /\ allocated \in BOOLEAN
  /\ ext_ncid \in [NCs -> Slots]
  /\ numfiles = Cardinality(Occupied)
  /\ Occupied # {} => allocated
  /\ nc_filelist[0] = NULL
  /\ \A i \in Slots : nc_filelist[i] # NULL => ext_ncid[nc_filelist[i]] = i

Lives ==
  /\ phase \in [NCs -> Phases]
  /\ data \in [NCs -> DataStates]
  /\ nc3id \in [NCs -> Slots \cup {-1}]
  /\ calls \in Seq(NCs)
  /\ hidden \in SUBSET NCs

(* The inductive invariant: no listed object is free.                      *)
IInv == Table /\ Lives /\ \A n \in Listed : phase[n] # "free"

-----------------------------------------------------------------------------
(* The search of add_to_NCList for a free slot finds one if there is one.  *)
LEMMA LeastFree ==
  ASSUME FreeSlots # {}
  PROVE  \E i \in FreeSlots : \A j \in FreeSlots : i <= j
<1>1. FreeSlots \subseteq Nat
  BY LengthAssumption DEF FreeSlots, Slots
<1> QED
  BY <1>1, LeastNatural

LEMMA NewId ==
  ASSUME FreeSlots # {}
  PROVE  LET new_id == CHOOSE i \in FreeSlots : \A j \in FreeSlots : i <= j
         IN  new_id \in FreeSlots
BY LeastFree

LEMMA SlotsFinite == IsFiniteSet(Slots) /\ 0 \in Slots /\ Slots \subseteq Nat
  BY FS_Interval, LengthAssumption DEF Slots

LEMMA OccupiedFinite ==
  IsFiniteSet(Occupied) /\ Cardinality(Occupied) \in Nat
  BY SlotsFinite, FS_Subset, FS_CardinalityType DEF Occupied

(* add_to_NCList keeps the table consistent and lists nothing but n.       *)
LEMMA AddTable ==
  ASSUME Table, NEW n \in NCs, n \notin Listed, add_to_NCList(n)
  PROVE  /\ Table'
         /\ Listed \subseteq Listed' /\ Listed' \subseteq Listed \cup {n}
         /\ FreeSlots # {} => Listed' = Listed \cup {n}
<1> USE SlotsFinite
<1>1. CASE FreeSlots = {}
  BY <1>1 DEF Table, Listed, Occupied, add_to_NCList
<1>2. CASE FreeSlots # {}
  <2> DEFINE new_id == CHOOSE i \in FreeSlots : \A j \in FreeSlots : i <= j
  <2>1. new_id \in FreeSlots
    BY <1>2, NewId
  <2>2. new_id \in Slots /\ new_id # 0 /\ nc_filelist[new_id] = NULL
    BY <2>1 DEF FreeSlots
  <2>3. /\ nc_filelist' = [nc_filelist EXCEPT ![new_id] = n]
        /\ allocated' = TRUE
        /\ numfiles' = (IF allocated THEN numfiles ELSE 0) + 1
        /\ ext_ncid' = [ext_ncid EXCEPT ![n] = new_id]
    BY <1>2 DEF add_to_NCList
  <2> HIDE DEF new_id
  <2>4. n # NULL
    BY NullAssumption
  <2>5. Occupied' = Occupied \cup {new_id} /\ new_id \notin Occupied
    BY <2>2, <2>3, <2>4 DEF Occupied, Table
  <2>6. numfiles' = Cardinality(Occupied) + 1
    BY <2>3, FS_EmptySet DEF Table
  <2>7. numfiles' = Cardinality(Occupied')
    BY <2>5, <2>6, OccupiedFinite, FS_AddElement
  <2>8. \A i \in Slots : nc_filelist'[i] # NULL =>
                           ext_ncid'[nc_filelist'[i]] = i
    BY <2>2, <2>3 DEF Table, Listed
  <2>9. Listed' = Listed \cup {n}
    BY <2>2, <2>3, NullAssumption DEF Table, Listed
  <2> QED
    BY <2>2, <2>3, <2>7, <2>8, <2>9 DEF Table
<1> QED
  BY <1>1, <1>2

(* In a consistent table an object that is in the list is found by the id  *)
(* it holds.                                                               *)
LEMMA ListedIsListed ==
  ASSUME Table
  PROVE  \A n \in NCs : IsListed(n) <=> n \in Listed
<1>1. ASSUME NEW n \in NCs, n \in Listed
      PROVE  IsListed(n)
  <2>1. PICK i \in Slots : nc_filelist[i] = n
    BY <1>1 DEF Listed
  <2>2. i \in Occupied /\ i # 0 /\ ext_ncid[n] = i
    BY <2>1, NullAssumption DEF Table, Occupied
  <2>3. numfiles # 0
    BY <2>2, OccupiedFinite, FS_EmptySet DEF Table
  <2> QED
    BY <2>1, <2>2, <2>3 DEF Table, IsListed
<1> QED
  BY <1>1 DEF Table, IsListed, Listed

(* del_from_NCList keeps the table consistent and unlists exactly S: what  *)
(* the count loses is the number of slots that were emptied.               *)
LEMMA DelTable ==
  ASSUME Table, NEW S \in SUBSET NCs, del_from_NCList(S)
  PROVE  Table' /\ Listed' = Listed \ S
<1> USE SlotsFinite
<1> DEFINE gone == {n \in S : IsListed(n)}
<1> DEFINE f == [n \in gone |-> ext_ncid[n]]
<1> DEFINE freed == {i \in Slots : nc_filelist[i] \in gone}
<1>1. gone = S \cap Listed
  BY ListedIsListed
<1>2. /\ numfiles' = numfiles - Cardinality(gone)
      /\ allocated' = (allocated /\ (gone = {} \/ numfiles' # 0))
      /\ ext_ncid' = ext_ncid
      /\ nc_filelist' = [i \in Slots |-> IF nc_filelist[i] \in gone
                                         THEN NULL ELSE nc_filelist[i]]
  <2>1. \A i \in Slots : nc_filelist[i] \in gone =>
                           i = ext_ncid[nc_filelist[i]]
    BY NullAssumption DEF Table
  <2> QED
    BY <2>1 DEF del_from_NCList
<1>3. Occupied' = Occupied \ freed /\ freed \subseteq Occupied
  BY <1>2, NullAssumption DEF Occupied
<1>4. f \in Bijection(gone, freed)
  <2>1. \A n \in gone : f[n] \in freed /\ nc_filelist[f[n]] = n
    BY DEF IsListed, Table
  <2>2. \A i \in freed : nc_filelist[i] \in gone /\ f[nc_filelist[i]] = i
    BY NullAssumption DEF Table
  <2>3. f \in [gone -> freed]
    BY <2>1
  <2>4. \A a, b \in gone : f[a] = f[b] => a = b
    BY <2>1
  <2> HIDE DEF f
  <2>5. f \in Surjection(gone, freed)
    BY <2>2, <2>3 DEF Surjection
  <2>6. f \in Injection(gone, freed)
    BY <2>3, <2>4 DEF Injection, IsInjective
  <2> QED
    BY <2>5, <2>6 DEF Bijection
<1> HIDE DEF f, gone, freed
<1>5. IsFiniteSet(freed) /\ freed \subseteq Occupied
  BY <1>3, OccupiedFinite, FS_Subset
<1>6. IsFiniteSet(gone) /\ Cardinality(gone) = Cardinality(freed)
  <2>1. f \in Injection(gone, freed) /\ f \in Surjection(gone, freed)
    BY <1>4 DEF Bijection
  <2>2. IsFiniteSet(gone)
    BY <2>1, <1>5, FS_Injection
  <2> QED
    BY <2>1, <2>2, <1>5, FS_Injection
<1>7. Cardinality(Occupied \ freed) = Cardinality(Occupied) - Cardinality(freed)
  <2>1. Occupied \cap freed = freed
    BY <1>5
  <2> QED
    BY <2>1, OccupiedFinite, FS_Difference, ZenonT(60)
<1>8. numfiles' = Cardinality(Occupied')
  BY <1>2, <1>3, <1>6, <1>7 DEF Table
<1>9. Occupied' # {} => allocated'
  <2>1. Occupied' # {} => Occupied # {}
    BY <1>3
  <2>2. Occupied' # {} => numfiles' # 0
    BY <1>3, <1>5, <1>8, OccupiedFinite, FS_Difference, FS_EmptySet
  <2> QED
    BY <1>2, <2>1, <2>2 DEF Table
<1>10. Listed' = Listed \ S
  <2>1. gone \subseteq S /\ gone \subseteq Listed
    BY <1>1
  <2> QED
    BY <1>1, <1>2, <2>1, NullAssumption DEF Listed, Table
<1> QED
  BY <1>2, <1>8, <1>9, <1>10, NullAssumption DEF Table, gone
-----------------------------------------------------------------------------
LEMMA FindType ==
  ASSUME Table, NEW id \in Slots \cup {-1}
  PROVE  find_in_NCList(id) \in NCs \cup {NULL}
  BY LengthAssumption DEF Table, find_in_NCList, Slots

LEMMA CallStack ==
  ASSUME calls \in Seq(NCs), calls # <<>>
  PROVE  /\ Innermost \in NCs
         /\ SubSeq(calls, 1, Len(calls) - 1) \in Seq(NCs)
  BY DEF Innermost

LEMMA InitIInv == Init => IInv
<1> SUFFICES ASSUME Init PROVE IInv
  OBVIOUS
<1>1. Occupied = {}
  BY DEF Init, Occupied
<1>2. Table
  BY <1>1, FS_EmptySet, SlotsFinite DEF Init, Table
<1>3. Lives /\ Listed = {}
  BY SlotsFinite, NullAssumption DEF Init, Lives, Phases, DataStates, Listed
<1> QED
  BY <1>2, <1>3 DEF IInv

LEMMA BeginIInv ==
  ASSUME IInv, NEW n \in NCs, Begin(n)
  PROVE  /\ Table'
         /\ phase' \in [NCs -> Phases]
         /\ data' \in [NCs -> DataStates]
         /\ nc3id' \in [NCs -> Slots \cup {-1}]
         /\ calls' \in Seq(NCs)
         /\ \A m \in Listed' : phase'[m] # "free"
<1>1. n \notin Listed
  BY DEF IInv, Begin
<1>2. Table' /\ Listed' \subseteq Listed \cup {n}
  BY <1>1, AddTable DEF IInv, Begin
<1>3. \A m \in Listed' : phase'[m] # "free"
  BY <1>2 DEF IInv, Lives, Begin, Listed
<1> QED
  BY <1>2, <1>3, SlotsFinite DEF IInv, Lives, Begin, Phases, DataStates

(* Freeing the objects that were unlisted keeps every listed object alive. *)
LEMMA FreeIInv ==
  ASSUME IInv, NEW S \in SUBSET NCs, del_from_NCList(S),
         \A m \in NCs \ S : phase'[m] = "free" => phase[m] = "free"
  PROVE  Table' /\ \A m \in Listed' : phase'[m] # "free"
<1>1. Table' /\ Listed' = Listed \ S
  BY DelTable DEF IInv
<1> QED
  BY <1>1 DEF IInv, Listed

LEMMA NCD2CloseIInv ==
  ASSUME IInv, NEW n \in NCs, NCD2_close_and_free(n)
  PROVE  /\ Table'
         /\ phase' \in [NCs -> Phases]
         /\ data' \in [NCs -> DataStates]
         /\ \A m \in Listed' : phase'[m] # "free"
<1> DEFINE ncsub == find_in_NCList(nc3id[n])
           subs  == {ncsub} \ {NULL}
           gone  == {n} \cup subs
<1>1. ncsub \in NCs \cup {NULL}
  BY FindType DEF IInv, Lives
<1>2. gone \in SUBSET NCs
  BY <1>1
<1>3. /\ del_from_NCList(gone)
      /\ phase' = [m \in NCs |-> IF m \in gone THEN "free" ELSE phase[m]]
  BY DEF NCD2_close_and_free
<1>4. data' \in [NCs -> DataStates]
  <2>1. PICK d \in {"null", "live"} :
          data' = [m \in NCs |-> IF m = n THEN "null"
                                 ELSE IF m = ncsub THEN d ELSE data[m]]
    BY DEF NCD2_close_and_free, AbortedData
  <2> HIDE DEF ncsub
  <2> QED
    BY <2>1 DEF IInv, Lives, DataStates
<1> HIDE DEF gone
<1>5. Table' /\ \A m \in Listed' : phase'[m] # "free"
  BY <1>2, <1>3, FreeIInv
<1> QED
  BY <1>2, <1>3, <1>4, <1>5 DEF IInv, Lives, Phases

(* Each action keeps the invariant.                                        *)
LEMMA NextIInv == IInv /\ [Next]_vars => IInv'
<1> SUFFICES ASSUME IInv, [Next]_vars PROVE IInv'
  OBVIOUS
<1> USE DEF IInv, Lives
<1>1. ASSUME NEW n \in NCs, UserOpen(n) PROVE IInv'
  BY <1>1, BeginIInv DEF UserOpen
<1>2. ASSUME NEW n \in NCs, NCD2_create_substrate(n) PROVE IInv'
  BY <1>2, BeginIInv DEF NCD2_create_substrate
<1>3. ASSUME NEW n \in NCs, OpenSucceeds(n) PROVE IInv'
  <2> USE <1>3 DEF OpenSucceeds
  <2>1. Table' /\ Listed' = Listed
    BY DEF Table, Listed, Occupied
  <2>2. phase' \in [NCs -> Phases] /\ data' \in [NCs -> DataStates]
    BY DEF Phases, DataStates
  <2>3. nc3id' \in [NCs -> Slots \cup {-1}]
    BY DEF Table
  <2>4. calls' \in Seq(NCs)
    BY CallStack DEF Return
  <2>5. \A m \in Listed' : phase'[m] # "free"
    BY <2>1 DEF Listed
  <2> QED
    BY <2>1, <2>2, <2>3, <2>4, <2>5
<1>4. ASSUME NEW n \in NCs, OpenFails(n) PROVE IInv'
  <2> USE <1>4 DEF OpenFails
  <2>1. phase' \in [NCs -> Phases] /\ data' \in [NCs -> DataStates]
    BY DEF Phases, DataStates
  <2>2. nc3id' \in [NCs -> Slots \cup {-1}]
    OBVIOUS
  <2>3. calls' \in Seq(NCs)
    BY CallStack DEF Return
  <2>4. Table' /\ \A m \in Listed' : phase'[m] # "free"
    <3>1. \A m \in NCs \ {n} : phase'[m] = "free" => phase[m] = "free"
      OBVIOUS
    <3>2. {n} \in SUBSET NCs /\ del_from_NCList({n})
      OBVIOUS
    <3> QED
      BY <3>1, <3>2, FreeIInv
  <2> QED
    BY <2>1, <2>2, <2>3, <2>4
<1>5. ASSUME NEW n \in NCs, NCD2_open_succeeds(n) PROVE IInv'
  <2> USE <1>5 DEF NCD2_open_succeeds
  <2>1. Table' /\ Listed' = Listed
    BY DEF Table, Listed, Occupied
  <2>2. phase' \in [NCs -> Phases] /\ data' \in [NCs -> DataStates]
    BY DEF Phases, DataStates
  <2>3. calls' \in Seq(NCs)
    BY CallStack DEF Return
  <2>4. \A m \in Listed' : phase'[m] # "free"
    BY <2>1 DEF Listed
  <2> QED
    BY <2>1, <2>2, <2>3, <2>4
<1>6. ASSUME NEW n \in NCs, NCD2_open_fails(n) PROVE IInv'
  BY <1>6, NCD2CloseIInv, CallStack DEF NCD2_open_fails, Return
<1>7. ASSUME NEW n \in NCs, NCD2_prefetch_fails(n) PROVE IInv'
  <2> USE <1>7 DEF NCD2_prefetch_fails
  <2>1. phase' \in [NCs -> Phases] /\ data' \in [NCs -> DataStates]
    BY DEF Phases, DataStates
  <2>2. calls' \in Seq(NCs)
    BY CallStack DEF Return
  <2>3. Table' /\ \A m \in Listed' : phase'[m] # "free"
    BY FreeIInv
  <2> QED
    BY <2>1, <2>2, <2>3
<1>8. ASSUME NEW n \in NCs, nc_close_ok(n) PROVE IInv'
  <2>1. CASE NCD2_close_and_free(n)
    BY <1>8, <2>1, NCD2CloseIInv DEF nc_close_ok
  <2>2. CASE /\ del_from_NCList({n})
             /\ phase' = [phase EXCEPT ![n] = "free"]
             /\ data' = [data EXCEPT ![n] = "null"]
    <3>1. Table' /\ \A m \in Listed' : phase'[m] # "free"
      BY <2>2, FreeIInv
    <3> QED
      BY <1>8, <2>2, <3>1 DEF nc_close_ok, Phases, DataStates
  <2> QED
    BY <1>8, <2>1, <2>2 DEF nc_close_ok
<1>9. ASSUME NEW n \in NCs, nc_close_fails(n) PROVE IInv'
  <2>1. data' \in [NCs -> DataStates]
    BY <1>9 DEF nc_close_fails, DataStates
  <2> QED
    BY <1>9, <2>1 DEF nc_close_fails, Table, Listed, Occupied
<1>10. ASSUME NEW n \in NCs, nc_abort(n) PROVE IInv'
  <2>1. CASE NCD2_close_and_free(n)
    BY <1>10, <2>1, NCD2CloseIInv DEF nc_abort
  <2>2. CASE /\ del_from_NCList({n})
             /\ phase' = [phase EXCEPT ![n] = "free"]
             /\ \E d \in AbortedData(n) : data' = [data EXCEPT ![n] = d]
    <3>1. Table' /\ \A m \in Listed' : phase'[m] # "free"
      BY <2>2, FreeIInv
    <3>2. data' \in [NCs -> DataStates]
      BY <2>2 DEF AbortedData, DataStates
    <3> QED
      BY <1>10, <2>2, <3>1, <3>2 DEF nc_abort, Phases
  <2> QED
    BY <1>10, <2>1, <2>2 DEF nc_abort
<1>11. CASE UNCHANGED vars
  BY <1>11 DEF vars, Table, Listed, Occupied
<1> QED
  BY <1>1, <1>2, <1>3, <1>4, <1>5, <1>6, <1>7, <1>8, <1>9, <1>10, <1>11
  DEF Next

LEMMA IInvImplies == IInv => TypeOK /\ CountExact /\ NoDangling
<1> SUFFICES ASSUME IInv PROVE TypeOK /\ CountExact /\ NoDangling
  OBVIOUS
<1>1. numfiles \in Int
  BY OccupiedFinite DEF IInv, Table
<1>2. TypeOK
  BY <1>1 DEF IInv, Table, Lives, TypeOK
<1>3. CountExact
  BY DEF IInv, Table, CountExact
<1>4. NoDangling
  BY DEF IInv, Table, Listed, NoDangling
<1> QED
  BY <1>2, <1>3, <1>4

LEMMA SpecIInv == Spec => []IInv
  BY InitIInv, NextIInv, PTL DEF Spec

(* Type correctness of the table, the objects and the stack of open calls. *)
THEOREM TypeCorrect == Spec => []TypeOK
  BY SpecIInv, IInvImplies, PTL

(* numfiles counts the occupied slots, so del_from_NCList frees the list   *)
(* exactly when its last entry goes, however opens and closes are ordered. *)
THEOREM CountCorrect == Spec => []CountExact
  BY SpecIInv, IInvImplies, PTL

(* No slot outlives the NC object it points to: free_NC is never called on *)
(* a listed object, on any path of any dispatcher.                         *)
THEOREM NeverDangling == Spec => []NoDangling
  BY SpecIInv, IInvImplies, PTL

-----------------------------------------------------------------------------
(* The opens in progress: an open is nested in another only as the one of  *)
(* a hidden NC3 object in that of a DAP2 object.                           *)
InProgress == {"opening", "building", "failing"}

Nesting ==
  /\ Len(calls) <= 2
  /\ \A i \in 1 .. Len(calls) : phase[calls[i]] \in InProgress
  /\ Len(calls) = 2 => /\ Kind[calls[1]] = "DAP2"
                       /\ Kind[calls[2]] = "NC3" /\ calls[2] \in hidden

NInv == IInv /\ Nesting

LEMMA ShortStack ==
  ASSUME NInv, calls # <<>>
  PROVE  /\ calls \in Seq(NCs) /\ Len(calls) \in {1, 2}
         /\ \A i \in 1 .. Len(calls) : calls[i] \in NCs
         /\ Len(SubSeq(calls, 1, Len(calls) - 1)) = Len(calls) - 1
         /\ Len(calls) = 2 => SubSeq(calls, 1, Len(calls) - 1)[1] = calls[1]
<1>1. calls \in Seq(NCs) /\ Len(calls) <= 2
  BY DEF NInv, IInv, Lives, Nesting
<1>2. Len(calls) \in Nat \ {0}
  BY <1>1, EmptySeq
<1>3. \A i \in 1 .. Len(calls) : calls[i] \in NCs
  BY <1>1, LenProperties
<1>4. /\ Len(SubSeq(calls, 1, Len(calls) - 1)) = Len(calls) - 1
      /\ Len(calls) = 2 => SubSeq(calls, 1, Len(calls) - 1)[1] = calls[1]
  <2>1. \A i \in 1 .. Len(calls) - 1 : calls[i] \in NCs
    BY <1>2, <1>3
  <2>2. 1 \in Int /\ Len(calls) - 1 \in Int
    BY <1>2
  <2>3. PICK r : r = SubSeq(calls, 1, Len(calls) - 1)
    OBVIOUS
  <2>4. /\ Len(r) = IF 1 <= Len(calls) - 1 THEN (Len(calls) - 1) - 1 + 1 ELSE 0
        /\ \A i \in 1 .. (Len(calls) - 1) - 1 + 1 : r[i] = calls[1 + i - 1]
    BY <2>1, <2>2, <2>3, SubSeqProperties
  <2>5. Len(r) = Len(calls) - 1
    <3>1. PICK l \in Nat \ {0} : l = Len(calls)
      BY <1>2
    <3>2. Len(r) = IF 1 <= l - 1 THEN (l - 1) - 1 + 1 ELSE 0
      BY <2>4, <3>1
    <3>3. Len(r) = l - 1
      BY <3>1, <3>2
    <3> QED
      BY <3>1, <3>3
  <2>6. Len(calls) = 2 => r[1] = calls[1]
    BY <2>4
  <2> QED
    BY <2>3, <2>5, <2>6
<1>5. Len(calls) \in {1, 2}
  <2>1. \A k \in Nat \ {0} : k <= 2 => k \in {1, 2}
    OBVIOUS
  <2> QED
    BY <1>1, <1>2, <2>1
<1> QED
  BY <1>1, <1>3, <1>4, <1>5

(* The call that waits for an open is in progress and is not that open.    *)
LEMMA OuterBusy ==
  ASSUME NInv, calls # <<>>
  PROVE  /\ Innermost \in NCs /\ phase[Innermost] \in InProgress
         /\ \A m \in Outer :
              /\ m \in NCs /\ m # Innermost /\ phase[m] \in InProgress
              /\ Kind[m] = "DAP2"
              /\ Innermost \in hidden /\ Kind[Innermost] = "NC3"
<1>1. CASE Len(calls) = 1
  <2>1. Outer = {} /\ Innermost = calls[1]
    BY <1>1 DEF Outer, Innermost
  <2> QED
    BY <1>1, <2>1, ShortStack DEF NInv, Nesting
<1>2. CASE Len(calls) = 2
  <2>1. Outer = {calls[1]} /\ Innermost = calls[2]
    BY <1>2 DEF Outer, Innermost
  <2> QED
    BY <1>2, <2>1, ShortStack DEF NInv, Nesting
<1> QED
  BY <1>1, <1>2, ShortStack

(* When an open returns, at most the open that waited for it is left.      *)
LEMMA ReturnNests ==
  ASSUME NInv, calls # <<>>, Return,
         \A m \in Outer : phase'[m] \in InProgress
  PROVE  Nesting'
<1>1. CASE Len(calls) = 1
  <2>1. Len(calls') = 0
    BY <1>1, ShortStack DEF Return
  <2> QED
    BY <2>1 DEF Nesting
<1>2. CASE Len(calls) = 2
  <2>1. Len(calls') = 1 /\ calls'[1] = calls[1] /\ Outer = {calls[1]}
    BY <1>2, ShortStack DEF Return, Outer
  <2>2. \A i \in 1 .. Len(calls') : phase'[calls'[i]] \in InProgress
    BY <2>1
  <2> QED
    BY <2>1, <2>2 DEF Nesting
<1> QED
  BY <1>1, <1>2, ShortStack

LEMMA NextNests ==
  ASSUME NInv, [Next]_vars
  PROVE  Nesting'
<1> USE DEF IInv, Lives
<1>1. ASSUME NEW n \in NCs, UserOpen(n) PROVE Nesting'
  <2>1. calls' = <<n>> /\ phase'[n] = "opening"
    BY <1>1 DEF UserOpen, Begin, NInv
  <2>2. Len(calls') = 1 /\ calls'[1] = n
    BY <2>1
  <2>3. \A i \in 1 .. Len(calls') : phase'[calls'[i]] \in InProgress
    BY <2>1, <2>2 DEF InProgress
  <2> QED
    BY <2>2, <2>3 DEF Nesting
<1>2. ASSUME NEW n \in NCs, NCD2_create_substrate(n)
      PROVE  Nesting'
  <2>1. /\ calls # <<>> /\ Kind[Innermost] = "DAP2" /\ Kind[n] = "NC3"
        /\ phase[n] = "free" /\ phase' = [phase EXCEPT ![n] = "opening"]
        /\ calls' = Append(calls, n) /\ hidden' = hidden \cup {n}
    BY <1>2 DEF NCD2_create_substrate, Begin
  <2>2. calls \in Seq(NCs) /\ Len(calls) = 1 /\ calls[1] \in NCs
    BY <2>1, ShortStack DEF NInv, Nesting, Innermost
  <2>3. /\ Innermost = calls[1] /\ n # calls[1]
        /\ phase[calls[1]] \in InProgress
    BY <2>1, <2>2 DEF Innermost, NInv, Nesting
  <2>4. Len(calls') = 2 /\ calls'[1] = calls[1] /\ calls'[2] = n
    <3>1. /\ Len(Append(calls, n)) = Len(calls) + 1
          /\ \A i \in 1 .. Len(calls) : Append(calls, n)[i] = calls[i]
          /\ Append(calls, n)[Len(calls) + 1] = n
      BY <2>2, AppendProperties, ZenonT(60)
    <3> QED
      BY <2>1, <2>2, <3>1
  <2>5. phase'[calls[1]] = phase[calls[1]] /\ phase'[n] = "opening"
    BY <2>1, <2>2, <2>3 DEF NInv
  <2>6. \A i \in 1 .. Len(calls') : phase'[calls'[i]] \in InProgress
    BY <2>3, <2>4, <2>5 DEF InProgress
  <2> QED
    BY <2>1, <2>3, <2>4, <2>6 DEF Nesting
<1>3. ASSUME NEW n \in NCs, OpenSucceeds(n) PROVE Nesting'
  <2>1. \A m \in Outer : phase'[m] \in InProgress
    BY <1>3, OuterBusy DEF OpenSucceeds, InProgress
  <2> QED
    BY <1>3, <2>1, ReturnNests DEF OpenSucceeds
<1>4. ASSUME NEW n \in NCs, OpenFails(n) PROVE Nesting'
  <2>1. \A m \in Outer : phase'[m] \in InProgress
    BY <1>4, OuterBusy DEF OpenFails, InProgress
  <2> QED
    BY <1>4, <2>1, ReturnNests DEF OpenFails
<1>5. ASSUME NEW n \in NCs,
             NCD2_open_succeeds(n) \/ NCD2_open_fails(n) \/ NCD2_prefetch_fails(n)
      PROVE  Nesting'
  <2>1. calls # <<>> /\ n = Innermost /\ Return
    BY <1>5 DEF NCD2_open_succeeds, NCD2_open_fails, NCD2_prefetch_fails
  <2>2. ASSUME NEW m \in Outer
        PROVE  phase'[m] \in InProgress
    <3>1. m \in NCs /\ m # n /\ phase[m] \in InProgress /\ Kind[n] # "DAP2"
      BY <2>1, OuterBusy
    <3>2. phase'[m] = phase[m]
      BY <1>5, <3>1 DEF NCD2_open_succeeds, NCD2_open_fails,
                        NCD2_prefetch_fails, NInv
    <3> QED
      BY <3>1, <3>2
  <2> QED
    BY <2>1, <2>2, ReturnNests
<1>6. ASSUME NEW n \in NCs,
             nc_close_ok(n) \/ nc_close_fails(n) \/ nc_abort(n)
      PROVE  Nesting'
  <2>1. calls = <<>> /\ calls' = calls
    BY <1>6 DEF nc_close_ok, nc_close_fails, nc_abort, UserHas
  <2>2. Len(calls') = 0
    BY <2>1
  <2> QED
    BY <2>2 DEF Nesting
<1>7. CASE UNCHANGED vars
  BY <1>7 DEF vars, NInv, Nesting
<1> QED
  BY <1>1, <1>2, <1>3, <1>4, <1>5, <1>6, <1>7 DEF Next

-----------------------------------------------------------------------------
(* With a slot for every object, an object is listed from new_NC until it  *)
(* is freed, so the id that an open returned is always found.              *)
Room == IsFiniteSet(NCs) /\ Cardinality(NCs) < NCFILELISTLENGTH

(* Without one it may be that an open goes on with the id 0 for none: the  *)
(* result of add_to_NCList is ignored.                                     *)
Identified ==
  \A n \in NCs : phase[n] # "free" =>
    n \in Listed \/ (ext_ncid[n] = 0 /\ ~Room)

(* A listed object takes one slot, so an object that is not listed leaves  *)
(* one for it.                                                             *)
LEMMA RoomLeft ==
  ASSUME Room, Table, NEW n \in NCs, n \notin Listed
  PROVE  FreeSlots # {}
<1> SUFFICES ASSUME FreeSlots = {} PROVE FALSE
  OBVIOUS
<1> USE SlotsFinite
<1>1. Occupied = 1 .. NCFILELISTLENGTH - 1
  BY LengthAssumption DEF FreeSlots, Occupied, Table, Slots
<1>2. Cardinality(Occupied) = NCFILELISTLENGTH - 1
  BY <1>1, FS_Interval, LengthAssumption
<1> DEFINE f == [i \in Occupied |-> nc_filelist[i]]
<1>3. f \in Injection(Occupied, NCs \ {n})
  <2>1. \A i \in Occupied : nc_filelist[i] \in NCs \ {n} /\
                            ext_ncid[nc_filelist[i]] = i
    BY DEF Table, Listed, Occupied
  <2>2. f \in [Occupied -> NCs \ {n}]
    BY <2>1
  <2>3. \A i, j \in Occupied : f[i] = f[j] => i = j
    BY <2>1
  <2> HIDE DEF f
  <2> QED
    BY <2>2, <2>3 DEF Injection, IsInjective
<1>4. IsFiniteSet(NCs \ {n}) /\ Cardinality(NCs \ {n}) = Cardinality(NCs) - 1
  BY FS_RemoveElement DEF Room
<1>5. Cardinality(Occupied) <= Cardinality(NCs) - 1
  <2> HIDE DEF f
  <2> QED
    BY <1>3, <1>4, FS_Injection
<1> QED
  BY <1>2, <1>5, FS_CardinalityType, LengthAssumption DEF Room

LEMMA BeginIdentified ==
  ASSUME NInv, Identified, NEW n \in NCs, Begin(n)
  PROVE  Identified'
<1>1. n \notin Listed
  BY DEF NInv, IInv, Begin
<1>2. Listed \subseteq Listed' /\ (FreeSlots # {} => Listed' = Listed \cup {n})
  BY <1>1, AddTable DEF NInv, IInv, Begin
<1>3. FreeSlots = {} => ext_ncid'[n] = 0 /\ ~Room
  BY <1>1, RoomLeft DEF NInv, IInv, Table, Begin, add_to_NCList
<1>4. \A m \in NCs \ {n} : phase'[m] = phase[m] /\ ext_ncid'[m] = ext_ncid[m]
  BY DEF NInv, IInv, Lives, Table, Begin, add_to_NCList
<1>5. ASSUME NEW m \in NCs, phase'[m] # "free"
      PROVE  m \in Listed' \/ (ext_ncid'[m] = 0 /\ ~Room)
  <2>1. CASE m = n
    BY <1>2, <1>3, <2>1
  <2>2. CASE m # n
    BY <1>2, <1>4, <1>5, <2>2 DEF Identified
  <2> QED
    BY <2>1, <2>2
<1> QED
  BY <1>5 DEF Identified, Room

LEMMA FreeIdentified ==
  ASSUME NInv, Identified, NEW S \in SUBSET NCs, del_from_NCList(S),
         \A m \in S : phase'[m] = "free",
         \A m \in NCs \ S : phase'[m] # "free" => phase[m] # "free"
  PROVE  Identified'
<1>1. Listed' = Listed \ S /\ ext_ncid' = ext_ncid
  BY DelTable DEF NInv, IInv, del_from_NCList
<1> QED
  BY <1>1 DEF Identified, Room

LEMMA NCD2CloseIdentified ==
  ASSUME NInv, Identified, NEW n \in NCs, NCD2_close_and_free(n)
  PROVE  Identified'
<1> DEFINE gone == {n} \cup ({find_in_NCList(nc3id[n])} \ {NULL})
<1>1. gone \in SUBSET NCs
  BY FindType DEF NInv, IInv, Lives
<1>2. /\ del_from_NCList(gone)
      /\ phase' = [m \in NCs |-> IF m \in gone THEN "free" ELSE phase[m]]
  BY DEF NCD2_close_and_free
<1> HIDE DEF gone
<1> QED
  BY <1>1, <1>2, FreeIdentified

LEMMA NextIdentified ==
  ASSUME NInv, Identified, [Next]_vars
  PROVE  Identified'
<1> USE DEF NInv, IInv, Lives
<1>1. ASSUME NEW n \in NCs, UserOpen(n) \/ NCD2_create_substrate(n)
      PROVE  Identified'
  BY <1>1, BeginIdentified DEF UserOpen, NCD2_create_substrate
<1>2. ASSUME NEW n \in NCs, OpenSucceeds(n) PROVE Identified'
  <2>1. \A m \in NCs : phase'[m] # "free" => phase[m] # "free"
    BY <1>2, OuterBusy DEF OpenSucceeds, InProgress
  <2>2. Listed' = Listed /\ ext_ncid' = ext_ncid
    BY <1>2 DEF OpenSucceeds, Listed
  <2> QED
    BY <2>1, <2>2 DEF Identified, Room
<1>3. ASSUME NEW n \in NCs, OpenFails(n) PROVE Identified'
  <2>1. \A m \in NCs \ {n} : phase'[m] # "free" => phase[m] # "free"
    BY <1>3, OuterBusy DEF OpenFails, InProgress
  <2>2. phase'[n] = "free" /\ {n} \in SUBSET NCs
    BY <1>3 DEF OpenFails
  <2> QED
    BY <1>3, <2>1, <2>2, FreeIdentified DEF OpenFails
<1>4. ASSUME NEW n \in NCs, NCD2_open_succeeds(n) PROVE Identified'
  <2>1. \A m \in NCs : phase'[m] # "free" => phase[m] # "free"
    BY <1>4 DEF NCD2_open_succeeds
  <2>2. Listed' = Listed /\ ext_ncid' = ext_ncid
    BY <1>4 DEF NCD2_open_succeeds, Listed
  <2> QED
    BY <2>1, <2>2 DEF Identified, Room
<1>5. ASSUME NEW n \in NCs, NCD2_close_and_free(n) PROVE Identified'
  BY <1>5, NCD2CloseIdentified
<1>6. ASSUME NEW n \in NCs, del_from_NCList({n}),
             phase' = [phase EXCEPT ![n] = "free"]
      PROVE  Identified'
  BY <1>6, FreeIdentified
<1>7. ASSUME NEW n \in NCs, nc_close_fails(n) PROVE Identified'
  BY <1>7 DEF nc_close_fails, Identified, Listed, Room
<1>8. CASE UNCHANGED vars
  BY <1>8 DEF vars, Identified, Listed, Room
<1> QED
  BY <1>1, <1>2, <1>3, <1>4, <1>5, <1>6, <1>7, <1>8
  DEF Next, NCD2_open_fails, NCD2_prefetch_fails, nc_close_ok, nc_abort

-----------------------------------------------------------------------------
(* Which object the nc3id of a DAP2 object names: none yet while its open  *)
(* is at the beginning, the substrate it created from then on, and the id  *)
(* -1 when it got none.                                                    *)
Owns(d, s) ==
  /\ s \in hidden /\ s \in Listed /\ Kind[s] = "NC3" /\ phase[s] = "open"
  /\ ext_ncid[s] = nc3id[d]

Owned ==
  \A d \in NCs : Kind[d] = "DAP2" =>
    /\ phase[d] = "opening" => nc3id[d] = 0
    /\ phase[d] = "failing" => nc3id[d] = -1
    /\ phase[d] = "building" => nc3id[d] = 0 \/ \E s \in NCs : Owns(d, s)
    /\ phase[d] = "open" => \E s \in NCs : Owns(d, s)

Holding(d) == Kind[d] = "DAP2" /\ phase[d] \in {"building", "open"}

NotShared ==
  \A d, e \in NCs : d # e /\ Holding(d) /\ Holding(e) =>
    nc3id[d] # nc3id[e] \/ nc3id[d] = 0

OInv == NInv /\ Identified /\ Owned /\ NotShared

(* What an id finds: a listed object is found by its own id, and whatever  *)
(* another id than -1 finds holds that id.                                 *)
LEMMA FoundById ==
  ASSUME IInv
  PROVE  /\ \A s \in Listed : find_in_NCList(ext_ncid[s]) = s /\ ext_ncid[s] # 0
         /\ \A id \in Slots : find_in_NCList(id) # NULL =>
              /\ find_in_NCList(id) \in Listed
              /\ ext_ncid[find_in_NCList(id)] = id
         /\ find_in_NCList(0) = NULL
<1>1. ASSUME NEW s \in Listed
      PROVE  find_in_NCList(ext_ncid[s]) = s /\ ext_ncid[s] # 0
  <2>1. PICK i \in Slots : nc_filelist[i] = s
    BY DEF Listed
  <2>2. ext_ncid[s] = i /\ i \in Occupied /\ i \in Nat /\ i # 0
    BY <2>1, NullAssumption, SlotsFinite DEF IInv, Table, Occupied, Listed
  <2>3. numfiles > 0 /\ allocated
    BY <2>2, OccupiedFinite, FS_EmptySet DEF IInv, Table
  <2>4. ext_ncid[s] # -1 /\ nc_filelist[ext_ncid[s]] = s /\ ~(numfiles <= 0)
    BY <2>1, <2>2, <2>3, OccupiedFinite DEF IInv, Table
  <2> QED
    BY <2>2, <2>3, <2>4, NullAssumption DEF find_in_NCList, Listed
<1>2. ASSUME NEW id \in Slots, find_in_NCList(id) # NULL
      PROVE  /\ find_in_NCList(id) \in Listed
             /\ ext_ncid[find_in_NCList(id)] = id
  <2>1. id # -1
    BY SlotsFinite
  <2>2. find_in_NCList(id) = nc_filelist[id]
    BY <1>2, <2>1 DEF find_in_NCList
  <2> QED
    BY <1>2, <2>2 DEF IInv, Table, Listed
<1>3. find_in_NCList(0) = NULL
  BY DEF IInv, Table, find_in_NCList
<1> QED
  BY <1>1, <1>2, <1>3

(* The objects that are taken over by a step: what it does to an object    *)
(* that a DAP2 object owns is nothing.                                     *)
Kept(s) == /\ s \in Listed' /\ s \in hidden' /\ phase'[s] = "open"
           /\ ext_ncid'[s] = ext_ncid[s]

(* A step that starts no open and lets no open have a new substrate keeps  *)
(* the owners that are left, if it keeps their substrates.                 *)
LEMMA OwnersLeft ==
  ASSUME OInv, NInv', UNCHANGED nc3id,
         NEW n \in NCs,
         \A d \in NCs : d # n => phase'[d] \in {phase[d], "free"},
         \/ phase'[n] \in {phase[n], "free"}
         \/ /\ phase'[n] = "open" /\ phase[n] = "building"
            /\ Kind[n] = "DAP2" => nc3id[n] # 0,
         \A d, s \in NCs : /\ Kind[d] = "DAP2"
                           /\ phase[d] # "free" /\ phase'[d] # "free"
                           /\ Owns(d, s)
                           => Kept(s)
  PROVE  Owned' /\ NotShared'
<1>1. \A d \in NCs : Holding(d)' => Holding(d)
  BY DEF Holding
<1>2. NotShared'
  BY <1>1 DEF OInv, NotShared
<1>3. ASSUME NEW d \in NCs, NEW s \in NCs, Kind[d] = "DAP2", phase[d] # "free",
             phase'[d] # "free", Owns(d, s)
      PROVE  Owns(d, s)'
  <2>1. Kept(s) /\ Kind[s] = "NC3" /\ ext_ncid[s] = nc3id[d]
    BY <1>3 DEF Owns
  <2> QED
    BY <2>1 DEF Kept, Owns
<1>4. ASSUME NEW d \in NCs, Kind[d] = "DAP2"
      PROVE  /\ phase'[d] = "opening" => nc3id'[d] = 0
             /\ phase'[d] = "failing" => nc3id'[d] = -1
             /\ phase'[d] = "building" =>
                  nc3id'[d] = 0 \/ \E s \in NCs : Owns(d, s)'
             /\ phase'[d] = "open" => \E s \in NCs : Owns(d, s)'
  <2>1. /\ phase[d] = "opening" => nc3id[d] = 0
        /\ phase[d] = "failing" => nc3id[d] = -1
        /\ phase[d] = "building" => nc3id[d] = 0 \/ \E s \in NCs : Owns(d, s)
        /\ phase[d] = "open" => \E s \in NCs : Owns(d, s)
    BY <1>4 DEF OInv, Owned
  <2>2. CASE phase'[d] = "free"
    BY <2>2
  <2>3. CASE phase'[d] = phase[d] /\ phase'[d] # "free"
    BY <1>3, <1>4, <2>1, <2>3
  <2>4. CASE d = n /\ phase'[n] = "open" /\ phase[n] = "building"
    <3>1. nc3id[d] # 0
      BY <1>4, <2>4
    <3>2. PICK s \in NCs : Owns(d, s)
      BY <2>1, <2>4, <3>1
    <3>3. Owns(d, s)'
      BY <1>3, <1>4, <2>4, <3>2
    <3> QED
      BY <2>4, <3>3
  <2> QED
    BY <2>2, <2>3, <2>4
<1>5. Owned'
  BY <1>4 DEF Owned
<1> QED
  BY <1>2, <1>5

(* An open begins: the object it takes was free, so nobody owned it.       *)
LEMMA BeginOwns ==
  ASSUME OInv, NInv', NEW n \in NCs, Begin(n), hidden \ {n} \subseteq hidden'
  PROVE  Owned' /\ NotShared'
<1>1. /\ phase[n] = "free" /\ phase' = [phase EXCEPT ![n] = "opening"]
      /\ nc3id' = [nc3id EXCEPT ![n] = 0] /\ add_to_NCList(n)
  BY DEF Begin
<1>2. /\ phase' \in [NCs -> Phases] /\ phase'[n] = "opening" /\ nc3id'[n] = 0
      /\ \A d \in NCs \ {n} : phase'[d] = phase[d] /\ nc3id'[d] = nc3id[d]
  BY <1>1 DEF OInv, NInv, IInv, Lives, Phases
<1>3. n \notin Listed
  BY <1>1 DEF OInv, NInv, IInv
<1>4. \A s \in NCs \ {n} : ext_ncid'[s] = ext_ncid[s]
  BY DEF Begin, add_to_NCList, OInv, NInv, IInv, Table
<1>5. \A s \in Listed : s \in Listed'
  BY <1>1, <1>3, AddTable DEF OInv, NInv, IInv
<1>6. ASSUME NEW d \in NCs \ {n}, NEW s \in NCs, Owns(d, s)
      PROVE  Owns(d, s)'
  <2>1. s # n
    BY <1>1, <1>6 DEF Owns
  <2>2. s \in Listed' /\ s \in hidden' /\ phase'[s] = "open"
        /\ ext_ncid'[s] = nc3id'[d]
    BY <1>2, <1>4, <1>5, <1>6, <2>1 DEF Owns
  <2> QED
    BY <1>6, <2>2 DEF Owns
<1>7. NotShared'
  BY <1>2 DEF OInv, NotShared, Holding
<1>8. Owned'
  <2> SUFFICES ASSUME NEW d \in NCs, Kind[d] = "DAP2"
               PROVE  /\ phase'[d] = "opening" => nc3id'[d] = 0
                      /\ phase'[d] = "failing" => nc3id'[d] = -1
                      /\ phase'[d] = "building" =>
                           nc3id'[d] = 0 \/ \E s \in NCs : Owns(d, s)'
                      /\ phase'[d] = "open" => \E s \in NCs : Owns(d, s)'
    BY DEF Owned
  <2>1. CASE d = n
    BY <1>2, <2>1
  <2>2. CASE d # n
    BY <1>2, <1>6, <2>2 DEF OInv, Owned
  <2> QED
    BY <2>1, <2>2
<1> QED
  BY <1>7, <1>8

(* What NCD2_close aborts besides n is the substrate of n, which no other  *)
(* DAP2 object owns, or, if n got no substrate, an object that is not NC3. *)
LEMMA NCD2CloseOwns ==
  ASSUME OInv, NInv', NEW n \in NCs, Kind[n] = "DAP2", phase[n] # "free",
         NCD2_close_and_free(n), UNCHANGED <<nc3id, hidden>>
  PROVE  Owned' /\ NotShared'
<1> DEFINE ncsub == find_in_NCList(nc3id[n])
           gone  == {n} \cup ({ncsub} \ {NULL})
<1>1. /\ del_from_NCList(gone)
      /\ phase' = [m \in NCs |-> IF m \in gone THEN "free" ELSE phase[m]]
  BY DEF NCD2_close_and_free
<1>2. ext_ncid' = ext_ncid
  BY <1>1 DEF del_from_NCList
<1>3. nc3id[n] \in Slots \cup {-1}
  BY DEF OInv, NInv, IInv, Lives
<1>4. gone \in SUBSET NCs
  BY <1>3, FindType DEF OInv, NInv, IInv
<1>5. Listed' = Listed \ gone
  <2> HIDE DEF gone
  <2> QED
    BY <1>1, <1>4, DelTable DEF OInv, NInv, IInv
<1>6. ASSUME NEW d \in NCs, NEW s \in NCs, Kind[d] = "DAP2",
             phase[d] # "free", phase'[d] # "free", Owns(d, s)
      PROVE  s \notin gone
  <2>1. d # n /\ s # n
    BY <1>1, <1>6 DEF Owns
  <2>2. ASSUME s = ncsub
        PROVE  FALSE
    <3>1. s # NULL /\ Kind[s] = "NC3" /\ s \in Listed /\ phase[s] = "open"
          /\ ext_ncid[s] = nc3id[d]
      BY <1>6, NullAssumption DEF Owns
    <3>2. nc3id[n] # -1
      BY <2>2, <3>1 DEF find_in_NCList
    <3>3. nc3id[n] = nc3id[d] /\ nc3id[n] # 0
      BY <1>3, <2>2, <3>1, <3>2, FoundById DEF OInv, NInv
    <3>4. nc3id[d] # 0 /\ nc3id[d] # -1
      BY <3>2, <3>3
    <3>5. Holding(n) /\ Holding(d)
      <4>1. \A e \in NCs : Kind[e] = "DAP2" /\ phase[e] # "free"
                           /\ nc3id[e] # 0 /\ nc3id[e] # -1 => Holding(e)
        BY DEF OInv, NInv, IInv, Lives, Phases, Owned, Holding
      <4> QED
        BY <1>6, <3>2, <3>3, <3>4, <4>1
    <3> QED
      BY <2>1, <3>3, <3>5 DEF OInv, NotShared
  <2> QED
    BY <2>1, <2>2
<1>7. \A d \in NCs : phase'[d] \in {phase[d], "free"}
  BY <1>1
<1>8. ASSUME NEW d \in NCs, NEW s \in NCs, Kind[d] = "DAP2",
             phase[d] # "free", phase'[d] # "free", Owns(d, s)
      PROVE  Kept(s)
  <2>1. s \notin gone
    BY <1>6, <1>8
  <2>2. phase'[s] = phase[s] /\ s \in Listed'
    BY <1>1, <1>5, <1>8, <2>1 DEF Owns
  <2> QED
    BY <1>2, <1>8, <2>2 DEF Owns, Kept
<1> QED
  BY <1>7, <1>8, OwnersLeft

(* One object is freed, and it was nobody's substrate.                     *)
LEMMA FreeOwns ==
  ASSUME OInv, NInv', NEW n \in NCs, del_from_NCList({n}),
         phase' = [phase EXCEPT ![n] = "free"],
         phase[n] # "open" \/ n \notin hidden,
         UNCHANGED <<nc3id, hidden>>
  PROVE  Owned' /\ NotShared'
<1>1. ext_ncid' = ext_ncid
  BY DEF del_from_NCList
<1>2. Listed' = Listed \ {n}
  BY DelTable DEF OInv, NInv, IInv
<1>3. \A d \in NCs : phase'[d] = IF d = n THEN "free" ELSE phase[d]
  BY DEF OInv, NInv, IInv, Lives
<1>4. ASSUME NEW d \in NCs, NEW s \in NCs, Owns(d, s)
      PROVE  Kept(s)
  <2>1. s # n
    BY <1>4 DEF Owns
  <2> QED
    BY <1>1, <1>2, <1>3, <1>4, <2>1 DEF Owns, Kept
<1> QED
  BY <1>3, <1>4, OwnersLeft

(* Each step keeps the owners; a substrate gets one when its open returns. *)
LEMMA NextOwns ==
  ASSUME OInv, [Next]_vars
  PROVE  OInv'
<1>1. NInv' /\ Identified'
  BY NextIInv, NextNests, NextIdentified DEF OInv, NInv
<1> SUFFICES Owned' /\ NotShared'
  BY <1>1 DEF OInv
<1>2. /\ phase \in [NCs -> Phases] /\ nc3id \in [NCs -> Slots \cup {-1}]
      /\ \A s \in Listed : phase[s] # "free"
  BY DEF OInv, NInv, IInv, Lives
<1>3. ASSUME NEW n \in NCs, UserOpen(n) PROVE Owned' /\ NotShared'
  BY <1>1, <1>3, BeginOwns DEF UserOpen
<1>4. ASSUME NEW n \in NCs, NCD2_create_substrate(n)
      PROVE  Owned' /\ NotShared'
  BY <1>1, <1>4, BeginOwns DEF NCD2_create_substrate
<1>5. ASSUME NEW n \in NCs, OpenSucceeds(n) PROVE Owned' /\ NotShared'
  <2>1. /\ n = Innermost /\ calls # <<>> /\ phase[n] = "opening"
        /\ Kind[n] # "DAP2"
        /\ phase' = [m \in NCs |-> IF m = n THEN "open"
                                   ELSE IF m \in Outer THEN "building"
                                   ELSE phase[m]]
        /\ nc3id' = [m \in NCs |-> IF m \in Outer THEN ext_ncid[n]
                                   ELSE nc3id[m]]
        /\ UNCHANGED <<nc_filelist, ext_ncid, hidden>>
    BY <1>5 DEF OpenSucceeds
  <2>2. /\ \A m \in Outer : m \in NCs /\ m # n /\ phase[m] \in InProgress
                            /\ Kind[m] = "DAP2"
                            /\ n \in hidden /\ Kind[n] = "NC3"
        /\ \A m, k \in Outer : m = k
    BY <2>1, OuterBusy DEF OInv, Outer
  <2>3. Listed' = Listed
    BY <2>1 DEF Listed
  <2>4. ASSUME NEW d \in NCs \ Outer, NEW s \in NCs, Kind[d] = "DAP2", Owns(d, s)
        PROVE  Owns(d, s)'
    <3>1. s # n
      BY <2>1, <2>4 DEF Owns
    <3>2. s \notin Outer
      BY <2>2, <2>4 DEF Owns
    <3> QED
      BY <2>1, <2>3, <2>4, <3>1, <3>2 DEF Owns
  <2>5. ASSUME NEW d \in Outer
        PROVE  nc3id'[d] = 0 \/ Owns(d, n)'
    <3>1. nc3id'[d] = ext_ncid[n] /\ phase'[n] = "open" /\ n \in hidden
          /\ Kind[n] = "NC3"
      BY <2>1, <2>2
    <3>2. CASE n \in Listed
      BY <2>1, <2>3, <3>1, <3>2 DEF Owns
    <3>3. CASE n \notin Listed
      <4>1. ext_ncid[n] = 0
        BY <2>1, <3>3 DEF OInv, Identified
      <4> QED
        BY <3>1, <4>1
    <3> QED
      BY <3>2, <3>3
  <2>6. Owned'
    <3> SUFFICES ASSUME NEW d \in NCs, Kind[d] = "DAP2"
                 PROVE  /\ phase'[d] = "opening" => nc3id'[d] = 0
                        /\ phase'[d] = "failing" => nc3id'[d] = -1
                        /\ phase'[d] = "building" =>
                             nc3id'[d] = 0 \/ \E s \in NCs : Owns(d, s)'
                        /\ phase'[d] = "open" => \E s \in NCs : Owns(d, s)'
      BY DEF Owned
    <3>1. CASE d \in Outer
      <4>1. phase'[d] = "building"
        BY <2>1, <2>2, <3>1
      <4> QED
        BY <2>5, <3>1, <4>1
    <3>2. CASE d \notin Outer
      <4>1. phase'[d] = phase[d] /\ nc3id'[d] = nc3id[d]
        BY <2>1, <3>2
      <4> QED
        BY <2>4, <3>2, <4>1 DEF OInv, Owned
    <3> QED
      BY <3>1, <3>2
  <2>7. NotShared'
    <3>1. \A d \in NCs \ Outer : Kind[d] = "DAP2" =>
            /\ phase'[d] = phase[d] /\ nc3id'[d] = nc3id[d]
            /\ Holding(d)' = Holding(d)
      BY <2>1 DEF Holding
    <3>2. ASSUME NEW d \in Outer, NEW e \in NCs \ Outer, Holding(e), nc3id'[d] # 0
          PROVE  nc3id'[d] # nc3id[e]
      <4>1. nc3id'[d] = ext_ncid[n] /\ n \in Listed
        BY <2>1, <2>2, <3>2 DEF OInv, Identified
      <4>2. ASSUME nc3id[e] = ext_ncid[n]
            PROVE  FALSE
        <5>1. PICK s \in NCs : Owns(e, s)
          BY <3>2, <4>1, <4>2 DEF OInv, Owned, Holding
        <5>2. ext_ncid[s] = ext_ncid[n] /\ s \in Listed
          BY <4>2, <5>1 DEF Owns
        <5>3. s = n
          BY <4>1, <5>2, FoundById DEF OInv, NInv
        <5> QED
          BY <2>1, <5>1, <5>3 DEF Owns
      <4> QED
        BY <4>1, <4>2
    <3> QED
      BY <2>2, <3>1, <3>2 DEF OInv, NotShared, Holding
  <2> QED
    BY <2>6, <2>7
<1>6. ASSUME NEW n \in NCs, OpenFails(n) PROVE Owned' /\ NotShared'
  <2>1. /\ n = Innermost /\ calls # <<>> /\ phase[n] = "opening"
        /\ Kind[n] # "DAP2" /\ del_from_NCList({n})
        /\ phase' = [m \in NCs |-> IF m = n THEN "free"
                                   ELSE IF m \in Outer THEN "failing"
                                   ELSE phase[m]]
        /\ nc3id' = [m \in NCs |-> IF m \in Outer THEN -1 ELSE nc3id[m]]
        /\ UNCHANGED hidden
    BY <1>6 DEF OpenFails
  <2>2. \A m \in Outer : m \in NCs /\ m # n /\ phase[m] \in InProgress
    BY <2>1, OuterBusy DEF OInv
  <2>3. Listed' = Listed \ {n} /\ ext_ncid' = ext_ncid
    BY <2>1, DelTable DEF OInv, NInv, IInv, del_from_NCList
  <2>4. ASSUME NEW d \in NCs \ Outer, NEW s \in NCs, Kind[d] = "DAP2", Owns(d, s)
        PROVE  Owns(d, s)'
    <3>1. s # n
      BY <2>1, <2>4 DEF Owns
    <3>2. s \notin Outer
      BY <2>2, <2>4 DEF Owns, InProgress
    <3> QED
      BY <2>1, <2>3, <2>4, <3>1, <3>2 DEF Owns
  <2>5. Owned'
    <3> SUFFICES ASSUME NEW d \in NCs, Kind[d] = "DAP2"
                 PROVE  /\ phase'[d] = "opening" => nc3id'[d] = 0
                        /\ phase'[d] = "failing" => nc3id'[d] = -1
                        /\ phase'[d] = "building" =>
                             nc3id'[d] = 0 \/ \E s \in NCs : Owns(d, s)'
                        /\ phase'[d] = "open" => \E s \in NCs : Owns(d, s)'
      BY DEF Owned
    <3>1. CASE d \in Outer
      BY <2>1, <2>2, <3>1
    <3>2. CASE d \notin Outer
      <4>1. phase'[d] = phase[d] /\ nc3id'[d] = nc3id[d]
        BY <2>1, <3>2
      <4> QED
        BY <2>4, <3>2, <4>1 DEF OInv, Owned
    <3> QED
      BY <3>1, <3>2
  <2>6. NotShared'
    <3>1. \A d \in NCs : Holding(d)' => Holding(d) /\ nc3id'[d] = nc3id[d]
      BY <2>1, <2>2 DEF Holding
    <3> QED
      BY <3>1 DEF OInv, NotShared
  <2> QED
    BY <2>5, <2>6
<1>7. ASSUME NEW n \in NCs, NCD2_open_succeeds(n) PROVE Owned' /\ NotShared'
  <2>1. /\ phase[n] = "building" /\ find_in_NCList(nc3id[n]) # NULL
        /\ phase' = [phase EXCEPT ![n] = "open"]
        /\ UNCHANGED <<nc_filelist, ext_ncid, nc3id, hidden>>
    BY <1>7 DEF NCD2_open_succeeds
  <2>2. nc3id[n] # 0
    BY <2>1, FoundById DEF OInv, NInv
  <2>3. Listed' = Listed
    BY <2>1 DEF Listed
  <2>4. ASSUME NEW d \in NCs, NEW s \in NCs, Owns(d, s)
        PROVE  Kept(s)
    BY <1>2, <2>1, <2>3, <2>4 DEF Owns, Kept
  <2>5. /\ \A d \in NCs : d # n => phase'[d] \in {phase[d], "free"}
        /\ phase'[n] = "open"
    BY <1>2, <2>1
  <2> QED
    BY <1>1, <2>1, <2>2, <2>4, <2>5, OwnersLeft
<1>8. ASSUME NEW n \in NCs, NCD2_open_fails(n) PROVE Owned' /\ NotShared'
  <2>1. Kind[n] = "DAP2" /\ phase[n] # "free"
    BY <1>8, OuterBusy DEF NCD2_open_fails, OInv, InProgress
  <2> QED
    BY <1>1, <1>8, <2>1, NCD2CloseOwns DEF NCD2_open_fails
<1>9. ASSUME NEW n \in NCs, NCD2_prefetch_fails(n)
      PROVE  Owned' /\ NotShared'
  BY <1>1, <1>9, FreeOwns DEF NCD2_prefetch_fails
<1>10. ASSUME NEW n \in NCs, nc_close_ok(n) \/ nc_abort(n)
       PROVE  Owned' /\ NotShared'
  <2>1. phase[n] = "open" /\ n \notin hidden /\ UNCHANGED <<nc3id, hidden>>
    BY <1>10 DEF nc_close_ok, nc_abort, UserHas
  <2>2. CASE Kind[n] = "DAP2" /\ NCD2_close_and_free(n)
    BY <1>1, <2>1, <2>2, NCD2CloseOwns
  <2>3. CASE del_from_NCList({n}) /\ phase' = [phase EXCEPT ![n] = "free"]
    BY <1>1, <2>1, <2>3, FreeOwns
  <2> QED
    BY <1>10, <2>2, <2>3 DEF nc_close_ok, nc_abort
<1>11. CASE UNCHANGED <<nc_filelist, ext_ncid, phase, nc3id, hidden>>
  BY <1>11 DEF OInv, Owned, NotShared, Holding, Owns, Listed
<1>12. ASSUME NEW n \in NCs, nc_close_fails(n) PROVE Owned' /\ NotShared'
  BY <1>11, <1>12 DEF nc_close_fails
<1>13. CASE UNCHANGED vars
  BY <1>11, <1>13 DEF vars
<1> QED
  BY <1>3, <1>4, <1>5, <1>6, <1>7, <1>8, <1>9, <1>10, <1>12, <1>13 DEF Next

LEMMA InitOwns == Init => OInv
<1> SUFFICES ASSUME Init PROVE OInv
  OBVIOUS
<1>1. Len(calls) = 0 /\ \A n \in NCs : phase[n] = "free"
  BY DEF Init
<1> QED
  BY <1>1, InitIInv
     DEF OInv, NInv, Nesting, Identified, Owned, NotShared, Holding

LEMMA SpecOInv == Spec => []OInv
BY InitOwns, NextOwns, PTL DEF Spec

(* As long as there is a slot for every NC object, each open dataset is    *)
(* found by the id that its nc_open or nc_create returned.                 *)
THEOREM IdsStayValid ==
  ASSUME Room
  PROVE  Spec => []OpenIsFindable
<1>1. OInv => OpenIsFindable
  <2> SUFFICES ASSUME OInv, NEW n \in NCs, phase[n] = "open"
               PROVE  find_in_NCList(ext_ncid[n]) = n
    BY DEF OpenIsFindable
  <2>1. n \in Listed
    BY DEF OInv, Identified
  <2> QED
    BY <2>1, FoundById DEF OInv, NInv
<1> QED
  BY <1>1, SpecOInv, PTL

(* Whatever the number of slots, and even when the table is full: an open  *)
(* DAP2 dataset has an open substrate that no other dataset has, so that   *)
(* NCD2_close reaches its own.                                             *)
THEOREM SubstratesOwned == Spec => []SubstrateOwned
<1>1. OInv => SubstrateOwned
  <2> SUFFICES ASSUME OInv, NEW n \in NCs, Kind[n] = "DAP2", phase[n] = "open"
               PROVE  /\ find_in_NCList(nc3id[n]) \in hidden
                      /\ phase[find_in_NCList(nc3id[n])] = "open"
                      /\ \A m \in NCs \ {n} :
                           Kind[m] = "DAP2" /\ phase[m] = "open" =>
                             nc3id[m] # nc3id[n]
    BY DEF SubstrateOwned
  <2>1. PICK s \in NCs : Owns(n, s)
    BY DEF OInv, Owned
  <2>2. find_in_NCList(nc3id[n]) = s /\ nc3id[n] # 0
    BY <2>1, FoundById DEF OInv, NInv, Owns
  <2> QED
    BY <2>1, <2>2 DEF Owns, OInv, NotShared, Holding
<1> QED
  BY <1>1, SpecOInv, PTL

-----------------------------------------------------------------------------
(* The id -1 of an open that got no substrate names the last slot.  With   *)
(* more slots than objects can ever be in use, add_to_NCList, which takes  *)
(* the first free slot, never gets to the last one.                        *)
SpareRoom == IsFiniteSet(NCs) /\ Cardinality(NCs) < NCFILELISTLENGTH - 1

LastSlot     == NCFILELISTLENGTH - 1
LastFree == nc_filelist[LastSlot] = NULL

LEMMA OtherFree ==
  ASSUME SpareRoom, Table, LastFree, NEW n \in NCs, n \notin Listed
  PROVE  \E i \in FreeSlots : i < LastSlot
<1> SUFFICES ASSUME \A i \in FreeSlots : ~(i < LastSlot) PROVE FALSE
  OBVIOUS
<1> USE SlotsFinite
<1>1. NCFILELISTLENGTH \in Nat /\ LastSlot \in Slots
  BY LengthAssumption DEF Slots, LastSlot
<1>2. Occupied = 1 .. LastSlot - 1
  <2>1. ASSUME NEW i \in Occupied
        PROVE  i \in 1 .. LastSlot - 1
    <3>1. i \in Slots /\ i # 0 /\ i # LastSlot
      BY DEF Occupied, Table, LastFree
    <3> QED
      BY <1>1, <3>1 DEF Slots, LastSlot
  <2>2. ASSUME NEW i \in 1 .. LastSlot - 1
        PROVE  i \in Occupied
    <3>1. i \in Slots /\ i # 0 /\ i < LastSlot
      BY <1>1 DEF Slots, LastSlot
    <3> QED
      BY <3>1 DEF FreeSlots, Occupied
  <2> QED
    BY <2>1, <2>2
<1>3. Cardinality(NCs) \in Nat /\ Cardinality(NCs) >= 1
  <2>1. Cardinality(NCs) \in Nat /\ Cardinality(NCs) # 0
    BY FS_CardinalityType, FS_EmptySet DEF SpareRoom
  <2> QED
    BY <2>1
<1>4. Cardinality(Occupied) = LastSlot - 1
  <2>1. LastSlot - 1 \in Nat
    BY <1>1, <1>3 DEF SpareRoom, LastSlot
  <2>2. Cardinality(1 .. LastSlot - 1) = IF 1 > LastSlot - 1 THEN 0
                                     ELSE (LastSlot - 1) - 1 + 1
    BY <2>1, FS_Interval
  <2> QED
    BY <1>2, <2>1, <2>2
<1> DEFINE f == [i \in Occupied |-> nc_filelist[i]]
<1>5. f \in Injection(Occupied, NCs \ {n})
  <2>1. \A i \in Occupied : nc_filelist[i] \in NCs \ {n} /\
                            ext_ncid[nc_filelist[i]] = i
    BY DEF Table, Listed, Occupied
  <2>2. f \in [Occupied -> NCs \ {n}]
    BY <2>1
  <2>3. \A i, j \in Occupied : f[i] = f[j] => i = j
    BY <2>1
  <2> HIDE DEF f
  <2> QED
    BY <2>2, <2>3 DEF Injection, IsInjective
<1>6. IsFiniteSet(NCs \ {n}) /\ Cardinality(NCs \ {n}) = Cardinality(NCs) - 1
  BY FS_RemoveElement DEF SpareRoom
<1>7. Cardinality(Occupied) <= Cardinality(NCs) - 1
  <2> HIDE DEF f
  <2> QED
    BY <1>5, <1>6, FS_Injection
<1> QED
  BY <1>1, <1>3, <1>4, <1>7 DEF SpareRoom, LastSlot

LEMMA BeginLast ==
  ASSUME SpareRoom, Table, LastFree, NEW n \in NCs, n \notin Listed,
         add_to_NCList(n)
  PROVE  LastFree'
<1> DEFINE new_id == CHOOSE i \in FreeSlots : \A j \in FreeSlots : i <= j
<1>1. PICK k \in FreeSlots : k < LastSlot
  BY OtherFree
<1>2. new_id \in FreeSlots /\ new_id <= k
  <2>1. \E i \in FreeSlots : \A j \in FreeSlots : i <= j
    BY <1>1, LeastFree
  <2> QED
    BY <2>1
<1>3. nc_filelist' = [nc_filelist EXCEPT ![new_id] = n]
  BY <1>1 DEF add_to_NCList
<1> HIDE DEF new_id
<1>4. new_id # LastSlot
  <2>1. new_id \in Nat /\ k \in Nat /\ LastSlot \in Int
    BY <1>2, LengthAssumption, SlotsFinite DEF FreeSlots, LastSlot
  <2> QED
    BY <1>1, <1>2, <2>1
<1> QED
  BY <1>3, <1>4 DEF LastFree, Table

LEMMA NextLast ==
  ASSUME SpareRoom, IInv, LastFree, [Next]_vars
  PROVE  LastFree'
<1>1. LastSlot \in Slots
  BY LengthAssumption DEF LastSlot, Slots
<1>2. ASSUME NEW S, del_from_NCList(S) PROVE LastFree'
  BY <1>1, <1>2 DEF del_from_NCList, LastFree
<1>3. ASSUME NEW n \in NCs, Begin(n) PROVE LastFree'
  BY <1>3, BeginLast DEF Begin, IInv
<1>4. CASE UNCHANGED nc_filelist
  BY <1>4 DEF LastFree
<1> QED
  BY <1>2, <1>3, <1>4
  DEF Next, vars, UserOpen, NCD2_create_substrate, OpenSucceeds, OpenFails,
      NCD2_open_succeeds, NCD2_open_fails, NCD2_prefetch_fails, nc_close_ok,
      nc_close_fails, nc_abort, NCD2_close_and_free

(* What NCD2_open aborts when it fails is hidden, or nothing.              *)
LEMMA FailClosesOwn ==
  ASSUME OInv, LastFree, NEW n \in NCs, Kind[n] = "DAP2",
         phase[n] \in InProgress,
         find_in_NCList(nc3id[n]) # NULL
  PROVE  find_in_NCList(nc3id[n]) \in hidden
<1>1. nc3id[n] # 0
  BY FoundById DEF OInv, NInv
<1>2. nc3id[n] # -1
  BY DEF find_in_NCList, LastFree, LastSlot
<1>3. PICK s \in NCs : Owns(n, s)
  BY <1>1, <1>2 DEF OInv, Owned, InProgress
<1> QED
  BY <1>3, FoundById DEF OInv, NInv, Owns

(* With spare room in the table, no step of an open, and no failure of     *)
(* one, closes a dataset of the user.                                      *)
THEOREM OpensCloseNoOther ==
  ASSUME SpareRoom
  PROVE  Spec => OpenClosesNoOther
<1>1. Init => LastFree
  <2>1. LastSlot \in Slots
    BY LengthAssumption DEF LastSlot, Slots
  <2> QED
    BY <2>1 DEF Init, LastFree
<1>2. OInv => IInv
  BY DEF OInv, NInv
<1>3. IInv /\ LastFree /\ [Next]_vars => LastFree'
  BY NextLast
<1>4. OInv /\ LastFree /\ [Next]_vars =>
        [calls # <<>> => \A n \in NCs \ hidden :
           phase[n] = "open" => phase'[n] = "open"]_vars
  <2> SUFFICES ASSUME OInv, LastFree, Next, calls # <<>>,
                      NEW m \in NCs \ hidden, phase[m] = "open"
               PROVE  phase'[m] = "open"
    OBVIOUS
  <2> USE DEF OInv, NInv, IInv, Lives
  <2>1. Innermost \in NCs /\ phase[Innermost] \in InProgress /\ m # Innermost
        /\ m \notin Outer
    BY OuterBusy DEF InProgress
  <2>2. PICK n \in NCs :
          \/ NCD2_create_substrate(n) \/ OpenSucceeds(n) \/ OpenFails(n)
          \/ NCD2_open_succeeds(n) \/ NCD2_open_fails(n)
          \/ NCD2_prefetch_fails(n)
    BY DEF Next, UserOpen, nc_close_ok, nc_close_fails, nc_abort, UserHas
  <2>3. CASE NCD2_create_substrate(n)
    <3>1. phase[n] = "free" /\ phase' = [phase EXCEPT ![n] = "opening"]
      BY <2>3 DEF NCD2_create_substrate, Begin
    <3> QED
      BY <3>1
  <2>4. CASE OpenSucceeds(n) \/ OpenFails(n)
    BY <2>1, <2>4 DEF OpenSucceeds, OpenFails
  <2>5. CASE NCD2_open_succeeds(n) \/ NCD2_prefetch_fails(n)
    BY <2>1, <2>5 DEF NCD2_open_succeeds, NCD2_prefetch_fails
  <2>6. CASE NCD2_open_fails(n)
    <3>1. n = Innermost /\ Kind[n] = "DAP2" /\ phase[n] \in InProgress
      BY <2>1, <2>6 DEF NCD2_open_fails
    <3>2. m # n /\ (find_in_NCList(nc3id[n]) # NULL => m # find_in_NCList(nc3id[n]))
      BY <2>1, <3>1, FailClosesOwn
    <3> QED
      BY <2>6, <3>2, NullAssumption DEF NCD2_open_fails, NCD2_close_and_free
  <2> QED
    BY <2>2, <2>3, <2>4, <2>5, <2>6
<1> QED
  BY <1>1, <1>2, <1>3, <1>4, SpecOInv, PTL DEF Spec, OpenClosesNoOther
=============================================================================
