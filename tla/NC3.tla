-------------------------------- MODULE NC3 --------------------------------
(* The classic format, libsrc: where the variables of a dataset lie in the *)
(* file (NC_begins), how nc_enddef moves and fills them when the header or *)
(* the set of variables has grown, and how the record count and the header *)
(* get to the file.                                                        *)
(*                                                                         *)
(* The file is the memory of bytes that ncio promises (ByteFile, which     *)
(* PosixIO implements).  The header is kept as a value next to the bytes   *)
(* that it covers, so that an overlap shows.  Sizes are scaled: Align      *)
(* stands for the four bytes to which variables are padded.  One attribute *)
(* of a changing length stands for the part of the header that is not      *)
(* variables.  All calls fill (no NC_NOFILL) and open for writing.         *)
EXTENDS Naturals, Sequences, SequencesExt, FiniteSets

CONSTANTS
  Align,     (* X_ALIGN                                                    *)
  BaseSize,  (* the size of a header without variables and attributes      *)
  VarSize,   (* what a variable adds to it                                 *)
  AttSizes,  (* what the attribute may add to it; 0 means there is none    *)
  Shapes,    (* the variables clients define: [rec, xlen] where xlen is    *)
             (* the size of the variable, or of one record of it, unpadded *)
  Reserves,  (* the arguments of nc__enddef: [h_minfree, v_align,          *)
             (* v_minfree, r_align]                                        *)
  Values,    (* what clients write                                         *)
  Fill, Unset, Hdr, Garbage,
  Shared,    (* the values of NC_SHARE at open                             *)
  Unsynced,  (* clients call nc_redef while changes are not in the file    *)
  FailAt,    (* the steps at which nc_enddef may fail: what it is doing    *)
             (* and how many steps are done by then                        *)
  Size,      (* bound: addresses are 0 .. Size - 1                         *)
  MaxVars,   (* bound: variables                                           *)
  MaxRecs    (* bound: records                                             *)

Default == [h_minfree |-> 0, v_align |-> 1, v_minfree |-> 0, r_align |-> 1]

ASSUME ParametersAssumption ==
  /\ Align \in Nat \ {0} /\ BaseSize \in Nat \ {0} /\ VarSize \in Nat
  /\ AttSizes \subseteq Nat /\ 0 \in AttSizes
  /\ Shapes \subseteq [rec : BOOLEAN, xlen : Nat \ {0}]
  /\ Default \in Reserves
  /\ Reserves \subseteq [h_minfree : Nat, v_align : Nat \ {0},
                         v_minfree : Nat, r_align : Nat \ {0}]
  /\ FailAt \subseteq [op : {"move_recs_r", "move_vars_r", "write_NC", "fill"},
                      done : Nat]
  /\ Shared \subseteq BOOLEAN /\ Unsynced \in BOOLEAN
  /\ Size \in Nat /\ BaseSize <= Size
  /\ MaxVars \in Nat /\ MaxRecs \in Nat \ {0}

VARIABLES
  file,  (* the header as it was written last, and the bytes               *)
  nc,    (* the NC3_INFO of the open dataset                               *)
  old,   (* its member old: the NC3_INFO before nc_redef                   *)
  flags  (* its member flags, and NC_SHARE                                 *)

vars == <<file, nc, old, flags>>

Addr   == 0 .. Size - 1
None   == [vars |-> <<>>, att |-> 0, open |-> FALSE]
NoFile == [header |-> [vars |-> <<>>, att |-> 0, numrecs |-> 0],
           bytes |-> [a \in Addr |-> Unset], exists |-> FALSE]
IsOpen == nc # None
Indef  == {"CREAT", "INDEF"} \cap flags # {}

RndUp(n, align) == ((n + align - 1) \div align) * align
Larger(m, n)    == IF m < n THEN n ELSE m

XSize(h)   == BaseSize + h.att + Len(h.vars) * VarSize   (* ncx_len_NC     *)
VarLen(v)  == RndUp(v.xlen, Align)                       (* NC_var_shape   *)
Recs(h)    == {i \in DOMAIN h.vars : h.vars[i].rec}
Fixed(h)   == DOMAIN h.vars \ Recs(h)
Least(S)    == CHOOSE i \in S : \A j \in S : i <= j
Greatest(S) == CHOOSE i \in S : \A j \in S : j <= i

(* The only record variable of a dataset has records without padding; a    *)
(* bug forgets "only".                                                     *)
RecSize_first(h, padded) ==
  IF Recs(h) # {} THEN h.vars[CHOOSE i \in Recs(h) : TRUE].xlen ELSE padded
RecSize(h, padded) ==
  IF Cardinality(Recs(h)) = 1
  THEN h.vars[CHOOSE i \in Recs(h) : TRUE].xlen ELSE padded

(* The size of a record of the first n variables, each padded.             *)
Padded(h) ==
  LET size[n \in 0 .. Len(h.vars)] ==
        IF n = 0 THEN 0
        ELSE size[n - 1] + IF h.vars[n].rec THEN VarLen(h.vars[n]) ELSE 0
  IN size

Offset(h, i, rec) ==
  h.vars[i].begin + IF h.vars[i].rec THEN h.recsize * rec ELSE 0

-----------------------------------------------------------------------------
(* The layout *)

(* NC_check_voffs: the variables lie one after the other in the order of   *)
(* their definition, the records after the fixed variables.                *)
End(h, i) == h.vars[i].begin + VarLen(h.vars[i])
Ascending(h, S, begin) ==
  \A i \in S : /\ h.vars[i].begin >= begin
              /\ \A k \in S : i < k => End(h, i) <= h.vars[k].begin
NC_check_voffs(h) ==
  /\ Ascending(h, Fixed(h), h.begin_var)
  /\ \A i \in Fixed(h) : End(h, i) <= h.begin_rec
  /\ Ascending(h, Recs(h), h.begin_rec)

(* Where a section begins that must lie at or after index: where it is now *)
(* if that leaves the free space and the alignment that were asked for.    *)
(* Bugs: what has been placed once stays; what has been placed is placed   *)
(* again.                                                                  *)
Placed_once(begin, index, minfree, align) ==
  IF begin > 0 THEN begin ELSE RndUp(index + minfree, align)
Placed_anew(begin, index, minfree, align) == RndUp(index + minfree, align)
Placed(begin, index, minfree, align) ==
  IF begin >= index + minfree /\ begin % align = 0 THEN begin
  ELSE RndUp(index + minfree, align)

(* A variable that was in the file never moves towards its beginning.      *)
OldBegin(i) == IF i \in DOMAIN old.vars THEN old.vars[i].begin ELSE 0
OldStart(section) == IF old = None THEN 0 ELSE old[section]

(* The first free address behind the first n fixed variables.              *)
FixedEnds(begin_var) ==
  LET vs == nc.vars
      end[n \in 0 .. Len(vs)] ==
        IF n = 0 THEN begin_var
        ELSE IF vs[n].rec THEN end[n - 1]
        ELSE Larger(end[n - 1], OldBegin(n)) + VarLen(vs[n])
  IN end

(* NC_begins: the places of the variables for the header of now.  With no  *)
(* variables there is nothing to place.                                    *)
NC_begins(r) ==
  LET vs == nc.vars
      fixed == FixedEnds(Larger(Placed(nc.begin_var, XSize(nc),
                                       r.h_minfree, r.v_align),
                                OldStart("begin_var")))
      begin_rec == Placed(Larger(nc.begin_rec, OldStart("begin_rec")),
                          fixed[Len(vs)], r.v_minfree, r.r_align)
      placed == [i \in DOMAIN vs |->
                   [vs[i] EXCEPT !.begin =
                      Larger(IF vs[i].rec THEN begin_rec + Padded(nc)[i - 1]
                             ELSE fixed[i - 1],
                             OldBegin(i))]]
  IN IF vs = <<>> THEN nc
     ELSE [nc EXCEPT
       !.vars      = placed,
       !.begin_var = IF Fixed(nc) = {} THEN begin_rec
                     ELSE placed[Least(Fixed(nc))].begin,
       !.begin_rec = begin_rec,
       !.recsize   = RecSize(nc, Padded(nc)[Len(vs)])]

(* nc_get_NC and NC_computeshapes: the NC3_INFO of a header in the file.   *)
FromHeader(h) ==
  LET first == IF Fixed(h) = {} THEN XSize(h)
               ELSE End(h, Greatest(Fixed(h)))
      begin_rec == IF Recs(h) = {} THEN first
                   ELSE h.vars[Least(Recs(h))].begin
  IN [vars |-> h.vars, att |-> h.att, numrecs |-> h.numrecs,
      begin_var |-> IF Fixed(h) = {} THEN begin_rec
                    ELSE h.vars[Least(Fixed(h))].begin,
      begin_rec |-> begin_rec,
      recsize   |-> RecSize(h, Padded(h)[Len(h.vars)])]

(* What nc_get_NC refuses with NC_ENOTNC.                                  *)
Readable(h) ==
  LET g == FromHeader(h) IN
  /\ XSize(h) <= g.begin_var /\ g.begin_var <= g.begin_rec
  /\ NC_check_voffs(g)

-----------------------------------------------------------------------------
(* The file *)

Header(h) == [vars |-> h.vars, att |-> h.att, numrecs |-> h.numrecs]

WithBytes(f, at, len, byte(_)) ==
  [f EXCEPT !.bytes = [a \in Addr |-> IF a \in at .. at + len - 1
                                      THEN byte(a - at) ELSE @[a]]]
WithHeader(f, h) ==
  [WithBytes(f, 0, XSize(h), LAMBDA k : Hdr) EXCEPT !.header = Header(h)]
WithValue(f, at, len, v) == WithBytes(f, at, len, LAMBDA k : <<v, k>>)
Moved(f, to, from, len)  == WithBytes(f, to, len, LAMBDA k : f.bytes[from + k])

(* NC_sync: the header if it has changed, else the count if it has.  A bug *)
(* asks the other way round.                                               *)
NC_sync_count ==
  IF "NDIRTY" \in flags THEN [file EXCEPT !.header.numrecs = nc.numrecs]
  ELSE IF "HDIRTY" \in flags THEN WithHeader(file, nc)
  ELSE file
NC_sync ==
  IF "HDIRTY" \in flags THEN WithHeader(file, nc)
  ELSE IF "NDIRTY" \in flags THEN [file EXCEPT !.header.numrecs = nc.numrecs]
  ELSE file

-----------------------------------------------------------------------------
(* nc_enddef *)

(* Records and variables of them, the last first: each new place may be    *)
(* the old place of what comes behind it.  A bug starts at the front.      *)
Behind(p, q) == p[1] > q[1] \/ (p[1] = q[1] /\ p[2] > q[2])
Foremost(P) == CHOOSE p \in P : \A q \in P \ {p} : Behind(q, p)
Hindmost(P) == CHOOSE p \in P : \A q \in P \ {p} : Behind(p, q)
Downwards(P) ==
  LET rest[k \in 0 .. Cardinality(P)] ==
        IF k = 0 THEN P ELSE rest[k - 1] \ {Hindmost(rest[k - 1])}
  IN [k \in 1 .. Cardinality(P) |-> Hindmost(rest[k - 1])]
Upwards(P) == Reverse(Downwards(P))

(* The step that moves variable i, or its record rec, to its new place.    *)
Move(new, i, rec) ==
  [op |-> IF old.vars[i].rec THEN "move_recs_r" ELSE "move_vars_r",
   to |-> Offset(new, i, rec), from |-> Offset(old, i, rec),
   len |-> VarLen(old.vars[i])]
MovesOf(new, places) ==
  LET s == Downwards(places) IN [k \in DOMAIN s |-> Move(new, s[k][2], s[k][1])]

(* move_recs_r and move_vars_r.                                            *)
move_recs_r(new) ==
  MovesOf(new, {p \in (0 .. old.numrecs - 1) \X Recs(old) :
                  Offset(new, p[2], p[1]) # Offset(old, p[2], p[1])})
move_vars_r(new) ==
  MovesOf(new, {p \in {0} \X Fixed(old) :
                  new.vars[p[2]].begin > old.vars[p[2]].begin})

(* What is moved, in the three cases of NC_endef.                          *)
Moves(new) ==
  LET recsMove == new.begin_rec > old.begin_rec
      varsMove == IF new.begin_var > old.begin_var THEN move_vars_r(new) ELSE <<>>
  IN IF old = None \/ new.vars = <<>> THEN <<>>
     ELSE IF recsMove THEN move_recs_r(new) \o varsMove
     ELSE varsMove \o
            IF new.recsize > old.recsize THEN move_recs_r(new) ELSE <<>>

(* fillerup, fill_added, fill_added_recs: the variables that are new, the  *)
(* records among them for every record that exists.                        *)
FillLen(h, i) == IF h.vars[i].rec THEN RecSize(h, VarLen(h.vars[i]))
                 ELSE VarLen(h.vars[i])
FillOf(new, i, rec) ==
  [op |-> "fill", to |-> Offset(new, i, rec),
   len |-> FillLen(new, i)]
FillsOf(h, places) ==
  LET s == Upwards(places) IN [k \in DOMAIN s |-> FillOf(h, s[k][2], s[k][1])]
Fills(new) ==
  LET added == DOMAIN new.vars \ DOMAIN old.vars
  IN FillsOf(new, {0} \X (added \cap Fixed(new))) \o
     FillsOf(new, (0 .. new.numrecs - 1) \X (added \cap Recs(new)))

(* All that NC_endef does to the file, in this order.                      *)
Steps(new) == Moves(new) \o <<[op |-> "write_NC"]>> \o Fills(new)
Step(new, f, s) ==
  CASE s.op = "write_NC" -> WithHeader(f, new)
    [] s.op = "fill"     -> WithValue(f, s.to, s.len, Fill)
    [] OTHER             -> Moved(f, s.to, s.from, s.len)
Done(new, steps) ==
  LET after[k \in 0 .. Len(steps)] ==
        IF k = 0 THEN file ELSE Step(new, after[k - 1], steps[k])
  IN after[Len(steps)]

(* The assertions of NC_endef and move_recs_r.                             *)
Asserted(new) ==
  old # None =>
    /\ new.begin_rec >= old.begin_rec /\ new.begin_var >= old.begin_var
    /\ \A i \in Recs(old), rec \in 0 .. old.numrecs - 1 :
         Offset(new, i, rec) >= Offset(old, i, rec)

(* Bound: the header and MaxRecs records have room below Size.             *)
Fits(h) ==
  /\ XSize(h) <= Size /\ h.begin_rec <= Size
  /\ \A i \in DOMAIN h.vars : Offset(h, i, MaxRecs - 1) + VarLen(h.vars[i]) <= Size

Endable(new) == Indef /\ NC_check_voffs(new) /\ Asserted(new) /\ Fits(new)

NC3__enddef(r) ==
  /\ Endable(NC_begins(r))
  /\ file' = Done(NC_begins(r), Steps(NC_begins(r)))
  /\ nc' = NC_begins(r)
  /\ old' = None
  /\ flags' = flags \ {"CREAT", "INDEF", "HDIRTY", "NDIRTY"}

(* The step behind done others fails and has no effect: those before it   *)
(* stay done and the dataset stays in define mode.  move_vars_r goes on    *)
(* with the variables that are left.                                       *)
Before(steps, done) ==
  SubSeq(steps, 1, done) \o
    IF steps[done + 1].op = "move_vars_r"
    THEN SubSeq(steps, done + 2,
                Greatest({k \in DOMAIN steps : steps[k].op = "move_vars_r"}))
    ELSE <<>>
NC3__enddef_fails(r) ==
  LET new   == NC_begins(r)
      steps == Steps(new)
  IN /\ Endable(new)
     /\ \E at \in FailAt :
          /\ at.done < Len(steps) /\ steps[at.done + 1].op = at.op
          /\ file' = Done(new, Before(steps, at.done))
     /\ nc' = new
     /\ UNCHANGED <<old, flags>>

-----------------------------------------------------------------------------
(* Opening and closing *)

Nsync(share) == IF share THEN {"NSYNC"} ELSE {}
NC3_create(share) ==
  /\ ~IsOpen /\ file = NoFile
  /\ nc' = [vars |-> <<>>, att |-> 0, numrecs |-> 0,
            begin_var |-> 0, begin_rec |-> 0, recsize |-> 0]
  /\ old' = None
  /\ file' = WithHeader([NoFile EXCEPT !.exists = TRUE], nc')
  /\ flags' = {"CREAT"} \cup Nsync(share)

NC3_open(share) ==
  /\ ~IsOpen /\ file # NoFile /\ Readable(file.header)
  /\ nc' = FromHeader(file.header) /\ old' = None
  /\ flags' = Nsync(share)
  /\ UNCHANGED file

NC3_sync ==
  /\ IsOpen /\ ~Indef
  /\ file' = NC_sync
  /\ flags' = flags \ {"HDIRTY", "NDIRTY"}
  /\ UNCHANGED <<nc, old>>

(* With NC_SHARE the header is read again, whatever this process has       *)
(* changed in it.                                                          *)
NC3_redef ==
  /\ IsOpen /\ ~Indef
  /\ Unsynced \/ {"HDIRTY", "NDIRTY"} \cap flags = {}
  /\ nc' = IF "NSYNC" \in flags THEN FromHeader(file.header) ELSE nc
  /\ old' = nc'
  /\ flags' = {"INDEF"} \cup
       IF "NSYNC" \in flags THEN flags \ {"HDIRTY", "NDIRTY"} ELSE flags
  /\ UNCHANGED file

NC3_close ==
  /\ IsOpen
  /\ IF Indef
     THEN LET new == NC_begins(Default)
          IN Endable(new) /\ file' = Done(new, Steps(new))
     ELSE file' = NC_sync
  /\ nc' = None /\ old' = None /\ flags' = {}

(* A dataset that nc_create made and nc_enddef never ended is removed.     *)
(* Bugs: old is not freed; the header is written although it describes     *)
(* what nc_enddef would have done.                                         *)
NC3_abort_old ==
  /\ IsOpen
  /\ file' = IF Indef THEN file ELSE NC_sync
  /\ nc' = None /\ flags' = {}
  /\ UNCHANGED old
NC3_abort_write ==
  /\ IsOpen
  /\ file' = IF "CREAT" \in flags THEN NoFile ELSE WithHeader(file, nc)
  /\ nc' = None /\ old' = None /\ flags' = {}
NC3_abort ==
  /\ IsOpen
  /\ file' = IF "CREAT" \in flags THEN NoFile
             ELSE IF Indef THEN file ELSE NC_sync
  /\ nc' = None /\ old' = None /\ flags' = {}

-----------------------------------------------------------------------------
(* Definitions and data *)

NC3_def_var(shape) ==
  /\ IsOpen /\ Indef /\ Len(nc.vars) < MaxVars
  /\ nc' = [nc EXCEPT !.vars = Append(@, [rec |-> shape.rec, xlen |-> shape.xlen,
                                       begin |-> 0])]
  /\ UNCHANGED <<file, old, flags>>

(* NC3_put_att and NC3_del_att: outside define mode the attribute may only *)
(* be replaced by one that is not longer.                                  *)
NC3_put_att(size) ==
  /\ IsOpen /\ size # nc.att
  /\ Indef \/ size \in 1 .. nc.att
  /\ nc' = [nc EXCEPT !.att = size]
  /\ flags' = IF Indef THEN flags ELSE flags \cup {"HDIRTY"}
  /\ UNCHANGED <<file, old>>

(* NCvnrecs: records up to the one that is written are filled.              *)
RecordFills(rec) == FillsOf(nc, (nc.numrecs .. rec) \X Recs(nc))

(* One value of a fixed variable, or one record of a record variable.      *)
NC3_put_vara(i, rec, v) ==
  LET grows  == nc.vars[i].rec /\ rec >= nc.numrecs
      filled == IF grows THEN Done(nc, RecordFills(rec)) ELSE file
      new    == IF grows THEN [nc EXCEPT !.numrecs = rec + 1] ELSE nc
      counted == IF grows /\ "NSYNC" \in flags
                 THEN [filled EXCEPT !.header.numrecs = rec + 1] ELSE filled
  IN /\ IsOpen /\ ~Indef /\ i \in DOMAIN nc.vars
     /\ ~nc.vars[i].rec => rec = 0
     /\ file' = WithValue(counted, Offset(nc, i, rec), nc.vars[i].xlen, v)
     /\ nc' = new
     /\ flags' = IF ~grows THEN flags
                 ELSE IF "NSYNC" \in flags THEN flags \ {"NDIRTY"}
                 ELSE flags \cup {"NDIRTY"}
     /\ UNCHANGED old

-----------------------------------------------------------------------------
Init ==
  /\ file = NoFile /\ nc = None /\ old = None /\ flags = {}

Next ==
  \/ \E share \in Shared : NC3_create(share) \/ NC3_open(share)
  \/ NC3_redef \/ NC3_sync \/ NC3_close \/ NC3_abort
  \/ \E r \in Reserves : NC3__enddef(r) \/ NC3__enddef_fails(r)
  \/ \E shape \in Shapes : NC3_def_var(shape)
  \/ \E size \in AttSizes : NC3_put_att(size)
  \/ \E i \in 1 .. MaxVars, rec \in 0 .. MaxRecs - 1, v \in Values :
       NC3_put_vara(i, rec, v)

Spec == Init /\ [][Next]_vars
-----------------------------------------------------------------------------
(* What a header and the bytes of the file mean *)

(* The value in len bytes, if they were all written together.              *)
ValueAt(at, len) ==
  LET found == {v \in Values \cup {Fill} :
                  \A k \in 0 .. len - 1 : file.bytes[at + k] = <<v, k>>}
  IN IF found = {} THEN Garbage ELSE CHOOSE v \in found : TRUE
Meaning(h) ==
  [att |-> h.att,
   numrecs |-> h.numrecs,
   vars |-> [i \in DOMAIN h.vars |->
     [rec  |-> h.vars[i].rec,
      data |-> [r \in 1 .. IF h.vars[i].rec THEN h.numrecs ELSE 1 |->
                  ValueAt(Offset(h, i, r - 1), h.vars[i].xlen)]]]]

(* The dataset as it is outside define mode: what the NC3_INFO that is     *)
(* valid for the file says.                                                *)
Valid == IF old # None THEN old ELSE IF IsOpen THEN nc ELSE FromHeader(file.header)
Dataset == IF file = NoFile \/ "CREAT" \in flags THEN NoFile ELSE Meaning(Valid)

(* What has been defined since define mode was entered.                    *)
Definitions ==
  IF ~Indef THEN NoFile
  ELSE [vars |-> [i \in 1 .. Len(nc.vars) - Len(old.vars) |->
                    nc.vars[Len(old.vars) + i].rec],
        att  |-> nc.att]

-----------------------------------------------------------------------------
(* Properties *)

VarOK(v) == [rec |-> v.rec, xlen |-> v.xlen] \in Shapes /\ v.begin \in Addr
HeaderOK(h) ==
  /\ h.att \in AttSizes /\ h.numrecs \in 0 .. MaxRecs /\ Len(h.vars) <= MaxVars
  /\ \A i \in DOMAIN h.vars : VarOK(h.vars[i])

(* Headers have the parts of the interface, and flags come with the modes  *)
(* that they belong to.                                                    *)
TypeOK ==
  /\ HeaderOK(file.header)
  /\ \A h \in {nc, old} \ {None} : HeaderOK(h) /\ {h.begin_var, h.begin_rec} \subseteq 0 .. Size
  /\ flags \subseteq {"CREAT", "INDEF", "HDIRTY", "NDIRTY", "NSYNC"}
  /\ old # None <=> "INDEF" \in flags
  /\ ~IsOpen => flags = {}

(* Every header that is written to the file can be read again, and it lies *)
(* where no data was written.                                              *)
HeaderReadable ==
  file # NoFile =>
    /\ "CREAT" \in flags \/ Readable(file.header)
    /\ \A a \in 0 .. XSize(file.header) - 1 : file.bytes[a] = Hdr

(* The header in the file is the one in memory but for what the dirty      *)
(* flags say (nc3internal.h: "numrecs has changed", "header info has       *)
(* changed"), and places variables and records as the library does.        *)
FlagsTellChanges ==
  IsOpen /\ ~Indef =>
    LET h == FromHeader(file.header) IN
    /\ {"HDIRTY", "NDIRTY"} \cap flags = {} => h.numrecs = nc.numrecs
    /\ "HDIRTY" \notin flags => h.att = nc.att
    /\ h.vars = nc.vars /\ h.recsize = nc.recsize

(* No value lies in the bytes of another one or of the header, nor does    *)
(* the record that may be written next.                                    *)
LayoutDisjoint ==
  IsOpen /\ ~Indef =>
    LET places == {p \in (DOMAIN nc.vars) \X (0 .. MaxRecs) :
                     nc.vars[p[1]].rec \/ p[2] = 0}
        Bytes(p) == {Offset(nc, p[1], p[2]) + k : k \in 0 .. nc.vars[p[1]].xlen - 1}
    IN /\ \A p, q \in places : p # q => Bytes(p) \cap Bytes(q) = {}
       /\ \A p \in places : \A a \in Bytes(p) : a >= XSize(nc)

(* Whenever a client may call nc__enddef, NC_begins finds places that      *)
(* NC_check_voffs accepts and the assertions of NC_endef hold              *)
(* (nc3internal.c: assert(ncp->begin_rec >= ncp->old->begin_rec)).         *)
AssertionsHold ==
  Indef => \A r \in Reserves :
             NC_check_voffs(NC_begins(r)) /\ Asserted(NC_begins(r))

(* "If define mode was entered by a call to nc_redef(), the netCDF dataset *)
(* is restored to its state before definition mode was entered" (dfile.c): *)
(* as long as nc_enddef has not succeeded the dataset is what it was, also *)
(* for who opens it after nc_abort.                                        *)
AbortRestores ==
  [][old # None /\ (old' # None \/ NC3_abort) => Dataset' = Dataset]_vars

(* Ending a redefinition moves data and keeps it (guide.dox: "data in the  *)
(* file is moved, and the location of data values in the file changes"),   *)
(* whatever alignment is asked for (dfile.c: "the align parameters are     *)
(* silently rounded up to multiples of 4").                                *)
EnddefKeepsValues ==
  [][old # None /\ old' = None /\ IsOpen' =>
       \A i \in DOMAIN old.vars : Dataset'.vars[i] = Dataset.vars[i]]_vars

(* The file is a dataset: what was written can be read, whatever was       *)
(* defined, moved, filled, closed and opened since.                        *)
Records == INSTANCE NCRecords
             WITH ds <- Dataset, defs <- Definitions, Absent <- NoFile
IsRecords == Records!Spec
=============================================================================
