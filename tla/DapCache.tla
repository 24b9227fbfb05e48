------------------------------ MODULE DapCache ------------------------------
(* The data cache of the OPeNDAP 2 client (libdap2/cache.c) and the get    *)
(* that uses it (nc3d_getvarx in getvara.c).  Each dataset that is open    *)
(* has a cache of responses: one prefetch of the small variables and a     *)
(* list of the fetches made since, the one used last at the end.  The      *)
(* dataset may change at the server at any time, and a fetch may fail.     *)
(*                                                                         *)
(* The variables are those of the DDS as the URL constrains it; how a      *)
(* constraint is written into a request is left out (a URL that takes a    *)
(* slice of a variable is not described), and what the server returns is   *)
(* the version of each element.                                            *)
EXTENDS Naturals, Sequences, FiniteSets, SequencesExt, FiniteSetsExt

CONSTANTS
  Vars,
  Cells,      (* the elements of each variable                             *)
  Small,      (* the variables markprefetch marked as prefetchable         *)
  cachelimit, (* the size and the count that are asked for                 *)
  cachecount,
  Failed,     (* what a get that failed returns                            *)
  MaxVersion  (* bound: changes of the dataset at the server               *)

ASSUME DapCacheAssumption ==
  /\ IsFiniteSet(Vars) /\ Small \subseteq Vars
  /\ DOMAIN Cells = Vars /\ \A v \in Vars : IsFiniteSet(Cells[v])
  /\ cachelimit \in Nat /\ cachecount \in Nat /\ MaxVersion \in Nat

VARIABLES
  controls, (* the flags of the connection                                 *)
  prefetch, nodes, cachesize, (* NCcache                                   *)
  attached, (* the response that the DDS is attached to                    *)
  server,   (* external: the version of the dataset                        *)
  seen,     (* history: the version of a variable that a get returned last *)
  answer,   (* history: what the last get returned                         *)
  uses      (* history: the fetches and cache hits, the latest last        *)

cache == <<prefetch, nodes, cachesize>>
vars == <<controls, cache, attached, server, seen, answer, uses>>

Closed == [open |-> FALSE]
NoNode == [vars |-> {}, data |-> <<>>, wholevariable |-> FALSE, xdrsize |-> 0]

(* applyclientparamcontrols; a URL with constraints for a source that      *)
(* cannot be constrained is refused.                                       *)
Controls ==
  {c \in [open : {TRUE}, cache : BOOLEAN, lazy : BOOLEAN, eager : BOOLEAN,
          wholevar : BOOLEAN, unconstrainable : BOOLEAN,
          projections : BOOLEAN, selections : BOOLEAN] :
     /\ ~(c.lazy /\ c.eager)
     /\ c.unconstrainable => c.cache /\ ~c.projections /\ ~c.selections}

Count == IF controls.cache THEN cachecount ELSE 0

Init ==
  /\ controls = Closed /\ prefetch = NoNode /\ nodes = <<>> /\ cachesize = 0
  /\ attached = NoNode
  /\ server = 0 /\ seen = [v \in Vars |-> 0] /\ answer = Failed /\ uses = <<>>

-----------------------------------------------------------------------------
(* Responses *)

(* The elements of the variables that a server sends when it is asked for  *)
(* "cells": what was asked for, everything if it takes no constraint, or   *)
(* something that parses and does not contain the variables any more.      *)
Response(c, cells, kind) ==
  LET sent == IF kind = "unfit" THEN <<>>
              ELSE IF c.unconstrainable THEN Cells ELSE cells
  IN  [v \in DOMAIN sent |-> [e \in sent[v] |-> server]]

DataSize(data) ==
  MapThenSumSet(LAMBDA v : Cardinality(DOMAIN data[v]), DOMAIN data)
SumSize(s) == FoldLeft(LAMBDA sum, n : sum + n.xdrsize, 0, s)

(* buildcachenode up to the new node.  The list of variables is what the   *)
(* caller wants, the constraint says whether they are there as a whole.    *)
Node(varlist, data, whole) ==
  [vars |-> varlist, data |-> data, wholevariable |-> whole,
   xdrsize |-> DataSize(data)]

Whole(vs) == [v \in vs |-> Cells[v]]

(* prefetchdata: the variables to prefetch, and the node they become.  A   *)
(* prefetch counts as whole whatever iscacheableconstraint says.           *)
Prefetchable(c) ==
  IF c.unconstrainable THEN Vars ELSE IF c.projections THEN {} ELSE Small
PrefetchNode(c, kind) ==
  Node(Prefetchable(c), Response(c, Whole(Prefetchable(c)), kind), TRUE)

-----------------------------------------------------------------------------
(* NCcache *)

(* A bug to catch: a part of a variable is a hit too.                      *)
Hits_any(v) == {i \in DOMAIN nodes : v \in nodes[i].vars}

(* Hits in the list, the latest first in the code; the prefetch comes      *)
(* before them.                                                            *)
Hits(v) == {i \in DOMAIN nodes : nodes[i].wholevariable /\ v \in nodes[i].vars}
Latest(S) == CHOOSE i \in S : \A j \in S : j <= i
iscached(v) == v \in prefetch.vars \/ Hits(v) # {}

(* buildcachenode: the list after the oldest nodes have made room for one  *)
(* more, first in size and then in number                                  *)
Room(k, node) ==
  /\ \/ k = Len(nodes)
     \/ cachesize - SumSize(SubSeq(nodes, 1, k)) + node.xdrsize <= cachelimit
  /\ Len(nodes) - k <= Count
Removed(node) ==
  CHOOSE k \in 0 .. Len(nodes) :
    Room(k, node) /\ \A j \in 0 .. k - 1 : ~Room(j, node)

(* A bug to catch: what is removed stays in the account.                   *)
Insert_keeps_size(node) ==
  /\ nodes' = Append(SubSeq(nodes, Removed(node) + 1, Len(nodes)), node)
  /\ cachesize' = cachesize + node.xdrsize

Insert(node) ==
  LET k == Removed(node)
  IN  /\ nodes' = Append(SubSeq(nodes, k + 1, Len(nodes)), node)
      /\ cachesize' = cachesize + node.xdrsize
                        - SumSize(SubSeq(nodes, 1, k))

(* A bug to catch: first in, first out.                                    *)
Touch_none(i) == UNCHANGED <<nodes, cachesize>>

(* iscached moves the node it finds in the list to the end                 *)
Touch(i) ==
  /\ nodes' = Append(RemoveAt(nodes, i), nodes[i])
  /\ UNCHANGED cachesize

(* history *)
Kept(s) == SubSeq(s, IF Len(s) > cachecount + 1 THEN Len(s) - cachecount
                     ELSE 1, Len(s))
Used(node, again) ==
  LET last == SelectLastInSeq(uses, LAMBDA n : n = node)
  IN  uses' = Kept(Append(IF again THEN RemoveAt(uses, last) ELSE uses, node))

-----------------------------------------------------------------------------
(* Opening and closing *)

(* The dataset changes *)
Change ==
  /\ server < MaxVersion /\ server' = server + 1
  /\ UNCHANGED <<controls, cache, attached, seen, answer, uses>>

(* NCD2_open, after an eager prefetch; without it the open fails           *)
NCD2_open(c, kind) ==
  /\ ~controls.open
  /\ LET fetch == c.eager /\ Prefetchable(c) # {}
     IN  /\ ~fetch => kind = "fit"
         /\ kind # "fail"
         /\ prefetch' = IF fetch THEN PrefetchNode(c, kind) ELSE NoNode
  /\ controls' = c
  /\ UNCHANGED <<nodes, cachesize, attached, server, seen, answer, uses>>

(* NCD2_close: freenccache                                                 *)
NCD2_close ==
  /\ controls.open
  /\ controls' = Closed
  /\ prefetch' = NoNode /\ nodes' = <<>> /\ cachesize' = 0
  /\ attached' = NoNode /\ uses' = <<>>
  /\ UNCHANGED <<server, seen, answer>>

-----------------------------------------------------------------------------
(* nc3d_getvarx *)

(* A lazy prefetch is made by each get until there is one                  *)
Prefetches ==
  controls.lazy /\ prefetch = NoNode /\ Prefetchable(controls) # {}

lazy_prefetch(kind) ==
  /\ controls.open /\ Prefetches /\ kind # "fail"
  /\ prefetch' = PrefetchNode(controls, kind)
  /\ UNCHANGED <<controls, nodes, cachesize, attached, server, seen, answer,
                 uses>>

(* A bug to catch: the DDS is detached from the last response only when    *)
(* the next one fits.                                                      *)
Walk_late_detach(node, v, cells) ==
  /\ attached' = IF v \in DOMAIN node.data THEN node ELSE attached
  /\ answer' = Failed
  /\ UNCHANGED <<controls, prefetch, server, seen>>

(* What remains to be done once the node is there: attach the DDS to it    *)
(* and walk it for the elements asked for.  Without an attachment the get  *)
(* fails; an element that is not in the response is read from a place that *)
(* holds something else.                                                   *)
Walk(node, v, cells) ==
  /\ attached' = node
  /\ IF v \in DOMAIN node.data
     THEN LET data == node.data[v]
          IN  /\ answer' = [var  |-> v,
                            data |-> [e \in cells |-> IF e \in DOMAIN data
                                                      THEN data[e] ELSE Failed]]
              /\ seen' = [seen EXCEPT ![v] = data[CHOOSE e \in DOMAIN data : TRUE]]
     ELSE answer' = Failed /\ UNCHANGED seen
  /\ UNCHANGED <<controls, prefetch, server>>

get_cached(v, cells) ==
  /\ controls.open /\ ~Prefetches /\ cells # {} /\ iscached(v)
  /\ IF v \in prefetch.vars
     THEN Walk(prefetch, v, cells) /\ UNCHANGED <<nodes, cachesize, uses>>
     ELSE LET i == Latest(Hits(v))
          IN  /\ Touch(i)
              /\ Walk(nodes[i], v, cells)
              /\ Used(nodes[i], TRUE)

(* FETCHWHOLE, FETCHVAR and FETCHPART                                      *)
get_fetched(v, cells, kind) ==
  /\ controls.open /\ ~Prefetches /\ cells # {} /\ ~iscached(v)
  /\ kind # "fail"
  /\ LET asked == IF controls.wholevar THEN Whole({v})
                  ELSE [u \in {v} |-> cells]
         node  == Node({v}, Response(controls, asked, kind),
                       \/ controls.unconstrainable
                       \/ ~controls.selections /\ asked = Whole({v}))
     IN  /\ Insert(node)
         /\ Walk(node, v, cells)
         /\ Used(node, FALSE)

(* A get that fails: the prefetch or the fetch failed, or the request lies *)
(* outside the variable, which is looked at after the prefetch.            *)
get_fails(v, cells) ==
  /\ controls.open
  /\ Prefetches \/ cells = {} \/ ~iscached(v)
  /\ answer' = Failed
  /\ UNCHANGED <<controls, cache, attached, server, seen, uses>>

Kinds == {"fit", "unfit", "fail"}

Next ==
  \/ Change
  \/ \E c \in Controls, kind \in Kinds : NCD2_open(c, kind)
  \/ NCD2_close
  \/ \E kind \in Kinds : lazy_prefetch(kind)
  \/ \E v \in Vars : \E cells \in SUBSET Cells[v] :
       \/ get_cached(v, cells)
       \/ \E kind \in Kinds : get_fetched(v, cells, kind)
       \/ get_fails(v, cells)

Spec == Init /\ [][Next]_vars

-----------------------------------------------------------------------------
(* Properties *)

IsNode(n) ==
  /\ DOMAIN n = DOMAIN NoNode
  /\ n.vars \subseteq Vars /\ DOMAIN n.data \subseteq Vars
  /\ \A v \in DOMAIN n.data : DOMAIN n.data[v] \subseteq Cells[v]

(* Types                                                                   *)
TypeOK ==
  /\ controls \in Controls \cup {Closed}
  /\ IsNode(prefetch) /\ IsNode(attached)
  /\ \A i \in DOMAIN nodes : IsNode(nodes[i])
  /\ cachesize \in Nat /\ server \in 0 .. MaxVersion

(* buildcachenode accounts for every node it inserts and removes: the size *)
(* it compares with the limit is that of the nodes in the list, the limit  *)
(* holds as soon as there is more than one node, and there are never more  *)
(* than cachecount and the one just fetched.                               *)
LimitsKept ==
  /\ TypeOK
  /\ cachesize = SumSize(nodes)
  /\ cachesize <= cachelimit \/ Len(nodes) <= 1
  /\ controls.open => Len(nodes) <= Count + 1

(* LRU: the list holds the fetches that were used last, in the order of    *)
(* their use, whichever of the two limits removed the others and however   *)
(* hits and fetches alternate (iscached, buildcachenode).                  *)
HoldsLastUsed == IsSuffix(nodes, uses)

(* Between two calls the DDS is never attached to a response that was      *)
(* removed and freed, whether the last get succeeded or not.               *)
AttachedAlive ==
  attached \in {NoNode, prefetch} \cup {nodes[i] : i \in DOMAIN nodes}

(* The cache never makes a get return the wrong elements, elements of two  *)
(* versions, or an older version than an earlier get of the variable,      *)
(* through prefetch, hits, partial and whole fetches, eviction and reopen. *)
Reads == INSTANCE DapReads
ReadsForward == Reads!Spec
=============================================================================
