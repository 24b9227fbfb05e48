--------------------------- MODULE MCNCFileTable ---------------------------
(* Instances of NCFileTable for TLC.                                       *)
EXTENDS NCFileTable, TLC

CONSTANTS n1, n2, n3, n4, n5

(* Two DAP2 datasets with a substrate each, and an ESDM dataset.           *)
MixedKind == n1 :> "NC3" @@ n2 :> "NC3" @@ n3 :> "ESDM" @@ n4 :> "DAP2"
             @@ n5 :> "DAP2"
NC3Kind   == [n \in NCs |-> "NC3"]
ESDMKind  == [n \in NCs |-> "ESDM"]

(* The objects of one dispatcher are interchangeable.                      *)
Symmetry == Permutations({n1, n2}) \cup Permutations({n4, n5})
DAP2Kind  == n1 :> "NC3" @@ n2 :> "DAP2"
=============================================================================
