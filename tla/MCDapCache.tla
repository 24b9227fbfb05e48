----------------------------- MODULE MCDapCache -----------------------------
(* Instances of DapCache: one small variable and two that are not, of one  *)
(* and of two elements.  With a size of 3 and a count of 2, what a fetch       *)
(* evicts is decided by the one limit, by the other or by both.            *)
EXTENDS DapCache

CONSTANTS one, two, wide

MCVars == {one, two, wide}
MCSmall == {one}
MCCells == (one :> {1}) @@ (two :> {1}) @@ (wide :> {1, 2})
=============================================================================
