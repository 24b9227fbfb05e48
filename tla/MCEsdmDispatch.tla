-------------------------- MODULE MCEsdmDispatch --------------------------
(* Instances of EsdmDispatch and EsdmDataset for TLC                       *)
EXTENDS EsdmDataset, TLC

CONSTANTS lon, lat, lev, temp, salt, units, fillatt, one, two, absent, default,
          int_one, double_one

(* Variables and attributes are of an integer type, clients have a one of  *)
(* that type and one in floating point, whose bits are not those of a one. *)
AsConverted == [m \in {int_one, double_one} |-> one]
AsRead      == [m \in {int_one, double_one} |-> IF m = int_one THEN one ELSE two]

(* A container with one dataset that another program wrote.                *)
OneForeign ==
  {[datasets |-> <<[name |-> temp, dims |-> <<[name |-> lon, size |-> 1]>>,
                    atts |-> <<>>, fill |-> default]>>,
    atts |-> <<>>, nc_dims |-> {}, exists |-> TRUE]}

Symmetry == Permutations({lon, lat, lev}) \cup Permutations({temp, salt})

(* Bound: no dataset has both dimensions and attributes, which do not      *)
(* touch each other.                                                       *)
HasDims(d) == d # Absent /\ d.dims # <<>>
HasAtts(d) ==
  /\ d # Absent
  /\ \/ d.atts # <<>>
     \/ \E i \in DOMAIN d.vars : d.vars[i].atts # <<>> \/ d.vars[i].fill # Default
NotBoth(d, s) == ~((HasDims(d) \/ HasDims(s)) /\ (HasAtts(d) \/ HasAtts(s)))

MCNext == MeaningNext /\ NotBoth(ds', saved')
MCSpec == MeaningInit /\ [][MCNext]_<<vars, ds, saved>>
=============================================================================
