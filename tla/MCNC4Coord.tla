---------------------------- MODULE MCNC4Coord ----------------------------
(* Instances of NC4Coord for TLC, and the refinement: ds holds what the    *)
(* state means, saved what it meant when the file was last written.        *)
EXTENDS NC4Coord, TLC

CONSTANTS lon, lat, lev, f, default, absent

VARIABLES ds, saved

Symmetry == Permutations(Names)

Abstract == INSTANCE NCContents

(* Writing the file is what every call but a definition does; data goes    *)
(* there at once.                                                          *)
MCInit == Init /\ ds = Absent /\ saved = Absent
Meant == ds' = Contents(w', mode')
MCNext ==
  \/ /\ \/ \E j \in DOMAIN w.vars : InDefine /\ NC4_put_vara(j)
        \/ w.vars # <<>> /\ NC4_get_vara
        \/ NC4_enddef \/ NC4_sync \/ NC4_close
     /\ Meant /\ saved' = ds'
  \/ \E j \in DOMAIN w.vars :
       /\ ~InDefine /\ NC4_put_vara(j) /\ Meant
       /\ saved' = IF touched THEN saved
                   ELSE Abstract!Written(saved, w.vars[j].name)
  \/ /\ nc_create \/ Definitions \/ NC4_redef \/ NC4_abort \/ nc4_open_file
     /\ Meant /\ UNCHANGED saved
MCSpec == MCInit /\ [][MCNext]_<<vars, ds, saved>>

IsDataset == Abstract!Spec

=============================================================================
