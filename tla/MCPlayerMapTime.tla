------------------------- MODULE MCPlayerMapTime -------------------------
(* Instances of PlayerMapTime for TLC: three sessions on two maps, the     *)
(* second session on both, so that totals of different sessions share a    *)
(* row.                                                                    *)
EXTENDS PlayerMapTime, TLC

MCMaps == {"ze_a", "ze_b"}
MCMapsOf == [s \in Sessions |-> CASE s = 1 -> {"ze_a"}
                                  [] s = 2 -> {"ze_a", "ze_b"}
                                  [] OTHER -> {"ze_b"}]

Symmetry == Permutations(Workers)
==========================================================================
