--------------------------- MODULE PlaytimeLedger ---------------------------
(***************************************************************************)
(* What the playtime totals promise: at every moment they are exactly the  *)
(* time of the player's first k sessions, each counted once, and k never   *)
(* goes back.                                                              *)
(***************************************************************************)
EXTENDS Naturals

CONSTANTS NumSessions, Maps, MapsOf

VARIABLE total \* total[m][s]: times session s was added to map m's total

\* The totals of sessions 1..k.
Upto(k) == [m \in Maps |-> [s \in 1..NumSessions |->
               IF s <= k /\ m \in MapsOf[s] THEN 1 ELSE 0]]

Init == total = Upto(0)

\* Any number of further sessions is accounted for in one step.
Advance == /\ total' # total
           /\ \E j, k \in 0..NumSessions :
                 j < k /\ total = Upto(j) /\ total' = Upto(k)

Spec == Init /\ [][Advance]_total
=============================================================================
