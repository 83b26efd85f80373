------------------------------ MODULE MCCaches ------------------------------
(* Small instances: a key and that of the session before, one announcement *)
(* in the listing, one player who leaves, two maps, two scrapers.          *)
EXTENDS Caches, TLC

CONSTANTS now, before, r1, r2, t1, t2

MCFallback == [k \in Keys |-> IF k = now THEN before ELSE None]
(* Keys of two players whose session before was never looked at. *)
MCNoFallback == [k \in Keys |-> None]
Symmetry == Permutations(Requests) \union Permutations(Tasks)

MCCacheKeys == {"announced", "session", "mark"}
MCReaders == Guests \union Visitors \union Warmers \union Passes
MCBodies == SUBSET Announced \union {1..n : n \in 0..MaxSessions}
MCTtl == [k \in MCCacheKeys |-> CASE k = "announced" -> 2
                                  [] k = "session" -> Delay
                                  [] k = "mark" -> Day]

Dated(show, from, until) ==
    [show |-> show, published_at |-> from, expires_at |-> until]

(* At once or later, for good or for a while, hidden, expired already.     *)
MCSent == {Dated(TRUE, 0, Absent), Dated(TRUE, 1, Absent), Dated(TRUE, 0, 1),
           Dated(FALSE, 0, Absent), Dated(TRUE, 0, 0)}

(* Longer than any answer may be behind. *)
MCLongEnough == 6
=============================================================================
