---------------------------- MODULE MCMapNotify ----------------------------
(* One user, whose subscriptions are all of one browser. *)
EXTENDS MapNotify

CONSTANTS s1, m1, m2, user, d1, t1, t2

MCOwner == [d \in Devices |-> user]
=============================================================================
