----------------------------- MODULE ModelShelf -----------------------------
(***************************************************************************)
(* What visitors of a map's 3D page see of the uploads: one model, which   *)
(* is replaced as a whole or removed, and is never part of one.            *)
(***************************************************************************)
CONSTANTS Uploads, None

VARIABLES shelf,    \* the model that is served, or None
          sent      \* uploads the server has received in full

Init == shelf = None /\ sent = {}

Receive == /\ sent' \in SUBSET Uploads /\ sent \subseteq sent'
           /\ UNCHANGED shelf

Publish(u) == u \in sent /\ shelf' = u /\ UNCHANGED sent

Withdraw == shelf' = None /\ UNCHANGED sent

Next == Receive \/ Withdraw \/ \E u \in Uploads : Publish(u)

Spec == Init /\ [][Next]_<<shelf, sent>>
=============================================================================
