----------------------------- MODULE Endpoints -----------------------------
(* What the endpoints and tasks over the website's tables share. *)
CONSTANTS Users,
          Faults,       \* what the environment may do
          None          \* nothing of the kind
=============================================================================
