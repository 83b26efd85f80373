----------------------------- MODULE SiteFetch -----------------------------
(***************************************************************************)
(* fetchUrl and the route handlers it calls: a request is tried again when *)
(* it failed, also one that changes something and whose answer alone was   *)
(* lost, so the API may do it twice.  A refusal of the API is final.       *)
(***************************************************************************)
EXTENDS Browser

CONSTANTS Tries,         \* maxFailures of the requests of each page
          RateTries,     \* maxRetries, of the answers 429
          Losses         \* bound: requests and answers that fail on each page

ASSUME SiteFetchAssumption == /\ Tries \in [SitePages -> Nat \ {0}]
                              /\ RateTries \in Nat
                              /\ Losses \in [SitePages -> Nat]

VARIABLES calls,    \* requests without an end
          lost,     \* history: failures and rate limits so far
          doubt     \* history: what was done although its answer was lost

fetchVars == <<calls, lost, doubt>>

(* ks: what the page reads when it is opened. *)
FetchInit(ks) == calls = ks /\ lost = 0 /\ doubt = {}

(* A request: what it asks, of which row, with which argument; saw is what *)
(* its handler's closure keeps of the render.                              *)
Request(what, of, arg, saw) ==
    [what |-> what, of |-> of, arg |-> arg, saw |-> saw,
     try |-> 1, limited |-> 0, state |-> "sent", got |-> None]

Send(k) == calls' = calls \cup {k} /\ UNCHANGED <<lost, doubt>>

(* The API did what it was asked, or refused. *)
Serves(k, state, got) ==
    /\ calls' = (calls \ {k}) \cup {[k EXCEPT !.state = state, !.got = got]}
    /\ UNCHANGED <<lost, doubt>>

(* A failure: again after a while, or thrown to the handler. *)
Fails(k) ==
    (calls \ {k}) \cup
      {IF k.try < Tries[page] THEN [k EXCEPT !.try = @ + 1, !.state = "sent"]
                        ELSE [k EXCEPT !.state = "refused", !.got = None]}

(* Nobody answers, the proxy gives up after 55 seconds, or it answers 500. *)
RequestFails(k) ==
    /\ lost < Losses[page] /\ k.state = "sent"
    /\ calls' = Fails(k)
    /\ lost' = lost + 1
    /\ UNCHANGED doubt

(* The same, after the API did it. *)
AnswerLost(k) ==
    /\ lost < Losses[page] /\ k.state # "sent"
    /\ calls' = Fails(k)
    /\ lost' = lost + 1
    /\ doubt' = doubt \cup {k.of}

(* 429: waits without counting a failure, but not for ever. *)
TooMany(k) ==
    /\ lost < Losses[page] /\ k.state = "sent"
    /\ calls' = IF k.limited < RateTries
                THEN (calls \ {k}) \cup {[k EXCEPT !.limited = @ + 1]}
                ELSE Fails(k)
    /\ lost' = lost + 1
    /\ UNCHANGED doubt

(* One of the things that happen, so that failures and clicks are bounded  *)
(* together.                                                               *)
Troubles(k) == Click /\ (RequestFails(k) \/ AnswerLost(k) \/ TooMany(k))

(* The handler goes on. *)
Settles(k) ==
    /\ k.state # "sent"
    /\ calls' = calls \ {k}
    /\ UNCHANGED <<lost, doubt>>
=============================================================================
