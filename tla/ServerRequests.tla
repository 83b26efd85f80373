--------------------------- MODULE ServerRequests ---------------------------
(***************************************************************************)
(* Nominations of servers and their review: submit_server_request and      *)
(* update_server_request_status of routers/accounts.rs.  An approval is a  *)
(* row of community, one of server_browser for each server and then the    *)
(* status, each a statement of its own; the status before is not asked.    *)
(***************************************************************************)
EXTENDS Integers, Sequences, FiniteSets, Endpoints

CONSTANTS Nominations,  \* server_requests that may be submitted
          Entries,      \* the servers of each, a sequence of entries
          IpOf, PortOf, \* of an entry; a port is a u16
          Admins,       \* reviews that may be under way at once
          MaxReviews    \* bound: reviews

EntriesOf(r) == {Entries[r][i] : i \in DOMAIN Entries[r]}
AllEntries == UNION {EntriesOf(r) : r \in Nominations}

ASSUME NominationsAssumption ==
    /\ Nominations # {}
    /\ \A r \in Nominations :
          Entries[r] \in Seq(AllEntries) /\ Len(Entries[r]) > 0
    /\ \A e \in AllEntries : PortOf[e] \in Nat /\ PortOf[e] < 65536
    /\ MaxReviews \in Nat
    /\ IsFiniteSet(Admins)
    /\ None # "approved"

VARIABLES
    nomination, \* status of each row, None before it is submitted
    community,  \* rows of community that were inserted for it
    browser,    \* server_browser: <<ip, port>>
    review,
    reviews,    \* reviews so far
    repeated    \* history: approved when it had a community or was getting one

nominationVars ==
    <<nomination, community, browser, review, reviews, repeated>>

(* entry.port as i16: the column is a SMALLINT. *)
SmallInts == {n \in Int : -32768 <= n /\ n <= 32767}
AsI16(port) == IF port >= 32768 THEN port - 65536 ELSE port

Tracked(e) == <<IpOf[e], AsI16(PortOf[e])>>

Verdicts == {"approved", "rejected"}
ReviewPlaces == {"idle", "read", "community", "servers", "status"}
Review == [pc      : ReviewPlaces,
           of      : Nominations,
           verdict : Verdicts,
           todo    : Seq(AllEntries)]

NoReview == [pc |-> "idle", of |-> CHOOSE r \in Nominations : TRUE,
            verdict |-> "rejected", todo |-> <<>>]

NominationsInit ==
    /\ nomination = [r \in Nominations |-> None]
    /\ community = [r \in Nominations |-> 0]
    /\ browser = {}
    /\ review = [a \in Admins |-> NoReview]
    /\ reviews = 0
    /\ repeated = {}

Goes(a, v) == review' = [review EXCEPT ![a] = v]

SubmitRequest(r) ==
    /\ nomination[r] = None
    /\ nomination' = [nomination EXCEPT ![r] = "pending"]
    /\ UNCHANGED <<community, browser, review, reviews, repeated>>

(* The list of the page may be old, so its status may be any. *)
StartReview(a) ==
    /\ review[a].pc = "idle"
    /\ reviews < MaxReviews
    /\ reviews' = reviews + 1
    /\ \E r \in Nominations, v \in Verdicts :
          /\ nomination[r] # None
          /\ Goes(a, [pc |-> IF v = "approved" THEN "read" ELSE "status",
                      of |-> r, verdict |-> v, todo |-> <<>>])
    /\ UNCHANGED <<nomination, community, browser, repeated>>

Approving(r) ==
    {a \in Admins : review[a].of = r /\ review[a].pc \in {"community", "servers"}}

ReadRequest(a) ==
    LET r == review[a].of IN
    /\ review[a].pc = "read"
    /\ Goes(a, [review[a] EXCEPT !.pc = "community", !.todo = Entries[r]])
    /\ repeated' = IF community[r] > 0 \/ Approving(r) # {}
                   THEN repeated \union {r} ELSE repeated
    /\ UNCHANGED <<nomination, community, browser, reviews>>

InsertCommunity(a) ==
    /\ review[a].pc = "community"
    /\ community' = [community EXCEPT ![review[a].of] = @ + 1]
    /\ Goes(a, [review[a] EXCEPT !.pc = "servers"])
    /\ UNCHANGED <<nomination, browser, reviews, repeated>>

\* Mutant: the loop ends at a server that is already tracked.
AfterServerTracked(todo) ==
    IF Len(todo) = 1 \/ Tracked(Head(todo)) \in browser THEN "status"
    ELSE "servers"

AfterServer(todo) == IF Len(todo) = 1 THEN "status" ELSE "servers"

(* INSERT ... ON CONFLICT DO NOTHING, one entry after the other. *)
InsertServer(a) ==
    LET todo == review[a].todo IN
    /\ review[a].pc = "servers"
    /\ browser' = browser \union {Tracked(Head(todo))}
    /\ Goes(a, [review[a] EXCEPT !.pc = AfterServer(todo), !.todo = Tail(todo)])
    /\ UNCHANGED <<nomination, community, reviews, repeated>>

SetStatus(a) ==
    /\ review[a].pc = "status"
    /\ nomination' = [nomination EXCEPT ![review[a].of] = review[a].verdict]
    /\ Goes(a, NoReview)
    /\ UNCHANGED <<community, browser, reviews, repeated>>

(* A statement fails, the admin leaves or the backend stops; what was done *)
(* stays.                                                                  *)
ReviewFails(a) ==
    /\ "db_error" \in Faults
    /\ review[a].pc # "idle"
    /\ Goes(a, NoReview)
    /\ UNCHANGED <<nomination, community, browser, reviews, repeated>>

Reviewing(a) ==
    \/ ReadRequest(a) \/ InsertCommunity(a) \/ InsertServer(a) \/ SetStatus(a)

NominationsNext ==
    \/ \E r \in Nominations : SubmitRequest(r)
    \/ \E a \in Admins : StartReview(a) \/ Reviewing(a) \/ ReviewFails(a)

NominationsSpec == NominationsInit /\ [][NominationsNext]_nominationVars

-----------------------------------------------------------------------------
(* The types of the rows, the reviews and the history. *)
NominationsTypeOK ==
    /\ nomination \in [Nominations -> Verdicts \union {"pending", None}]
    /\ community \in [Nominations -> 0..MaxReviews]
    /\ \A t \in browser : t[2] \in SmallInts
    /\ review \in [Admins -> Review]
    /\ reviews \in 0..MaxReviews
    /\ repeated \subseteq Nominations

(***************************************************************************)
(* A request that says approved has a community and all of its servers in  *)
(* the browser, whoever else reviewed it and whatever failed before.  A    *)
(* port beyond 32767 is not there: it was stored as a negative number.     *)
(***************************************************************************)
ApprovedIsTracked ==
    \A r \in Nominations :
        nomination[r] = "approved" =>
            /\ community[r] > 0
            /\ \A e \in EntriesOf(r) :
                  PortOf[e] <= 32767 => <<IpOf[e], PortOf[e]>> \in browser

(* A review that ends half-way leaves no server without a community. *)
TrackedHasCommunity ==
    \A t \in browser : \E r \in Nominations :
        community[r] > 0 /\ \E e \in EntriesOf(r) : Tracked(e) = t

(***************************************************************************)
(* A request gets one community, unless it was approved again after an     *)
(* approval that had got as far as that, or together with another one.     *)
(***************************************************************************)
OneCommunity ==
    \A r \in Nominations : community[r] > 1 => r \in repeated

(* What requests, communities and the browser promise together. *)
NominationsInStep ==
    ApprovedIsTracked /\ TrackedHasCommunity /\ OneCommunity
=============================================================================
