-------------------------- MODULE ProfilePictures --------------------------
(***************************************************************************)
(* pfp-provider: the picture of a Steam player, from Redis or from the     *)
(* first provider that has it, the official API last and with retries.     *)
(***************************************************************************)
EXTENDS Integers

CONSTANTS Players, Seekers,
          Scrapers,     \* providers asked in this order: 1..Scrapers, and
                        \* the official API after them
          MaxLimited,   \* bound: answers "too many requests" of one request
          NoPicture

ASSUME PictureAssumption ==
    Scrapers \in Nat /\ MaxLimited \in Nat /\ Players # {}

VARIABLES
    kept,       \* Redis: by prefix and player
    request,
    limited,    \* "too many requests" so far, of each request
    asked       \* history: the providers each request has asked

pictureVars == <<kept, request, limited, asked>>

Official == Scrapers + 1
Providers == 1..Official

Prefixes == {"steam_pfp", "steam_pfp_provider"}

Picture == [by : Providers, whole : BOOLEAN]

MaxRetries == 7

Places == {"idle", "cache", "ask", "wait", "keep", "done", "none"}

Seeking == [pc : Places, player : Players, next : Providers,
           attempt : 0..(MaxRetries + MaxLimited),
           answer : Picture \union {NoPicture}]

Idle == [pc |-> "idle", player |-> CHOOSE p \in Players : TRUE, next |-> 1,
         attempt |-> 0, answer |-> NoPicture]

PictureInit ==
    /\ kept = [x \in Prefixes |-> [p \in Players |-> NoPicture]]
    /\ request = [r \in Seekers |-> Idle]
    /\ limited = [r \in Seekers |-> 0]
    /\ asked = [r \in Seekers |-> {}]

Goes(r, s) == request' = [request EXCEPT ![r] = s]

(* The provider whose turn it is. *)
Turn(r) == /\ request[r].pc = "ask"
           /\ asked' = [asked EXCEPT ![r] = @ \union {request[r].next}]

Seeks(r, p) ==
    /\ request[r].pc = "idle"
    /\ Goes(r, [Idle EXCEPT !.pc = "cache", !.player = p])
    /\ limited' = [limited EXCEPT ![r] = 0]
    /\ asked' = [asked EXCEPT ![r] = {}]
    /\ UNCHANGED kept

\* Mutant: pictures are looked for where they are kept.
ReadPrefixKept == "steam_pfp_provider"

(* RedisCache::get and ::set. *)
ReadPrefix == "steam_pfp"

WritePrefix == "steam_pfp_provider"

(* A value is the name of the provider, a colon and the url; of its parts  *)
(* between colons the second is the scheme of the url, not the url.        *)
Split(picture) == [picture EXCEPT !.whole = FALSE]

LooksInCache(r) ==
    LET s == request[r]
        found == kept[ReadPrefix][s.player]
        hit == [s EXCEPT !.pc = "done", !.answer = Split(found)]
        miss == [s EXCEPT !.pc = "ask"]      \* an error is a miss
    IN
    /\ s.pc = "cache"
    /\ \E t \in IF found = NoPicture THEN {miss} ELSE {hit, miss} : Goes(r, t)
    /\ UNCHANGED <<kept, limited, asked>>

\* Mutant: a provider that fails ends the search.
FailsAll(s) == [s EXCEPT !.pc = "none"]

(* The next provider, if there is one. *)
Fails(s) == IF s.next = Official THEN [s EXCEPT !.pc = "none"]
            ELSE [s EXCEPT !.pc = "ask", !.next = @ + 1]

HasPicture(r) ==
    /\ Turn(r)
    /\ Goes(r, [request[r] EXCEPT !.pc = "keep",
                  !.answer = [by |-> request[r].next, whole |-> TRUE]])
    /\ UNCHANGED <<kept, limited>>

\* Mutant: requests that fail are retried for ever.
RetriesForever(s) == [s EXCEPT !.pc = "wait"]

Retries(s) == [s EXCEPT !.pc = "wait", !.attempt = @ + 1]

(* A provider without a picture, an error or an answer that says no.       *)
HasNone(r) ==
    /\ Turn(r)
    /\ Goes(r, Fails(request[r]))
    /\ UNCHANGED <<kept, limited>>

\* Mutant: the attempt is tested before it is counted.
UnreachableLate(r) ==
    LET s == request[r] IN
    /\ Turn(r) /\ s.next = Official
    /\ Goes(r, IF s.attempt > MaxRetries THEN Fails(s) ELSE Retries(s))
    /\ UNCHANGED <<kept, limited>>

(* The official API does not answer: the eighth time is an error.          *)
Unreachable(r) ==
    LET s == request[r] IN
    /\ Turn(r) /\ s.next = Official
    /\ Goes(r, IF s.attempt + 1 > MaxRetries THEN Fails(s) ELSE Retries(s))
    /\ UNCHANGED <<kept, limited>>

(* "Too many requests" is retried whatever attempt says.                   *)
TooMany(r) ==
    LET s == request[r] IN
    /\ Turn(r) /\ s.next = Official
    /\ limited[r] < MaxLimited
    /\ limited' = [limited EXCEPT ![r] = @ + 1]
    /\ Goes(r, Retries(s))
    /\ UNCHANGED kept

WaitEnds(r) ==
    /\ request[r].pc = "wait"
    /\ Goes(r, [request[r] EXCEPT !.pc = "ask"])
    /\ UNCHANGED <<kept, limited, asked>>

(* SET EX for seven days, whose failure is only logged. *)
Keeps(r) ==
    LET s == request[r] IN
    /\ s.pc = "keep"
    /\ \/ kept' = [kept EXCEPT ![WritePrefix][s.player] = s.answer]
       \/ UNCHANGED kept
    /\ Goes(r, [s EXCEPT !.pc = "done"])
    /\ UNCHANGED <<limited, asked>>

Leaves(r) ==
    /\ request[r].pc \in {"done", "none"}
    /\ Goes(r, Idle)
    /\ UNCHANGED <<kept, limited, asked>>

Expires(p) ==
    /\ kept[WritePrefix][p] # NoPicture
    /\ kept' = [kept EXCEPT ![WritePrefix][p] = NoPicture]
    /\ UNCHANGED <<request, limited, asked>>

PictureStep(r) ==
    \/ LooksInCache(r) \/ HasPicture(r) \/ HasNone(r) \/ Unreachable(r)
    \/ TooMany(r) \/ WaitEnds(r) \/ Keeps(r) \/ Leaves(r)

PictureNext ==
    \/ \E r \in Seekers : PictureStep(r) \/ \E p \in Players : Seeks(r, p)
    \/ \E p \in Players : Expires(p)

PictureSpec ==
    /\ PictureInit /\ [][PictureNext]_pictureVars
    /\ \A r \in Seekers : WF_pictureVars(PictureStep(r))

-----------------------------------------------------------------------------
(* Types; no request is tried more often than its answers allow. *)
PictureTypeOK ==
    /\ kept \in [Prefixes -> [Players -> Picture \union {NoPicture}]]
    /\ request \in [Seekers -> Seeking]
    /\ limited \in [Seekers -> 0..MaxLimited]
    /\ asked \in [Seekers -> SUBSET Providers]

(***************************************************************************)
(* A picture is the url of that player's picture, whether it was kept or   *)
(* not.  Redis is read under another prefix than it is written, or the     *)
(* url would come back as the "https" of it.                               *)
(***************************************************************************)
PicturesAreWhole ==
    \A r \in Seekers : request[r].pc = "done" => request[r].answer.whole

(***************************************************************************)
(* "multiple providers, and making Steam API as the final fallback before  *)
(* failing" (its README): who is told that there is no picture, every      *)
(* provider was asked for it.                                              *)
(***************************************************************************)
NoneOnlyAfterAll ==
    \A r \in Seekers : request[r].pc = "none" => asked[r] = Providers

(* What who asks for a picture is told. *)
PicturesInStep == PicturesAreWhole /\ NoneOnlyAfterAll

(***************************************************************************)
(* A request ends although providers fail and the official API is down, as *)
(* long as it does not answer "too many requests" for ever.                *)
(***************************************************************************)
PicturesEnd ==
    \A r \in Seekers :
        request[r].pc = "cache" ~> request[r].pc \in {"done", "none"}
=============================================================================
