--------------------------- MODULE Announcements ---------------------------
(***************************************************************************)
(* Announcements: the admin endpoints of accounts.rs and the listing of    *)
(* misc.rs, which is cached.  An announcement is scheduled, shown, expires *)
(* and is edited by a dialog that sends all of it but an empty expiry.     *)
(***************************************************************************)
EXTENDS FastCache

CONSTANTS Announced,    \* ids
          Guests,       \* readers of the listing
          Admins,
          MaxAhead,     \* bound: how far ahead a date may be
          Sent,         \* what the dialog may send
          LongEnough,   \* bound of the history
          Deleted

ASSUME AnnouncementAssumption ==
    /\ MaxAhead \in Nat
    /\ LongEnough \in Nat
    /\ Announced # {}
    /\ Guests \subseteq Readers
    /\ "announced" \in CacheKeys /\ SUBSET Announced \subseteq Bodies
    /\ Absent \notin Nat
    /\ Deleted # Absent

VARIABLES
    announce,   \* rows of website.announce
    edit,       \* an update_announcement under way, of each admin
    held        \* history: ticks each id has been active, or not, without
                \* a change

announceVars == <<announce, edit, held>>
newsVars == <<cacheVars, announceVars>>

(* Dates are the ticks to come until then; 0 is any date that has passed.  *)
Date == 0..MaxAhead

Row == [show : BOOLEAN, published_at : Date, expires_at : Date \union {Absent}]

ASSUME SentAssumption == Sent \subseteq Row

Edit == [pc : {"idle", "update"}, id : Announced, next : Row]

NoEdit == [pc |-> "idle", id |-> CHOOSE i \in Announced : TRUE,
           next |-> [show |-> FALSE, published_at |-> 0, expires_at |-> Absent]]

NewsInit ==
    /\ CacheInit
    /\ announce = [i \in Announced |-> Absent]
    /\ edit = [a \in Admins |-> NoEdit]
    /\ held = [i \in Announced |-> 0]

Stored(rows, i) == rows[i] \notin {Absent, Deleted}

\* Mutant: the listing forgets that announcements expire.
ListedForever(rows) ==
    {i \in Announced : /\ Stored(rows, i)
                       /\ rows[i].show /\ rows[i].published_at = 0}

(* The WHERE of the listing. *)
Listed(rows) ==
    {i \in Announced : /\ Stored(rows, i)
                       /\ rows[i].show /\ rows[i].published_at = 0
                       /\ rows[i].expires_at # 0}

(* What the admins' page calls Active (the status filter). *)
Active(rows) ==
    {i \in Announced :
        Stored(rows, i) /\ LET row == rows[i] IN
                           row.show /\ row.published_at = 0 /\ row.expires_at # 0}

(* The ticks without a change start again when one comes. *)
Held(passed) ==
    held' = [i \in Announced |->
               IF (i \in Active(announce)) # (i \in Active(announce')) THEN 0
               ELSE IF held[i] < LongEnough THEN held[i] + passed
               ELSE held[i]]

Stores(rows) == /\ announce' = rows
                /\ Held(0)
                /\ UNCHANGED cacheVars

(* published_at must be before expires_at: checked of what is sent. *)
Backwards(sent) ==
    sent.expires_at # Absent /\ sent.published_at > sent.expires_at

Create(i, sent) ==
    /\ announce[i] = Absent
    /\ ~Backwards(sent)
    /\ Stores([announce EXCEPT ![i] = sent])
    /\ UNCHANGED edit

(* What update_announcement is to store: all the dialog sent, and the      *)
(* expiry that was read when none was.                                     *)
Merged(i, sent) ==
    IF sent.expires_at # Absent THEN sent
    ELSE [sent EXCEPT !.expires_at = announce[i].expires_at]

(* Its SELECT. *)
FetchCurrent(a, i, sent) ==
    /\ edit[a].pc = "idle"
    /\ Stored(announce, i)
    /\ ~Backwards(sent)
    /\ edit' = [edit EXCEPT ![a] =
                  [pc |-> "update", id |-> i, next |-> Merged(i, sent)]]
    /\ UNCHANGED <<cacheVars, announce, held>>

(* Its UPDATE; a row deleted meanwhile is an error. *)
Update(a) ==
    LET i == edit[a].id IN
    /\ edit[a].pc = "update"
    /\ Stores(IF Stored(announce, i)
              THEN [announce EXCEPT ![i] = edit[a].next] ELSE announce)
    /\ edit' = [edit EXCEPT ![a] = NoEdit]

(* The query fails, or the admin goes away. *)
UpdateFails(a) ==
    /\ edit[a].pc = "update"
    /\ edit' = [edit EXCEPT ![a] = NoEdit]
    /\ UNCHANGED <<cacheVars, announce, held>>

Delete(i) ==
    /\ Stored(announce, i)
    /\ Stores([announce EXCEPT ![i] = Deleted])
    /\ UNCHANGED edit

Sooner(date) == IF date = Absent \/ date = 0 THEN date ELSE date - 1

Later(row) ==
    [row EXCEPT !.published_at = Sooner(@), !.expires_at = Sooner(@)]

Tick ==
    /\ CacheTick
    /\ announce' = [i \in Announced |-> IF Stored(announce, i)
                                        THEN Later(announce[i])
                                        ELSE announce[i]]
    /\ edit' = [a \in Admins |-> [edit[a] EXCEPT !.next = Later(@)]]
    /\ Held(1)

(* get_annouce: cached_response around the listing. *)
Listing(r) ==
    /\ \/ AskCache(r, "announced")
       \/ LookInRedis(r) \/ Keep(r) \/ Store(r) \/ Leave(r)
       \/ CallFails(r) \/ CallReturns(r, Listed(announce))
    /\ UNCHANGED announceVars

Forget == (\E k \in CacheKeys : Evict(k)) /\ UNCHANGED announceVars

NewsNext ==
    \/ \E r \in Guests : Listing(r)
    \/ Forget
    \/ \E i \in Announced : Delete(i) \/ \E sent \in Sent : Create(i, sent)
    \/ \E a \in Admins :
          \/ Update(a) \/ UpdateFails(a)
          \/ \E i \in Announced, sent \in Sent : FetchCurrent(a, i, sent)
    \/ Tick

NewsSpec == NewsInit /\ [][NewsNext]_newsVars

-----------------------------------------------------------------------------
(* Types of the rows, the edits and the cache. *)
NewsTypeOK ==
    /\ CacheTypeOK
    /\ announce \in [Announced -> Row \union {Absent, Deleted}]
    /\ edit \in [Admins -> Edit]
    /\ held \in [Announced -> Nat]

(***************************************************************************)
(* A visitor sees an announcement that was hidden, deleted or has expired, *)
(* or misses one the admins' page calls active, no longer than MaxAge      *)
(* after the change, although nothing invalidates the cached listing.      *)
(***************************************************************************)
ListFresh ==
    \A r \in Readers : read[r].pc = "done" =>
        \A i \in Announced :
            (i \in read[r].body) # (i \in Active(announce))
                => held[i] <= MaxAge(read[r].key)

(* What visitors are told is behind the table by a bounded time. *)
NewsInStep == AnswersFresh /\ ListFresh

(***************************************************************************)
(* "published_at must be before expires_at" (create and update): an update *)
(* that sends no expiry breaks it, because it keeps the stored one.        *)
(***************************************************************************)
PublishedBeforeExpires ==
    \A i \in Announced :
        Stored(announce, i) /\ announce[i].expires_at # Absent
            => announce[i].published_at <= announce[i].expires_at
=============================================================================
