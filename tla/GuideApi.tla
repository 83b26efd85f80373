------------------------------ MODULE GuideApi ------------------------------
(***************************************************************************)
(* Guides, their comments and the votes on both: the handlers of           *)
(* routers/maps.rs, the recount triggers and foreign keys of db.sql, and   *)
(* the bans of routers/accounts.rs.                                        *)
(*                                                                         *)
(* A statement with its triggers is one transaction under READ COMMITTED.  *)
(* It writes a row and counts, on the snapshot of then ("write"), and      *)
(* stores the count once the row of the post is free ("commit").  What     *)
(* others write in between is invisible to each other.                     *)
(*                                                                         *)
(* Edits change texts, never a slug, an author or a count: left out.       *)
(***************************************************************************)
EXTENDS Integers, Sequences, FiniteSets, Endpoints

CONSTANTS GuideMaps,    \* maps that guides are written for
          Titles,       \* what slugify leaves of a title: its last counters
          MaxCalls,     \* bound: requests of a behaviour
          Calls,        \* requests that may be under way at once
          Menus         \* bound: the requests of a behaviour, a set of kinds
                        \* for the first, the second...

(* What requests ask for; a ban is an admin's. *)
Ops == {"create", "vote", "unvote", "comment", "erase"}

ASSUME GuidesAssumption ==
    /\ Titles \subseteq Seq(Nat)
    /\ Menus \subseteq Seq(SUBSET (Ops \union {"ban"}))
    /\ \A menu \in Menus : Len(menu) <= MaxCalls
    /\ MaxCalls \in Nat
    /\ None \notin GuideMaps \union Users \union Seq(Nat)
    /\ IsFiniteSet(Users) /\ IsFiniteSet(Calls)
    /\ Users # {} /\ GuideMaps # {}

VARIABLES
    post,       \* guides and guide_comments; a row that is gone keeps its id
    votes,      \* guide_votes and guide_comment_votes
    banned,     \* users with an active row of guide_user_ban
    call,
    menu,       \* kinds of the requests that may still come
    raced       \* history: counts whose last recount overlapped another

guideVars == <<post, votes, banned, call, menu, raced>>

Posts == 1..(MaxCalls + 2)   \* two before the first request, one by each
VoteTypes == {"UpVote", "DownVote"}
Slugs == UNION {{t, Append(t, n)} : t \in Titles, n \in Posts}

Counts == [up : Nat, down : Nat, replies : Nat]
Zero == [up |-> 0, down |-> 0, replies |-> 0]
Post == [kind    : {"guide", "comment"},
         under   : GuideMaps \union Posts,   \* the map, or the comment's guide
         author  : Users,
         slug    : Slugs \union {None},
         counts  : Counts,
         gone    : BOOLEAN]

ASSUME NoPostAssumption ==
    /\ None \notin Post
    /\ None \notin VoteTypes

Stored == {p \in Posts : post[p] # None}
Live == {p \in Stored : ~post[p].gone}
IsGuide(p) == post[p].kind = "guide"
Comments(g) == {p \in Live : post[p].kind = "comment" /\ post[p].under = g}
NextId == Cardinality(Stored) + 1

NewPost(kind, under, author, slug) ==
    [kind |-> kind, under |-> under, author |-> author, slug |-> slug,
     counts |-> Zero, gone |-> FALSE]

CallPlaces == {"idle", "ban", "author", "slug", "insert", "write", "commit"}
Passes == {"none", "clear", "early", "unknown"}
Call == [pc      : CallPlaces,
         op      : Ops,
         user    : Users,
         on      : GuideMaps \union Posts,
         vote    : VoteTypes \union {None},
         title   : Titles \union {None},
         n       : Nat,             \* counter of the candidate slug
         counted : Counts,          \* what its trigger counted
         saw     : SUBSET Posts,    \* history: stored at its slug lookup
         late    : BOOLEAN,         \* history: another recount committed since
         pass    : Passes]          \* history: how it passed the ban check

Rest == [pc |-> "idle", op |-> "vote", user |-> CHOOSE u \in Users : TRUE,
         on |-> CHOOSE m \in GuideMaps : TRUE, vote |-> None, title |-> None,
         n |-> 0, counted |-> Zero, saw |-> {}, late |-> FALSE, pass |-> "none"]

In(c, place) == call[c].pc = place
Becomes(c, q) == call' = [call EXCEPT ![c] = q]
Ends(c) == Becomes(c, Rest)

(* A guide and perhaps, by another, a comment were written before. *)
GuidesInit(m, author, t, other, kinds) ==
    /\ post = [p \in Posts |->
                 CASE p = 1 -> [NewPost("guide", m, author, t) EXCEPT
                                  !.counts.replies =
                                      IF other = None THEN 0 ELSE 1]
                   [] p = 2 /\ other # None -> NewPost("comment", 1, other, None)
                   [] OTHER -> None]
    /\ votes = [p \in Posts |-> [u \in Users |-> None]]
    /\ banned = {}
    /\ call = [c \in Calls |-> Rest]
    /\ menu = kinds
    /\ raced = {}

-----------------------------------------------------------------------------
(***************************************************************************)
(* A request that is valid: its user may do it to a post.  The extractors  *)
(* find a post that is gone as long as they have it cached, which they do  *)
(* since its deletion began.  Who deletes, the author or a superuser,      *)
(* makes no difference.                                                    *)
(***************************************************************************)
Asked(op, user, on) == [Rest EXCEPT !.op = op, !.user = user, !.on = on,
                           !.pc = IF op = "erase" THEN "write" ELSE "ban"]

(* The next request is of this kind. *)
Request(op) ==
    /\ menu # <<>>
    /\ op \in Head(menu)
    /\ menu' = Tail(menu)

Begins(c, op) == In(c, "idle") /\ Request(op)

AskCreate(c) ==
    /\ Begins(c, "create")
    /\ \E u \in Users, m \in GuideMaps, t \in Titles :
          Becomes(c, [Asked("create", u, m) EXCEPT !.title = t])
    /\ UNCHANGED <<post, votes, banned, raced>>

(* Authors do not vote on their own posts. *)
AskAbout(c) ==
    /\ \E u \in Users, p \in Stored :
          \/ /\ u # post[p].author
             /\ Begins(c, "vote")
             /\ \E v \in VoteTypes :
                   Becomes(c, [Asked("vote", u, p) EXCEPT !.vote = v])
          \/ /\ u # post[p].author
             /\ Begins(c, "unvote")
             /\ Becomes(c, Asked("unvote", u, p))
          \/ /\ IsGuide(p)
             /\ Begins(c, "comment")
             /\ Becomes(c, Asked("comment", u, p))
          \/ /\ u = post[p].author
             /\ Begins(c, "erase")
             /\ Becomes(c, Asked("erase", u, p))
    /\ UNCHANGED <<post, votes, banned, raced>>

(* check_user_guide_ban; only Ok(Some(_)) refuses. *)
CheckBan(c) ==
    LET q == call[c]
        place == CASE q.op = "create"                  -> "slug"
                   [] q.op = "vote" /\ IsGuide(q.on)   -> "author"
                   [] OTHER                            -> "write"
    IN
    /\ In(c, "ban")
    /\ \/ q.user \in banned /\ Ends(c)
       \/ /\ q.user \notin banned
          /\ Becomes(c, [q EXCEPT !.pc = place, !.pass = "clear"])
       \/ /\ "db_error" \in Faults
          /\ Becomes(c, [q EXCEPT !.pc = place, !.pass = "unknown"])
    /\ UNCHANGED <<post, votes, banned, menu, raced>>

(* The author of a guide is read again before a vote. *)
FindAuthor(c) ==
    /\ In(c, "author")
    /\ IF call[c].on \in Live THEN Becomes(c, [call[c] EXCEPT !.pc = "write"])
       ELSE Ends(c)
    /\ UNCHANGED <<post, votes, banned, menu, raced>>

(* An open transaction has written its row and waits to store its count. *)
Open(p, ops) ==
    {c \in Calls : In(c, "commit") /\ call[c].on = p /\ call[c].op \in ops}

Erasing(p) == Open(p, {"erase"}) # {}

-----------------------------------------------------------------------------
(* create_map_guide *)

Slug(title, n) == IF n = 0 THEN title ELSE Append(title, n)
Titled(slug) == {p \in Live : post[p].slug = slug}

\* Mutant: the title's own slug is taken without a look.
LookSlugLate(c) ==
    LET q == call[c]
        slug == Slug(q.title, q.n)
    IN
    /\ In(c, "slug")
    /\ IF q.n > 0 /\ \E p \in Titled(slug) : post[p].under = q.on
       THEN Becomes(c, [q EXCEPT !.n = @ + 1])
       ELSE Becomes(c, [q EXCEPT !.pc = "insert", !.saw = Stored])
    /\ UNCHANGED <<post, votes, banned, menu, raced>>

(* generate_unique_guide_slug: one query for each candidate. *)
LookSlug(c) ==
    LET q == call[c]
        slug == Slug(q.title, q.n)
    IN
    /\ In(c, "slug")
    /\ IF \E p \in Titled(slug) : post[p].under = q.on
       THEN Becomes(c, [q EXCEPT !.n = @ + 1])
       ELSE Becomes(c, [q EXCEPT !.pc = "insert", !.saw = Stored])
    /\ UNCHANGED <<post, votes, banned, menu, raced>>

(* slug is UNIQUE over all maps: a second row of it is an error, once it   *)
(* is known that the first one stays.                                      *)
InsertGuide(c) ==
    LET q == call[c]
        slug == Slug(q.title, q.n)
    IN
    /\ In(c, "insert")
    /\ \A p \in Titled(slug) : ~Erasing(p)
    /\ post' = IF Titled(slug) = {}
               THEN [post EXCEPT ![NextId] =
                        NewPost("guide", q.on, q.user, slug)]
               ELSE post
    /\ Ends(c)
    /\ UNCHANGED <<votes, banned, menu, raced>>

-----------------------------------------------------------------------------
(* Statements with triggers *)

Ballots == {"vote", "unvote"}

(* The count a transaction is about to store. *)
Recount(q) ==
    CASE q.op \in Ballots           -> {<<q.on, "votes">>}
      [] q.op = "comment"           -> {<<q.on, "replies">>}
      [] q.op = "erase" /\ ~IsGuide(q.on) -> {<<post[q.on].under, "replies">>}
      [] OTHER                      -> {}

Sum(cast) == [up   |-> Cardinality({u \in Users : cast[u] = "UpVote"}),
              down |-> Cardinality({u \in Users : cast[u] = "DownVote"}),
              replies |-> 0]

Counting(c, counts) ==
    Becomes(c, [call[c] EXCEPT !.pc = "commit", !.counted = counts])

(* INSERT ... ON CONFLICT DO UPDATE, or DELETE of the user's own row: it   *)
(* waits for the same row and for a post that is being deleted.            *)
Cast(c) ==
    LET q == call[c] IN
    /\ In(c, "write")
    /\ q.op \in Ballots
    /\ IF \/ q.on \notin Live
          \/ q.op = "unvote" /\ votes[q.on][q.user] = None
       THEN Ends(c)
       ELSE /\ ~Erasing(q.on)
            /\ \A d \in Open(q.on, Ballots) : call[d].user # q.user
            /\ Counting(c, Sum([votes[q.on] EXCEPT ![q.user] = q.vote]))
    /\ UNCHANGED <<post, votes, banned, menu, raced>>

WriteComment(c) ==
    LET q == call[c] IN
    /\ In(c, "write")
    /\ q.op = "comment"
    /\ IF q.on \notin Live THEN Ends(c)
       ELSE /\ ~Erasing(q.on)
            /\ Counting(c, [Zero EXCEPT !.replies =
                               Cardinality(Comments(q.on)) + 1])
    /\ UNCHANGED <<post, votes, banned, menu, raced>>

(* DELETE waits for whoever has written to, or about, the row. *)
Erase(c) ==
    LET q == call[c] IN
    /\ In(c, "write")
    /\ q.op = "erase"
    /\ IF q.on \notin Live THEN Ends(c)
       ELSE /\ Open(q.on, Ops) = {}
            /\ Counting(c, IF IsGuide(q.on) THEN Zero
                           ELSE [Zero EXCEPT !.replies =
                                 Cardinality(Comments(post[q.on].under)) - 1])
    /\ UNCHANGED <<post, votes, banned, menu, raced>>

(* The call ends; those that count the same have counted without it. *)
Commits(c) ==
    /\ call' = [d \in Calls |->
                  IF d = c THEN Rest
                  ELSE IF /\ In(d, "commit")
                          /\ Recount(call[d]) \intersect Recount(call[c]) # {}
                  THEN [call[d] EXCEPT !.late = TRUE] ELSE call[d]]
    /\ raced' = IF call[c].late THEN raced \union Recount(call[c])
                ELSE raced \ Recount(call[c])

CommitVote(c) ==
    LET q == call[c] IN
    /\ In(c, "commit")
    /\ q.op \in Ballots
    /\ votes' = [votes EXCEPT ![q.on][q.user] = q.vote]
    /\ post' = [post EXCEPT ![q.on].counts.up = q.counted.up,
                            ![q.on].counts.down = q.counted.down]
    /\ Commits(c)
    /\ UNCHANGED <<banned, menu>>

CommitComment(c) ==
    LET q == call[c] IN
    /\ In(c, "commit")
    /\ q.op = "comment"
    /\ post' = [post EXCEPT
                  ![NextId] = NewPost("comment", q.on, q.user, None),
                  ![q.on].counts.replies = q.counted.replies]
    /\ Commits(c)
    /\ UNCHANGED <<votes, banned, menu>>

(* ON DELETE CASCADE: the comments go with their guide, votes with both. *)
Gone(p) == IF IsGuide(p) THEN {p} \union Comments(p) ELSE {p}

Forgotten(gone) ==
    [p \in Posts |-> IF p \in gone THEN [u \in Users |-> None] ELSE votes[p]]

(* It needs the rows of the comments, or that of the guide for its count. *)
Blocked(c) ==
    LET p == call[c].on IN
    IF IsGuide(p) THEN \E r \in Comments(p) : Open(r, Ops) # {}
    ELSE Erasing(post[p].under)

CommitErase(c) ==
    LET q == call[c]
        p == q.on
        left == [r \in Posts |-> IF r \in Gone(p)
                                 THEN [post[r] EXCEPT !.gone = TRUE]
                                 ELSE post[r]]
    IN
    /\ In(c, "commit")
    /\ q.op = "erase"
    /\ ~Blocked(c)
    /\ post' = IF IsGuide(p) THEN left
               ELSE [left EXCEPT ![post[p].under].counts.replies =
                        q.counted.replies]
    /\ votes' = Forgotten(Gone(p))
    /\ Commits(c)
    /\ UNCHANGED <<banned, menu>>

(***************************************************************************)
(* A guide and one of its comments are deleted at once, and each waits for *)
(* the row of the other: PostgreSQL aborts one of them after a second.     *)
(***************************************************************************)
Deadlocked(c) ==
    /\ In(c, "commit")
    /\ call[c].op = "erase"
    /\ Blocked(c)
    /\ \E d \in Calls \ {c} :
          /\ In(d, "commit") /\ call[d].op = "erase"
          /\ \/ call[d].on \in Comments(call[c].on)
             \/ call[c].on \in Comments(call[d].on)

Abort(c) ==
    /\ Deadlocked(c)
    /\ Ends(c)
    /\ UNCHANGED <<post, votes, banned, menu, raced>>

(***************************************************************************)
(* A query fails, the client goes away or the backend stops: what is open  *)
(* is rolled back.                                                         *)
(***************************************************************************)
CallFails(c) ==
    /\ "db_error" \in Faults
    /\ call[c].pc \notin {"idle", "ban"}
    /\ Ends(c)
    /\ UNCHANGED <<post, votes, banned, menu, raced>>

-----------------------------------------------------------------------------
(* ban_user_from_guides.  Calls that have passed the check go on. *)
Ban(u) ==
    /\ u \notin banned
    /\ Request("ban")
    /\ banned' = banned \union {u}
    /\ call' = [c \in Calls |->
                  IF call[c].user = u /\ call[c].pass = "clear"
                  THEN [call[c] EXCEPT !.pass = "early"] ELSE call[c]]
    /\ UNCHANGED <<post, votes, raced>>

(* unban_user_from_guides, or the ban expires. *)
Unban(u) ==
    /\ u \in banned
    /\ banned' = banned \ {u}
    /\ UNCHANGED <<post, votes, call, menu, raced>>

Serve(c) ==
    \/ CheckBan(c) \/ FindAuthor(c) \/ LookSlug(c) \/ InsertGuide(c)
    \/ Cast(c) \/ WriteComment(c) \/ Erase(c)
    \/ CommitVote(c) \/ CommitComment(c) \/ CommitErase(c) \/ Abort(c)

GuidesNext ==
    \/ \E c \in Calls : AskCreate(c) \/ AskAbout(c) \/ Serve(c) \/ CallFails(c)
    \/ \E u \in Users : Ban(u) \/ Unban(u)

-----------------------------------------------------------------------------
(* The types of the rows, the calls and the histories. *)
GuidesTypeOK ==
    /\ post \in [Posts -> Post \union {None}]
    /\ votes \in [Posts -> [Users -> VoteTypes \union {None}]]
    /\ banned \subseteq Users
    /\ call \in [Calls -> Call]
    /\ menu \in Seq(SUBSET (Ops \union {"ban"}))
    /\ raced \subseteq Posts \X {"votes", "replies"}

(***************************************************************************)
(* The counts of a post are those of its votes and comments, unless the    *)
(* last transaction that recounted them overlapped another: the next one   *)
(* that does not puts them right.                                          *)
(***************************************************************************)
CountsRight ==
    \A p \in Live :
        /\ <<p, "votes">> \notin raced
              => [post[p].counts EXCEPT !.replies = 0] = Sum(votes[p])
        /\ IsGuide(p) /\ <<p, "replies">> \notin raced
              => post[p].counts.replies = Cardinality(Comments(p))

(***************************************************************************)
(* Nothing is left of a post that is gone, although calls and caches still *)
(* take it for stored: no votes, and no comment of a guide.                *)
(***************************************************************************)
NoOrphans ==
    \A p \in Stored :
        /\ p \notin Live => \A u \in Users : votes[p][u] = None
        /\ p \in Live /\ ~IsGuide(p) => post[p].under \in Live

(***************************************************************************)
(* A banned user writes nothing, except by a request that was past the     *)
(* check when the ban was set, or whose check failed.                      *)
(***************************************************************************)
BansHold ==
    \A c \in Calls :
        /\ call[c].pc \notin {"idle", "ban"}
        /\ call[c].op # "erase"
        /\ call[c].user \in banned
        => call[c].pass \in {"early", "unknown"}

(***************************************************************************)
(* A guide whose form is valid is refused only if its slug is that of a    *)
(* guide of another map, or of one stored since the slug was looked up.    *)
(***************************************************************************)
CreatedOrTaken ==
    \A c \in Calls :
        LET rivals == Titled(Slug(call[c].title, call[c].n)) IN
        In(c, "insert") /\ rivals # {}
            => \E p \in rivals :
                  post[p].under # call[c].on \/ p \notin call[c].saw

(* Every request ends, those that wait for each other's rows too. *)
CallsEnd == \A c \in Calls : ~In(c, "idle") ~> In(c, "idle")

(* What the guides, comments, votes and bans promise together. *)
GuidesInStep == CountsRight /\ NoOrphans /\ BansHold /\ CreatedOrTaken
=============================================================================
