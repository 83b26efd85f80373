--------------------------- MODULE BackendProofs ---------------------------
(***************************************************************************)
(* What is proved of a group of endpoints holds of the whole backend.  The *)
(* guides have no specification of their own, so their proof is here: it   *)
(* takes the larger part, up to GuidesShow.                                *)
(***************************************************************************)
EXTENDS Backend, MapNotifyProofs, ServerRequestsProofs, FiniteSetTheorems

-----------------------------------------------------------------------------
(* Guides *)

(***************************************************************************)
(* The rows of guides and comments are numbered without gaps, a comment    *)
(* is under a guide and goes with it, and what is gone has no votes.       *)
(***************************************************************************)
Underway == {c \in Calls : ~In(c, "idle")}
Numbered == Stored = 1..Cardinality(Stored)
RoomInv == Cardinality(Stored) + Cardinality(Underway) + Len(menu)
              <= MaxCalls + 2

PostInv(p) ==
    /\ p \in Stored /\ ~IsGuide(p) =>
          /\ post[p].under \in Stored /\ IsGuide(post[p].under)
          /\ p \in Live => post[p].under \in Live
    /\ p \notin Live => \A u \in Users : votes[p][u] = None
    /\ p \in Live =>
          /\ <<p, "votes">> \notin raced
                => /\ post[p].counts.up = Sum(votes[p]).up
                   /\ post[p].counts.down = Sum(votes[p]).down
          /\ IsGuide(p) /\ <<p, "replies">> \notin raced
                => post[p].counts.replies = Cardinality(Comments(p))

(* What a call is about, by its place. *)
CallForm(c) ==
    LET q == call[c] IN
    /\ q.pc \in {"slug", "insert"} => q.op = "create"
    /\ q.pc # "idle" /\ q.op = "create" =>
          /\ q.pc \in {"ban", "slug", "insert"}
          /\ q.on \in GuideMaps /\ q.title \in Titles
    /\ q.pc # "idle" /\ q.op # "create" => q.on \in Stored
    /\ q.pc # "idle" /\ q.op = "comment" => IsGuide(q.on)
    /\ q.pc = "ban" => q.n = 0
    /\ q.pc # "commit" => ~q.late

(* The slugs it has tried are those of different rows. *)
SlugInv(c) ==
    LET q == call[c] IN
    /\ q.pc \in {"slug", "insert"} =>
          \A k \in 0..(q.n - 1) :
             \E p \in Stored : post[p].slug = Slug(q.title, k)
    /\ q.pc = "insert" =>
          /\ q.saw \subseteq Stored
          /\ \A p \in Titled(Slug(q.title, q.n)) :
                post[p].under # q.on \/ p \notin q.saw

(* An open transaction is about a row that stays, and nobody deletes it    *)
(* beside another.                                                         *)
OpenInv(c) ==
    In(c, "commit") =>
       /\ call[c].on \in Live
       /\ call[c].op = "erase" => Open(call[c].on, Ops) = {c}

(* What it counted is right as long as nobody else has recounted. *)
TallyInv(c) ==
    LET q == call[c] IN
    In(c, "commit") /\ ~q.late =>
       /\ q.op \in Ballots
             => q.counted = Sum([votes[q.on] EXCEPT ![q.user] = q.vote])
       /\ q.op = "comment"
             => q.counted.replies = Cardinality(Comments(q.on)) + 1
       /\ q.op = "erase" /\ ~IsGuide(q.on)
             => q.counted.replies
                   = Cardinality(Comments(post[q.on].under)) - 1

BanInv(c) ==
    LET q == call[c] IN
    /\ q.pc \notin {"idle", "ban"} /\ q.op # "erase"
          => q.pass \in {"clear", "early", "unknown"}
    /\ q.pass = "clear" => q.user \notin banned

CallInv(c) ==
    CallForm(c) /\ SlugInv(c) /\ OpenInv(c) /\ TallyInv(c) /\ BanInv(c)

GuidesInv ==
    /\ GuidesTypeOK
    /\ Numbered
    /\ RoomInv
    /\ \A p \in Posts : PostInv(p)
    /\ \A c \in Calls : CallInv(c)

(* Constants *)

LEMMA GuideConstants ==
    /\ MaxCalls \in Nat
    /\ IsFiniteSet(Users) /\ IsFiniteSet(Calls) /\ IsFiniteSet(Posts)
    /\ Posts \subseteq Nat /\ Posts = 1..(MaxCalls + 2)
    /\ None \notin Post /\ None \notin VoteTypes
    /\ None \notin Users /\ None \notin Seq(Nat)
    /\ Titles \subseteq Seq(Nat)
  <1>1. MaxCalls \in Nat /\ MaxCalls + 2 \in Int
    BY GuidesAssumption
  <1>2. IsFiniteSet(Posts)
    BY <1>1, FS_Interval DEF Posts
  <1> QED  BY <1>1, <1>2, GuidesAssumption, NoPostAssumption DEF Posts

LEMMA RestCall ==
    /\ Rest \in Call
    /\ Rest.pc = "idle" /\ Rest.late = FALSE /\ Rest.pass = "none"
    /\ Rest.op = "vote" /\ Rest.saw = {} /\ Rest.n = 0
  <1>1. /\ (CHOOSE u \in Users : TRUE) \in Users
        /\ (CHOOSE m \in GuideMaps : TRUE) \in GuideMaps
    BY GuidesAssumption
  <1>2. Zero \in Counts
    BY DEF Zero, Counts
  <1> QED  BY <1>1, <1>2 DEF Rest, Call, CallPlaces, Ops, Passes

LEMMA NewPostRow ==
    ASSUME NEW kind \in {"guide", "comment"},
           NEW under \in GuideMaps \union Posts, NEW u \in Users,
           NEW slug \in Slugs \union {None}
    PROVE  /\ NewPost(kind, under, u, slug) \in Post
           /\ NewPost(kind, under, u, slug) # None
  <1>1. NewPost(kind, under, u, slug) \in Post
    BY DEF NewPost, Post, Zero, Counts
  <1> QED  BY <1>1, GuideConstants

LEMMA SumCounts ==
    ASSUME NEW cast
    PROVE  /\ Sum(cast) \in Counts
           /\ Sum(cast).replies = 0
  <1>1. /\ IsFiniteSet({u \in Users : cast[u] = "UpVote"})
        /\ IsFiniteSet({u \in Users : cast[u] = "DownVote"})
    BY GuideConstants, FS_Subset
  <1> QED  BY <1>1, FS_CardinalityType DEF Sum, Counts

LEMMA SumNone ==
    ASSUME NEW cast, \A u \in Users : cast[u] = None
    PROVE  Sum(cast).up = 0 /\ Sum(cast).down = 0
  <1>1. /\ {u \in Users : cast[u] = "UpVote"} = {}
        /\ {u \in Users : cast[u] = "DownVote"} = {}
    BY GuideConstants DEF VoteTypes
  <1> QED  BY <1>1, FS_EmptySet DEF Sum

LEMMA StoredFinite ==
    /\ Stored \subseteq Posts /\ Live \subseteq Stored
    /\ IsFiniteSet(Stored) /\ Cardinality(Stored) \in Nat
    /\ \A g : /\ Comments(g) \subseteq Live
              /\ IsFiniteSet(Comments(g)) /\ Cardinality(Comments(g)) \in Nat
  <1>1. /\ Stored \subseteq Posts /\ Live \subseteq Stored
        /\ \A g : Comments(g) \subseteq Live
    BY DEF Stored, Live, Comments
  <1>2. IsFiniteSet(Stored)
    BY <1>1, GuideConstants, FS_Subset
  <1>3. \A g : IsFiniteSet(Comments(g))
    BY <1>1, GuideConstants, FS_Subset
  <1> QED  BY <1>1, <1>2, <1>3, FS_CardinalityType

LEMMA UnderwayFinite ==
    IsFiniteSet(Underway) /\ Cardinality(Underway) \in Nat
  BY GuideConstants, FS_Subset, FS_CardinalityType DEF Underway

(* While a call is under way there is room for the row it may add. *)
LEMMA NextRow ==
    ASSUME GuidesTypeOK, Numbered, RoomInv, NEW c \in Underway
    PROVE  /\ NextId \in Posts /\ NextId \notin Stored
           /\ NextId = Cardinality(Stored) + 1
  <1>1. Cardinality(Underway) > 0
    BY UnderwayFinite, FS_EmptySet
  <1>2. Len(menu) \in Nat
    BY LenProperties DEF GuidesTypeOK
  <1>3. Cardinality(Stored) + 1 <= MaxCalls + 2
    BY <1>1, <1>2, UnderwayFinite, StoredFinite, GuideConstants DEF RoomInv
  <1> QED
    BY <1>3, StoredFinite, GuideConstants DEF NextId, Numbered

LEMMA SlugDiffers ==
    ASSUME NEW t \in Titles, NEW j \in Nat, NEW k \in Nat,
           Slug(t, j) = Slug(t, k)
    PROVE  j = k
  <1>1. t \in Seq(Nat)
    BY GuideConstants
  <1>2. /\ Len(Append(t, j)) = Len(t) + 1 /\ Append(t, j)[Len(t) + 1] = j
        /\ Len(Append(t, k)) = Len(t) + 1 /\ Append(t, k)[Len(t) + 1] = k
        /\ Len(t) \in Nat
    BY <1>1, AppendProperties, LenProperties
  <1>3. Append(t, j) # t /\ Append(t, k) # t
    BY <1>2
  <1>4. j # 0 /\ k # 0 /\ Append(t, j) = Append(t, k) => j = k
    BY <1>2
  <1>5. Slug(t, j) = (IF j = 0 THEN t ELSE Append(t, j))
    BY DEF Slug
  <1>6. Slug(t, k) = (IF k = 0 THEN t ELSE Append(t, k))
    BY DEF Slug
  <1> QED  BY <1>3, <1>4, <1>5, <1>6

LEMMA SlugType ==
    ASSUME NEW t \in Titles, NEW n \in Nat, n <= MaxCalls + 2
    PROVE  Slug(t, n) \in Slugs /\ Slug(t, n) # None
  <1>1. Slug(t, n) \in Seq(Nat)
    BY GuideConstants, AppendProperties DEF Slug
  <1>2. Slug(t, n) \in Slugs
    <2>1. ASSUME NEW m \in Posts PROVE t \in Slugs /\ Append(t, m) \in Slugs
      <3> DEFINE pairs == {{u, Append(u, k)} : u \in Titles, k \in Posts}
      <3>1. {t, Append(t, m)} \in pairs
        OBVIOUS
      <3> HIDE DEF pairs
      <3>2. t \in UNION pairs /\ Append(t, m) \in UNION pairs
        BY <3>1
      <3> QED  BY <3>2 DEF Slugs, pairs
    <2>2. 1 \in Posts /\ (n # 0 => n \in Posts)
      BY GuideConstants
    <2>3. t \in Slugs /\ (n # 0 => Append(t, n) \in Slugs)
      BY <2>1, <2>2
    <2> QED  BY <2>3 DEF Slug
  <1> QED  BY <1>1, <1>2, GuideConstants

(* Each slug a call found taken is that of another row. *)
LEMMA CandidateBound ==
    ASSUME GuidesTypeOK, Numbered, RoomInv, NEW c \in Calls,
           CallForm(c), SlugInv(c), call[c].pc \in {"slug", "insert"}
    PROVE  /\ call[c].n \in Nat /\ call[c].n <= Cardinality(Stored)
           /\ call[c].n <= MaxCalls + 2
  <1> PICK q : q = call[c]
    OBVIOUS
  <1>1. q.n \in Nat /\ q.title \in Titles
    BY DEF GuidesTypeOK, Call, CallForm
  <1>2. \A k \in 0..(q.n - 1) : \E p \in Stored : post[p].slug = Slug(q.title, k)
    BY DEF SlugInv
  <1> DEFINE f == [k \in 0..(q.n - 1) |->
                      CHOOSE p \in Stored : post[p].slug = Slug(q.title, k)]
  <1>3. \A k \in 0..(q.n - 1) :
           f[k] \in Stored /\ post[f[k]].slug = Slug(q.title, k)
    BY <1>2
  <1>4. f \in Injection(0..(q.n - 1), Stored)
    <2>1. f \in [0..(q.n - 1) -> Stored]
      BY <1>3
    <2>2. ASSUME NEW j \in 0..(q.n - 1), NEW k \in 0..(q.n - 1), f[j] = f[k]
          PROVE  j = k
      <3>1. Slug(q.title, j) = Slug(q.title, k)
        BY <1>3, <2>2
      <3> QED  BY <1>1, <3>1, SlugDiffers
    <2> HIDE DEF f
    <2> QED  BY <2>1, <2>2 DEF Injection, IsInjective
  <1> HIDE DEF f
  <1>5. Cardinality(0..(q.n - 1)) <= Cardinality(Stored)
    BY <1>4, StoredFinite, FS_Injection
  <1>6. Cardinality(0..(q.n - 1)) = q.n
    <2> PICK k : k = q.n - 1
      OBVIOUS
    <2>1. k \in Int /\ 0 \in Int /\ ~(0 > k + 1) /\ k + 1 = q.n
      BY <1>1
    <2>2. Cardinality(0..k) = IF 0 > k THEN 0 ELSE k - 0 + 1
      BY <2>1, FS_Interval
    <2> QED  BY <2>1, <2>2
  <1>7. Cardinality(Stored) <= MaxCalls + 2
    BY UnderwayFinite, StoredFinite, LenProperties, GuideConstants
    DEF RoomInv, GuidesTypeOK
  <1> QED  BY <1>1, <1>5, <1>6, <1>7, StoredFinite, GuideConstants

-----------------------------------------------------------------------------
(* Rows are added and go; what they say of themselves stays. *)
RowsKept ==
    /\ Stored \subseteq Stored'
    /\ \A p \in Stored : /\ post'[p].kind = post[p].kind
                         /\ post'[p].under = post[p].under
                         /\ post'[p].slug = post[p].slug
                         /\ p \in Live' => p \in Live

(* The call is where it was, with what it had. *)
CallLike(d) ==
    /\ call'[d].pc = call[d].pc /\ call'[d].op = call[d].op
    /\ call'[d].user = call[d].user /\ call'[d].on = call[d].on
    /\ call'[d].vote = call[d].vote /\ call'[d].title = call[d].title
    /\ call'[d].n = call[d].n /\ call'[d].counted = call[d].counted
    /\ call'[d].saw = call[d].saw

LEMMA FormKeeps ==
    ASSUME RowsKept, NEW d \in Calls, CallLike(d), CallForm(d),
           call'[d].pc # "commit" => call'[d].late = call[d].late
    PROVE  CallForm(d)'
  BY DEF RowsKept, CallLike, CallForm, IsGuide

LEMMA SlugKeeps ==
    ASSUME RowsKept, NEW d \in Calls, CallLike(d), SlugInv(d)
    PROVE  SlugInv(d)'
  <1> PICK q : q = call[d]
    OBVIOUS
  <1>1. /\ call'[d].pc = q.pc /\ call'[d].on = q.on
        /\ call'[d].n = q.n /\ call'[d].title = q.title
        /\ call'[d].saw = q.saw
    BY DEF CallLike
  <1>2. ASSUME q.pc \in {"slug", "insert"}, NEW k \in 0..(q.n - 1)
        PROVE  \E p \in Stored' : post'[p].slug = Slug(q.title, k)
    <2>1. PICK p \in Stored : post[p].slug = Slug(q.title, k)
      BY <1>2 DEF SlugInv
    <2> QED  BY <2>1 DEF RowsKept
  <1>3. ASSUME q.pc = "insert"
        PROVE  /\ q.saw \subseteq Stored'
               /\ \A p \in Live' : post'[p].slug = Slug(q.title, q.n)
                     => post'[p].under # q.on \/ p \notin q.saw
    <2>1. /\ q.saw \subseteq Stored
          /\ \A p \in Live : post[p].slug = Slug(q.title, q.n)
                     => post[p].under # q.on \/ p \notin q.saw
      BY <1>3 DEF SlugInv, Titled
    <2> QED  BY <2>1 DEF RowsKept
  <1>4. SlugInv(d)' <=>
          /\ q.pc \in {"slug", "insert"} =>
                \A k \in 0..(q.n - 1) :
                   \E p \in Stored' : post'[p].slug = Slug(q.title, k)
          /\ q.pc = "insert" =>
                /\ q.saw \subseteq Stored'
                /\ \A p \in Live' : post'[p].slug = Slug(q.title, q.n)
                      => post'[p].under # q.on \/ p \notin q.saw
    BY <1>1 DEF SlugInv, Titled, Slug
  <1> QED  BY <1>2, <1>3, <1>4

LEMMA SamePosts ==
    ASSUME post' = post
    PROVE  /\ RowsKept
           /\ Stored' = Stored /\ Live' = Live
           /\ \A g : Comments(g)' = Comments(g)
           /\ \A p : IsGuide(p)' <=> IsGuide(p)
  BY DEF RowsKept, Stored, Live, Comments, IsGuide

(***************************************************************************)
(* A step of one call that changes no row: what remains to be shown is     *)
(* about that call.                                                        *)
(***************************************************************************)
LEMMA OneCall ==
    ASSUME GuidesInv, NEW c \in Calls, NEW q \in Call,
           UNCHANGED <<post, votes, banned, raced>>,
           call' = [call EXCEPT ![c] = q],
           menu' \in Seq(SUBSET (Ops \union {"ban"})),
           RoomInv',
           q.pc = "commit" =>
              /\ q.on \in Live
              /\ ~Erasing(q.on)
              /\ q.op = "erase" => Open(q.on, Ops) = {},
           CallForm(c)', SlugInv(c)', TallyInv(c)', BanInv(c)'
    PROVE  GuidesInv'
  <1>1. call'[c] = q /\ \A d \in Calls \ {c} : call'[d] = call[d]
    BY DEF GuidesInv, GuidesTypeOK
  <1>2. GuidesTypeOK' /\ Numbered'
    BY SamePosts DEF GuidesInv, GuidesTypeOK, Numbered
  <1>3. ASSUME NEW p \in Posts PROVE PostInv(p)'
    <2>1. PostInv(p)
      BY DEF GuidesInv
    <2> QED  BY <2>1, SamePosts DEF PostInv
  <1>4. OpenInv(c)'
    <2>1. CASE q.pc = "commit" /\ q.op = "erase"
      <3>1. Open(q.on, Ops)' = {c}
        BY <1>1, <2>1 DEF Open, In, Ops
      <3> QED  BY <1>1, <2>1, <3>1, SamePosts DEF OpenInv
    <2> QED  BY <1>1, <2>1, SamePosts DEF OpenInv, In
  <1>5. ASSUME NEW d \in Calls \ {c} PROVE CallInv(d)'
    <2>1. CallInv(d) /\ call'[d] = call[d]
      BY <1>1 DEF GuidesInv
    <2>2. CallForm(d)' /\ SlugInv(d)'
      BY <2>1, SamePosts, FormKeeps, SlugKeeps DEF CallLike, CallInv
    <2>3. TallyInv(d)' /\ BanInv(d)'
      BY <2>1, SamePosts DEF CallInv, TallyInv, BanInv, In
    <2>4. OpenInv(d)'
      <3>1. CASE In(d, "commit") /\ call[d].op = "erase"
        <4>1. Open(call[d].on, Ops) = {d} /\ d \in Open(call[d].on, {"erase"})
          BY <2>1, <3>1 DEF CallInv, OpenInv, Open
        <4>2. ~(q.pc = "commit" /\ q.on = call[d].on)
          BY <4>1 DEF Erasing
        <4>3. Open(call[d].on, Ops)' = {d}
          BY <1>1, <2>1, <4>1, <4>2 DEF Open, In
        <4> QED  BY <2>1, <3>1, <4>3, SamePosts DEF CallInv, OpenInv, In
      <3>2. CASE ~(In(d, "commit") /\ call[d].op = "erase")
        BY <2>1, <3>2, SamePosts DEF CallInv, OpenInv, In
      <3> QED  BY <3>1, <3>2
    <2> QED  BY <2>2, <2>3, <2>4 DEF CallInv
  <1>6. \A d \in Calls : CallInv(d)'
    BY <1>4, <1>5 DEF CallInv
  <1> QED  BY <1>2, <1>3, <1>6 DEF GuidesInv

(* Calls that are under way, go on or end leave as much room. *)
LEMMA RoomStays ==
    ASSUME GuidesTypeOK, RoomInv, Stored' = Stored, menu' = menu,
           Underway' \subseteq Underway
    PROVE  RoomInv'
  <1>1. Cardinality(Underway') <= Cardinality(Underway)
        /\ Cardinality(Underway') \in Nat
    BY UnderwayFinite, FS_Subset, FS_CardinalityType
  <1>2. /\ Cardinality(Stored) \in Nat /\ Cardinality(Underway) \in Nat
        /\ Len(menu) \in Nat
    BY StoredFinite, UnderwayFinite, LenProperties DEF GuidesTypeOK
  <1> QED  BY <1>1, <1>2, GuideConstants DEF RoomInv

LEMMA CallEnds ==
    ASSUME GuidesInv, NEW c \in Calls, ~In(c, "idle"), Ends(c),
           UNCHANGED <<post, votes, banned, menu, raced>>
    PROVE  GuidesInv'
  <1>1. /\ call' = [call EXCEPT ![c] = Rest]
        /\ call'[c] = Rest /\ \A d \in Calls \ {c} : call'[d] = call[d]
    BY DEF Ends, Becomes, GuidesInv, GuidesTypeOK
  <1>2. RoomInv'
    <2>1. Underway' \subseteq Underway
      BY <1>1, RestCall DEF Underway, In
    <2> QED  BY <2>1, RoomStays, SamePosts DEF GuidesInv
  <1>3. CallForm(c)' /\ SlugInv(c)' /\ TallyInv(c)' /\ BanInv(c)'
    BY <1>1, RestCall DEF CallForm, SlugInv, TallyInv, BanInv, In
  <1>4. menu' \in Seq(SUBSET (Ops \union {"ban"}))
    BY DEF GuidesInv, GuidesTypeOK
  <1> QED  BY <1>1, <1>2, <1>3, <1>4, RestCall, OneCall

-----------------------------------------------------------------------------
(* The steps that change no row *)

LEMMA RequestType ==
    ASSUME GuidesInv, NEW op, Request(op)
    PROVE  /\ menu' \in Seq(SUBSET (Ops \union {"ban"}))
           /\ Len(menu') + 1 = Len(menu) /\ Len(menu') \in Nat
  BY HeadTailProperties, LenProperties DEF Request, GuidesInv, GuidesTypeOK

(* A request before anything was done for it. *)
NewCall(q, op, on) ==
    /\ q \in Call /\ q.op = op /\ q.on = on
    /\ q.pc = (IF op = "erase" THEN "write" ELSE "ban")
    /\ q.n = 0 /\ q.late = FALSE /\ q.pass = "none"

LEMMA AskedCall ==
    ASSUME NEW op \in Ops, NEW u \in Users, NEW on \in GuideMaps \union Posts
    PROVE  NewCall(Asked(op, u, on), op, on)
  BY RestCall DEF Asked, Call, CallPlaces, NewCall

LEMMA AskCount ==
    ASSUME GuidesInv, NEW c \in Calls, NEW op \in Ops, NEW q \in Call,
           Begins(c, op), Becomes(c, q),
           UNCHANGED <<post, votes, banned, raced>>,
           NewCall(q, op, q.on),
           IF op = "create" THEN q.on \in GuideMaps /\ q.title \in Titles
           ELSE q.on \in Stored /\ (op = "comment" => IsGuide(q.on))
    PROVE  GuidesInv'
  <1>1. /\ call' = [call EXCEPT ![c] = q]
        /\ call'[c] = q /\ \A d \in Calls \ {c} : call'[d] = call[d]
        /\ call[c].pc = "idle"
    BY DEF Becomes, Begins, In, GuidesInv, GuidesTypeOK
  <1>2. /\ menu' \in Seq(SUBSET (Ops \union {"ban"}))
        /\ Len(menu') + 1 = Len(menu) /\ Len(menu') \in Nat
    BY RequestType DEF Begins
  <1>3. RoomInv'
    <2>1. Underway' \subseteq Underway \union {c}
      BY <1>1 DEF Underway, In
    <2>2. Cardinality(Underway \union {c}) <= Cardinality(Underway) + 1
      <3>1. Cardinality(Underway \union {c})
               = IF c \in Underway THEN Cardinality(Underway)
                 ELSE Cardinality(Underway) + 1
        BY UnderwayFinite, FS_AddElement
      <3> QED  BY <3>1, UnderwayFinite
    <2>3. /\ IsFiniteSet(Underway \union {c})
          /\ Cardinality(Underway \union {c}) \in Nat
      BY UnderwayFinite, FS_AddElement, FS_CardinalityType
    <2>4. /\ Cardinality(Underway') <= Cardinality(Underway \union {c})
          /\ Cardinality(Underway') \in Nat
      BY <2>1, <2>3, FS_Subset, FS_CardinalityType
    <2>5. Stored' = Stored /\ RoomInv
      BY SamePosts DEF GuidesInv
    <2> QED
      BY <1>2, <2>2, <2>3, <2>4, <2>5, StoredFinite, UnderwayFinite,
         GuideConstants DEF RoomInv
  <1>4. CallForm(c)' /\ SlugInv(c)' /\ TallyInv(c)' /\ BanInv(c)'
    <2>1. /\ Stored' = Stored /\ post' = post
          /\ q.pc \in {"write", "ban"} /\ (q.pc = "write" => q.op = "erase")
          /\ q.op = op /\ q.n = 0 /\ q.late = FALSE /\ q.pass = "none"
      BY SamePosts DEF NewCall
    <2>2. CallForm(c)'
      BY <1>1, <2>1 DEF CallForm, IsGuide
    <2> QED  BY <1>1, <2>1, <2>2 DEF SlugInv, TallyInv, BanInv, In
  <1>5. q.pc # "commit"
    BY DEF NewCall
  <1> QED  BY <1>1, <1>2, <1>3, <1>4, <1>5, OneCall

LEMMA AskCreateInv ==
    ASSUME GuidesInv, NEW c \in Calls, AskCreate(c)
    PROVE  GuidesInv'
  <1>1. PICK u \in Users, m \in GuideMaps, t \in Titles :
            Becomes(c, [Asked("create", u, m) EXCEPT !.title = t])
    BY DEF AskCreate
  <1> PICK a : a = Asked("create", u, m)
    OBVIOUS
  <1> PICK q : q = [a EXCEPT !.title = t]
    OBVIOUS
  <1>2. NewCall(a, "create", m)
    BY AskedCall DEF Ops
  <1>3. NewCall(q, "create", q.on) /\ q.on \in GuideMaps /\ q.title \in Titles
    BY <1>2 DEF NewCall, Call
  <1>4. q \in Call /\ "create" \in Ops
    BY <1>3 DEF NewCall, Ops
  <1> QED  BY <1>1, <1>3, <1>4, AskCount DEF AskCreate

LEMMA AskAboutInv ==
    ASSUME GuidesInv, NEW c \in Calls, AskAbout(c)
    PROVE  GuidesInv'
  <1>0. UNCHANGED <<post, votes, banned, raced>> /\ Stored \subseteq Posts
    BY StoredFinite DEF AskAbout
  <1>1. ASSUME NEW u \in Users, NEW p \in Stored, NEW v \in VoteTypes,
               Begins(c, "vote"),
               Becomes(c, [Asked("vote", u, p) EXCEPT !.vote = v])
        PROVE  GuidesInv'
    <2> PICK a : a = Asked("vote", u, p)
      OBVIOUS
    <2> PICK q : q = [a EXCEPT !.vote = v]
      OBVIOUS
    <2>1. NewCall(a, "vote", p)
      BY <1>0, AskedCall DEF Ops
    <2>2. NewCall(q, "vote", q.on) /\ q.on = p
      BY <2>1 DEF NewCall, Call
    <2>3. q \in Call /\ "vote" \in Ops
      BY <2>2 DEF NewCall, Ops
    <2> QED  BY <1>0, <1>1, <2>2, <2>3, AskCount
  <1>2. ASSUME NEW u \in Users, NEW p \in Stored,
               NEW op \in {"unvote", "comment", "erase"},
               op = "comment" => IsGuide(p),
               Begins(c, op), Becomes(c, Asked(op, u, p))
        PROVE  GuidesInv'
    <2> PICK q : q = Asked(op, u, p)
      OBVIOUS
    <2>1. op \in Ops /\ op # "create"
      BY DEF Ops
    <2>2. NewCall(q, op, p)
      BY <1>0, <2>1, AskedCall
    <2>3. q \in Call /\ q.on = p
      BY <2>2 DEF NewCall
    <2> QED  BY <1>0, <1>2, <2>1, <2>2, <2>3, AskCount
  <1> QED  BY <1>1, <1>2 DEF AskAbout

(* A call that goes on to where no row is locked and nothing is looked up. *)
LEMMA CallGoesOn ==
    ASSUME GuidesInv, NEW c \in Calls, NEW q \in Call,
           Becomes(c, q), ~In(c, "idle"),
           UNCHANGED <<post, votes, banned, menu, raced>>,
           q.pc \in {"author", "write", "slug", "insert"},
           CallForm(c)', SlugInv(c)', BanInv(c)'
    PROVE  GuidesInv'
  <1>1. /\ call' = [call EXCEPT ![c] = q]
        /\ call'[c] = q /\ \A d \in Calls \ {c} : call'[d] = call[d]
    BY DEF Becomes, GuidesInv, GuidesTypeOK
  <1>2. RoomInv'
    <2>1. Underway' \subseteq Underway
      BY <1>1 DEF Underway, In
    <2> QED  BY <2>1, RoomStays, SamePosts DEF GuidesInv
  <1>3. TallyInv(c)'
    BY <1>1 DEF TallyInv, In
  <1>4. menu' \in Seq(SUBSET (Ops \union {"ban"}))
    BY DEF GuidesInv, GuidesTypeOK
  <1> QED  BY <1>1, <1>2, <1>3, <1>4, OneCall

LEMMA CheckBanInv ==
    ASSUME GuidesInv, NEW c \in Calls, CheckBan(c)
    PROVE  GuidesInv'
  <1> DEFINE place == CASE call[c].op = "create"                    -> "slug"
                        [] call[c].op = "vote" /\ IsGuide(call[c].on) -> "author"
                        [] OTHER                                    -> "write"
  <1>0. /\ call[c].pc = "ban" /\ call[c] \in Call /\ CallInv(c)
        /\ place \in {"slug", "author", "write"}
        /\ (place = "slug") <=> (call[c].op = "create")
        /\ UNCHANGED <<post, votes, banned, menu, raced>>
    BY DEF CheckBan, In, GuidesInv, GuidesTypeOK
  <1> HIDE DEF place
  <1>1. ASSUME NEW how \in {"clear", "unknown"},
               how = "clear" => call[c].user \notin banned,
               Becomes(c, [call[c] EXCEPT !.pc = place, !.pass = how])
        PROVE  GuidesInv'
    <2> PICK q : q = [call[c] EXCEPT !.pc = place, !.pass = how]
      OBVIOUS
    <2>1. /\ q \in Call /\ q.pc = place /\ q.pass = how
          /\ q.op = call[c].op /\ q.user = call[c].user /\ q.on = call[c].on
          /\ q.title = call[c].title /\ q.late = call[c].late
      BY <1>0 DEF Call, CallPlaces, Passes
    <2>2. call'[c] = q
      BY <1>1 DEF Becomes, GuidesInv, GuidesTypeOK
    <2>3. CallForm(c)'
      BY <1>0, <2>1, <2>2, SamePosts DEF CallInv, CallForm
    <2>4. BanInv(c)'
      BY <1>0, <1>1, <2>1, <2>2 DEF BanInv
    <2>5. SlugInv(c)'
      <3>1. q.n = 0
        BY <1>0 DEF CallInv, CallForm, Call
      <3> QED  BY <1>0, <2>1, <2>2, <3>1 DEF SlugInv
    <2> QED  BY <1>0, <1>1, <2>1, <2>3, <2>4, <2>5, CallGoesOn DEF In
  <1>2. CASE Ends(c)
    BY <1>0, <1>2, CallEnds DEF In
  <1> QED  BY <1>1, <1>2 DEF CheckBan, place

LEMMA FindAuthorInv ==
    ASSUME GuidesInv, NEW c \in Calls, FindAuthor(c)
    PROVE  GuidesInv'
  <1>0. /\ call[c].pc = "author" /\ call[c] \in Call /\ CallInv(c)
        /\ UNCHANGED <<post, votes, banned, menu, raced>>
    BY DEF FindAuthor, In, GuidesInv, GuidesTypeOK
  <1>1. CASE Becomes(c, [call[c] EXCEPT !.pc = "write"])
    <2> PICK q : q = [call[c] EXCEPT !.pc = "write"]
      OBVIOUS
    <2>1. /\ q \in Call /\ q.pc = "write" /\ q.pass = call[c].pass
          /\ q.op = call[c].op /\ q.user = call[c].user /\ q.on = call[c].on
          /\ q.title = call[c].title /\ q.late = call[c].late
      BY <1>0 DEF Call, CallPlaces
    <2>2. call'[c] = q
      BY <1>1 DEF Becomes, GuidesInv, GuidesTypeOK
    <2>3. CallForm(c)'
      BY <1>0, <2>1, <2>2, SamePosts DEF CallInv, CallForm
    <2>4. BanInv(c)' /\ SlugInv(c)'
      BY <1>0, <2>1, <2>2 DEF CallInv, BanInv, SlugInv
    <2> QED  BY <1>0, <1>1, <2>1, <2>3, <2>4, CallGoesOn DEF In
  <1>2. CASE Ends(c)
    BY <1>0, <1>2, CallEnds DEF In
  <1> QED  BY <1>1, <1>2 DEF FindAuthor

LEMMA LookSlugInv ==
    ASSUME GuidesInv, NEW c \in Calls, LookSlug(c)
    PROVE  GuidesInv'
  <1> PICK slug : slug = Slug(call[c].title, call[c].n)
    OBVIOUS
  <1>0. /\ call[c].pc = "slug" /\ call[c] \in Call /\ CallInv(c)
        /\ UNCHANGED <<post, votes, banned, menu, raced>>
        /\ Stored \subseteq Posts /\ Live \subseteq Stored
    BY StoredFinite DEF LookSlug, In, GuidesInv, GuidesTypeOK
  <1>1. \A k \in 0..(call[c].n - 1) :
           \E p \in Stored : post[p].slug = Slug(call[c].title, k)
    BY <1>0 DEF CallInv, SlugInv
  <1>2. ASSUME NEW r \in Titled(slug),
               Becomes(c, [call[c] EXCEPT !.n = @ + 1])
        PROVE  GuidesInv'
    <2> PICK q : q = [call[c] EXCEPT !.n = @ + 1]
      OBVIOUS
    <2>1. /\ q \in Call /\ q.pc = "slug" /\ q.pass = call[c].pass
          /\ q.op = call[c].op /\ q.user = call[c].user /\ q.on = call[c].on
          /\ q.title = call[c].title /\ q.late = call[c].late
          /\ q.n = call[c].n + 1 /\ call[c].n \in Nat
      BY <1>0 DEF Call
    <2>2. call'[c] = q
      BY <1>2 DEF Becomes, GuidesInv, GuidesTypeOK
    <2>3. CallForm(c)'
      BY <1>0, <2>1, <2>2, SamePosts DEF CallInv, CallForm
    <2>4. SlugInv(c)'
      <3>1. r \in Stored /\ post[r].slug = Slug(call[c].title, call[c].n)
        BY <1>0 DEF Titled
      <3>2. \A k \in 0..(q.n - 1) : k = call[c].n \/ k \in 0..(call[c].n - 1)
        BY <2>1
      <3>3. \A k \in 0..(q.n - 1) :
               \E p \in Stored : post[p].slug = Slug(q.title, k)
        BY <1>1, <2>1, <3>1, <3>2
      <3> QED  BY <1>0, <2>1, <2>2, <3>3, SamePosts DEF SlugInv
    <2>5. BanInv(c)'
      BY <1>0, <2>1, <2>2 DEF CallInv, BanInv
    <2> QED  BY <1>0, <1>2, <2>1, <2>3, <2>4, <2>5, CallGoesOn DEF In
  <1>3. ASSUME ~ \E p \in Titled(slug) : post[p].under = call[c].on,
               Becomes(c, [call[c] EXCEPT !.pc = "insert", !.saw = Stored])
        PROVE  GuidesInv'
    <2> PICK q : q = [call[c] EXCEPT !.pc = "insert", !.saw = Stored]
      OBVIOUS
    <2>1. /\ q \in Call /\ q.pc = "insert" /\ q.pass = call[c].pass
          /\ q.op = call[c].op /\ q.user = call[c].user /\ q.on = call[c].on
          /\ q.title = call[c].title /\ q.late = call[c].late
          /\ q.n = call[c].n /\ q.saw = Stored
      BY <1>0 DEF Call, CallPlaces
    <2>2. call'[c] = q
      BY <1>3 DEF Becomes, GuidesInv, GuidesTypeOK
    <2>3. CallForm(c)'
      BY <1>0, <2>1, <2>2, SamePosts DEF CallInv, CallForm
    <2>4. SlugInv(c)'
      <3>1. \A p \in Titled(Slug(q.title, q.n)) : post[p].under # q.on
        BY <1>3, <2>1
      <3> QED
        BY <1>0, <1>1, <2>1, <2>2, <3>1, SamePosts DEF SlugInv, Titled
    <2>5. BanInv(c)'
      BY <1>0, <2>1, <2>2 DEF CallInv, BanInv
    <2> QED  BY <1>0, <1>3, <2>1, <2>3, <2>4, <2>5, CallGoesOn DEF In
  <1> QED  BY <1>2, <1>3 DEF LookSlug

(* A statement that holds its row and has counted. *)
LEMMA CallCounts ==
    ASSUME GuidesInv, NEW c \in Calls, In(c, "write"),
           NEW counts \in Counts, Counting(c, counts),
           UNCHANGED <<post, votes, banned, menu, raced>>,
           call[c].on \in Live, ~Erasing(call[c].on),
           call[c].op = "erase" => Open(call[c].on, Ops) = {},
           call[c].op \in Ballots =>
              counts = Sum([votes[call[c].on] EXCEPT
                               ![call[c].user] = call[c].vote]),
           call[c].op = "comment" =>
              counts.replies = Cardinality(Comments(call[c].on)) + 1,
           call[c].op = "erase" /\ ~IsGuide(call[c].on) =>
              counts.replies
                 = Cardinality(Comments(post[call[c].on].under)) - 1
    PROVE  GuidesInv'
  <1> PICK q : q = [call[c] EXCEPT !.pc = "commit", !.counted = counts]
    OBVIOUS
  <1>0. /\ call[c].pc = "write" /\ call[c] \in Call /\ CallInv(c)
        /\ call' = [call EXCEPT ![c] = q]
    BY DEF In, GuidesInv, GuidesTypeOK, Counting, Becomes
  <1>1. /\ q \in Call /\ q.pc = "commit" /\ q.pass = call[c].pass
        /\ q.op = call[c].op /\ q.user = call[c].user /\ q.on = call[c].on
        /\ q.title = call[c].title /\ q.vote = call[c].vote
        /\ q.counted = counts
    BY <1>0 DEF Call, CallPlaces
  <1>2. call'[c] = q /\ \A d \in Calls \ {c} : call'[d] = call[d]
    BY <1>0 DEF GuidesInv, GuidesTypeOK
  <1>3. RoomInv'
    <2>1. Underway' \subseteq Underway
      BY <1>0, <1>2 DEF Underway, In
    <2> QED  BY <2>1, RoomStays, SamePosts DEF GuidesInv
  <1>4. CallForm(c)'
    BY <1>0, <1>1, <1>2, SamePosts DEF CallInv, CallForm
  <1>5. SlugInv(c)' /\ BanInv(c)'
    BY <1>0, <1>1, <1>2 DEF CallInv, SlugInv, BanInv
  <1>6. TallyInv(c)'
    BY <1>1, <1>2, SamePosts DEF TallyInv
  <1>7. menu' \in Seq(SUBSET (Ops \union {"ban"}))
    BY DEF GuidesInv, GuidesTypeOK
  <1> QED
    BY <1>0, <1>1, <1>3, <1>4, <1>5, <1>6, <1>7, OneCall

LEMMA StatementsInv ==
    ASSUME GuidesInv, NEW c \in Calls, Cast(c) \/ WriteComment(c) \/ Erase(c)
    PROVE  GuidesInv'
  <1>0. /\ call[c].pc = "write" /\ In(c, "write") /\ call[c] \in Call
        /\ UNCHANGED <<post, votes, banned, menu, raced>>
    BY DEF Cast, WriteComment, Erase, In, GuidesInv, GuidesTypeOK
  <1>1. CASE Ends(c)
    BY <1>0, <1>1, CallEnds DEF In
  <1>2. CASE Cast(c) /\ ~Ends(c)
    <2> PICK counts : counts = Sum([votes[call[c].on] EXCEPT
                                       ![call[c].user] = call[c].vote])
      OBVIOUS
    <2>1. /\ call[c].op \in Ballots /\ call[c].on \in Live
          /\ ~Erasing(call[c].on) /\ Counting(c, counts)
      BY <1>2 DEF Cast
    <2>2. counts \in Counts
      BY SumCounts
    <2> QED  BY <1>0, <2>1, <2>2, CallCounts DEF Ballots
  <1>3. CASE WriteComment(c) /\ ~Ends(c)
    <2> PICK counts : counts = [Zero EXCEPT !.replies =
                                   Cardinality(Comments(call[c].on)) + 1]
      OBVIOUS
    <2>1. /\ call[c].op = "comment" /\ call[c].on \in Live
          /\ ~Erasing(call[c].on) /\ Counting(c, counts)
      BY <1>3 DEF WriteComment
    <2>2. /\ counts \in Counts
          /\ counts.replies = Cardinality(Comments(call[c].on)) + 1
      <3>1. Cardinality(Comments(call[c].on)) \in Nat
        BY StoredFinite
      <3> QED  BY <3>1 DEF Zero, Counts
    <2> QED  BY <1>0, <2>1, <2>2, CallCounts DEF Ballots
  <1>4. CASE Erase(c) /\ ~Ends(c)
    <2> PICK g : g = post[call[c].on].under
      OBVIOUS
    <2> PICK counts : counts = IF IsGuide(call[c].on) THEN Zero
                               ELSE [Zero EXCEPT !.replies =
                                        Cardinality(Comments(g)) - 1]
      OBVIOUS
    <2>1. /\ call[c].op = "erase" /\ call[c].on \in Live
          /\ Open(call[c].on, Ops) = {} /\ Counting(c, counts)
      BY <1>4 DEF Erase
    <2>2. ~Erasing(call[c].on)
      BY <2>1 DEF Erasing, Open, Ops
    <2>3. CASE IsGuide(call[c].on)
      <3>1. counts \in Counts
        BY <2>3 DEF Zero, Counts
      <3> QED  BY <1>0, <2>1, <2>2, <2>3, <3>1, CallCounts DEF Ballots
    <2>4. CASE ~IsGuide(call[c].on)
      <3>1. call[c].on \in Comments(g)
        BY <2>1, <2>4 DEF Comments, IsGuide, Live, Stored, GuidesInv,
                          GuidesTypeOK, Post
      <3>2. /\ Cardinality(Comments(g)) \in Nat
            /\ Cardinality(Comments(g)) # 0
        BY <3>1, StoredFinite, FS_EmptySet
      <3>3. /\ counts \in Counts
            /\ counts.replies = Cardinality(Comments(g)) - 1
        BY <2>4, <3>2 DEF Zero, Counts
      <3> QED  BY <1>0, <2>1, <2>2, <2>4, <3>3, CallCounts DEF Ballots
    <2> QED  BY <2>3, <2>4
  <1> QED  BY <1>1, <1>2, <1>3, <1>4

(***************************************************************************)
(* Bans: a call that was past the check is marked, one that was not is     *)
(* refused.                                                                *)
(***************************************************************************)
LEMMA BansInv ==
    ASSUME GuidesInv, NEW u \in Users, Ban(u) \/ Unban(u)
    PROVE  GuidesInv'
  <1>1. /\ UNCHANGED <<post, votes, raced>>
        /\ banned' \subseteq banned \union {u}
        /\ menu' \in Seq(SUBSET (Ops \union {"ban"}))
        /\ Len(menu') <= Len(menu) /\ Len(menu') \in Nat
    <2>1. CASE Ban(u)
      <3>1. /\ menu' \in Seq(SUBSET (Ops \union {"ban"}))
            /\ Len(menu') + 1 = Len(menu) /\ Len(menu') \in Nat
        BY <2>1, RequestType DEF Ban
      <3> QED  BY <2>1, <3>1 DEF Ban
    <2>2. CASE Unban(u)
      BY <2>2, LenProperties DEF Unban, GuidesInv, GuidesTypeOK
    <2> QED  BY <2>1, <2>2
  <1>2. ASSUME NEW c \in Calls
        PROVE  /\ call'[c] \in Call /\ CallLike(c)
               /\ call'[c].late = call[c].late
               /\ call'[c].pass \in {call[c].pass, "early"}
               /\ call'[c].pass = "clear" => call[c].user \notin banned'
               /\ call[c].pass # "clear" => call'[c] = call[c]
    <2>0. call[c] \in Call /\ BanInv(c)
      BY DEF GuidesInv, GuidesTypeOK, CallInv
    <2>1. CASE Ban(u)
      <3>1. CASE call[c].user = u /\ call[c].pass = "clear"
        <4>1. call'[c] = [call[c] EXCEPT !.pass = "early"]
          BY <2>1, <3>1 DEF Ban
        <4> QED  BY <2>0, <3>1, <4>1 DEF Call, Passes, CallLike
      <3>2. CASE ~(call[c].user = u /\ call[c].pass = "clear")
        <4>1. call'[c] = call[c] /\ banned' = banned \union {u}
          BY <2>1, <3>2 DEF Ban
        <4> QED  BY <2>0, <3>2, <4>1 DEF BanInv, CallLike
      <3> QED  BY <3>1, <3>2
    <2>2. CASE Unban(u)
      BY <2>0, <2>2 DEF Unban, BanInv, CallLike
    <2> QED  BY <2>1, <2>2
  <1>3. GuidesTypeOK'
    <2>1. call' \in [Calls -> Call]
      <3>1. \A c \in Calls : call'[c] \in Call
        BY <1>2
      <3>2. DOMAIN call' = Calls /\ call' = [c \in Calls |-> call'[c]]
        BY DEF Ban, Unban, GuidesInv, GuidesTypeOK
      <3> QED  BY <3>1, <3>2
    <2> QED  BY <1>1, <2>1 DEF GuidesInv, GuidesTypeOK
  <1>4. Numbered' /\ \A p \in Posts : PostInv(p)'
    BY <1>1, SamePosts DEF GuidesInv, Numbered, PostInv
  <1>5. RoomInv'
    <2>1. Underway' = Underway
      BY <1>2 DEF Underway, In, CallLike
    <2>2. Len(menu) \in Nat
      BY LenProperties DEF GuidesInv, GuidesTypeOK
    <2> QED
      BY <1>1, <2>1, <2>2, SamePosts, StoredFinite, UnderwayFinite,
         GuideConstants DEF GuidesInv, RoomInv
  <1>6. ASSUME NEW c \in Calls PROVE CallInv(c)'
    <2>0. CallInv(c) /\ CallLike(c) /\ call'[c].late = call[c].late
      BY <1>2 DEF GuidesInv
    <2>1. CallForm(c)' /\ SlugInv(c)'
      BY <1>1, <2>0, SamePosts, FormKeeps, SlugKeeps DEF CallInv
    <2>2. OpenInv(c)'
      <3>1. \A p, ops : Open(p, ops)' = Open(p, ops)
        BY <1>2 DEF Open, In, CallLike
      <3> QED  BY <1>1, <2>0, <3>1, SamePosts DEF CallInv, OpenInv, In, CallLike
    <2>3. TallyInv(c)'
      BY <1>1, <2>0, SamePosts DEF CallInv, TallyInv, In, CallLike
    <2>4. BanInv(c)'
      BY <1>2, <2>0 DEF CallInv, BanInv, CallLike
    <2> QED  BY <2>1, <2>2, <2>3, <2>4 DEF CallInv
  <1> QED  BY <1>3, <1>4, <1>5, <1>6 DEF GuidesInv

-----------------------------------------------------------------------------
(* The steps that change rows *)

LEMMA PostRow ==
    ASSUME GuidesTypeOK, NEW p \in Stored
    PROVE  /\ p \in Posts /\ post[p] \in Post
           /\ IsGuide(p) <=> post[p].kind # "comment"
  BY DEF Stored, GuidesTypeOK, Post, IsGuide

LEMMA RowAdded ==
    ASSUME GuidesInv, NEW c \in Underway, menu' = menu,
           Stored' = Stored \union {NextId},
           Underway' \subseteq Underway \ {c}
    PROVE  Numbered' /\ RoomInv'
  <1>1. NextId \notin Stored /\ NextId = Cardinality(Stored) + 1
    BY NextRow DEF GuidesInv
  <1>2. Cardinality(Stored') = Cardinality(Stored) + 1
    BY <1>1, StoredFinite, FS_AddElement
  <1>3. Numbered'
    BY <1>1, <1>2, StoredFinite DEF GuidesInv, Numbered
  <1>4. /\ Cardinality(Underway') <= Cardinality(Underway) - 1
        /\ Cardinality(Underway') \in Nat
    <2>1. /\ IsFiniteSet(Underway \ {c})
          /\ Cardinality(Underway \ {c}) = Cardinality(Underway) - 1
      BY UnderwayFinite, FS_RemoveElement
    <2> QED  BY <2>1, FS_Subset, FS_CardinalityType
  <1>5. Len(menu) \in Nat
    BY LenProperties DEF GuidesInv, GuidesTypeOK
  <1> QED
    BY <1>2, <1>3, <1>4, <1>5, StoredFinite, UnderwayFinite, GuideConstants
    DEF GuidesInv, RoomInv

(* What it has counted is what there is still, or it knows it is late. *)
TallySame(d) ==
    LET q == call[d] IN
    ~call'[d].late =>
       /\ ~q.late
       /\ In(d, "commit") =>
             /\ q.op \in Ballots => votes'[q.on] = votes[q.on]
             /\ \A g : q.op = "comment" /\ g = q.on
                      => Comments(g)' = Comments(g)
             /\ \A g : q.op = "erase" /\ ~IsGuide(q.on) /\ g = post[q.on].under
                      => Comments(g)' = Comments(g)

(* The other calls, when rows change and the call c ends. *)
OtherCalls(c) ==
    \A d \in Calls \ {c} :
       /\ CallLike(d)
       /\ call'[d].pass = call[d].pass
       /\ ~In(d, "commit") => call'[d].late = call[d].late
       /\ In(d, "commit") => call[d].on \in Live'

LEMMA TallyKeeps ==
    ASSUME GuidesInv, RowsKept, NEW d \in Calls, CallLike(d), TallySame(d)
    PROVE  TallyInv(d)'
  <1> PICK q : q = call[d]
    OBVIOUS
  <1>1. /\ call'[d].pc = q.pc /\ call'[d].op = q.op /\ call'[d].on = q.on
        /\ call'[d].user = q.user /\ call'[d].vote = q.vote
        /\ call'[d].counted = q.counted
    BY DEF CallLike
  <1>2. TallyInv(d) /\ OpenInv(d)
    BY DEF GuidesInv, CallInv
  <1> SUFFICES ASSUME q.pc = "commit", ~call'[d].late PROVE TallyInv(d)'
    BY <1>1 DEF TallyInv, In
  <1>3. q.on \in Stored /\ ~q.late
    BY <1>2, StoredFinite DEF OpenInv, In, TallySame
  <1>4. /\ IsGuide(q.on)' <=> IsGuide(q.on)
        /\ post'[q.on].under = post[q.on].under
    BY <1>3 DEF RowsKept, IsGuide
  <1>5. q.op \in Ballots
           => q.counted = Sum([votes'[q.on] EXCEPT ![q.user] = q.vote])
    BY <1>2, <1>3 DEF TallyInv, TallySame, In
  <1>6. ASSUME q.op = "comment", NEW g, g = q.on
        PROVE  q.counted.replies = Cardinality(Comments(g)') + 1
    <2>1. Comments(g)' = Comments(g)
      BY <1>3, <1>6 DEF TallySame, In
    <2>2. q.counted.replies = Cardinality(Comments(g)) + 1
      BY <1>2, <1>3, <1>6 DEF TallyInv, In
    <2> QED  BY <2>1, <2>2
  <1>7. ASSUME q.op = "erase", ~IsGuide(q.on), NEW g, g = post[q.on].under
        PROVE  q.counted.replies = Cardinality(Comments(g)') - 1
    <2>1. Comments(g)' = Comments(g)
      BY <1>3, <1>7 DEF TallySame, In
    <2>2. q.counted.replies = Cardinality(Comments(g)) - 1
      BY <1>2, <1>3, <1>7 DEF TallyInv, In
    <2> QED  BY <2>1, <2>2
  <1> QED  BY <1>1, <1>4, <1>5, <1>6, <1>7 DEF TallyInv, Sum

LEMMA OthersStay ==
    ASSUME GuidesInv, RowsKept, NEW c \in Calls, call'[c] = Rest,
           banned' = banned, OtherCalls(c),
           \A d \in Calls \ {c} : TallySame(d)
    PROVE  \A d \in Calls : CallInv(d)'
  <1>1. CallInv(c)'
    <2>1. CallForm(c)' /\ SlugInv(c)' /\ OpenInv(c)'
      BY RestCall DEF CallForm, SlugInv, OpenInv, In
    <2> QED  BY <2>1, RestCall DEF CallInv, TallyInv, BanInv, In
  <1>2. ASSUME NEW d \in Calls \ {c} PROVE CallInv(d)'
    <2>1. /\ CallInv(d) /\ CallLike(d) /\ call'[d].pass = call[d].pass
          /\ ~In(d, "commit") => call'[d].late = call[d].late
      BY DEF GuidesInv, OtherCalls
    <2>2. CallForm(d)' /\ SlugInv(d)'
      BY <2>1, FormKeeps, SlugKeeps DEF CallInv, In, CallLike
    <2>3. OpenInv(d)'
      <3>1. CASE In(d, "commit") /\ call[d].op = "erase"
        <4>1. Open(call[d].on, Ops) = {d}
          BY <2>1, <3>1 DEF CallInv, OpenInv
        <4>2. \A e \in Calls \ {c} : /\ call'[e].pc = call[e].pc
                                     /\ call'[e].op = call[e].op
                                     /\ call'[e].on = call[e].on
          BY DEF OtherCalls, CallLike
        <4>3. \A p : Open(p, Ops)' = Open(p, Ops) \ {c}
          BY <4>2, RestCall DEF Open, In
        <4> QED
          BY <2>1, <3>1, <4>1, <4>2, <4>3 DEF OtherCalls, OpenInv, In
      <3>2. CASE ~(In(d, "commit") /\ call[d].op = "erase")
        BY <2>1, <3>2 DEF OtherCalls, OpenInv, In, CallLike
      <3> QED  BY <3>1, <3>2
    <2>4. TallyInv(d)'
      BY <2>1, TallyKeeps
    <2>5. BanInv(d)'
      BY <2>1 DEF CallInv, BanInv, CallLike
    <2> QED  BY <2>2, <2>3, <2>4, <2>5 DEF CallInv
  <1> QED  BY <1>1, <1>2

LEMMA InsertGuideInv ==
    ASSUME GuidesInv, NEW c \in Calls, InsertGuide(c)
    PROVE  GuidesInv'
  <1> PICK q : q = call[c]
    OBVIOUS
  <1> PICK slug : slug = Slug(q.title, q.n)
    OBVIOUS
  <1> PICK r : r = NextId
    OBVIOUS
  <1>0. /\ q.pc = "insert" /\ q \in Call /\ CallInv(c) /\ q.op = "create"
        /\ q.on \in GuideMaps /\ q.title \in Titles /\ q.user \in Users
        /\ UNCHANGED <<votes, banned, menu, raced>> /\ Ends(c)
        /\ ~In(c, "idle") /\ c \in Underway
    <2>1. q.pc = "insert" /\ q \in Call /\ CallInv(c)
      BY DEF InsertGuide, In, GuidesInv, GuidesTypeOK
    <2> QED
      BY <2>1 DEF InsertGuide, In, Underway, CallInv, CallForm, Call
  <1>1. CASE post' = post
    BY <1>0, <1>1, CallEnds
  <1>2. CASE post' = [post EXCEPT ![r] = NewPost("guide", q.on, q.user, slug)]
    <2> PICK row : row = NewPost("guide", q.on, q.user, slug)
      OBVIOUS
    <2>1. /\ row \in Post /\ row # None /\ row.kind = "guide"
          /\ row.counts = Zero /\ row.gone = FALSE
      <3>1. q.n \in Nat /\ q.n <= MaxCalls + 2
        BY <1>0, CandidateBound DEF CallInv, GuidesInv
      <3>2. slug \in Slugs
        BY <1>0, <3>1, SlugType
      <3>3. row \in Post /\ row # None
        <4>1. q.on \in GuideMaps \union Posts /\ slug \in Slugs \union {None}
              /\ "guide" \in {"guide", "comment"}
          BY <1>0, <3>2
        <4> QED  BY <1>0, <4>1, NewPostRow
      <3> QED  BY <3>3 DEF NewPost
    <2>2. r \in Posts /\ r \notin Stored
      BY <1>0, NextRow DEF GuidesInv
    <2>3. /\ post' = [post EXCEPT ![r] = row]
          /\ post'[r] = row /\ \A p \in Posts \ {r} : post'[p] = post[p]
      BY <1>2, <2>2 DEF GuidesInv, GuidesTypeOK
    <2>4. /\ Stored' = Stored \union {r} /\ Live' = Live \union {r}
          /\ \A g : Comments(g)' = Comments(g)
          /\ RowsKept
      <3>1. Stored' = Stored \union {r}
        BY <2>1, <2>2, <2>3 DEF Stored
      <3>2. Live' = Live \union {r}
        BY <2>1, <2>2, <2>3, <3>1, StoredFinite DEF Live
      <3>3. \A g : Comments(g)' = Comments(g)
        BY <2>1, <2>2, <2>3, <3>2, StoredFinite DEF Comments
      <3>4. RowsKept
        BY <2>2, <2>3, <3>1, <3>2, StoredFinite DEF RowsKept
      <3> QED  BY <3>1, <3>2, <3>3, <3>4
    <2>5. /\ call' = [call EXCEPT ![c] = Rest]
          /\ call'[c] = Rest /\ \A d \in Calls \ {c} : call'[d] = call[d]
      BY <1>0 DEF Ends, Becomes, GuidesInv, GuidesTypeOK
    <2>6. GuidesTypeOK'
      BY <1>0, <2>1, <2>3, <2>5, RestCall DEF GuidesInv, GuidesTypeOK
    <2>7. Numbered' /\ RoomInv'
      <3>1. Underway' \subseteq Underway \ {c}
        BY <2>5, RestCall DEF Underway, In
      <3> QED  BY <1>0, <2>4, <3>1, RowAdded
    <2>8. ASSUME NEW p \in Posts PROVE PostInv(p)'
      <3>1. CASE p = r
        <4>1. Comments(r) = {}
          <5>1. ASSUME NEW x \in Comments(r) PROVE FALSE
            <6>1. x \in Live /\ x \in Stored /\ x \in Posts
                  /\ ~IsGuide(x) /\ post[x].under = r
              BY StoredFinite DEF Comments, IsGuide
            <6> QED  BY <2>2, <6>1 DEF GuidesInv, PostInv
          <5> QED  BY <5>1
        <4>2. \A u \in Users : votes[r][u] = None
          BY <2>2, StoredFinite DEF GuidesInv, PostInv
        <4>3. Sum(votes[r]).up = 0 /\ Sum(votes[r]).down = 0
          BY <4>2, SumNone
        <4>4. Cardinality(Comments(r)) = 0
          BY <4>1, FS_EmptySet
        <4>5. post'[r].counts.up = 0 /\ post'[r].counts.down = 0
              /\ post'[r].counts.replies = 0 /\ IsGuide(r)'
          BY <2>1, <2>3 DEF Zero, IsGuide
        <4>6. Sum(votes[r])' = Sum(votes[r])
          BY <1>0 DEF Sum
        <4> QED
          BY <1>0, <2>2, <2>4, <3>1, <4>3, <4>4, <4>5, <4>6 DEF PostInv
      <3>2. CASE p # r
        <4>1. PostInv(p) /\ post'[p] = post[p]
          BY <2>3, <3>2 DEF GuidesInv
        <4>2. (p \in Stored' <=> p \in Stored) /\ (p \in Live' <=> p \in Live)
          BY <2>4, <3>2
        <4>3. IsGuide(p)' <=> IsGuide(p)
          BY <4>1 DEF IsGuide
        <4>4. p \in Stored /\ ~IsGuide(p) =>
                 /\ post[p].under \in Stored
                 /\ IsGuide(post[p].under)' <=> IsGuide(post[p].under)
          BY <4>1, <2>4 DEF PostInv, RowsKept, IsGuide
        <4> QED
          BY <1>0, <2>4, <4>1, <4>2, <4>3, <4>4 DEF PostInv
      <3> QED  BY <3>1, <3>2
    <2>9. \A d \in Calls : CallInv(d)'
      <3>1. OtherCalls(c)
        <4>1. \A d \in Calls : In(d, "commit") => call[d].on \in Live
          BY DEF GuidesInv, CallInv, OpenInv
        <4> QED  BY <2>4, <2>5, <4>1 DEF OtherCalls, CallLike
      <3>2. \A d \in Calls \ {c} : TallySame(d)
        BY <1>0, <2>4, <2>5 DEF TallySame
      <3> QED  BY <1>0, <2>4, <2>5, <3>1, <3>2, OthersStay
    <2> QED  BY <2>6, <2>7, <2>8, <2>9 DEF GuidesInv
  <1> QED  BY <1>1, <1>2 DEF InsertGuide

(* What a commit does to the calls and to the history. *)
LEMMA CommitCalls ==
    ASSUME GuidesInv, NEW c \in Calls, In(c, "commit"), Commits(c),
           \A d \in Calls \ {c} : In(d, "commit") => call[d].on \in Live'
    PROVE  /\ call' \in [Calls -> Call] /\ call'[c] = Rest
           /\ OtherCalls(c)
           /\ \A d \in Calls \ {c} : ~call'[d].late =>
                 /\ ~call[d].late
                 /\ In(d, "commit") =>
                       Recount(call[d]) \intersect Recount(call[c]) = {}
           /\ Underway' \subseteq Underway \ {c} /\ c \in Underway
  <1>1. ASSUME NEW d \in Calls \ {c}
        PROVE  /\ call'[d] \in Call /\ CallLike(d)
               /\ call'[d].pass = call[d].pass
               /\ ~In(d, "commit") => call'[d].late = call[d].late
               /\ ~call'[d].late =>
                     /\ ~call[d].late
                     /\ In(d, "commit") =>
                           Recount(call[d]) \intersect Recount(call[c]) = {}
    <2>0. call[d] \in Call
      BY DEF GuidesInv, GuidesTypeOK
    <2>1. CASE /\ In(d, "commit")
               /\ Recount(call[d]) \intersect Recount(call[c]) # {}
      <3>1. call'[d] = [call[d] EXCEPT !.late = TRUE]
        BY <2>1 DEF Commits
      <3> QED  BY <2>0, <2>1, <3>1 DEF Call, CallLike
    <2>2. CASE ~(/\ In(d, "commit")
                 /\ Recount(call[d]) \intersect Recount(call[c]) # {})
      <3>1. call'[d] = call[d]
        BY <2>2 DEF Commits
      <3> QED  BY <2>0, <2>2, <3>1 DEF CallLike
    <2> QED  BY <2>1, <2>2
  <1>2. call'[c] = Rest
    BY DEF Commits
  <1>3. call' \in [Calls -> Call]
    <2>1. \A d \in Calls : call'[d] \in Call
      BY <1>1, <1>2, RestCall
    <2>2. call' = [d \in Calls |-> call'[d]]
      BY DEF Commits
    <2> QED  BY <2>1, <2>2
  <1>4. Underway' \subseteq Underway \ {c} /\ c \in Underway
    BY <1>1, <1>2, RestCall DEF Underway, In, CallLike
  <1> QED  BY <1>1, <1>2, <1>3, <1>4 DEF OtherCalls

LEMMA ExceptTwice ==
    ASSUME NEW S, NEW T, NEW f \in [S -> T], NEW x \in S, NEW a, NEW b
    PROVE  [[f EXCEPT ![x] = a] EXCEPT ![x] = b] = [f EXCEPT ![x] = b]
  OBVIOUS

LEMMA CommitVoteInv ==
    ASSUME GuidesInv, NEW c \in Calls, CommitVote(c)
    PROVE  GuidesInv'
  <1> PICK q : q = call[c]
    OBVIOUS
  <1> PICK p : p = q.on
    OBVIOUS
  <1>0. /\ In(c, "commit") /\ q.pc = "commit" /\ q \in Call /\ CallInv(c)
        /\ q.op \in Ballots /\ Commits(c)
        /\ UNCHANGED <<banned, menu>>
        /\ p \in Live /\ p \in Stored /\ p \in Posts
        /\ q.user \in Users /\ q.vote \in VoteTypes \union {None}
        /\ q.counted \in Counts
    <2>1. In(c, "commit") /\ q \in Call /\ CallInv(c)
      BY DEF CommitVote, GuidesInv, GuidesTypeOK
    <2> QED
      BY <2>1, StoredFinite DEF CommitVote, In, CallInv, OpenInv, Call
  <1>a. Recount(q) = {<<p, "votes">>}
    BY <1>0 DEF Recount, Ballots
  <1> PICK row : row = [post[p] EXCEPT !.counts.up = q.counted.up,
                                       !.counts.down = q.counted.down]
    OBVIOUS
  <1>1. /\ post[p] \in Post /\ row \in Post /\ row # None
        /\ row.kind = post[p].kind /\ row.under = post[p].under
        /\ row.slug = post[p].slug /\ row.gone = post[p].gone
        /\ row.counts.up = q.counted.up /\ row.counts.down = q.counted.down
        /\ row.counts.replies = post[p].counts.replies
    <2>1. post[p] \in Post
      BY <1>0, PostRow DEF GuidesInv
    <2>2. row \in Post
      BY <1>0, <2>1 DEF Post, Counts
    <2>3. /\ row.kind = post[p].kind /\ row.under = post[p].under
          /\ row.slug = post[p].slug /\ row.gone = post[p].gone
      BY <2>1 DEF Post
    <2>4. /\ row.counts.up = q.counted.up /\ row.counts.down = q.counted.down
          /\ row.counts.replies = post[p].counts.replies
      BY <2>1 DEF Post, Counts
    <2> QED  BY <2>1, <2>2, <2>3, <2>4, GuideConstants
  <1>2. /\ post' = [post EXCEPT ![p] = row]
        /\ post'[p] = row /\ \A x \in Posts \ {p} : post'[x] = post[x]
    <2> PICK r1 : r1 = [post[p] EXCEPT !.counts.up = q.counted.up]
      OBVIOUS
    <2> PICK post1 : post1 = [post EXCEPT ![p] = r1]
      OBVIOUS
    <2>a. post' = [post1 EXCEPT ![p].counts.down = q.counted.down]
      BY DEF CommitVote
    <2>b. /\ DOMAIN post = Posts /\ post1[p] = r1
          /\ post1 = [post EXCEPT ![p] = r1]
      BY <1>0 DEF GuidesInv, GuidesTypeOK
    <2>c. row = [r1 EXCEPT !.counts.down = q.counted.down]
      OBVIOUS
    <2>d. post' = [post1 EXCEPT ![p] = row]
      BY <2>a, <2>b, <2>c
    <2>e. post \in [Posts -> Post \union {None}]
      BY DEF GuidesInv, GuidesTypeOK
    <2>f. post' = [[post EXCEPT ![p] = r1] EXCEPT ![p] = row]
      BY <2>b, <2>d
    <2>1. post' = [post EXCEPT ![p] = row]
      <3>1. p \in Posts
        BY <1>0
      <3> QED  BY <3>1, <2>e, <2>f
    <2> QED  BY <1>0, <2>1 DEF GuidesInv, GuidesTypeOK
  <1>3. /\ Stored' = Stored /\ Live' = Live /\ RowsKept
        /\ \A g : Comments(g)' = Comments(g)
        /\ \A x \in Stored : IsGuide(x)' <=> IsGuide(x)
    <2>1. Stored' = Stored
      BY <1>0, <1>1, <1>2 DEF Stored
    <2>2. Live' = Live
      BY <1>0, <1>1, <1>2, <2>1, StoredFinite DEF Live
    <2>3. \A x \in Stored : /\ post'[x].kind = post[x].kind
                            /\ post'[x].under = post[x].under
                            /\ post'[x].slug = post[x].slug
      BY <1>1, <1>2, StoredFinite
    <2>4. \A g : Comments(g)' = Comments(g)
      BY <2>2, <2>3, StoredFinite DEF Comments
    <2> QED  BY <2>1, <2>2, <2>3, <2>4 DEF RowsKept, IsGuide
  <1>4. /\ votes' = [votes EXCEPT ![p] = [votes[p] EXCEPT ![q.user] = q.vote]]
        /\ votes'[p] = [votes[p] EXCEPT ![q.user] = q.vote]
        /\ \A x \in Posts \ {p} : votes'[x] = votes[x]
        /\ votes' \in [Posts -> [Users -> VoteTypes \union {None}]]
    BY <1>0 DEF CommitVote, GuidesInv, GuidesTypeOK
  <1>5. /\ call' \in [Calls -> Call] /\ call'[c] = Rest
        /\ OtherCalls(c)
        /\ \A d \in Calls \ {c} : ~call'[d].late =>
              /\ ~call[d].late
              /\ In(d, "commit") =>
                    Recount(call[d]) \intersect Recount(q) = {}
        /\ Underway' \subseteq Underway \ {c}
    <2>1. \A d \in Calls \ {c} : In(d, "commit") => call[d].on \in Live'
      BY <1>3 DEF GuidesInv, CallInv, OpenInv
    <2> QED  BY <1>0, <2>1, CommitCalls
  <1>6. /\ raced' \subseteq Posts \X {"votes", "replies"}
        /\ q.late => <<p, "votes">> \in raced'
        /\ \A x, what : <<x, what>> # <<p, "votes">>
              => (<<x, what>> \in raced' <=> <<x, what>> \in raced)
    BY <1>0, <1>a DEF Commits, GuidesInv, GuidesTypeOK
  <1>7. GuidesTypeOK' /\ Numbered'
    BY <1>0, <1>1, <1>2, <1>3, <1>4, <1>5, <1>6
    DEF GuidesInv, GuidesTypeOK, Numbered
  <1>8. RoomInv'
    BY <1>0, <1>3, <1>5, RoomStays DEF GuidesInv
  <1>9. ASSUME NEW x \in Posts PROVE PostInv(x)'
    <2>1. PostInv(x)
      BY DEF GuidesInv
    <2>2. x \in Stored /\ ~IsGuide(x) =>
             /\ post'[x].under = post[x].under /\ post[x].under \in Stored
      BY <1>3, <2>1 DEF PostInv, RowsKept
    <2>3. x \notin Live => \A u \in Users : votes'[x][u] = None
      BY <1>0, <1>4, <2>1 DEF PostInv
    <2>4. ASSUME x \in Live, <<x, "votes">> \notin raced'
          PROVE  /\ post'[x].counts.up = Sum(votes'[x]).up
                 /\ post'[x].counts.down = Sum(votes'[x]).down
      <3>1. CASE x = p
        <4>1. q.counted = Sum(votes'[p])
          BY <1>0, <1>4, <1>6, <2>4, <3>1 DEF CallInv, TallyInv
        <4> QED  BY <1>1, <1>2, <3>1, <4>1
      <3>2. CASE x # p
        <4>1. <<x, "votes">> \notin raced
          BY <1>6, <2>4, <3>2
        <4> QED  BY <1>2, <1>4, <2>1, <2>4, <3>2, <4>1 DEF PostInv
      <3> QED  BY <3>1, <3>2
    <2>5. ASSUME x \in Live, IsGuide(x), <<x, "replies">> \notin raced'
          PROVE  post'[x].counts.replies = Cardinality(Comments(x))
      <3>1. <<x, "replies">> \notin raced
        BY <1>6, <2>5
      <3>2. post'[x].counts.replies = post[x].counts.replies
        BY <1>1, <1>2
      <3> QED  BY <2>1, <2>5, <3>1, <3>2 DEF PostInv
    <2>6. x \in Live => x \in Stored
      BY StoredFinite
    <2> QED
      BY <1>3, <2>1, <2>2, <2>3, <2>4, <2>5, <2>6 DEF PostInv, Sum
  <1>10. \A d \in Calls : CallInv(d)'
    <2>1. ASSUME NEW d \in Calls \ {c} PROVE TallySame(d)
      <3>1. ASSUME ~call'[d].late, In(d, "commit"), call[d].op \in Ballots
            PROVE  votes'[call[d].on] = votes[call[d].on]
        <4>1. Recount(call[d]) = {<<call[d].on, "votes">>}
          BY <3>1 DEF Recount, Ballots
        <4>2. call[d].on # p
          BY <1>5, <1>a, <3>1, <4>1
        <4>3. call[d].on \in Posts
          BY <3>1, StoredFinite DEF GuidesInv, CallInv, OpenInv
        <4> QED  BY <1>4, <4>2, <4>3
      <3> QED  BY <1>3, <1>5, <3>1 DEF TallySame
    <2> QED  BY <1>0, <1>3, <1>5, <2>1, OthersStay
  <1> QED  BY <1>7, <1>8, <1>9, <1>10 DEF GuidesInv

LEMMA CommitCommentInv ==
    ASSUME GuidesInv, NEW c \in Calls, CommitComment(c)
    PROVE  GuidesInv'
  <1> PICK q : q = call[c]
    OBVIOUS
  <1> PICK g : g = q.on
    OBVIOUS
  <1> PICK r : r = NextId
    OBVIOUS
  <1>0. /\ In(c, "commit") /\ q.pc = "commit" /\ q \in Call /\ CallInv(c)
        /\ q.op = "comment" /\ Commits(c)
        /\ UNCHANGED <<votes, banned, menu>>
        /\ g \in Live /\ g \in Stored /\ g \in Posts /\ IsGuide(g)
        /\ q.user \in Users /\ q.counted \in Counts
        /\ c \in Underway
    <2>1. In(c, "commit") /\ q \in Call /\ CallInv(c)
      BY DEF CommitComment, GuidesInv, GuidesTypeOK
    <2> QED
      BY <2>1, StoredFinite
      DEF CommitComment, In, CallInv, OpenInv, CallForm, Call, Underway
  <1>a. Recount(q) = {<<g, "replies">>}
    BY <1>0 DEF Recount, Ballots
  <1> PICK new : new = NewPost("comment", g, q.user, None)
    OBVIOUS
  <1> PICK row : row = [post[g] EXCEPT !.counts.replies = q.counted.replies]
    OBVIOUS
  <1>b. /\ new \in Post /\ new # None /\ new.kind = "comment"
        /\ new.under = g /\ new.counts = Zero /\ new.gone = FALSE
    <2>1. g \in GuideMaps \union Posts /\ None \in Slugs \union {None}
          /\ "comment" \in {"guide", "comment"}
      BY <1>0
    <2>2. new \in Post /\ new # None
      BY <1>0, <2>1, NewPostRow
    <2> QED  BY <2>2 DEF NewPost
  <1>c. r \in Posts /\ r \notin Stored /\ r # g
    BY <1>0, NextRow DEF GuidesInv
  <1>1. /\ post[g] \in Post /\ row \in Post /\ row # None
        /\ row.kind = post[g].kind /\ row.under = post[g].under
        /\ row.slug = post[g].slug /\ row.gone = post[g].gone
        /\ row.counts.up = post[g].counts.up
        /\ row.counts.down = post[g].counts.down
        /\ row.counts.replies = q.counted.replies
    <2>1. post[g] \in Post
      BY <1>0, PostRow DEF GuidesInv
    <2>2. row \in Post
      BY <1>0, <2>1 DEF Post, Counts
    <2>3. /\ row.kind = post[g].kind /\ row.under = post[g].under
          /\ row.slug = post[g].slug /\ row.gone = post[g].gone
      BY <2>1 DEF Post
    <2>4. /\ row.counts.up = post[g].counts.up
          /\ row.counts.down = post[g].counts.down
          /\ row.counts.replies = q.counted.replies
      BY <2>1 DEF Post, Counts
    <2> QED  BY <2>1, <2>2, <2>3, <2>4, GuideConstants
  <1>d. post' = [post EXCEPT ![r] = new, ![g] = row]
    <2> PICK post1 : post1 = [post EXCEPT ![r] = new]
      OBVIOUS
    <2>a. post' = [post1 EXCEPT ![g].counts.replies = q.counted.replies]
      BY DEF CommitComment
    <2>b. DOMAIN post = Posts /\ post1[g] = post[g]
      BY <1>0, <1>c DEF GuidesInv, GuidesTypeOK
    <2>c. post' = [post1 EXCEPT ![g] = row]
      BY <2>a, <2>b
    <2> QED  BY <2>c
  <1>2. /\ post'[r] = new /\ post'[g] = row
        /\ \A x \in Posts : x # r /\ x # g => post'[x] = post[x]
    BY <1>0, <1>c, <1>d DEF GuidesInv, GuidesTypeOK
  <1>3. /\ Stored' = Stored \union {r} /\ Live' = Live \union {r}
        /\ RowsKept
        /\ Comments(g)' = Comments(g) \union {r}
        /\ \A x \in Posts \ {g} : Comments(x)' = Comments(x)
        /\ ~IsGuide(r)' /\ \A x \in Stored : IsGuide(x)' <=> IsGuide(x)
    <2>1. Stored' = Stored \union {r}
      BY <1>0, <1>b, <1>c, <1>1, <1>2 DEF Stored
    <2>2. Live' = Live \union {r}
      <3>1. r \in Live'
        BY <1>b, <1>2, <2>1 DEF Live
      <3>2. ASSUME NEW x \in Stored PROVE x \in Live' <=> x \in Live
        <4>1. post'[x].gone = post[x].gone
          BY <1>c, <1>1, <1>2, StoredFinite
        <4> QED  BY <2>1, <4>1 DEF Live
      <3>3. Live' \subseteq Stored'
        BY DEF Live
      <3> QED  BY <2>1, <3>1, <3>2, <3>3, StoredFinite
    <2>3. \A x \in Stored : /\ post'[x].kind = post[x].kind
                            /\ post'[x].under = post[x].under
                            /\ post'[x].slug = post[x].slug
      BY <1>c, <1>1, <1>2, StoredFinite
    <2>4. ~IsGuide(r)' /\ \A x \in Stored : IsGuide(x)' <=> IsGuide(x)
      BY <1>b, <1>2, <2>3 DEF IsGuide
    <2>5. Comments(g)' = Comments(g) \union {r}
      <3>1. Comments(g)' = {x \in Live' : /\ post'[x].kind = "comment"
                                          /\ post'[x].under = g}
        BY DEF Comments
      <3> QED
        BY <1>b, <1>c, <1>2, <2>2, <2>3, <3>1, StoredFinite DEF Comments
    <2>6. ASSUME NEW x \in Posts \ {g} PROVE Comments(x)' = Comments(x)
      BY <1>b, <1>c, <1>2, <2>2, <2>3, StoredFinite DEF Comments
    <2>7. RowsKept
      BY <1>c, <2>1, <2>2, <2>3, StoredFinite DEF RowsKept
    <2> QED  BY <2>1, <2>2, <2>4, <2>5, <2>6, <2>7
  <1>5. /\ call' \in [Calls -> Call] /\ call'[c] = Rest
        /\ OtherCalls(c)
        /\ \A d \in Calls \ {c} : ~call'[d].late =>
              /\ ~call[d].late
              /\ In(d, "commit") =>
                    Recount(call[d]) \intersect Recount(q) = {}
        /\ Underway' \subseteq Underway \ {c}
    <2>1. \A d \in Calls \ {c} : In(d, "commit") => call[d].on \in Live'
      BY <1>3 DEF GuidesInv, CallInv, OpenInv
    <2> QED  BY <1>0, <2>1, CommitCalls
  <1>6. /\ raced' \subseteq Posts \X {"votes", "replies"}
        /\ q.late => <<g, "replies">> \in raced'
        /\ \A x, what : <<x, what>> # <<g, "replies">>
              => (<<x, what>> \in raced' <=> <<x, what>> \in raced)
    BY <1>0, <1>a DEF Commits, GuidesInv, GuidesTypeOK
  <1>7. GuidesTypeOK' /\ Numbered' /\ RoomInv'
    <2>1. GuidesTypeOK'
      BY <1>0, <1>b, <1>d, <1>1, <1>5, <1>6 DEF GuidesInv, GuidesTypeOK
    <2> QED  BY <1>0, <1>3, <1>5, <2>1, RowAdded
  <1>9. ASSUME NEW x \in Posts PROVE PostInv(x)'
    <2>1. PostInv(x)
      BY DEF GuidesInv
    <2>2. CASE x = r
      <3>1. \A u \in Users : votes[r][u] = None
        BY <1>c, <2>1, <2>2, StoredFinite DEF PostInv
      <3>2. Sum(votes[r]).up = 0 /\ Sum(votes[r]).down = 0
        BY <3>1, SumNone
      <3>3. post'[r].counts.up = 0 /\ post'[r].counts.down = 0
        BY <1>b, <1>2 DEF Zero
      <3>4. post'[r].under = g /\ IsGuide(g)' /\ g \in Live' /\ g \in Stored'
        BY <1>0, <1>b, <1>2, <1>3
      <3> QED
        BY <1>0, <1>3, <2>2, <3>2, <3>3, <3>4 DEF PostInv, Sum
    <2>3. CASE x # r
      <3>1. x \in Stored /\ ~IsGuide(x) =>
               /\ post'[x].under = post[x].under /\ post[x].under \in Stored
        BY <1>3, <2>1 DEF PostInv, RowsKept
      <3>2. ASSUME x \in Live
            PROVE  /\ post'[x].counts.up = post[x].counts.up
                   /\ post'[x].counts.down = post[x].counts.down
                   /\ x # g => post'[x].counts = post[x].counts
        BY <1>1, <1>2, <2>3
      <3>3. ASSUME x \in Live, IsGuide(x), <<x, "replies">> \notin raced'
            PROVE  post'[x].counts.replies = Cardinality(Comments(x)')
        <4>1. CASE x = g
          <5>1. q.counted.replies = Cardinality(Comments(g)) + 1
            BY <1>0, <1>6, <3>3, <4>1 DEF CallInv, TallyInv
          <5>2. r \notin Comments(g)
            BY <1>c, StoredFinite
          <5>3. Cardinality(Comments(g)') = Cardinality(Comments(g)) + 1
            <6>1. Cardinality(Comments(g) \union {r})
                     = Cardinality(Comments(g)) + 1
              BY <5>2, StoredFinite, FS_AddElement
            <6> QED  BY <1>3, <6>1
          <5> QED  BY <1>1, <1>2, <4>1, <5>1, <5>3
        <4>2. CASE x # g
          <5>1. <<x, "replies">> \notin raced
            BY <1>6, <3>3, <4>2
          <5> QED  BY <1>3, <2>1, <3>2, <3>3, <4>2, <5>1 DEF PostInv
        <4> QED  BY <4>1, <4>2
      <3>4. <<x, "votes">> \in raced' <=> <<x, "votes">> \in raced
        BY <1>6
      <3>5. x \in Stored' <=> x \in Stored
        BY <1>3, <2>3
      <3>6. x \in Live' <=> x \in Live
        BY <1>3, <2>3
      <3>7. x \in Stored /\ ~IsGuide(x) =>
               /\ post'[x].under \in Stored' /\ IsGuide(post[x].under)'
               /\ x \in Live => post'[x].under \in Live'
        <4>1. ASSUME NEW w, w = post[x].under, x \in Stored, ~IsGuide(x)
              PROVE  /\ w \in Stored' /\ post'[w].kind = "guide"
                     /\ x \in Live => w \in Live'
          <5>1. w \in Stored /\ IsGuide(w) /\ (x \in Live => w \in Live)
            BY <2>1, <4>1 DEF PostInv
          <5> QED  BY <1>3, <5>1 DEF RowsKept, IsGuide
        <4> QED  BY <3>1, <4>1 DEF IsGuide
      <3> QED
        BY <1>0, <1>3, <2>1, <3>2, <3>3, <3>4, <3>5, <3>6, <3>7, StoredFinite
        DEF PostInv, Sum
    <2> QED  BY <2>2, <2>3
  <1>10. \A d \in Calls : CallInv(d)'
    <2>1. ASSUME NEW d \in Calls \ {c} PROVE TallySame(d)
      <3>1. ASSUME ~call'[d].late, In(d, "commit"), NEW h,
                   \/ call[d].op = "comment" /\ h = call[d].on
                   \/ /\ call[d].op = "erase" /\ ~IsGuide(call[d].on)
                      /\ h = post[call[d].on].under
            PROVE  Comments(h)' = Comments(h)
        <4>1. Recount(call[d]) = {<<h, "replies">>}
          BY <3>1 DEF Recount, Ballots
        <4>2. h # g
          BY <1>5, <1>a, <3>1, <4>1
        <4>3. h \in Posts
          <5>1. call[d].on \in Stored /\ call[d].on \in Posts
            BY <3>1, StoredFinite DEF GuidesInv, CallInv, OpenInv
          <5> QED  BY <3>1, <5>1, StoredFinite DEF GuidesInv, PostInv
        <4> QED  BY <1>3, <4>2, <4>3
      <3> QED  BY <1>0, <1>5, <3>1 DEF TallySame
    <2> QED  BY <1>0, <1>3, <1>5, <2>1, OthersStay
  <1> QED  BY <1>7, <1>9, <1>10 DEF GuidesInv

(* A deletion is about a row nobody else writes about. *)
LEMMA EraseCall ==
    ASSUME GuidesInv, NEW c \in Calls, CommitErase(c)
    PROVE  LET q == call[c] IN
           /\ In(c, "commit") /\ q \in Call /\ CallInv(c)
           /\ q.op = "erase" /\ Commits(c)
           /\ UNCHANGED <<banned, menu>>
           /\ q.on \in Live /\ q.on \in Stored /\ q.on \in Posts
           /\ post[q.on] \in Post
           /\ q.counted \in Counts
           /\ \A d \in Calls \ {c} : In(d, "commit") =>
                 /\ call[d].on \in Live /\ call[d].on \in Stored
                 /\ call[d].on \in Posts /\ call[d].on # q.on
  <1>1. /\ In(c, "commit") /\ call[c] \in Call /\ CallInv(c)
        /\ call[c].op = "erase" /\ Commits(c) /\ UNCHANGED <<banned, menu>>
    BY DEF CommitErase, GuidesInv, GuidesTypeOK
  <1>2. /\ call[c].on \in Live /\ call[c].on \in Stored /\ call[c].on \in Posts
        /\ Open(call[c].on, Ops) = {c} /\ call[c].counted \in Counts
    BY <1>1, StoredFinite DEF CallInv, OpenInv, Call
  <1>3. ASSUME NEW d \in Calls \ {c}, In(d, "commit")
        PROVE  /\ call[d].on \in Live /\ call[d].on \in Stored
               /\ call[d].on \in Posts /\ call[d].on # call[c].on
    <2>1. call[d].op \in Ops /\ CallInv(d)
      BY DEF GuidesInv, GuidesTypeOK, Call
    <2>2. d \notin Open(call[c].on, Ops)
      BY <1>2
    <2> QED  BY <1>3, <2>1, <2>2, StoredFinite DEF Open, CallInv, OpenInv
  <1>4. post[call[c].on] \in Post
    BY <1>2, PostRow DEF GuidesInv
  <1> QED  BY <1>1, <1>2, <1>3, <1>4

(* A guide goes, with its comments. *)
LEMMA EraseGuideInv ==
    ASSUME GuidesInv, NEW c \in Calls, CommitErase(c), IsGuide(call[c].on)
    PROVE  GuidesInv'
  <1> PICK q : q = call[c]
    OBVIOUS
  <1> PICK p : p = q.on
    OBVIOUS
  <1> PICK gone : gone = {p} \union Comments(p)
    OBVIOUS
  <1>0. /\ In(c, "commit") /\ q \in Call /\ CallInv(c)
        /\ q.op = "erase" /\ Commits(c)
        /\ UNCHANGED <<banned, menu>>
        /\ p \in Live /\ p \in Stored /\ p \in Posts /\ IsGuide(p)
        /\ \A d \in Calls \ {c} : In(d, "commit") =>
              /\ call[d].on \in Live /\ call[d].on \in Stored
              /\ call[d].on \in Posts /\ call[d].on # p
    BY EraseCall
  <1>a. Recount(q) = {}
    BY <1>0 DEF Recount, Ballots
  <1>b. gone \subseteq Live /\ gone \subseteq Stored /\ gone \subseteq Posts
    BY <1>0, StoredFinite
  <1>c. \A x \in gone : x # p => ~IsGuide(x) /\ post[x].under = p
    BY DEF Comments, IsGuide
  <1>1. /\ post' = [x \in Posts |-> IF x \in gone
                                    THEN [post[x] EXCEPT !.gone = TRUE]
                                    ELSE post[x]]
        /\ votes' = [x \in Posts |-> IF x \in gone
                                     THEN [u \in Users |-> None]
                                     ELSE votes[x]]
    BY <1>0 DEF CommitErase, Gone, Forgotten
  <1>2. /\ \A x \in gone : /\ post'[x] \in Post /\ post'[x] # None
                           /\ post'[x].gone
                           /\ post'[x].kind = post[x].kind
                           /\ post'[x].under = post[x].under
                           /\ post'[x].slug = post[x].slug
        /\ \A x \in Posts \ gone : post'[x] = post[x]
    <2>1. ASSUME NEW x \in gone
          PROVE  /\ post'[x] \in Post /\ post'[x] # None
                 /\ post'[x].gone
                 /\ post'[x].kind = post[x].kind
                 /\ post'[x].under = post[x].under
                 /\ post'[x].slug = post[x].slug
      <3>1. post[x] \in Post
        BY <1>b, PostRow DEF GuidesInv
      <3>2. post'[x] = [post[x] EXCEPT !.gone = TRUE]
        BY <1>1, <1>b
      <3>3. post'[x] \in Post
        BY <3>1, <3>2 DEF Post
      <3> QED  BY <3>1, <3>2, <3>3, GuideConstants DEF Post
    <2>2. ASSUME NEW x \in Posts \ gone PROVE post'[x] = post[x]
      BY <1>1
    <2> QED  BY <2>1, <2>2
  <1>3. /\ Stored' = Stored /\ Live' = Live \ gone /\ RowsKept
        /\ \A x \in Posts \ gone : Comments(x)' = Comments(x)
        /\ \A x \in Stored : IsGuide(x)' <=> IsGuide(x)
    <2>1. Stored' = Stored
      BY <1>b, <1>2 DEF Stored
    <2>2. Live' = Live \ gone
      BY <1>b, <1>2, <2>1, StoredFinite DEF Live
    <2>3. \A x \in Stored : /\ post'[x].kind = post[x].kind
                            /\ post'[x].under = post[x].under
                            /\ post'[x].slug = post[x].slug
      BY <1>2, StoredFinite
    <2>4. RowsKept
      BY <2>1, <2>2, <2>3 DEF RowsKept
    <2>5. \A x \in Stored : IsGuide(x)' <=> IsGuide(x)
      BY <2>3 DEF IsGuide
    <2>6. ASSUME NEW x \in Posts \ gone PROVE Comments(x)' = Comments(x)
      <3>1. Comments(x) \intersect gone = {}
        BY <1>0, <1>c DEF Comments, IsGuide
      <3> QED  BY <2>2, <2>3, <3>1, StoredFinite DEF Comments
    <2> QED  BY <2>1, <2>2, <2>4, <2>5, <2>6
  <1>4. /\ votes' \in [Posts -> [Users -> VoteTypes \union {None}]]
        /\ \A x \in Posts \ gone : votes'[x] = votes[x]
        /\ \A x \in gone : \A u \in Users : votes'[x][u] = None
    BY <1>1, <1>b DEF GuidesInv, GuidesTypeOK
  <1>5. \A d \in Calls \ {c} : In(d, "commit") =>
           call[d].on \in Live' /\ call[d].on \in Posts \ gone
    <2>1. ASSUME NEW d \in Calls \ {c}, In(d, "commit")
          PROVE  call[d].on \notin Comments(p)
      <3>1. \A r \in Comments(p) : Open(r, Ops) = {}
        BY <1>0 DEF CommitErase, Blocked
      <3>2. call[d].op \in Ops
        BY DEF GuidesInv, GuidesTypeOK, Call
      <3> QED  BY <2>1, <3>1, <3>2 DEF Open
    <2> QED  BY <1>0, <1>3, <2>1
  <1>6. /\ call' \in [Calls -> Call] /\ call'[c] = Rest
        /\ OtherCalls(c)
        /\ \A d \in Calls \ {c} : ~call'[d].late => ~call[d].late
        /\ Underway' \subseteq Underway \ {c}
    BY <1>0, <1>5, CommitCalls
  <1>7. raced' = raced
    BY <1>0, <1>a DEF Commits
  <1>8. GuidesTypeOK' /\ Numbered'
    <2>1. post' \in [Posts -> Post \union {None}]
      <3>1. \A x \in Posts : post'[x] \in Post \union {None}
        BY <1>2 DEF GuidesInv, GuidesTypeOK
      <3> QED  BY <1>1, <3>1
    <2> QED
      BY <1>0, <1>3, <1>4, <1>6, <1>7, <2>1
      DEF GuidesInv, GuidesTypeOK, Numbered
  <1>9. RoomInv'
    BY <1>0, <1>3, <1>6, RoomStays DEF GuidesInv
  <1>10. ASSUME NEW x \in Posts PROVE PostInv(x)'
    <2>1. PostInv(x)
      BY DEF GuidesInv
    <2>2. x \notin Live' => \A u \in Users : votes'[x][u] = None
      BY <1>3, <1>4, <2>1 DEF PostInv
    <2>3. x \in Stored /\ ~IsGuide(x) =>
             /\ post'[x].under = post[x].under /\ post[x].under \in Stored
             /\ IsGuide(post[x].under)
             /\ x \in Live' => post[x].under \in Live'
      <3>1. x \in Stored /\ ~IsGuide(x) =>
               /\ post'[x].under = post[x].under /\ post[x].under \in Stored
               /\ IsGuide(post[x].under)
               /\ x \in Live => post[x].under \in Live
        BY <1>3, <2>1 DEF PostInv, RowsKept
      <3>2. ASSUME x \in Live', ~IsGuide(x) PROVE post[x].under \notin gone
        <4>1. x \in Live /\ x \in Stored /\ x \notin Comments(p)
          BY <1>3, <3>2, StoredFinite
        <4>2. post[x].under # p
          BY <3>2, <4>1, PostRow DEF Comments, GuidesInv
        <4> QED  BY <1>c, <3>1, <3>2, <4>1, <4>2
      <3> QED  BY <1>3, <3>1, <3>2
    <2>4. ASSUME x \in Live'
          PROVE  /\ x \in Live /\ post'[x] = post[x] /\ votes'[x] = votes[x]
                 /\ Comments(x)' = Comments(x)
      BY <1>2, <1>3, <1>4, <2>4
    <2>5. x \in Stored /\ ~IsGuide(x)' =>
             /\ post'[x].under \in Stored' /\ IsGuide(post[x].under)'
             /\ x \in Live' => post'[x].under \in Live'
      BY <1>3, <2>3 DEF RowsKept, IsGuide
    <2>6. ASSUME x \in Live'
          PROVE  /\ <<x, "votes">> \notin raced'
                       => /\ post'[x].counts.up = Sum(votes[x])'.up
                          /\ post'[x].counts.down = Sum(votes[x])'.down
                 /\ IsGuide(x)' /\ <<x, "replies">> \notin raced'
                       => post'[x].counts.replies = Cardinality(Comments(x)')
      <3>1. x \in Stored /\ (IsGuide(x)' <=> IsGuide(x))
        BY <1>3, <2>4, <2>6, StoredFinite
      <3> QED  BY <1>7, <2>1, <2>4, <2>6, <3>1 DEF PostInv, Sum
    <2> QED  BY <1>3, <2>2, <2>5, <2>6 DEF PostInv
  <1>11. \A d \in Calls : CallInv(d)'
    <2>1. ASSUME NEW d \in Calls \ {c} PROVE TallySame(d)
      <3>1. ASSUME In(d, "commit"), NEW h,
                   \/ call[d].op = "comment" /\ h = call[d].on
                   \/ /\ call[d].op = "erase" /\ ~IsGuide(call[d].on)
                      /\ h = post[call[d].on].under
            PROVE  Comments(h)' = Comments(h)
        <4>1. CASE h = call[d].on
          BY <1>3, <1>5, <3>1, <4>1
        <4>2. CASE ~IsGuide(call[d].on) /\ h = post[call[d].on].under
          <5> PICK e : e = call[d].on
            OBVIOUS
          <5>1. e \in Live /\ e \in Stored /\ e \in Posts /\ e \notin gone
            BY <1>0, <1>5, <3>1
          <5>2. h \in Stored /\ IsGuide(h) /\ h \in Posts
            BY <4>2, <5>1, StoredFinite DEF GuidesInv, PostInv
          <5>3. h # p
            BY <4>2, <5>1, PostRow DEF Comments, GuidesInv
          <5> QED  BY <1>3, <1>c, <5>2, <5>3
        <4> QED  BY <3>1, <4>1, <4>2
      <3>2. In(d, "commit") => votes'[call[d].on] = votes[call[d].on]
        BY <1>4, <1>5
      <3> QED  BY <1>6, <3>1, <3>2 DEF TallySame
    <2> QED  BY <1>0, <1>3, <1>6, <2>1, OthersStay
  <1> QED  BY <1>8, <1>9, <1>10, <1>11 DEF GuidesInv

(* A comment goes, and its guide gets the count. *)
LEMMA EraseCommentInv ==
    ASSUME GuidesInv, NEW c \in Calls, CommitErase(c), ~IsGuide(call[c].on)
    PROVE  GuidesInv'
  <1> PICK q : q = call[c]
    OBVIOUS
  <1> PICK p : p = q.on
    OBVIOUS
  <1> PICK g : g = post[p].under
    OBVIOUS
  <1>0. /\ In(c, "commit") /\ q \in Call /\ CallInv(c) /\ q.pc = "commit"
        /\ q.op = "erase" /\ Commits(c)
        /\ UNCHANGED <<banned, menu>>
        /\ p \in Live /\ p \in Stored /\ p \in Posts /\ ~IsGuide(p)
        /\ post[p] \in Post /\ q.counted \in Counts
        /\ \A d \in Calls \ {c} : In(d, "commit") =>
              /\ call[d].on \in Live /\ call[d].on \in Stored
              /\ call[d].on \in Posts /\ call[d].on # p
    BY EraseCall DEF In
  <1>a. Recount(q) = {<<g, "replies">>}
    BY <1>0 DEF Recount, Ballots
  <1>b. /\ g \in Live /\ g \in Stored /\ g \in Posts /\ IsGuide(g) /\ g # p
        /\ post[g] \in Post /\ p \in Comments(g)
    <2>1. g \in Stored /\ IsGuide(g) /\ g \in Live
      BY <1>0 DEF GuidesInv, PostInv
    <2>2. post[p].kind = "comment"
      BY <1>0, PostRow DEF GuidesInv
    <2> QED
      BY <1>0, <2>1, <2>2, StoredFinite, PostRow DEF Comments, GuidesInv
  <1>x. PICK old : old = [post[p] EXCEPT !.gone = TRUE]
    OBVIOUS
  <1>y. PICK row : row = [post[g] EXCEPT !.counts.replies = q.counted.replies]
    OBVIOUS
  <1>c. /\ old \in Post /\ old # None /\ old.gone
        /\ old.kind = post[p].kind /\ old.under = post[p].under
        /\ old.slug = post[p].slug
    <2>1. old \in Post
      BY <1>0, <1>x DEF Post
    <2> QED  BY <1>0, <1>x, <2>1, GuideConstants DEF Post
  <1>1. /\ row \in Post /\ row # None
        /\ row.kind = post[g].kind /\ row.under = post[g].under
        /\ row.slug = post[g].slug /\ row.gone = post[g].gone
        /\ row.counts.up = post[g].counts.up
        /\ row.counts.down = post[g].counts.down
        /\ row.counts.replies = q.counted.replies
    <2>1. row \in Post
      BY <1>0, <1>b, <1>y DEF Post, Counts
    <2>2. /\ row.kind = post[g].kind /\ row.under = post[g].under
          /\ row.slug = post[g].slug /\ row.gone = post[g].gone
      BY <1>b, <1>y DEF Post
    <2>3. /\ row.counts.up = post[g].counts.up
          /\ row.counts.down = post[g].counts.down
          /\ row.counts.replies = q.counted.replies
      BY <1>b, <1>y DEF Post, Counts
    <2> QED  BY <2>1, <2>2, <2>3, GuideConstants
  <1>z. PICK left : left = [x \in Posts |-> IF x \in {p}
                                          THEN [post[x] EXCEPT !.gone = TRUE]
                                          ELSE post[x]]
    OBVIOUS
  <1>d. post' = [left EXCEPT ![g] = row]
    <2>1. Gone(p) = {p}
      BY <1>0 DEF Gone
    <2>2. post' = [left EXCEPT ![g].counts.replies = q.counted.replies]
      BY <1>0, <1>z, <2>1 DEF CommitErase
    <2>3. left[g] = post[g]
      BY <1>b, <1>z
    <2> QED  BY <1>y, <2>2, <2>3
  <1>e. /\ DOMAIN left = Posts /\ left[p] = old
        /\ \A x \in Posts : x # p => left[x] = post[x]
    BY <1>0, <1>x, <1>z
  <1>2. /\ post'[p] = old /\ post'[g] = row
        /\ \A x \in Posts : x # p /\ x # g => post'[x] = post[x]
    <2>1. post'[p] = old /\ post'[g] = row
      BY <1>0, <1>b, <1>d, <1>e
    <2>2. ASSUME NEW x \in Posts, x # p, x # g PROVE post'[x] = post[x]
      <3>1. post'[x] = left[x]
        BY <1>d, <1>e, <2>2
      <3> QED  BY <1>e, <2>2, <3>1
    <2> QED  BY <2>1, <2>2
  <1>f. post' \in [Posts -> Post \union {None}]
    <2>1. \A x \in Posts : post'[x] \in Post \union {None}
      BY <1>c, <1>1, <1>2 DEF GuidesInv, GuidesTypeOK
    <2>2. post' = [x \in Posts |-> post'[x]]
      BY <1>d, <1>e
    <2> QED  BY <2>1, <2>2
  <1>3. /\ Stored' = Stored /\ Live' = Live \ {p} /\ RowsKept
        /\ Comments(g)' = Comments(g) \ {p}
        /\ \A x \in Posts \ {g} : Comments(x)' = Comments(x)
        /\ \A x \in Stored : IsGuide(x)' <=> IsGuide(x)
    <2>1. Stored' = Stored
      BY <1>0, <1>b, <1>c, <1>1, <1>2 DEF Stored
    <2>2. Live' = Live \ {p}
      <3>1. p \notin Live'
        BY <1>c, <1>2 DEF Live
      <3>2. ASSUME NEW x \in Stored, x # p PROVE x \in Live' <=> x \in Live
        <4>1. post'[x].gone = post[x].gone
          BY <1>1, <1>2, <3>2, StoredFinite
        <4> QED  BY <2>1, <4>1 DEF Live
      <3>3. Live' \subseteq Stored'
        BY DEF Live
      <3> QED  BY <2>1, <3>1, <3>2, <3>3, StoredFinite
    <2>3. \A x \in Stored : /\ post'[x].kind = post[x].kind
                            /\ post'[x].under = post[x].under
                            /\ post'[x].slug = post[x].slug
      BY <1>c, <1>1, <1>2, StoredFinite
    <2>4. RowsKept
      BY <2>1, <2>2, <2>3 DEF RowsKept
    <2>5. \A x \in Stored : IsGuide(x)' <=> IsGuide(x)
      BY <2>3 DEF IsGuide
    <2>6. Comments(g)' = Comments(g) \ {p}
      <3>1. Comments(g)' = {x \in Live' : /\ post'[x].kind = "comment"
                                          /\ post'[x].under = g}
        BY DEF Comments
      <3> QED  BY <2>2, <2>3, <3>1, StoredFinite DEF Comments
    <2>7. ASSUME NEW x \in Posts \ {g} PROVE Comments(x)' = Comments(x)
      BY <2>2, <2>3, StoredFinite DEF Comments
    <2> QED  BY <2>1, <2>2, <2>4, <2>5, <2>6, <2>7
  <1>4. /\ votes' \in [Posts -> [Users -> VoteTypes \union {None}]]
        /\ \A x \in Posts \ {p} : votes'[x] = votes[x]
        /\ \A u \in Users : votes'[p][u] = None
    <2>1. votes' = [x \in Posts |-> IF x \in {p} THEN [u \in Users |-> None]
                                    ELSE votes[x]]
      BY <1>0 DEF CommitErase, Gone, Forgotten
    <2> QED  BY <1>0, <2>1 DEF GuidesInv, GuidesTypeOK
  <1>5. \A d \in Calls \ {c} : In(d, "commit") =>
           call[d].on \in Live' /\ call[d].on \in Posts \ {p}
    BY <1>0, <1>3
  <1>6. /\ call' \in [Calls -> Call] /\ call'[c] = Rest
        /\ OtherCalls(c)
        /\ \A d \in Calls \ {c} : ~call'[d].late =>
              /\ ~call[d].late
              /\ In(d, "commit") =>
                    Recount(call[d]) \intersect Recount(q) = {}
        /\ Underway' \subseteq Underway \ {c}
    BY <1>0, <1>5, CommitCalls
  <1>7. /\ raced' \subseteq Posts \X {"votes", "replies"}
        /\ q.late => <<g, "replies">> \in raced'
        /\ \A x, what : <<x, what>> # <<g, "replies">>
              => (<<x, what>> \in raced' <=> <<x, what>> \in raced)
    BY <1>0, <1>a, <1>b DEF Commits, GuidesInv, GuidesTypeOK
  <1>8. GuidesTypeOK' /\ Numbered' /\ RoomInv'
    <2>1. GuidesTypeOK' /\ Numbered'
      BY <1>0, <1>f, <1>3, <1>4, <1>6, <1>7
      DEF GuidesInv, GuidesTypeOK, Numbered
    <2>2. RoomInv'
      BY <1>0, <1>3, <1>6, RoomStays DEF GuidesInv
    <2> QED  BY <2>1, <2>2
  <1>9. ASSUME NEW x \in Posts PROVE PostInv(x)'
    <2>1. PostInv(x)
      BY DEF GuidesInv
    <2>2. x \notin Live' => \A u \in Users : votes'[x][u] = None
      BY <1>3, <1>4, <2>1 DEF PostInv
    <2>3. x \in Stored /\ ~IsGuide(x)' =>
             /\ post'[x].under \in Stored' /\ IsGuide(post[x].under)'
             /\ x \in Live' => post'[x].under \in Live'
      <3>1. x \in Stored /\ ~IsGuide(x) =>
               /\ post'[x].under = post[x].under /\ post[x].under \in Stored
               /\ IsGuide(post[x].under) /\ post[x].under # p
               /\ x \in Live => post[x].under \in Live
        BY <1>0, <1>3, <2>1 DEF PostInv, RowsKept
      <3> QED  BY <1>3, <3>1 DEF RowsKept, IsGuide
    <2>4. ASSUME x \in Live'
          PROVE  /\ x \in Live /\ x \in Stored /\ x # p
                 /\ votes'[x] = votes[x]
                 /\ post'[x].counts.up = post[x].counts.up
                 /\ post'[x].counts.down = post[x].counts.down
                 /\ x # g => /\ post'[x].counts = post[x].counts
                             /\ Comments(x)' = Comments(x)
      BY <1>1, <1>2, <1>3, <1>4, <2>4, StoredFinite
    <2>5. ASSUME x \in Live'
          PROVE  <<x, "votes">> \notin raced'
                    => /\ post'[x].counts.up = Sum(votes[x])'.up
                       /\ post'[x].counts.down = Sum(votes[x])'.down
      <3>1. <<x, "votes">> \in raced' <=> <<x, "votes">> \in raced
        BY <1>7
      <3> QED  BY <2>1, <2>4, <2>5, <3>1 DEF PostInv, Sum
    <2>6. ASSUME x \in Live', IsGuide(x)', <<x, "replies">> \notin raced'
          PROVE  post'[x].counts.replies = Cardinality(Comments(x)')
      <3>1. CASE x = g
        <4>1. q.counted.replies = Cardinality(Comments(g)) - 1
          <5>1. ~q.late
            BY <1>7, <2>6, <3>1
          <5> QED  BY <1>0, <5>1 DEF CallInv, TallyInv
        <4>2. Cardinality(Comments(g) \ {p}) = Cardinality(Comments(g)) - 1
          BY <1>b, StoredFinite, FS_RemoveElement
        <4> QED  BY <1>1, <1>2, <1>3, <3>1, <4>1, <4>2
      <3>2. CASE x # g
        <4>1. <<x, "replies">> \notin raced
          BY <1>7, <2>6, <3>2
        <4>2. IsGuide(x)
          BY <1>3, <2>4, <2>6
        <4> QED  BY <2>1, <2>4, <2>6, <3>2, <4>1, <4>2 DEF PostInv
      <3> QED  BY <3>1, <3>2
    <2> QED  BY <1>3, <2>2, <2>3, <2>5, <2>6 DEF PostInv
  <1>10. \A d \in Calls : CallInv(d)'
    <2>1. ASSUME NEW d \in Calls \ {c} PROVE TallySame(d)
      <3>1. ASSUME ~call'[d].late, In(d, "commit"), NEW h,
                   \/ call[d].op = "comment" /\ h = call[d].on
                   \/ /\ call[d].op = "erase" /\ ~IsGuide(call[d].on)
                      /\ h = post[call[d].on].under
            PROVE  Comments(h)' = Comments(h)
        <4>1. Recount(call[d]) = {<<h, "replies">>}
          BY <3>1 DEF Recount, Ballots
        <4>2. h # g
          BY <1>6, <1>a, <3>1, <4>1
        <4>3. h \in Posts
          <5>1. call[d].on \in Stored /\ call[d].on \in Posts
            BY <1>0, <3>1
          <5> QED  BY <3>1, <5>1, StoredFinite DEF GuidesInv, PostInv
        <4> QED  BY <1>3, <4>2, <4>3
      <3>2. In(d, "commit") => votes'[call[d].on] = votes[call[d].on]
        BY <1>4, <1>5
      <3> QED  BY <1>6, <3>1, <3>2 DEF TallySame
    <2> QED  BY <1>0, <1>3, <1>6, <2>1, OthersStay
  <1> QED  BY <1>8, <1>9, <1>10 DEF GuidesInv

-----------------------------------------------------------------------------
LEMMA GuidesStart ==
    ASSUME NEW m \in GuideMaps, NEW author \in Users, NEW t \in Titles,
           NEW other \in Users \union {None}, NEW kinds \in Menus,
           GuidesInit(m, author, t, other, kinds)
    PROVE  GuidesInv
  <1>x. PICK guide : guide = [NewPost("guide", m, author, t) EXCEPT
                      !.counts.replies = IF other = None THEN 0 ELSE 1]
    OBVIOUS
  <1>y. PICK comment : comment = NewPost("comment", 1, other, None)
    OBVIOUS
  <1>0. /\ MaxCalls \in Nat /\ Posts = 1..(MaxCalls + 2)
        /\ 1 \in Posts /\ 2 \in Posts /\ None \notin Users
    BY GuideConstants
  <1>1. /\ guide \in Post /\ guide # None /\ guide.kind = "guide"
        /\ guide.under = m /\ guide.gone = FALSE /\ guide.slug = t
        /\ guide.counts.up = 0 /\ guide.counts.down = 0
        /\ guide.counts.replies = IF other = None THEN 0 ELSE 1
    <2> PICK new : new = NewPost("guide", m, author, t)
      OBVIOUS
    <2>1. t \in Slugs
      <3>1. Slug(t, 0) \in Slugs
        BY <1>0, SlugType
      <3> QED  BY <3>1 DEF Slug
    <2>2. new \in Post
      <3>1. /\ m \in GuideMaps \union Posts /\ t \in Slugs \union {None}
            /\ "guide" \in {"guide", "comment"}
        BY <2>1
      <3> QED  BY <3>1, NewPostRow
    <2>3. guide = [new EXCEPT !.counts.replies =
                      IF other = None THEN 0 ELSE 1]
      BY <1>x
    <2>4. guide \in Post
      BY <2>2, <2>3 DEF Post, Counts
    <2>5. /\ new.kind = "guide" /\ new.under = m /\ new.gone = FALSE
          /\ new.slug = t /\ new.counts = Zero
      BY DEF NewPost
    <2>6. /\ guide.kind = "guide" /\ guide.under = m /\ guide.gone = FALSE
          /\ guide.slug = t
      BY <2>2, <2>3, <2>5 DEF Post
    <2>7. guide.counts = [Zero EXCEPT !.replies =
                             IF other = None THEN 0 ELSE 1]
      BY <2>2, <2>3, <2>5 DEF Post
    <2>8. /\ guide.counts.up = 0 /\ guide.counts.down = 0
          /\ guide.counts.replies = IF other = None THEN 0 ELSE 1
      BY <2>7 DEF Zero
    <2> QED  BY <2>4, <2>6, <2>8, GuideConstants
  <1>2. other # None =>
           /\ comment \in Post /\ comment # None /\ comment.kind = "comment"
           /\ comment.under = 1 /\ comment.gone = FALSE
           /\ comment.counts.up = 0 /\ comment.counts.down = 0
    <2> HAVE other # None
    <2>1. /\ 1 \in GuideMaps \union Posts /\ None \in Slugs \union {None}
          /\ "comment" \in {"guide", "comment"} /\ other \in Users
      BY <1>0
    <2>2. comment \in Post /\ comment # None
      BY <1>y, <2>1, NewPostRow
    <2>3. /\ comment.kind = "comment" /\ comment.under = 1
          /\ comment.gone = FALSE /\ comment.counts = Zero
      BY <1>y DEF NewPost
    <2> QED  BY <2>2, <2>3 DEF Zero
  <1>3. /\ post[1] = guide
        /\ post[2] = IF other # None THEN comment ELSE None
        /\ \A p \in Posts : p # 1 /\ p # 2 => post[p] = None
        /\ post \in [Posts -> Post \union {None}]
    <2>1. post = [p \in Posts |->
                    CASE p = 1 -> guide
                      [] p = 2 /\ other # None -> comment
                      [] OTHER -> None]
      BY <1>x, <1>y DEF GuidesInit
    <2> QED  BY <1>0, <1>1, <1>2, <2>1
  <1>4. /\ 1 \in Stored /\ 1 \in Live /\ IsGuide(1)
        /\ Stored = (IF other = None THEN {1} ELSE {1, 2})
        /\ Live = Stored
        /\ Comments(1) = (IF other = None THEN {} ELSE {2})
    <2>1. Stored = (IF other = None THEN {1} ELSE {1, 2})
      BY <1>0, <1>1, <1>2, <1>3 DEF Stored
    <2>2. Live = Stored
      BY <1>1, <1>2, <1>3, <2>1 DEF Live
    <2>3. Comments(1) = (IF other = None THEN {} ELSE {2})
      BY <1>1, <1>2, <1>3, <2>1, <2>2 DEF Comments
    <2> QED  BY <1>1, <1>3, <2>1, <2>2, <2>3 DEF IsGuide
  <1>5. /\ other = None => Cardinality(Stored) = 1
        /\ other # None => Cardinality(Stored) = 2
        /\ Cardinality(Comments(1)) = (IF other = None THEN 0 ELSE 1)
    <2>1. Cardinality({1}) = 1 /\ Cardinality({2}) = 1
      BY FS_Singleton
    <2>2. Cardinality({1, 2}) = 2
      <3>1. {1, 2} = {1} \union {2}
        OBVIOUS
      <3>2. IsFiniteSet({1})
        BY FS_Singleton
      <3>3. 2 \notin {1}
        OBVIOUS
      <3>4. Cardinality({1} \union {2}) = Cardinality({1}) + 1
        BY <3>2, <3>3, FS_AddElement
      <3> QED  BY <2>1, <3>1, <3>4
    <2>3. Cardinality({}) = 0
      BY FS_EmptySet
    <2> QED  BY <1>4, <2>1, <2>2, <2>3
  <1>6. /\ call = [c \in Calls |-> Rest] /\ Underway = {}
        /\ \A c \in Calls : call[c] = Rest
    BY RestCall DEF GuidesInit, Underway, In
  <1>7. GuidesTypeOK
    <2>1. menu \in Seq(SUBSET (Ops \union {"ban"}))
      BY GuidesAssumption DEF GuidesInit
    <2>2. /\ votes \in [Posts -> [Users -> VoteTypes \union {None}]]
          /\ banned = {} /\ raced = {}
      BY DEF GuidesInit
    <2>3. call \in [Calls -> Call]
      BY <1>6, RestCall
    <2> QED  BY <1>3, <2>1, <2>2, <2>3 DEF GuidesTypeOK
  <1>8. Numbered
    <2>1. {1} = 1..1 /\ {1, 2} = 1..2
      OBVIOUS
    <2> QED  BY <1>4, <1>5, <2>1 DEF Numbered
  <1>9. RoomInv
    <2>1. Len(menu) \in Nat /\ Len(menu) <= MaxCalls
      BY GuidesAssumption, LenProperties DEF GuidesInit
    <2>2. Cardinality(Underway) = 0
      BY <1>6, FS_EmptySet
    <2>3. Cardinality(Stored) \in Nat /\ Cardinality(Stored) <= 2
      BY <1>5
    <2> QED  BY <1>0, <2>1, <2>2, <2>3 DEF RoomInv
  <1>10. ASSUME NEW p \in Posts PROVE PostInv(p)
    <2>1. \A u \in Users : votes[p][u] = None
      BY DEF GuidesInit
    <2>2. Sum(votes[p]).up = 0 /\ Sum(votes[p]).down = 0
      BY <2>1, SumNone
    <2>3. CASE p = 1
      BY <1>1, <1>3, <1>4, <1>5, <2>1, <2>2, <2>3 DEF PostInv
    <2>4. CASE p = 2 /\ other # None
      <3>1. ~IsGuide(p)
        BY <1>2, <1>3, <2>4 DEF IsGuide
      <3> QED
        BY <1>2, <1>3, <1>4, <2>1, <2>2, <2>4, <3>1 DEF PostInv
    <2>5. CASE p \notin Stored
      BY <1>4, <2>1, <2>5 DEF PostInv
    <2> QED  BY <1>4, <2>3, <2>4, <2>5
  <1>11. \A c \in Calls : CallInv(c)
    BY <1>6, RestCall
    DEF CallInv, CallForm, SlugInv, OpenInv, TallyInv, BanInv, In
  <1> QED  BY <1>7, <1>8, <1>9, <1>10, <1>11 DEF GuidesInv

LEMMA GuidesStep ==
    ASSUME GuidesInv, [GuidesNext]_guideVars
    PROVE  GuidesInv'
  <1>1. CASE UNCHANGED guideVars
    <2>1. GuidesTypeOK' /\ Numbered' /\ RoomInv'
      BY <1>1 DEF guideVars, GuidesInv, GuidesTypeOK, Numbered, RoomInv,
                  Stored, Underway, In
    <2>2. \A p \in Posts : PostInv(p)'
      BY <1>1, SamePosts DEF guideVars, GuidesInv, PostInv
    <2>3. ASSUME NEW c \in Calls PROVE CallInv(c)'
      <3>1. CallInv(c) /\ post' = post /\ call' = call /\ votes' = votes
            /\ banned' = banned
        BY <1>1 DEF guideVars, GuidesInv
      <3>2. CallForm(c)' /\ SlugInv(c)'
        BY <3>1, SamePosts, FormKeeps, SlugKeeps DEF CallInv, CallLike
      <3>3. OpenInv(c)' /\ TallyInv(c)' /\ BanInv(c)'
        BY <3>1, SamePosts DEF CallInv, OpenInv, TallyInv, BanInv, In, Open
      <3> QED  BY <3>2, <3>3 DEF CallInv
    <2> QED  BY <2>1, <2>2, <2>3 DEF GuidesInv
  <1>2. ASSUME NEW c \in Calls, AskCreate(c) PROVE GuidesInv'
    BY <1>2, AskCreateInv
  <1>3. ASSUME NEW c \in Calls, AskAbout(c) PROVE GuidesInv'
    BY <1>3, AskAboutInv
  <1>4. ASSUME NEW c \in Calls, Serve(c) PROVE GuidesInv'
    <2>1. CASE CheckBan(c) \/ FindAuthor(c) \/ LookSlug(c)
      BY <2>1, CheckBanInv, FindAuthorInv, LookSlugInv
    <2>2. CASE InsertGuide(c)
      BY <2>2, InsertGuideInv
    <2>3. CASE Cast(c) \/ WriteComment(c) \/ Erase(c)
      BY <2>3, StatementsInv
    <2>4. CASE CommitVote(c)
      BY <2>4, CommitVoteInv
    <2>5. CASE CommitComment(c)
      BY <2>5, CommitCommentInv
    <2>6. CASE CommitErase(c)
      BY <2>6, EraseGuideInv, EraseCommentInv
    <2>7. CASE Abort(c)
      BY <2>7, CallEnds DEF Abort, Deadlocked, In
    <2> QED  BY <1>4, <2>1, <2>2, <2>3, <2>4, <2>5, <2>6, <2>7 DEF Serve
  <1>5. ASSUME NEW c \in Calls, CallFails(c) PROVE GuidesInv'
    BY <1>5, CallEnds DEF CallFails, In
  <1>6. ASSUME NEW u \in Users, Ban(u) \/ Unban(u) PROVE GuidesInv'
    BY <1>6, BansInv
  <1> QED  BY <1>1, <1>2, <1>3, <1>4, <1>5, <1>6 DEF GuidesNext

LEMMA GuidesShow == GuidesInv => GuidesInStep
  <1> SUFFICES ASSUME GuidesInv PROVE GuidesInStep
    OBVIOUS
  <1>1. CountsRight
    <2> SUFFICES ASSUME NEW p \in Live
                 PROVE  /\ <<p, "votes">> \notin raced
                           => [post[p].counts EXCEPT !.replies = 0]
                                 = Sum(votes[p])
                        /\ IsGuide(p) /\ <<p, "replies">> \notin raced
                           => post[p].counts.replies
                                 = Cardinality(Comments(p))
      BY DEF CountsRight
    <2>1. p \in Stored /\ p \in Posts /\ PostInv(p) /\ post[p] \in Post
      BY StoredFinite, PostRow DEF GuidesInv
    <2>2. ASSUME <<p, "votes">> \notin raced
          PROVE  [post[p].counts EXCEPT !.replies = 0] = Sum(votes[p])
      <3>1. /\ post[p].counts \in Counts
            /\ post[p].counts.up = Sum(votes[p]).up
            /\ post[p].counts.down = Sum(votes[p]).down
        BY <2>1, <2>2 DEF PostInv, Post
      <3>2. Sum(votes[p]) \in Counts /\ Sum(votes[p]).replies = 0
        BY SumCounts
      <3> QED  BY <3>1, <3>2 DEF Counts
    <2> QED  BY <2>1, <2>2 DEF PostInv
  <1>2. NoOrphans
    <2>1. \A p \in Stored : PostInv(p)
      BY StoredFinite DEF GuidesInv
    <2> QED  BY <2>1 DEF NoOrphans, PostInv
  <1>3. BansHold
    BY DEF GuidesInv, CallInv, BanInv, BansHold
  <1>4. CreatedOrTaken
    BY DEF GuidesInv, CallInv, SlugInv, CreatedOrTaken, In
  <1> QED  BY <1>1, <1>2, <1>3, <1>4 DEF GuidesInStep

-----------------------------------------------------------------------------
(* The backend *)

(* Whatever the backend is used for, nominations, communities and the      *)
(* browser stay in step.                                                   *)
THEOREM BackendNominations == BackendSpec => []NominationsInStep
  <1>1. BackendInit => NominationsInv
    BY NominationsStart DEF BackendInit
  <1>2. NominationsInv /\ [BackendNext]_backendVars => NominationsInv'
    <2> SUFFICES ASSUME NominationsInv, [BackendNext]_backendVars
                 PROVE  NominationsInv'
      OBVIOUS
    <2>1. [NominationsNext]_nominationVars
      BY DEF BackendNext, backendVars, BesideNotifications, BesideGuides,
             BesideRequests
    <2> QED  BY <2>1, NominationsStep
  <1> QED  BY <1>1, <1>2, InvInStep, PTL DEF BackendSpec

(* Whatever the backend is used for, a subscription is pushed at most once *)
(* each time it is armed, until changes overlap, the backend restarts or a *)
(* query fails.                                                            *)
THEOREM BackendOneShot == BackendSpec => []OneShot
  <1>1. BackendInit => TypeOK /\ ShotInv
    BY TypeStart, ShotStart DEF BackendInit
  <1>2. TypeOK /\ ShotInv /\ [BackendNext]_backendVars => (TypeOK /\ ShotInv)'
    <2> SUFFICES ASSUME TypeOK, ShotInv, [BackendNext]_backendVars
                 PROVE  (TypeOK /\ ShotInv)'
      OBVIOUS
    <2>1. [Next]_vars
      BY DEF BackendNext, backendVars, BesideNotifications, BesideGuides,
             BesideRequests
    <2> QED  BY <2>1, TypeStep, ShotStep
  <1>3. TypeOK /\ ShotInv => OneShot
    BY DEF ShotInv, OneShot, RowInv
  <1> QED  BY <1>1, <1>2, <1>3, PTL DEF BackendSpec

(* Whatever the backend is used for and whatever fails, a row that is      *)
(* there was pushed at most once for each map change since it was armed.   *)
THEOREM BackendOncePerChange == BackendSpec => []OncePerChange
  <1>1. BackendInit => TypeOK /\ CountInv
    BY TypeStart, CountStart DEF BackendInit
  <1>2. TypeOK /\ CountInv /\ [BackendNext]_backendVars
           => (TypeOK /\ CountInv)'
    <2> SUFFICES ASSUME TypeOK, CountInv, [BackendNext]_backendVars
                 PROVE  (TypeOK /\ CountInv)'
      OBVIOUS
    <2>1. [Next]_vars
      BY DEF BackendNext, backendVars, BesideNotifications, BesideGuides,
             BesideRequests
    <2> QED  BY <2>1, TypeStep, CountStep
  <1>3. TypeOK /\ CountInv => OncePerChange
    BY CountBounds
  <1> QED  BY <1>1, <1>2, <1>3, PTL DEF BackendSpec

LEMMA BackendBegins == BackendInit => GuidesInv
  <1> SUFFICES ASSUME BackendInit PROVE GuidesInv
    OBVIOUS
  <1>1. PICK b \in OnlyIf("guides", Begun), m \in OnlyIf("guides", Menus) :
           GuidesInit(b[1], b[2], b[3], b[4], m)
    BY DEF BackendInit
  <1>2. b \in Begun /\ m \in Menus
    BY PartsAssumption DEF OnlyIf
  <1>3. /\ b[1] \in GuideMaps /\ b[2] \in Users /\ b[3] \in Titles
        /\ b[4] \in Users \union {None}
    BY <1>2, PartsAssumption
  <1> QED  BY <1>1, <1>2, <1>3, GuidesStart

LEMMA BackendGoesOn ==
    GuidesInv /\ [BackendNext]_backendVars => GuidesInv'
  <1> SUFFICES ASSUME GuidesInv, [BackendNext]_backendVars PROVE GuidesInv'
    OBVIOUS
  <1>1. [GuidesNext]_guideVars
    BY DEF BackendNext, backendVars, BesideNotifications, BesideGuides,
           BesideRequests
  <1> QED  BY <1>1, GuidesStep

(***************************************************************************)
(* Whatever requests for guides overlap, wait for each other's rows, fail  *)
(* or are rolled back: counts are those of the votes and comments unless   *)
(* two recounts overlapped, nothing is left of what was deleted, the       *)
(* banned write nothing new, and a valid guide is refused only for a slug  *)
(* that is taken.                                                          *)
(***************************************************************************)
THEOREM BackendGuides == BackendSpec => []GuidesInStep
  BY BackendBegins, BackendGoesOn, GuidesShow, PTL DEF BackendSpec

(* The rows, calls and histories of every group have their types, however  *)
(* many requests there are.                                                *)
THEOREM BackendTyping == BackendSpec => []BackendTypeOK
  <1>1. BackendInit => TypeOK /\ NominationsInv /\ BoundInv
    BY TypeStart, NominationsStart, BoundStart DEF BackendInit
  <1>2. TypeOK /\ NominationsInv /\ BoundInv /\ [BackendNext]_backendVars
           => (TypeOK /\ NominationsInv /\ BoundInv)'
    <2> SUFFICES ASSUME TypeOK, NominationsInv, BoundInv,
                        [BackendNext]_backendVars
                 PROVE  (TypeOK /\ NominationsInv /\ BoundInv)'
      OBVIOUS
    <2>1. [Next]_vars /\ [NominationsNext]_nominationVars
      BY DEF BackendNext, backendVars, BesideNotifications, BesideGuides,
             BesideRequests
    <2> QED  BY <2>1, TypeStep, NominationsStep, BoundStep
  <1>3. TypeOK /\ GuidesInv /\ BoundInv => BackendTypeOK
    BY DEF BackendTypeOK, GuidesInv, BoundInv
  <1> QED  BY <1>1, <1>2, <1>3, BackendBegins, BackendGoesOn, PTL DEF BackendSpec
=============================================================================
