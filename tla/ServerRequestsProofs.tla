------------------------ MODULE ServerRequestsProofs ------------------------
(***************************************************************************)
(* Whatever reviews overlap and wherever they stop, what is approved is    *)
(* tracked, what is tracked has a community, and a second community comes  *)
(* only of a repeated approval: theorem NominationsStayInStep.             *)
(***************************************************************************)
EXTENDS ServerRequests, SequenceTheorems, FiniteSetTheorems, TLAPS

-----------------------------------------------------------------------------
(* What an admin's review has done, by its place. *)

Listed(s) == {s[i] : i \in DOMAIN s}

Types ==
    /\ nomination \in [Nominations -> Verdicts \union {"pending", None}]
    /\ community \in [Nominations -> Nat]
    /\ review \in [Admins -> Review]

(* Every server of the request is in the browser, or still to do. *)
Placed(r, todo) ==
    \A e \in EntriesOf(r) : Tracked(e) \in browser \/ e \in Listed(todo)

AllTracked(r) == \A e \in EntriesOf(r) : Tracked(e) \in browser

ReviewInv(a) ==
    LET v == review[a] IN
    /\ v.pc \in {"read", "community", "servers"} => v.verdict = "approved"
    /\ v.pc = "community" => v.todo = Entries[v.of]
    /\ v.pc = "servers" => /\ community[v.of] > 0
                           /\ v.todo # <<>>
                           /\ Listed(v.todo) \subseteq EntriesOf(v.of)
                           /\ Placed(v.of, v.todo)
    /\ v.pc = "status" /\ v.verdict = "approved"
          => community[v.of] > 0 /\ AllTracked(v.of)

ApprovedInv ==
    \A r \in Nominations :
        nomination[r] = "approved" => community[r] > 0 /\ AllTracked(r)

(* One approval has got, or is about to get, the community. *)
SingleInv ==
    \A r \in Nominations \ repeated :
        /\ community[r] <= 1
        /\ \A a, b \in Approving(r) : a = b
        /\ \A a \in Approving(r) :
              review[a].pc = "community" => community[r] = 0

NominationsInv ==
    /\ Types
    /\ \A a \in Admins : ReviewInv(a)
    /\ ApprovedInv
    /\ TrackedHasCommunity
    /\ SingleInv

-----------------------------------------------------------------------------
LEMMA EntriesListed ==
    ASSUME NEW r \in Nominations
    PROVE  /\ Entries[r] \in Seq(AllEntries)
           /\ Entries[r] # <<>>
           /\ Listed(Entries[r]) = EntriesOf(r)
  <1>1. Entries[r] \in Seq(AllEntries) /\ Len(Entries[r]) > 0
    BY NominationsAssumption
  <1>2. Entries[r] # <<>>
    BY <1>1, EmptySeq
  <1> QED  BY <1>1, <1>2 DEF Listed, EntriesOf

(* The servers of a loop are the one that is next and those after it. *)
LEMMA HeadAndTail ==
    ASSUME NEW S, NEW s \in Seq(S), s # <<>>
    PROVE  /\ Tail(s) \in Seq(S)
           /\ Head(s) \in Listed(s)
           /\ Listed(s) = {Head(s)} \union Listed(Tail(s))
           /\ Len(s) = 1 => Listed(Tail(s)) = {}
           /\ Len(s) # 1 => Tail(s) # <<>>
  <1>1. Len(s) \in Nat /\ Len(s) > 0 /\ DOMAIN s = 1..Len(s)
    BY LenProperties, EmptySeq
  <1>2. /\ Tail(s) \in Seq(S)
        /\ DOMAIN Tail(s) = 1..(Len(s) - 1)
        /\ Len(Tail(s)) = Len(s) - 1
        /\ \A i \in 1..(Len(s) - 1) : Tail(s)[i] = s[i + 1]
    BY HeadTailProperties, LenProperties
  <1>8. Head(s) = s[1]
    BY <1>1
  <1>3. Head(s) \in Listed(s)
    BY <1>1, <1>8 DEF Listed
  <1>4. Listed(s) \subseteq {Head(s)} \union Listed(Tail(s))
    <2> SUFFICES ASSUME NEW i \in 1..Len(s), i # 1
                 PROVE  s[i] \in Listed(Tail(s))
      BY <1>1, <1>8 DEF Listed
    <2>1. i - 1 \in 1..(Len(s) - 1) /\ (i - 1) + 1 = i
      BY <1>1
    <2> QED  BY <2>1, <1>2 DEF Listed
  <1>5. Listed(Tail(s)) \subseteq Listed(s)
    <2> SUFFICES ASSUME NEW i \in 1..(Len(s) - 1)
                 PROVE  s[i + 1] \in Listed(s)
      BY <1>2 DEF Listed
    <2>1. i + 1 \in 1..Len(s)
      BY <1>1
    <2> QED  BY <2>1, <1>1 DEF Listed
  <1>6. Len(s) = 1 => Listed(Tail(s)) = {}
    BY <1>2 DEF Listed
  <1>7. Len(s) # 1 => Tail(s) # <<>>
    <2>1. Tail(s) = <<>> => Len(Tail(s)) = 0
      BY EmptySeq
    <2> QED  BY <2>1, <1>1, <1>2
  <1> QED  BY <1>2, <1>3, <1>4, <1>5, <1>6, <1>7

(* A review that is left alone stays true: nothing of what it relies on is *)
(* ever taken back.                                                        *)
LEMMA OthersKeep ==
    ASSUME NEW a \in Admins, ReviewInv(a), Types,
           review'[a] = review[a],
           browser \subseteq browser',
           \A r \in Nominations : community[r] > 0 => community'[r] > 0
    PROVE  ReviewInv(a)'
  <1>1. review[a].of \in Nominations
    BY DEF Types, Review
  <1> QED
    BY <1>1 DEF ReviewInv, Placed, AllTracked

(* What was approved stays so when only more is inserted. *)
LEMMA ApprovedKeeps ==
    ASSUME ApprovedInv, nomination' = nomination,
           browser \subseteq browser',
           \A r \in Nominations : community[r] > 0 => community'[r] > 0
    PROVE  ApprovedInv'
  BY DEF ApprovedInv, AllTracked

(* Steps that let nobody begin to approve keep approvals apart. *)
LEMMA SingleKeeps ==
    ASSUME SingleInv, community' = community, repeated' = repeated,
           \A a \in Admins :
               review'[a].pc \in {"community", "servers"} =>
                   /\ review'[a].of = review[a].of
                   /\ review[a].pc \in {"community", "servers"}
                   /\ review'[a].pc = "community" => review[a].pc = "community"
    PROVE  SingleInv'
  <1> SUFFICES ASSUME NEW r \in Nominations, r \notin repeated
               PROVE  /\ community[r] <= 1
                      /\ \A a, b \in Approving(r)' : a = b
                      /\ \A a \in Approving(r)' :
                            review'[a].pc = "community" => community[r] = 0
    BY DEF SingleInv
  <1>1. Approving(r)' \subseteq Approving(r)
    BY DEF Approving
  <1> QED  BY <1>1 DEF SingleInv, Approving

LEMMA NoReviewIdle ==
    NoReview \in Review /\ NoReview.pc = "idle"
  <1>1. <<>> \in Seq(AllEntries)
    BY EmptySeq
  <1>2. \E r \in Nominations : TRUE
    BY NominationsAssumption
  <1> QED  BY <1>1, <1>2 DEF NoReview, Review, ReviewPlaces, Verdicts

LEMMA NominationsStart == NominationsInit => NominationsInv
  <1> SUFFICES ASSUME NominationsInit PROVE NominationsInv
    OBVIOUS
  <1>1. Types
    BY NoReviewIdle DEF NominationsInit, Types
  <1>2. \A a \in Admins : ReviewInv(a)
    BY NoReviewIdle DEF NominationsInit, ReviewInv
  <1>3. ApprovedInv
    BY NominationsAssumption DEF NominationsInit, ApprovedInv
  <1>4. TrackedHasCommunity
    BY DEF NominationsInit, TrackedHasCommunity
  <1>5. SingleInv
    BY NoReviewIdle DEF NominationsInit, SingleInv, Approving
  <1> QED  BY <1>1, <1>2, <1>3, <1>4, <1>5 DEF NominationsInv

-----------------------------------------------------------------------------
(* The steps *)

LEMMA SubmitKeeps ==
    ASSUME NominationsInv, NEW r \in Nominations, SubmitRequest(r)
    PROVE  NominationsInv'
  <1> USE DEF NominationsInv
  <1>1. Types'
    BY DEF SubmitRequest, Types
  <1>2. \A a \in Admins : ReviewInv(a)'
    BY OthersKeep DEF SubmitRequest
  <1>3. ApprovedInv'
    BY DEF SubmitRequest, ApprovedInv, AllTracked, Types
  <1>4. TrackedHasCommunity'
    BY DEF SubmitRequest, TrackedHasCommunity
  <1>5. SingleInv'
    BY SingleKeeps DEF SubmitRequest
  <1> QED  BY <1>1, <1>2, <1>3, <1>4, <1>5

LEMMA StartKeeps ==
    ASSUME NominationsInv, NEW a \in Admins, StartReview(a)
    PROVE  NominationsInv'
  <1> USE DEF NominationsInv
  <1> PICK r \in Nominations, v \in Verdicts :
         Goes(a, [pc |-> IF v = "approved" THEN "read" ELSE "status",
                  of |-> r, verdict |-> v, todo |-> <<>>])
    BY DEF StartReview
  <1>1. UNCHANGED <<nomination, community, browser, repeated>>
    BY DEF StartReview
  <1>2. <<>> \in Seq(AllEntries)
    BY EmptySeq
  <1>3. Types'
    BY <1>1, <1>2 DEF Types, Goes, Review, ReviewPlaces, Verdicts
  <1>4. /\ review'[a].pc = IF v = "approved" THEN "read" ELSE "status"
        /\ review'[a].verdict = v
        /\ \A b \in Admins \ {a} : review'[b] = review[b]
    BY DEF Types, Goes
  <1>5. ReviewInv(a)'
    BY <1>4 DEF ReviewInv, Verdicts
  <1>6. \A b \in Admins : ReviewInv(b)'
    BY <1>1, <1>4, <1>5, OthersKeep
  <1>7. ApprovedInv'
    BY <1>1, ApprovedKeeps
  <1>8. TrackedHasCommunity'
    BY <1>1 DEF TrackedHasCommunity
  <1>9. SingleInv'
    BY <1>1, <1>4, SingleKeeps
  <1> QED  BY <1>3, <1>6, <1>7, <1>8, <1>9

LEMMA ReadKeeps ==
    ASSUME NominationsInv, NEW a \in Admins, ReadRequest(a)
    PROVE  NominationsInv'
  <1> USE DEF NominationsInv
  <1> PICK r \in Nominations : r = review[a].of
    BY DEF Types, Review
  <1>1. UNCHANGED <<nomination, community, browser>>
    BY DEF ReadRequest
  <1>2. r \in Nominations /\ review[a] \in Review
    BY DEF Types, Review
  <1>3. /\ review' = [review EXCEPT ![a] =
               [review[a] EXCEPT !.pc = "community", !.todo = Entries[r]]]
        /\ \A b \in Admins \ {a} : review'[b] = review[b]
    BY DEF ReadRequest, Goes, Types
  <1>4. /\ review'[a].pc = "community"
        /\ review'[a].todo = Entries[r]
        /\ review'[a].of = r
        /\ review'[a].verdict = review[a].verdict
        /\ review'[a] \in Review
    BY <1>2, <1>3, EntriesListed DEF Types, Review, ReviewPlaces
  <1>5. Types'
    BY <1>1, <1>3, <1>4 DEF Types
  <1>6. ReviewInv(a)'
    BY <1>4 DEF ReviewInv, ReadRequest
  <1>7. \A b \in Admins : ReviewInv(b)'
    BY <1>1, <1>3, <1>6, OthersKeep
  <1>8. ApprovedInv'
    BY <1>1, ApprovedKeeps
  <1>9. TrackedHasCommunity'
    BY <1>1 DEF TrackedHasCommunity
  <1>10. SingleInv'
    <2>1. \A q \in Nominations \ {r} : Approving(q)' = Approving(q)
      BY <1>3, <1>4 DEF Approving, ReadRequest
    <2>2. repeated \subseteq repeated'
      BY DEF ReadRequest
    <2>3. ASSUME r \notin repeated'
          PROVE  community[r] = 0 /\ Approving(r)' = {a}
      <3>1. ~(community[r] > 0) /\ Approving(r) = {}
        BY <2>3 DEF ReadRequest
      <3>2. community[r] = 0
        BY <1>2, <3>1 DEF Types
      <3>3. Approving(r)' = {a}
        BY <3>1, <1>3, <1>4 DEF Approving
      <3> QED  BY <3>2, <3>3
    <2>4. ASSUME NEW q \in Nominations, q \notin repeated', q # r
          PROVE  /\ community'[q] <= 1
                 /\ \A b, c \in Approving(q)' : b = c
                 /\ \A b \in Approving(q)' :
                       review'[b].pc = "community" => community'[q] = 0
      BY <2>1, <2>2, <2>4, <1>1, <1>3, <1>4 DEF SingleInv, Approving
    <2>5. ASSUME r \notin repeated'
          PROVE  /\ community'[r] <= 1
                 /\ \A b, c \in Approving(r)' : b = c
                 /\ \A b \in Approving(r)' :
                       review'[b].pc = "community" => community'[r] = 0
      BY <2>3, <2>5, <1>1
    <2> QED  BY <2>4, <2>5 DEF SingleInv
  <1> QED  BY <1>5, <1>7, <1>8, <1>9, <1>10

LEMMA CommunityKeeps ==
    ASSUME NominationsInv, NEW a \in Admins, InsertCommunity(a)
    PROVE  NominationsInv'
  <1> USE DEF NominationsInv
  <1> PICK r \in Nominations : r = review[a].of
    BY DEF Types, Review
  <1>1. UNCHANGED <<nomination, browser, repeated>>
    BY DEF InsertCommunity
  <1>2. r \in Nominations /\ review[a] \in Review
    BY DEF Types, Review
  <1>3. /\ \A b \in Admins \ {a} : review'[b] = review[b]
        /\ review' = [review EXCEPT ![a] = [review[a] EXCEPT !.pc = "servers"]]
        /\ community' = [community EXCEPT ![r] = @ + 1]
    BY DEF InsertCommunity, Goes, Types
  <1>4. /\ review'[a].pc = "servers"
        /\ review'[a].todo = Entries[r]
        /\ review'[a].of = r
        /\ review'[a].verdict = "approved"
        /\ review'[a] \in Review
    BY <1>2, <1>3 DEF InsertCommunity, ReviewInv, Types, Review, ReviewPlaces
  <1>5. /\ community'[r] = community[r] + 1
        /\ community[r] \in Nat
        /\ \A q \in Nominations \ {r} : community'[q] = community[q]
    BY <1>2, <1>3 DEF Types
  <1>6. \A q \in Nominations : community[q] > 0 => community'[q] > 0
    BY <1>5
  <1>7. Types'
    BY <1>1, <1>3, <1>4, <1>5 DEF Types
  <1>8. ReviewInv(a)'
    <2>1. /\ Listed(Entries[r]) = EntriesOf(r)
          /\ Entries[r] # <<>>
          /\ community'[r] > 0
      BY <1>2, <1>5, EntriesListed
    <2> QED  BY <2>1, <1>4 DEF ReviewInv, Placed
  <1>9. \A b \in Admins : ReviewInv(b)'
    BY <1>1, <1>3, <1>6, <1>8, OthersKeep
  <1>10. ApprovedInv'
    BY <1>1, <1>6, ApprovedKeeps
  <1>11. TrackedHasCommunity'
    BY <1>1, <1>6 DEF TrackedHasCommunity
  <1>12. SingleInv'
    <2>1. \A q \in Nominations : Approving(q)' = Approving(q)
      BY <1>3, <1>4 DEF Approving, InsertCommunity
    <2>2. a \in Approving(r)
      BY DEF Approving, InsertCommunity
    <2>3. ASSUME r \notin repeated
          PROVE  /\ community[r] = 0
                 /\ \A b \in Approving(r) : b = a
      BY <2>2, <2>3, <1>2 DEF SingleInv, InsertCommunity
    <2>4. ASSUME r \notin repeated
          PROVE  /\ community'[r] <= 1
                 /\ \A b, c \in Approving(r)' : b = c
                 /\ \A b \in Approving(r)' :
                       review'[b].pc = "community" => community'[r] = 0
      BY <2>1, <2>3, <2>4, <1>2, <1>4, <1>5
    <2>5. ASSUME NEW q \in Nominations, q \notin repeated, q # r
          PROVE  /\ community'[q] <= 1
                 /\ \A b, c \in Approving(q)' : b = c
                 /\ \A b \in Approving(q)' :
                       review'[b].pc = "community" => community'[q] = 0
      BY <2>1, <2>5, <1>3, <1>4, <1>5 DEF SingleInv
    <2> QED  BY <2>4, <2>5, <1>1 DEF SingleInv
  <1> QED  BY <1>7, <1>9, <1>10, <1>11, <1>12

LEMMA ServerKeeps ==
    ASSUME NominationsInv, NEW a \in Admins, InsertServer(a)
    PROVE  NominationsInv'
  <1> USE DEF NominationsInv
  <1> PICK r \in Nominations : r = review[a].of
    BY DEF Types, Review
  <1> DEFINE todo == review[a].todo
             place == AfterServer(todo)
  <1>1. /\ UNCHANGED <<nomination, community, repeated>>
        /\ browser' = browser \union {Tracked(Head(todo))}
    BY DEF InsertServer
  <1>2. /\ todo \in Seq(AllEntries)
        /\ review[a] \in Review
        /\ place \in {"servers", "status"}
    BY DEF Types, Review, AfterServer
  <1>3. /\ review' = [review EXCEPT ![a] =
                        [review[a] EXCEPT !.pc = place, !.todo = Tail(todo)]]
        /\ \A b \in Admins \ {a} : review'[b] = review[b]
    BY DEF InsertServer, Goes, Types
  <1>4. /\ review[a].verdict = "approved"
        /\ community[r] > 0
        /\ todo # <<>>
        /\ Listed(todo) \subseteq EntriesOf(r)
        /\ Placed(r, todo)
    BY DEF InsertServer, ReviewInv
  <1>5. /\ Tail(todo) \in Seq(AllEntries)
        /\ Head(todo) \in Listed(todo)
        /\ Listed(todo) = {Head(todo)} \union Listed(Tail(todo))
        /\ Len(todo) = 1 => Listed(Tail(todo)) = {}
        /\ Len(todo) # 1 => Tail(todo) # <<>>
    BY <1>2, <1>4, HeadAndTail
  <1>6. /\ review'[a].pc = place
        /\ review'[a].todo = Tail(todo)
        /\ review'[a].of = r
        /\ review'[a].verdict = "approved"
        /\ review'[a] \in Review
    BY <1>2, <1>3, <1>4, <1>5 DEF Types, Review, ReviewPlaces
  <1>7. Types'
    BY <1>1, <1>3, <1>6 DEF Types
  <1>8. \A e \in EntriesOf(r) :
            Tracked(e) \in browser' \/ e \in Listed(Tail(todo))
    BY <1>1, <1>4, <1>5 DEF Placed
  <1>9. ReviewInv(a)'
    <2>1. CASE Len(todo) = 1
      <3>1. place = "status" /\ \A e \in EntriesOf(r) : Tracked(e) \in browser'
        BY <2>1, <1>5, <1>8 DEF AfterServer
      <3> HIDE DEF place, todo
      <3> QED  BY <3>1, <1>1, <1>4, <1>6 DEF ReviewInv, AllTracked
    <2>2. CASE Len(todo) # 1
      <3>1. place = "servers" /\ Tail(todo) # <<>>
        BY <2>2, <1>5 DEF AfterServer
      <3> HIDE DEF place, todo
      <3> QED  BY <3>1, <1>1, <1>4, <1>5, <1>6, <1>8 DEF ReviewInv, Placed
    <2> QED  BY <2>1, <2>2
  <1>10. \A b \in Admins : ReviewInv(b)'
    BY <1>1, <1>3, <1>9, OthersKeep
  <1>11. ApprovedInv'
    BY <1>1, ApprovedKeeps
  <1>12. TrackedHasCommunity'
    <2>1. Head(todo) \in EntriesOf(r)
      BY <1>4, <1>5
    <2> QED  BY <2>1, <1>1, <1>2, <1>4 DEF TrackedHasCommunity
  <1>13. SingleInv'
    <2>1. review[a].pc = "servers"
      BY DEF InsertServer
    <2> HIDE DEF place, todo
    <2>2. review'[a].pc # "community" /\ review'[a].of = review[a].of
      BY <1>2, <1>6
    <2> QED  BY <2>1, <2>2, <1>1, <1>3, SingleKeeps
  <1> QED  BY <1>7, <1>10, <1>11, <1>12, <1>13

LEMMA StatusKeeps ==
    ASSUME NominationsInv, NEW a \in Admins, SetStatus(a)
    PROVE  NominationsInv'
  <1> USE DEF NominationsInv
  <1>1. UNCHANGED <<community, browser, repeated>>
    BY DEF SetStatus
  <1>2. review[a] \in Review
    BY DEF Types
  <1>3. /\ review'[a] = NoReview
        /\ \A b \in Admins \ {a} : review'[b] = review[b]
        /\ review' \in [Admins -> Review]
    BY NoReviewIdle DEF SetStatus, Goes, Types
  <1>4. Types'
    BY <1>1, <1>2, <1>3 DEF Types, SetStatus, Review
  <1>5. \A b \in Admins : ReviewInv(b)'
    <2>1. ReviewInv(a)'
      BY <1>3, NoReviewIdle DEF ReviewInv
    <2> QED  BY <2>1, <1>1, <1>3, OthersKeep
  <1>6. ApprovedInv'
    BY <1>1, <1>2 DEF SetStatus, ReviewInv, ApprovedInv, AllTracked, Types,
                        Review
  <1>7. TrackedHasCommunity'
    BY <1>1 DEF TrackedHasCommunity
  <1>8. SingleInv'
    BY <1>1, <1>3, NoReviewIdle, SingleKeeps
  <1> QED  BY <1>4, <1>5, <1>6, <1>7, <1>8

LEMMA FailKeeps ==
    ASSUME NominationsInv, NEW a \in Admins, ReviewFails(a)
    PROVE  NominationsInv'
  <1> USE DEF NominationsInv
  <1>1. UNCHANGED <<nomination, community, browser, repeated>>
    BY DEF ReviewFails
  <1>2. /\ review'[a] = NoReview
        /\ \A b \in Admins \ {a} : review'[b] = review[b]
        /\ review' \in [Admins -> Review]
    BY NoReviewIdle DEF ReviewFails, Goes, Types
  <1>3. Types'
    BY <1>1, <1>2 DEF Types
  <1>4. \A b \in Admins : ReviewInv(b)'
    <2>1. ReviewInv(a)'
      BY <1>2, NoReviewIdle DEF ReviewInv
    <2> QED  BY <2>1, <1>1, <1>2, OthersKeep
  <1>5. ApprovedInv'
    BY <1>1, ApprovedKeeps
  <1>6. TrackedHasCommunity'
    BY <1>1 DEF TrackedHasCommunity
  <1>7. SingleInv'
    BY <1>1, <1>2, NoReviewIdle, SingleKeeps
  <1> QED  BY <1>3, <1>4, <1>5, <1>6, <1>7

LEMMA NominationsStep ==
    ASSUME NominationsInv, [NominationsNext]_nominationVars
    PROVE  NominationsInv'
  <1>1. CASE UNCHANGED nominationVars
    BY <1>1 DEF nominationVars, NominationsInv, Types, ReviewInv, Placed,
                AllTracked, ApprovedInv, TrackedHasCommunity, SingleInv,
                Approving
  <1>2. ASSUME NEW r \in Nominations, SubmitRequest(r) PROVE NominationsInv'
    BY <1>2, SubmitKeeps
  <1>3. ASSUME NEW a \in Admins, StartReview(a) PROVE NominationsInv'
    BY <1>3, StartKeeps
  <1>4. ASSUME NEW a \in Admins, Reviewing(a) PROVE NominationsInv'
    BY <1>4, ReadKeeps, CommunityKeeps, ServerKeeps, StatusKeeps DEF Reviewing
  <1>5. ASSUME NEW a \in Admins, ReviewFails(a) PROVE NominationsInv'
    BY <1>5, FailKeeps
  <1> QED  BY <1>1, <1>2, <1>3, <1>4, <1>5 DEF NominationsNext

LEMMA InvInStep == NominationsInv => NominationsInStep
  <1> SUFFICES ASSUME NominationsInv PROVE NominationsInStep
    OBVIOUS
  <1>1. ApprovedIsTracked
    <2> SUFFICES ASSUME NEW r \in Nominations, nomination[r] = "approved",
                        NEW e \in EntriesOf(r), PortOf[e] <= 32767
                 PROVE  <<IpOf[e], PortOf[e]>> \in browser
      BY DEF NominationsInv, ApprovedInv, ApprovedIsTracked
    <2>1. e \in AllEntries
      BY DEF AllEntries
    <2>2. AsI16(PortOf[e]) = PortOf[e]
      BY <2>1, NominationsAssumption DEF AsI16
    <2> QED  BY <2>2 DEF NominationsInv, ApprovedInv, AllTracked, Tracked
  <1>2. OneCommunity
    BY DEF NominationsInv, Types, SingleInv, OneCommunity
  <1> QED  BY <1>1, <1>2 DEF NominationsInv, NominationsInStep

(* Whoever reviews a nomination, how often and whatever fails half-way,    *)
(* update_server_request_status keeps requests, communities and the        *)
(* browser in step.                                                        *)
THEOREM NominationsStayInStep == NominationsSpec => []NominationsInStep
  <1>1. NominationsInv /\ [NominationsNext]_nominationVars => NominationsInv'
    BY NominationsStep
  <1> QED  BY <1>1, NominationsStart, InvInStep, PTL DEF NominationsSpec
-----------------------------------------------------------------------------
(***************************************************************************)
(* Types with their bounds: a review inserts one community, and a port is  *)
(* stored as a SMALLINT.                                                   *)
(***************************************************************************)

(* Reviews that may still insert their community. *)
Spending == {a \in Admins : review[a].pc \in {"read", "community"}}

BoundInv ==
    /\ NominationsTypeOK
    /\ \A r \in Nominations : community[r] + Cardinality(Spending) <= reviews

LEMMA SpendingFinite == IsFiniteSet(Spending) /\ Cardinality(Spending) \in Nat
  BY NominationsAssumption, FS_Subset, FS_CardinalityType DEF Spending

LEMMA PortStored ==
    ASSUME NEW e \in AllEntries
    PROVE  Tracked(e)[2] \in SmallInts
  <1>1. AsI16(PortOf[e]) \in SmallInts
    BY NominationsAssumption DEF AsI16, SmallInts
  <1> QED  BY <1>1 DEF Tracked

LEMMA BoundStart == NominationsInit => BoundInv
  <1> SUFFICES ASSUME NominationsInit PROVE BoundInv
    OBVIOUS
  <1>1. NominationsTypeOK
    BY NoReviewIdle, NominationsAssumption
    DEF NominationsInit, NominationsTypeOK
  <1>2. Cardinality(Spending) = 0
    <2>1. Spending = {}
      BY NoReviewIdle DEF NominationsInit, Spending
    <2> QED  BY <2>1, FS_EmptySet
  <1> QED  BY <1>1, <1>2 DEF BoundInv, NominationsInit

(* The reviews that have not spent their insert do not become more. *)
LEMMA BoundKeeps ==
    ASSUME BoundInv, Spending' \subseteq Spending,
           community' = community, reviews' = reviews
    PROVE  \A r \in Nominations :
              community'[r] + Cardinality(Spending') <= reviews'
  <1>1. /\ Cardinality(Spending') <= Cardinality(Spending)
        /\ Cardinality(Spending') \in Nat
    BY SpendingFinite, FS_Subset, FS_CardinalityType
  <1>2. reviews \in Nat /\ \A r \in Nominations : community[r] \in Nat
    BY NominationsAssumption DEF BoundInv, NominationsTypeOK
  <1> QED  BY <1>1, <1>2, SpendingFinite DEF BoundInv

LEMMA BoundStep ==
    ASSUME NominationsInv, BoundInv, [NominationsNext]_nominationVars
    PROVE  BoundInv'
  <1>0. NominationsTypeOK /\ Types' /\ MaxReviews \in Nat
    BY NominationsStep, NominationsAssumption DEF BoundInv, NominationsInv
  <1>1. CASE UNCHANGED nominationVars
    BY <1>1 DEF nominationVars, BoundInv, NominationsTypeOK, Spending
  <1>2. ASSUME NEW r \in Nominations, SubmitRequest(r) PROVE BoundInv'
    <2>1. NominationsTypeOK'
      BY <1>0, <1>2 DEF SubmitRequest, NominationsTypeOK, Types
    <2>2. Spending' \subseteq Spending
      BY <1>2 DEF SubmitRequest, Spending
    <2> QED  BY <1>2, <2>1, <2>2, BoundKeeps DEF SubmitRequest, BoundInv
  <1>3. ASSUME NEW a \in Admins, StartReview(a) PROVE BoundInv'
    <2>1. /\ reviews' = reviews + 1 /\ reviews < MaxReviews
          /\ community' = community
          /\ UNCHANGED <<nomination, browser, repeated>>
      BY <1>3 DEF StartReview
    <2>2. NominationsTypeOK'
      BY <1>0, <2>1 DEF NominationsTypeOK, Types
    <2>3. /\ Spending' \subseteq Spending \union {a}
          /\ IsFiniteSet(Spending \union {a})
          /\ Cardinality(Spending \union {a}) <= Cardinality(Spending) + 1
      <3>1. \A b \in Admins \ {a} : review'[b] = review[b]
        BY <1>0, <1>3 DEF StartReview, Goes, NominationsTypeOK
      <3>2. Spending' \subseteq Spending \union {a}
        BY <3>1 DEF Spending
      <3>3. /\ IsFiniteSet(Spending \union {a})
            /\ Cardinality(Spending \union {a}) <= Cardinality(Spending) + 1
        <4>1. CASE a \in Spending
          <5>1. Spending \union {a} = Spending
            BY <4>1
          <5>2. /\ IsFiniteSet(Spending \union {a})
                /\ Cardinality(Spending \union {a}) = Cardinality(Spending)
            BY <5>1, SpendingFinite
          <5>3. Cardinality(Spending) <= Cardinality(Spending) + 1
            BY SpendingFinite
          <5> QED  BY <5>2, <5>3
        <4>2. CASE a \notin Spending
          <5>1. /\ IsFiniteSet(Spending \union {a})
                /\ Cardinality(Spending \union {a}) = Cardinality(Spending) + 1
            BY <4>2, SpendingFinite, FS_AddElement
          <5> QED  BY <5>1, SpendingFinite
        <4> QED  BY <4>1, <4>2
      <3> QED  BY <3>2, <3>3
    <2>4. /\ Cardinality(Spending') <= Cardinality(Spending \union {a})
          /\ Cardinality(Spending') \in Nat
          /\ Cardinality(Spending \union {a}) \in Nat
      BY <2>3, FS_Subset, FS_CardinalityType
    <2>5. reviews \in Nat /\ \A r \in Nominations : community[r] \in Nat
      BY <1>0 DEF NominationsTypeOK
    <2> QED
      BY <2>1, <2>2, <2>3, <2>4, <2>5, SpendingFinite DEF BoundInv
  <1>4. ASSUME NEW a \in Admins, ReadRequest(a) PROVE BoundInv'
    <2>1. NominationsTypeOK'
      BY <1>0, <1>4 DEF ReadRequest, NominationsTypeOK, Types, Review
    <2>2. Spending' \subseteq Spending
      BY <1>0, <1>4 DEF ReadRequest, Goes, Spending, NominationsTypeOK
    <2> QED  BY <1>4, <2>1, <2>2, BoundKeeps DEF ReadRequest, BoundInv
  <1>5. ASSUME NEW a \in Admins, InsertCommunity(a) PROVE BoundInv'
    <2> PICK r \in Nominations : r = review[a].of
      BY <1>0 DEF NominationsTypeOK, Review
    <2>1. /\ community' = [community EXCEPT ![r] = @ + 1]
          /\ UNCHANGED <<nomination, browser, reviews, repeated>>
      BY <1>5 DEF InsertCommunity
    <2>2. a \in Spending /\ Spending' \subseteq Spending \ {a}
      BY <1>0, <1>5
      DEF InsertCommunity, Goes, Spending, NominationsTypeOK, Review
    <2>3. /\ Cardinality(Spending') <= Cardinality(Spending) - 1
          /\ Cardinality(Spending') \in Nat
      <3>1. /\ IsFiniteSet(Spending \ {a})
            /\ Cardinality(Spending \ {a}) = Cardinality(Spending) - 1
        BY <2>2, SpendingFinite, FS_RemoveElement
      <3> QED  BY <2>2, <3>1, FS_Subset, FS_CardinalityType
    <2>4. reviews \in 0..MaxReviews /\ community \in [Nominations -> 0..MaxReviews]
      BY <1>0 DEF NominationsTypeOK
    <2>5. ASSUME NEW s \in Nominations
          PROVE  /\ community'[s] + Cardinality(Spending') <= reviews'
                 /\ community'[s] \in 0..MaxReviews
      <3>1. /\ community[s] \in Nat
            /\ community'[s] = community[s] \/ community'[s] = community[s] + 1
        BY <1>0, <2>1, <2>4
      <3>2. community[s] + Cardinality(Spending) <= reviews
        BY DEF BoundInv
      <3> QED  BY <1>0, <2>1, <2>3, <2>4, <3>1, <3>2, SpendingFinite
    <2>6. NominationsTypeOK'
      BY <1>0, <2>1, <2>4, <2>5 DEF NominationsTypeOK, Types
    <2> QED  BY <2>5, <2>6 DEF BoundInv
  <1>6. ASSUME NEW a \in Admins, InsertServer(a) PROVE BoundInv'
    <2>1. \A t \in browser' : t[2] \in SmallInts
      <3>1. browser' = browser \union {Tracked(Head(review[a].todo))}
        BY <1>6 DEF InsertServer
      <3>2. Head(review[a].todo) \in AllEntries
        <4>1. review[a].todo \in Seq(AllEntries) /\ review[a].todo # <<>>
          BY <1>0, <1>6
          DEF NominationsTypeOK, Review, NominationsInv, ReviewInv, InsertServer
        <4> QED  BY <4>1, HeadTailProperties
      <3> QED  BY <1>0, <3>1, <3>2, PortStored DEF NominationsTypeOK
    <2>2. NominationsTypeOK'
      BY <1>0, <1>6, <2>1 DEF InsertServer, NominationsTypeOK, Types
    <2>3. Spending' \subseteq Spending
      BY <1>0, <1>6
      DEF InsertServer, AfterServer, Goes, Spending, NominationsTypeOK
    <2> QED  BY <1>6, <2>2, <2>3, BoundKeeps DEF InsertServer, BoundInv
  <1>7. ASSUME NEW a \in Admins, SetStatus(a) \/ ReviewFails(a) PROVE BoundInv'
    <2>1. UNCHANGED <<community, browser, reviews, repeated>> /\ Goes(a, NoReview)
      BY <1>7 DEF SetStatus, ReviewFails
    <2>2. NominationsTypeOK'
      BY <1>0, <2>1 DEF NominationsTypeOK, Types
    <2>3. Spending' \subseteq Spending
      BY <1>0, <2>1, NoReviewIdle DEF Goes, Spending, NominationsTypeOK
    <2> QED  BY <2>1, <2>2, <2>3, BoundKeeps DEF BoundInv
  <1> QED
    BY <1>1, <1>2, <1>3, <1>4, <1>5, <1>6, <1>7
    DEF NominationsNext, Reviewing
=============================================================================
