------------------------- MODULE ChunkedUploadProofs -------------------------
(***************************************************************************)
(* Theorems about ChunkedUpload, for every set of uploads and handlers,    *)
(* number of chunks and attempts: what is recorded and acknowledged, and   *)
(* what the site serves.                                                   *)
(***************************************************************************)
EXTENDS ChunkedUpload, SequenceTheorems, TLAPS

Busy(h) == handler[h].pc # "idle"

(* The places of each operation. *)
PlacesOf(op) ==
    CASE op = "initiate" -> {"put", "mkdir"}
      [] op = "chunk" -> {"read", "open", "write", "record"}
      [] op = "complete" -> {"read", "create", "copy", "verify", "discard",
                             "store", "row", "clear", "forget", "abandon"}
      [] op = "cancel" -> {"read", "clear", "forget", "abandon"}
      [] op = "single" -> {"overwrite", "fill", "row"}
      [] op = "delete" -> {"idle", "read", "unlink", "unrow"}

(* A handler is where its operation may be, and within its upload. *)
HandlerOk(t) ==
    /\ t.pc \in PlacesOf(t.op)
    /\ t.at <= t.pos
    /\ t.pc = "copy" => t.pos < ChunksOf[t.upload]
    /\ t.pc = "verify" => t.pos = ChunksOf[t.upload]
    /\ t.op = "single" => t.upload \in Singles
    /\ t.pc = "fill" => Local
    /\ t.pc = "store" => ~Local

(* A client counts the chunks of its upload. *)
ClientOk(u, c) ==
    /\ c.phase \in {"new", "initiate"} => c.next = 0
    /\ c.phase = "chunk" => c.next < ChunksOf[u]
    /\ c.phase = "complete" => c.next = ChunksOf[u]
    /\ c.phase = "single" => u \in Singles
    /\ c.phase \in {"new", "done", "failed"} => c.waits = None

(* The requests that may run on in a phase of their client. *)
Fits(h, t, c) ==
    /\ c.phase # "new"
    /\ c.phase = "initiate" => t.op = "initiate" /\ c.waits = h
    /\ c.phase = "chunk" => t.op = "chunk"
    /\ c.phase = "complete" => t.op \in {"chunk", "complete"}
    /\ c.phase = "cancel" => t.op \in {"chunk", "cancel"}
    /\ c.phase = "single" => t.op = "single"
    /\ t.op = "complete" => c.next = ChunksOf[t.upload]

FormInv == /\ \A h \in Handlers : HandlerOk(handler[h])
           /\ \A u \in Uploads : ClientOk(u, client[u])

FitInv == \A h \in Handlers :
              Busy(h) /\ handler[h].op # "delete"
                  => Fits(h, handler[h], client[handler[h].upload])

(* A client waits for a request of its own phase. *)
WaitInv == \A u \in Uploads :
               client[u].waits # None =>
                   LET t == handler[client[u].waits] IN
                   t.pc # "idle" /\ t.upload = u /\ t.op = client[u].phase

OpenInv == \A h \in Handlers :
               handler[h].pc \in {"copy", "fill"} /\ handler[h].linked
                   => file[Target(handler[h])] # None

(* Chunks are recorded only once the client sends them. *)
FreshInv == \A u \in Uploads :
                /\ client[u].phase = "new" => session[u] = None
                /\ client[u].phase = "initiate" => session[u] \in {None, {}}

Inv == TypeOK /\ FormInv /\ FitInv /\ WaitInv /\ OpenInv /\ FreshInv

-----------------------------------------------------------------------------
LEMMA Sizes ==
    /\ NumChunks \in Nat \ {0}
    /\ \A u \in Uploads : ChunksOf[u] \in 1..NumChunks
    /\ 0 \in Chunk
    /\ None \notin Uploads /\ None \notin Handlers
  BY ConstantsAssumption DEF Chunk

LEMMA ContentIs ==
    \A f : f \in Content <=> \E n \in 0..NumChunks : f \in [1..n -> Piece]
  BY DEF Content

LEMMA LenOf ==
    ASSUME NEW n \in Nat, NEW S, NEW f \in [1..n -> S]
    PROVE  Len(f) = n /\ f \in Seq(S)
  OBVIOUS

LEMMA ContentFacts ==
    ASSUME NEW f \in Content
    PROVE  /\ Len(f) \in 0..NumChunks /\ f \in [1..Len(f) -> Piece]
           /\ f # None
  <1>1. PICK n \in 0..NumChunks : f \in [1..n -> Piece]
    BY ContentIs
  <1>2. n \in Nat
    BY Sizes
  <1>3. Len(f) = n
    BY <1>1, <1>2, LenOf
  <1>. QED  BY <1>1, <1>3, NothingAssumption

LEMMA EmptyContent == <<>> \in Content /\ Len(<<>>) = 0
  <1>1. <<>> \in [1..0 -> Piece]
    OBVIOUS
  <1>2. 0 \in 0..NumChunks
    BY Sizes
  <1>. QED  BY <1>1, <1>2, ContentIs

LEMMA WholeContent ==
    ASSUME NEW u \in Uploads
    PROVE  Whole(u) \in Content /\ Len(Whole(u)) = ChunksOf[u]
  <1>1. ChunksOf[u] \in 1..NumChunks
    BY Sizes
  <1>2. Whole(u) \in [1..ChunksOf[u] -> Piece]
    BY <1>1, Sizes DEF Whole, Piece, Chunk
  <1>. QED  BY <1>1, <1>2, Sizes, ContentIs, LenOf

(* What a write at a position leaves: the file grows to it. *)
Grown(f, pos, piece) ==
    [k \in 1..(pos + 1) |-> IF k = pos + 1 THEN piece
                            ELSE IF k <= Len(f) THEN f[k] ELSE None]

LEMMA Written ==
    ASSUME NEW f \in Content, NEW pos \in Chunk, NEW piece \in Piece
    PROVE  /\ WriteAt(f, pos, piece) \in Content
           /\ Len(f) <= pos => /\ Len(WriteAt(f, pos, piece)) = pos + 1
                               /\ WriteAt(f, pos, piece) = Grown(f, pos, piece)
  <1>. DEFINE n == IF Len(f) > pos THEN Len(f) ELSE pos + 1
  <1>1. /\ Len(f) \in 0..NumChunks /\ f \in [1..Len(f) -> Piece]
        /\ pos \in Nat /\ pos + 1 <= NumChunks
    BY ContentFacts, Sizes DEF Chunk
  <1>2. n \in 0..NumChunks
    BY <1>1, Sizes
  <1>3. None \in Piece
    BY DEF Piece
  <1>4. WriteAt(f, pos, piece) \in [1..n -> Piece]
    BY <1>1, <1>2, <1>3 DEF WriteAt
  <1>5. Len(WriteAt(f, pos, piece)) = n
    BY <1>2, <1>4, Sizes, LenOf
  <1>6. Len(f) <= pos => n = pos + 1
    BY <1>1
  <1>7. Len(f) <= pos => WriteAt(f, pos, piece) = Grown(f, pos, piece)
    BY <1>6 DEF WriteAt, Grown
  <1>. QED  BY <1>2, <1>4, <1>5, <1>6, <1>7, ContentIs

-----------------------------------------------------------------------------
(* The browser's side *)

LEMMA Entered ==
    ASSUME NEW c \in Client, NEW phase \in Phases
    PROVE  LET d == Enter(c, phase) IN
           /\ d \in Client
           /\ d.phase = phase /\ d.next = c.next /\ d.waits = None
           /\ d.late = c.late /\ d.broken = c.broken
  <1>1. 0 \in 0..MaxAttempts
    BY ConstantsAssumption
  <1>. QED  BY <1>1 DEF Enter, Client

(* A failed attempt is repeated, or ends the phase. *)
LEMMA FailedFacts ==
    ASSUME NEW c \in Client, NEW retried \in BOOLEAN
    PROVE  LET d == Failed(c, retried) IN
           /\ d \in Client
           /\ d.next = c.next /\ d.waits = None
           /\ d.late = c.late /\ d.broken = c.broken
           /\ \/ retried /\ d.phase = c.phase
              \/ d.phase = IF c.phase = "chunk" THEN "cancel" ELSE "failed"
  <1>1. CASE retried /\ c.tries + 1 < MaxAttempts
    <2>1. c.tries + 1 \in 0..MaxAttempts
      BY <1>1, ConstantsAssumption DEF Client
    <2>2. Failed(c, retried) = [c EXCEPT !.tries = @ + 1, !.waits = None]
      BY <1>1 DEF Failed
    <2>. QED  BY <1>1, <2>1, <2>2 DEF Client
  <1>2. CASE ~(retried /\ c.tries + 1 < MaxAttempts)
    <2>. DEFINE p == IF c.phase = "chunk" THEN "cancel" ELSE "failed"
    <2>1. Failed(c, retried) = Enter(c, p)
      BY <1>2 DEF Failed
    <2>2. p \in Phases
      BY DEF Phases
    <2>. QED  BY <2>1, <2>2, Entered
  <1>. QED  BY <1>1, <1>2

(* Where an answer leads. *)
Leads(u, c, d, code) ==
    /\ d.waits = None /\ d.late = c.late /\ d.broken = c.broken
    /\ \/ /\ code = "ok" /\ c.phase = "chunk"
          /\ d.next = c.next + 1
          /\ d.phase = IF d.next = ChunksOf[u] THEN "complete" ELSE "chunk"
       \/ /\ d.next = c.next
          /\ \/ code = "ok" /\ c.phase = "initiate" /\ d.phase = "chunk"
             \/ /\ code = "ok" /\ c.phase \in {"complete", "single"}
                /\ d.phase = "done"
             \/ code = "ok" /\ d.phase = "failed"
                /\ c.phase \notin {"initiate", "chunk", "complete", "single"}
             \/ code # "ok" /\ d.phase = c.phase
                /\ (c.phase = "chunk" \/ code = "missing")
             \/ code # "ok" /\ c.phase = "chunk" /\ d.phase = "cancel"
             \/ code # "ok" /\ c.phase # "chunk" /\ d.phase = "failed"

LEMMA AnsweredFacts ==
    ASSUME NEW u \in Uploads, NEW c \in Client, ClientOk(u, c),
           NEW code \in Codes
    PROVE  /\ Answered(u, c, code) \in Client
           /\ Leads(u, c, Answered(u, c, code), code)
  <1>. DEFINE d == Answered(u, c, code)
  <1>1. CASE code # "ok"
    <2>. DEFINE r == c.phase = "chunk" \/ code = "missing"
    <2>1. d = Failed(c, r) /\ r \in BOOLEAN
      BY <1>1 DEF Answered
    <2>2. /\ d \in Client /\ d.next = c.next /\ d.waits = None
          /\ d.late = c.late /\ d.broken = c.broken
      BY <2>1, FailedFacts
    <2>3. \/ (c.phase = "chunk" \/ code = "missing") /\ d.phase = c.phase
          \/ d.phase = IF c.phase = "chunk" THEN "cancel" ELSE "failed"
      BY <2>1, FailedFacts
    <2>. QED  BY <1>1, <2>2, <2>3 DEF Leads
  <1>2. CASE code = "ok" /\ c.phase = "chunk"
    <2>. DEFINE p == IF c.next + 1 = ChunksOf[u] THEN "complete" ELSE "chunk"
                e == Enter(c, p)
    <2>1. d = [e EXCEPT !.next = c.next + 1]
      BY <1>2 DEF Answered
    <2>2. p \in Phases
      BY DEF Phases
    <2>3. /\ e \in Client /\ e.phase = p /\ e.waits = None
          /\ e.late = c.late /\ e.broken = c.broken
      BY <2>2, Entered
    <2>4. c.next + 1 \in 0..NumChunks
      BY <1>2, Sizes DEF ClientOk, Client
    <2>5. d \in Client
      BY <2>1, <2>3, <2>4 DEF Client
    <2>6. /\ d.phase = p /\ d.next = c.next + 1 /\ d.waits = None
          /\ d.late = c.late /\ d.broken = c.broken
      BY <2>1, <2>3 DEF Client
    <2>. QED  BY <1>2, <2>5, <2>6 DEF Leads
  <1>3. CASE code = "ok" /\ c.phase # "chunk"
    <2>. DEFINE p == IF c.phase = "initiate" THEN "chunk"
                     ELSE IF c.phase \in {"complete", "single"} THEN "done"
                     ELSE "failed"
    <2>1. d = Enter(c, p)
      BY <1>3 DEF Answered
    <2>2. p \in Phases
      BY DEF Phases
    <2>3. /\ d \in Client /\ d.phase = p /\ d.waits = None
          /\ d.next = c.next /\ d.late = c.late /\ d.broken = c.broken
      BY <2>1, <2>2, Entered
    <2>. QED  BY <1>3, <2>3 DEF Leads
  <1>. QED  BY <1>1, <1>2, <1>3

LEMMA LeadsOk ==
    ASSUME NEW u \in Uploads, NEW c \in Client, NEW d \in Client,
           ClientOk(u, c), NEW code \in Codes, Leads(u, c, d, code)
    PROVE  ClientOk(u, d)
  BY Sizes DEF ClientOk, Leads, Client

(* A failed attempt of a client in any phase but "initiate" and "chunk".   *)
LEMMA FailedOk ==
    ASSUME NEW u \in Uploads, NEW c \in Client, NEW d \in Client,
           ClientOk(u, c), d.next = c.next, d.waits = None,
           d.phase \in {c.phase, "cancel", "failed"}
    PROVE  ClientOk(u, d)
  BY DEF ClientOk

-----------------------------------------------------------------------------
(* What a step does to requests and clients                                *)

SameRequest(s, t) == s.op = t.op /\ s.upload = t.upload /\ s.chunk = t.chunk

(* The other handlers stay; an open file may lose its name. *)
OthersStay(h) ==
    \A g \in Handlers \ {h} :
        \/ handler'[g] = handler[g]
        \/ handler'[g] = [handler[g] EXCEPT !.linked = FALSE]

GoesOn(h) ==
    /\ Busy(h) /\ handler'[h].pc # "idle"
    /\ SameRequest(handler[h], handler'[h])
    /\ OthersStay(h)
    /\ client' = client

Replies(h, code) ==
    /\ Busy(h) /\ handler'[h] = Idle
    /\ OthersStay(h)
    /\ LET u == handler[h].upload IN
       client' = IF client[u].waits = h
                 THEN [client EXCEPT ![u] = Answered(u, @, code)]
                 ELSE client

Works(h) == GoesOn(h) \/ \E code \in Codes : Replies(h, code)

(* Types and forms of requests and clients. *)
ControlOk == /\ handler \in [Handlers -> Handler]
             /\ client \in [Uploads -> Client]
             /\ FormInv

LEMMA IdleOk ==
    /\ Idle \in Handler /\ HandlerOk(Idle)
    /\ Idle.pc = "idle" /\ Idle.op = "delete" /\ Idle.linked = FALSE
  <1>1. (CHOOSE u \in Uploads : TRUE) \in Uploads
    BY ConstantsAssumption
  <1>2. Idle \in Handler
    BY <1>1, Sizes DEF Idle, Request, Handler, Ops, Places, Codes
  <1>3. /\ Idle.pc = "idle" /\ Idle.op = "delete" /\ Idle.linked = FALSE
        /\ Idle.at = 0 /\ Idle.pos = 0
    BY DEF Idle, Request
  <1>. QED  BY <1>2, <1>3 DEF HandlerOk, PlacesOf

LEMMA UnlinkedOk ==
    ASSUME NEW t \in Handler, HandlerOk(t)
    PROVE  LET s == [t EXCEPT !.linked = FALSE] IN
           /\ s \in Handler /\ HandlerOk(s)
           /\ s.pc = t.pc /\ SameRequest(t, s) /\ s.linked = FALSE
  BY DEF Handler, HandlerOk, SameRequest

(* A handler goes to a place where it writes and compares nothing. *)
LEMMA PlaceOk ==
    ASSUME NEW t \in Handler, HandlerOk(t), NEW code \in Codes,
           NEW p \in Places \ {"idle", "copy", "verify", "fill", "store"},
           p \in PlacesOf(t.op)
    PROVE  /\ LET s == [t EXCEPT !.pc = p] IN
              /\ s \in Handler /\ HandlerOk(s)
              /\ s.pc = p /\ SameRequest(t, s)
           /\ LET s == [t EXCEPT !.pc = p, !.code = code] IN
              /\ s \in Handler /\ HandlerOk(s)
              /\ s.pc = p /\ SameRequest(t, s)
  BY DEF Handler, HandlerOk, SameRequest

LEMMA Moves ==
    ASSUME ControlOk, NEW h \in Handlers, NEW t \in Handler,
           HandlerOk(t), Busy(h), t.pc # "idle", SameRequest(handler[h], t),
           Become(h, t), client' = client
    PROVE  ControlOk' /\ GoesOn(h)
  <1>1. /\ handler' \in [Handlers -> Handler] /\ handler'[h] = t
        /\ \A g \in Handlers \ {h} : handler'[g] = handler[g]
    BY DEF ControlOk, Become
  <1>. QED  BY <1>1 DEF ControlOk, FormInv, GoesOn, OthersStay

LEMMA Goes ==
    ASSUME ControlOk, NEW h \in Handlers, Busy(h),
           NEW p \in Places \ {"idle", "copy", "verify", "fill", "store"},
           p \in PlacesOf(handler[h].op), client' = client,
           \/ Goto(h, p)
           \/ \E code \in Codes :
                 Become(h, [handler[h] EXCEPT !.pc = p, !.code = code])
    PROVE  ControlOk' /\ GoesOn(h)
  <1>1. handler[h] \in Handler /\ HandlerOk(handler[h])
    BY DEF ControlOk, FormInv
  <1>2. CASE Goto(h, p)
    <2>. DEFINE t == [handler[h] EXCEPT !.pc = p]
    <2>1. "ok" \in Codes
      BY DEF Codes
    <2>2. /\ t \in Handler /\ HandlerOk(t)
          /\ t.pc = p /\ SameRequest(handler[h], t)
      BY <1>1, <2>1, PlaceOk
    <2>. QED  BY <1>2, <2>2, Moves DEF Goto
  <1>3. ASSUME NEW code \in Codes,
               Become(h, [handler[h] EXCEPT !.pc = p, !.code = code])
        PROVE  ControlOk' /\ GoesOn(h)
    <2>. DEFINE t == [handler[h] EXCEPT !.pc = p, !.code = code]
    <2>1. /\ t \in Handler /\ HandlerOk(t)
          /\ t.pc = p /\ SameRequest(handler[h], t)
      BY <1>1 DEF Handler, HandlerOk, SameRequest
    <2>. QED  BY <1>3, <2>1, Moves
  <1>. QED  BY <1>2, <1>3

LEMMA Leaves ==
    ASSUME ControlOk, NEW h \in Handlers, Busy(h), NEW code \in Codes,
           handler' \in [Handlers -> Handler], OthersStay(h),
           handler'[h] = Idle,
           LET u == handler[h].upload IN
           client' = IF client[u].waits = h
                     THEN [client EXCEPT ![u] = Answered(u, @, code)]
                     ELSE client
    PROVE  ControlOk' /\ Replies(h, code)
  <1>. DEFINE u == handler[h].upload
              d == Answered(u, client[u], code)
  <1>1. u \in Uploads /\ client[u] \in Client /\ ClientOk(u, client[u])
    BY DEF ControlOk, FormInv, Handler
  <1>2. d \in Client /\ ClientOk(u, d)
    BY <1>1, AnsweredFacts, LeadsOk
  <1>3. /\ client' \in [Uploads -> Client]
        /\ \A v \in Uploads : ClientOk(v, client'[v])
    BY <1>1, <1>2 DEF ControlOk, FormInv
  <1>4. \A g \in Handlers : HandlerOk(handler'[g])
    <2>. SUFFICES ASSUME NEW g \in Handlers PROVE HandlerOk(handler'[g])
      OBVIOUS
    <2>1. handler[g] \in Handler /\ HandlerOk(handler[g])
      BY DEF ControlOk, FormInv
    <2>. QED  BY <2>1, IdleOk, UnlinkedOk DEF OthersStay
  <1>. QED  BY <1>3, <1>4 DEF ControlOk, FormInv, Replies

LEMMA ReplyOk ==
    ASSUME ControlOk, NEW h \in Handlers, Busy(h), NEW code \in Codes,
           Reply(h, code)
    PROVE  ControlOk' /\ Replies(h, code)
  <1>1. /\ handler' \in [Handlers -> Handler]
        /\ OthersStay(h) /\ handler'[h] = Idle
    BY IdleOk DEF ControlOk, Reply, Become, OthersStay
  <1>. QED  BY <1>1, Leaves DEF Reply

(* A deletion ends, and nobody waits for it. *)
LEMMA DeletionEnds ==
    ASSUME ControlOk, WaitInv, NEW h \in Handlers, Busy(h),
           handler[h].op = "delete", Become(h, Idle), client' = client
    PROVE  ControlOk' /\ Replies(h, "ok")
  <1>. DEFINE u == handler[h].upload
  <1>1. u \in Uploads /\ h # None /\ "delete" # client[u].phase
    BY Sizes DEF ControlOk, Handler, Client, Phases
  <1>2. client[u].waits # h
    BY <1>1 DEF WaitInv
  <1>3. /\ handler' \in [Handlers -> Handler]
        /\ OthersStay(h) /\ handler'[h] = Idle
    BY IdleOk DEF ControlOk, Become, OthersStay
  <1>. QED  BY <1>2, <1>3, Leaves DEF Codes

(* A file loses its name, and a handler goes on or ends. *)
LEMMA UnlinkedMoves ==
    ASSUME ControlOk, NEW h \in Handlers, NEW target, NEW t \in Handler,
           handler' = [Unlinked(target) EXCEPT ![h] = t]
    PROVE  /\ handler' \in [Handlers -> Handler] /\ handler'[h] = t
           /\ OthersStay(h)
           /\ HandlerOk(t) => \A g \in Handlers : HandlerOk(handler'[g])
           /\ \A g \in Handlers \ {h} :
                 handler'[g].pc \in {"copy", "fill"} /\ handler'[g].linked
                     => Target(handler'[g]) # target
  <1>1. \A g \in Handlers :
           /\ handler[g] \in Handler /\ HandlerOk(handler[g])
           /\ [handler[g] EXCEPT !.linked = FALSE] \in Handler
           /\ HandlerOk([handler[g] EXCEPT !.linked = FALSE])
           /\ [handler[g] EXCEPT !.linked = FALSE].linked = FALSE
    BY UnlinkedOk DEF ControlOk, FormInv
  <1>2. \A g \in Handlers \ {h} :
           handler'[g] = IF handler[g].pc \in {"copy", "fill"}
                            /\ Target(handler[g]) = target
                         THEN [handler[g] EXCEPT !.linked = FALSE]
                         ELSE handler[g]
    BY DEF Unlinked
  <1>3. handler'[h] = t /\ handler' \in [Handlers -> Handler]
    BY <1>1 DEF Unlinked
  <1>. QED  BY <1>1, <1>2, <1>3 DEF OthersStay

-----------------------------------------------------------------------------
(* Every step of a handler, one by one                                     *)

(* The types of what handlers store. *)
StoreOk == /\ session \in [Uploads -> (SUBSET Chunk) \union {None}]
           /\ tmp \in [Uploads -> [Chunk -> FileState] \union {None}]
           /\ file \in [Targets -> Content \union {None}]
           /\ row \in Uploads \union {None}
           /\ deletes \in 0..MaxDeletes

LEMMA ByPlace ==
    ASSUME NEW t \in Handler, HandlerOk(t)
    PROVE  /\ t.pc \in {"put", "mkdir"} => t.op = "initiate"
           /\ t.pc \in {"open", "write", "record"} => t.op = "chunk"
           /\ t.pc \in {"create", "copy", "verify", "discard", "store"}
                 => t.op = "complete"
           /\ t.pc = "row" => t.op \in {"complete", "single"}
           /\ t.pc \in {"clear", "forget", "abandon"}
                 => t.op \in {"complete", "cancel"}
           /\ t.pc \in {"overwrite", "fill"} => t.op = "single"
           /\ t.pc \in {"idle", "unlink", "unrow"} => t.op = "delete"
           /\ t.pc = "read" => t.op \in {"chunk", "complete", "cancel", "delete"}
  BY DEF HandlerOk, PlacesOf, Handler, Ops

LEMMA TargetOf ==
    ASSUME NEW t \in Handler
    PROVE  /\ Target(t) \in Targets /\ t.upload \in Targets
           /\ t.upload \in Uploads /\ t.upload # Live /\ Live \in Targets
           /\ t.op = "single" => Target(t) = Live
           /\ ~Local /\ t.op # "single" => Target(t) = t.upload
           /\ Local => Target(t) = Live
  BY NothingAssumption DEF Target, Targets, Handler

LEMMA InvParts ==
    ASSUME Inv
    PROVE  /\ StoreOk /\ ControlOk /\ WaitInv /\ OpenInv
           /\ \A h \in Handlers : handler[h] \in Handler /\ HandlerOk(handler[h])
  BY DEF Inv, TypeOK, StoreOk, ControlOk, FormInv

LEMMA StoresKept ==
    StoreOk /\ UNCHANGED <<session, tmp, file, row, deletes>> => StoreOk'
  BY DEF StoreOk

LEMMA UploadSteps ==
    ASSUME Inv, NEW h \in Handlers, Upload(h)
    PROVE  StoreOk' /\ ControlOk' /\ Works(h)
  <1>. DEFINE t == handler[h]
              u == t.upload
  <1>. USE DEF Works
  <1>1. /\ StoreOk /\ ControlOk /\ t \in Handler /\ HandlerOk(t)
        /\ u \in Uploads /\ t.chunk \in Chunk /\ t.seen \in SUBSET Chunk
        /\ "ok" \in Codes /\ "error" \in Codes /\ "missing" \in Codes
    BY InvParts DEF Handler, Codes
  <1>2. CASE StoreSession(h)
    <2>1. Busy(h) /\ t.op = "initiate"
      BY <1>1, <1>2, ByPlace DEF StoreSession, At, Busy
    <2>2. "mkdir" \in Places \ {"idle", "copy", "verify", "fill", "store"}
          /\ "mkdir" \in PlacesOf(t.op)
      BY <2>1 DEF Places, PlacesOf
    <2>3. ControlOk' /\ GoesOn(h)
      BY <1>1, <1>2, <2>1, <2>2, Goes DEF StoreSession
    <2>4. StoreOk'
      BY <1>1, <1>2 DEF StoreSession, StoreOk, disk
    <2>. QED  BY <2>3, <2>4
  <1>3. CASE MakeDirectory(h)
    <2>1. Busy(h)
      BY <1>3 DEF MakeDirectory, At, Busy
    <2>2. ControlOk' /\ Replies(h, "ok")
      BY <1>1, <1>3, <2>1, ReplyOk DEF MakeDirectory
    <2>3. NoChunks \in [Chunk -> FileState]
      BY DEF NoChunks, FileState
    <2>4. StoreOk'
      BY <1>1, <1>3, <2>3 DEF MakeDirectory, StoreOk
    <2>. QED  BY <1>1, <2>2, <2>4
  <1>4. CASE ReadForChunk(h)
    <2>1. Busy(h) /\ t.op = "chunk"
      BY <1>4 DEF ReadForChunk, At, Busy
    <2>2. StoreOk'
      BY <1>1, <1>4 DEF ReadForChunk, StoreOk, disk
    <2>3. CASE Reply(h, "missing") \/ Reply(h, "ok")
      BY <1>1, <2>1, <2>2, <2>3, ReplyOk
    <2>4. CASE /\ session[u] # None /\ client' = client
               /\ Become(h, [t EXCEPT !.pc = "open", !.seen = session[u]])
      <3>. DEFINE s == [t EXCEPT !.pc = "open", !.seen = session[u]]
      <3>1. session[u] \in SUBSET Chunk
        BY <1>1, <2>4 DEF StoreOk
      <3>2. /\ s \in Handler /\ HandlerOk(s)
            /\ s.pc # "idle" /\ SameRequest(t, s)
        BY <1>1, <2>1, <3>1
        DEF Handler, HandlerOk, Places, PlacesOf, SameRequest
      <3>. QED  BY <1>1, <2>1, <2>2, <2>4, <3>2, Moves
    <2>. QED  BY <1>4, <2>3, <2>4 DEF ReadForChunk
  <1>5. CASE OpenChunk(h)
    <2>1. Busy(h) /\ t.op = "chunk"
      BY <1>1, <1>5, ByPlace DEF OpenChunk, At, Busy
    <2>2. "write" \in Places \ {"idle", "copy", "verify", "fill", "store"}
          /\ "write" \in PlacesOf(t.op)
      BY <2>1 DEF Places, PlacesOf
    <2>3. CASE tmp[u] = None
      <3>1. Reply(h, "error") /\ UNCHANGED <<session, tmp, file, row, deletes>>
        BY <1>5, <2>3 DEF OpenChunk
      <3>. QED  BY <1>1, <2>1, <3>1, ReplyOk, StoresKept
    <2>4. CASE tmp[u] # None
      <3>1. /\ tmp' = [tmp EXCEPT ![u][t.chunk] = "empty"]
            /\ Goto(h, "write") /\ UNCHANGED <<session, file, row, client, deletes>>
        BY <1>5, <2>4 DEF OpenChunk
      <3>2. ControlOk' /\ GoesOn(h)
        BY <1>1, <2>1, <2>2, <3>1, Goes
      <3>3. tmp[u] \in [Chunk -> FileState]
        BY <1>1, <2>4 DEF StoreOk
      <3>4. [tmp[u] EXCEPT ![t.chunk] = "empty"] \in [Chunk -> FileState]
        BY <1>1, <3>3 DEF FileState
      <3>5. StoreOk'
        BY <1>1, <3>1, <3>4 DEF StoreOk
      <3>. QED  BY <3>2, <3>5
    <2>. QED  BY <2>3, <2>4
  <1>6. CASE WriteChunk(h)
    <2>1. Busy(h) /\ t.op = "chunk"
      BY <1>1, <1>6, ByPlace DEF WriteChunk, At, Busy
    <2>2. "record" \in Places \ {"idle", "copy", "verify", "fill", "store"}
          /\ "record" \in PlacesOf(t.op)
      BY <2>1 DEF Places, PlacesOf
    <2>3. ControlOk' /\ GoesOn(h)
      BY <1>1, <1>6, <2>1, <2>2, Goes DEF WriteChunk
    <2>4. tmp[u] # None => tmp[u] \in [Chunk -> FileState]
      BY <1>1 DEF StoreOk
    <2>5. tmp[u] # None =>
             [tmp[u] EXCEPT ![t.chunk] = "whole"] \in [Chunk -> FileState]
      BY <1>1, <2>4 DEF FileState
    <2>6. StoreOk'
      BY <1>1, <1>6, <2>5 DEF WriteChunk, StoreOk
    <2>. QED  BY <2>3, <2>6
  <1>7. CASE RecordChunk(h)
    <2>1. Busy(h)
      BY <1>7 DEF RecordChunk, At, Busy
    <2>2. ControlOk' /\ Replies(h, "ok")
      BY <1>1, <1>7, <2>1, ReplyOk DEF RecordChunk
    <2>3. StoreOk'
      BY <1>1, <1>7 DEF RecordChunk, StoreOk, disk
    <2>. QED  BY <1>1, <2>2, <2>3
  <1>. QED  BY <1>2, <1>3, <1>4, <1>5, <1>6, <1>7 DEF Upload

(* The file a handler has open has a name, so a write finds it. *)
LEMMA OpenFile ==
    ASSUME Inv, NEW h \in Handlers,
           handler[h].pc \in {"copy", "fill"}, handler[h].linked
    PROVE  /\ file[Target(handler[h])] \in Content
           /\ Target(handler[h]) \in Targets
  BY InvParts, TargetOf DEF OpenInv, StoreOk

LEMMA CompleteSteps ==
    ASSUME Inv, NEW h \in Handlers, Complete(h)
    PROVE  StoreOk' /\ ControlOk' /\ Works(h)
  <1>. DEFINE t == handler[h]
              u == t.upload
              x == Target(t)
  <1>. USE DEF Works
  <1>1. /\ StoreOk /\ ControlOk /\ t \in Handler /\ HandlerOk(t)
        /\ u \in Uploads /\ x \in Targets /\ u \in Targets /\ Live \in Targets
        /\ t.pos \in 0..NumChunks /\ t.at \in 0..NumChunks
        /\ "ok" \in Codes /\ "error" \in Codes /\ "missing" \in Codes
    BY InvParts, TargetOf DEF Handler, Codes
  <1>2. ASSUME NEW p \in {"create", "discard", "row", "clear", "abandon"},
               Busy(h), t.op = "complete", client' = client,
               \/ Goto(h, p)
               \/ \E code \in Codes :
                     Become(h, [handler[h] EXCEPT !.pc = p, !.code = code])
        PROVE  ControlOk' /\ GoesOn(h)
    <2>1. p \in Places \ {"idle", "copy", "verify", "fill", "store"}
          /\ p \in PlacesOf(t.op)
      BY <1>2 DEF Places, PlacesOf
    <2>. QED  BY <1>1, <1>2, <2>1, Goes
  <1>3. CASE ReadForComplete(h)
    <2>1. Busy(h) /\ t.op = "complete"
          /\ UNCHANGED <<session, tmp, file, row, deletes>>
      BY <1>3 DEF ReadForComplete, At, Busy, disk
    <2>2. StoreOk'
      BY <1>1, <2>1, StoresKept
    <2>3. CASE Reply(h, "missing") \/ Reply(h, "error")
      BY <1>1, <2>1, <2>2, <2>3, ReplyOk
    <2>4. CASE Goto(h, "create") /\ client' = client
      BY <1>2, <2>1, <2>2, <2>4
    <2>. QED  BY <1>3, <2>3, <2>4 DEF ReadForComplete
  <1>4. CASE CreateTarget(h)
    <2>. DEFINE s == [t EXCEPT !.pc = "copy", !.pos = 0, !.at = 0,
                               !.linked = TRUE]
    <2>1. Busy(h) /\ t.op = "complete"
      BY <1>1, <1>4, ByPlace DEF CreateTarget, At, Busy
    <2>2. /\ s \in Handler /\ HandlerOk(s) /\ s.pc # "idle"
          /\ SameRequest(t, s)
      <3>1. 0 \in 0..NumChunks /\ 0 < ChunksOf[u]
        BY <1>1, Sizes
      <3>2. /\ s \in Handler /\ s.pc = "copy" /\ s.pos = 0 /\ s.at = 0
            /\ s.op = t.op /\ s.upload = u /\ s.chunk = t.chunk
        BY <1>1, <3>1 DEF Handler, Places
      <3>. QED  BY <2>1, <3>1, <3>2 DEF HandlerOk, PlacesOf, SameRequest
    <2>3. ControlOk' /\ GoesOn(h)
      BY <1>1, <1>4, <2>1, <2>2, Moves DEF CreateTarget
    <2>4. NoChunks \in [Chunk -> FileState]
      BY DEF NoChunks, FileState
    <2>5. StoreOk'
      BY <1>1, <1>4, <2>4, EmptyContent DEF CreateTarget, StoreOk
    <2>. QED  BY <2>3, <2>5
  <1>5. CASE CopyChunk(h)
    <2>. DEFINE state == IF tmp[u] = None THEN "absent" ELSE tmp[u][t.pos]
                copied == IF state = "whole" THEN 1 ELSE 0
                s == [t EXCEPT !.pos = @ + 1, !.at = @ + copied,
                               !.pc = IF t.pos + 1 = ChunksOf[u]
                                      THEN "verify" ELSE "copy"]
    <2>1. /\ Busy(h) /\ t.op = "complete" /\ t.pc = "copy"
          /\ UNCHANGED <<session, tmp, row, client, deletes>>
      BY <1>1, <1>5, ByPlace DEF CopyChunk, At, Busy
    <2>2. /\ t.pos < ChunksOf[u] /\ t.at <= t.pos
          /\ ChunksOf[u] \in 1..NumChunks
      BY <1>1, <2>1, Sizes DEF HandlerOk
    <2>3. StoreOk'
      <3>1. CASE copied = 1 /\ t.linked
        <4>1. /\ file' = [file EXCEPT ![x] = WriteAt(@, t.at, <<u, t.pos>>)]
              /\ file[x] \in Content
          BY <1>5, <2>1, <3>1, OpenFile DEF CopyChunk
        <4>2. t.at \in Chunk /\ <<u, t.pos>> \in Piece
          BY <1>1, <2>2, Sizes DEF Chunk, Piece
        <4>3. WriteAt(file[x], t.at, <<u, t.pos>>) \in Content
          BY <4>1, <4>2, Written
        <4>. QED  BY <1>1, <2>1, <4>1, <4>3 DEF StoreOk
      <3>2. CASE ~(copied = 1 /\ t.linked)
        <4>1. file' = file
          BY <1>5, <3>2 DEF CopyChunk
        <4>. QED  BY <1>1, <2>1, <4>1, StoresKept
      <3>. QED  BY <3>1, <3>2
    <2>4. CASE state = "absent"
      <3>1. Become(h, [handler[h] EXCEPT !.pc = "abandon", !.code = "error"])
        BY <1>5, <2>4 DEF CopyChunk
      <3>. QED  BY <1>1, <1>2, <2>1, <2>3, <3>1
    <2>5. CASE state # "absent"
      <3>1. Become(h, s)
        BY <1>5, <2>5 DEF CopyChunk
      <3>2. t.pos + 1 \in 0..NumChunks /\ t.at + copied \in 0..NumChunks
            /\ t.at + copied <= t.pos + 1
        BY <1>1, <2>2, Sizes
      <3>3. /\ s.pos = t.pos + 1 /\ s.at = t.at + copied
            /\ s.pc = IF t.pos + 1 = ChunksOf[u] THEN "verify" ELSE "copy"
            /\ s.op = t.op /\ s.upload = u /\ s.chunk = t.chunk
        BY <1>1 DEF Handler
      <3>4. s \in Handler
        BY <1>1, <3>2 DEF Handler, Places
      <3>5. HandlerOk(s)
        BY <1>1, <2>1, <2>2, <3>2, <3>3 DEF HandlerOk, PlacesOf
      <3>6. s.pc # "idle" /\ SameRequest(t, s)
        BY <3>3 DEF SameRequest
      <3>. QED  BY <1>1, <2>1, <2>3, <3>1, <3>4, <3>5, <3>6, Moves
    <2>. QED  BY <2>4, <2>5
  <1>6. CASE VerifySize(h)
    <2>. DEFINE p == IF Local THEN "row" ELSE "store"
                s == [t EXCEPT !.pc = p]
    <2>1. /\ Busy(h) /\ t.op = "complete"
          /\ UNCHANGED <<session, tmp, file, row, deletes>> /\ client' = client
      BY <1>1, <1>6, ByPlace DEF VerifySize, At, Busy, disk
    <2>2. StoreOk'
      BY <1>1, <2>1, StoresKept
    <2>3. /\ s \in Handler /\ HandlerOk(s) /\ s.pc # "idle"
          /\ SameRequest(t, s)
      BY <1>1, <2>1 DEF Handler, HandlerOk, Places, PlacesOf, SameRequest
    <2>4. CASE Become(h, [handler[h] EXCEPT !.pc = "abandon", !.code = "error"])
      BY <1>1, <1>2, <2>1, <2>2, <2>4
    <2>5. CASE Become(h, [handler[h] EXCEPT !.pc = "discard"])
      BY <1>2, <2>1, <2>2, <2>5 DEF Goto
    <2>6. CASE Become(h, s)
      BY <1>1, <2>1, <2>2, <2>3, <2>6, Moves
    <2>. QED  BY <1>6, <2>4, <2>5, <2>6 DEF VerifySize
  <1>7. CASE Discard(h)
    <2>. DEFINE s == [t EXCEPT !.pc = "abandon", !.code = "error"]
    <2>1. Busy(h) /\ t.op = "complete"
      BY <1>1, <1>7, ByPlace DEF Discard, At, Busy
    <2>2. /\ s \in Handler /\ HandlerOk(s) /\ s.pc = "abandon"
          /\ SameRequest(t, s)
      BY <1>1, <2>1 DEF Handler, HandlerOk, Places, PlacesOf, SameRequest
    <2>3. /\ handler' \in [Handlers -> Handler] /\ handler'[h] = s
          /\ OthersStay(h)
          /\ \A g \in Handlers : HandlerOk(handler'[g])
      BY <1>1, <1>7, <2>2, UnlinkedMoves DEF Discard
    <2>4. ControlOk' /\ GoesOn(h)
      BY <1>1, <1>7, <2>1, <2>2, <2>3
      DEF ControlOk, FormInv, GoesOn, Discard
    <2>5. StoreOk'
      BY <1>1, <1>7 DEF Discard, StoreOk
    <2>. QED  BY <2>4, <2>5
  <1>8. CASE PutObject(h)
    <2>1. Busy(h) /\ t.op = "complete" /\ client' = client
      BY <1>1, <1>8, ByPlace DEF PutObject, At, Busy
    <2>2. CASE file[u] = None
      <3>1. /\ Become(h, [handler[h] EXCEPT !.pc = "abandon", !.code = "error"])
            /\ UNCHANGED <<session, tmp, file, row, deletes>>
        BY <1>8, <2>2 DEF PutObject
      <3>. QED  BY <1>1, <1>2, <2>1, <3>1, StoresKept
    <2>3. CASE file[u] # None
      <3>1. /\ file' = [file EXCEPT ![Live] = file[u]] /\ Goto(h, "row")
            /\ UNCHANGED <<session, tmp, row, deletes>>
        BY <1>8, <2>3 DEF PutObject
      <3>2. StoreOk'
        BY <1>1, <3>1 DEF StoreOk
      <3>. QED  BY <1>2, <2>1, <3>1, <3>2
    <2>. QED  BY <2>2, <2>3
  <1>9. CASE UpsertRow(h)
    <2>1. /\ Busy(h) /\ t.op # "delete" /\ t.pc = "row"
          /\ t.op \in {"complete", "single"}
      BY <1>1, <1>9, ByPlace DEF UpsertRow, At, Busy
    <2>2. StoreOk'
      BY <1>1, <1>9 DEF UpsertRow, StoreOk, disk
    <2>3. CASE t.op = "single"
      BY <1>1, <1>9, <2>1, <2>2, <2>3, ReplyOk DEF UpsertRow
    <2>4. CASE t.op = "complete"
      BY <1>2, <1>9, <2>1, <2>2, <2>4 DEF UpsertRow
    <2>. QED  BY <2>1, <2>3, <2>4
  <1>. QED  BY <1>3, <1>4, <1>5, <1>6, <1>7, <1>8, <1>9 DEF Complete

LEMMA FinishSteps ==
    ASSUME Inv, NEW h \in Handlers, Finish(h)
    PROVE  StoreOk' /\ ControlOk' /\ Works(h)
  <1>. DEFINE t == handler[h]
              u == t.upload
  <1>. USE DEF Works
  <1>1. /\ StoreOk /\ ControlOk /\ t \in Handler /\ HandlerOk(t)
        /\ u \in Uploads /\ u \in Targets /\ t.code \in Codes
    BY InvParts, TargetOf DEF Handler
  <1>2. CASE CleanupTemp(h)
    <2>1. /\ Busy(h) /\ t.pc \in {"clear", "abandon"}
          /\ t.op \in {"complete", "cancel"}
          /\ UNCHANGED <<session, row, deletes>>
      BY <1>1, <1>2, ByPlace DEF CleanupTemp, At, Busy
    <2>2. NoChunks \in [Chunk -> FileState]
      BY DEF NoChunks, FileState
    <2>3. StoreOk'
      BY <1>1, <1>2, <2>1, <2>2 DEF CleanupTemp, StoreOk
    <2>4. CASE t.pc = "clear"
      <3>. DEFINE s == [t EXCEPT !.pc = "forget"]
      <3>1. /\ handler' = [Unlinked(u) EXCEPT ![h] = s] /\ client' = client
        BY <1>2, <2>4 DEF CleanupTemp, At
      <3>2. /\ s \in Handler /\ HandlerOk(s) /\ s.pc = "forget"
            /\ SameRequest(t, s)
        BY <1>1, <2>1 DEF Handler, HandlerOk, Places, PlacesOf, SameRequest
      <3>3. /\ handler' \in [Handlers -> Handler] /\ handler'[h] = s
            /\ OthersStay(h) /\ \A g \in Handlers : HandlerOk(handler'[g])
        BY <1>1, <3>1, <3>2, UnlinkedMoves
      <3>4. ControlOk' /\ GoesOn(h)
        BY <1>1, <2>1, <3>1, <3>2, <3>3 DEF ControlOk, FormInv, GoesOn
      <3>. QED  BY <2>3, <3>4
    <2>5. CASE t.pc = "abandon"
      <3>1. /\ handler' = [Unlinked(u) EXCEPT ![h] = Idle]
            /\ client' = IF client[u].waits = h
                         THEN [client EXCEPT ![u] = Answered(u, @, t.code)]
                         ELSE client
        BY <1>2, <2>5 DEF CleanupTemp, At
      <3>2. /\ handler' \in [Handlers -> Handler] /\ handler'[h] = Idle
            /\ OthersStay(h)
        BY <1>1, <3>1, IdleOk, UnlinkedMoves
      <3>3. ControlOk' /\ Replies(h, t.code)
        BY <1>1, <2>1, <3>1, <3>2, Leaves
      <3>. QED  BY <1>1, <2>3, <3>3
    <2>. QED  BY <2>1, <2>4, <2>5
  <1>3. CASE DeleteSession(h)
    <2>1. Busy(h)
      BY <1>3 DEF DeleteSession, At, Busy
    <2>2. ControlOk' /\ Replies(h, t.code)
      BY <1>1, <1>3, <2>1, ReplyOk DEF DeleteSession
    <2>3. StoreOk'
      BY <1>1, <1>3 DEF DeleteSession, StoreOk, disk
    <2>. QED  BY <1>1, <2>2, <2>3
  <1>4. CASE ReadForCancel(h)
    <2>. DEFINE p == IF session[u] = None THEN "abandon" ELSE "clear"
    <2>1. /\ Busy(h) /\ t.op = "cancel" /\ Goto(h, p) /\ client' = client
          /\ UNCHANGED <<session, tmp, file, row, deletes>>
      BY <1>4 DEF ReadForCancel, At, Busy, disk
    <2>2. /\ p \in Places \ {"idle", "copy", "verify", "fill", "store"}
          /\ p \in PlacesOf(t.op)
      BY <2>1 DEF Places, PlacesOf
    <2>3. ControlOk' /\ GoesOn(h)
      BY <1>1, <2>1, <2>2, Goes
    <2>. QED  BY <1>1, <2>1, <2>3, StoresKept
  <1>. QED  BY <1>2, <1>3, <1>4 DEF Finish

LEMMA SingleSteps ==
    ASSUME Inv, NEW h \in Handlers, SingleShot(h)
    PROVE  StoreOk' /\ ControlOk' /\ Works(h)
  <1>. DEFINE t == handler[h]
              u == t.upload
  <1>. USE DEF Works
  <1>1. /\ StoreOk /\ ControlOk /\ t \in Handler /\ HandlerOk(t)
        /\ u \in Uploads /\ Live \in Targets
    BY InvParts, TargetOf
  <1>2. ASSUME Busy(h), t.op = "single", Goto(h, "row"), client' = client
        PROVE  ControlOk' /\ GoesOn(h)
    <2>1. "row" \in Places \ {"idle", "copy", "verify", "fill", "store"}
          /\ "row" \in PlacesOf(t.op)
      BY <1>2 DEF Places, PlacesOf
    <2>. QED  BY <1>1, <1>2, <2>1, Goes
  <1>3. CASE OverwriteLocal(h)
    <2>. DEFINE s == [t EXCEPT !.pc = "fill", !.linked = TRUE]
    <2>1. Busy(h) /\ t.op = "single" /\ Local
      BY <1>1, <1>3, ByPlace DEF OverwriteLocal, At, Busy
    <2>2. /\ s \in Handler /\ HandlerOk(s) /\ s.pc # "idle"
          /\ SameRequest(t, s)
      BY <1>1, <2>1 DEF Handler, HandlerOk, Places, PlacesOf, SameRequest
    <2>3. ControlOk' /\ GoesOn(h)
      BY <1>1, <1>3, <2>1, <2>2, Moves DEF OverwriteLocal
    <2>4. StoreOk'
      BY <1>1, <1>3, EmptyContent DEF OverwriteLocal, StoreOk
    <2>. QED  BY <2>3, <2>4
  <1>4. CASE FillLocal(h)
    <2>1. Busy(h) /\ t.op = "single" /\ t.pc = "fill"
      BY <1>1, <1>4, ByPlace DEF FillLocal, At, Busy
    <2>2. ControlOk' /\ GoesOn(h)
      BY <1>2, <1>4, <2>1 DEF FillLocal
    <2>3. t.linked => /\ file[Live] \in Content
                      /\ WriteAt(file[Live], 0, <<u, 0>>) \in Content
      <3>1. t.linked => file[Live] \in Content
        BY <1>1, <2>1, OpenFile, TargetOf
      <3>2. <<u, 0>> \in Piece /\ 0 \in Chunk
        BY <1>1, Sizes DEF Piece
      <3>. QED  BY <3>1, <3>2, Written
    <2>4. StoreOk'
      BY <1>1, <1>4, <2>3 DEF FillLocal, StoreOk
    <2>. QED  BY <2>2, <2>4
  <1>5. CASE PutBytes(h)
    <2>1. Busy(h) /\ t.op = "single"
      BY <1>1, <1>5, ByPlace DEF PutBytes, At, Busy
    <2>2. ControlOk' /\ GoesOn(h)
      BY <1>2, <1>5, <2>1 DEF PutBytes
    <2>3. StoreOk'
      BY <1>1, <1>5, WholeContent DEF PutBytes, StoreOk
    <2>. QED  BY <2>2, <2>3
  <1>. QED  BY <1>3, <1>4, <1>5 DEF SingleShot

LEMMA DeleteSteps ==
    ASSUME Inv, NEW h \in Handlers, Delete(h)
    PROVE  StoreOk' /\ ControlOk' /\ Works(h)
  <1>. DEFINE t == handler[h]
  <1>. USE DEF Works
  <1>1. /\ StoreOk /\ ControlOk /\ WaitInv /\ t \in Handler /\ HandlerOk(t)
        /\ Live \in Targets /\ "ok" \in Codes
    BY InvParts, TargetOf DEF Codes
  <1>2. CASE ReadRow(h)
    <2>1. /\ Busy(h) /\ t.op = "delete" /\ client' = client
          /\ UNCHANGED <<session, tmp, file, row, deletes>>
      BY <1>2 DEF ReadRow, At, Busy, disk
    <2>2. StoreOk'
      BY <1>1, <2>1, StoresKept
    <2>3. CASE Become(h, Idle)
      BY <1>1, <2>1, <2>2, <2>3, DeletionEnds
    <2>4. CASE Goto(h, "unlink")
      <3>1. "unlink" \in Places \ {"idle", "copy", "verify", "fill", "store"}
            /\ "unlink" \in PlacesOf(t.op)
        BY <2>1 DEF Places, PlacesOf
      <3>. QED  BY <1>1, <2>1, <2>2, <2>4, <3>1, Goes
    <2>. QED  BY <1>2, <2>3, <2>4 DEF ReadRow
  <1>3. CASE DeleteFile(h)
    <2>. DEFINE s == [t EXCEPT !.pc = "unrow"]
    <2>1. Busy(h) /\ t.op = "delete"
      BY <1>1, <1>3, ByPlace DEF DeleteFile, At, Busy
    <2>2. /\ s \in Handler /\ HandlerOk(s) /\ s.pc = "unrow"
          /\ SameRequest(t, s)
      BY <1>1, <2>1 DEF Handler, HandlerOk, Places, PlacesOf, SameRequest
    <2>3. handler' = [Unlinked(Live) EXCEPT ![h] = s]
      <3>1. Unlinked(Live)[h] = t
        BY <1>3 DEF DeleteFile, At, Unlinked
      <3>. QED  BY <1>3, <3>1 DEF DeleteFile, Unlinked
    <2>4. /\ handler' \in [Handlers -> Handler] /\ handler'[h] = s
          /\ OthersStay(h)
          /\ \A g \in Handlers : HandlerOk(handler'[g])
      BY <1>1, <2>2, <2>3, UnlinkedMoves
    <2>5. ControlOk' /\ GoesOn(h)
      BY <1>1, <1>3, <2>1, <2>2, <2>4
      DEF ControlOk, FormInv, GoesOn, DeleteFile
    <2>6. StoreOk'
      BY <1>1, <1>3 DEF DeleteFile, StoreOk
    <2>. QED  BY <2>5, <2>6
  <1>4. CASE DeleteRow(h)
    <2>1. Busy(h) /\ t.op = "delete"
      BY <1>1, <1>4, ByPlace DEF DeleteRow, At, Busy
    <2>2. ControlOk' /\ Replies(h, "ok")
      BY <1>1, <1>4, <2>1, DeletionEnds DEF DeleteRow
    <2>3. StoreOk'
      BY <1>1, <1>4 DEF DeleteRow, StoreOk, disk
    <2>. QED  BY <1>1, <2>2, <2>3
  <1>. QED  BY <1>2, <1>3, <1>4 DEF Delete

LEMMA FailureSteps ==
    ASSUME Inv, NEW h \in Handlers, IoFails(h)
    PROVE  StoreOk' /\ ControlOk' /\ Works(h)
  <1>. DEFINE t == handler[h]
  <1>. USE DEF Works
  <1>1. /\ StoreOk /\ ControlOk /\ t \in Handler /\ HandlerOk(t)
        /\ t.code \in Codes
        /\ "ok" \in Codes /\ "error" \in Codes /\ "missing" \in Codes
    BY InvParts DEF Handler, Codes
  <1>2. StoreOk'
    BY <1>1, StoresKept DEF IoFails, disk
  <1>3. CASE \E code \in Codes : Busy(h) /\ Reply(h, code)
    BY <1>1, <1>2, <1>3, ReplyOk
  <1>4. CASE /\ client' = client
             /\ \E p \in Places \ {"idle", "copy", "verify", "fill", "store"} :
                   /\ Busy(h) /\ p \in PlacesOf(t.op)
                   /\ \/ Goto(h, p)
                      \/ \E code \in Codes :
                            Become(h, [handler[h] EXCEPT !.pc = p,
                                                         !.code = code])
    BY <1>1, <1>2, <1>4, Goes
  <1>5. CASE /\ t.pc \in {"create", "copy", "verify", "store", "discard"}
             /\ Become(h, [t EXCEPT !.pc = "abandon", !.code = "error"])
             /\ client' = client
    <2>1. /\ Busy(h) /\ "abandon" \in PlacesOf(t.op)
          /\ "abandon" \in Places \ {"idle", "copy", "verify", "fill", "store"}
      BY <1>1, <1>5, ByPlace DEF Busy, Places, PlacesOf
    <2>. QED  BY <1>1, <1>4, <1>5, <2>1
  <1>6. CASE /\ t.pc = "row" /\ t.op = "complete"
             /\ Become(h, [t EXCEPT !.pc = "clear", !.code = "error"])
             /\ client' = client
    <2>1. /\ Busy(h) /\ "clear" \in PlacesOf(t.op)
          /\ "clear" \in Places \ {"idle", "copy", "verify", "fill", "store"}
      BY <1>6 DEF Busy, Places, PlacesOf
    <2>. QED  BY <1>1, <1>4, <1>6, <2>1
  <1>7. CASE /\ client' = client
             /\ \/ t.pc = "put" /\ Goto(h, "mkdir")
                \/ t.pc = "read" /\ t.op = "cancel" /\ Goto(h, "abandon")
                \/ t.pc = "clear" /\ Goto(h, "forget")
                \/ t.pc = "unlink" /\ Goto(h, "unrow")
    <2>1. PICK p \in {"mkdir", "abandon", "forget", "unrow"} :
             Busy(h) /\ p \in PlacesOf(t.op) /\ Goto(h, p)
      BY <1>1, <1>7, ByPlace DEF Busy, PlacesOf
    <2>2. p \in Places \ {"idle", "copy", "verify", "fill", "store"}
      BY DEF Places
    <2>. QED  BY <1>4, <1>7, <2>1, <2>2
  <1>8. IoFails(h) => Busy(h)
    BY DEF IoFails, Busy
  <1>. QED  BY <1>1, <1>3, <1>5, <1>6, <1>7, <1>8 DEF IoFails

-----------------------------------------------------------------------------
(* The clients, the cleaner, and a restart                                 *)

(* The client of u goes on by itself, and gives up or is told. *)
ClientMoves(u) == Begin(u) \/ GivesUp(u) \/ Abort(u) \/ Expire(u) \/ CleanupStale(u)

LEMMA BeginFacts ==
    ASSUME Inv, NEW u \in Uploads, Begin(u)
    PROVE  LET c == client[u] d == client'[u] IN
           /\ d \in Client /\ ClientOk(u, d)
           /\ c.phase = "new" /\ d.phase \in {"single", "initiate"}
           /\ d.next = c.next /\ d.waits = None
           /\ d.late = c.late /\ d.broken = c.broken
           /\ client' = [client EXCEPT ![u] = d]
  <1>. DEFINE p == IF u \in Singles THEN "single" ELSE "initiate"
              c == client[u]
  <1>1. c \in Client /\ ClientOk(u, c) /\ client \in [Uploads -> Client]
    BY InvParts DEF ControlOk, FormInv
  <1>2. p \in Phases
    BY DEF Phases
  <1>3. client' = [client EXCEPT ![u] = Enter(c, p)] /\ c.phase = "new"
    BY DEF Begin
  <1>. QED  BY <1>1, <1>2, <1>3, Entered DEF ClientOk

LEMMA GivesUpFacts ==
    ASSUME Inv, NEW u \in Uploads, GivesUp(u)
    PROVE  LET c == client[u] d == client'[u] IN
           /\ d \in Client /\ ClientOk(u, d)
           /\ c.waits # None
           /\ d.phase \in {c.phase, "cancel", "failed"}
           /\ d.phase = "cancel" => c.phase \in {"chunk", "cancel"}
           /\ c.phase = "initiate" => d.phase = "failed"
           /\ d.next = c.next /\ d.waits = None
           /\ d.late = TRUE /\ d.broken = c.broken
           /\ client' = [client EXCEPT ![u] = d]
  <1>. DEFINE c == client[u]
              r == c.phase # "initiate"
              e == Failed(c, r)
              d == [e EXCEPT !.late = TRUE]
  <1>1. c \in Client /\ ClientOk(u, c) /\ client \in [Uploads -> Client]
    BY InvParts DEF ControlOk, FormInv
  <1>2. client' = [client EXCEPT ![u] = d] /\ c.waits # None
    BY DEF GivesUp
  <1>3. /\ e \in Client /\ e.next = c.next /\ e.waits = None
        /\ e.broken = c.broken
        /\ \/ c.phase # "initiate" /\ e.phase = c.phase
           \/ e.phase = IF c.phase = "chunk" THEN "cancel" ELSE "failed"
    <2>1. r \in BOOLEAN
      OBVIOUS
    <2>. QED  BY <1>1, <2>1, FailedFacts
  <1>4. /\ d \in Client /\ d.next = c.next /\ d.waits = None
        /\ d.broken = c.broken /\ d.phase = e.phase /\ d.late = TRUE
    BY <1>3 DEF Client
  <1>5. client'[u] = d
    BY <1>1, <1>2
  <1>6. /\ d.phase \in {c.phase, "cancel", "failed"}
        /\ d.phase = "cancel" => c.phase \in {"chunk", "cancel"}
        /\ c.phase = "initiate" => d.phase = "failed"
    BY <1>3, <1>4
  <1>7. ClientOk(u, d)
    BY <1>1, <1>4, <1>6, FailedOk
  <1>. QED  BY <1>2, <1>4, <1>5, <1>6, <1>7

LEMMA AbortFacts ==
    ASSUME Inv, NEW u \in Uploads, Abort(u)
    PROVE  LET c == client[u] d == client'[u] IN
           /\ d \in Client /\ ClientOk(u, d)
           /\ ~Over(u)
           /\ d.phase \in {"cancel", "failed"}
           /\ d.phase = "cancel" => c.phase = "chunk"
           /\ d.next = c.next /\ d.waits = None
           /\ d.late = TRUE /\ d.broken = c.broken
           /\ client' = [client EXCEPT ![u] = d]
  <1>. DEFINE c == client[u]
  <1>1. c \in Client /\ ClientOk(u, c) /\ client \in [Uploads -> Client]
    BY InvParts DEF ControlOk, FormInv
  <1>2. PICK p \in {"failed", "cancel"} :
           /\ p = "cancel" => c.phase = "chunk"
           /\ client' = [client EXCEPT ![u] = [Enter(c, p) EXCEPT !.late = TRUE]]
    BY DEF Abort
  <1>. DEFINE e == Enter(c, p)
              d == [e EXCEPT !.late = TRUE]
  <1>3. /\ e \in Client /\ e.next = c.next /\ e.waits = None
        /\ e.broken = c.broken /\ e.phase = p
    BY <1>1, Entered DEF Phases
  <1>4. /\ d \in Client /\ d.next = c.next /\ d.waits = None
        /\ d.broken = c.broken /\ d.phase = p /\ d.late = TRUE
    BY <1>3 DEF Client
  <1>5. client'[u] = d
    BY <1>1, <1>2
  <1>. QED  BY <1>1, <1>2, <1>4, <1>5 DEF ClientOk, Abort

LEMMA ExpireFacts ==
    ASSUME Inv, NEW u \in Uploads, Expire(u)
    PROVE  LET c == client[u] d == client'[u] IN
           /\ d \in Client /\ ClientOk(u, d)
           /\ d.phase = c.phase /\ d.next = c.next /\ d.waits = c.waits
           /\ d.late = c.late /\ d.broken = (c.broken \/ ~Over(u))
           /\ client' = [client EXCEPT ![u] = d]
  <1>. DEFINE c == client[u]
              d == [c EXCEPT !.broken = @ \/ ~Over(u)]
  <1>1. c \in Client /\ ClientOk(u, c) /\ client \in [Uploads -> Client]
    BY InvParts DEF ControlOk, FormInv
  <1>2. client' = [client EXCEPT ![u] = d] /\ client'[u] = d
    BY <1>1 DEF Expire
  <1>3. (c.broken \/ ~Over(u)) \in BOOLEAN
    OBVIOUS
  <1>4. /\ d \in Client /\ d.phase = c.phase /\ d.next = c.next
        /\ d.waits = c.waits /\ d.late = c.late
        /\ d.broken = (c.broken \/ ~Over(u))
    BY <1>1, <1>3 DEF Client
  <1>. QED  BY <1>1, <1>2, <1>4 DEF ClientOk

OthersUntouched(h) == \A g \in Handlers \ {h} : handler'[g] = handler[g]

(* A client waits for the request it has sent. *)
Sent(u, h) ==
    /\ client' = [client EXCEPT ![u] = client'[u]]
    /\ handler' \in [Handlers -> Handler]
    /\ OthersUntouched(h)
    /\ client'[u] \in Client /\ ClientOk(u, client'[u])
    /\ handler'[h] \in Handler /\ HandlerOk(handler'[h])
    /\ ~Over(u) /\ client[u].waits = None /\ At(h, "idle")
    /\ client'[u].phase = client[u].phase
    /\ client'[u].next = client[u].next /\ client'[u].waits = h
    /\ client'[u].late = client[u].late
    /\ client'[u].broken = client[u].broken
    /\ handler'[h].op = client[u].phase /\ handler'[h].upload = u
    /\ handler'[h].linked = FALSE
    /\ handler'[h].chunk = IF client[u].phase = "chunk"
                           THEN client[u].next ELSE 0
    /\ client[u].phase = "initiate" => handler'[h].pc = "put"
    /\ client[u].phase = "single" => handler'[h].pc = "overwrite"
    /\ client[u].phase \notin {"initiate", "single"}
          => handler'[h].pc = "read"
    /\ handler'[h].pc \in {"put", "overwrite", "read"}
    /\ client[u].phase
          \in {"initiate", "chunk", "complete", "cancel", "single"}

LEMMA SendFacts ==
    ASSUME Inv, NEW u \in Uploads, NEW h \in Handlers, Send(u, h)
    PROVE  Sent(u, h)
  <1>. DEFINE c == client[u]
              d == [c EXCEPT !.waits = h]
              place == CASE c.phase = "initiate" -> "put"
                         [] c.phase = "single" -> "overwrite"
                         [] OTHER -> "read"
              i == IF c.phase = "chunk" THEN c.next ELSE 0
              t == Request(c.phase, place, u, i)
  <1>1. /\ c \in Client /\ ClientOk(u, c) /\ client \in [Uploads -> Client]
        /\ handler \in [Handlers -> Handler]
    BY InvParts DEF ControlOk, FormInv
  <1>2. /\ client' = [client EXCEPT ![u] = d] /\ client'[u] = d
        /\ handler' = [handler EXCEPT ![h] = t] /\ handler'[h] = t
        /\ ~Over(u) /\ c.waits = None /\ At(h, "idle")
    BY <1>1 DEF Send, Become
  <1>3. c.phase \in {"initiate", "chunk", "complete", "cancel", "single"}
    BY <1>1, <1>2 DEF Over, Client, Phases
  <1>4. i \in Chunk
    BY <1>1, Sizes DEF ClientOk, Client, Chunk
  <1>5. /\ d \in Client /\ d.phase = c.phase /\ d.next = c.next
        /\ d.waits = h /\ d.late = c.late /\ d.broken = c.broken
    BY <1>1 DEF Client
  <1>6. /\ t.op = c.phase /\ t.upload = u /\ t.chunk = i /\ t.pc = place
        /\ t.linked = FALSE /\ t.pos = 0 /\ t.at = 0
    BY DEF Request
  <1>7. /\ place \in Places /\ place \in {"put", "overwrite", "read"}
        /\ c.phase = "initiate" => place = "put"
        /\ c.phase = "single" => place = "overwrite"
        /\ c.phase \notin {"initiate", "single"} => place = "read"
    BY DEF Places
  <1>8. t \in Handler
    BY <1>3, <1>4, <1>7, Sizes DEF Request, Handler, Ops, Codes
  <1>9. HandlerOk(t)
    BY <1>1, <1>3, <1>6 DEF HandlerOk, PlacesOf, ClientOk
  <1>10. ClientOk(u, d)
    BY <1>1, <1>3, <1>5 DEF ClientOk
  <1>11. /\ c.phase = "initiate" => t.pc = "put"
         /\ c.phase = "single" => t.pc = "overwrite"
         /\ c.phase \notin {"initiate", "single"} => t.pc = "read"
         /\ t.pc \in {"put", "overwrite", "read"}
    BY <1>6, <1>7
  <1>. HIDE DEF t, d, i, place
  <1>12. /\ client' = [client EXCEPT ![u] = client'[u]]
         /\ handler' \in [Handlers -> Handler]
         /\ OthersUntouched(h)
    BY <1>1, <1>2, <1>8 DEF OthersUntouched
  <1>13. t.chunk = IF c.phase = "chunk" THEN c.next ELSE 0
    BY <1>6 DEF i
  <1>. QED  BY <1>2, <1>3, <1>5, <1>6, <1>8, <1>9, <1>10, <1>11, <1>12, <1>13
     DEF Sent

LEMMA DeletionFacts ==
    ASSUME Inv, NEW h \in Handlers, RequestDelete(h)
    PROVE  LET t == handler'[h] IN
           /\ t \in Handler /\ HandlerOk(t) /\ At(h, "idle")
           /\ t.op = "delete" /\ t.pc = "read"
           /\ handler' = [handler EXCEPT ![h] = t]
           /\ UNCHANGED <<session, disk, row, client>>
           /\ deletes' \in 0..MaxDeletes
  <1>. DEFINE t == [Idle EXCEPT !.pc = "read"]
  <1>1. handler' = [handler EXCEPT ![h] = t] /\ handler'[h] = t
    BY InvParts DEF RequestDelete, Become, ControlOk
  <1>2. /\ t \in Handler /\ HandlerOk(t) /\ t.op = "delete" /\ t.pc = "read"
    BY IdleOk DEF Handler, HandlerOk, Places, PlacesOf
  <1>3. deletes' \in 0..MaxDeletes
    BY InvParts, ConstantsAssumption DEF RequestDelete, StoreOk
  <1>. QED  BY <1>1, <1>2, <1>3 DEF RequestDelete

LEMMA RestartFacts ==
    ASSUME Inv, Restart
    PROVE  /\ handler' = [h \in Handlers |-> Idle]
           /\ client' \in [Uploads -> Client]
           /\ \A u \in Uploads :
                 LET c == client[u] d == client'[u] IN
                 /\ ClientOk(u, d) /\ d.next = c.next /\ d.waits = None
                 /\ d.late = c.late /\ d.broken = (c.broken \/ Struck(u))
                 /\ d.phase \in {c.phase, "cancel", "failed"}
                 /\ d.phase = "cancel" => c.phase \in {"chunk", "cancel"}
                 /\ c.waits = None => d.phase = c.phase
                 /\ c.phase = "initiate" => d.phase \in {"initiate", "failed"}
           /\ UNCHANGED <<session, disk, row, deletes>>
  <1>1. ASSUME NEW u \in Uploads
        PROVE  LET c == client[u]
                   e == IF c.waits = None THEN c
                        ELSE Failed(c, c.phase # "initiate")
                   d == [e EXCEPT !.broken = @ \/ Struck(u)]
               IN
               /\ d \in Client
               /\ ClientOk(u, d) /\ d.next = c.next /\ d.waits = None
               /\ d.late = c.late /\ d.broken = (c.broken \/ Struck(u))
               /\ d.phase \in {c.phase, "cancel", "failed"}
               /\ d.phase = "cancel" => c.phase \in {"chunk", "cancel"}
               /\ c.waits = None => d.phase = c.phase
               /\ c.phase = "initiate" => d.phase \in {"initiate", "failed"}
    <2>. DEFINE c == client[u]
                r == c.phase # "initiate"
                e == IF c.waits = None THEN c ELSE Failed(c, r)
                d == [e EXCEPT !.broken = @ \/ Struck(u)]
    <2>1. c \in Client /\ ClientOk(u, c)
      BY InvParts DEF ControlOk, FormInv
    <2>2. r \in BOOLEAN /\ (e.broken \/ Struck(u)) \in BOOLEAN
      OBVIOUS
    <2>3. /\ e \in Client /\ e.next = c.next /\ e.waits = None
          /\ e.broken = c.broken /\ e.late = c.late
          /\ \/ e.phase = c.phase
             \/ e.phase = IF c.phase = "chunk" THEN "cancel" ELSE "failed"
          /\ c.waits = None => e.phase = c.phase
      <3>1. CASE c.waits = None
        BY <2>1, <3>1
      <3>2. CASE c.waits # None
        <4>1. e = Failed(c, r)
          BY <3>2
        <4>. QED  BY <2>1, <2>2, <3>2, <4>1, FailedFacts
      <3>. QED  BY <3>1, <3>2
    <2>4. /\ d \in Client /\ d.next = c.next /\ d.waits = None
          /\ d.broken = (c.broken \/ Struck(u)) /\ d.late = c.late
          /\ d.phase = e.phase
      BY <2>2, <2>3 DEF Client
    <2>5. d.phase \in {c.phase, "cancel", "failed"}
      BY <2>3, <2>4
    <2>6. ClientOk(u, d)
      BY <2>1, <2>4, <2>5, FailedOk
    <2>. QED  BY <2>1, <2>3, <2>4, <2>5, <2>6
  <1>. QED  BY <1>1 DEF Restart

LEMMA SeveralSteps ==
    ASSUME Inv,
           \/ \E h \in Handlers : RequestDelete(h)
           \/ \E u \in Uploads, h \in Handlers : Send(u, h)
           \/ \E u \in Uploads : ClientMoves(u)
           \/ Restart
    PROVE  StoreOk' /\ ControlOk'
  <1>1. StoreOk /\ ControlOk
    BY InvParts
  <1>2. ASSUME NEW h \in Handlers, RequestDelete(h) PROVE StoreOk' /\ ControlOk'
    <2>1. StoreOk'
      BY <1>1, <1>2, DeletionFacts DEF StoreOk, disk
    <2>2. ControlOk'
      BY <1>1, <1>2, DeletionFacts DEF ControlOk, FormInv
    <2>. QED  BY <2>1, <2>2
  <1>3. ASSUME NEW u \in Uploads, NEW h \in Handlers, Send(u, h)
        PROVE  StoreOk' /\ ControlOk'
    <2>1. StoreOk'
      BY <1>1, <1>3 DEF StoreOk, Send, disk
    <2>2. ControlOk'
      <3>1. Sent(u, h)
        BY <1>3, SendFacts
      <3>. QED  BY <1>1, <3>1 DEF ControlOk, FormInv, Sent, OthersUntouched
    <2>. QED  BY <2>1, <2>2
  <1>4. ASSUME NEW u \in Uploads, NEW d \in Client, ClientOk(u, d),
               client' = [client EXCEPT ![u] = d], handler' = handler
        PROVE  ControlOk'
    BY <1>1, <1>4 DEF ControlOk, FormInv
  <1>5. ASSUME NEW u \in Uploads, ClientMoves(u) PROVE StoreOk' /\ ControlOk'
    <2>1. CASE Begin(u) \/ GivesUp(u) \/ Abort(u)
      <3>1. /\ UNCHANGED <<session, tmp, file, row, deletes>>
            /\ handler' = handler
        BY <2>1 DEF Begin, GivesUp, Abort, disk
      <3>2. /\ client'[u] \in Client /\ ClientOk(u, client'[u])
            /\ client' = [client EXCEPT ![u] = client'[u]]
        BY <2>1, BeginFacts, GivesUpFacts, AbortFacts
      <3>. QED  BY <1>1, <1>4, <3>1, <3>2, StoresKept
    <2>2. CASE Expire(u)
      <3>1. StoreOk' /\ handler' = handler
        BY <1>1, <2>2 DEF Expire, StoreOk, disk
      <3>. QED  BY <1>4, <2>2, <3>1, ExpireFacts
    <2>3. CASE CleanupStale(u)
      <3>1. StoreOk'
        BY <1>1, <2>3, TargetOf DEF CleanupStale, StoreOk, Targets
      <3>2. UNCHANGED <<handler, client>>
        BY <2>3 DEF CleanupStale
      <3>. QED  BY <1>1, <3>1, <3>2 DEF ControlOk, FormInv
    <2>. QED  BY <1>5, <2>1, <2>2, <2>3 DEF ClientMoves
  <1>6. CASE Restart
    <2>1. StoreOk'
      BY <1>1, <1>6, StoresKept, RestartFacts DEF disk
    <2>2. ControlOk'
      BY <1>1, <1>6, RestartFacts, IdleOk DEF ControlOk, FormInv
    <2>. QED  BY <2>1, <2>2
  <1>. QED  BY <1>2, <1>3, <1>5, <1>6

LEMMA HandleSteps ==
    ASSUME Inv, NEW h \in Handlers, Handle(h) \/ IoFails(h)
    PROVE  StoreOk' /\ ControlOk' /\ Works(h)
  BY UploadSteps, CompleteSteps, FinishSteps, SingleSteps, DeleteSteps,
     FailureSteps DEF Handle

-----------------------------------------------------------------------------
(* Requests fit their clients                                              *)

(* The other handlers have the requests they had. *)
LEMMA OthersSame ==
    ASSUME ControlOk, NEW h \in Handlers, OthersStay(h),
           NEW g \in Handlers \ {h}
    PROVE  /\ handler'[g].pc = handler[g].pc
           /\ SameRequest(handler[g], handler'[g])
           /\ handler'[g].linked => handler'[g] = handler[g]
           /\ handler'[g].seen = handler[g].seen
           /\ handler'[g].pos = handler[g].pos
           /\ handler'[g].at = handler[g].at
           /\ handler'[g].code = handler[g].code
  <1>1. handler[g] \in Handler
    BY DEF ControlOk
  <1>2. CASE handler'[g] = handler[g]
    BY <1>2 DEF SameRequest
  <1>3. CASE handler'[g] = [handler[g] EXCEPT !.linked = FALSE]
    BY <1>1, <1>3 DEF Handler, SameRequest
  <1>. QED  BY <1>2, <1>3 DEF OthersStay

LEMMA RepliesFacts ==
    ASSUME Inv, NEW h \in Handlers, NEW code \in Codes, Replies(h, code),
           NEW u \in Uploads
    PROVE  \/ client'[u] = client[u] /\ client[u].waits # h
           \/ /\ u = handler[h].upload /\ client[u].waits = h
              /\ handler[h].op = client[u].phase /\ handler[h].op # "delete"
              /\ Leads(u, client[u], client'[u], code)
  <1>. DEFINE v == handler[h].upload
  <1>1. /\ client \in [Uploads -> Client] /\ v \in Uploads
        /\ ClientOk(v, client[v]) /\ h # None
    BY InvParts, Sizes DEF ControlOk, FormInv, Handler
  <1>2. \A w \in Uploads : client[w].waits = h =>
           w = v /\ handler[h].op = client[w].phase
    BY <1>1, InvParts DEF WaitInv
  <1>3. \A w \in Uploads : client[w].phase # "delete"
    BY <1>1 DEF Client, Phases
  <1>4. Leads(v, client[v], Answered(v, client[v], code), code)
    BY <1>1, AnsweredFacts
  <1>. QED  BY <1>1, <1>2, <1>3, <1>4 DEF Replies

LEMMA FitWorks ==
    ASSUME Inv, NEW h \in Handlers, Works(h), ControlOk'
    PROVE  FitInv' /\ WaitInv'
  <1>1. /\ ControlOk /\ WaitInv /\ FitInv
        /\ \A u \in Uploads : ClientOk(u, client[u]) /\ client[u] \in Client
        /\ \A g \in Handlers : handler[g] \in Handler
        /\ None \notin Handlers
    BY InvParts, Sizes DEF Inv, ControlOk, FormInv
  <1>2. OthersStay(h)
    BY DEF Works, GoesOn, Replies
  <1>3. \A g \in Handlers \ {h} :
           handler'[g].pc = handler[g].pc /\ SameRequest(handler[g], handler'[g])
    BY <1>1, <1>2, OthersSame
  <1>4. \A g \in Handlers : handler[g].upload \in Uploads
    BY <1>1 DEF Handler
  <1>5. CASE GoesOn(h)
    <2>1. \A g \in Handlers : /\ Busy(g)' <=> Busy(g)
                              /\ SameRequest(handler[g], handler'[g])
      BY <1>3, <1>5 DEF GoesOn, Busy
    <2>2. FitInv'
      BY <1>1, <1>5, <2>1 DEF FitInv, Fits, GoesOn, SameRequest
    <2>3. WaitInv'
      <3>. SUFFICES ASSUME NEW u \in Uploads, client[u].waits # None
                    PROVE  LET t == handler'[client[u].waits] IN
                           t.pc # "idle" /\ t.upload = u
                           /\ t.op = client[u].phase
        BY <1>5 DEF WaitInv, GoesOn
      <3>1. client[u].waits \in Handlers
        BY <1>1 DEF Client
      <3>. QED  BY <1>1, <2>1, <3>1 DEF WaitInv, Busy, SameRequest
    <2>. QED  BY <2>2, <2>3
  <1>6. ASSUME NEW code \in Codes, Replies(h, code) PROVE FitInv' /\ WaitInv'
    <2>1. FitInv'
      <3>. SUFFICES ASSUME NEW g \in Handlers, Busy(g)', handler'[g].op # "delete"
                    PROVE  Fits(g, handler'[g], client'[handler'[g].upload])
        BY DEF FitInv
      <3>. DEFINE u == handler[g].upload
      <3>1. g # h
        BY <1>6, IdleOk DEF Replies, Busy
      <3>2. /\ Busy(g) /\ handler'[g].op = handler[g].op
            /\ handler'[g].upload = u /\ u \in Uploads
            /\ Fits(g, handler[g], client[u])
        BY <1>1, <1>3, <1>4, <3>1 DEF Busy, SameRequest, FitInv
      <3>3. CASE client'[u] = client[u]
        BY <3>2, <3>3 DEF Fits
      <3>4. CASE client[u].waits = h /\ Leads(u, client[u], client'[u], code)
        BY <1>1, <3>1, <3>2, <3>4 DEF Fits, Leads, ClientOk
      <3>. QED  BY <1>6, <3>2, <3>3, <3>4, RepliesFacts
    <2>2. WaitInv'
      <3>. SUFFICES ASSUME NEW u \in Uploads, client'[u].waits # None
                    PROVE  LET t == handler'[client'[u].waits] IN
                           t.pc # "idle" /\ t.upload = u
                           /\ t.op = client'[u].phase
        BY DEF WaitInv
      <3>1. client'[u] = client[u] /\ client[u].waits # h
        BY <1>6, RepliesFacts DEF Leads
      <3>2. client[u].waits \in Handlers \ {h}
        BY <1>1, <3>1 DEF Client
      <3>. QED  BY <1>1, <1>3, <3>1, <3>2 DEF WaitInv, SameRequest
    <2>. QED  BY <2>1, <2>2
  <1>. QED  BY <1>5, <1>6 DEF Works

LEMMA FitSeveral ==
    ASSUME Inv,
           \/ \E h \in Handlers : RequestDelete(h)
           \/ \E u \in Uploads, h \in Handlers : Send(u, h)
           \/ \E u \in Uploads : ClientMoves(u)
           \/ Restart
    PROVE  FitInv' /\ WaitInv'
  <1>1. /\ ControlOk /\ WaitInv /\ FitInv
        /\ client \in [Uploads -> Client] /\ handler \in [Handlers -> Handler]
        /\ \A u \in Uploads : ClientOk(u, client[u]) /\ client[u] \in Client
        /\ \A g \in Handlers : handler[g] \in Handler /\ handler[g].upload \in Uploads
        /\ None \notin Handlers
    BY InvParts, Sizes DEF Inv, ControlOk, FormInv, Handler
  <1>2. \A u \in Uploads : client[u].waits # None =>
           /\ client[u].waits \in Handlers /\ Busy(client[u].waits)
    BY <1>1 DEF WaitInv, Client, Busy
  <1>3. ASSUME NEW h \in Handlers, RequestDelete(h) PROVE FitInv' /\ WaitInv'
    <2>1. /\ ~Busy(h) /\ handler'[h].op = "delete" /\ client' = client
          /\ \A g \in Handlers \ {h} : handler'[g] = handler[g]
      BY <1>1, <1>3, DeletionFacts DEF At, Busy
    <2>2. FitInv'
      BY <1>1, <2>1 DEF FitInv, Busy
    <2>3. WaitInv'
      BY <1>1, <1>2, <2>1 DEF WaitInv
    <2>. QED  BY <2>2, <2>3
  <1>4. ASSUME NEW u \in Uploads, NEW h \in Handlers, Send(u, h)
        PROVE  FitInv' /\ WaitInv'
    <2>. DEFINE c == client[u]
                d == client'[u]
                t == handler'[h]
    <2>0. Sent(u, h)
      BY <1>4, SendFacts
    <2>1. /\ ~Busy(h) /\ c.waits = None
          /\ d.phase = c.phase /\ d.next = c.next /\ d.waits = h
          /\ t.op = c.phase /\ t.upload = u /\ t.pc # "idle"
          /\ c.phase \in {"initiate", "chunk", "complete", "cancel", "single"}
      BY <2>0 DEF Sent, At, Busy
    <2>2. /\ \A g \in Handlers \ {h} : handler'[g] = handler[g]
          /\ \A v \in Uploads \ {u} : client'[v] = client[v]
      BY <1>1, <2>0 DEF Sent, OthersUntouched
    <2>3. FitInv'
      <3>. SUFFICES ASSUME NEW g \in Handlers, Busy(g)', handler'[g].op # "delete"
                    PROVE  Fits(g, handler'[g], client'[handler'[g].upload])
        BY DEF FitInv
      <3>1. CASE g = h
        BY <1>1, <2>1, <3>1 DEF Fits, ClientOk
      <3>2. CASE g # h
        <4>1. handler'[g] = handler[g] /\ Busy(g)
              /\ Fits(g, handler[g], client[handler[g].upload])
          BY <1>1, <2>2, <3>2 DEF Busy, FitInv
        <4>2. CASE handler[g].upload = u
          BY <1>1, <2>1, <4>1, <4>2 DEF Fits
        <4>3. CASE handler[g].upload # u
          BY <1>1, <2>2, <4>1, <4>3
        <4>. QED  BY <4>2, <4>3
      <3>. QED  BY <3>1, <3>2
    <2>4. WaitInv'
      BY <1>1, <1>2, <2>1, <2>2 DEF WaitInv
    <2>. QED  BY <2>3, <2>4
  <1>5. ASSUME NEW u \in Uploads, handler' = handler,
               client' = [client EXCEPT ![u] = client'[u]],
               LET c == client[u] d == client'[u] IN
               /\ d.next = c.next
               /\ \/ d.waits = None
                  \/ d.waits = c.waits /\ d.phase = c.phase
               /\ \/ d.phase = c.phase /\ d.waits = c.waits
                  \/ d.phase = c.phase /\ c.phase # "initiate"
                  \/ d.phase = "cancel" /\ c.phase = "chunk"
                  \/ d.phase = "failed" /\ c.phase # "new"
                  \/ c.phase = "new" /\ d.phase \in {"single", "initiate"}
        PROVE  FitInv' /\ WaitInv'
    <2>. DEFINE c == client[u]
                d == client'[u]
    <2>1. \A v \in Uploads \ {u} : client'[v] = client[v]
      BY <1>1, <1>5
    <2>2. FitInv'
      <3>. SUFFICES ASSUME NEW g \in Handlers, Busy(g), handler[g].op # "delete"
                    PROVE  Fits(g, handler[g], client'[handler[g].upload])
        BY <1>5 DEF FitInv, Busy
      <3>1. Fits(g, handler[g], client[handler[g].upload])
        BY <1>1 DEF FitInv
      <3>2. CASE handler[g].upload = u
        BY <1>5, <3>1, <3>2 DEF Fits
      <3>3. CASE handler[g].upload # u
        BY <1>1, <2>1, <3>1, <3>3
      <3>. QED  BY <3>2, <3>3
    <2>3. WaitInv'
      BY <1>1, <1>5, <2>1 DEF WaitInv
    <2>. QED  BY <2>2, <2>3
  <1>6. ASSUME NEW u \in Uploads, ClientMoves(u) PROVE FitInv' /\ WaitInv'
    <2>1. CASE Begin(u)
      <3>1. handler' = handler
        BY <2>1 DEF Begin
      <3>. QED  BY <1>5, <2>1, <3>1, BeginFacts
    <2>2. CASE GivesUp(u)
      <3>1. handler' = handler
        BY <2>2 DEF GivesUp
      <3>2. client[u].phase # "new"
        BY <1>1, <2>2 DEF GivesUp, ClientOk
      <3>. QED  BY <1>5, <2>2, <3>1, <3>2, GivesUpFacts
    <2>3. CASE Abort(u)
      <3>1. handler' = handler
        BY <2>3 DEF Abort
      <3>2. client[u].phase # "new"
        BY <2>3 DEF Abort, Over
      <3>. QED  BY <1>5, <2>3, <3>1, <3>2, AbortFacts
    <2>4. CASE Expire(u)
      <3>1. handler' = handler
        BY <2>4 DEF Expire
      <3>. QED  BY <1>5, <2>4, <3>1, ExpireFacts
    <2>5. CASE CleanupStale(u)
      BY <1>1, <2>5 DEF CleanupStale, FitInv, WaitInv, Busy
    <2>. QED  BY <1>6, <2>1, <2>2, <2>3, <2>4, <2>5 DEF ClientMoves
  <1>7. CASE Restart
    BY <1>7, RestartFacts, IdleOk DEF FitInv, WaitInv, Busy
  <1>. QED  BY <1>3, <1>4, <1>6, <1>7

-----------------------------------------------------------------------------
(* The open files and the fresh sessions, and the invariant                *)

LEMMA OpenKept ==
    ASSUME Inv, NEW h \in Handlers, OthersStay(h),
           \A x \in Targets : file[x] # None => file'[x] # None,
           handler'[h].pc \in {"copy", "fill"} /\ handler'[h].linked
               => file'[Target(handler'[h])] # None
    PROVE  OpenInv'
  <1>. SUFFICES ASSUME NEW g \in Handlers,
                       handler'[g].pc \in {"copy", "fill"}, handler'[g].linked
                PROVE  file'[Target(handler'[g])] # None
    BY DEF OpenInv
  <1>1. CASE g = h
    BY <1>1
  <1>2. CASE g # h
    <2>1. handler'[g] = handler[g]
      BY <1>2, InvParts, OthersSame
    <2>. QED  BY <2>1, OpenFile, ContentFacts
  <1>. QED  BY <1>1, <1>2

(* A file loses its name, and who had it open knows. *)
LEMMA OpenRemoved ==
    ASSUME Inv, NEW h \in Handlers, NEW target \in Targets, NEW t \in Handler,
           handler' = [Unlinked(target) EXCEPT ![h] = t],
           file' = [file EXCEPT ![target] = None],
           t.pc \notin {"copy", "fill"}
    PROVE  OpenInv'
  <1>. SUFFICES ASSUME NEW g \in Handlers,
                       handler'[g].pc \in {"copy", "fill"}, handler'[g].linked
                PROVE  file'[Target(handler'[g])] # None
    BY DEF OpenInv
  <1>1. /\ handler'[h] = t /\ OthersStay(h)
        /\ g # h => Target(handler'[g]) # target
    BY InvParts, UnlinkedMoves
  <1>2. g # h /\ handler'[g] = handler[g]
    BY <1>1, InvParts, OthersSame
  <1>3. /\ file[Target(handler[g])] # None
        /\ Target(handler[g]) \in Targets
    BY <1>2, OpenFile, ContentFacts
  <1>. QED  BY <1>1, <1>2, <1>3, InvParts DEF StoreOk

LEMMA WrittenNotNone ==
    \A f \in Content, pos \in Chunk, piece \in Piece :
        WriteAt(f, pos, piece) # None
  BY Written, ContentFacts

LEMMA OpenHandles ==
    ASSUME Inv, NEW h \in Handlers, Handle(h) \/ IoFails(h)
    PROVE  OpenInv'
  <1>. DEFINE t == handler[h]
              u == t.upload
              x == Target(t)
  <1>1. /\ StoreOk /\ ControlOk /\ t \in Handler /\ HandlerOk(t)
        /\ u \in Uploads /\ x \in Targets /\ u \in Targets /\ Live \in Targets
        /\ handler \in [Handlers -> Handler]
        /\ file \in [Targets -> Content \union {None}]
    BY InvParts, TargetOf DEF StoreOk, ControlOk
  <1>2. OthersStay(h)
    BY HandleSteps DEF Works, GoesOn, Replies
  <1>3. ASSUME file' = file, handler'[h].pc \notin {"copy", "fill"}
        PROVE  OpenInv'
    BY <1>2, <1>3, OpenKept
  <1>4. ASSUME file' = file, NEW code \in Codes, Reply(h, code)
        PROVE  OpenInv'
    <2>1. handler'[h] = Idle
      BY <1>1, <1>4 DEF Reply, Become
    <2>. QED  BY <1>3, <1>4, <2>1, IdleOk
  <1>5. ASSUME file' = file, NEW p \in Places \ {"copy", "fill"}, Goto(h, p)
        PROVE  OpenInv'
    <2>1. handler'[h].pc = p
      BY <1>1, <1>5 DEF Goto, Become, Handler
    <2>. QED  BY <1>3, <1>5, <2>1
  <1>6. ASSUME file' = file, NEW p \in Places \ {"copy", "fill"},
               NEW code \in Codes,
               Become(h, [t EXCEPT !.pc = p, !.code = code])
        PROVE  OpenInv'
    <2>1. handler'[h].pc = p
      BY <1>1, <1>6 DEF Become, Handler
    <2>. QED  BY <1>3, <1>6, <2>1
  <1>7. "ok" \in Codes /\ "error" \in Codes /\ "missing" \in Codes
    BY DEF Codes
  <1>8. {"mkdir", "write", "record", "create", "abandon", "verify", "discard", "row",
         "store", "clear", "forget", "unlink", "unrow", "open"}
           \subseteq Places \ {"copy", "fill"}
    BY DEF Places
  <1>9. CASE Upload(h)
    <2>1. file' = file
      BY <1>9 DEF Upload, StoreSession, MakeDirectory, ReadForChunk, OpenChunk,
                  WriteChunk, RecordChunk, disk
    <2>2. CASE StoreSession(h)
      BY <1>5, <1>8, <2>1, <2>2 DEF StoreSession
    <2>3. CASE MakeDirectory(h)
      BY <1>4, <1>7, <2>1, <2>3 DEF MakeDirectory
    <2>4. CASE ReadForChunk(h)
      <3>1. CASE Become(h, [t EXCEPT !.pc = "open", !.seen = session[u]])
        <4>1. handler'[h].pc = "open"
          BY <1>1, <3>1 DEF Become, Handler
        <4>. QED  BY <1>3, <2>1, <4>1
      <3>. QED  BY <1>4, <1>7, <2>1, <2>4, <3>1 DEF ReadForChunk
    <2>5. CASE OpenChunk(h)
      BY <1>4, <1>5, <1>7, <1>8, <2>1, <2>5 DEF OpenChunk
    <2>6. CASE WriteChunk(h)
      BY <1>5, <1>8, <2>1, <2>6 DEF WriteChunk
    <2>7. CASE RecordChunk(h)
      BY <1>4, <1>7, <2>1, <2>7 DEF RecordChunk
    <2>. QED  BY <1>9, <2>2, <2>3, <2>4, <2>5, <2>6, <2>7 DEF Upload
  <1>10. CASE Complete(h)
    <2>1. CASE ReadForComplete(h)
      BY <1>4, <1>5, <1>7, <1>8, <2>1 DEF ReadForComplete, disk
    <2>2. CASE CreateTarget(h)
      <3>. DEFINE s == [t EXCEPT !.pc = "copy", !.pos = 0, !.at = 0,
                                 !.linked = TRUE]
      <3>1. file' = [file EXCEPT ![x] = <<>>] /\ handler'[h] = s
        BY <1>1, <2>2 DEF CreateTarget, Become
      <3>2. Target(s) = x
        BY <1>1 DEF Target, Handler
      <3>3. <<>> # None
        BY EmptyContent, ContentFacts
      <3>. QED  BY <1>1, <1>2, <3>1, <3>2, <3>3, OpenKept
    <2>3. CASE CopyChunk(h)
      <3>. DEFINE state == IF tmp[u] = None THEN "absent" ELSE tmp[u][t.pos]
                  copied == IF state = "whole" THEN 1 ELSE 0
                  s == [t EXCEPT !.pos = @ + 1, !.at = @ + copied,
                                 !.pc = IF t.pos + 1 = ChunksOf[u]
                                        THEN "verify" ELSE "copy"]
      <3>1. t.pc = "copy" /\ t.pos < ChunksOf[u] /\ t.at <= t.pos
            /\ t.pos \in Nat /\ t.at \in Nat
        BY <1>1, <2>3, Sizes DEF CopyChunk, At, HandlerOk, Handler
      <3>2. t.at \in Chunk /\ <<u, t.pos>> \in Piece
        BY <1>1, <3>1, Sizes DEF Chunk, Piece
      <3>3. \A y \in Targets : file[y] # None => file'[y] # None
        <4>1. CASE copied = 1 /\ t.linked
          <5>1. file' = [file EXCEPT ![x] = WriteAt(@, t.at, <<u, t.pos>>)]
            BY <2>3, <4>1 DEF CopyChunk
          <5>2. file[x] \in Content
            BY <3>1, <4>1, OpenFile
          <5>. QED  BY <1>1, <3>2, <5>1, <5>2, WrittenNotNone
        <4>2. CASE ~(copied = 1 /\ t.linked)
          BY <2>3, <4>2 DEF CopyChunk
        <4>. QED  BY <4>1, <4>2
      <3>4. CASE state = "absent"
        <4>1. Become(h, [t EXCEPT !.pc = "abandon", !.code = "error"])
          BY <2>3, <3>4 DEF CopyChunk
        <4>2. handler'[h].pc = "abandon"
          BY <1>1, <4>1 DEF Become, Handler
        <4>. QED  BY <1>2, <3>3, <4>2, OpenKept
      <3>5. CASE state # "absent"
        <4>1. handler'[h] = s
          BY <1>1, <2>3, <3>5 DEF CopyChunk, Become
        <4>2. Target(s) = x /\ s.linked = t.linked
          BY <1>1 DEF Target, Handler
        <4>3. t.linked => file[x] # None
          BY <3>1, OpenFile, ContentFacts
        <4>. QED  BY <1>1, <1>2, <3>3, <4>1, <4>2, <4>3, OpenKept
      <3>. QED  BY <3>4, <3>5
    <2>4. CASE VerifySize(h)
      <3>. DEFINE p == IF Local THEN "row" ELSE "store"
      <3>1. file' = file
        BY <2>4 DEF VerifySize, disk
      <3>2. CASE Become(h, [t EXCEPT !.pc = "abandon", !.code = "error"])
        BY <1>6, <1>7, <1>8, <3>1, <3>2
      <3>3. CASE Become(h, [t EXCEPT !.pc = "discard"])
        BY <1>5, <1>8, <3>1, <3>3 DEF Goto
      <3>4. CASE Become(h, [t EXCEPT !.pc = p])
        BY <1>5, <1>8, <3>1, <3>4 DEF Goto
      <3>. QED  BY <2>4, <3>2, <3>3, <3>4 DEF VerifySize
    <2>5. CASE Discard(h)
      <3>. DEFINE s == [t EXCEPT !.pc = "abandon", !.code = "error"]
      <3>1. s \in Handler /\ s.pc = "abandon"
        BY <1>1 DEF Handler, Places, Codes
      <3>. QED  BY <1>1, <2>5, <3>1, OpenRemoved DEF Discard
    <2>6. CASE PutObject(h)
      <3>1. CASE file[u] = None
        BY <1>6, <1>7, <1>8, <2>6, <3>1 DEF PutObject
      <3>2. CASE file[u] # None
        <4>1. file' = [file EXCEPT ![Live] = file[u]] /\ Goto(h, "row")
          BY <2>6, <3>2 DEF PutObject
        <4>2. handler'[h].pc = "row"
          BY <1>1, <4>1 DEF Goto, Become, Handler
        <4>. QED  BY <1>1, <1>2, <3>2, <4>1, <4>2, OpenKept
      <3>. QED  BY <3>1, <3>2
    <2>7. CASE UpsertRow(h)
      BY <1>4, <1>5, <1>7, <1>8, <2>7 DEF UpsertRow, disk
    <2>. QED  BY <1>10, <2>1, <2>2, <2>3, <2>4, <2>5, <2>6, <2>7 DEF Complete
  <1>11. CASE Finish(h)
    <2>1. CASE CleanupTemp(h)
      <3>. DEFINE s == IF t.pc = "clear" THEN [t EXCEPT !.pc = "forget"]
                       ELSE Idle
      <3>1. [t EXCEPT !.pc = "forget"] \in Handler
            /\ [t EXCEPT !.pc = "forget"].pc = "forget"
        BY <1>1 DEF Handler, Places
      <3>2. s \in Handler /\ s.pc \notin {"copy", "fill"}
        BY <3>1, IdleOk
      <3>. QED  BY <1>1, <2>1, <3>2, OpenRemoved DEF CleanupTemp
    <2>2. CASE DeleteSession(h)
      BY <1>1, <1>4, <2>2 DEF DeleteSession, disk, Handler
    <2>3. CASE ReadForCancel(h)
      BY <1>5, <1>8, <2>3 DEF ReadForCancel, disk
    <2>. QED  BY <1>11, <2>1, <2>2, <2>3 DEF Finish
  <1>12. CASE SingleShot(h)
    <2>1. CASE OverwriteLocal(h)
      <3>. DEFINE s == [t EXCEPT !.pc = "fill", !.linked = TRUE]
      <3>1. file' = [file EXCEPT ![Live] = <<>>] /\ handler'[h] = s
        BY <1>1, <2>1 DEF OverwriteLocal, Become
      <3>2. Target(s) = Live
        BY <2>1 DEF OverwriteLocal, Target
      <3>3. <<>> # None
        BY EmptyContent, ContentFacts
      <3>. QED  BY <1>1, <1>2, <3>1, <3>2, <3>3, OpenKept
    <2>2. CASE FillLocal(h)
      <3>1. t.pc = "fill" /\ t.op = "single" /\ x = Live
        BY <1>1, <2>2, ByPlace, TargetOf DEF FillLocal, At
      <3>2. <<u, 0>> \in Piece /\ 0 \in Chunk
        BY <1>1, Sizes DEF Piece
      <3>3. t.linked => file[Live] \in Content
        BY <3>1, OpenFile
      <3>4. \A y \in Targets : file[y] # None => file'[y] # None
        BY <1>1, <2>2, <3>2, <3>3, WrittenNotNone DEF FillLocal
      <3>5. handler'[h].pc = "row"
        BY <1>1, <2>2 DEF FillLocal, Goto, Become, Handler
      <3>. QED  BY <1>2, <3>4, <3>5, OpenKept
    <2>3. CASE PutBytes(h)
      <3>1. handler'[h].pc = "row"
        BY <1>1, <2>3 DEF PutBytes, Goto, Become, Handler
      <3>2. Whole(u) # None
        BY <1>1, WholeContent, ContentFacts
      <3>3. \A y \in Targets : file[y] # None => file'[y] # None
        BY <1>1, <2>3, <3>2 DEF PutBytes
      <3>. QED  BY <1>2, <3>1, <3>3, OpenKept
    <2>. QED  BY <1>12, <2>1, <2>2, <2>3 DEF SingleShot
  <1>13. CASE Delete(h)
    <2>1. CASE ReadRow(h)
      <3>1. file' = file
        BY <2>1 DEF ReadRow, disk
      <3>2. CASE Become(h, Idle)
        <4>1. handler'[h] = Idle
          BY <1>1, <3>2 DEF Become
        <4>. QED  BY <1>3, <3>1, <4>1, IdleOk
      <3>. QED  BY <1>5, <1>8, <2>1, <3>1, <3>2 DEF ReadRow
    <2>2. CASE DeleteFile(h)
      <3>. DEFINE s == [t EXCEPT !.pc = "unrow"]
      <3>1. s \in Handler /\ s.pc = "unrow"
        BY <1>1 DEF Handler, Places
      <3>2. Unlinked(Live)[h] = t
        BY <2>2 DEF DeleteFile, At, Unlinked
      <3>3. handler' = [Unlinked(Live) EXCEPT ![h] = s]
        BY <2>2, <3>2 DEF DeleteFile, Unlinked
      <3>. QED  BY <1>1, <2>2, <3>1, <3>3, OpenRemoved DEF DeleteFile
    <2>3. CASE DeleteRow(h)
      <3>1. handler'[h] = Idle /\ file' = file
        BY <1>1, <2>3 DEF DeleteRow, Become, disk
      <3>. QED  BY <1>3, <3>1, IdleOk
    <2>. QED  BY <1>13, <2>1, <2>2, <2>3 DEF Delete
  <1>14. CASE IoFails(h)
    <2>1. file' = file
      BY <1>14 DEF IoFails, disk
    <2>2. t.code \in Codes
      BY <1>1 DEF Handler
    <2>. QED  BY <1>4, <1>5, <1>6, <1>7, <1>8, <1>14, <2>1, <2>2 DEF IoFails
  <1>. QED  BY <1>9, <1>10, <1>11, <1>12, <1>13, <1>14 DEF Handle

LEMMA OpenSeveral ==
    ASSUME Inv,
           \/ \E h \in Handlers : RequestDelete(h)
           \/ \E u \in Uploads, h \in Handlers : Send(u, h)
           \/ \E u \in Uploads : ClientMoves(u)
           \/ Restart
    PROVE  OpenInv'
  <1>1. /\ OpenInv /\ file \in [Targets -> Content \union {None}]
        /\ handler \in [Handlers -> Handler]
    BY InvParts DEF StoreOk, ControlOk
  <1>2. ASSUME NEW h \in Handlers, RequestDelete(h) PROVE OpenInv'
    <2>1. /\ handler' = [handler EXCEPT ![h] = handler'[h]]
          /\ handler'[h].pc = "read" /\ file' = file
      BY <1>2, DeletionFacts DEF disk
    <2>. QED  BY <1>1, <2>1 DEF OpenInv
  <1>3. ASSUME NEW u \in Uploads, NEW h \in Handlers, Send(u, h)
        PROVE  OpenInv'
    <2>1. Sent(u, h) /\ file' = file
      BY <1>3, SendFacts DEF Send, disk
    <2>. QED  BY <1>1, <2>1 DEF OpenInv, Sent, OthersUntouched
  <1>4. ASSUME NEW u \in Uploads, ClientMoves(u) PROVE OpenInv'
    <2>1. CASE Begin(u) \/ GivesUp(u) \/ Abort(u) \/ Expire(u)
      <3>1. handler' = handler /\ file' = file
        BY <2>1 DEF Begin, GivesUp, Abort, Expire, disk
      <3>. QED  BY <1>1, <3>1 DEF OpenInv
    <2>2. CASE CleanupStale(u)
      <3>. SUFFICES ASSUME NEW h \in Handlers,
                           handler[h].pc \in {"copy", "fill"}, handler[h].linked
                    PROVE  file'[Target(handler[h])] # None
        BY <2>2 DEF OpenInv, CleanupStale
      <3>1. handler[h] \in Handler /\ Target(handler[h]) \in Targets
        BY <1>1, TargetOf
      <3>2. handler[h].upload # u
        BY <2>2 DEF CleanupStale, Working
      <3>3. Target(handler[h]) # u
        BY <3>1, <3>2, NothingAssumption DEF Target
      <3>. QED  BY <1>1, <2>2, <3>1, <3>3 DEF CleanupStale, OpenInv
    <2>. QED  BY <1>4, <2>1, <2>2 DEF ClientMoves
  <1>5. CASE Restart
    BY <1>5, RestartFacts, IdleOk DEF OpenInv
  <1>. QED  BY <1>2, <1>3, <1>4, <1>5

(* No step takes a client back to its beginning. *)
Begins(u) ==
    /\ client'[u].phase = "new" => client[u].phase = "new"
    /\ client'[u].phase = "initiate" => client[u].phase \in {"new", "initiate"}

LEMMA HandleBegins ==
    ASSUME Inv, NEW h \in Handlers, Works(h), NEW u \in Uploads
    PROVE  Begins(u)
  <1>1. CASE GoesOn(h)
    BY <1>1 DEF GoesOn, Begins
  <1>2. ASSUME NEW code \in Codes, Replies(h, code) PROVE Begins(u)
    <2>1. CASE client'[u] = client[u]
      BY <2>1 DEF Begins
    <2>2. CASE Leads(u, client[u], client'[u], code)
      BY <2>2 DEF Leads, Begins
    <2>. QED  BY <1>2, <2>1, <2>2, RepliesFacts
  <1>. QED  BY <1>1, <1>2 DEF Works

LEMMA SeveralBegin ==
    ASSUME Inv, NEW u \in Uploads,
           \/ \E h \in Handlers : RequestDelete(h)
           \/ \E v \in Uploads, h \in Handlers : Send(v, h)
           \/ \E v \in Uploads : ClientMoves(v)
           \/ Restart
    PROVE  Begins(u)
  <1>1. client \in [Uploads -> Client]
    BY InvParts DEF ControlOk
  <1>2. ASSUME NEW h \in Handlers, RequestDelete(h) PROVE Begins(u)
    BY <1>2 DEF RequestDelete, Begins
  <1>3. ASSUME NEW v \in Uploads, NEW h \in Handlers, Send(v, h)
        PROVE  Begins(u)
    <2>1. Sent(v, h)
      BY <1>3, SendFacts
    <2>. QED  BY <1>1, <2>1 DEF Sent, Begins
  <1>4. ASSUME NEW v \in Uploads, ClientMoves(v) PROVE Begins(u)
    <2>1. CASE Begin(v)
      BY <1>1, <2>1, BeginFacts DEF Begins
    <2>2. CASE GivesUp(v)
      BY <1>1, <2>2, GivesUpFacts DEF Begins
    <2>3. CASE Abort(v)
      BY <1>1, <2>3, AbortFacts DEF Begins
    <2>4. CASE Expire(v)
      BY <1>1, <2>4, ExpireFacts DEF Begins
    <2>5. CASE CleanupStale(v)
      BY <2>5 DEF CleanupStale, Begins
    <2>. QED  BY <1>4, <2>1, <2>2, <2>3, <2>4, <2>5 DEF ClientMoves
  <1>5. CASE Restart
    BY <1>5, RestartFacts DEF Begins
  <1>. QED  BY <1>2, <1>3, <1>4, <1>5

(* Who changes a session. *)
LEMMA SessionSteps ==
    ASSUME NEW h \in Handlers, Handle(h) \/ IoFails(h)
    PROVE  session' = session
              \/ StoreSession(h) \/ RecordChunk(h) \/ DeleteSession(h)
  BY DEF Handle, Upload, Complete, Finish, SingleShot, Delete, MakeDirectory,
         ReadForChunk, OpenChunk, WriteChunk, ReadForComplete, CreateTarget,
         CopyChunk, VerifySize, Discard, PutObject, UpsertRow, CleanupTemp,
         ReadForCancel, OverwriteLocal, FillLocal, PutBytes, ReadRow,
         DeleteFile, DeleteRow, IoFails

LEMMA FreshHandles ==
    ASSUME Inv, NEW h \in Handlers, Handle(h) \/ IoFails(h)
    PROVE  FreshInv'
  <1>. DEFINE t == handler[h]
  <1>1. /\ StoreOk /\ ControlOk /\ FreshInv /\ FitInv
        /\ t \in Handler /\ HandlerOk(t) /\ t.upload \in Uploads
    BY InvParts DEF Inv, Handler
  <1>2. \A u \in Uploads : Begins(u)
    BY HandleSteps, HandleBegins
  <1>3. CASE session' = session
    BY <1>1, <1>2, <1>3 DEF FreshInv, Begins
  <1>4. CASE StoreSession(h)
    <2>1. Busy(h) /\ t.op = "initiate" /\ client' = client
      BY <1>1, <1>4, ByPlace DEF StoreSession, At, Busy
    <2>2. client[t.upload].phase # "new"
      BY <1>1, <2>1 DEF FitInv, Fits
    <2>. QED  BY <1>1, <1>4, <2>1, <2>2 DEF FreshInv, StoreSession, StoreOk
  <1>5. CASE RecordChunk(h)
    <2>1. Busy(h) /\ t.op = "chunk"
      BY <1>1, <1>5, ByPlace DEF RecordChunk, At, Busy
    <2>2. client[t.upload].phase \notin {"new", "initiate"}
      BY <1>1, <2>1 DEF FitInv, Fits
    <2>. QED  BY <1>1, <1>2, <1>5, <2>2
              DEF FreshInv, RecordChunk, StoreOk, Begins
  <1>6. CASE DeleteSession(h)
    BY <1>1, <1>2, <1>6 DEF FreshInv, DeleteSession, StoreOk, Begins
  <1>. QED  BY <1>3, <1>4, <1>5, <1>6, SessionSteps

LEMMA FreshSeveral ==
    ASSUME Inv,
           \/ \E h \in Handlers : RequestDelete(h)
           \/ \E u \in Uploads, h \in Handlers : Send(u, h)
           \/ \E u \in Uploads : ClientMoves(u)
           \/ Restart
    PROVE  FreshInv'
  <1>1. FreshInv /\ StoreOk
    BY InvParts DEF Inv
  <1>2. \A u \in Uploads : Begins(u)
    BY SeveralBegin
  <1>3. CASE session' = session
    BY <1>1, <1>2, <1>3 DEF FreshInv, Begins
  <1>4. ASSUME NEW u \in Uploads, Expire(u) PROVE FreshInv'
    BY <1>1, <1>2, <1>4 DEF FreshInv, Expire, StoreOk, Begins
  <1>. QED  BY <1>3, <1>4 DEF RequestDelete, Send, ClientMoves, Begin, GivesUp,
                              Abort, CleanupStale, Restart

LEMMA InvStarts == Init => Inv
  <1>. SUFFICES ASSUME Init PROVE Inv
    OBVIOUS
  <1>1. TypeOK
    <2>. DEFINE c == [phase |-> "new", next |-> 0, tries |-> 0, waits |-> None,
                      late |-> FALSE, broken |-> FALSE]
    <2>1. c \in Client
      BY ConstantsAssumption, Sizes DEF Client, Phases
    <2>2. deletes \in 0..MaxDeletes
      BY ConstantsAssumption DEF Init
    <2>. QED  BY <2>1, <2>2, IdleOk DEF Init, TypeOK
  <1>2. \A h \in Handlers : handler[h] = Idle /\ ~Busy(h)
    BY IdleOk DEF Init, Busy
  <1>3. \A u \in Uploads :
           /\ client[u].phase = "new" /\ client[u].next = 0
           /\ client[u].waits = None
    BY DEF Init
  <1>4. FormInv
    BY <1>2, <1>3, IdleOk DEF FormInv, ClientOk
  <1>5. FitInv /\ WaitInv /\ OpenInv
    BY <1>2, <1>3, IdleOk DEF FitInv, WaitInv, OpenInv
  <1>6. FreshInv
    BY <1>3 DEF FreshInv, Init
  <1>. QED  BY <1>1, <1>4, <1>5, <1>6 DEF Inv

LEMMA NextIs ==
    ASSUME Next
    PROVE  \/ \E h \in Handlers : Handle(h) \/ IoFails(h)
           \/ \E h \in Handlers : RequestDelete(h)
           \/ \E u \in Uploads, h \in Handlers : Send(u, h)
           \/ \E u \in Uploads : ClientMoves(u)
           \/ Restart
  BY DEF Next, ClientMoves

LEMMA InvSteps == Inv /\ [Next]_vars => Inv'
  <1>. SUFFICES ASSUME Inv, [Next]_vars PROVE Inv'
    OBVIOUS
  <1>1. StoreOk /\ ControlOk => TypeOK /\ FormInv
    BY DEF StoreOk, ControlOk, TypeOK
  <1>2. (StoreOk /\ ControlOk => TypeOK /\ FormInv)'
    BY DEF StoreOk, ControlOk, TypeOK
  <1>3. ASSUME NEW h \in Handlers, Handle(h) \/ IoFails(h) PROVE Inv'
    BY <1>2, <1>3, HandleSteps, FitWorks, OpenHandles, FreshHandles DEF Inv
  <1>4. CASE \/ \E h \in Handlers : RequestDelete(h)
             \/ \E u \in Uploads, h \in Handlers : Send(u, h)
             \/ \E u \in Uploads : ClientMoves(u)
             \/ Restart
    BY <1>2, <1>4, SeveralSteps, FitSeveral, OpenSeveral, FreshSeveral DEF Inv
  <1>5. CASE UNCHANGED vars
    BY <1>5 DEF vars, disk, Inv, TypeOK, FormInv, FitInv, WaitInv, OpenInv,
                FreshInv, Busy
  <1>. QED  BY <1>3, <1>4, <1>5, NextIs

LEMMA InvHolds == Spec => []Inv
  BY InvStarts, InvSteps, PTL DEF Spec

(***************************************************************************)
(* Every variable keeps its type whatever fails: no request copies past    *)
(* the largest upload, and a file only ever holds pieces of uploads.       *)
(***************************************************************************)
THEOREM UploadTyping == Spec => []TypeOK
  <1>1. Inv => TypeOK
    BY DEF Inv
  <1>. QED  BY <1>1, InvHolds, PTL

-----------------------------------------------------------------------------
(* What a session records is on disk                                       *)

(***************************************************************************)
(* While a client sends chunks, a request that will record its snapshot    *)
(* and its chunk finds them on disk: nobody removes them in that phase.    *)
(***************************************************************************)
SnapshotStored(t) ==
    t.op = "chunk" /\ client[t.upload].phase = "chunk" =>
        /\ t.pc \in {"open", "write", "record"} => t.seen \subseteq Stored(t.upload)
        /\ t.pc \in {"write", "record"} => t.chunk \in Stored(t.upload)

RecordedHasFile ==
    \A u \in Uploads :
        client[u].phase = "chunk" /\ session[u] # None
            => session[u] \subseteq Stored(u)

StoredInv == /\ \A h \in Handlers : SnapshotStored(handler[h])
             /\ RecordedHasFile

LEMMA StoredIs ==
    \A u \in Uploads, i \in Chunk :
        i \in Stored(u) <=> tmp[u] # None /\ tmp[u][i] # "absent"
  BY DEF Stored

LEMMA StoredIsNext ==
    \A u \in Uploads, i \in Chunk :
        i \in Stored(u)' <=> tmp'[u] # None /\ tmp'[u][i] # "absent"
  BY DEF Stored

LEMMA StoredChunks == \A u \in Uploads : Stored(u) \subseteq Chunk
  BY DEF Stored

(* A client that sends chunks after a step did so before, or its session   *)
(* was made by the step.                                                   *)
LEMMA SendsChunks ==
    ASSUME Inv, NEW h \in Handlers, Handle(h) \/ IoFails(h),
           NEW u \in Uploads, client'[u].phase = "chunk"
    PROVE  \/ client[u].phase = "chunk"
           \/ /\ client[u].phase = "initiate" /\ client[u].waits = h
              /\ handler[h].op = "initiate" /\ handler[h].upload = u
  <1>1. Works(h)
    BY HandleSteps
  <1>2. CASE GoesOn(h)
    BY <1>2 DEF GoesOn
  <1>3. ASSUME NEW code \in Codes, Replies(h, code)
        PROVE  \/ client[u].phase = "chunk"
               \/ /\ client[u].phase = "initiate" /\ client[u].waits = h
                  /\ handler[h].op = "initiate" /\ handler[h].upload = u
    BY <1>3, RepliesFacts DEF Leads
  <1>. QED  BY <1>1, <1>2, <1>3 DEF Works

(* No handler removes chunks of a client that sends them. *)
LEMMA StoredStays ==
    ASSUME Inv, NEW h \in Handlers, Handle(h) \/ IoFails(h),
           NEW u \in Uploads, client'[u].phase = "chunk"
    PROVE  Stored(u) \subseteq Stored(u)'
  <1>. DEFINE t == handler[h]
  <1>1. /\ StoreOk /\ FitInv /\ t \in Handler /\ HandlerOk(t)
        /\ t.upload \in Uploads /\ t.chunk \in Chunk
        /\ tmp \in [Uploads -> [Chunk -> FileState] \union {None}]
    BY InvParts DEF Inv, Handler, StoreOk
  <1>2. ASSUME Busy(h), t.op \in {"complete", "cancel"}
        PROVE  t.upload # u
    <2>. SUFFICES ASSUME t.upload = u PROVE FALSE
      OBVIOUS
    <2>1. Fits(h, t, client[u])
      BY <1>1, <1>2 DEF FitInv
    <2>. QED  BY <1>2, <2>1, SendsChunks DEF Fits
  <1>3. CASE tmp' = tmp
    BY <1>3 DEF Stored
  <1>4. CASE MakeDirectory(h)
    BY <1>1, <1>4 DEF MakeDirectory, Stored
  <1>5. CASE OpenChunk(h) /\ tmp[t.upload] # None
    <2>1. /\ tmp' = [tmp EXCEPT ![t.upload][t.chunk] = "empty"]
          /\ tmp[t.upload] \in [Chunk -> FileState]
      BY <1>1, <1>5 DEF OpenChunk
    <2>2. tmp'[u] # None => \A i \in Chunk :
             tmp[u] # None /\ tmp[u][i] # "absent" => tmp'[u][i] # "absent"
      BY <1>1, <2>1
    <2>3. tmp[u] # None => tmp'[u] # None
      <3>1. [tmp[t.upload] EXCEPT ![t.chunk] = "empty"] \in [Chunk -> FileState]
        BY <2>1 DEF FileState
      <3>. QED  BY <1>1, <2>1, <3>1, NothingAssumption
    <2>. QED  BY <2>2, <2>3, StoredIs, StoredIsNext, StoredChunks
  <1>6. CASE WriteChunk(h) /\ tmp[t.upload] # None
             /\ tmp[t.upload][t.chunk] # "absent"
    <2>1. /\ tmp' = [tmp EXCEPT ![t.upload][t.chunk] = "whole"]
          /\ tmp[t.upload] \in [Chunk -> FileState]
      BY <1>1, <1>6 DEF WriteChunk
    <2>2. tmp'[u] # None => \A i \in Chunk :
             tmp[u] # None /\ tmp[u][i] # "absent" => tmp'[u][i] # "absent"
      BY <1>1, <2>1
    <2>3. tmp[u] # None => tmp'[u] # None
      <3>1. [tmp[t.upload] EXCEPT ![t.chunk] = "whole"] \in [Chunk -> FileState]
        BY <2>1 DEF FileState
      <3>. QED  BY <1>1, <2>1, <3>1, NothingAssumption
    <2>. QED  BY <2>2, <2>3, StoredIs, StoredIsNext, StoredChunks
  <1>7. CASE CreateTarget(h)
    <2>1. Busy(h) /\ t.op = "complete"
      BY <1>1, <1>7, ByPlace DEF CreateTarget, At, Busy
    <2>2. tmp'[u] = tmp[u]
      BY <1>1, <1>2, <1>7, <2>1 DEF CreateTarget
    <2>. QED  BY <2>2 DEF Stored
  <1>8. CASE CleanupTemp(h)
    <2>1. Busy(h) /\ t.op \in {"complete", "cancel"}
      BY <1>1, <1>8, ByPlace DEF CleanupTemp, At, Busy
    <2>2. tmp'[u] = tmp[u]
      BY <1>1, <1>2, <1>8, <2>1 DEF CleanupTemp
    <2>. QED  BY <2>2 DEF Stored
  <1>9. \/ tmp' = tmp
        \/ MakeDirectory(h) \/ CreateTarget(h) \/ CleanupTemp(h)
        \/ OpenChunk(h) /\ tmp[t.upload] # None
        \/ WriteChunk(h) /\ tmp[t.upload] # None
           /\ tmp[t.upload][t.chunk] # "absent"
    BY DEF Handle, Upload, Complete, Finish, SingleShot, Delete, StoreSession,
           ReadForChunk, OpenChunk, WriteChunk, RecordChunk, ReadForComplete,
           CopyChunk, VerifySize, Discard, PutObject, UpsertRow, DeleteSession,
           ReadForCancel, OverwriteLocal, FillLocal, PutBytes, ReadRow,
           DeleteFile, DeleteRow, IoFails, disk
  <1>. QED  BY <1>3, <1>4, <1>5, <1>6, <1>7, <1>8, <1>9

(* The same request, in the eyes of its snapshot. *)
LEMMA SnapshotCarried ==
    ASSUME Inv, StoredInv, NEW h \in Handlers, Handle(h) \/ IoFails(h),
           NEW g \in Handlers, Busy(g),
           SameRequest(handler[g], handler'[g]),
           handler'[g].seen = handler[g].seen,
           handler'[g].pc = handler[g].pc
    PROVE  SnapshotStored(handler[g])'
  <1>. DEFINE t == handler[g]
              u == t.upload
  <1>1. t \in Handler /\ u \in Uploads /\ FitInv
    BY InvParts DEF Inv, Handler
  <1>. SUFFICES ASSUME t.op = "chunk", client'[u].phase = "chunk"
                PROVE  /\ t.pc \in {"open", "write", "record"}
                             => t.seen \subseteq Stored(u)'
                       /\ t.pc \in {"write", "record"}
                             => t.chunk \in Stored(u)'
    BY DEF SnapshotStored, SameRequest
  <1>2. client[u].phase = "chunk"
    <2>1. Fits(g, t, client[u])
      BY <1>1 DEF FitInv
    <2>. QED  BY <1>1, <2>1, SendsChunks DEF Fits
  <1>3. \A v \in Uploads :
           client'[v].phase = "chunk" => Stored(v) \subseteq Stored(v)'
    BY StoredStays
  <1>. QED  BY <1>1, <1>2, <1>3 DEF StoredInv, SnapshotStored, SameRequest

LEMMA SnapshotHandles ==
    ASSUME Inv, StoredInv, NEW h \in Handlers, Handle(h) \/ IoFails(h),
           NEW g \in Handlers
    PROVE  SnapshotStored(handler[g])'
  <1>. DEFINE t == handler[h]
              u == t.upload
  <1>1. /\ StoreOk /\ ControlOk /\ FitInv /\ t \in Handler /\ HandlerOk(t)
        /\ u \in Uploads /\ t.chunk \in Chunk /\ handler[g] \in Handler
        /\ handler \in [Handlers -> Handler] /\ HandlerOk(handler[g])
    BY InvParts DEF Inv, Handler, ControlOk
  <1>2. Works(h) /\ OthersStay(h) /\ handler' \in [Handlers -> Handler]
    BY HandleSteps DEF Works, GoesOn, Replies, ControlOk
  <1>3. CASE handler'[g].op # "chunk"
             \/ handler'[g].pc \notin {"open", "write", "record"}
    BY <1>3 DEF SnapshotStored
  <1>4. CASE g # h /\ handler'[g].pc \in {"open", "write", "record"}
    <2>1. /\ handler'[g].pc = handler[g].pc /\ Busy(g)
          /\ SameRequest(handler[g], handler'[g])
          /\ handler'[g].seen = handler[g].seen
      BY <1>1, <1>2, <1>4, OthersSame DEF Busy
    <2>. QED  BY <2>1, SnapshotCarried
  <1>5. CASE g = h /\ handler'[h].op = "chunk"
             /\ handler'[h].pc \in {"open", "write", "record"}
    <2>1. GoesOn(h) /\ t.op = "chunk" /\ client' = client /\ Busy(h)
          /\ handler'[h].upload = u /\ handler'[h].chunk = t.chunk
      BY <1>2, <1>5, IdleOk DEF Works, Replies, GoesOn, SameRequest
    <2>2. ReadForChunk(h) \/ OpenChunk(h) \/ WriteChunk(h)
      BY <1>1, <1>5, <2>1, ByPlace, IdleOk
      DEF Handle, Upload, Complete, Finish, SingleShot, Delete, StoreSession,
          MakeDirectory, RecordChunk, ReadForComplete, CreateTarget, CopyChunk,
          VerifySize, Discard, PutObject, UpsertRow, CleanupTemp,
          DeleteSession, ReadForCancel, OverwriteLocal, FillLocal, PutBytes,
          ReadRow, DeleteFile, DeleteRow, IoFails, At, Reply, Become
    <2>. SUFFICES ASSUME client[u].phase = "chunk"
                  PROVE  /\ handler'[h].seen \subseteq Stored(u)'
                         /\ handler'[h].pc \in {"write", "record"}
                               => t.chunk \in Stored(u)'
      BY <1>5, <2>1 DEF SnapshotStored
    <2>3. Stored(u) \subseteq Stored(u)'
      BY <1>1, <2>1, StoredStays
    <2>4. CASE ReadForChunk(h)
      <3>1. /\ session[u] # None
            /\ handler'[h] = [t EXCEPT !.pc = "open", !.seen = session[u]]
        BY <1>1, <1>5, <2>4, IdleOk DEF ReadForChunk, Reply, Become
      <3>2. handler'[h].pc = "open" /\ handler'[h].seen = session[u]
        BY <1>1, <3>1 DEF Handler
      <3>3. session[u] \subseteq Stored(u)
        BY <1>1, <3>1 DEF StoredInv, RecordedHasFile
      <3>. QED  BY <2>3, <3>2, <3>3
    <2>5. CASE OpenChunk(h)
      <3>1. /\ tmp[u] # None /\ Goto(h, "write") /\ t.pc = "open"
            /\ tmp' = [tmp EXCEPT ![u][t.chunk] = "empty"]
        BY <1>1, <1>5, <2>5, IdleOk DEF OpenChunk, Reply, Become, At
      <3>2. handler'[h].seen = t.seen
        BY <1>1, <3>1 DEF Goto, Become, Handler
      <3>3. t.seen \subseteq Stored(u)
        BY <2>1, <3>1 DEF StoredInv, SnapshotStored
      <3>4. t.chunk \in Stored(u)'
        <4>1. tmp[u] \in [Chunk -> FileState]
          BY <1>1, <3>1 DEF StoreOk
        <4>2. /\ [tmp[u] EXCEPT ![t.chunk] = "empty"] \in [Chunk -> FileState]
              /\ tmp'[u] = [tmp[u] EXCEPT ![t.chunk] = "empty"]
          BY <1>1, <3>1, <4>1 DEF FileState, StoreOk
        <4>3. tmp'[u] # None /\ tmp'[u][t.chunk] = "empty"
          BY <1>1, <4>1, <4>2, NothingAssumption
        <4>. QED  BY <1>1, <2>1, <4>3, StoredIsNext
      <3>. QED  BY <2>3, <3>2, <3>3, <3>4
    <2>6. CASE WriteChunk(h)
      <3>1. Goto(h, "record") /\ t.pc = "write"
        BY <2>6 DEF WriteChunk, At
      <3>2. handler'[h].seen = t.seen
        BY <1>1, <3>1 DEF Goto, Become, Handler
      <3>3. t.seen \subseteq Stored(u) /\ t.chunk \in Stored(u)
        BY <2>1, <3>1 DEF StoredInv, SnapshotStored
      <3>. QED  BY <2>3, <3>2, <3>3
    <2>. QED  BY <2>2, <2>4, <2>5, <2>6
  <1>. QED  BY <1>3, <1>4, <1>5

LEMMA RecordedHandles ==
    ASSUME Inv, StoredInv, NEW h \in Handlers, Handle(h) \/ IoFails(h)
    PROVE  RecordedHasFile'
  <1>. DEFINE t == handler[h]
  <1>1. /\ StoreOk /\ FitInv /\ FreshInv /\ t \in Handler /\ HandlerOk(t)
        /\ t.upload \in Uploads
    BY InvParts DEF Inv, Handler
  <1>. SUFFICES ASSUME NEW u \in Uploads, client'[u].phase = "chunk",
                       session'[u] # None
                PROVE  session'[u] \subseteq Stored(u)'
    BY DEF RecordedHasFile
  <1>2. Stored(u) \subseteq Stored(u)'
    BY StoredStays
  <1>3. CASE client[u].phase = "initiate" /\ handler[h].op = "initiate"
    <2>1. session[u] \in {None, {}}
      BY <1>1, <1>3 DEF FreshInv
    <2>2. session'[u] \in {None, {}}
      BY <1>1, <1>3, <2>1, SessionSteps, ByPlace
      DEF StoreSession, RecordChunk, DeleteSession, At, StoreOk
    <2>. QED  BY <2>2
  <1>4. CASE client[u].phase = "chunk"
    <2>1. CASE session'[u] = session[u]
      BY <1>2, <1>4, <2>1 DEF StoredInv, RecordedHasFile
    <2>2. CASE StoreSession(h)
      BY <1>1, <1>2, <1>4, <2>2 DEF StoreSession, StoreOk, StoredInv, RecordedHasFile
    <2>3. CASE RecordChunk(h) /\ t.upload = u
      <3>1. /\ t.pc = "record" /\ t.op = "chunk" /\ tmp' = tmp
            /\ session'[u] = t.seen \union {t.chunk}
        BY <1>1, <2>3, ByPlace DEF RecordChunk, At, disk, StoreOk
      <3>2. t.seen \subseteq Stored(u) /\ t.chunk \in Stored(u)
        BY <1>4, <2>3, <3>1 DEF StoredInv, SnapshotStored
      <3>. QED  BY <1>2, <3>1, <3>2
    <2>4. CASE RecordChunk(h) /\ t.upload # u
      BY <1>1, <2>1, <2>4 DEF RecordChunk, StoreOk
    <2>5. CASE DeleteSession(h)
      BY <1>1, <2>1, <2>5 DEF DeleteSession, StoreOk
    <2>. QED  BY <2>1, <2>2, <2>3, <2>4, <2>5, SessionSteps
  <1>. QED  BY <1>3, <1>4, SendsChunks

LEMMA StoredSeveral ==
    ASSUME Inv, StoredInv,
           \/ \E h \in Handlers : RequestDelete(h)
           \/ \E u \in Uploads, h \in Handlers : Send(u, h)
           \/ \E u \in Uploads : ClientMoves(u)
           \/ Restart
    PROVE  StoredInv'
  <1>1. /\ client \in [Uploads -> Client] /\ handler \in [Handlers -> Handler]
        /\ StoreOk
    BY InvParts DEF ControlOk
  <1>2. ASSUME NEW u \in Uploads PROVE client'[u].phase = "chunk" => client[u].phase = "chunk"
    <2>1. ASSUME NEW v \in Uploads, NEW h \in Handlers, Send(v, h)
          PROVE  client'[u].phase = "chunk" => client[u].phase = "chunk"
      <3>1. Sent(v, h)
        BY <2>1, SendFacts
      <3>. QED  BY <1>1, <3>1 DEF Sent
    <2>2. ASSUME NEW v \in Uploads, Begin(v)
          PROVE  client'[u].phase = "chunk" => client[u].phase = "chunk"
      BY <1>1, <2>2, BeginFacts
    <2>3. ASSUME NEW v \in Uploads, GivesUp(v)
          PROVE  client'[u].phase = "chunk" => client[u].phase = "chunk"
      BY <1>1, <2>3, GivesUpFacts
    <2>4. ASSUME NEW v \in Uploads, Abort(v)
          PROVE  client'[u].phase = "chunk" => client[u].phase = "chunk"
      BY <1>1, <2>4, AbortFacts
    <2>5. ASSUME NEW v \in Uploads, Expire(v)
          PROVE  client'[u].phase = "chunk" => client[u].phase = "chunk"
      BY <1>1, <2>5, ExpireFacts
    <2>6. CASE Restart
      BY <2>6, RestartFacts
    <2>. QED  BY <2>1, <2>2, <2>3, <2>4, <2>5, <2>6
              DEF RequestDelete, ClientMoves, CleanupStale
  <1>3. ASSUME NEW u \in Uploads, session'[u] # None \/ Working(u)
        PROVE  Stored(u)' = Stored(u)
    <2>1. CASE tmp' = tmp
      BY <2>1 DEF Stored
    <2>2. ASSUME NEW v \in Uploads, CleanupStale(v) PROVE Stored(u)' = Stored(u)
      <3>1. v # u
        BY <1>3, <2>2 DEF CleanupStale
      <3>2. tmp'[u] = tmp[u]
        BY <1>1, <2>2, <3>1 DEF CleanupStale, StoreOk
      <3>. QED  BY <3>2 DEF Stored
    <2>. QED  BY <2>1, <2>2 DEF RequestDelete, Send, ClientMoves, Begin,
                                GivesUp, Abort, Expire, Restart, disk
  <1>4. ASSUME NEW h \in Handlers
        PROVE  SnapshotStored(handler[h])'
    <2>1. CASE handler'[h].pc \notin {"open", "write", "record"}
      BY <2>1 DEF SnapshotStored
    <2>2. CASE handler'[h].pc \in {"open", "write", "record"}
      <3>1. handler'[h] = handler[h]
        <4>1. ASSUME NEW g \in Handlers, RequestDelete(g) PROVE handler'[h] = handler[h]
          <5>1. handler'[g].pc = "read" /\ handler' = [handler EXCEPT ![g] = handler'[g]]
            BY <4>1, DeletionFacts
          <5>. QED  BY <1>1, <2>2, <5>1
        <4>2. ASSUME NEW v \in Uploads, NEW g \in Handlers, Send(v, g)
              PROVE  handler'[h] = handler[h]
          <5>1. Sent(v, g)
            BY <4>2, SendFacts
          <5>. QED  BY <1>1, <2>2, <5>1 DEF Sent, OthersUntouched
        <4>3. CASE Restart
          BY <2>2, <4>3, RestartFacts, IdleOk
        <4>. QED  BY <4>1, <4>2, <4>3 DEF ClientMoves, Begin, GivesUp, Abort,
                                          Expire, CleanupStale
      <3>2. Working(handler[h].upload) /\ handler[h].upload \in Uploads
        BY <1>1, <2>2, <3>1 DEF Working, Handler
      <3>3. Stored(handler[h].upload)' = Stored(handler[h].upload)
        BY <1>3, <3>1, <3>2
      <3>. QED  BY <1>2, <3>1, <3>2, <3>3 DEF StoredInv, SnapshotStored
    <2>. QED  BY <2>1, <2>2
  <1>5. RecordedHasFile'
    <2>. SUFFICES ASSUME NEW u \in Uploads, client'[u].phase = "chunk",
                         session'[u] # None
                  PROVE  session'[u] \subseteq Stored(u)'
      BY DEF RecordedHasFile
    <2>1. session'[u] = session[u]
      BY <1>1 DEF RequestDelete, Send, ClientMoves, Begin, GivesUp, Abort,
                  Expire, CleanupStale, Restart, StoreOk
    <2>. QED  BY <1>2, <1>3, <2>1 DEF StoredInv, RecordedHasFile
  <1>. QED  BY <1>4, <1>5 DEF StoredInv

LEMMA FilesHold == Spec => []StoredInv
  <1>1. Init => StoredInv
    BY IdleOk DEF Init, StoredInv, SnapshotStored, RecordedHasFile
  <1>2. Inv /\ StoredInv /\ [Next]_vars => StoredInv'
    <2>. SUFFICES ASSUME Inv, StoredInv, [Next]_vars PROVE StoredInv'
      OBVIOUS
    <2>1. ASSUME NEW h \in Handlers, Handle(h) \/ IoFails(h) PROVE StoredInv'
      BY <2>1, SnapshotHandles, RecordedHandles DEF StoredInv
    <2>2. CASE UNCHANGED vars
      BY <2>2 DEF vars, disk, StoredInv, SnapshotStored, RecordedHasFile, Stored
    <2>. QED  BY <2>1, <2>2, NextIs, StoredSeveral
  <1>. QED  BY <1>1, <1>2, InvHolds, PTL DEF Spec

-----------------------------------------------------------------------------
(* The model is replaced as a whole: over R2 a complete assembles a file   *)
(* of its own and is alone at it, unless its client gave up on it          *)

WaitedFor(h) ==
    Busy(h) /\ handler[h].op = "complete"
    /\ client[handler[h].upload].phase = "complete"
        => client[handler[h].upload].waits = h

NoRival(h, g) ==
    Busy(h) /\ handler[h].op = "complete"
    /\ Busy(g) /\ handler[g].op \in {"complete", "cancel"}
    /\ handler[g].upload = handler[h].upload
        => g = h

AloneInv == /\ \A h \in Handlers : WaitedFor(h)
            /\ \A h, g \in Handlers : NoRival(h, g)

(* What a complete has assembled of its upload, a chunk for each it read   *)
(* whole.                                                                  *)
Assembled(h) ==
    LET t == handler[h] found == file[t.upload] IN
    /\ t.pc = "copy" => t.linked
    /\ t.pc \in {"copy", "verify"} =>
          /\ found \in Content /\ Len(found) = t.at
          /\ t.at = t.pos => found = [k \in 1..t.pos |-> <<t.upload, k - 1>>]
    /\ t.pc = "store" => found = Whole(t.upload)

ShelfInv == AloneInv /\ (\A h \in Handlers : Assembled(h)) /\ ServedWhole

LEMMA AloneWorks ==
    ASSUME Inv, AloneInv, NEW h \in Handlers, Handle(h) \/ IoFails(h)
    PROVE  AloneInv'
  <1>1. /\ ControlOk /\ ControlOk' /\ FitInv /\ WaitInv /\ Works(h) /\ OthersStay(h)
        /\ \A g \in Handlers : /\ handler[g] \in Handler
                               /\ handler[g].upload \in Uploads
    BY InvParts, HandleSteps DEF Inv, Handler, Works, GoesOn, Replies
  <1>2. \A g \in Handlers \ {h} :
           handler'[g].pc = handler[g].pc /\ SameRequest(handler[g], handler'[g])
    BY <1>1, OthersSame
  <1>3. CASE GoesOn(h)
    <2>1. \A g \in Handlers : /\ Busy(g)' <=> Busy(g)
                              /\ SameRequest(handler[g], handler'[g])
      BY <1>2, <1>3 DEF GoesOn, Busy
    <2>2. client' = client
      BY <1>3 DEF GoesOn
    <2>3. \A g \in Handlers : WaitedFor(g)'
      BY <2>1, <2>2 DEF AloneInv, WaitedFor, SameRequest
    <2>4. \A f, g \in Handlers : NoRival(f, g)'
      BY <2>1 DEF AloneInv, NoRival, SameRequest
    <2>. QED  BY <2>3, <2>4 DEF AloneInv
  <1>4. ASSUME NEW code \in Codes, Replies(h, code) PROVE AloneInv'
    <2>1. ~Busy(h)' /\ \A g \in Handlers \ {h} :
             (Busy(g)' <=> Busy(g)) /\ SameRequest(handler[g], handler'[g])
      BY <1>2, <1>4, IdleOk DEF Replies, Busy
    <2>2. ASSUME NEW g \in Handlers PROVE WaitedFor(g)'
      <3>. SUFFICES ASSUME Busy(g)', handler'[g].op = "complete",
                           client'[handler'[g].upload].phase = "complete"
                    PROVE  client'[handler'[g].upload].waits = g
        BY DEF WaitedFor
      <3>1. /\ g # h /\ Busy(g) /\ handler[g].op = "complete"
            /\ handler'[g].upload = handler[g].upload
        BY <2>1 DEF SameRequest
      <3>2. Fits(g, handler[g], client[handler[g].upload])
        BY <1>1, <3>1 DEF FitInv
      <3>3. CASE client'[handler[g].upload] = client[handler[g].upload]
        BY <3>1, <3>3 DEF AloneInv, WaitedFor
      <3>4. CASE /\ client[handler[g].upload].waits = h
                 /\ Leads(handler[g].upload, client[handler[g].upload],
                          client'[handler[g].upload], code)
        <4>1. client[handler[g].upload].phase = "complete"
          BY <3>1, <3>2, <3>4 DEF Fits, Leads
        <4>. QED  BY <3>1, <3>4, <4>1 DEF AloneInv, WaitedFor
      <3>. QED  BY <1>1, <1>4, <3>3, <3>4, RepliesFacts
    <2>3. \A f, g \in Handlers : NoRival(f, g)'
      BY <2>1 DEF AloneInv, NoRival, SameRequest
    <2>. QED  BY <2>2, <2>3 DEF AloneInv
  <1>. QED  BY <1>1, <1>3, <1>4 DEF Works

LEMMA AloneSeveral ==
    ASSUME Inv, AloneInv, "complete_timeout" \notin Faults,
           \/ \E h \in Handlers : RequestDelete(h)
           \/ \E u \in Uploads, h \in Handlers : Send(u, h)
           \/ \E u \in Uploads : ClientMoves(u)
           \/ Restart
    PROVE  AloneInv'
  <1>1. /\ FitInv /\ WaitInv /\ None \notin Handlers
        /\ client \in [Uploads -> Client] /\ handler \in [Handlers -> Handler]
        /\ \A g \in Handlers : handler[g].upload \in Uploads
    BY InvParts, Sizes DEF Inv, ControlOk, Handler
  <1>2. ASSUME NEW h \in Handlers, RequestDelete(h) PROVE AloneInv'
    <2>1. /\ handler'[h].op = "delete" /\ client' = client
          /\ handler' = [handler EXCEPT ![h] = handler'[h]]
      BY <1>2, DeletionFacts
    <2>2. \A g \in Handlers \ {h} : handler'[g] = handler[g]
      BY <1>1, <2>1
    <2>3. \A g \in Handlers : WaitedFor(g)'
      BY <2>1, <2>2 DEF AloneInv, WaitedFor, Busy
    <2>4. \A f, g \in Handlers : NoRival(f, g)'
      BY <2>1, <2>2 DEF AloneInv, NoRival, Busy
    <2>. QED  BY <2>3, <2>4 DEF AloneInv
  <1>3. ASSUME NEW u \in Uploads, NEW h \in Handlers, Send(u, h)
        PROVE  AloneInv'
    <2>1. Sent(u, h)
      BY <1>3, SendFacts
    <2>2. /\ \A g \in Handlers \ {h} : handler'[g] = handler[g]
          /\ \A v \in Uploads \ {u} : client'[v] = client[v]
          /\ client'[u].phase = client[u].phase /\ client'[u].waits = h
          /\ client[u].waits = None
          /\ handler'[h].op = client[u].phase /\ handler'[h].upload = u
      BY <1>1, <2>1 DEF Sent, OthersUntouched
    <2>4. ASSUME NEW g \in Handlers, Busy(g), handler[g].upload = u,
                 handler[g].op = "complete"
          PROVE  client[u].phase \notin {"complete", "cancel"}
      <3>1. client[u].phase # "complete"
        BY <1>1, <2>2, <2>4 DEF AloneInv, WaitedFor
      <3>2. Fits(g, handler[g], client[u])
        BY <1>1, <2>4 DEF FitInv
      <3>. QED  BY <2>4, <3>1, <3>2 DEF Fits
    <2>5. ASSUME NEW g \in Handlers, Busy(g), handler[g].upload = u,
                 handler[g].op = "cancel"
          PROVE  client[u].phase # "complete"
      <3>1. Fits(g, handler[g], client[u])
        BY <1>1, <2>5 DEF FitInv
      <3>. QED  BY <2>5, <3>1 DEF Fits
    <2>7. \A g \in Handlers \ {h} : Busy(g)' <=> Busy(g)
      BY <2>2 DEF Busy
    <2>8. ASSUME NEW g \in Handlers PROVE WaitedFor(g)'
      <3>. SUFFICES ASSUME Busy(g)', handler'[g].op = "complete",
                           client'[handler'[g].upload].phase = "complete"
                    PROVE  client'[handler'[g].upload].waits = g
        BY DEF WaitedFor
      <3>1. CASE g = h
        BY <2>2, <3>1
      <3>2. CASE g # h /\ handler[g].upload = u
        BY <2>2, <2>4, <2>7, <3>2
      <3>3. CASE g # h /\ handler[g].upload # u
        BY <1>1, <2>2, <2>7, <3>3 DEF AloneInv, WaitedFor
      <3>. QED  BY <3>1, <3>2, <3>3
    <2>9. ASSUME NEW f \in Handlers, NEW g \in Handlers PROVE NoRival(f, g)'
      <3>. SUFFICES ASSUME Busy(f)', handler'[f].op = "complete",
                           Busy(g)', handler'[g].op \in {"complete", "cancel"},
                           handler'[g].upload = handler'[f].upload
                    PROVE  g = f
        BY DEF NoRival
      <3>1. CASE f # h /\ g # h
        BY <2>2, <2>7, <3>1 DEF AloneInv, NoRival
      <3>2. CASE f = h /\ g # h
        BY <2>2, <2>4, <2>5, <2>7, <3>2
      <3>3. CASE f # h /\ g = h
        BY <2>2, <2>4, <2>7, <3>3
      <3>. QED  BY <3>1, <3>2, <3>3
    <2>. QED  BY <2>8, <2>9 DEF AloneInv
  <1>4. ASSUME NEW u \in Uploads, ClientMoves(u) PROVE AloneInv'
    <2>1. handler' = handler
      BY <1>4 DEF ClientMoves, Begin, GivesUp, Abort, Expire, CleanupStale
    <2>2. ASSUME NEW v \in Uploads, client'[v].phase = "complete"
          PROVE  client[v].phase = "complete" /\ client'[v].waits = client[v].waits
      <3>1. CASE Begin(u)
        BY <1>1, <2>2, <3>1, BeginFacts
      <3>2. CASE GivesUp(u)
        <4>1. client[u].phase \notin {"complete", "single"}
          BY <3>2 DEF GivesUp
        <4>. QED  BY <1>1, <2>2, <3>2, <4>1, GivesUpFacts
      <3>3. CASE Abort(u)
        BY <1>1, <2>2, <3>3, AbortFacts
      <3>4. CASE Expire(u)
        BY <1>1, <2>2, <3>4, ExpireFacts
      <3>5. CASE CleanupStale(u)
        BY <2>2, <3>5 DEF CleanupStale
      <3>. QED  BY <1>4, <3>1, <3>2, <3>3, <3>4, <3>5 DEF ClientMoves
    <2>3. \A g \in Handlers : WaitedFor(g)'
      BY <1>1, <2>1, <2>2 DEF AloneInv, WaitedFor, Busy
    <2>4. \A f, g \in Handlers : NoRival(f, g)'
      BY <2>1 DEF AloneInv, NoRival, Busy
    <2>. QED  BY <2>3, <2>4 DEF AloneInv
  <1>5. CASE Restart
    <2>1. \A g \in Handlers : ~Busy(g)'
      BY <1>5, RestartFacts, IdleOk DEF Busy
    <2>. QED  BY <2>1 DEF AloneInv, WaitedFor, NoRival
  <1>. QED  BY <1>2, <1>3, <1>4, <1>5

(* Who changes a file, and who closes those of others. *)
LEMMA FileSteps ==
    ASSUME NEW h \in Handlers, Handle(h) \/ IoFails(h)
    PROVE  \/ file' = file
           \/ CreateTarget(h) \/ CopyChunk(h) \/ Discard(h) \/ PutObject(h)
           \/ CleanupTemp(h) \/ OverwriteLocal(h) \/ FillLocal(h)
           \/ PutBytes(h) \/ DeleteFile(h)
  BY DEF Handle, Upload, Complete, Finish, SingleShot, Delete, StoreSession,
         MakeDirectory, ReadForChunk, OpenChunk, WriteChunk, RecordChunk,
         ReadForComplete, VerifySize, UpsertRow, DeleteSession, ReadForCancel,
         ReadRow, DeleteRow, IoFails, disk

LEMMA HandlerSteps ==
    ASSUME Inv, NEW h \in Handlers, Handle(h) \/ IoFails(h),
           NEW g \in Handlers \ {h}
    PROVE  \/ handler'[g] = handler[g]
           \/ /\ handler[g].pc \in {"copy", "fill"}
              /\ handler'[g] = [handler[g] EXCEPT !.linked = FALSE]
              /\ \/ Discard(h) /\ Target(handler[g]) = Target(handler[h])
                 \/ CleanupTemp(h) /\ Target(handler[g]) = handler[h].upload
                 \/ DeleteFile(h) /\ Target(handler[g]) = Live
  <1>1. handler \in [Handlers -> Handler]
    BY InvParts DEF ControlOk
  <1>2. CASE Discard(h)
    BY <1>2 DEF Discard, Unlinked
  <1>3. CASE CleanupTemp(h)
    BY <1>3 DEF CleanupTemp, Unlinked
  <1>4. CASE DeleteFile(h)
    BY <1>4 DEF DeleteFile, Unlinked
  <1>5. CASE \E t : Become(h, t)
    BY <1>1, <1>5 DEF Become
  <1>6. \/ Discard(h) \/ CleanupTemp(h) \/ DeleteFile(h) \/ \E t : Become(h, t)
    BY DEF Handle, Upload, Complete, Finish, SingleShot, Delete, StoreSession,
           MakeDirectory, ReadForChunk, OpenChunk, WriteChunk, RecordChunk,
           ReadForComplete, CreateTarget, CopyChunk, VerifySize, PutObject,
           UpsertRow, DeleteSession, ReadForCancel, OverwriteLocal, FillLocal,
           PutBytes, ReadRow, DeleteRow, IoFails, Reply, Goto
  <1>. QED  BY <1>2, <1>3, <1>4, <1>5, <1>6

LEMMA FileOfOther ==
    ASSUME Inv, AloneInv, ~Local, NEW h \in Handlers,
           Handle(h) \/ IoFails(h), NEW g \in Handlers \ {h},
           Busy(g), handler[g].op = "complete"
    PROVE  /\ handler'[g] = handler[g]
           /\ file'[handler[g].upload] = file[handler[g].upload]
  <1>. DEFINE t == handler[h]
  <1>1. /\ t \in Handler /\ HandlerOk(t) /\ handler[g] \in Handler
        /\ file \in [Targets -> Content \union {None}]
        /\ handler[g].upload # Live /\ handler[g].upload \in Targets
        /\ Target(handler[g]) = handler[g].upload
        /\ t.op # "single" => Target(t) = t.upload
    BY InvParts, TargetOf DEF StoreOk
  <1>2. Busy(h) /\ t.op \in {"complete", "cancel"} => t.upload # handler[g].upload
    BY DEF AloneInv, NoRival
  <1>3. CreateTarget(h) \/ CopyChunk(h) \/ Discard(h) \/ CleanupTemp(h)
           => t.upload # handler[g].upload /\ t.op \in {"complete", "cancel"}
    BY <1>1, <1>2, ByPlace
    DEF CreateTarget, CopyChunk, Discard, CleanupTemp, At, Busy
  <1>4. ~OverwriteLocal(h) /\ ~FillLocal(h)
    BY <1>1 DEF OverwriteLocal, FillLocal, At, HandlerOk
  <1>5. handler'[g] = handler[g]
    BY <1>1, <1>3, HandlerSteps
  <1>6. file'[handler[g].upload] = file[handler[g].upload]
    BY <1>1, <1>3, <1>4, FileSteps
    DEF CreateTarget, CopyChunk, Discard, CleanupTemp, PutObject, PutBytes,
        DeleteFile
  <1>. QED  BY <1>5, <1>6

(* One more chunk on what was copied of an upload. *)
LEMMA Prefix ==
    ASSUME NEW u \in Uploads, NEW n \in Chunk, NEW f \in Content,
           f = [k \in 1..n |-> <<u, k - 1>>]
    PROVE  WriteAt(f, n, <<u, n>>) = [k \in 1..(n + 1) |-> <<u, k - 1>>]
  <1>1. n \in Nat /\ <<u, n>> \in Piece
    BY Sizes DEF Chunk, Piece
  <1>2. Len(f) = n
    <2>1. f \in [1..n -> Piece]
      <3>1. \A k \in 1..n : <<u, k - 1>> \in Piece
        BY Sizes DEF Chunk, Piece
      <3>. QED  BY <3>1
    <2>. QED  BY <1>1, <2>1, LenOf
  <1>3. WriteAt(f, n, <<u, n>>) = Grown(f, n, <<u, n>>)
    BY <1>1, <1>2, Written
  <1>4. ASSUME NEW k \in 1..(n + 1)
        PROVE  (IF k = n + 1 THEN <<u, n>>
                ELSE IF k <= Len(f) THEN f[k] ELSE None) = <<u, k - 1>>
    <2>1. CASE k = n + 1
      BY <1>1, <2>1
    <2>2. CASE k # n + 1
      <3>1. k \in 1..n /\ k <= Len(f)
        BY <1>1, <1>2, <2>2
      <3>. QED  BY <2>2, <3>1
    <2>. QED  BY <2>1, <2>2
  <1>. QED  BY <1>3, <1>4 DEF Grown

LEMMA AssembledWorks ==
    ASSUME Inv, AloneInv, ~Local, NEW h \in Handlers, Assembled(h),
           Handle(h) \/ IoFails(h)
    PROVE  Assembled(h)'
  <1>. DEFINE t == handler[h]
              u == t.upload
              s == handler'[h]
  <1>1. /\ t \in Handler /\ HandlerOk(t) /\ u \in Uploads /\ u \in Targets
        /\ Target(t) = u \/ t.op = "single"
        /\ handler \in [Handlers -> Handler] /\ handler' \in [Handlers -> Handler]
        /\ file \in [Targets -> Content \union {None}]
    BY InvParts, TargetOf, HandleSteps DEF StoreOk, ControlOk
  <1>2. CASE s.pc \notin {"copy", "verify", "store"}
    BY <1>2 DEF Assembled
  <1>3. CASE CreateTarget(h)
    <2>1. t.pc = "create" /\ t.op = "complete"
      BY <1>1, <1>3, ByPlace DEF CreateTarget, At
    <2>2. /\ s.pc = "copy" /\ s.pos = 0 /\ s.at = 0 /\ s.linked = TRUE
          /\ s.upload = u
      BY <1>1, <1>3 DEF CreateTarget, Become, Handler
    <2>3. file'[u] = <<>>
      BY <1>1, <1>3, <2>1 DEF CreateTarget
    <2>4. <<>> = [k \in 1..0 |-> <<u, k - 1>>]
      OBVIOUS
    <2>. QED  BY <2>2, <2>3, <2>4, EmptyContent DEF Assembled
  <1>4. CASE CopyChunk(h) /\ s.pc # "abandon"
    <2>. DEFINE copied == IF tmp[u][t.pos] = "whole" THEN 1 ELSE 0
    <2>1. /\ t.pc = "copy" /\ t.op = "complete" /\ t.linked
          /\ file[u] \in Content /\ Len(file[u]) = t.at
          /\ t.at = t.pos => file[u] = [k \in 1..t.pos |-> <<u, k - 1>>]
      BY <1>1, <1>4, ByPlace DEF CopyChunk, At, Assembled
    <2>2. /\ t.pos \in Nat /\ t.at \in Nat /\ t.at <= t.pos /\ t.pos < ChunksOf[u]
          /\ t.pos \in Chunk /\ t.at \in Chunk
      BY <1>1, <2>1, Sizes DEF HandlerOk, Handler, Chunk
    <2>3. tmp[u] # None /\ tmp[u][t.pos] # "absent"
      BY <1>1, <1>4 DEF CopyChunk, Become, Handler
    <2>4. /\ s.pos = t.pos + 1 /\ s.at = t.at + copied /\ s.linked = t.linked
          /\ s.upload = u /\ s.pc \in {"copy", "verify"}
      <3>. DEFINE r == [t EXCEPT !.pos = @ + 1, !.at = @ + copied,
                                 !.pc = IF t.pos + 1 = ChunksOf[u]
                                        THEN "verify" ELSE "copy"]
      <3>1. s = r
        BY <1>1, <1>4, <2>3 DEF CopyChunk, Become
      <3>. QED  BY <1>1, <3>1 DEF Handler
    <2>5. CASE copied = 1
      <3>1. file'[u] = WriteAt(file[u], t.at, <<u, t.pos>>)
        BY <1>1, <1>4, <2>1, <2>3, <2>5 DEF CopyChunk
      <3>2. <<u, t.pos>> \in Piece
        BY <1>1, <2>2 DEF Piece
      <3>3. file'[u] \in Content /\ Len(file'[u]) = t.at + 1
        BY <2>1, <2>2, <3>1, <3>2, Written
      <3>4. t.at = t.pos => file'[u] = [k \in 1..(t.pos + 1) |-> <<u, k - 1>>]
        <4>. SUFFICES ASSUME t.at = t.pos
                      PROVE  file'[u] = [k \in 1..(t.pos + 1) |-> <<u, k - 1>>]
          OBVIOUS
        <4>1. file'[u] = WriteAt(file[u], t.pos, <<u, t.pos>>)
          BY <3>1
        <4>2. file[u] = [k \in 1..t.pos |-> <<u, k - 1>>]
          BY <2>1
        <4>. QED  BY <1>1, <2>1, <2>2, <4>1, <4>2, Prefix
      <3>. QED  BY <2>1, <2>2, <2>4, <2>5, <3>3, <3>4 DEF Assembled
    <2>6. CASE copied = 0
      <3>1. file' = file
        BY <1>4, <2>3, <2>6 DEF CopyChunk
      <3>2. s.at # s.pos
        BY <2>2, <2>4, <2>6
      <3>. QED  BY <2>1, <2>2, <2>4, <2>6, <3>1, <3>2 DEF Assembled
    <2>. QED  BY <2>5, <2>6
  <1>5. CASE VerifySize(h) /\ s.pc = "store"
    <2>1. /\ t.pc = "verify" /\ t.op = "complete" /\ file' = file
          /\ file[u] \in Content /\ Len(file[u]) = t.at
          /\ t.at = t.pos => file[u] = [k \in 1..t.pos |-> <<u, k - 1>>]
      BY <1>1, <1>5, ByPlace DEF VerifySize, At, Assembled, disk
    <2>2. t.pos = ChunksOf[u] /\ s.upload = u /\ s.pc = "store"
      BY <1>1, <1>5, <2>1 DEF HandlerOk, VerifySize, Become, Handler
    <2>3. Len(file[u]) = ChunksOf[u]
      BY <1>1, <1>5, <2>1 DEF VerifySize, Become, Handler
    <2>4. file[u] = Whole(u)
      BY <2>1, <2>2, <2>3 DEF Whole
    <2>. QED  BY <2>1, <2>2, <2>4 DEF Assembled
  <1>6. \/ s.pc \notin {"copy", "verify", "store"}
        \/ CreateTarget(h) \/ (CopyChunk(h) /\ s.pc # "abandon")
        \/ VerifySize(h) /\ s.pc = "store"
    <2>1. (\E code : Reply(h, code)) => s.pc = "idle"
      BY <1>1, IdleOk DEF Reply, Become
    <2>2. \A p : Goto(h, p) => s.pc = p
      BY <1>1 DEF Goto, Become, Handler
    <2>3. \A p : (\E code : Become(h, [t EXCEPT !.pc = p, !.code = code]))
                    => s.pc = p
      BY <1>1 DEF Become, Handler
    <2>4. CASE Upload(h)
      <3>1. Become(h, [t EXCEPT !.pc = "open", !.seen = session[u]])
               => s.pc = "open"
        BY <1>1 DEF Become, Handler
      <3>. QED  BY <2>1, <2>2, <2>4, <3>1
                DEF Upload, StoreSession, MakeDirectory, ReadForChunk,
                    OpenChunk, WriteChunk, RecordChunk
    <2>5. CASE Complete(h)
      <3>1. Discard(h) => s.pc = "abandon"
        <4>1. Discard(h) => s = [t EXCEPT !.pc = "abandon", !.code = "error"]
          BY DEF Discard, Unlinked
        <4>. QED  BY <1>1, <4>1 DEF Handler
      <3>2. CASE VerifySize(h)
        <4>1. s.pc \in {"abandon", "discard", "store"}
          BY <1>1, <3>2 DEF VerifySize, Become, Handler
        <4>. QED  BY <3>2, <4>1
      <3>. QED  BY <2>1, <2>2, <2>3, <2>5, <3>1, <3>2
                DEF Complete, ReadForComplete, PutObject, UpsertRow
    <2>6. CASE Finish(h)
      <3>1. CleanupTemp(h) => s.pc \in {"forget", "idle"}
        BY <1>1, IdleOk DEF CleanupTemp, Handler, Unlinked
      <3>. QED  BY <2>1, <2>2, <2>6, <3>1
                DEF Finish, DeleteSession, ReadForCancel
    <2>7. CASE SingleShot(h)
      BY <1>1, <2>2, <2>7 DEF SingleShot, OverwriteLocal, FillLocal, PutBytes,
                              At, HandlerOk
    <2>8. CASE Delete(h)
      <3>1. DeleteFile(h) => s.pc = "unrow"
        BY <1>1 DEF DeleteFile, At, Handler, Unlinked
      <3>2. Become(h, Idle) => s.pc = "idle"
        BY <1>1, IdleOk DEF Become
      <3>. QED  BY <2>2, <2>8, <3>1, <3>2 DEF Delete, ReadRow, DeleteRow
    <2>9. CASE IoFails(h)
      BY <2>1, <2>2, <2>3, <2>9 DEF IoFails
    <2>. QED  BY <2>4, <2>5, <2>6, <2>7, <2>8, <2>9 DEF Handle
  <1>. QED  BY <1>2, <1>3, <1>4, <1>5, <1>6

LEMMA AssembledHandles ==
    ASSUME Inv, AloneInv, ~Local, \A g \in Handlers : Assembled(g),
           NEW h \in Handlers, Handle(h) \/ IoFails(h), NEW g \in Handlers
    PROVE  Assembled(g)'
  <1>1. CASE g = h
    BY <1>1, AssembledWorks
  <1>2. CASE g # h /\ handler[g].pc \in {"copy", "verify", "store"}
    <2>1. Busy(g) /\ handler[g].op = "complete"
      BY <1>2, InvParts, ByPlace DEF Busy
    <2>2. /\ handler'[g] = handler[g]
          /\ file'[handler[g].upload] = file[handler[g].upload]
      BY <1>2, <2>1, FileOfOther
    <2>. QED  BY <2>2 DEF Assembled
  <1>3. CASE g # h /\ handler[g].pc \notin {"copy", "verify", "store"}
    <2>1. handler'[g].pc = handler[g].pc
      BY <1>3, InvParts, HandleSteps, OthersSame DEF Works, GoesOn, Replies
    <2>. QED  BY <1>3, <2>1 DEF Assembled
  <1>. QED  BY <1>1, <1>2, <1>3

LEMMA AssembledSeveral ==
    ASSUME Inv, ~Local, \A g \in Handlers : Assembled(g),
           \/ \E h \in Handlers : RequestDelete(h)
           \/ \E u \in Uploads, h \in Handlers : Send(u, h)
           \/ \E u \in Uploads : ClientMoves(u)
           \/ Restart
    PROVE  /\ \A g \in Handlers : Assembled(g)'
           /\ file'[Live] = file[Live]
  <1>1. /\ handler \in [Handlers -> Handler] /\ Live \notin Uploads
        /\ file \in [Targets -> Content \union {None}] /\ Live \in Targets
        /\ \A g \in Handlers : handler[g].upload \in Targets
    BY InvParts, NothingAssumption DEF ControlOk, StoreOk, Handler, Targets
  <1>2. ASSUME NEW h \in Handlers, RequestDelete(h), NEW g \in Handlers
        PROVE  Assembled(g)'
    <2>1. /\ handler' = [handler EXCEPT ![h] = handler'[h]]
          /\ handler'[h].pc = "read" /\ file' = file
      BY <1>2, DeletionFacts DEF disk
    <2>. QED  BY <1>1, <2>1 DEF Assembled
  <1>3. ASSUME NEW u \in Uploads, NEW h \in Handlers, Send(u, h),
               NEW g \in Handlers
        PROVE  Assembled(g)'
    <2>1. Sent(u, h) /\ file' = file
      BY <1>3, SendFacts DEF Send, disk
    <2>2. handler'[h].pc \notin {"copy", "verify", "store"}
          /\ \A f \in Handlers \ {h} : handler'[f] = handler[f]
      BY <2>1 DEF Sent, OthersUntouched
    <2>. QED  BY <2>1, <2>2 DEF Assembled
  <1>4. ASSUME NEW u \in Uploads, ClientMoves(u), NEW g \in Handlers
        PROVE  Assembled(g)'
    <2>1. CASE file' = file /\ handler' = handler
      BY <2>1 DEF Assembled
    <2>2. CASE CleanupStale(u)
      <3>1. handler' = handler
            /\ (handler[g].pc # "idle" => handler[g].upload # u)
        BY <2>2 DEF CleanupStale, Working
      <3>2. handler[g].pc # "idle"
               => file'[handler[g].upload] = file[handler[g].upload]
        BY <1>1, <2>2, <3>1 DEF CleanupStale
      <3>. QED  BY <3>1, <3>2 DEF Assembled
    <2>. QED  BY <1>4, <2>1, <2>2 DEF ClientMoves, Begin, GivesUp, Abort,
                                      Expire, disk
  <1>5. ASSUME Restart, NEW g \in Handlers PROVE Assembled(g)'
    <2>1. handler'[g].pc = "idle"
      BY <1>5, RestartFacts, IdleOk
    <2>. QED  BY <2>1 DEF Assembled
  <1>6. file'[Live] = file[Live]
    BY <1>1 DEF RequestDelete, Send, ClientMoves, Begin, GivesUp, Abort,
                Expire, CleanupStale, Restart, disk
  <1>. QED  BY <1>2, <1>3, <1>4, <1>5, <1>6

(* Who replaces the model. *)
LEMMA LiveSteps ==
    ASSUME Inv, ~Local, \A g \in Handlers : Assembled(g),
           NEW h \in Handlers, Handle(h) \/ IoFails(h)
    PROVE  \/ file'[Live] = file[Live]
           \/ DeleteFile(h) /\ file'[Live] = None
           \/ /\ PutObject(h) \/ PutBytes(h)
              /\ file'[Live] = Whole(handler[h].upload)
  <1>. DEFINE t == handler[h]
  <1>1. /\ t \in Handler /\ HandlerOk(t) /\ Live \in Targets
        /\ t.upload # Live /\ (t.op # "single" => Target(t) = t.upload)
        /\ file \in [Targets -> Content \union {None}]
    BY InvParts, TargetOf DEF StoreOk
  <1>2. CASE CreateTarget(h) \/ CopyChunk(h) \/ Discard(h) \/ CleanupTemp(h)
    <2>1. t.op # "single"
      BY <1>1, <1>2, ByPlace
      DEF CreateTarget, CopyChunk, Discard, CleanupTemp, At
    <2>. QED  BY <1>1, <1>2, <2>1
              DEF CreateTarget, CopyChunk, Discard, CleanupTemp
  <1>3. CASE PutObject(h)
    BY <1>1, <1>3 DEF PutObject, Assembled, At
  <1>4. CASE PutBytes(h)
    BY <1>1, <1>4 DEF PutBytes
  <1>5. CASE DeleteFile(h)
    BY <1>1, <1>5 DEF DeleteFile
  <1>6. ~OverwriteLocal(h) /\ ~FillLocal(h)
    BY <1>1 DEF OverwriteLocal, FillLocal, At, HandlerOk
  <1>. QED  BY <1>2, <1>3, <1>4, <1>5, <1>6, FileSteps

LEMMA ShelfInvHolds ==
    ASSUME ~Local, "complete_timeout" \notin Faults
    PROVE  Spec => []ShelfInv
  <1>1. Init => ShelfInv
    <2>1. Init => \A h \in Handlers : handler[h].pc = "idle"
      BY IdleOk DEF Init
    <2>2. Init => ServedWhole
      BY DEF Init, ServedWhole, Targets
    <2>. QED  BY <2>1, <2>2
              DEF ShelfInv, AloneInv, WaitedFor, NoRival, Busy, Assembled
  <1>2. Inv /\ ShelfInv /\ [Next]_vars => ShelfInv'
    <2>. SUFFICES ASSUME Inv, ShelfInv, [Next]_vars PROVE ShelfInv'
      OBVIOUS
    <2>1. ASSUME NEW h \in Handlers, Handle(h) \/ IoFails(h) PROVE ShelfInv'
      <3>1. AloneInv' /\ \A g \in Handlers : Assembled(g)'
        BY <2>1, AloneWorks, AssembledHandles DEF ShelfInv
      <3>2. handler[h].upload \in Uploads
        BY InvParts DEF Handler
      <3>3. ServedWhole'
        BY <2>1, <3>2, LiveSteps DEF ShelfInv, ServedWhole, Whole
      <3>. QED  BY <3>1, <3>3 DEF ShelfInv
    <2>2. CASE \/ \E h \in Handlers : RequestDelete(h)
               \/ \E u \in Uploads, h \in Handlers : Send(u, h)
               \/ \E u \in Uploads : ClientMoves(u)
               \/ Restart
      <3>1. AloneInv' /\ (\A g \in Handlers : Assembled(g)')
            /\ file'[Live] = file[Live]
        BY <2>2, AloneSeveral, AssembledSeveral DEF ShelfInv
      <3>. QED  BY <3>1 DEF ShelfInv, ServedWhole, Whole
    <2>3. CASE UNCHANGED vars
      BY <2>3 DEF vars, disk, ShelfInv, AloneInv, WaitedFor, NoRival, Busy,
                  Assembled, ServedWhole
    <2>. QED  BY <2>1, <2>2, <2>3, NextIs
  <1>. QED  BY <1>1, <1>2, InvHolds, PTL DEF Spec

(***************************************************************************)
(* Over the R2 backend the site serves nothing or all of one upload, for   *)
(* any number of uploads, chunks and requests, while complete requests are *)
(* not given up on: the parts of a file are put together where no other    *)
(* request writes, and their number is compared before it is stored.       *)
(***************************************************************************)
THEOREM ServedIsWhole ==
    ASSUME ~Local, "complete_timeout" \notin Faults
    PROVE  Spec => []ServedWhole
  <1>1. ShelfInv => ServedWhole
    BY DEF ShelfInv
  <1>. QED  BY <1>1, ShelfInvHolds, PTL

-----------------------------------------------------------------------------
(* The steps of the shelf                                                  *)

LEMMA ServedIs ==
    ASSUME NEW u \in Uploads, file[Live] = Whole(u)
    PROVE  served = u
  <1>1. Whole(u) # None
    BY WholeContent, ContentFacts
  <1>2. ASSUME NEW v \in Uploads, Whole(u) = Whole(v) PROVE v = u
    <2>1. 1 \in 1..ChunksOf[u] /\ 1 \in 1..ChunksOf[v]
      BY Sizes
    <2>2. Whole(u)[1] = <<u, 0>> /\ Whole(v)[1] = <<v, 0>>
      BY <2>1 DEF Whole
    <2>. QED  BY <1>2, <2>2
  <1>3. (CHOOSE v \in Uploads : file[Live] = Whole(v)) = u
    BY <1>2
  <1>. QED  BY <1>1, <1>3 DEF served

(* An upload whose every chunk was acknowledged stays so. *)
LEMMA DeliveredGrows ==
    ASSUME Inv, [Next]_vars
    PROVE  delivered \subseteq delivered' /\ delivered' \subseteq Uploads
  <1>1. /\ client \in [Uploads -> Client]
        /\ \A u \in Uploads : ClientOk(u, client[u]) /\ client[u] \in Client
    BY InvParts DEF ControlOk, FormInv
  <1>. SUFFICES ASSUME NEW u \in Uploads,
                       client[u].phase # "new",
                       u \in Singles \/ client[u].next = ChunksOf[u]
                PROVE  /\ client'[u].phase # "new"
                       /\ u \in Singles \/ client'[u].next = ChunksOf[u]
    BY DEF delivered
  <1>2. client'[u].phase # "new" /\ client'[u].next = client[u].next
           => client'[u].phase # "new"
              /\ (u \in Singles \/ client'[u].next = ChunksOf[u])
    OBVIOUS
  <1>3. ASSUME NEW h \in Handlers, Handle(h) \/ IoFails(h)
        PROVE  client'[u].phase # "new"
               /\ (u \in Singles \/ client'[u].next = ChunksOf[u])
    <2>1. CASE client'[u] = client[u]
      BY <2>1
    <2>2. ASSUME NEW code \in Codes, Leads(u, client[u], client'[u], code)
          PROVE  client'[u].phase # "new"
                 /\ (u \in Singles \/ client'[u].next = ChunksOf[u])
      <3>1. client[u].phase = "chunk" => client[u].next # ChunksOf[u]
        BY <1>1, Sizes DEF ClientOk, Client
      <3>. QED  BY <2>2, <3>1 DEF Leads
    <2>3. Works(h)
      BY <1>3, HandleSteps
    <2>. QED  BY <2>1, <2>2, <2>3, RepliesFacts DEF Works, GoesOn
  <1>4. CASE \/ \E h \in Handlers : RequestDelete(h)
             \/ \E v \in Uploads, h \in Handlers : Send(v, h)
             \/ \E v \in Uploads : ClientMoves(v)
             \/ Restart
    <2>1. client'[u].phase # "new"
      BY <1>4, SeveralBegin DEF Begins
    <2>2. client'[u].next = client[u].next
      <3>1. ASSUME NEW v \in Uploads, NEW h \in Handlers, Send(v, h)
            PROVE  client'[u].next = client[u].next
        <4>1. Sent(v, h)
          BY <3>1, SendFacts
        <4>. QED  BY <1>1, <4>1 DEF Sent
      <3>2. ASSUME NEW v \in Uploads, ClientMoves(v)
            PROVE  client'[u].next = client[u].next
        <4>1. CASE Begin(v)
          BY <1>1, <4>1, BeginFacts
        <4>2. CASE GivesUp(v)
          BY <1>1, <4>2, GivesUpFacts
        <4>3. CASE Abort(v)
          BY <1>1, <4>3, AbortFacts
        <4>4. CASE Expire(v)
          BY <1>1, <4>4, ExpireFacts
        <4>5. CASE CleanupStale(v)
          BY <4>5 DEF CleanupStale
        <4>. QED  BY <3>2, <4>1, <4>2, <4>3, <4>4, <4>5 DEF ClientMoves
      <3>. QED  BY <1>4, <3>1, <3>2, RestartFacts DEF RequestDelete
    <2>. QED  BY <2>1, <2>2
  <1>5. CASE UNCHANGED vars
    BY <1>5 DEF vars
  <1>. QED  BY <1>3, <1>4, <1>5, NextIs

LEMMA ShelfSteps ==
    ASSUME Inv, ShelfInv, ~Local, [Next]_vars
    PROVE  [Shelf!Next]_<<served, delivered>>
  <1>1. /\ FitInv /\ \A h \in Handlers : handler[h] \in Handler /\ HandlerOk(handler[h])
        /\ \A g \in Handlers : Assembled(g)
    BY InvParts DEF Inv, ShelfInv
  <1>2. CASE file'[Live] = file[Live]
    <2>1. served' = served
      BY <1>2 DEF served, Whole
    <2>2. delivered' \in SUBSET Uploads /\ delivered \subseteq delivered'
      BY DeliveredGrows
    <2>. QED  BY <2>1, <2>2 DEF Shelf!Next, Shelf!Receive
  <1>3. ASSUME NEW h \in Handlers, DeleteFile(h), file'[Live] = None
        PROVE  Shelf!Next
    <2>1. client' = client
      BY <1>3 DEF DeleteFile
    <2>2. served' = None
      BY <1>3 DEF served
    <2>. QED  BY <2>1, <2>2 DEF Shelf!Next, Shelf!Withdraw, delivered
  <1>4. ASSUME NEW h \in Handlers, PutObject(h) \/ PutBytes(h),
               file'[Live] = Whole(handler[h].upload)
        PROVE  Shelf!Next
    <2>. DEFINE t == handler[h]
    <2>1. PICK u \in Uploads : u = t.upload
      BY <1>1 DEF Handler
    <2>2. /\ t.op = "complete" \/ t.op = "single"
          /\ Busy(h) /\ client' = client
      BY <1>1, <1>4, ByPlace DEF PutObject, PutBytes, At, Busy
    <2>3. Fits(h, t, client[u])
      BY <1>1, <2>1, <2>2 DEF FitInv
    <2>4. u \in delivered /\ delivered' = delivered
      BY <1>1, <2>1, <2>2, <2>3 DEF delivered, Fits, HandlerOk
    <2>5. (file[Live] = Whole(u) => served = u)'
      BY ServedIs, PTL
    <2>6. served' = u
      BY <1>4, <2>1, <2>5 DEF Whole
    <2>. QED  BY <2>4, <2>6 DEF Shelf!Next, Shelf!Publish
  <1>5. ASSUME NEW h \in Handlers, Handle(h) \/ IoFails(h)
        PROVE  [Shelf!Next]_<<served, delivered>>
    BY <1>1, <1>2, <1>3, <1>4, <1>5, LiveSteps
  <1>6. CASE \/ \E h \in Handlers : RequestDelete(h)
             \/ \E u \in Uploads, h \in Handlers : Send(u, h)
             \/ \E u \in Uploads : ClientMoves(u)
             \/ Restart
    BY <1>1, <1>2, <1>6, AssembledSeveral
  <1>7. CASE UNCHANGED vars
    BY <1>2, <1>7 DEF vars, disk
  <1>. QED  BY <1>5, <1>6, <1>7, NextIs

(***************************************************************************)
(* Over the R2 backend, and while complete requests are not given up on,   *)
(* uploads are publications on a shelf: the model is replaced in one step  *)
(* by an upload whose every chunk was acknowledged, or withdrawn.          *)
(***************************************************************************)
THEOREM ShelfImplemented ==
    ASSUME ~Local, "complete_timeout" \notin Faults
    PROVE  Spec => ImplementsShelf
  <1>1. Init => Shelf!Init
    BY DEF Init, Shelf!Init, served, delivered, Targets
  <1>2. Inv /\ ShelfInv /\ [Next]_vars => [Shelf!Next]_<<served, delivered>>
    BY ShelfSteps
  <1>. QED  BY <1>1, <1>2, InvHolds, ShelfInvHolds, PTL
            DEF Spec, ImplementsShelf, Shelf!Spec

-----------------------------------------------------------------------------
(* A client that never gave up has one request at a time                   *)

(* A client that never gave up waits for the one request of its upload.    *)
Prompt(h) ==
    LET c == client[handler[h].upload] IN
    Busy(h) /\ handler[h].op # "delete" /\ ~c.late =>
        /\ c.waits = h /\ c.phase = handler[h].op
        /\ handler[h].op = "chunk" => handler[h].chunk = c.next

PromptInv == \A h \in Handlers : Prompt(h)

(* The snapshot of a request holds every chunk that was acknowledged.      *)
SnapshotAcked(h) ==
    LET t == handler[h] c == client[t.upload] IN
    t.op = "chunk" /\ t.pc \in {"open", "write", "record"} /\ ~c.late
        => 0..(c.next - 1) \subseteq t.seen

AckedInv == /\ \A h \in Handlers : SnapshotAcked(h)
            /\ AckedIsRecorded

LEMMA PromptWorks ==
    ASSUME Inv, PromptInv, NEW h \in Handlers, Handle(h) \/ IoFails(h),
           NEW g \in Handlers
    PROVE  /\ Prompt(g)'
           /\ g # h /\ Busy(g) /\ handler[g].op # "delete"
              /\ ~client[handler[g].upload].late
                 => client'[handler[g].upload] = client[handler[g].upload]
  <1>1. /\ ControlOk /\ Works(h) /\ OthersStay(h)
        /\ handler[g].upload \in Uploads
        /\ client[handler[g].upload] \in Client
    BY InvParts, HandleSteps DEF Inv, ControlOk, Handler, Works, GoesOn, Replies
  <1>2. g # h => handler'[g].pc = handler[g].pc
                 /\ SameRequest(handler[g], handler'[g])
    BY <1>1, OthersSame
  <1>3. CASE GoesOn(h)
    <2>1. client' = client /\ SameRequest(handler[g], handler'[g])
          /\ (Busy(g)' <=> Busy(g))
      BY <1>2, <1>3 DEF GoesOn, Busy
    <2>. QED  BY <2>1 DEF PromptInv, Prompt, SameRequest
  <1>4. ASSUME NEW code \in Codes, Replies(h, code)
        PROVE  /\ Prompt(g)'
               /\ g # h /\ Busy(g) /\ handler[g].op # "delete"
                  /\ ~client[handler[g].upload].late
                     => client'[handler[g].upload] = client[handler[g].upload]
    <2>1. CASE g = h
      BY <1>4, <2>1, IdleOk DEF Replies, Prompt, Busy
    <2>2. CASE g # h
      <3>1. client'[handler[g].upload].late = client[handler[g].upload].late
        BY <1>1, <1>4, RepliesFacts DEF Leads
      <3>2. Busy(g) /\ handler[g].op # "delete"
            /\ ~client[handler[g].upload].late
               => client'[handler[g].upload] = client[handler[g].upload]
        <4>1. Busy(g) /\ handler[g].op # "delete"
              /\ ~client[handler[g].upload].late
                 => client[handler[g].upload].waits = g
          BY DEF PromptInv, Prompt
        <4>. QED  BY <1>1, <1>4, <2>2, <4>1, RepliesFacts
      <3>3. handler'[g].upload = handler[g].upload /\ (Busy(g)' <=> Busy(g))
            /\ handler'[g].op = handler[g].op
            /\ handler'[g].chunk = handler[g].chunk
        BY <1>2, <2>2 DEF Busy, SameRequest
      <3>. QED  BY <2>2, <3>1, <3>2, <3>3 DEF PromptInv, Prompt
    <2>. QED  BY <2>1, <2>2
  <1>. QED  BY <1>1, <1>3, <1>4 DEF Works

(* What the browser, the cleaner and a restart leave of a prompt client.   *)
LEMMA PromptSeveral ==
    ASSUME Inv, PromptInv,
           \/ \E h \in Handlers : RequestDelete(h)
           \/ \E u \in Uploads, h \in Handlers : Send(u, h)
           \/ \E u \in Uploads : ClientMoves(u)
           \/ Restart
    PROVE  PromptInv'
  <1>1. /\ None \notin Handlers
        /\ client \in [Uploads -> Client] /\ handler \in [Handlers -> Handler]
        /\ \A g \in Handlers : handler[g].upload \in Uploads
        /\ \A u \in Uploads : ClientOk(u, client[u])
    BY InvParts, Sizes DEF Inv, ControlOk, Handler, FormInv
  <1>2. ASSUME NEW h \in Handlers, RequestDelete(h), NEW g \in Handlers
        PROVE  Prompt(g)'
    <2>1. /\ handler'[h].op = "delete" /\ client' = client
          /\ handler' = [handler EXCEPT ![h] = handler'[h]]
      BY <1>2, DeletionFacts
    <2>. QED  BY <1>1, <2>1 DEF PromptInv, Prompt, Busy
  <1>3. ASSUME NEW u \in Uploads, NEW h \in Handlers, Send(u, h),
               NEW g \in Handlers
        PROVE  Prompt(g)'
    <2>1. Sent(u, h)
      BY <1>3, SendFacts
    <2>2. CASE g = h
      BY <2>1, <2>2 DEF Sent, Prompt
    <2>3. CASE g # h
      <3>1. handler'[g] = handler[g] /\ Prompt(g)
        BY <2>1, <2>3 DEF Sent, OthersUntouched, PromptInv
      <3>2. CASE handler[g].upload = u
        BY <1>1, <2>1, <3>1, <3>2 DEF Sent, Prompt, Busy
      <3>3. CASE handler[g].upload # u
        BY <1>1, <2>1, <3>1, <3>3 DEF Sent, Prompt, Busy
      <3>. QED  BY <3>2, <3>3
    <2>. QED  BY <2>2, <2>3
  <1>4. ASSUME NEW u \in Uploads, handler' = handler, NEW d \in Client,
               client' = [client EXCEPT ![u] = d],
               d.late \/ /\ d.phase = client[u].phase /\ d.next = client[u].next
                         /\ d.waits = client[u].waits /\ d.late = client[u].late,
               NEW g \in Handlers
        PROVE  Prompt(g)'
    BY <1>1, <1>4 DEF PromptInv, Prompt, Busy
  <1>5. ASSUME NEW u \in Uploads, ClientMoves(u), NEW g \in Handlers
        PROVE  Prompt(g)'
    <2>1. CASE Begin(u)
      <3>1. handler' = handler
        BY <2>1 DEF Begin
      <3>2. Busy(g) /\ handler[g].op # "delete" => handler[g].upload # u
        BY <2>1 DEF Begin, Inv, FitInv, Fits
      <3>. QED  BY <1>1, <2>1, <3>1, <3>2, BeginFacts DEF PromptInv, Prompt, Busy
    <2>2. CASE GivesUp(u)
      <3>1. handler' = handler
        BY <2>2 DEF GivesUp
      <3>. QED  BY <1>4, <2>2, <3>1, GivesUpFacts
    <2>3. CASE Abort(u)
      <3>1. handler' = handler
        BY <2>3 DEF Abort
      <3>. QED  BY <1>4, <2>3, <3>1, AbortFacts
    <2>4. CASE Expire(u)
      <3>1. handler' = handler
        BY <2>4 DEF Expire
      <3>. QED  BY <1>4, <2>4, <3>1, ExpireFacts
    <2>5. CASE CleanupStale(u)
      BY <2>5 DEF CleanupStale, PromptInv, Prompt, Busy
    <2>. QED  BY <1>5, <2>1, <2>2, <2>3, <2>4, <2>5 DEF ClientMoves
  <1>6. CASE Restart
    <2>1. \A g \in Handlers : ~Busy(g)'
      BY <1>6, RestartFacts, IdleOk DEF Busy
    <2>. QED  BY <2>1 DEF PromptInv, Prompt
  <1>. QED  BY <1>2, <1>3, <1>5, <1>6 DEF PromptInv

LEMMA PromptHolds == Spec => []PromptInv
  <1>1. Init => PromptInv
    BY IdleOk DEF Init, PromptInv, Prompt, Busy
  <1>2. Inv /\ PromptInv /\ [Next]_vars => PromptInv'
    <2>. SUFFICES ASSUME Inv, PromptInv, [Next]_vars PROVE PromptInv'
      OBVIOUS
    <2>1. ASSUME NEW h \in Handlers, Handle(h) \/ IoFails(h) PROVE PromptInv'
      BY <2>1, PromptWorks DEF PromptInv
    <2>2. CASE UNCHANGED vars
      BY <2>2 DEF vars, disk, PromptInv, Prompt, Busy
    <2>. QED  BY <2>1, <2>2, NextIs, PromptSeveral
  <1>. QED  BY <1>1, <1>2, InvHolds, PTL DEF Spec

-----------------------------------------------------------------------------
(* What a session records is on disk with all its bytes, unless its client *)
(* gave up on a request: nobody else truncates a chunk that is recorded    *)

Sends(u) == client[u].phase = "chunk" /\ ~client[u].late

(* The one request of such a client finds what it read in the session, and *)
(* opens a chunk that is not recorded.                                     *)
CarriesWhole(h) ==
    LET t == handler[h] u == t.upload IN
    t.op = "chunk" /\ Sends(u) =>
        /\ t.pc \in {"open", "write"} => /\ session[u] = t.seen
                                         /\ t.chunk \notin t.seen
        /\ t.pc \in {"open", "write", "record"} => t.seen \subseteq Filled(u)
        /\ t.pc = "record" => t.chunk \in Filled(u)

FilledInv == /\ \A h \in Handlers : CarriesWhole(h)
             /\ \A u \in Uploads : Sends(u) /\ session[u] # None
                                       => session[u] \subseteq Filled(u)

LEMMA FilledIs ==
    /\ \A u \in Uploads, i \in Chunk :
          i \in Filled(u) <=> tmp[u] # None /\ tmp[u][i] = "whole"
    /\ \A u \in Uploads, i \in Chunk :
          i \in Filled(u)' <=> tmp'[u] # None /\ tmp'[u][i] = "whole"
    /\ \A u \in Uploads : Filled(u) \subseteq Chunk
  BY DEF Filled

(* The steps of the backend that touch the chunks of a client that sends   *)
(* them are those of its one request.                                      *)
LEMMA ChunkSteps ==
    ASSUME Inv, PromptInv, NEW h \in Handlers, Handle(h) \/ IoFails(h),
           NEW u \in Uploads, Sends(u)
    PROVE  \/ tmp'[u] = tmp[u] /\ session'[u] = session[u]
           \/ /\ handler[h].upload = u /\ handler[h].op = "chunk"
              /\ client[u].waits = h
              /\ \/ OpenChunk(h) /\ tmp[u] # None
                 \/ WriteChunk(h)
                 \/ RecordChunk(h)
  <1>. DEFINE t == handler[h]
  <1>1. /\ StoreOk /\ FitInv /\ t \in Handler /\ HandlerOk(t)
        /\ t.upload \in Uploads /\ t.chunk \in Chunk
    BY InvParts DEF Inv, Handler
  <1>2. CASE t.upload # u
    <2>1. tmp'[u] = tmp[u]
      BY <1>1, <1>2
      DEF Handle, Upload, Complete, Finish, SingleShot, Delete, StoreSession,
          MakeDirectory, ReadForChunk, OpenChunk, WriteChunk, RecordChunk,
          ReadForComplete, CreateTarget, CopyChunk, VerifySize, Discard,
          PutObject, UpsertRow, CleanupTemp, DeleteSession, ReadForCancel,
          OverwriteLocal, FillLocal, PutBytes, ReadRow, DeleteFile, DeleteRow,
          IoFails, disk, StoreOk
    <2>2. session'[u] = session[u]
      BY <1>1, <1>2, SessionSteps
      DEF StoreSession, RecordChunk, DeleteSession, StoreOk
    <2>. QED  BY <2>1, <2>2
  <1>3. CASE t.upload = u /\ t.op = "delete"
    <2>1. Handle(h) => ReadRow(h) \/ DeleteFile(h) \/ DeleteRow(h)
      BY <1>1, <1>3, ByPlace
      DEF Handle, Upload, Complete, Finish, SingleShot, Delete, StoreSession,
          MakeDirectory, ReadForChunk, OpenChunk, WriteChunk, RecordChunk,
          ReadForComplete, CreateTarget, CopyChunk, VerifySize, Discard,
          PutObject, UpsertRow, CleanupTemp, DeleteSession, ReadForCancel,
          OverwriteLocal, FillLocal, PutBytes, At
    <2>. QED  BY <2>1 DEF ReadRow, DeleteFile, DeleteRow, IoFails, disk
  <1>4. CASE t.upload = u /\ t.op # "delete"
    <2>1. Busy(h)
      BY <1>1, <1>4 DEF HandlerOk, PlacesOf, Busy, Handler, Ops
    <2>2. t.op = "chunk" /\ client[u].waits = h
      BY <1>4, <2>1 DEF PromptInv, Prompt, Sends
    <2>3. Handle(h) => \/ ReadForChunk(h) \/ OpenChunk(h)
                       \/ WriteChunk(h) \/ RecordChunk(h)
      BY <1>1, <2>2, ByPlace
      DEF Handle, Upload, Complete, Finish, SingleShot, Delete, StoreSession,
          MakeDirectory, ReadForComplete, CreateTarget, CopyChunk, VerifySize,
          Discard, PutObject, UpsertRow, CleanupTemp, DeleteSession,
          ReadForCancel, OverwriteLocal, FillLocal, PutBytes, ReadRow,
          DeleteFile, DeleteRow, At
    <2>4. CASE ReadForChunk(h) \/ IoFails(h) \/ (OpenChunk(h) /\ tmp[u] = None)
      BY <1>4, <2>4 DEF ReadForChunk, IoFails, OpenChunk, disk
    <2>. QED  BY <1>4, <2>2, <2>3, <2>4
  <1>. QED  BY <1>2, <1>3, <1>4

(* Two requests of such a client are one. *)
LEMMA OneRequest ==
    ASSUME PromptInv, NEW g \in Handlers, NEW h \in Handlers,
           Busy(g), handler[g].op = "chunk", Sends(handler[g].upload),
           client[handler[g].upload].waits = h
    PROVE  g = h
  BY DEF PromptInv, Prompt, Sends

LEMMA FilledRows ==
    ASSUME Inv, PromptInv, StoredInv, FilledInv,
           NEW h \in Handlers, Handle(h) \/ IoFails(h),
           NEW u \in Uploads, Sends(u)
    PROVE  /\ session'[u] # None => session'[u] \subseteq Filled(u)'
           /\ handler[h].upload = u /\ OpenChunk(h) /\ tmp[u] # None
                 => handler[h].seen \subseteq Filled(u)'
           /\ handler[h].upload = u /\ WriteChunk(h)
                 => /\ handler[h].seen \subseteq Filled(u)'
                    /\ handler[h].chunk \in Filled(u)'
  <1>. DEFINE t == handler[h]
              i == t.chunk
  <1>1. /\ StoreOk /\ t \in Handler /\ HandlerOk(t) /\ i \in Chunk
        /\ t.upload \in Uploads /\ t.seen \subseteq Chunk
        /\ tmp \in [Uploads -> [Chunk -> FileState] \union {None}]
    BY InvParts DEF Inv, Handler, StoreOk
  <1>2. session[u] # None => session[u] \subseteq Filled(u)
    BY DEF FilledInv
  <1>3. CASE t.upload = u /\ OpenChunk(h) /\ tmp[u] # None
    <2>1. /\ t.pc = "open" /\ t.op = "chunk" /\ session' = session
          /\ tmp' = [tmp EXCEPT ![u][i] = "empty"]
          /\ tmp[u] \in [Chunk -> FileState]
      BY <1>1, <1>3, ByPlace DEF OpenChunk, At
    <2>2. session[u] = t.seen /\ i \notin t.seen /\ t.seen \subseteq Filled(u)
      BY <1>3, <2>1 DEF FilledInv, CarriesWhole
    <2>3. \A j \in Chunk : j # i => tmp'[u][j] = tmp[u][j]
      BY <1>1, <2>1
    <2>4. tmp'[u] # None
      <3>1. [tmp[u] EXCEPT ![i] = "empty"] \in [Chunk -> FileState]
        BY <2>1 DEF FileState
      <3>. QED  BY <1>1, <2>1, <3>1, NothingAssumption
    <2>5. t.seen \subseteq Filled(u)'
      BY <1>1, <2>2, <2>3, <2>4, FilledIs
    <2>. QED  BY <1>3, <2>1, <2>2, <2>5 DEF OpenChunk, WriteChunk, At
  <1>4. CASE t.upload = u /\ WriteChunk(h)
    <2>1. t.pc = "write" /\ t.op = "chunk" /\ session' = session
      BY <1>1, <1>4, ByPlace DEF WriteChunk, At
    <2>2. session[u] = t.seen /\ t.seen \subseteq Filled(u)
      BY <1>4, <2>1 DEF FilledInv, CarriesWhole
    <2>3. i \in Stored(u)
      BY <1>4, <2>1 DEF StoredInv, SnapshotStored, Sends
    <2>4. tmp[u] # None /\ tmp[u][i] # "absent"
      BY <1>1, <2>3, StoredIs
    <2>5. /\ tmp' = [tmp EXCEPT ![u][i] = "whole"]
          /\ tmp[u] \in [Chunk -> FileState]
      BY <1>1, <1>4, <2>4 DEF WriteChunk
    <2>6. \A j \in Chunk : tmp'[u][j] = IF j = i THEN "whole" ELSE tmp[u][j]
      BY <1>1, <2>5
    <2>7. tmp'[u] # None
      <3>1. [tmp[u] EXCEPT ![i] = "whole"] \in [Chunk -> FileState]
        BY <2>5 DEF FileState
      <3>. QED  BY <1>1, <2>5, <3>1, NothingAssumption
    <2>8. t.seen \subseteq Filled(u)' /\ i \in Filled(u)'
      BY <1>1, <2>2, <2>6, <2>7, FilledIs
    <2>. QED  BY <1>4, <2>1, <2>2, <2>8 DEF OpenChunk, WriteChunk, At
  <1>5. CASE t.upload = u /\ RecordChunk(h)
    <2>1. /\ t.pc = "record" /\ t.op = "chunk" /\ tmp' = tmp
          /\ session'[u] = t.seen \union {i}
      BY <1>1, <1>5, ByPlace DEF RecordChunk, At, disk, StoreOk
    <2>2. t.seen \subseteq Filled(u) /\ i \in Filled(u)
      BY <1>5, <2>1 DEF FilledInv, CarriesWhole
    <2>3. Filled(u)' = Filled(u)
      BY <2>1 DEF Filled
    <2>. QED  BY <1>5, <2>1, <2>2, <2>3 DEF OpenChunk, WriteChunk, At
  <1>6. CASE ~(t.upload = u /\ ((OpenChunk(h) /\ tmp[u] # None)
                               \/ WriteChunk(h) \/ RecordChunk(h)))
    <2>1. tmp'[u] = tmp[u] /\ session'[u] = session[u]
      BY <1>6, ChunkSteps
    <2>2. Filled(u)' = Filled(u)
      BY <2>1 DEF Filled
    <2>. QED  BY <1>2, <1>6, <2>1, <2>2
  <1>. QED  BY <1>3, <1>4, <1>5, <1>6

(* A client that sends chunks after a step of the backend, and never gave  *)
(* up on a request, did so before, or its session has just been made.      *)
LEMMA StillSends ==
    ASSUME Inv, NEW h \in Handlers, Handle(h) \/ IoFails(h),
           NEW u \in Uploads, Sends(u)'
    PROVE  Sends(u) \/ (session'[u] \in {None, {}} /\ handler'[h] = Idle
                        /\ client[u].phase = "initiate")
  <1>. DEFINE t == handler[h]
  <1>1. /\ StoreOk /\ FreshInv /\ Works(h) /\ t \in Handler /\ HandlerOk(t)
        /\ t.upload \in Uploads
    BY InvParts, HandleSteps DEF Inv, Handler
  <1>2. client'[u].late = client[u].late
    <2>1. CASE GoesOn(h)
      BY <2>1 DEF GoesOn
    <2>2. ASSUME NEW code \in Codes, Replies(h, code)
          PROVE  client'[u].late = client[u].late
      BY <1>1, <2>2, RepliesFacts DEF Leads
    <2>. QED  BY <1>1, <2>1, <2>2 DEF Works
  <1>3. CASE client[u].phase = "chunk"
    BY <1>2, <1>3 DEF Sends
  <1>4. CASE client[u].phase = "initiate" /\ t.op = "initiate"
    <2>1. session[u] \in {None, {}}
      BY <1>1, <1>4 DEF FreshInv
    <2>2. session'[u] \in {None, {}}
      BY <1>1, <1>4, <2>1, SessionSteps, ByPlace
      DEF StoreSession, RecordChunk, DeleteSession, At, StoreOk
    <2>3. client' # client
      BY <1>4 DEF Sends
    <2>4. handler'[h] = Idle
      BY <1>1, <2>3 DEF Works, GoesOn, Replies
    <2>. QED  BY <1>4, <2>2, <2>4
  <1>. QED  BY <1>3, <1>4, SendsChunks DEF Sends

LEMMA FilledWorks ==
    ASSUME Inv, PromptInv, StoredInv, FilledInv,
           NEW h \in Handlers, Handle(h) \/ IoFails(h)
    PROVE  FilledInv'
  <1>. DEFINE t == handler[h]
  <1>1. /\ StoreOk /\ ControlOk /\ FitInv /\ Works(h) /\ OthersStay(h)
        /\ t \in Handler /\ HandlerOk(t) /\ t.upload \in Uploads
        /\ handler \in [Handlers -> Handler]
        /\ handler' \in [Handlers -> Handler]
        /\ \A g \in Handlers : HandlerOk(handler[g])
    BY InvParts, HandleSteps
    DEF Inv, Handler, ControlOk, FormInv, Works, GoesOn, Replies
  <1>2. ASSUME NEW u \in Uploads, Sends(u)', session'[u] # None
        PROVE  session'[u] \subseteq Filled(u)'
    BY <1>2, StillSends, FilledRows
  <1>3. ASSUME NEW g \in Handlers PROVE CarriesWhole(g)'
    <2>. DEFINE s == handler'[g]
    <2>0. s.upload \in Uploads
      BY <1>1 DEF Handler
    <2>. SUFFICES ASSUME NEW u \in Uploads, s.upload = u,
                         s.op = "chunk", Sends(u)',
                         s.pc \in {"open", "write", "record"}
                  PROVE  /\ s.pc \in {"open", "write"} => /\ session'[u] = s.seen
                                                          /\ s.chunk \notin s.seen
                         /\ s.seen \subseteq Filled(u)'
                         /\ s.pc = "record" => s.chunk \in Filled(u)'
      BY <2>0 DEF CarriesWhole
    <2>2. CASE g # h
      <3>1. /\ handler[g].pc = s.pc /\ handler[g].seen = s.seen /\ Busy(g)
            /\ handler[g].op = "chunk" /\ handler[g].upload = u
            /\ handler[g].chunk = s.chunk
        BY <1>1, <2>2, OthersSame DEF Busy, SameRequest
      <3>2. client[u].phase # "initiate"
        BY <1>1, <3>1 DEF FitInv, Fits
      <3>3. Sends(u)
        BY <3>2, StillSends
      <3>4. CarriesWhole(g)
        BY DEF FilledInv
      <3>5. client[u].waits # h
        BY <2>2, <3>1, <3>3, OneRequest
      <3>6. tmp'[u] = tmp[u] /\ session'[u] = session[u]
        BY <3>3, <3>5, ChunkSteps
      <3>7. Filled(u)' = Filled(u)
        BY <3>6 DEF Filled
      <3>. QED  BY <3>1, <3>3, <3>4, <3>6, <3>7 DEF CarriesWhole
    <2>3. CASE g = h
      <3>1. /\ GoesOn(h) /\ t.op = "chunk" /\ client' = client /\ Busy(h)
            /\ t.upload = u /\ s.chunk = t.chunk
        BY <1>1, <2>3, IdleOk DEF Works, Replies, GoesOn, SameRequest
      <3>2. Sends(u)
        BY <3>1 DEF Sends
      <3>3. ReadForChunk(h) \/ OpenChunk(h) \/ WriteChunk(h)
        BY <1>1, <2>3, <3>1, ByPlace, IdleOk
        DEF Handle, Upload, Complete, Finish, SingleShot, Delete, StoreSession,
            MakeDirectory, RecordChunk, ReadForComplete, CreateTarget, CopyChunk,
            VerifySize, Discard, PutObject, UpsertRow, CleanupTemp,
            DeleteSession, ReadForCancel, OverwriteLocal, FillLocal, PutBytes,
            ReadRow, DeleteFile, DeleteRow, IoFails, At, Reply, Become
      <3>4. CarriesWhole(h)
        BY DEF FilledInv
      <3>5. CASE ReadForChunk(h)
        <4>1. /\ session[u] # None /\ t.chunk \notin session[u]
              /\ s = [t EXCEPT !.pc = "open", !.seen = session[u]]
              /\ tmp' = tmp /\ session' = session
          BY <1>1, <2>3, <3>1, <3>5, IdleOk DEF ReadForChunk, Reply, Become, disk
        <4>2. s.pc = "open" /\ s.seen = session[u]
          BY <1>1, <4>1 DEF Handler
        <4>3. session[u] \subseteq Filled(u) /\ Filled(u)' = Filled(u)
          BY <3>2, <4>1 DEF FilledInv, Filled
        <4>. QED  BY <3>1, <4>1, <4>2, <4>3
      <3>6. CASE OpenChunk(h)
        <4>1. /\ tmp[u] # None /\ s = [t EXCEPT !.pc = "write"]
              /\ t.pc = "open" /\ session' = session
          BY <1>1, <2>3, <3>1, <3>6, IdleOk DEF OpenChunk, Reply, Goto, Become, At
        <4>2. s.pc = "write" /\ s.seen = t.seen
          BY <1>1, <4>1 DEF Handler
        <4>3. session[u] = t.seen /\ t.chunk \notin t.seen
          BY <3>1, <3>2, <3>4, <4>1 DEF CarriesWhole
        <4>4. t.seen \subseteq Filled(u)'
          BY <3>1, <3>2, <3>6, <4>1, FilledRows
        <4>. QED  BY <3>1, <4>1, <4>2, <4>3, <4>4
      <3>7. CASE WriteChunk(h)
        <4>1. s = [t EXCEPT !.pc = "record"] /\ t.pc = "write"
          BY <1>1, <2>3, <3>7 DEF WriteChunk, Goto, Become, At
        <4>2. s.pc = "record" /\ s.seen = t.seen
          BY <1>1, <4>1 DEF Handler
        <4>3. t.seen \subseteq Filled(u)' /\ t.chunk \in Filled(u)'
          BY <3>1, <3>2, <3>7, FilledRows
        <4>. QED  BY <3>1, <4>2, <4>3
      <3>. QED  BY <3>3, <3>5, <3>6, <3>7
    <2>. QED  BY <2>2, <2>3
  <1>. QED  BY <1>2, <1>3 DEF FilledInv

LEMMA FilledSeveral ==
    ASSUME Inv, FilledInv,
           \/ \E h \in Handlers : RequestDelete(h)
           \/ \E u \in Uploads, h \in Handlers : Send(u, h)
           \/ \E u \in Uploads : ClientMoves(u)
           \/ Restart
    PROVE  FilledInv'
  <1>1. /\ client \in [Uploads -> Client] /\ handler \in [Handlers -> Handler]
        /\ StoreOk
    BY InvParts DEF ControlOk
  <1>2. ASSUME NEW u \in Uploads, Sends(u)' PROVE Sends(u)
    <2>1. ASSUME NEW v \in Uploads, NEW h \in Handlers, Send(v, h)
          PROVE  Sends(u)
      <3>1. Sent(v, h)
        BY <2>1, SendFacts
      <3>. QED  BY <1>1, <1>2, <3>1 DEF Sent, Sends
    <2>2. ASSUME NEW v \in Uploads, Begin(v) PROVE Sends(u)
      BY <1>1, <1>2, <2>2, BeginFacts DEF Sends
    <2>3. ASSUME NEW v \in Uploads, GivesUp(v) PROVE Sends(u)
      BY <1>1, <1>2, <2>3, GivesUpFacts DEF Sends
    <2>4. ASSUME NEW v \in Uploads, Abort(v) PROVE Sends(u)
      BY <1>1, <1>2, <2>4, AbortFacts DEF Sends
    <2>5. ASSUME NEW v \in Uploads, Expire(v) PROVE Sends(u)
      BY <1>1, <1>2, <2>5, ExpireFacts DEF Sends
    <2>6. CASE Restart
      BY <1>2, <2>6, RestartFacts DEF Sends
    <2>. QED  BY <1>2, <2>1, <2>2, <2>3, <2>4, <2>5, <2>6
              DEF RequestDelete, ClientMoves, CleanupStale, Sends
  <1>3. ASSUME NEW u \in Uploads, session'[u] # None \/ Working(u)
        PROVE  session'[u] = session[u] /\ Filled(u)' = Filled(u)
    <2>1. CASE tmp' = tmp /\ session' = session
      BY <2>1 DEF Filled
    <2>2. ASSUME NEW v \in Uploads, CleanupStale(v)
          PROVE  session'[u] = session[u] /\ Filled(u)' = Filled(u)
      <3>1. v # u /\ session' = session
        BY <1>3, <2>2 DEF CleanupStale
      <3>2. tmp'[u] = tmp[u]
        BY <1>1, <2>2, <3>1 DEF CleanupStale, StoreOk
      <3>. QED  BY <3>1, <3>2 DEF Filled
    <2>3. ASSUME NEW v \in Uploads, Expire(v)
          PROVE  session'[u] = session[u] /\ Filled(u)' = Filled(u)
      <3>1. v # u /\ tmp' = tmp
        BY <1>1, <1>3, <2>3 DEF Expire, disk, StoreOk
      <3>2. session'[u] = session[u]
        BY <1>1, <2>3, <3>1 DEF Expire, StoreOk
      <3>. QED  BY <3>1, <3>2 DEF Filled
    <2>. QED  BY <2>1, <2>2, <2>3 DEF RequestDelete, Send, ClientMoves, Begin,
                                     GivesUp, Abort, Restart, disk
  <1>4. ASSUME NEW h \in Handlers PROVE CarriesWhole(h)'
    <2>1. CASE handler'[h].pc \notin {"open", "write", "record"}
      BY <2>1 DEF CarriesWhole
    <2>2. CASE handler'[h].pc \in {"open", "write", "record"}
      <3>1. handler'[h] = handler[h]
        <4>1. ASSUME NEW g \in Handlers, RequestDelete(g) PROVE handler'[h] = handler[h]
          <5>1. handler'[g].pc = "read" /\ handler' = [handler EXCEPT ![g] = handler'[g]]
            BY <4>1, DeletionFacts
          <5>. QED  BY <1>1, <2>2, <5>1
        <4>2. ASSUME NEW v \in Uploads, NEW g \in Handlers, Send(v, g)
              PROVE  handler'[h] = handler[h]
          <5>1. Sent(v, g)
            BY <4>2, SendFacts
          <5>. QED  BY <1>1, <2>2, <5>1 DEF Sent, OthersUntouched
        <4>3. CASE Restart
          BY <2>2, <4>3, RestartFacts, IdleOk
        <4>. QED  BY <4>1, <4>2, <4>3 DEF ClientMoves, Begin, GivesUp, Abort,
                                          Expire, CleanupStale
      <3>2. Working(handler[h].upload) /\ handler[h].upload \in Uploads
        BY <1>1, <2>2, <3>1 DEF Working, Handler
      <3>3. /\ session'[handler[h].upload] = session[handler[h].upload]
            /\ Filled(handler[h].upload)' = Filled(handler[h].upload)
        BY <1>3, <3>1, <3>2
      <3>4. Sends(handler[h].upload)' => Sends(handler[h].upload)
        BY <1>2, <3>1, <3>2
      <3>. QED  BY <3>1, <3>3, <3>4 DEF FilledInv, CarriesWhole
    <2>. QED  BY <2>1, <2>2
  <1>5. ASSUME NEW u \in Uploads, Sends(u)', session'[u] # None
        PROVE  session'[u] \subseteq Filled(u)'
    BY <1>2, <1>3, <1>5 DEF FilledInv
  <1>. QED  BY <1>4, <1>5 DEF FilledInv

LEMMA FilledHolds == Spec => []FilledInv
  <1>1. Init => FilledInv
    BY IdleOk DEF Init, FilledInv, CarriesWhole, Sends
  <1>2. Inv /\ PromptInv /\ StoredInv /\ FilledInv /\ [Next]_vars => FilledInv'
    <2>. SUFFICES ASSUME Inv, PromptInv, StoredInv, FilledInv, [Next]_vars
                  PROVE  FilledInv'
      OBVIOUS
    <2>1. ASSUME NEW h \in Handlers, Handle(h) \/ IoFails(h) PROVE FilledInv'
      BY <2>1, FilledWorks
    <2>2. CASE UNCHANGED vars
      BY <2>2 DEF vars, disk, FilledInv, CarriesWhole, Sends, Filled
    <2>. QED  BY <2>1, <2>2, NextIs, FilledSeveral
  <1>. QED  BY <1>1, <1>2, InvHolds, PromptHolds, FilesHold, PTL DEF Spec

(***************************************************************************)
(* A chunk recorded in the session of a client that sends chunks is on     *)
(* disk with all its bytes, for any number of uploads and requests and     *)
(* under every fault: upload_chunk writes the file before it stores the    *)
(* snapshot with the chunk in it, and does not open a chunk that is in the *)
(* snapshot.  Of a client that gave up on a request the file is there, but *)
(* the request that was given up on may have emptied it.                   *)
(***************************************************************************)
THEOREM RecordedStays == Spec => []RecordedIsStored
  <1>1. StoredInv /\ FilledInv => RecordedIsStored
    BY DEF StoredInv, RecordedHasFile, FilledInv, Sends, RecordedIsStored
  <1>. QED  BY <1>1, FilesHold, FilledHolds, PTL

-----------------------------------------------------------------------------
(* What a client was told is recorded                                      *)

LEMMA SnapshotAckedWorks ==
    ASSUME Inv, PromptInv, AckedInv, NEW h \in Handlers, Handle(h) \/ IoFails(h),
           NEW g \in Handlers
    PROVE  SnapshotAcked(g)'
  <1>. DEFINE t == handler[h]
              u == t.upload
  <1>1. /\ ControlOk /\ Works(h) /\ OthersStay(h) /\ StoreOk
        /\ t \in Handler /\ u \in Uploads /\ HandlerOk(t)
        /\ handler' \in [Handlers -> Handler] /\ handler[g] \in Handler
    BY InvParts, HandleSteps
    DEF Inv, ControlOk, Handler, Works, GoesOn, Replies
  <1>2. CASE g # h
    <2>1. /\ handler'[g].pc = handler[g].pc /\ handler'[g].seen = handler[g].seen
          /\ SameRequest(handler[g], handler'[g])
      BY <1>1, <1>2, OthersSame
    <2>2. Prompt(g) /\ SnapshotAcked(g)
      BY DEF PromptInv, AckedInv
    <2>3. CASE client'[handler[g].upload] = client[handler[g].upload]
      BY <2>1, <2>2, <2>3 DEF SnapshotAcked, SameRequest
    <2>4. CASE handler[g].op = "chunk" /\ Busy(g)
      <3>1. client'[handler[g].upload].late = client[handler[g].upload].late
        <4>1. CASE GoesOn(h)
          BY <4>1 DEF GoesOn
        <4>2. ASSUME NEW code \in Codes, Replies(h, code)
              PROVE  client'[handler[g].upload].late = client[handler[g].upload].late
          BY <1>1, <4>2, RepliesFacts DEF Leads, Handler
        <4>. QED  BY <1>1, <4>1, <4>2 DEF Works
      <3>2. CASE client[handler[g].upload].late
        BY <2>1, <3>1, <3>2 DEF SnapshotAcked, SameRequest
      <3>3. CASE ~client[handler[g].upload].late
        BY <1>2, <2>3, <2>4, <3>3, PromptWorks
      <3>. QED  BY <3>2, <3>3
    <2>5. CASE handler[g].op # "chunk" \/ ~Busy(g)
      BY <2>1, <2>5 DEF SnapshotAcked, SameRequest, Busy
    <2>. QED  BY <2>4, <2>5
  <1>3. CASE g = h /\ (handler'[h].op # "chunk"
                       \/ handler'[h].pc \notin {"open", "write", "record"})
    BY <1>3 DEF SnapshotAcked
  <1>4. CASE g = h /\ handler'[h].op = "chunk"
             /\ handler'[h].pc \in {"open", "write", "record"}
    <2>1. GoesOn(h) /\ t.op = "chunk" /\ client' = client /\ Busy(h)
          /\ handler'[h].upload = u
      BY <1>1, <1>4, IdleOk DEF Works, Replies, GoesOn, SameRequest
    <2>2. ReadForChunk(h) \/ OpenChunk(h) \/ WriteChunk(h)
      BY <1>1, <1>4, <2>1, ByPlace, IdleOk
      DEF Handle, Upload, Complete, Finish, SingleShot, Delete, StoreSession,
          MakeDirectory, RecordChunk, ReadForComplete, CreateTarget, CopyChunk,
          VerifySize, Discard, PutObject, UpsertRow, CleanupTemp,
          DeleteSession, ReadForCancel, OverwriteLocal, FillLocal, PutBytes,
          ReadRow, DeleteFile, DeleteRow, IoFails, At, Reply, Become
    <2>3. CASE ReadForChunk(h)
      <3>1. /\ session[u] # None
            /\ handler'[h] = [t EXCEPT !.pc = "open", !.seen = session[u]]
        BY <1>1, <1>4, <2>3, IdleOk DEF ReadForChunk, Reply, Become
      <3>2. handler'[h].seen = session[u]
        BY <1>1, <3>1 DEF Handler
      <3>3. ~client[u].late => client[u].phase = "chunk"
        BY <2>1 DEF PromptInv, Prompt
      <3>4. ~client[u].late => 0..(client[u].next - 1) \subseteq session[u]
        BY <1>1, <3>1, <3>3 DEF AckedInv, AckedIsRecorded
      <3>. QED  BY <1>4, <2>1, <3>2, <3>4 DEF SnapshotAcked
    <2>4. CASE OpenChunk(h) \/ WriteChunk(h)
      <3>1. /\ t.pc \in {"open", "write"}
            /\ handler'[h].seen = t.seen
        BY <1>1, <1>4, <2>4, IdleOk
        DEF OpenChunk, WriteChunk, Goto, Reply, Become, At, Handler
      <3>2. SnapshotAcked(h)
        BY DEF AckedInv
      <3>. QED  BY <1>4, <2>1, <3>1, <3>2 DEF SnapshotAcked
    <2>. QED  BY <2>2, <2>3, <2>4
  <1>. QED  BY <1>2, <1>3, <1>4

LEMMA AckedWorks ==
    ASSUME Inv, PromptInv, AckedInv, NEW h \in Handlers, Handle(h)
    PROVE  AckedIsRecorded'
  <1>. DEFINE t == handler[h]
  <1>1. /\ StoreOk /\ Works(h) /\ FitInv /\ t \in Handler /\ HandlerOk(t)
        /\ t.upload \in Uploads /\ t.chunk \in Chunk
        /\ client \in [Uploads -> Client]
        /\ \A u \in Uploads : ClientOk(u, client[u]) /\ client[u] \in Client
    BY InvParts, HandleSteps DEF Inv, Handler, ControlOk, FormInv
  <1>. SUFFICES ASSUME NEW u \in Uploads,
                       client'[u].phase \in {"chunk", "complete"},
                       session'[u] # None, ~client'[u].late
                PROVE  0..(client'[u].next - 1) \subseteq session'[u]
    BY DEF AckedIsRecorded
  <1>2. CASE client'[u] = client[u]
    <2>1. session[u] # None => 0..(client[u].next - 1) \subseteq session[u]
      BY <1>2 DEF AckedInv, AckedIsRecorded
    <2>2. CASE session'[u] = session[u]
      BY <1>2, <2>1, <2>2
    <2>3. CASE StoreSession(h) /\ t.upload = u
      <3>1. Busy(h) /\ t.op = "initiate"
        BY <1>1, <2>3, ByPlace DEF StoreSession, At, Busy
      <3>2. Fits(h, t, client[u])
        BY <1>1, <2>3, <3>1 DEF FitInv
      <3>. QED  BY <1>2, <3>1, <3>2 DEF Fits
    <2>4. CASE RecordChunk(h) /\ t.upload = u
      <3>1. Busy(h) /\ t.op = "chunk" /\ t.pc = "record"
        BY <1>1, <2>4, ByPlace DEF RecordChunk, At, Busy
      <3>2. client[u].waits = h
        BY <1>2, <2>4, <3>1 DEF PromptInv, Prompt
      <3>3. client'[u].waits = None
        BY <1>1, <2>4, <3>2, AnsweredFacts DEF RecordChunk, Reply, Leads, Codes
      <3>4. h # None
        BY Sizes
      <3>. QED  BY <1>2, <3>2, <3>3, <3>4
    <2>5. CASE DeleteSession(h) /\ t.upload = u
      BY <1>1, <2>5 DEF DeleteSession, StoreOk
    <2>6. StoreSession(h) \/ RecordChunk(h) \/ DeleteSession(h)
             => t.upload = u \/ session'[u] = session[u]
      BY <1>1 DEF StoreSession, RecordChunk, DeleteSession, StoreOk
    <2>. QED  BY <2>2, <2>3, <2>4, <2>5, <2>6, SessionSteps
  <1>3. ASSUME NEW code \in Codes, Replies(h, code),
               u = t.upload, client[u].waits = h,
               t.op = client[u].phase, t.op # "delete",
               Leads(u, client[u], client'[u], code)
        PROVE  0..(client'[u].next - 1) \subseteq session'[u]
    <2>1. ~client[u].late /\ Busy(h)
      BY <1>3 DEF Leads, Replies
    <2>2. CASE client[u].phase = "initiate"
      <3>1. client[u].next = 0 /\ client'[u].next = 0
        BY <1>1, <1>3, <2>2 DEF ClientOk, Leads
      <3>2. 0..(client'[u].next - 1) = {}
        BY <3>1
      <3>. QED  BY <3>2
    <2>3. CASE client[u].phase = "chunk" /\ code = "ok"
               /\ client'[u].next = client[u].next + 1
      <3>1. t.chunk = client[u].next /\ client[u].next \in Nat
        BY <1>1, <1>3, <2>1, <2>3, Sizes DEF PromptInv, Prompt, Client
      <3>2. 0..(client'[u].next - 1)
               = (0..(client[u].next - 1)) \union {t.chunk}
        BY <2>3, <3>1
      <3>3. CASE RecordChunk(h)
        <4>1. session'[u] = t.seen \union {t.chunk} /\ t.pc = "record"
          BY <1>1, <1>3, <3>3 DEF RecordChunk, StoreOk, At
        <4>2. 0..(client[u].next - 1) \subseteq t.seen
          BY <1>3, <2>1, <2>3, <4>1 DEF AckedInv, SnapshotAcked
        <4>. QED  BY <3>2, <4>1, <4>2
      <3>4. CASE ReadForChunk(h) /\ session[u] # None /\ t.chunk \in session[u]
        <4>1. session' = session
          BY <3>4 DEF ReadForChunk
        <4>2. 0..(client[u].next - 1) \subseteq session[u]
          BY <2>1, <2>3, <3>4 DEF AckedInv, AckedIsRecorded
        <4>. QED  BY <3>2, <3>4, <4>1, <4>2
      <3>5. \/ RecordChunk(h)
            \/ ReadForChunk(h) /\ session[u] # None /\ t.chunk \in session[u]
        <4>1. client'[u].next # client[u].next
          BY <2>3, <3>1
        <4>2. ASSUME NEW c \in Codes, Reply(h, c), c # "ok" PROVE FALSE
          <5>1. client'[u] = Answered(u, client[u], c)
            BY <1>1, <1>3, <4>2 DEF Reply
          <5>2. Leads(u, client[u], client'[u], c)
            BY <1>1, <5>1, AnsweredFacts
          <5>. QED  BY <4>1, <4>2, <5>2 DEF Leads
        <4>3. ReadForChunk(h) \/ OpenChunk(h) \/ WriteChunk(h) \/ RecordChunk(h)
          BY <1>1, <1>3, <2>3, ByPlace
          DEF Handle, Upload, Complete, Finish, SingleShot, Delete,
              StoreSession, MakeDirectory, ReadForComplete, CreateTarget,
              CopyChunk, VerifySize, Discard, PutObject, UpsertRow,
              CleanupTemp, DeleteSession, ReadForCancel, OverwriteLocal,
              FillLocal, PutBytes, ReadRow, DeleteFile, DeleteRow, At
        <4>4. ~WriteChunk(h)
          BY <4>1 DEF WriteChunk
        <4>5. ~Reply(h, "error") /\ ~Reply(h, "missing")
          BY <4>2 DEF Codes
        <4>6. ~OpenChunk(h)
          BY <4>1, <4>5 DEF OpenChunk
        <4>7. ASSUME ReadForChunk(h)
              PROVE  session[u] # None /\ t.chunk \in session[u]
          <5>1. ASSUME UNCHANGED client PROVE FALSE
            BY <4>1, <5>1
          <5>2. session[t.upload] # None /\ t.chunk \in session[t.upload]
            BY <4>5, <4>7, <5>1 DEF ReadForChunk
          <5>. QED  BY <1>3, <5>2
        <4>. QED  BY <4>3, <4>4, <4>6, <4>7
      <3>. QED  BY <3>3, <3>4, <3>5
    <2>4. CASE client[u].phase \in {"chunk", "complete"}
               /\ client'[u].next = client[u].next
      <3>1. session'[u] = session[u]
        <4>1. ~StoreSession(h)
          BY <1>1, <1>3, <2>4, ByPlace DEF StoreSession, At
        <4>2. ASSUME RecordChunk(h) PROVE FALSE
          <5>1. t.op = "chunk"
            BY <1>1, <4>2, ByPlace DEF RecordChunk, At
          <5>2. client'[u] = Answered(u, client[u], "ok") /\ "ok" \in Codes
            BY <1>1, <1>3, <4>2 DEF RecordChunk, Reply, Codes
          <5>3. Leads(u, client[u], client'[u], "ok")
            BY <1>1, <5>2, AnsweredFacts
          <5>4. client[u].next \in Nat
            BY <1>1, Sizes DEF Client
          <5>. QED  BY <1>3, <2>4, <5>1, <5>3, <5>4 DEF Leads
        <4>3. DeleteSession(h) => session'[u] = None
          BY <1>1, <1>3 DEF DeleteSession, StoreOk
        <4>. QED  BY <4>1, <4>2, <4>3, SessionSteps
      <3>. QED  BY <2>1, <2>4, <3>1 DEF AckedInv, AckedIsRecorded
    <2>. QED  BY <1>3, <2>2, <2>3, <2>4 DEF Leads
  <1>. QED  BY <1>1, <1>2, <1>3, RepliesFacts DEF Works, GoesOn

LEMMA AckedSeveral ==
    ASSUME Inv, PromptInv, AckedInv,
           \/ \E h \in Handlers : RequestDelete(h)
           \/ \E u \in Uploads, h \in Handlers : Send(u, h)
           \/ \E u \in Uploads : ClientMoves(u)
           \/ Restart
    PROVE  AckedInv'
  <1>1. /\ client \in [Uploads -> Client] /\ handler \in [Handlers -> Handler]
        /\ StoreOk /\ \A g \in Handlers : handler[g].upload \in Uploads
    BY InvParts DEF ControlOk, Handler
  <1>2. ASSUME NEW u \in Uploads, ~client'[u].late
        PROVE  /\ ~client[u].late /\ client'[u].next = client[u].next
               /\ client'[u].phase \in {"chunk", "complete"}
                     => client'[u].phase = client[u].phase
    <2>1. ASSUME NEW v \in Uploads, NEW h \in Handlers, Send(v, h)
          PROVE  /\ ~client[u].late /\ client'[u].next = client[u].next
                 /\ client'[u].phase = client[u].phase
      <3>1. Sent(v, h)
        BY <2>1, SendFacts
      <3>. QED  BY <1>1, <1>2, <3>1 DEF Sent
    <2>2. ASSUME NEW v \in Uploads, ClientMoves(v)
          PROVE  /\ ~client[u].late /\ client'[u].next = client[u].next
                 /\ client'[u].phase \in {"chunk", "complete"}
                       => client'[u].phase = client[u].phase
      <3>1. CASE Begin(v)
        BY <1>1, <1>2, <3>1, BeginFacts
      <3>2. CASE GivesUp(v)
        BY <1>1, <1>2, <3>2, GivesUpFacts
      <3>3. CASE Abort(v)
        BY <1>1, <1>2, <3>3, AbortFacts
      <3>4. CASE Expire(v)
        BY <1>1, <1>2, <3>4, ExpireFacts
      <3>5. CASE CleanupStale(v)
        BY <1>2, <3>5 DEF CleanupStale
      <3>. QED  BY <2>2, <3>1, <3>2, <3>3, <3>4, <3>5 DEF ClientMoves
    <2>3. CASE Restart
      BY <1>2, <2>3, RestartFacts
    <2>4. CASE client' = client
      BY <1>2, <2>4
    <2>. QED  BY <2>1, <2>2, <2>3, <2>4 DEF RequestDelete
  <1>3. ASSUME NEW g \in Handlers PROVE SnapshotAcked(g)'
    <2>1. CASE handler'[g].pc \notin {"open", "write", "record"}
      BY <2>1 DEF SnapshotAcked
    <2>2. CASE handler'[g].pc \in {"open", "write", "record"}
      <3>1. handler'[g] = handler[g]
        <4>1. ASSUME NEW h \in Handlers, RequestDelete(h)
              PROVE  handler'[g] = handler[g]
          <5>1. /\ handler'[h].pc = "read"
                /\ handler' = [handler EXCEPT ![h] = handler'[h]]
            BY <4>1, DeletionFacts
          <5>. QED  BY <1>1, <2>2, <5>1
        <4>2. ASSUME NEW v \in Uploads, NEW h \in Handlers, Send(v, h)
              PROVE  handler'[g] = handler[g]
          <5>1. Sent(v, h)
            BY <4>2, SendFacts
          <5>. QED  BY <1>1, <2>2, <5>1 DEF Sent, OthersUntouched
        <4>3. CASE Restart
          BY <2>2, <4>3, RestartFacts, IdleOk
        <4>. QED  BY <4>1, <4>2, <4>3 DEF ClientMoves, Begin, GivesUp, Abort,
                                          Expire, CleanupStale
      <3>. QED  BY <1>1, <1>2, <3>1 DEF AckedInv, SnapshotAcked
    <2>. QED  BY <2>1, <2>2
  <1>4. AckedIsRecorded'
    <2>. SUFFICES ASSUME NEW u \in Uploads,
                         client'[u].phase \in {"chunk", "complete"},
                         session'[u] # None, ~client'[u].late
                  PROVE  0..(client'[u].next - 1) \subseteq session'[u]
      BY DEF AckedIsRecorded
    <2>1. session'[u] = session[u]
      BY <1>1 DEF RequestDelete, Send, ClientMoves, Begin, GivesUp, Abort,
                  Expire, CleanupStale, Restart, StoreOk
    <2>. QED  BY <1>2, <2>1 DEF AckedInv, AckedIsRecorded
  <1>. QED  BY <1>3, <1>4 DEF AckedInv

(***************************************************************************)
(* A chunk a client was told is received is recorded while its session     *)
(* lives, for any number of uploads and requests, when no call of the      *)
(* backend fails: a client that never gave up has one request at a time,   *)
(* so no snapshot is stored over a later one.                              *)
(***************************************************************************)
THEOREM AckedStays ==
    ASSUME "io_error" \notin Faults
    PROVE  Spec => []AckedIsRecorded
  <1>1. Init => AckedInv
    BY IdleOk DEF Init, AckedInv, SnapshotAcked, AckedIsRecorded
  <1>2. Inv /\ PromptInv /\ AckedInv /\ [Next]_vars => AckedInv'
    <2>. SUFFICES ASSUME Inv, PromptInv, AckedInv, [Next]_vars PROVE AckedInv'
      OBVIOUS
    <2>1. ASSUME NEW h \in Handlers, Handle(h) \/ IoFails(h) PROVE AckedInv'
      <3>1. Handle(h)
        BY <2>1 DEF IoFails
      <3>. QED  BY <3>1, SnapshotAckedWorks, AckedWorks DEF AckedInv
    <2>2. CASE UNCHANGED vars
      BY <2>2 DEF vars, disk, AckedInv, SnapshotAcked, AckedIsRecorded
    <2>. QED  BY <2>1, <2>2, NextIs, AckedSeveral
  <1>3. AckedInv => AckedIsRecorded
    BY DEF AckedInv
  <1>. QED  BY <1>1, <1>2, <1>3, InvHolds, PromptHolds, PTL DEF Spec

-----------------------------------------------------------------------------
(* With one admin a request is alone                                       *)

(* Nobody gave up on a request. *)
OnTime == \A u \in Uploads : ~client[u].late

(* Without two admins one upload is under way, and no deletion beside it.  *)
SoleInv ==
    /\ \A u, v \in Uploads : u = v \/ Over(u) \/ Over(v)
    /\ \A h \in Handlers : Busy(h) /\ handler[h].op = "delete"
                              => \A u \in Uploads : Over(u)

(* A client that is told or waits is not over. *)
LEMMA WaitsIsUnder ==
    ASSUME Inv, NEW u \in Uploads, client[u].waits # None
    PROVE  ~Over(u)
  BY InvParts DEF ControlOk, FormInv, ClientOk, Over

(* What a step of a request leaves of the clients and of the others.       *)
LEMMA WorksLeaves ==
    ASSUME Inv, NEW h \in Handlers, Handle(h) \/ IoFails(h)
    PROVE  /\ Busy(h)
           /\ \A u \in Uploads :
                 /\ client[u].waits # h => client'[u] = client[u]
                 /\ client'[u].late = client[u].late
                 /\ client'[u].broken = client[u].broken
                 /\ Over(u) => client'[u] = client[u]
           /\ \A g \in Handlers \ {h} :
                 /\ handler'[g].pc = handler[g].pc
                 /\ handler'[g].code = handler[g].code
                 /\ SameRequest(handler[g], handler'[g])
           /\ \/ handler'[h] = Idle
              \/ SameRequest(handler[h], handler'[h]) /\ client' = client
  <1>1. /\ ControlOk /\ Works(h) /\ OthersStay(h) /\ Busy(h)
        /\ h # None
    BY InvParts, HandleSteps, Sizes DEF Inv, Works, GoesOn, Replies
  <1>2. \A g \in Handlers \ {h} :
           /\ handler'[g].pc = handler[g].pc
           /\ handler'[g].code = handler[g].code
           /\ SameRequest(handler[g], handler'[g])
    BY <1>1, OthersSame
  <1>3. \/ handler'[h] = Idle
        \/ SameRequest(handler[h], handler'[h]) /\ client' = client
    BY <1>1 DEF Works, GoesOn, Replies
  <1>4. ASSUME NEW u \in Uploads
        PROVE  /\ client[u].waits # h => client'[u] = client[u]
               /\ client'[u].late = client[u].late
               /\ client'[u].broken = client[u].broken
               /\ Over(u) => client'[u] = client[u]
    <2>1. CASE client' = client
      BY <2>1
    <2>2. ASSUME NEW code \in Codes, Replies(h, code)
          PROVE  /\ client[u].waits # h => client'[u] = client[u]
                 /\ client'[u].late = client[u].late
                 /\ client'[u].broken = client[u].broken
                 /\ Over(u) => client'[u] = client[u]
      <3>1. CASE client'[u] = client[u]
        BY <3>1
      <3>2. CASE client[u].waits = h /\ Leads(u, client[u], client'[u], code)
        BY <1>1, <3>2, WaitsIsUnder DEF Leads
      <3>. QED  BY <2>2, <3>1, <3>2, RepliesFacts
    <2>. QED  BY <1>1, <2>1, <2>2 DEF Works, GoesOn
  <1>. QED  BY <1>1, <1>2, <1>3, <1>4

(* What the other steps leave of a client: it is told of nothing.          *)
LEMMA SeveralLeaves ==
    ASSUME Inv,
           \/ \E h \in Handlers : RequestDelete(h)
           \/ \E u \in Uploads, h \in Handlers : Send(u, h)
           \/ \E u \in Uploads : ClientMoves(u)
           \/ Restart,
           NEW u \in Uploads
    PROVE  /\ client[u].late => client'[u].late
           /\ client[u].broken => client'[u].broken
           /\ client[u].phase # "done" => client'[u].phase # "done"
           /\ Over(u) => Over(u)' \/ Begin(u)
  <1>. DEFINE Left == /\ client[u].late => client'[u].late
                      /\ client[u].broken => client'[u].broken
                      /\ client[u].phase # "done" => client'[u].phase # "done"
                      /\ Over(u) => Over(u)' \/ Begin(u)
  <1>1. client \in [Uploads -> Client] /\ \A v \in Uploads : ClientOk(v, client[v])
    BY InvParts DEF ControlOk, FormInv
  <1>2. ASSUME NEW v \in Uploads, NEW h \in Handlers, Send(v, h) PROVE Left
    <2>1. Sent(v, h)
      BY <1>2, SendFacts
    <2>. QED  BY <1>1, <2>1 DEF Sent, Over
  <1>3. ASSUME NEW v \in Uploads, ClientMoves(v) PROVE Left
    <2>1. CASE Begin(v)
      BY <1>1, <2>1, BeginFacts DEF Over
    <2>2. CASE GivesUp(v)
      <3>1. ~Over(v)
        BY <2>2, GivesUpFacts, WaitsIsUnder
      <3>. QED  BY <1>1, <2>2, <3>1, GivesUpFacts DEF Over
    <2>3. CASE Abort(v)
      BY <1>1, <2>3, AbortFacts DEF Over
    <2>4. CASE Expire(v)
      BY <1>1, <2>4, ExpireFacts DEF Over
    <2>5. CASE CleanupStale(v)
      BY <2>5 DEF CleanupStale, Over
    <2>. QED  BY <1>3, <2>1, <2>2, <2>3, <2>4, <2>5 DEF ClientMoves
  <1>4. CASE Restart
    <2>1. client[u].waits # None => ~Over(u)
      BY WaitsIsUnder
    <2>. QED  BY <1>4, <2>1, RestartFacts DEF Over
  <1>5. CASE client' = client
    BY <1>5 DEF Over
  <1>. QED  BY <1>2, <1>3, <1>4, <1>5 DEF RequestDelete

LEMMA SoleWorks ==
    ASSUME Inv, SoleInv, NEW h \in Handlers, Handle(h) \/ IoFails(h)
    PROVE  SoleInv'
  <1>1. \A u \in Uploads : Over(u) => Over(u)'
    BY WorksLeaves DEF Over
  <1>2. \A g \in Handlers :
           Busy(g)' /\ handler'[g].op = "delete"
              => Busy(g) /\ handler[g].op = "delete"
    BY WorksLeaves, IdleOk DEF Busy, SameRequest
  <1>. QED  BY <1>1, <1>2 DEF SoleInv

LEMMA SoleSeveral ==
    ASSUME Inv, SoleInv, "two_admins" \notin Faults,
           \/ \E h \in Handlers : RequestDelete(h)
           \/ \E u \in Uploads, h \in Handlers : Send(u, h)
           \/ \E u \in Uploads : ClientMoves(u)
           \/ Restart
    PROVE  SoleInv'
  <1>1. handler \in [Handlers -> Handler]
    BY InvParts DEF ControlOk
  <1>2. \A u \in Uploads : Over(u) => Over(u)' \/ Begin(u)
    BY SeveralLeaves
  <1>3. ASSUME NEW u \in Uploads, Begin(u) PROVE SoleInv'
    <2>1. /\ \A v \in Uploads : Over(v)
          /\ \A h \in Handlers : ~(Busy(h) /\ handler[h].op = "delete")
          /\ handler' = handler
      BY <1>3 DEF Begin, At, Busy
    <2>2. \A v \in Uploads \ {u} : Over(v)'
      <3>1. client' = [client EXCEPT ![u] = client'[u]]
        BY <1>3, BeginFacts
      <3>. QED  BY <2>1, <3>1, InvParts DEF ControlOk, Over
    <2>. QED  BY <2>1, <2>2 DEF SoleInv, Busy
  <1>4. CASE \A u \in Uploads : ~Begin(u)
    <2>1. \A u \in Uploads : Over(u) => Over(u)'
      BY <1>2, <1>4
    <2>2. ASSUME NEW h \in Handlers, RequestDelete(h) PROVE SoleInv'
      <3>1. \A u \in Uploads : Over(u)
        BY <2>2 DEF RequestDelete
      <3>. QED  BY <2>1, <3>1 DEF SoleInv
    <2>3. ASSUME NEW u \in Uploads, NEW h \in Handlers, Send(u, h) PROVE SoleInv'
      <3>1. Sent(u, h)
        BY <2>3, SendFacts
      <3>2. \A g \in Handlers : Busy(g)' /\ handler'[g].op = "delete"
                                  => Busy(g) /\ handler[g].op = "delete"
        BY <3>1 DEF Sent, OthersUntouched, Busy
      <3>. QED  BY <2>1, <3>2 DEF SoleInv
    <2>4. ASSUME NEW u \in Uploads, ClientMoves(u) PROVE SoleInv'
      <3>1. handler' = handler
        BY <2>4 DEF ClientMoves, Begin, GivesUp, Abort, Expire, CleanupStale
      <3>. QED  BY <2>1, <3>1 DEF SoleInv, Busy
    <2>5. CASE Restart
      <3>1. \A g \in Handlers : ~Busy(g)'
        BY <2>5, RestartFacts, IdleOk DEF Busy
      <3>. QED  BY <2>1, <3>1 DEF SoleInv
    <2>. QED  BY <2>2, <2>3, <2>4, <2>5
  <1>. QED  BY <1>3, <1>4

LEMMA SoleHolds ==
    ASSUME "two_admins" \notin Faults
    PROVE  Spec => []SoleInv
  <1>1. Init => SoleInv
    BY IdleOk DEF Init, SoleInv, Over, Busy
  <1>2. Inv /\ SoleInv /\ [Next]_vars => SoleInv'
    <2>. SUFFICES ASSUME Inv, SoleInv, [Next]_vars PROVE SoleInv'
      OBVIOUS
    <2>1. CASE UNCHANGED vars
      BY <2>1 DEF vars, disk, SoleInv, Over, Busy
    <2>. QED  BY <2>1, NextIs, SoleWorks, SoleSeveral
  <1>. QED  BY <1>1, <1>2, InvHolds, PTL DEF Spec

(* While an upload's request runs and nobody gave up, no other runs.       *)
LEMMA Lone ==
    ASSUME Inv, PromptInv, SoleInv, OnTime,
           NEW h \in Handlers, Busy(h), handler[h].op # "delete"
    PROVE  /\ client[handler[h].upload].waits = h
           /\ client[handler[h].upload].phase = handler[h].op
           /\ \A g \in Handlers \ {h} : ~Busy(g)
           /\ \A v \in Uploads \ {handler[h].upload} : Over(v)
  <1>1. \A g \in Handlers : handler[g].upload \in Uploads
    BY InvParts DEF Handler
  <1>2. \A g \in Handlers : Busy(g) /\ handler[g].op # "delete"
           => /\ client[handler[g].upload].waits = g
              /\ client[handler[g].upload].phase = handler[g].op
    BY <1>1 DEF PromptInv, Prompt, OnTime
  <1>3. \A g \in Handlers : Busy(g) /\ handler[g].op # "delete"
           => ~Over(handler[g].upload)
    BY <1>1, <1>2, WaitsIsUnder, Sizes
  <1>4. \A v \in Uploads \ {handler[h].upload} : Over(v)
    BY <1>1, <1>3 DEF SoleInv
  <1>5. ASSUME NEW g \in Handlers \ {h}, Busy(g) PROVE FALSE
    <2>1. handler[g].op # "delete"
      BY <1>1, <1>3, <1>5 DEF SoleInv
    <2>2. handler[g].upload = handler[h].upload
      BY <1>1, <1>3, <1>4, <1>5, <2>1
    <2>. QED  BY <1>2, <1>5, <2>1, <2>2
  <1>. QED  BY <1>2, <1>4, <1>5

(* What has become of an upload by the place of the request that stores    *)
(* it, while no other request runs.                                        *)
Placed(h) ==
    LET t == handler[h] found == file[Target(t)] IN
    /\ t.pc = "copy" => t.linked
    /\ t.pc \in {"copy", "verify"} =>
          /\ found \in Content /\ Len(found) = t.at
          /\ t.at = t.pos => found = [k \in 1..t.pos |-> <<t.upload, k - 1>>]
    /\ t.pc = "store" => found = Whole(t.upload)
    /\ t.pc = "fill" => t.linked /\ found = <<>>
    /\ t.pc = "row" => file[Live] = Whole(t.upload)
    /\ t.pc \in {"clear", "forget"} /\ t.op = "complete" /\ t.code = "ok"
          => row = t.upload /\ file[Live] = Whole(t.upload)
    /\ t.pc = "abandon" /\ t.op = "complete" => t.code # "ok"

PlacedInv == OnTime => \A h \in Handlers : Placed(h)

(* Where a file is being stored. *)
Storing == {"copy", "verify", "store", "fill", "row", "clear", "forget",
            "abandon"}

LEMMA PlacedElsewhere ==
    ASSUME NEW h \in Handlers, handler[h].pc \notin Storing
    PROVE  Placed(h)
  BY DEF Placed, Storing

(* The steps that lead to a place where a file is being stored.            *)
LEMMA StoringSteps ==
    ASSUME Inv, NEW h \in Handlers, Handle(h) \/ IoFails(h),
           handler'[h].pc \in Storing
    PROVE  \/ CreateTarget(h) \/ CopyChunk(h) \/ VerifySize(h) \/ Discard(h)
           \/ PutObject(h) \/ OverwriteLocal(h) \/ FillLocal(h) \/ PutBytes(h)
           \/ UpsertRow(h) /\ Goto(h, "clear")
           \/ CleanupTemp(h) /\ handler[h].pc = "clear"
           \/ ReadForCancel(h)
           \/ IoFails(h)
  <1>. DEFINE t == handler[h]
              s == handler'[h]
  <1>1. /\ t \in Handler /\ HandlerOk(t)
        /\ handler \in [Handlers -> Handler]
    BY InvParts DEF ControlOk
  <1>2. (\E code : Reply(h, code)) => s.pc = "idle"
    BY <1>1, IdleOk DEF Reply, Become
  <1>3. \A p : Goto(h, p) => s.pc = p
    BY <1>1 DEF Goto, Become, Handler
  <1>4. CASE Upload(h)
    <2>1. Become(h, [t EXCEPT !.pc = "open", !.seen = session[t.upload]])
             => s.pc = "open"
      BY <1>1 DEF Become, Handler
    <2>. QED  BY <1>2, <1>3, <1>4, <2>1
              DEF Upload, StoreSession, MakeDirectory, ReadForChunk,
                  OpenChunk, WriteChunk, RecordChunk, Storing
  <1>5. CASE Complete(h)
    BY <1>2, <1>3, <1>5 DEF Complete, ReadForComplete, UpsertRow, Storing
  <1>6. CASE Finish(h)
    <2>1. CleanupTemp(h) /\ t.pc # "clear" => s.pc = "idle"
      BY <1>1, IdleOk DEF CleanupTemp, Unlinked
    <2>. QED  BY <1>2, <1>6, <2>1 DEF Finish, DeleteSession, Storing
  <1>7. CASE Delete(h)
    <2>1. DeleteFile(h) => s.pc = "unrow"
      BY <1>1 DEF DeleteFile, At, Handler, Unlinked
    <2>2. Become(h, Idle) => s.pc = "idle"
      BY <1>1, IdleOk DEF Become
    <2>. QED  BY <1>3, <1>7, <2>1, <2>2 DEF Delete, ReadRow, DeleteRow, Storing
  <1>. QED  BY <1>4, <1>5, <1>6, <1>7 DEF Handle, SingleShot

(* One more chunk is copied to the file where it is assembled. *)
LEMMA PlacedCopies ==
    ASSUME Inv, NEW h \in Handlers, Placed(h), CopyChunk(h)
    PROVE  Placed(h)'
  <1>. DEFINE t == handler[h]
              u == t.upload
              s == handler'[h]
              g == Target(t)
  <1>1. /\ t \in Handler /\ HandlerOk(t) /\ u \in Uploads /\ g \in Targets
        /\ handler \in [Handlers -> Handler]
        /\ file \in [Targets -> Content \union {None}]
    BY InvParts, TargetOf DEF StoreOk, ControlOk
  <1>2. CASE s = [t EXCEPT !.pc = "abandon", !.code = "error"]
    <2>1. s.pc = "abandon" /\ s.code = "error"
      BY <1>1, <1>2 DEF Handler
    <2>. QED  BY <2>1 DEF Placed
  <1>3. CASE s # [t EXCEPT !.pc = "abandon", !.code = "error"]
    <2>. DEFINE copied == IF tmp[u][t.pos] = "whole" THEN 1 ELSE 0
    <2>1. /\ t.pc = "copy" /\ t.linked
          /\ file[g] \in Content /\ Len(file[g]) = t.at
          /\ t.at = t.pos => file[g] = [k \in 1..t.pos |-> <<u, k - 1>>]
      BY DEF CopyChunk, At, Placed
    <2>2. /\ t.pos \in Nat /\ t.at \in Nat /\ t.at <= t.pos /\ t.pos < ChunksOf[u]
          /\ t.pos \in Chunk /\ t.at \in Chunk
      BY <1>1, <2>1, Sizes DEF HandlerOk, Handler, Chunk
    <2>3. tmp[u] # None /\ tmp[u][t.pos] # "absent"
      BY <1>1, <1>3 DEF CopyChunk, Become
    <2>4. /\ s.pos = t.pos + 1 /\ s.at = t.at + copied /\ s.linked = t.linked
          /\ s.upload = u /\ s.op = t.op /\ s.pc \in {"copy", "verify"}
      <3>. DEFINE r == [t EXCEPT !.pos = @ + 1, !.at = @ + copied,
                                 !.pc = IF t.pos + 1 = ChunksOf[u]
                                        THEN "verify" ELSE "copy"]
      <3>1. s = r
        BY <1>1, <2>3 DEF CopyChunk, Become
      <3>. QED  BY <1>1, <3>1 DEF Handler
    <2>5. Target(s) = g
      BY <2>4 DEF Target
    <2>6. CASE copied = 1
      <3>1. file'[g] = WriteAt(file[g], t.at, <<u, t.pos>>)
        BY <1>1, <2>1, <2>3, <2>6 DEF CopyChunk
      <3>2. <<u, t.pos>> \in Piece
        BY <1>1, <2>2 DEF Piece
      <3>3. file'[g] \in Content /\ Len(file'[g]) = t.at + 1
        BY <2>1, <2>2, <3>1, <3>2, Written
      <3>4. t.at = t.pos => file'[g] = [k \in 1..(t.pos + 1) |-> <<u, k - 1>>]
        <4>. SUFFICES ASSUME t.at = t.pos
                      PROVE  file'[g] = [k \in 1..(t.pos + 1) |-> <<u, k - 1>>]
          OBVIOUS
        <4>1. file'[g] = WriteAt(file[g], t.pos, <<u, t.pos>>)
          BY <3>1
        <4>2. file[g] = [k \in 1..t.pos |-> <<u, k - 1>>]
          BY <2>1
        <4>. QED  BY <1>1, <2>1, <2>2, <4>1, <4>2, Prefix
      <3>5. s.at = s.pos => file'[g] = [k \in 1..s.pos |-> <<s.upload, k - 1>>]
        BY <2>2, <2>4, <2>6, <3>4
      <3>6. file'[Target(s)] \in Content /\ Len(file'[Target(s)]) = s.at
        BY <2>4, <2>5, <2>6, <3>3
      <3>. QED  BY <2>1, <2>4, <2>5, <3>5, <3>6 DEF Placed
    <2>7. CASE copied = 0
      <3>1. file' = file
        BY <2>3, <2>7 DEF CopyChunk
      <3>2. s.at # s.pos /\ s.at = t.at
        BY <2>2, <2>4, <2>7
      <3>. QED  BY <2>1, <2>4, <2>5, <3>1, <3>2 DEF Placed
    <2>. QED  BY <2>6, <2>7
  <1>. QED  BY <1>2, <1>3

LEMMA PlacedComplete ==
    ASSUME Inv, NEW h \in Handlers, Placed(h),
           CreateTarget(h) \/ VerifySize(h) \/ Discard(h) \/ PutObject(h)
    PROVE  Placed(h)'
  <1>. DEFINE t == handler[h]
              u == t.upload
              s == handler'[h]
              g == Target(t)
  <1>1. /\ t \in Handler /\ HandlerOk(t) /\ u \in Uploads /\ g \in Targets
        /\ u \in Targets /\ Live \in Targets /\ u # Live
        /\ handler \in [Handlers -> Handler]
        /\ file \in [Targets -> Content \union {None}]
        /\ Local => g = Live
        /\ ~Local /\ t.op # "single" => g = u
    BY InvParts, TargetOf DEF StoreOk, ControlOk
  <1>2. ASSUME s = [t EXCEPT !.pc = "abandon", !.code = "error"]
        PROVE  Placed(h)'
    <2>1. s.pc = "abandon" /\ s.code = "error"
      BY <1>1, <1>2 DEF Handler
    <2>. QED  BY <2>1 DEF Placed
  <1>3. CASE CreateTarget(h)
    <2>1. /\ s.pc = "copy" /\ s.pos = 0 /\ s.at = 0 /\ s.linked = TRUE
          /\ s.upload = u /\ s.op = t.op
      BY <1>1, <1>3 DEF CreateTarget, Become, Handler
    <2>2. file'[g] = <<>> /\ Target(s) = g
      BY <1>1, <1>3, <2>1 DEF CreateTarget, Target
    <2>3. <<>> = [k \in 1..0 |-> <<u, k - 1>>]
      OBVIOUS
    <2>. QED  BY <2>1, <2>2, <2>3, EmptyContent DEF Placed
  <1>4. CASE VerifySize(h)
    <2>1. /\ t.pc = "verify" /\ t.op = "complete" /\ file' = file
          /\ t.pos = ChunksOf[u]
          /\ file[g] \in Content /\ Len(file[g]) = t.at
          /\ t.at = t.pos => file[g] = [k \in 1..t.pos |-> <<u, k - 1>>]
      BY <1>1, <1>4, ByPlace DEF VerifySize, At, Placed, disk, HandlerOk
    <2>2. CASE s = [t EXCEPT !.pc = "discard"]
      <3>1. s.pc = "discard"
        BY <1>1, <2>2 DEF Handler
      <3>. QED  BY <3>1 DEF Placed
    <2>3. CASE /\ Len(file[g]) = ChunksOf[u]
               /\ s = [t EXCEPT !.pc = IF Local THEN "row" ELSE "store"]
      <3>1. file[g] = Whole(u)
        BY <2>1, <2>3 DEF Whole
      <3>2. /\ s.upload = u /\ s.op = "complete"
            /\ s.pc = IF Local THEN "row" ELSE "store"
        BY <1>1, <2>1, <2>3 DEF Handler
      <3>3. Target(s) = g
        BY <2>1, <3>2 DEF Target
      <3>. QED  BY <1>1, <2>1, <3>1, <3>2, <3>3 DEF Placed, Whole
    <2>4. \/ s = [t EXCEPT !.pc = "abandon", !.code = "error"]
          \/ s = [t EXCEPT !.pc = "discard"]
          \/ /\ Len(file[g]) = ChunksOf[u]
             /\ s = [t EXCEPT !.pc = IF Local THEN "row" ELSE "store"]
      BY <1>1, <1>4 DEF VerifySize, Become
    <2>. QED  BY <1>2, <2>2, <2>3, <2>4
  <1>5. CASE Discard(h)
    BY <1>1, <1>2, <1>5 DEF Discard, Unlinked
  <1>6. CASE PutObject(h)
    <2>1. t.pc = "store" /\ t.op = "complete" /\ ~Local
      BY <1>1, <1>6, ByPlace DEF PutObject, At, HandlerOk
    <2>2. CASE file[u] = None
      BY <1>1, <1>2, <1>6, <2>2 DEF PutObject, Become
    <2>3. CASE file[u] # None
      <3>1. /\ file'[Live] = file[u] /\ s = [t EXCEPT !.pc = "row"]
        BY <1>1, <1>6, <2>3 DEF PutObject, Goto, Become
      <3>2. s.pc = "row" /\ s.upload = u
        BY <1>1, <3>1 DEF Handler
      <3>3. file'[Live] = Whole(u)
        BY <1>1, <2>1, <3>1 DEF Placed
      <3>. QED  BY <3>2, <3>3 DEF Placed, Whole
    <2>. QED  BY <2>2, <2>3
  <1>. QED  BY <1>3, <1>4, <1>5, <1>6

LEMMA PlacedSingle ==
    ASSUME Inv, NEW h \in Handlers, Placed(h),
           OverwriteLocal(h) \/ FillLocal(h) \/ PutBytes(h)
    PROVE  Placed(h)'
  <1>. DEFINE t == handler[h]
              u == t.upload
              s == handler'[h]
  <1>1. /\ t \in Handler /\ HandlerOk(t) /\ u \in Uploads
        /\ Live \in Targets /\ handler \in [Handlers -> Handler]
        /\ file \in [Targets -> Content \union {None}]
    BY InvParts, TargetOf DEF StoreOk, ControlOk
  <1>2. t.op = "single" /\ Target(t) = Live
    BY <1>1, ByPlace, TargetOf DEF OverwriteLocal, FillLocal, PutBytes, At
  <1>3. u \in Singles /\ ChunksOf[u] = 1 /\ 0 \in Chunk
    BY <1>1, <1>2, Sizes, ConstantsAssumption DEF HandlerOk
  <1>4. CASE OverwriteLocal(h)
    <2>1. /\ s.pc = "fill" /\ s.linked = TRUE /\ s.op = "single"
          /\ file'[Live] = <<>>
      BY <1>1, <1>2, <1>4 DEF OverwriteLocal, Become, Handler
    <2>2. Target(s) = Live
      BY <2>1 DEF Target
    <2>. QED  BY <2>1, <2>2 DEF Placed
  <1>5. ASSUME file'[Live] = Whole(u), Goto(h, "row") PROVE Placed(h)'
    <2>1. s.pc = "row" /\ s.upload = u
      BY <1>1, <1>5 DEF Goto, Become, Handler
    <2>. QED  BY <1>5, <2>1 DEF Placed, Whole
  <1>6. CASE FillLocal(h)
    <2>1. t.linked /\ file[Live] = <<>>
      BY <1>2, <1>6 DEF FillLocal, At, Placed
    <2>2. file'[Live] = WriteAt(<<>>, 0, <<u, 0>>)
      BY <1>1, <1>6, <2>1 DEF FillLocal
    <2>3. <<>> = [k \in 1..0 |-> <<u, k - 1>>]
      OBVIOUS
    <2>4. file'[Live] = [k \in 1..(0 + 1) |-> <<u, k - 1>>]
      <3>1. /\ <<>> \in Content
            /\ <<>> = [k \in 1..0 |-> <<u, k - 1>>]
        BY <2>3, EmptyContent
      <3>2. WriteAt(<<>>, 0, <<u, 0>>) = [k \in 1..(0 + 1) |-> <<u, k - 1>>]
        BY ONLY <1>1, <1>3, <3>1, Prefix
      <3>. QED  BY <2>2, <3>2
    <2>5. file'[Live] = Whole(u)
      BY <1>3, <2>4 DEF Whole
    <2>. QED  BY <1>5, <1>6, <2>5 DEF FillLocal
  <1>7. CASE PutBytes(h)
    BY <1>1, <1>5, <1>7 DEF PutBytes
  <1>. QED  BY <1>4, <1>6, <1>7

(* The row is written, the session is tidied up, or a call fails. *)
LEMMA PlacedEnds ==
    ASSUME Inv, NEW h \in Handlers, Placed(h), handler'[h].pc \in Storing,
           \/ UpsertRow(h) /\ Goto(h, "clear")
           \/ CleanupTemp(h) /\ handler[h].pc = "clear"
           \/ ReadForCancel(h)
           \/ IoFails(h)
    PROVE  Placed(h)'
  <1>. DEFINE t == handler[h]
              u == t.upload
              s == handler'[h]
  <1>1. /\ t \in Handler /\ HandlerOk(t) /\ u \in Uploads /\ u # Live
        /\ Live \in Targets /\ handler \in [Handlers -> Handler]
        /\ file \in [Targets -> Content \union {None}]
    BY InvParts, TargetOf DEF StoreOk, ControlOk
  <1>2. CASE UpsertRow(h) /\ Goto(h, "clear")
    <2>1. /\ s.pc = "clear" /\ s.upload = u /\ row' = u /\ file' = file
          /\ t.pc = "row"
      BY <1>1, <1>2 DEF UpsertRow, Goto, Become, Handler, disk, At
    <2>. QED  BY <2>1 DEF Placed, Whole
  <1>3. CASE CleanupTemp(h) /\ t.pc = "clear"
    <2>1. s = [t EXCEPT !.pc = "forget"]
      BY <1>1, <1>3 DEF CleanupTemp, Unlinked
    <2>2. /\ s.pc = "forget" /\ s.upload = u /\ s.op = t.op /\ s.code = t.code
      BY <1>1, <2>1 DEF Handler
    <2>3. row' = row /\ file'[Live] = file[Live]
      BY <1>1, <1>3 DEF CleanupTemp
    <2>. QED  BY <1>3, <2>2, <2>3 DEF Placed, Whole
  <1>4. CASE ReadForCancel(h)
    <2>1. s.pc \in {"abandon", "clear"} /\ s.op = "cancel"
      BY <1>1, <1>4 DEF ReadForCancel, Goto, Become, Handler
    <2>. QED  BY <2>1 DEF Placed
  <1>5. CASE IoFails(h)
    <2>1. row' = row /\ file' = file
      BY <1>5 DEF IoFails, disk
    <2>2. ASSUME NEW p, s = [t EXCEPT !.pc = p, !.code = "error"],
                 p \in {"abandon", "clear"}
          PROVE  Placed(h)'
      <3>1. s.pc = p /\ s.code = "error"
        BY <1>1, <2>2 DEF Handler
      <3>. QED  BY <2>2, <3>1 DEF Placed
    <2>3. CASE Goto(h, "forget") /\ t.pc = "clear"
      <3>1. /\ s.pc = "forget" /\ s.upload = u /\ s.op = t.op /\ s.code = t.code
        BY <1>1, <2>3 DEF Goto, Become, Handler
      <3>. QED  BY <2>1, <2>3, <3>1 DEF Placed, Whole
    <2>4. CASE Goto(h, "abandon") /\ t.op = "cancel"
      <3>1. s.pc = "abandon" /\ s.op = "cancel"
        BY <1>1, <2>4 DEF Goto, Become, Handler
      <3>. QED  BY <3>1 DEF Placed
    <2>5. \/ s = [t EXCEPT !.pc = "abandon", !.code = "error"]
          \/ s = [t EXCEPT !.pc = "clear", !.code = "error"]
          \/ Goto(h, "forget") /\ t.pc = "clear"
          \/ Goto(h, "abandon") /\ t.op = "cancel"
      <3>1. (\E code : Reply(h, code)) => s.pc = "idle"
        BY <1>1, IdleOk DEF Reply, Become
      <3>2. \A p : Goto(h, p) => s.pc = p
        BY <1>1 DEF Goto, Become, Handler
      <3>3. \A r : Become(h, r) => s = r
        BY <1>1 DEF Become
      <3>. QED  BY <1>5, <3>1, <3>2, <3>3 DEF IoFails, Storing
    <2>. QED  BY <2>2, <2>3, <2>4, <2>5
  <1>. QED  BY <1>2, <1>3, <1>4, <1>5

LEMMA PlacedHandles ==
    ASSUME Inv, PromptInv, SoleInv, PlacedInv,
           NEW h \in Handlers, Handle(h) \/ IoFails(h)
    PROVE  PlacedInv'
  <1>. SUFFICES ASSUME OnTime', NEW g \in Handlers PROVE Placed(g)'
    BY DEF PlacedInv
  <1>1. OnTime /\ Placed(h) /\ Busy(h)
    BY WorksLeaves DEF PlacedInv, OnTime
  <1>2. CASE g = h /\ handler'[h].pc \in Storing
    BY <1>1, <1>2, StoringSteps, PlacedCopies, PlacedComplete, PlacedSingle,
       PlacedEnds
  <1>3. CASE g # h
    <2>1. handler'[g].pc = handler[g].pc
      BY <1>3, WorksLeaves
    <2>2. ~Busy(g) \/ handler[g].op = "delete"
      BY <1>1, <1>3, Lone
    <2>3. handler[g].pc \notin Storing
      BY <2>2, InvParts, ByPlace DEF Busy, Storing
    <2>. QED  BY <2>1, <2>3 DEF Placed, Storing
  <1>4. CASE handler'[g].pc \notin Storing
    BY <1>4 DEF Placed, Storing
  <1>. QED  BY <1>2, <1>3, <1>4

LEMMA PlacedSeveral ==
    ASSUME Inv, PlacedInv,
           \/ \E h \in Handlers : RequestDelete(h)
           \/ \E u \in Uploads, h \in Handlers : Send(u, h)
           \/ \E u \in Uploads : ClientMoves(u)
           \/ Restart
    PROVE  PlacedInv'
  <1>. SUFFICES ASSUME OnTime', NEW g \in Handlers,
                       handler'[g].pc \in Storing
                PROVE  Placed(g)'
    BY DEF PlacedInv, Placed, Storing
  <1>1. Placed(g)
    BY SeveralLeaves DEF PlacedInv, OnTime
  <1>2. /\ handler \in [Handlers -> Handler] /\ handler[g] \in Handler
        /\ file \in [Targets -> Content \union {None}]
    BY InvParts DEF ControlOk, StoreOk
  <1>3. ASSUME handler'[g] = handler[g], row' = row,
               \A t \in {Live, Target(handler[g])} : file'[t] = file[t]
        PROVE  Placed(g)'
    BY <1>1, <1>3 DEF Placed, Whole
  <1>4. ASSUME NEW h \in Handlers, RequestDelete(h) PROVE Placed(g)'
    <2>1. /\ handler' = [handler EXCEPT ![h] = handler'[h]]
          /\ handler'[h].pc = "read" /\ file' = file /\ row' = row
      BY <1>4, DeletionFacts DEF disk
    <2>. QED  BY <1>2, <1>3, <2>1 DEF Storing
  <1>5. ASSUME NEW u \in Uploads, NEW h \in Handlers, Send(u, h)
        PROVE  Placed(g)'
    <2>1. Sent(u, h) /\ file' = file /\ row' = row
      BY <1>5, SendFacts DEF Send, disk
    <2>2. g # h
      BY <2>1 DEF Sent, Storing
    <2>. QED  BY <1>3, <2>1, <2>2 DEF Sent, OthersUntouched
  <1>6. ASSUME NEW u \in Uploads, ClientMoves(u) PROVE Placed(g)'
    <2>1. CASE file' = file /\ handler' = handler /\ row' = row
      BY <1>3, <2>1
    <2>2. CASE CleanupStale(u)
      <3>1. handler' = handler /\ row' = row /\ handler[g].upload # u
        BY <2>2 DEF CleanupStale, Working, Storing
      <3>2. \A t \in {Live, Target(handler[g])} : t # u /\ t \in Targets
        BY <1>2, <3>1, TargetOf, NothingAssumption DEF Target
      <3>3. \A t \in {Live, Target(handler[g])} : file'[t] = file[t]
        BY <1>2, <2>2, <3>2 DEF CleanupStale
      <3>. QED  BY <1>3, <3>1, <3>3
    <2>. QED  BY <1>6, <2>1, <2>2 DEF ClientMoves, Begin, GivesUp, Abort,
                                      Expire, disk
  <1>7. CASE Restart
    BY <1>7, RestartFacts, IdleOk DEF Storing
  <1>. QED  BY <1>4, <1>5, <1>6, <1>7

LEMMA PlacedHolds ==
    ASSUME "two_admins" \notin Faults
    PROVE  Spec => []PlacedInv
  <1>1. Init => PlacedInv
    BY IdleOk DEF Init, PlacedInv, Placed
  <1>2. Inv /\ PromptInv /\ SoleInv /\ PlacedInv /\ [Next]_vars => PlacedInv'
    <2>. SUFFICES ASSUME Inv, PromptInv, SoleInv, PlacedInv, [Next]_vars
                  PROVE  PlacedInv'
      OBVIOUS
    <2>1. CASE UNCHANGED vars
      BY <2>1 DEF vars, disk, PlacedInv, Placed, OnTime, Whole
    <2>. QED  BY <2>1, NextIs, PlacedHandles, PlacedSeveral
  <1>. QED  BY <1>1, <1>2, InvHolds, PromptHolds, SoleHolds, PTL DEF Spec

-----------------------------------------------------------------------------
(* What a client is told                                                   *)

(* An answer that is no success ends no upload with success. *)
LEMMA ToldOfFailure ==
    ASSUME Inv, NEW h \in Handlers, NEW code \in Codes, Reply(h, code),
           NEW u \in Uploads, Succeeds(u)
    PROVE  /\ u = handler[h].upload /\ client[u].waits = h /\ code = "ok"
           /\ handler[h].op \in {"complete", "single"}
           /\ handler[h].op = client[u].phase
  <1>. DEFINE v == handler[h].upload
  <1>1. /\ client \in [Uploads -> Client] /\ v \in Uploads /\ h # None
        /\ ClientOk(v, client[v])
    BY InvParts, Sizes DEF ControlOk, FormInv, Handler
  <1>2. u = v /\ client[u].waits = h /\ client'[u] = Answered(u, client[u], code)
    BY <1>1 DEF Reply, Succeeds
  <1>3. Leads(u, client[u], client'[u], code)
    BY <1>1, <1>2, AnsweredFacts
  <1>4. handler[h].op = client[u].phase
    BY <1>1, <1>2, InvParts DEF WaitInv
  <1>. QED  BY <1>2, <1>3, <1>4 DEF Leads, Succeeds

(* Who tells a client of success. *)
LEMMA Successes ==
    ASSUME Inv, NEW h \in Handlers, Handle(h) \/ IoFails(h),
           NEW u \in Uploads, Succeeds(u)
    PROVE  /\ u = handler[h].upload
           /\ \/ UpsertRow(h) /\ handler[h].op = "single"
              \/ /\ handler[h].pc \in {"forget", "abandon"}
                 /\ handler[h].op = "complete" /\ handler[h].code = "ok"
                 /\ row' = row
                 /\ handler[h].pc = "forget" => file' = file
  <1>. DEFINE t == handler[h]
  <1>1. /\ t \in Handler /\ HandlerOk(t) /\ t.code \in Codes
        /\ {"ok", "error", "missing"} \subseteq Codes
        /\ client' # client
    BY InvParts DEF Handler, Codes, Succeeds
  <1>2. ASSUME NEW code \in Codes, Reply(h, code)
        PROVE  /\ u = t.upload /\ code = "ok"
               /\ t.op \in {"complete", "single"}
    BY <1>2, ToldOfFailure
  <1>3. ~Reply(h, "error") /\ ~Reply(h, "missing")
    BY <1>1, <1>2
  <1>4. CASE Upload(h)
    <2>1. t.op \notin {"complete", "single"}
      BY <1>1, <1>4, ByPlace DEF Upload, StoreSession, MakeDirectory,
         ReadForChunk, OpenChunk, WriteChunk, RecordChunk, At
    <2>2. ~Reply(h, "ok")
      BY <1>1, <1>2, <2>1
    <2>. QED  BY <1>1, <1>3, <1>4, <2>2 DEF Upload, StoreSession, MakeDirectory,
              ReadForChunk, OpenChunk, WriteChunk, RecordChunk
  <1>5. CASE Complete(h)
    <2>1. UpsertRow(h) /\ t.op = "single" /\ Reply(h, "ok")
      BY <1>1, <1>3, <1>5 DEF Complete, ReadForComplete, CreateTarget,
         CopyChunk, VerifySize, Discard, PutObject, UpsertRow
    <2>. QED  BY <1>1, <1>2, <2>1
  <1>6. CASE Finish(h)
    <2>1. CASE CleanupTemp(h)
      <3>1. /\ t.pc = "abandon" /\ client[t.upload].waits = h
            /\ client' = [client EXCEPT ![t.upload] = Answered(t.upload, @, t.code)]
            /\ row' = row
        BY <1>1, <2>1 DEF CleanupTemp
      <3>2. /\ client \in [Uploads -> Client] /\ t.upload \in Uploads
            /\ ClientOk(t.upload, client[t.upload]) /\ h # None
            /\ t.op = client[t.upload].phase
        BY <3>1, InvParts, Sizes DEF ControlOk, FormInv, Handler, WaitInv
      <3>3. /\ u = t.upload
            /\ Leads(u, client[u], client'[u], t.code)
        BY <1>1, <3>1, <3>2, AnsweredFacts DEF Succeeds
      <3>4. t.op \in {"complete", "cancel"}
        BY <1>1, <3>1, ByPlace
      <3>. QED  BY <3>1, <3>2, <3>3, <3>4 DEF Leads, Succeeds
    <2>2. CASE DeleteSession(h)
      BY <1>1, <1>2, <2>2, ByPlace DEF DeleteSession, At, disk
    <2>. QED  BY <1>1, <1>6, <2>1, <2>2 DEF Finish, ReadForCancel
  <1>7. CASE SingleShot(h) \/ Delete(h)
    BY <1>1, <1>7 DEF SingleShot, Delete, OverwriteLocal, FillLocal, PutBytes,
       ReadRow, DeleteFile, DeleteRow
  <1>8. CASE IoFails(h)
    <2>1. row' = row /\ file' = file
      BY <1>8 DEF IoFails, disk
    <2>2. \/ t.pc = "record" /\ Reply(h, "ok")
          \/ t.pc \in {"forget", "abandon"} /\ Reply(h, t.code)
      BY <1>1, <1>3, <1>8 DEF IoFails
    <2>3. ~(t.pc = "record" /\ Reply(h, "ok"))
      BY <1>1, <1>2, ByPlace
    <2>4. t.pc \in {"forget", "abandon"} => t.op \in {"complete", "cancel"}
      BY <1>1, ByPlace
    <2>5. Reply(h, t.code) => /\ u = t.upload /\ t.code = "ok"
                              /\ t.op \in {"complete", "single"}
      BY <1>1, <1>2
    <2>. QED  BY <2>1, <2>2, <2>3, <2>4, <2>5
  <1>. QED  BY <1>4, <1>5, <1>6, <1>7, <1>8 DEF Handle

(***************************************************************************)
(* With one admin at work, a client hears of success only when the row and *)
(* the stored object are its upload's, for any number of uploads, chunks   *)
(* and requests, over both backends and whatever calls fail: from the copy *)
(* of the first chunk to the answer no other request is at the file.       *)
(***************************************************************************)
THEOREM AcknowledgedIsStored ==
    ASSUME "two_admins" \notin Faults
    PROVE  Spec => Acknowledged
  <1>. DEFINE Told == \A u \in Uploads :
                         Succeeds(u) /\ (\A v \in Uploads : ~client[v].late)
                            => row' = u /\ file'[Live] = Whole(u)
  <1>1. Inv /\ PlacedInv /\ [Next]_vars => [Told]_vars
    <2>. SUFFICES ASSUME Inv, PlacedInv, Next, NEW u \in Uploads, Succeeds(u),
                         OnTime
                  PROVE  row' = u /\ file'[Live] = Whole(u)
      BY DEF OnTime
    <2>1. ASSUME NEW h \in Handlers, Handle(h) \/ IoFails(h)
          PROVE  row' = u /\ file'[Live] = Whole(u)
      <3>1. Placed(h)
        BY DEF PlacedInv
      <3>2. CASE UpsertRow(h)
        BY <2>1, <3>1, <3>2, Successes DEF UpsertRow, Placed, At, disk
      <3>3. CASE /\ handler[h].pc \in {"forget", "abandon"}
                 /\ handler[h].op = "complete" /\ handler[h].code = "ok"
                 /\ row' = row
                 /\ handler[h].pc = "forget" => file' = file
        BY <2>1, <3>1, <3>3, Successes DEF Placed
      <3>. QED  BY <2>1, <3>2, <3>3, Successes
    <2>2. CASE \/ \E h \in Handlers : RequestDelete(h)
               \/ \E v \in Uploads, h \in Handlers : Send(v, h)
               \/ \E v \in Uploads : ClientMoves(v)
               \/ Restart
      BY <2>2, SeveralLeaves DEF Succeeds
    <2>. QED  BY <2>1, <2>2, NextIs
  <1>. QED  BY <1>1, InvHolds, PlacedHolds, PTL DEF Spec, Acknowledged

-----------------------------------------------------------------------------
(* The row describes the stored file                                       *)

(* Of an upload that nothing has disturbed every chunk that was            *)
(* acknowledged is recorded and whole, until its complete clears them.     *)
Received(u) ==
    LET c == client[u]
        n == IF c.phase = "chunk" THEN c.next ELSE ChunksOf[u]
    IN
    /\ c.phase \notin {"cancel", "failed"}
    /\ \/ c.phase = "chunk"
       \/ /\ c.phase = "complete"
          /\ c.waits # None => handler[c.waits].pc \notin {"clear", "forget"}
       => /\ session[u] = 0..(n - 1)
          /\ tmp[u] # None /\ \A i \in 0..(n - 1) : tmp[u][i] = "whole"

(* Its requests go well. *)
Serves(h) ==
    LET t == handler[h] u == t.upload IN
    /\ t.code = "ok" /\ t.pc \notin {"discard", "abandon"}
    /\ t.pc = "mkdir" => session[u] = {}
    /\ t.pc \in {"open", "write", "record"} => t.seen = session[u]
    /\ t.pc = "write" => tmp[u][t.chunk] # "absent"
    /\ t.pc = "record" => tmp[u][t.chunk] = "whole"
    /\ t.pc \in {"copy", "verify"} => t.at = t.pos

(* Who is between the stored file and its row. *)
Between(t) ==
    t.pc \in {"fill", "row", "unrow"} \/ (Local /\ t.pc \in {"copy", "verify"})

RowInv == row # None => \/ file[Live] = Whole(row)
                        \/ \E h \in Handlers : Between(handler[h])

UndisturbedInv ==
    Undisturbed => /\ \A u \in Uploads : Received(u)
                   /\ \A h \in Handlers : Serves(h)
                   /\ RowInv

(* The request h runs alone on an upload that nothing has disturbed, and   *)
(* what it leaves of the rest.                                             *)
Alone(h) ==
    /\ Busy(h) /\ handler[h].op # "delete"
    /\ client[handler[h].upload].waits = h
    /\ client[handler[h].upload].phase = handler[h].op
    /\ handler[h].op = "chunk"
          => handler[h].chunk = client[handler[h].upload].next
    /\ \A g \in Handlers \ {h} : ~Busy(g)
    /\ Placed(h) /\ Serves(h) /\ Received(handler[h].upload) /\ RowInv

(* The row and the file of the model stay, or h is between them, or has    *)
(* brought them together.                                                  *)
RowStays(h) == \/ Between(handler'[h])
               \/ /\ ~Between(handler[h])
                  /\ row' = row /\ file'[Live] = file[Live]
               \/ row' # None /\ file'[Live] = Whole(row')

Goal(h, u) == Received(u)' /\ Serves(h)' /\ RowStays(h)

LEMMA IdleServes ==
    ASSUME NEW h \in Handlers, handler'[h] = Idle
    PROVE  Serves(h)'
  <1>1. Idle.pc = "idle" /\ Idle.code = "ok"
    BY DEF Idle, Request
  <1>. QED  BY <1>1 DEF Serves

LEMMA UndisturbedUpload ==
    ASSUME Inv, NEW h \in Handlers, Alone(h),
           NEW u \in Uploads, u = handler[h].upload,
           Upload(h)
    PROVE  Goal(h, u)
  <1>. DEFINE t == handler[h]
              c == client[u]
              s == handler'[h]
              d == client'[u]
  <1>1. /\ t \in Handler /\ HandlerOk(t) /\ u = t.upload
        /\ handler \in [Handlers -> Handler] /\ client \in [Uploads -> Client]
        /\ c \in Client /\ ClientOk(u, c) /\ t.chunk \in Chunk
        /\ StoreOk
        /\ session[u] \in (SUBSET Chunk) \union {None}
        /\ tmp[u] \in [Chunk -> FileState] \union {None}
        /\ ChunksOf[u] \in Nat \ {0} /\ ChunksOf[u] <= NumChunks /\ NumChunks \in Nat
        /\ c.next \in Nat /\ h # None
    BY InvParts, Sizes DEF ControlOk, FormInv, Handler, StoreOk, Client
  <1>2. /\ c.waits = h /\ c.phase = t.op /\ t.code = "ok"
        /\ t.op = "chunk" => t.chunk = c.next /\ c.next < ChunksOf[u]
        /\ Serves(h) /\ Received(u)
    BY <1>1 DEF Alone, Serves, ClientOk
  <1>3. row' = row /\ file' = file
    BY DEF Upload, StoreSession, MakeDirectory, ReadForChunk, OpenChunk,
           WriteChunk, RecordChunk, disk
  <1>. SUFFICES Received(u)' /\ Serves(h)'
    <2>1. t.op \in {"initiate", "chunk"}
      BY <1>1, ByPlace
      DEF Upload, StoreSession, MakeDirectory, ReadForChunk, OpenChunk,
          WriteChunk, RecordChunk, At
    <2>2. ~Between(t)
      BY <1>1, <2>1, ByPlace DEF Between
    <2>. QED  BY <1>3, <2>2 DEF Goal, RowStays
  <1>4. ASSUME NEW code \in Codes, Reply(h, code)
        PROVE  s = Idle /\ Leads(u, c, d, code)
    BY <1>1, <1>2, <1>4, AnsweredFacts DEF Reply, Become
  <1>5. ASSUME NEW p, Goto(h, p)
        PROVE  /\ s.pc = p /\ s.upload = u /\ s.code = "ok" /\ s.op = t.op
               /\ s.chunk = t.chunk /\ s.seen = t.seen
    BY <1>1, <1>2, <1>5 DEF Goto, Become, Handler
  <1>6. CASE StoreSession(h)
    <2>1. t.op = "initiate" /\ client' = client /\ session'[u] = {}
      BY <1>1, <1>6, ByPlace DEF StoreSession, At, StoreOk
    <2>2. s.pc = "mkdir" /\ s.upload = u /\ s.code = "ok"
      BY <1>5, <1>6 DEF StoreSession
    <2>3. Serves(h)'
      BY <2>1, <2>2 DEF Serves
    <2>4. Received(u)'
      BY <1>2, <2>1 DEF Received
    <2>. QED  BY <2>3, <2>4
  <1>7. CASE MakeDirectory(h)
    <2>1. /\ t.op = "initiate" /\ session'[u] = {} /\ tmp'[u] # None
      BY <1>1, <1>2, <1>7, ByPlace, NothingAssumption
      DEF MakeDirectory, At, StoreOk, Serves, NoChunks, FileState
    <2>2. s = Idle /\ Leads(u, c, d, "ok")
      BY <1>4, <1>7 DEF MakeDirectory, Codes
    <2>3. d.phase = "chunk" /\ d.next = 0
      BY <1>1, <1>2, <2>1, <2>2 DEF Leads, ClientOk
    <2>4. 0..(0 - 1) = {}
      OBVIOUS
    <2>5. Received(u)'
      BY <2>1, <2>3, <2>4 DEF Received
    <2>. QED  BY <2>2, <2>5, IdleServes
  <1>8. ASSUME t.op = "chunk"
        PROVE  /\ session[u] = 0..(c.next - 1) /\ session[u] # None
               /\ c.next \notin session[u]
               /\ tmp[u] # None /\ \A i \in 0..(c.next - 1) : tmp[u][i] = "whole"
               /\ c.next \in Chunk /\ tmp[u] \in [Chunk -> FileState]
    <2>1. /\ session[u] = 0..(c.next - 1)
          /\ tmp[u] # None /\ \A i \in 0..(c.next - 1) : tmp[u][i] = "whole"
      BY <1>2, <1>8 DEF Received
    <2>2. c.next \notin 0..(c.next - 1) /\ c.next \in Chunk
          /\ 0..(c.next - 1) \in SUBSET Chunk
      BY <1>1, <1>2, <1>8 DEF Chunk
    <2>3. session[u] # None
      BY <2>1, <2>2, NothingAssumption
    <2>. QED  BY <1>1, <2>1, <2>2, <2>3
  <1>9. CASE ReadForChunk(h)
    <2>1. t.op = "chunk"
      BY <1>9 DEF ReadForChunk
    <2>2. /\ Become(h, [t EXCEPT !.pc = "open", !.seen = session[u]])
          /\ client' = client /\ session' = session /\ tmp' = tmp
      BY <1>2, <1>8, <1>9, <2>1 DEF ReadForChunk, disk
    <2>3. s = [t EXCEPT !.pc = "open", !.seen = session[u]]
      BY <1>1, <2>2 DEF Become
    <2>4. s.pc = "open" /\ s.seen = session[u] /\ s.upload = u /\ s.code = "ok"
      BY <1>1, <1>2, <2>3 DEF Handler
    <2>5. Serves(h)'
      BY <2>2, <2>4 DEF Serves
    <2>6. Received(u)'
      BY <1>2, <1>8, <2>1, <2>2 DEF Received
    <2>. QED  BY <2>5, <2>6
  <1>10. CASE OpenChunk(h)
    <2>1. t.op = "chunk" /\ t.pc = "open"
      BY <1>1, <1>10, ByPlace DEF OpenChunk, At
    <2>2. /\ tmp' = [tmp EXCEPT ![u][t.chunk] = "empty"] /\ Goto(h, "write")
          /\ client' = client /\ session' = session
      BY <1>8, <1>10, <2>1 DEF OpenChunk
    <2>3. tmp'[u] = [tmp[u] EXCEPT ![c.next] = "empty"]
      BY <1>1, <1>2, <2>1, <2>2 DEF StoreOk
    <2>4. tmp'[u] \in [Chunk -> FileState]
      BY <1>8, <2>1, <2>3 DEF FileState
    <2>5. /\ tmp'[u] # None /\ tmp'[u][c.next] = "empty"
          /\ \A i \in 0..(c.next - 1) : tmp'[u][i] = "whole"
      <3>1. \A i \in 0..(c.next - 1) : i \in Chunk /\ i # c.next
        BY <1>1, <1>2, <2>1 DEF Chunk
      <3>. QED  BY <1>8, <2>1, <2>3, <2>4, <3>1, NothingAssumption
    <2>6. /\ s.pc = "write" /\ s.upload = u /\ s.code = "ok"
          /\ s.chunk = c.next /\ s.seen = t.seen
      BY <1>2, <1>5, <2>1, <2>2
    <2>7. Serves(h)'
      BY <1>2, <2>1, <2>2, <2>5, <2>6 DEF Serves
    <2>8. Received(u)'
      BY <1>2, <1>8, <2>1, <2>2, <2>5 DEF Received
    <2>. QED  BY <2>7, <2>8
  <1>11. CASE WriteChunk(h)
    <2>1. t.op = "chunk" /\ t.pc = "write"
      BY <1>1, <1>11, ByPlace DEF WriteChunk, At
    <2>2. /\ tmp' = [tmp EXCEPT ![u][t.chunk] = "whole"] /\ Goto(h, "record")
          /\ client' = client /\ session' = session
      BY <1>2, <1>8, <1>11, <2>1 DEF WriteChunk, Serves
    <2>3. tmp'[u] = [tmp[u] EXCEPT ![c.next] = "whole"]
      BY <1>1, <1>2, <2>1, <2>2 DEF StoreOk
    <2>4. tmp'[u] \in [Chunk -> FileState]
      BY <1>8, <2>1, <2>3 DEF FileState
    <2>5. /\ tmp'[u] # None /\ tmp'[u][c.next] = "whole"
          /\ \A i \in 0..(c.next - 1) : tmp'[u][i] = "whole"
      <3>1. \A i \in 0..(c.next - 1) : i \in Chunk
        BY <1>1, <1>2, <2>1 DEF Chunk
      <3>. QED  BY <1>8, <2>1, <2>3, <2>4, <3>1, NothingAssumption
    <2>6. /\ s.pc = "record" /\ s.upload = u /\ s.code = "ok"
          /\ s.chunk = c.next /\ s.seen = t.seen
      BY <1>2, <1>5, <2>1, <2>2
    <2>7. Serves(h)'
      BY <1>2, <2>1, <2>2, <2>5, <2>6 DEF Serves
    <2>8. Received(u)'
      BY <1>2, <1>8, <2>1, <2>2, <2>5 DEF Received
    <2>. QED  BY <2>7, <2>8
  <1>12. CASE RecordChunk(h)
    <2>1. t.op = "chunk" /\ t.pc = "record"
      BY <1>1, <1>12, ByPlace DEF RecordChunk, At
    <2>2. /\ session'[u] = session[u] \union {c.next} /\ tmp' = tmp
          /\ tmp[u][c.next] = "whole"
      BY <1>1, <1>2, <1>12, <2>1 DEF RecordChunk, StoreOk, Serves, disk
    <2>3. s = Idle /\ Leads(u, c, d, "ok")
      BY <1>4, <1>12 DEF RecordChunk, Codes
    <2>4. /\ d.next = c.next + 1 /\ d.waits = None
          /\ d.phase = IF d.next = ChunksOf[u] THEN "complete" ELSE "chunk"
      BY <1>2, <2>1, <2>3 DEF Leads
    <2>5. 0..(d.next - 1) = 0..(c.next - 1) \union {c.next}
      BY <1>1, <2>4
    <2>6. /\ session'[u] = 0..(d.next - 1)
          /\ tmp'[u] # None /\ \A i \in 0..(d.next - 1) : tmp'[u][i] = "whole"
      BY <1>8, <2>1, <2>2, <2>5
    <2>7. Received(u)'
      BY <2>4, <2>6 DEF Received
    <2>. QED  BY <2>3, <2>7, IdleServes
  <1>. QED  BY <1>6, <1>7, <1>9, <1>10, <1>11, <1>12 DEF Upload

LEMMA UndisturbedComplete ==
    ASSUME Inv, NEW h \in Handlers, Alone(h),
           NEW u \in Uploads, u = handler[h].upload,
           Complete(h)
    PROVE  Goal(h, u)
  <1>. DEFINE t == handler[h]
              c == client[u]
              s == handler'[h]
              d == client'[u]
  <1>1. /\ t \in Handler /\ HandlerOk(t) /\ u = t.upload /\ u \in Targets
        /\ Live \in Targets /\ u # Live
        /\ handler \in [Handlers -> Handler] /\ client \in [Uploads -> Client]
        /\ c \in Client /\ ClientOk(u, c)
        /\ file \in [Targets -> Content \union {None}]
        /\ ChunksOf[u] \in Nat \ {0} /\ h # None
        /\ t.pos \in Nat /\ t.at \in Nat
        /\ ~Local /\ t.op # "single" => Target(t) = u
        /\ Target(t) \in Targets
    BY InvParts, Sizes, TargetOf
    DEF ControlOk, FormInv, Handler, StoreOk, Client
  <1>2. /\ c.waits = h /\ c.phase = t.op /\ t.code = "ok" /\ t.pc # "discard"
        /\ Serves(h) /\ Received(u) /\ Placed(h)
    BY DEF Alone, Serves
  <1>3. ASSUME NEW p, Goto(h, p)
        PROVE  s.pc = p /\ s.upload = u /\ s.code = "ok" /\ s.op = t.op
               /\ s.pos = t.pos /\ s.at = t.at
    BY <1>1, <1>2, <1>3 DEF Goto, Become, Handler
  <1>4. ASSUME t.op = "complete", t.pc \notin {"clear", "forget"}
        PROVE  /\ session[u] = AllChunks(u) /\ session[u] # None
               /\ tmp[u] # None
               /\ \A i \in AllChunks(u) : tmp[u][i] = "whole"
    <2>1. /\ session[u] = AllChunks(u) /\ tmp[u] # None
          /\ \A i \in AllChunks(u) : tmp[u][i] = "whole"
      BY <1>2, <1>4 DEF Received, AllChunks
    <2>2. AllChunks(u) \in SUBSET Chunk
      BY <1>1, Sizes DEF AllChunks, Chunk
    <2>. QED  BY <2>1, <2>2, NothingAssumption
  <1>5. ASSUME t.op = "complete", t.pc \notin {"clear", "forget"},
               session' = session, tmp' = tmp, client' = client
        PROVE  Received(u)'
    BY <1>2, <1>4, <1>5 DEF Received, AllChunks
  <1>6. CASE ReadForComplete(h)
    <2>1. t.op = "complete" /\ t.pc = "read"
      BY <1>6 DEF ReadForComplete, At
    <2>2. /\ Goto(h, "create") /\ client' = client
          /\ session' = session /\ tmp' = tmp /\ file' = file /\ row' = row
      BY <1>4, <1>6, <2>1 DEF ReadForComplete, disk
    <2>3. s.pc = "create" /\ s.code = "ok"
      BY <1>3, <2>2
    <2>4. Serves(h)'
      BY <2>3 DEF Serves
    <2>. QED  BY <1>5, <2>1, <2>2, <2>4 DEF Goal, RowStays, Between
  <1>7. CASE CreateTarget(h)
    <2>1. t.op = "complete" /\ t.pc = "create"
      BY <1>1, <1>7, ByPlace DEF CreateTarget, At
    <2>2. /\ client' = client /\ session' = session /\ tmp' = tmp /\ row' = row
          /\ file' = [file EXCEPT ![Target(t)] = <<>>]
          /\ s = [t EXCEPT !.pc = "copy", !.pos = 0, !.at = 0, !.linked = TRUE]
      BY <1>1, <1>4, <1>7, <2>1 DEF CreateTarget, Become
    <2>3. s.pc = "copy" /\ s.code = "ok" /\ s.at = 0 /\ s.pos = 0
      BY <1>1, <1>2, <2>2 DEF Handler
    <2>4. Serves(h)'
      BY <2>3 DEF Serves
    <2>5. RowStays(h)
      BY <1>1, <2>1, <2>2, <2>3 DEF RowStays, Between
    <2>. QED  BY <1>5, <2>1, <2>2, <2>4, <2>5 DEF Goal
  <1>8. CASE CopyChunk(h)
    <2>1. t.op = "complete" /\ t.pc = "copy" /\ t.pos < ChunksOf[u]
          /\ t.at = t.pos
      BY <1>1, <1>2, <1>8, ByPlace DEF CopyChunk, At, HandlerOk, Serves
    <2>2. tmp[u] # None /\ tmp[u][t.pos] = "whole"
      BY <1>1, <1>4, <2>1 DEF AllChunks
    <2>3. /\ client' = client /\ session' = session /\ tmp' = tmp /\ row' = row
          /\ file' = IF t.linked
                     THEN [file EXCEPT ![Target(t)] =
                              WriteAt(@, t.at, <<u, t.pos>>)]
                     ELSE file
          /\ s = [t EXCEPT !.pos = @ + 1, !.at = @ + 1,
                           !.pc = IF t.pos + 1 = ChunksOf[u]
                                  THEN "verify" ELSE "copy"]
      BY <1>1, <1>8, <2>2 DEF CopyChunk, Become
    <2>4. s.pc \in {"copy", "verify"} /\ s.code = "ok" /\ s.at = s.pos
      BY <1>1, <1>2, <2>1, <2>3 DEF Handler
    <2>5. Serves(h)'
      BY <2>4 DEF Serves
    <2>6. RowStays(h)
      BY <1>1, <2>1, <2>3, <2>4 DEF RowStays, Between
    <2>. QED  BY <1>5, <2>1, <2>3, <2>5, <2>6 DEF Goal
  <1>9. CASE VerifySize(h)
    <2>1. /\ t.op = "complete" /\ t.pc = "verify" /\ t.pos = ChunksOf[u]
          /\ t.at = t.pos
      BY <1>1, <1>2, <1>9, ByPlace DEF VerifySize, At, HandlerOk, Serves
    <2>2. file[Target(t)] \in Content /\ Len(file[Target(t)]) = ChunksOf[u]
      BY <1>2, <2>1 DEF Placed
    <2>3. file[Target(t)] # None
      BY <2>2, ContentFacts
    <2>4. /\ client' = client /\ session' = session /\ tmp' = tmp /\ row' = row
          /\ file' = file
          /\ s = [t EXCEPT !.pc = IF Local THEN "row" ELSE "store"]
      BY <1>1, <1>9, <2>2, <2>3 DEF VerifySize, Become, disk
    <2>5. s.pc = (IF Local THEN "row" ELSE "store") /\ s.code = "ok"
      BY <1>1, <1>2, <2>4 DEF Handler
    <2>6. Serves(h)'
      BY <2>5 DEF Serves
    <2>7. RowStays(h)
      BY <2>1, <2>4, <2>5 DEF RowStays, Between
    <2>. QED  BY <1>5, <2>1, <2>4, <2>6, <2>7 DEF Goal
  <1>10. CASE PutObject(h)
    <2>1. t.op = "complete" /\ t.pc = "store" /\ ~Local /\ Target(t) = u
      BY <1>1, <1>10, ByPlace DEF PutObject, At, HandlerOk
    <2>2. file[u] # None
      <3>1. file[u] = Whole(u)
        BY <1>2, <2>1 DEF Placed
      <3>. QED  BY <1>1, <3>1, WholeContent, ContentFacts
    <2>3. /\ client' = client /\ session' = session /\ tmp' = tmp
          /\ Goto(h, "row")
      BY <1>10, <2>2 DEF PutObject
    <2>4. s.pc = "row" /\ s.code = "ok"
      BY <1>3, <2>3
    <2>5. Serves(h)' /\ RowStays(h)
      BY <2>4 DEF Serves, RowStays, Between
    <2>. QED  BY <1>5, <2>1, <2>3, <2>5 DEF Goal
  <1>11. CASE UpsertRow(h)
    <2>1. /\ t.pc = "row" /\ t.op \in {"complete", "single"}
          /\ file[Live] = Whole(u) /\ row' = u /\ file' = file
          /\ session' = session /\ tmp' = tmp
      BY <1>1, <1>2, <1>11, ByPlace DEF UpsertRow, At, Placed, disk
    <2>2. RowStays(h)
      BY <1>1, <2>1, Sizes DEF RowStays
    <2>3. CASE t.op = "single"
      <3>1. /\ s = Idle
            /\ d = Answered(u, c, "ok") /\ "ok" \in Codes
        BY <1>1, <1>2, <1>11, <2>3 DEF UpsertRow, Reply, Become, Codes
      <3>2. d.phase = "done"
        BY <1>1, <1>2, <2>3, <3>1, AnsweredFacts DEF Leads
      <3>3. Received(u)'
        BY <3>2 DEF Received
      <3>. QED  BY <2>2, <3>1, <3>3, IdleServes DEF Goal
    <2>4. CASE t.op # "single"
      <3>1. Goto(h, "clear") /\ client' = client
        BY <1>11, <2>4 DEF UpsertRow
      <3>2. s.pc = "clear" /\ s.code = "ok"
        BY <1>3, <3>1
      <3>3. Received(u)'
        BY <1>1, <1>2, <2>1, <2>4, <3>1, <3>2 DEF Received
      <3>4. Serves(h)'
        BY <3>2 DEF Serves
      <3>. QED  BY <2>2, <3>3, <3>4 DEF Goal
    <2>. QED  BY <2>3, <2>4
  <1>12. ~Discard(h)
    BY <1>2 DEF Discard, At
  <1>. QED  BY <1>6, <1>7, <1>8, <1>9, <1>10, <1>11, <1>12 DEF Complete

LEMMA UndisturbedEnds ==
    ASSUME Inv, NEW h \in Handlers, Alone(h),
           NEW u \in Uploads, u = handler[h].upload,
           Finish(h) \/ SingleShot(h)
    PROVE  Goal(h, u)
  <1>. DEFINE t == handler[h]
              c == client[u]
              s == handler'[h]
              d == client'[u]
  <1>1. /\ t \in Handler /\ HandlerOk(t) /\ u = t.upload /\ u \in Targets
        /\ Live \in Targets /\ u # Live
        /\ handler \in [Handlers -> Handler] /\ client \in [Uploads -> Client]
        /\ c \in Client /\ ClientOk(u, c)
        /\ file \in [Targets -> Content \union {None}] /\ h # None
    BY InvParts, Sizes, TargetOf
    DEF ControlOk, FormInv, Handler, StoreOk, Client
  <1>2. /\ c.waits = h /\ c.phase = t.op /\ t.code = "ok" /\ t.pc # "abandon"
        /\ c.phase # "cancel" /\ Received(u)
    BY DEF Alone, Serves, Received
  <1>3. CASE Finish(h)
    <2>1. t.pc \in {"clear", "forget"} /\ t.op = "complete"
      BY <1>1, <1>2, <1>3, ByPlace
      DEF Finish, CleanupTemp, DeleteSession, ReadForCancel, At
    <2>2. CASE CleanupTemp(h)
      <3>1. /\ s = [t EXCEPT !.pc = "forget"] /\ client' = client
            /\ row' = row /\ file'[Live] = file[Live]
        BY <1>1, <1>2, <2>2, <2>1 DEF CleanupTemp, At, Unlinked
      <3>2. s.pc = "forget" /\ s.code = "ok"
        BY <1>1, <1>2, <3>1 DEF Handler
      <3>3. Received(u)'
        BY <1>1, <1>2, <2>1, <3>1, <3>2 DEF Received
      <3>4. Serves(h)'
        BY <3>2 DEF Serves
      <3>. QED  BY <2>1, <3>1, <3>3, <3>4 DEF Goal, RowStays, Between
    <2>3. CASE DeleteSession(h)
      <3>1. /\ s = Idle /\ row' = row /\ file' = file
            /\ d = Answered(u, c, "ok") /\ "ok" \in Codes
        BY <1>1, <1>2, <2>3 DEF DeleteSession, Reply, Become, Codes, disk
      <3>2. d.phase = "done"
        BY <1>1, <1>2, <2>1, <3>1, AnsweredFacts DEF Leads
      <3>3. Received(u)'
        BY <3>2 DEF Received
      <3>. QED  BY <2>1, <3>1, <3>3, IdleServes DEF Goal, RowStays, Between
    <2>. QED  BY <1>3, <2>1, <2>2, <2>3 DEF Finish, ReadForCancel
  <1>4. CASE SingleShot(h)
    <2>1. /\ t.op = "single" /\ client' = client
          /\ s.pc \in {"fill", "row"} /\ s.code = "ok"
      <3>1. t.op = "single" /\ client' = client
        BY <1>1, <1>4, ByPlace
        DEF SingleShot, OverwriteLocal, FillLocal, PutBytes, At
      <3>2. \/ s = [t EXCEPT !.pc = "fill", !.linked = TRUE]
            \/ s = [t EXCEPT !.pc = "row"]
        BY <1>1, <1>4
        DEF SingleShot, OverwriteLocal, FillLocal, PutBytes, Goto, Become
      <3>. QED  BY <1>1, <1>2, <3>1, <3>2 DEF Handler
    <2>2. Received(u)'
      BY <1>2, <2>1 DEF Received
    <2>3. Serves(h)' /\ RowStays(h)
      BY <2>1 DEF Serves, RowStays, Between
    <2>. QED  BY <2>2, <2>3 DEF Goal
  <1>. QED  BY <1>3, <1>4

LEMMA UndisturbedRequests ==
    ASSUME Inv, PromptInv, SoleInv, PlacedInv, UndisturbedInv,
           NEW h \in Handlers, Handle(h), handler[h].op # "delete",
           Undisturbed
    PROVE  /\ \A v \in Uploads : Received(v)'
           /\ \A g \in Handlers : Serves(g)'
           /\ RowInv'
  <1>1. PICK u \in Uploads : u = handler[h].upload
    BY InvParts DEF Handler
  <1>2. OnTime /\ Busy(h) /\ handler[h] \in Handler /\ HandlerOk(handler[h])
    BY InvParts, WorksLeaves DEF OnTime, Undisturbed
  <1>3. /\ client[u].waits = h /\ client[u].phase = handler[h].op
        /\ \A g \in Handlers \ {h} : ~Busy(g)
        /\ \A v \in Uploads \ {u} : Over(v)
    BY <1>1, <1>2, Lone
  <1>4. Alone(h)
    <2>1. Placed(h) /\ Serves(h) /\ Received(u) /\ RowInv
      BY <1>2 DEF PlacedInv, UndisturbedInv
    <2>2. handler[h].op = "chunk" => handler[h].chunk = client[u].next
      BY <1>1, <1>2 DEF PromptInv, Prompt, OnTime
    <2>. QED  BY <1>1, <1>2, <1>3, <2>1, <2>2 DEF Alone
  <1>5. Goal(h, u)
    <2>1. ~Delete(h)
      BY <1>2, ByPlace DEF Delete, ReadRow, DeleteFile, DeleteRow, At
    <2>. QED  BY <1>1, <1>4, <2>1, UndisturbedUpload, UndisturbedComplete,
                 UndisturbedEnds DEF Handle
  <1>6. ASSUME NEW v \in Uploads, v # u PROVE Received(v)'
    <2>1. Over(v) /\ client'[v] = client[v] /\ Received(v)
      BY <1>3, <1>6, WorksLeaves DEF UndisturbedInv
    <2>. QED  BY <2>1 DEF Over, Received
  <1>7. ASSUME NEW g \in Handlers, g # h PROVE Serves(g)'
    <2>1. handler'[g].pc = "idle" /\ handler'[g].code = "ok"
      BY <1>3, <1>7, WorksLeaves DEF Busy, UndisturbedInv, Serves
    <2>. QED  BY <2>1 DEF Serves
  <1>8. RowInv'
    <2>1. CASE Between(handler'[h])
      BY <2>1 DEF RowInv
    <2>2. CASE ~Between(handler[h]) /\ row' = row /\ file'[Live] = file[Live]
      <3>1. \A g \in Handlers : ~Between(handler[g])
        BY <1>3, <2>2 DEF Busy, Between
      <3>. QED  BY <1>4, <2>2, <3>1 DEF Alone, RowInv, Whole
    <2>3. CASE row' # None /\ file'[Live] = Whole(row')
      BY <2>3 DEF RowInv, Whole
    <2>. QED  BY <1>5, <2>1, <2>2, <2>3 DEF Goal, RowStays
  <1>. QED  BY <1>5, <1>6, <1>7, <1>8 DEF Goal

LEMMA UndisturbedDeletions ==
    ASSUME Inv, PromptInv, SoleInv, UndisturbedInv,
           NEW h \in Handlers, Handle(h), handler[h].op = "delete",
           Undisturbed
    PROVE  /\ \A v \in Uploads : Received(v)'
           /\ \A g \in Handlers : Serves(g)'
           /\ RowInv'
  <1>. DEFINE t == handler[h]
              s == handler'[h]
  <1>1. /\ OnTime /\ Busy(h) /\ t \in Handler /\ HandlerOk(t)
        /\ handler \in [Handlers -> Handler] /\ Live \in Targets
        /\ t.code = "ok"
        /\ \A v \in Uploads : Received(v)
        /\ \A g \in Handlers : Serves(g)
        /\ RowInv
    BY InvParts, WorksLeaves, NothingAssumption
    DEF OnTime, Undisturbed, ControlOk, UndisturbedInv, Serves, Targets
  <1>2. ASSUME NEW v \in Uploads PROVE Received(v)'
    <2>1. Over(v) /\ client'[v] = client[v]
      BY <1>1, WorksLeaves DEF SoleInv
    <2>. QED  BY <1>1, <2>1 DEF Over, Received
  <1>3. ASSUME NEW g \in Handlers, g # h
        PROVE  /\ Serves(g)' /\ handler'[g].pc = handler[g].pc
               /\ Between(handler'[g]) <=> Between(handler[g])
    <2>1. handler[g].op = "delete" \/ ~Busy(g)
      BY <1>1, <1>3, Lone
    <2>2. handler[g].pc \in {"idle", "read", "unlink", "unrow"}
      BY <2>1, InvParts, ByPlace DEF Busy, HandlerOk, PlacesOf
    <2>3. handler'[g].pc = handler[g].pc /\ handler'[g].code = "ok"
      BY <1>1, <1>3, WorksLeaves DEF Serves
    <2>. QED  BY <2>2, <2>3 DEF Serves, Between
  <1>4. CASE ReadRow(h)
    <2>1. /\ row' = row /\ file' = file /\ t.pc = "read"
          /\ s = Idle \/ s = [t EXCEPT !.pc = "unlink"]
      BY <1>1, <1>4 DEF ReadRow, Goto, Become, disk, At
    <2>2. s.pc \in {"idle", "unlink"} /\ s.code = "ok"
      BY <1>1, <2>1 DEF Idle, Request, Handler
    <2>3. Serves(h)'
      BY <2>2 DEF Serves
    <2>4. ~Between(t)
      BY <2>1 DEF Between
    <2>5. RowInv'
      BY <1>1, <1>3, <2>1, <2>4 DEF RowInv, Whole
    <2>. QED  BY <1>2, <1>3, <2>3, <2>5
  <1>5. CASE DeleteFile(h)
    <2>1. s = [t EXCEPT !.pc = "unrow"]
      <3>1. t.pc = "unlink"
        BY <1>5 DEF DeleteFile, At
      <3>2. Unlinked(Live)[h] = t
        BY <3>1 DEF Unlinked
      <3>. QED  BY <1>1, <1>5, <3>2 DEF DeleteFile, Unlinked
    <2>2. s.pc = "unrow" /\ s.code = "ok"
      BY <1>1, <2>1 DEF Handler
    <2>3. Serves(h)' /\ RowInv'
      BY <2>2 DEF Serves, RowInv, Between
    <2>. QED  BY <1>2, <1>3, <2>3
  <1>6. CASE DeleteRow(h)
    <2>1. row' = None /\ s = Idle
      BY <1>1, <1>6 DEF DeleteRow, Become
    <2>. QED  BY <1>2, <1>3, <2>1, IdleServes DEF RowInv
  <1>7. Delete(h)
    BY <1>1, ByPlace
    DEF Handle, Upload, Complete, Finish, SingleShot, StoreSession,
        MakeDirectory, ReadForChunk, OpenChunk, WriteChunk, RecordChunk,
        ReadForComplete, CreateTarget, CopyChunk, VerifySize, Discard,
        PutObject, UpsertRow, CleanupTemp, DeleteSession, ReadForCancel,
        OverwriteLocal, FillLocal, PutBytes, At
  <1>. QED  BY <1>4, <1>5, <1>6, <1>7 DEF Delete

LEMMA UndisturbedSeveral ==
    ASSUME Inv, PromptInv, SoleInv, UndisturbedInv, Undisturbed',
           "two_admins" \notin Faults,
           \/ \E h \in Handlers : RequestDelete(h)
           \/ \E u \in Uploads, h \in Handlers : Send(u, h)
           \/ \E u \in Uploads : ClientMoves(u)
           \/ Restart
    PROVE  /\ \A v \in Uploads : Received(v)'
           /\ \A g \in Handlers : Serves(g)'
           /\ RowInv'
  <1>. DEFINE Kept == /\ \A v \in Uploads : Received(v)'
                      /\ \A g \in Handlers : Serves(g)'
                      /\ RowInv'
  <1>1. /\ Undisturbed /\ OnTime
        /\ \A v \in Uploads : Received(v)
        /\ \A g \in Handlers : Serves(g)
        /\ RowInv
    BY SeveralLeaves DEF Undisturbed, OnTime, UndisturbedInv
  <1>2. /\ handler \in [Handlers -> Handler] /\ client \in [Uploads -> Client]
        /\ \A g \in Handlers : handler[g].upload \in Uploads
        /\ StoreOk /\ Live \in Targets /\ Live \notin Uploads
        /\ None \notin Handlers /\ None \notin Uploads
    BY InvParts, NothingAssumption, Sizes DEF ControlOk, Handler, Targets
  <1>3. ASSUME NEW h \in Handlers, RequestDelete(h) PROVE Kept
    <2>1. /\ handler' = [handler EXCEPT ![h] = [Idle EXCEPT !.pc = "read"]]
          /\ UNCHANGED <<session, tmp, file, row, client>> /\ ~Busy(h)
          /\ \A g \in Handlers \ {h} : handler'[g] = handler[g]
      BY <1>2, <1>3 DEF RequestDelete, Become, disk, At, Busy
    <2>2. handler'[h].pc = "read" /\ handler'[h].code = "ok"
      BY <1>2, <2>1 DEF Idle, Request
    <2>3. \A v \in Uploads : Over(v)
      BY <1>3 DEF RequestDelete
    <2>4. ASSUME NEW v \in Uploads PROVE Received(v)'
      BY <1>1, <2>1, <2>3 DEF Over, Received
    <2>5. ASSUME NEW g \in Handlers PROVE Serves(g)'
      BY <1>1, <2>1, <2>2 DEF Serves
    <2>6. RowInv'
      <3>1. ~Between(handler[h])
        BY <2>1 DEF Busy, Between
      <3>. QED  BY <1>1, <2>1, <3>1 DEF RowInv, Whole
    <2>. QED  BY <2>4, <2>5, <2>6
  <1>4. ASSUME NEW u \in Uploads, NEW h \in Handlers, Send(u, h) PROVE Kept
    <2>1. Sent(u, h) /\ UNCHANGED <<session, tmp, file, row>>
      BY <1>4, SendFacts DEF Send, disk
    <2>2. handler'[h].code = "ok"
      BY <1>2, <1>4 DEF Send, Become, Request
    <2>3. /\ handler'[h].pc \in {"put", "overwrite", "read"} /\ ~Busy(h)
          /\ \A g \in Handlers \ {h} : handler'[g] = handler[g]
          /\ \A v \in Uploads \ {u} : client'[v] = client[v]
          /\ client'[u].phase = client[u].phase /\ client'[u].next = client[u].next
          /\ client[u].waits = None /\ client'[u].waits = h
      BY <1>2, <2>1 DEF Sent, OthersUntouched, At, Busy
    <2>4. ASSUME NEW v \in Uploads PROVE Received(v)'
      <3>1. Received(v)
        BY <1>1
      <3>2. CASE v = u
        BY <2>1, <2>3, <3>1, <3>2 DEF Received
      <3>3. CASE v # u
        <4>1. Over(v)
          BY <2>1, <3>3 DEF SoleInv, Sent
        <4>. QED  BY <2>3, <3>1, <3>3, <4>1 DEF Over, Received
      <3>. QED  BY <3>2, <3>3
    <2>5. ASSUME NEW g \in Handlers PROVE Serves(g)'
      BY <1>1, <2>1, <2>2, <2>3 DEF Serves
    <2>6. RowInv'
      <3>1. ~Between(handler[h])
        BY <2>3 DEF Busy, Between
      <3>. QED  BY <1>1, <2>1, <2>3, <3>1 DEF RowInv, Whole
    <2>. QED  BY <2>4, <2>5, <2>6
  <1>5. ASSUME NEW u \in Uploads, ClientMoves(u) PROVE Kept
    <2>1. handler' = handler /\ row' = row
      BY <1>5 DEF ClientMoves, Begin, GivesUp, Abort, Expire, CleanupStale
    <2>2. ~GivesUp(u) /\ ~Abort(u)
      BY GivesUpFacts, AbortFacts DEF Undisturbed
    <2>3. CASE Begin(u)
      <3>1. UNCHANGED <<session, tmp, file>>
            /\ client'[u].phase \in {"single", "initiate"}
            /\ \A v \in Uploads \ {u} : client'[v] = client[v]
        BY <1>2, <2>3, BeginFacts DEF Begin, disk
      <3>2. ASSUME NEW v \in Uploads PROVE Received(v)'
        BY <1>1, <2>1, <3>1 DEF Received
      <3>3. ASSUME NEW g \in Handlers PROVE Serves(g)'
        BY <1>1, <2>1, <3>1 DEF Serves
      <3>4. RowInv'
        BY <1>1, <2>1, <3>1 DEF RowInv, Whole
      <3>. QED  BY <3>2, <3>3, <3>4
    <2>4. CASE Expire(u)
      <3>1. /\ Over(u) /\ client'[u].phase = client[u].phase
            /\ \A v \in Uploads \ {u} :
                  client'[v] = client[v] /\ session'[v] = session[v]
        BY <1>2, <2>4, ExpireFacts DEF Expire, Undisturbed, StoreOk
      <3>2. tmp' = tmp /\ file' = file /\ ~Working(u)
        BY <2>4 DEF Expire, disk
      <3>3. ASSUME NEW v \in Uploads PROVE Received(v)'
        BY <1>1, <2>1, <3>1, <3>2 DEF Over, Received
      <3>4. ASSUME NEW g \in Handlers PROVE Serves(g)'
        <4>1. handler[g].pc = "idle" \/ session'[handler[g].upload] = session[handler[g].upload]
          BY <1>2, <3>1, <3>2 DEF Working
        <4>. QED  BY <1>1, <2>1, <3>2, <4>1 DEF Serves
      <3>5. RowInv'
        BY <1>1, <2>1, <3>2 DEF RowInv, Whole
      <3>. QED  BY <3>3, <3>4, <3>5
    <2>5. CASE CleanupStale(u)
      <3>1. /\ session[u] = None /\ session' = session /\ client' = client
            /\ ~Working(u)
            /\ \A v \in Uploads \ {u} : tmp'[v] = tmp[v]
            /\ file'[Live] = file[Live]
        BY <1>2, <2>5 DEF CleanupStale, StoreOk
      <3>2. ASSUME NEW v \in Uploads PROVE Received(v)'
        <4>1. CASE v # u
          BY <1>1, <2>1, <3>1, <4>1 DEF Received
        <4>2. CASE v = u
          <5>1. \A n \in Nat : n <= NumChunks => 0..(n - 1) # None
            <6>1. \A n \in Nat : n <= NumChunks => 0..(n - 1) \in SUBSET Chunk
              BY Sizes DEF Chunk
            <6>. QED  BY <6>1, NothingAssumption
          <5>2. /\ client[u].next \in Nat /\ client[u].next <= NumChunks
                /\ ChunksOf[u] \in Nat /\ ChunksOf[u] <= NumChunks
            BY <1>2, Sizes DEF Client
          <5>3. 0..(client[u].next - 1) # session[u]
                /\ 0..(ChunksOf[u] - 1) # session[u]
            BY <3>1, <5>1, <5>2
          <5>. QED  BY <1>1, <2>1, <3>1, <4>2, <5>3 DEF Received
        <4>. QED  BY <4>1, <4>2
      <3>3. ASSUME NEW g \in Handlers PROVE Serves(g)'
        <4>1. handler[g].pc = "idle" \/ tmp'[handler[g].upload] = tmp[handler[g].upload]
          BY <1>2, <3>1 DEF Working
        <4>. QED  BY <1>1, <2>1, <3>1, <4>1 DEF Serves
      <3>4. RowInv'
        BY <1>1, <2>1, <3>1 DEF RowInv, Whole
      <3>. QED  BY <3>2, <3>3, <3>4
    <2>. QED  BY <1>5, <2>2, <2>3, <2>4, <2>5 DEF ClientMoves
  <1>6. CASE Restart
    <2>1. /\ \A g \in Handlers : handler'[g] = Idle
          /\ UNCHANGED <<session, tmp, file, row>>
      BY <1>6, RestartFacts DEF disk
    <2>2. ASSUME NEW v \in Uploads
          PROVE  /\ ~Struck(v)
                 /\ client[v].waits = None /\ client'[v].waits = None
                 /\ client'[v].phase = client[v].phase
                 /\ client'[v].next = client[v].next
      <3>1. ~Struck(v)
        BY <1>6, RestartFacts DEF Undisturbed
      <3>2. client[v].waits = None
        BY <3>1 DEF Struck
      <3>. QED  BY <1>6, <3>1, <3>2, RestartFacts
    <2>3. ASSUME NEW v \in Uploads PROVE Received(v)'
      BY <1>1, <2>1, <2>2 DEF Received
    <2>4. ASSUME NEW g \in Handlers PROVE Serves(g)'
      BY <2>1, IdleServes
    <2>5. RowInv'
      <3>. SUFFICES ASSUME row # None PROVE file[Live] = Whole(row)
        BY <2>1 DEF RowInv, Whole
      <3>1. row \in Uploads
        BY <1>2 DEF StoreOk
      <3>2. ASSUME NEW g \in Handlers PROVE ~Between(handler[g])
        <4>1. handler[g].pc # "unrow"
          BY <2>2, <3>1 DEF Struck, At
        <4>2. Busy(g) => handler[g].op = "delete"
          BY <1>1, <1>2, <2>2, Lone
        <4>3. handler[g].pc \notin {"fill", "row", "copy", "verify"}
          BY <4>2, InvParts, ByPlace DEF Busy
        <4>. QED  BY <4>1, <4>3 DEF Between
      <3>. QED  BY <1>1, <3>2 DEF RowInv
    <2>. QED  BY <2>3, <2>4, <2>5
  <1>. QED  BY <1>3, <1>4, <1>5, <1>6

LEMMA UndisturbedHolds ==
    ASSUME "two_admins" \notin Faults, "io_error" \notin Faults
    PROVE  Spec => []UndisturbedInv
  <1>1. Init => UndisturbedInv
    <2>. SUFFICES ASSUME Init
                  PROVE  /\ \A v \in Uploads : Received(v)
                         /\ \A g \in Handlers : Serves(g)
                         /\ RowInv
      BY DEF UndisturbedInv
    <2>1. \A v \in Uploads : Received(v)
      BY DEF Init, Received
    <2>2. Idle.pc = "idle" /\ Idle.code = "ok"
      BY DEF Idle, Request
    <2>3. \A g \in Handlers : Serves(g)
      BY <2>2 DEF Init, Serves
    <2>. QED  BY <2>1, <2>3 DEF Init, RowInv
  <1>2. Inv /\ PromptInv /\ SoleInv /\ PlacedInv /\ UndisturbedInv /\ [Next]_vars
           => UndisturbedInv'
    <2>. SUFFICES ASSUME Inv, PromptInv, SoleInv, PlacedInv, UndisturbedInv,
                         [Next]_vars, Undisturbed'
                  PROVE  /\ \A v \in Uploads : Received(v)'
                         /\ \A g \in Handlers : Serves(g)'
                         /\ RowInv'
      BY DEF UndisturbedInv
    <2>1. ASSUME NEW h \in Handlers, Handle(h) \/ IoFails(h)
          PROVE  /\ \A v \in Uploads : Received(v)'
                 /\ \A g \in Handlers : Serves(g)'
                 /\ RowInv'
      <3>1. Handle(h)
        BY <2>1 DEF IoFails
      <3>2. Undisturbed
        BY <2>1, WorksLeaves DEF Undisturbed
      <3>. QED  BY <3>1, <3>2, UndisturbedRequests, UndisturbedDeletions
    <2>2. CASE UNCHANGED vars
      <3>1. Undisturbed
        BY <2>2 DEF vars, Undisturbed
      <3>2. \A v \in Uploads : Received(v)'
        BY <2>2, <3>1 DEF vars, disk, UndisturbedInv, Received
      <3>3. \A g \in Handlers : Serves(g)'
        BY <2>2, <3>1 DEF vars, disk, UndisturbedInv, Serves
      <3>4. RowInv'
        BY <2>2, <3>1 DEF vars, disk, UndisturbedInv, RowInv, Whole
      <3>. QED  BY <3>2, <3>3, <3>4
    <2>. QED  BY <2>1, <2>2, NextIs, UndisturbedSeveral
  <1>. QED  BY <1>1, <1>2, InvHolds, PromptHolds, SoleHolds, PlacedHolds, PTL
            DEF Spec

(***************************************************************************)
(* When no request runs and nothing disturbed an upload, the row names the *)
(* upload whose every chunk is stored, for any number of uploads, chunks   *)
(* and requests and over both backends, when one admin works and no call   *)
(* of the backend fails: a complete that starts with all chunks writes all *)
(* of them, and only it and its row update are between the file and row.   *)
(***************************************************************************)
THEOREM RowIsOfFile ==
    ASSUME "two_admins" \notin Faults, "io_error" \notin Faults
    PROVE  Spec => []RowMatchesFile
  <1>1. UndisturbedInv => RowMatchesFile
    BY DEF UndisturbedInv, RowInv, RowMatchesFile, Quiet, At, Between
  <1>. QED  BY <1>1, UndisturbedHolds, PTL

(***************************************************************************)
(* An upload that nothing disturbed is never given up: under the same      *)
(* hypotheses every answer its client gets is a success, so no             *)
(* interleaving of its requests with the cleaner, the expiry of sessions   *)
(* or a restart between them loses a chunk that was acknowledged.          *)
(***************************************************************************)
THEOREM UndisturbedSucceeds ==
    ASSUME "two_admins" \notin Faults, "io_error" \notin Faults
    PROVE  Spec => [](Undisturbed =>
                        \A u \in Uploads :
                           client[u].phase \notin {"cancel", "failed"})
  <1>1. UndisturbedInv => (Undisturbed =>
                             \A u \in Uploads :
                                client[u].phase \notin {"cancel", "failed"})
    BY DEF UndisturbedInv, Received
  <1>. QED  BY <1>1, UndisturbedHolds, PTL
=============================================================================
