--------------------------- MODULE ChunkedUpload ---------------------------
(***************************************************************************)
(* Upload of a map's 3D model: routers/maps.rs (the HTTP handlers),        *)
(* core/map_storage.rs (local directory or R2 bucket), the hourly cleaner  *)
(* of core/updater.rs and the browser's side, front-gfl uploadUtils.ts.    *)
(*                                                                         *)
(* An upload is one session id, or one single-shot request.  All uploads   *)
(* are of the same map and resolution, so they compete for one stored      *)
(* object and one row of website.map_3d_model.  A handler is one request   *)
(* in flight; every await of the Rust code is a step boundary, and a       *)
(* handler runs on when its client has given up: the Next.js route between *)
(* them does not forward the client's abort.  A chunk is one unit of size. *)
(***************************************************************************)
EXTENDS Naturals, Sequences

CONSTANTS Uploads,
          Singles,      \* the uploads small enough for one request
          Handlers,     \* requests that may be in flight at once
          NumChunks,    \* bound: chunks of the largest upload
          ChunksOf,     \* number of chunks of each upload
          Local,        \* MAP_STORAGE_BACKEND is a local directory, not R2
          MaxAttempts,  \* bound: attempts at one request (the code's 3 x 3)
          MaxDeletes,   \* bound: deletions of the model
          Faults,       \* what the environment may do
          None          \* no session, no directory, no file, no row, no one

(***************************************************************************)
(* crash             the backend restarts                                  *)
(* io_error          a Redis, file, bucket or database call fails          *)
(* chunk_timeout     the client stops waiting for a chunk or a cancel      *)
(* complete_timeout  the client stops waiting for a complete               *)
(* abort             the admin aborts, or closes the page                  *)
(* slow              24 h pass between two requests of an upload           *)
(* two_admins        uploads and deletions overlap                         *)
(***************************************************************************)
FaultKinds == {"crash", "io_error", "chunk_timeout", "complete_timeout",
               "abort", "slow", "two_admins"}

Chunk == 0..(NumChunks - 1)

ASSUME ConstantsAssumption ==
    /\ NumChunks \in Nat \ {0}
    /\ ChunksOf \in [Uploads -> 1..NumChunks]
    /\ Singles \subseteq Uploads
    /\ \A u \in Singles : ChunksOf[u] = 1
    /\ Uploads # {}
    /\ Local \in BOOLEAN
    /\ MaxAttempts \in Nat \ {0}
    /\ MaxDeletes \in Nat
    /\ Faults \subseteq FaultKinds
    /\ None \notin Uploads \union Handlers \union (Uploads \X Chunk)

VARIABLES
    session,    \* upload_session:<id> in Redis: its chunks_received, or None
    tmp,        \* STORE_UPLOAD/.tmp/<id>: the state of its chunk files
    file,       \* the stored object and the assembled.glb of each session
    row,        \* map_3d_model: the upload the row describes
    handler,
    client,     \* the browser's side of each upload
    deletes     \* deletions requested so far

vars == <<session, tmp, file, row, handler, client, deletes>>
disk == <<tmp, file>>

Live == "live"                       \* the path or key the row links to
Targets == Uploads \union {Live}
FileState == {"absent", "empty", "whole"}
NoChunks == [i \in Chunk |-> "absent"]

(* A file is the chunks written to it, with None for a hole. *)
Piece == (Uploads \X Chunk) \union {None}
Content == UNION {[1..n -> Piece] : n \in 0..NumChunks}
(* Nothing is neither a session, a directory nor a file; an upload has a   *)
(* name of its own.                                                        *)
ASSUME NothingAssumption ==
    /\ \A s \in SUBSET Chunk : s # None
    /\ \A d \in [Chunk -> FileState] : d # None
    /\ \A f \in Content : f # None
    /\ Live \notin Uploads

Whole(u) == [k \in 1..ChunksOf[u] |-> <<u, k - 1>>]
WriteAt(c, pos, piece) ==
    [k \in 1..(IF Len(c) > pos THEN Len(c) ELSE pos + 1) |->
        IF k = pos + 1 THEN piece ELSE IF k <= Len(c) THEN c[k] ELSE None]

Ops == {"initiate", "chunk", "complete", "cancel", "single", "delete"}
Codes == {"ok", "error", "missing"}
Places == {"idle", "put", "mkdir", "read", "open", "write", "record",
           "create", "copy", "verify", "discard", "store", "row", "clear",
           "forget", "abandon", "overwrite", "fill", "unlink", "unrow"}
Phases == {"new", "initiate", "chunk", "complete", "cancel", "single",
           "done", "failed"}

Handler == [op     : Ops,
            pc     : Places,           \* the await it is about to perform
            upload : Uploads,
            chunk  : Chunk,            \* the chunk_index of the request
            seen   : SUBSET Chunk,     \* chunks_received as it read them
            pos    : 0..NumChunks,     \* chunks copied or skipped so far
            at     : 0..NumChunks,     \* offset of its file descriptor
            linked : BOOLEAN,          \* its open file still has its name
            code   : Codes]

Client == [phase : Phases,
           next  : 0..NumChunks,       \* chunks acknowledged
           tries : 0..MaxAttempts,     \* failed attempts at this request
           waits : Handlers \union {None},
           late  : BOOLEAN,            \* history: it gave up on a request
           broken: BOOLEAN]            \* history: a restart met a request,
                                       \* or its session expired under it

Request(op, place, u, i) ==
    [op |-> op, pc |-> place, upload |-> u, chunk |-> i, seen |-> {},
     pos |-> 0, at |-> 0, linked |-> FALSE, code |-> "ok"]
Idle == Request("delete", "idle", CHOOSE u \in Uploads : TRUE, 0)

At(h, place) == handler[h].pc = place
Become(h, t) == handler' = [handler EXCEPT ![h] = t]
Goto(h, place) == Become(h, [handler[h] EXCEPT !.pc = place])
Working(u) == \E h \in Handlers :
                  handler[h].pc # "idle" /\ handler[h].upload = u
Over(u) == client[u].phase \in {"new", "done", "failed"}
Quiet == \A h \in Handlers : At(h, "idle")

(* complete_chunked_upload's target_path *)
Target(t) == IF Local \/ t.op = "single" THEN Live ELSE t.upload

Init ==
    /\ session = [u \in Uploads |-> None]
    /\ tmp = [u \in Uploads |-> None]
    /\ file = [t \in Targets |-> None]
    /\ row = None
    /\ handler = [h \in Handlers |-> Idle]
    /\ client = [u \in Uploads |->
                    [phase |-> "new", next |-> 0, tries |-> 0, waits |-> None,
                     late |-> FALSE, broken |-> FALSE]]
    /\ deletes = 0

-----------------------------------------------------------------------------
(* The browser: uploadFileChunked and uploadChunkWithRetry *)

Enter(c, phase) == [c EXCEPT !.phase = phase, !.tries = 0, !.waits = None]

\* Mutant: failed attempts are not counted.
FailedForEver(c, retried) ==
    IF retried THEN [c EXCEPT !.waits = None]
    ELSE Enter(c, IF c.phase = "chunk" THEN "cancel" ELSE "failed")

(* What the client does after a failed attempt at a request. *)
Failed(c, retried) ==
    IF retried /\ c.tries + 1 < MaxAttempts
    THEN [c EXCEPT !.tries = @ + 1, !.waits = None]
    ELSE Enter(c, IF c.phase = "chunk" THEN "cancel" ELSE "failed")

\* Mutant: chunkIndex <= total_chunks.
AnsweredLate(u, c, code) ==
    IF code # "ok" THEN Failed(c, c.phase = "chunk" \/ code = "missing")
    ELSE CASE c.phase = "initiate" -> Enter(c, "chunk")
           [] c.phase = "chunk" ->
                IF c.next = ChunksOf[u] THEN Enter(c, "complete")
                ELSE [Enter(c, "chunk") EXCEPT !.next = c.next + 1]
           [] c.phase \in {"complete", "single"} -> Enter(c, "done")
           [] OTHER -> Enter(c, "failed")

(***************************************************************************)
(* What the client does with an answer.  An error is a UserError, which    *)
(* only uploadChunkWithRetry tries again; fetchUrl also repeats a request  *)
(* that was answered 404.                                                  *)
(***************************************************************************)
Answered(u, c, code) ==
    IF code # "ok" THEN Failed(c, c.phase = "chunk" \/ code = "missing")
    ELSE CASE c.phase = "initiate" -> Enter(c, "chunk")
           [] c.phase = "chunk" ->
                [Enter(c, IF c.next + 1 = ChunksOf[u]
                          THEN "complete" ELSE "chunk")
                    EXCEPT !.next = c.next + 1]
           [] c.phase \in {"complete", "single"} -> Enter(c, "done")
           [] OTHER -> Enter(c, "failed")

(* The handler's answer reaches the client unless it stopped waiting. *)
Reply(h, code) ==
    LET u == handler[h].upload IN
    /\ Become(h, Idle)
    /\ client' = IF client[u].waits = h
                 THEN [client EXCEPT ![u] = Answered(u, @, code)]
                 ELSE client

Begin(u) ==
    /\ client[u].phase = "new"
    /\ \/ "two_admins" \in Faults
       \/ /\ \A v \in Uploads : Over(v)
          /\ \A h \in Handlers : At(h, "idle") \/ handler[h].op # "delete"
    /\ client' = [client EXCEPT
                    ![u] = Enter(@, IF u \in Singles
                                    THEN "single" ELSE "initiate")]
    /\ UNCHANGED <<session, disk, row, handler, deletes>>

(* Each request is sent when the one before it is settled. *)
Send(u, h) ==
    LET c == client[u]
        place == CASE c.phase = "initiate" -> "put"
                   [] c.phase = "single" -> "overwrite"
                   [] OTHER -> "read"
    IN
    /\ ~Over(u)
    /\ c.waits = None
    /\ At(h, "idle")
    /\ Become(h, Request(c.phase, place, u,
                         IF c.phase = "chunk" THEN c.next ELSE 0))
    /\ client' = [client EXCEPT ![u].waits = h]
    /\ UNCHANGED <<session, disk, row, deletes>>

(* A gateway timeout or a broken connection: fetchUrl tries again, but an  *)
(* initiate that is sent again makes another session.                      *)
GivesUp(u) ==
    LET c == client[u] IN
    /\ c.waits # None
    /\ IF c.phase \in {"complete", "single"}
       THEN "complete_timeout" \in Faults ELSE "chunk_timeout" \in Faults
    /\ client' = [client EXCEPT ![u] = [Failed(c, c.phase # "initiate")
                                           EXCEPT !.late = TRUE]]
    /\ UNCHANGED <<session, disk, row, handler, deletes>>

(* While chunks are sent an abort cancels the session; later it does not. *)
Abort(u) ==
    /\ "abort" \in Faults
    /\ ~Over(u)
    /\ \E phase \in {"failed"} \union
                    (IF client[u].phase = "chunk" THEN {"cancel"} ELSE {}) :
          client' = [client EXCEPT
                       ![u] = [Enter(@, phase) EXCEPT !.late = TRUE]]
    /\ UNCHANGED <<session, disk, row, handler, deletes>>

-----------------------------------------------------------------------------
(* initiate_chunked_upload: the session first, then its directory *)

StoreSession(h) ==
    LET t == handler[h] IN
    /\ At(h, "put")
    /\ session' = [session EXCEPT ![t.upload] = {}]
    /\ Goto(h, "mkdir")
    /\ UNCHANGED <<disk, row, client, deletes>>

MakeDirectory(h) ==
    LET u == handler[h].upload IN
    /\ At(h, "mkdir")
    /\ tmp' = [tmp EXCEPT ![u] = IF @ = None THEN NoChunks ELSE @]
    /\ Reply(h, "ok")
    /\ UNCHANGED <<session, file, row, deletes>>

-----------------------------------------------------------------------------
(* upload_chunk: the snapshot is read before the body is *)

\* Mutant: the session is updated before the chunk is on disk.
ReadForChunkEarly(h) ==
    LET t == handler[h] u == t.upload IN
    /\ At(h, "read") /\ t.op = "chunk"
    /\ session[u] # None
    /\ session' = [session EXCEPT ![u] = @ \union {t.chunk}]
    /\ Become(h, [t EXCEPT !.pc = "open", !.seen = session[u]])
    /\ UNCHANGED <<disk, row, client, deletes>>

ReadForChunk(h) ==
    LET t == handler[h] u == t.upload IN
    /\ At(h, "read") /\ t.op = "chunk"
    /\ \/ session[u] = None /\ Reply(h, "missing")
       \/ session[u] # None /\ t.chunk \in session[u] /\ Reply(h, "ok")
       \/ /\ session[u] # None /\ t.chunk \notin session[u]
          /\ Become(h, [t EXCEPT !.pc = "open", !.seen = session[u]])
          /\ UNCHANGED client
    /\ UNCHANGED <<session, disk, row, deletes>>

(* tokio::fs::write creates or empties the file, then writes it. *)
OpenChunk(h) ==
    LET t == handler[h] u == t.upload IN
    /\ At(h, "open")
    /\ IF tmp[u] = None
       THEN Reply(h, "error") /\ UNCHANGED tmp
       ELSE /\ tmp' = [tmp EXCEPT ![u][t.chunk] = "empty"]
            /\ Goto(h, "write")
            /\ UNCHANGED client
    /\ UNCHANGED <<session, file, row, deletes>>

WriteChunk(h) ==
    LET t == handler[h] u == t.upload IN
    /\ At(h, "write")
    /\ tmp' = IF tmp[u] # None /\ tmp[u][t.chunk] # "absent"
              THEN [tmp EXCEPT ![u][t.chunk] = "whole"] ELSE tmp
    /\ Goto(h, "record")
    /\ UNCHANGED <<session, file, row, client, deletes>>

\* Mutant: a fresh session record is stored instead of the updated snapshot.
RecordChunkAlone(h) ==
    LET t == handler[h] IN
    /\ At(h, "record")
    /\ session' = [session EXCEPT ![t.upload] = {t.chunk}]
    /\ Reply(h, "ok")
    /\ UNCHANGED <<disk, row, deletes>>

(* The whole snapshot is stored again, whatever the key holds by now. *)
RecordChunk(h) ==
    LET t == handler[h] IN
    /\ At(h, "record")
    /\ session' = [session EXCEPT ![t.upload] = t.seen \union {t.chunk}]
    /\ Reply(h, "ok")
    /\ UNCHANGED <<disk, row, deletes>>

-----------------------------------------------------------------------------
(* complete_chunked_upload and assemble_chunks *)

AllChunks(u) == 0..(ChunksOf[u] - 1)  \* len() = total_chunks: no repeats

ReadForComplete(h) ==
    LET t == handler[h] u == t.upload IN
    /\ At(h, "read") /\ t.op = "complete"
    /\ \/ session[u] = None /\ Reply(h, "missing")
       \/ session[u] # None /\ session[u] # AllChunks(u) /\ Reply(h, "error")
       \/ session[u] = AllChunks(u) /\ Goto(h, "create") /\ UNCHANGED client
    /\ UNCHANGED <<session, disk, row, deletes>>

(* create_dir_all of the parent, which may be the removed directory of the *)
(* session, and File::create, which truncates the file in place.           *)
CreateTarget(h) ==
    LET t == handler[h] IN
    /\ At(h, "create")
    /\ file' = [file EXCEPT ![Target(t)] = <<>>]
    /\ tmp' = IF Target(t) = t.upload /\ tmp[t.upload] = None
              THEN [tmp EXCEPT ![t.upload] = NoChunks] ELSE tmp
    /\ Become(h, [t EXCEPT !.pc = "copy", !.pos = 0, !.at = 0,
                           !.linked = TRUE])
    /\ UNCHANGED <<session, row, client, deletes>>

(* One chunk file is opened and copied to the handler's file descriptor. *)
CopyChunk(h) ==
    LET t == handler[h]
        state == IF tmp[t.upload] = None THEN "absent" ELSE tmp[t.upload][t.pos]
        copied == IF state = "whole" THEN 1 ELSE 0
    IN
    /\ At(h, "copy")
    /\ IF state = "absent"
       THEN Become(h, [t EXCEPT !.pc = "abandon", !.code = "error"])
       ELSE Become(h, [t EXCEPT !.pos = @ + 1,
                                !.at = @ + copied,
                                !.pc = IF t.pos + 1 = ChunksOf[t.upload]
                                       THEN "verify" ELSE "copy"])
    /\ file' = IF copied = 1 /\ t.linked
               THEN [file EXCEPT ![Target(t)] =
                       WriteAt(@, t.at, <<t.upload, t.pos>>)]
               ELSE file
    /\ UNCHANGED <<session, tmp, row, client, deletes>>

\* Mutant: the size is not compared.
VerifySizeNever(h) ==
    LET t == handler[h] IN
    /\ At(h, "verify")
    /\ Become(h, IF file[Target(t)] = None
                 THEN [t EXCEPT !.pc = "abandon", !.code = "error"]
                 ELSE [t EXCEPT !.pc = IF Local THEN "row" ELSE "store"])
    /\ UNCHANGED <<session, disk, row, client, deletes>>

(* Verify final file size; a local file is already where it is stored. *)
VerifySize(h) ==
    LET t == handler[h] found == file[Target(t)] IN
    /\ At(h, "verify")
    /\ Become(h,
         IF found = None THEN [t EXCEPT !.pc = "abandon", !.code = "error"]
         ELSE IF Len(found) # ChunksOf[t.upload] THEN [t EXCEPT !.pc = "discard"]
         ELSE [t EXCEPT !.pc = IF Local THEN "row" ELSE "store"])
    /\ UNCHANGED <<session, disk, row, client, deletes>>

(* The name goes; the handlers that have the file open keep writing it. *)
Unlinked(target) ==
    [h \in Handlers |->
        IF handler[h].pc \in {"copy", "fill"} /\ Target(handler[h]) = target
        THEN [handler[h] EXCEPT !.linked = FALSE] ELSE handler[h]]

Discard(h) ==
    LET t == handler[h] IN
    /\ At(h, "discard")
    /\ file' = [file EXCEPT ![Target(t)] = None]
    /\ handler' = [Unlinked(Target(t)) EXCEPT
                     ![h] = [t EXCEPT !.pc = "abandon", !.code = "error"]]
    /\ UNCHANGED <<session, tmp, row, client, deletes>>

(* store_file: put_object replaces the object at once. *)
PutObject(h) ==
    LET t == handler[h] IN
    /\ At(h, "store")
    /\ IF file[t.upload] = None
       THEN /\ Become(h, [t EXCEPT !.pc = "abandon", !.code = "error"])
            /\ UNCHANGED file
       ELSE file' = [file EXCEPT ![Live] = file[t.upload]] /\ Goto(h, "row")
    /\ UNCHANGED <<session, tmp, row, client, deletes>>

\* Mutant: ON CONFLICT DO NOTHING.
UpsertRowFirst(h) ==
    LET t == handler[h] IN
    /\ At(h, "row") /\ t.op # "delete"
    /\ row' = IF row = None THEN t.upload ELSE row
    /\ IF t.op = "single" THEN Reply(h, "ok")
       ELSE Goto(h, "clear") /\ UNCHANGED client
    /\ UNCHANGED <<session, disk, deletes>>

(* INSERT ... ON CONFLICT DO UPDATE; a single-shot upload ends here. *)
UpsertRow(h) ==
    LET t == handler[h] IN
    /\ At(h, "row") /\ t.op # "delete"
    /\ row' = t.upload
    /\ IF t.op = "single" THEN Reply(h, "ok")
       ELSE Goto(h, "clear") /\ UNCHANGED client
    /\ UNCHANGED <<session, disk, deletes>>

(***************************************************************************)
(* cleanup_temp_directory removes the chunks and assembled.glb, then the   *)
(* directory, which stays if a request creates a chunk in between.  It     *)
(* ends a failed complete ("abandon") or comes before the session goes.    *)
(***************************************************************************)
CleanupTemp(h) ==
    LET t == handler[h] u == t.upload IN
    /\ At(h, "clear") \/ At(h, "abandon")
    /\ \/ tmp' = [tmp EXCEPT ![u] = None]
       \/ /\ tmp[u] # None
          /\ \E g \in Handlers : At(g, "open") /\ handler[g].upload = u
          /\ tmp' = [tmp EXCEPT ![u] = NoChunks]
    /\ file' = [file EXCEPT ![u] = None]
    /\ handler' = [Unlinked(u) EXCEPT
                     ![h] = IF t.pc = "clear" THEN [t EXCEPT !.pc = "forget"]
                            ELSE Idle]
    /\ client' = IF t.pc = "abandon" /\ client[u].waits = h
                 THEN [client EXCEPT ![u] = Answered(u, @, t.code)]
                 ELSE client
    /\ UNCHANGED <<session, row, deletes>>

DeleteSession(h) ==
    LET t == handler[h] IN
    /\ At(h, "forget")
    /\ session' = [session EXCEPT ![t.upload] = None]
    /\ Reply(h, t.code)
    /\ UNCHANGED <<disk, row, deletes>>

(* cancel_chunked_upload: without a session the files still go. *)
ReadForCancel(h) ==
    LET t == handler[h] IN
    /\ At(h, "read") /\ t.op = "cancel"
    /\ Goto(h, IF session[t.upload] = None THEN "abandon" ELSE "clear")
    /\ UNCHANGED <<session, disk, row, client, deletes>>

-----------------------------------------------------------------------------
(* upload_map_3d_model, store_bytes *)

(* tokio::fs::write truncates a local file, then writes it. *)
OverwriteLocal(h) ==
    LET t == handler[h] IN
    /\ Local /\ At(h, "overwrite")
    /\ file' = [file EXCEPT ![Live] = <<>>]
    /\ Become(h, [t EXCEPT !.pc = "fill", !.linked = TRUE])
    /\ UNCHANGED <<session, tmp, row, client, deletes>>

FillLocal(h) ==
    LET t == handler[h] IN
    /\ At(h, "fill")
    /\ file' = IF t.linked
               THEN [file EXCEPT ![Live] = WriteAt(@, 0, <<t.upload, 0>>)]
               ELSE file
    /\ Goto(h, "row")
    /\ UNCHANGED <<session, tmp, row, client, deletes>>

PutBytes(h) ==
    LET t == handler[h] IN
    /\ ~Local /\ At(h, "overwrite")
    /\ file' = [file EXCEPT ![Live] = Whole(t.upload)]
    /\ Goto(h, "row")
    /\ UNCHANGED <<session, tmp, row, client, deletes>>

-----------------------------------------------------------------------------
(* delete_map_3d_model *)

RequestDelete(h) ==
    /\ deletes < MaxDeletes
    /\ At(h, "idle")
    /\ "two_admins" \in Faults \/ \A u \in Uploads : Over(u)
    /\ Become(h, [Idle EXCEPT !.pc = "read"])
    /\ deletes' = deletes + 1
    /\ UNCHANGED <<session, disk, row, client>>

ReadRow(h) ==
    /\ At(h, "read") /\ handler[h].op = "delete"
    /\ IF row = None THEN Become(h, Idle) ELSE Goto(h, "unlink")
    /\ UNCHANGED <<session, disk, row, client, deletes>>

DeleteFile(h) ==
    /\ At(h, "unlink")
    /\ file' = [file EXCEPT ![Live] = None]
    /\ handler' = [Unlinked(Live) EXCEPT ![h].pc = "unrow"]
    /\ UNCHANGED <<session, tmp, row, client, deletes>>

DeleteRow(h) ==
    /\ At(h, "unrow")
    /\ row' = None
    /\ Become(h, Idle)
    /\ UNCHANGED <<session, disk, client, deletes>>

-----------------------------------------------------------------------------
(***************************************************************************)
(* A call of the handler fails.  Each place has the answer its code gives; *)
(* errors of set_ex, del, remove_file and remove_dir_all are ignored.      *)
(***************************************************************************)
IoFails(h) ==
    LET t == handler[h] IN
    /\ "io_error" \in Faults
    /\ \/ /\ t.pc \in {"put", "mkdir", "open", "write", "record",
                       "overwrite", "fill", "unrow"}
          /\ Reply(h, "error")
       \/ t.pc = "row" /\ t.op = "single" /\ Reply(h, "error")
       \/ t.pc = "record" /\ Reply(h, "ok")
       \/ /\ t.pc = "read" /\ t.op # "cancel"
          /\ Reply(h, "missing")
       \/ t.pc = "forget" /\ Reply(h, t.code)
       \/ t.pc = "abandon" /\ Reply(h, t.code)
       \/ /\ \/ /\ t.pc \in {"create", "copy", "verify", "store"}
                /\ Become(h, [t EXCEPT !.pc = "abandon", !.code = "error"])
             \/ t.pc = "row" /\ t.op = "complete"
                /\ Become(h, [t EXCEPT !.pc = "clear", !.code = "error"])
             \/ t.pc = "put" /\ Goto(h, "mkdir")
             \/ t.pc = "read" /\ t.op = "cancel" /\ Goto(h, "abandon")
             \/ t.pc = "discard"
                /\ Become(h, [t EXCEPT !.pc = "abandon", !.code = "error"])
             \/ t.pc = "clear" /\ Goto(h, "forget")
             \/ t.pc = "unlink" /\ Goto(h, "unrow")
          /\ UNCHANGED client
    /\ UNCHANGED <<session, disk, row, deletes>>

(* A restart meets a request of the upload, or the deletion of its row. *)
Struck(u) == \/ client[u].waits # None
             \/ row = u /\ \E h \in Handlers : At(h, "unrow")

(* Every request in flight is lost and its client sees the connection go. *)
Restart ==
    /\ "crash" \in Faults
    /\ ~Quiet
    /\ handler' = [h \in Handlers |-> Idle]
    /\ client' = [u \in Uploads |->
                    [(IF client[u].waits = None THEN client[u]
                      ELSE Failed(client[u], client[u].phase # "initiate"))
                        EXCEPT !.broken = @ \/ Struck(u)]]
    /\ UNCHANGED <<session, disk, row, deletes>>

(* The 24 h of the key, which every recorded chunk starts again. *)
Expire(u) ==
    /\ session[u] # None
    /\ ~Working(u)
    /\ Over(u) \/ "slow" \in Faults
    /\ session' = [session EXCEPT ![u] = None]
    /\ client' = [client EXCEPT ![u].broken = @ \/ ~Over(u)]
    /\ UNCHANGED <<disk, row, handler, deletes>>

\* Mutant: the cleaner takes only directories whose session is alive.
CleanupStaleLive(u) ==
    /\ tmp[u] # None /\ session[u] # None /\ ~Working(u) /\ Over(u)
    /\ tmp' = [tmp EXCEPT ![u] = None]
    /\ file' = [file EXCEPT ![u] = None]
    /\ UNCHANGED <<session, row, handler, client, deletes>>

(* cleanup_stale_uploads: 48 h without a new file, so no session is left. *)
CleanupStale(u) ==
    /\ tmp[u] # None
    /\ session[u] = None
    /\ ~Working(u)
    /\ Over(u) \/ "slow" \in Faults
    /\ tmp' = [tmp EXCEPT ![u] = None]
    /\ file' = [file EXCEPT ![u] = None]
    /\ UNCHANGED <<session, row, handler, client, deletes>>

-----------------------------------------------------------------------------
Upload(h) ==
    StoreSession(h) \/ MakeDirectory(h) \/ ReadForChunk(h) \/ OpenChunk(h)
    \/ WriteChunk(h) \/ RecordChunk(h)
Complete(h) ==
    ReadForComplete(h) \/ CreateTarget(h) \/ CopyChunk(h) \/ VerifySize(h)
    \/ Discard(h) \/ PutObject(h) \/ UpsertRow(h)
Finish(h) == CleanupTemp(h) \/ DeleteSession(h) \/ ReadForCancel(h)
SingleShot(h) == OverwriteLocal(h) \/ FillLocal(h) \/ PutBytes(h)
Delete(h) == ReadRow(h) \/ DeleteFile(h) \/ DeleteRow(h)
Handle(h) ==
    Upload(h) \/ Complete(h) \/ Finish(h) \/ SingleShot(h) \/ Delete(h)

Next ==
    \/ \E u \in Uploads :
          \/ Begin(u) \/ GivesUp(u) \/ Abort(u)
          \/ Expire(u) \/ CleanupStale(u)
          \/ \E h \in Handlers : Send(u, h)
    \/ \E h \in Handlers : Handle(h) \/ RequestDelete(h) \/ IoFails(h)
    \/ Restart

Spec == Init /\ [][Next]_vars

(***************************************************************************)
(* The runtime polls every handler, an open page sends its next request,   *)
(* Redis drops keys and the cleaner runs every hour.  Nobody has to begin  *)
(* an upload, and no fault has to happen.                                  *)
(***************************************************************************)
Fairness ==
    /\ \A h \in Handlers : WF_vars(Handle(h))
    /\ \A u \in Uploads : /\ WF_vars(\E h \in Handlers : Send(u, h))
                          /\ WF_vars(Expire(u))
                          /\ WF_vars(CleanupStale(u))

FairSpec == Spec /\ Fairness

-----------------------------------------------------------------------------
(* Every variable has its type; offsets stay within the largest upload. *)
TypeOK ==
    /\ session \in [Uploads -> (SUBSET Chunk) \union {None}]
    /\ tmp \in [Uploads -> [Chunk -> FileState] \union {None}]
    /\ file \in [Targets -> Content \union {None}]
    /\ row \in Uploads \union {None}
    /\ handler \in [Handlers -> Handler]
    /\ client \in [Uploads -> Client]
    /\ deletes \in 0..MaxDeletes

Stored(u) == IF tmp[u] = None THEN {}
             ELSE {i \in Chunk : tmp[u][i] # "absent"}
Filled(u) == IF tmp[u] = None THEN {}
             ELSE {i \in Chunk : tmp[u][i] = "whole"}

(***************************************************************************)
(* While a client sends chunks, every chunk its session records is on disk *)
(* with all its bytes, through crashes and failed calls: upload_chunk      *)
(* writes first and records afterwards.  Once the client gave up on a      *)
(* request, that request may still truncate a chunk which its retry wrote  *)
(* and recorded (and a crash may leave it so): then the file is there, but *)
(* it may be empty.                                                        *)
(***************************************************************************)
RecordedIsStored ==
    \A u \in Uploads :
        client[u].phase = "chunk" /\ session[u] # None
            => /\ session[u] \subseteq Stored(u)
               /\ ~client[u].late => session[u] \subseteq Filled(u)

(***************************************************************************)
(* A chunk the client was told is received is recorded as long as the      *)
(* session lives, so that complete_chunked_upload does not miss it, unless *)
(* the client once stopped waiting for a request that ran on.              *)
(***************************************************************************)
AckedIsRecorded ==
    \A u \in Uploads :
        LET c == client[u] IN
        c.phase \in {"chunk", "complete"} /\ session[u] # None /\ ~c.late
            => 0..(c.next - 1) \subseteq session[u]

Succeeds(u) == client[u].phase # "done" /\ client'[u].phase = "done"

(***************************************************************************)
(* The client hears of success only when the row and the stored object are *)
(* its upload's, unless a request that was given up on is at them too.     *)
(***************************************************************************)
Acknowledged ==
    [][\A u \in Uploads :
          Succeeds(u) /\ (\A v \in Uploads : ~client[v].late)
              => row' = u /\ file'[Live] = Whole(u)]_vars

(***************************************************************************)
(* What the site serves is never part of an upload nor parts of several:   *)
(* complete_chunked_upload verifies the assembled file before storing it.  *)
(***************************************************************************)
ServedWhole ==
    file[Live] = None \/ \E u \in Uploads : file[Live] = Whole(u)

(* What the site serves: an upload, nothing, or a file that is neither. *)
served == IF file[Live] = None THEN None
          ELSE IF \E u \in Uploads : file[Live] = Whole(u)
               THEN CHOOSE u \in Uploads : file[Live] = Whole(u)
               ELSE "torn"
delivered == {u \in Uploads : /\ client[u].phase # "new"
                              /\ u \in Singles \/ client[u].next = ChunksOf[u]}

(***************************************************************************)
(* Over the R2 backend a model is replaced in one step by an upload whose  *)
(* every chunk was acknowledged, and disappears only when it is deleted.   *)
(***************************************************************************)
Shelf == INSTANCE ModelShelf WITH shelf <- served, sent <- delivered
ImplementsShelf == Shelf!Spec

Undisturbed == \A u \in Uploads : ~client[u].late /\ ~client[u].broken

(***************************************************************************)
(* Every upload ends, successfully or not, whatever its requests meet: the *)
(* attempts are counted at every step of uploadFileChunked.  It ends with  *)
(* its model published unless somebody gave up on a request of it or of    *)
(* another, or a restart met one: no interleaving of a client with its own *)
(* requests or with those before it loses a chunk.  Its temporary files do *)
(* not stay for ever, even when the client vanishes, the backend restarts  *)
(* or a removal fails: the session expires and cleanup_stale_uploads takes *)
(* the directory.                                                          *)
(***************************************************************************)
UploadEnds ==
    /\ \A u \in Uploads :
          ~Over(u) ~> Over(u) /\ (client[u].phase = "done" \/ ~Undisturbed)
    /\ \A u \in Uploads \ Singles : tmp[u] # None ~> tmp[u] = None

(***************************************************************************)
(* When no request is running, the row of a model describes the file that  *)
(* is stored: all of the upload it names and nothing else, unless a client *)
(* gave up on a request that ran on, or the backend was restarted while it *)
(* served one or deleted the row.                                          *)
(***************************************************************************)
RowMatchesFile ==
    Quiet /\ row # None /\ Undisturbed
        => file[Live] = Whole(row)
=============================================================================
