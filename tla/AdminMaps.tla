----------------------------- MODULE AdminMaps ------------------------------
(***************************************************************************)
(* The page of the maps (admin/maps): a searched list of pages, whose rows *)
(* open one of three dialogs.  A save reads its map again and shows it in  *)
(* the dialog, an upload lives in its dialog, open or not, and what a      *)
(* handler does after its answer is what its own render told it to.        *)
(***************************************************************************)
EXTENDS SiteFetch

CONSTANTS MapNames,  \* maps, in the order of the list
          Searches,  \* maps that are searched for
          PageSize   \* PAGE_SIZE

ASSUME AdminMapsAssumption == /\ IsFiniteSet(MapNames)
                              /\ MapNames \subseteq Nat
                              /\ Searches \subseteq MapNames
                              /\ PageSize \in Nat \ {0}
                              /\ None \notin {"metadata", "models", "delete"}

VARIABLES mapsApi,   \* entries (global and server flag), models stored
          board,     \* page, search, its timer, what the list shows
          active,    \* activeDialog: its type, its map, its snapshots
          editor,    \* EditMapDialog and ServerEditor
          uploader,  \* ManageModelsDialog
          crossed    \* history: two reads overlapped, one failed, or one
                     \* was for a page that is not shown any more

mapsVars == <<mapsApi, board, active, editor, uploader, crossed>>

Flags == {"true", "false"}
Resolutions == {"low", "high"}

BoolToTri(v) == IF v = None THEN "null" ELSE v
TriToBool(t) == IF t = "null" THEN None ELSE t

-----------------------------------------------------------------------------
Stored(api) == {m \in MapNames : api.entries[m] # None}
Found(api, search) == {m \in Stored(api) : search \in {None, m}}

(* The API's page, and its total: that of the first row, so 0 without one. *)
Listing(api, key) ==
    LET hits == Found(api, key.search)
        rank(m) == Cardinality({h \in hits : h <= m})
        of   == {m \in hits : /\ (key.page - 1) * PageSize < rank(m)
                              /\ rank(m) <= key.page * PageSize}
    IN  [of |-> key, entries |-> [m \in of |-> api.entries[m]],
         total |-> IF of = {} THEN 0 ELSE Cardinality(hits)]

Pages(count) == (count + PageSize - 1) \div PageSize

ListKey == [page |-> board.page, search |-> board.debounced]

(* n: the click it comes from. *)
MapsRequest(what, m, arg, n, key) ==
    Request(what, m, arg, [n |-> n, key |-> key])

ReadList(key, n) == MapsRequest("list", None, None, n, key)
ReadModels(n) == MapsRequest("models", None, None, n, ListKey)

Reads(c) == {k \in c : k.what = "list"}

(* The list is read again. *)
FetchMetadata(key, n) ==
    /\ calls' = calls \cup {ReadList(key, n)}
    /\ crossed' = (crossed \/ Reads(calls) # {})
    /\ UNCHANGED <<lost, doubt>>

NoDialog == [type |-> None, map |-> None, entry |-> None, has |-> {}]

MapsInit ==
    /\ mapsApi = [entries |-> [m \in MapNames |->
                                 [global |-> None, server |-> "true"]],
                  models |-> {<<m, "low">> : m \in MapNames \ Searches}]
    /\ board = [page |-> 1, search |-> None, debounced |-> None,
                timer |-> "off", shown |-> None, loading |-> TRUE, has |-> {}]
    /\ active = NoDialog
    /\ editor = [of |-> None, global |-> "false", server |-> "null",
                 savingGlobal |-> FALSE, saving |-> FALSE, touched |-> FALSE]
    /\ uploader = [res |-> "low", file |-> FALSE, uploading |-> FALSE,
                   progress |-> FALSE, controller |-> FALSE]
    /\ crossed = FALSE

(* Mounted: it reads its list and the models. *)
MapsReads == {Request(what, None, None,
                      [n |-> 0, key |-> [page |-> 1, search |-> None]])
                : what \in {"list", "models"}}

-----------------------------------------------------------------------------
HandleSearchChange ==
    /\ active.type = None /\ Click
    /\ \E s \in Searches \cup {None} :
         /\ s # board.search
         /\ board' = [board EXCEPT !.search = s, !.timer = "on"]
    /\ UNCHANGED <<mapsApi, active, editor, uploader, crossed, fetchVars>>

(* 350 ms later; the list is read when that changes anything. *)
SearchSettles ==
    LET key == [page |-> 1, search |-> board.search]
    IN  /\ board.timer = "on" /\ Alone
        /\ board' = [board EXCEPT !.page = 1, !.debounced = board.search,
                       !.timer = "off", !.loading = @ \/ key # ListKey]
        /\ IF key = ListKey THEN UNCHANGED <<crossed, fetchVars>>
                            ELSE FetchMetadata(key, clicks)
        /\ UNCHANGED <<mapsApi, active, editor, uploader>>

(* Mutant: "previous" is not disabled on the first page. *)
TurnPagePast ==
    /\ active.type = None /\ board.shown # None /\ Click
    /\ Pages(board.shown.total) > 1
    /\ \E p \in {board.page - 1, board.page + 1} :
         /\ p <= Pages(board.shown.total)
         /\ board' = [board EXCEPT !.page = p, !.loading = TRUE]
         /\ FetchMetadata([ListKey EXCEPT !.page = p], clicks')
    /\ UNCHANGED <<mapsApi, active, editor, uploader>>

(* The pagination shows while there is more than one page. *)
TurnPage ==
    /\ active.type = None /\ board.shown # None /\ Click
    /\ Pages(board.shown.total) > 1
    /\ \E p \in {board.page - 1, board.page + 1} :
         /\ p \in 1..Pages(board.shown.total)
         /\ board' = [board EXCEPT !.page = p, !.loading = TRUE]
         /\ FetchMetadata([ListKey EXCEPT !.page = p], clicks')
    /\ UNCHANGED <<mapsApi, active, editor, uploader>>

(* The effect of EditMapDialog: whenever it is given another entry. *)
Filled(m, entry) ==
    editor' = [editor EXCEPT !.of = m, !.touched = FALSE,
                 !.global = IF entry.global = None THEN "false"
                                                   ELSE entry.global,
                 !.server = BoolToTri(entry.server)]

(* Mutant: an upload of before is forgotten. *)
RefilledFreed(r) ==
    uploader' = [uploader EXCEPT !.res = r, !.file = FALSE, !.progress = FALSE,
                                 !.controller = FALSE, !.uploading = FALSE]

(* The effect of ManageModelsDialog on its open, resolution and model. *)
Refilled(r) ==
    uploader' = [uploader EXCEPT !.res = r, !.file = FALSE, !.progress = FALSE,
                                 !.controller = FALSE]

OpensAs(type, m) ==
    active' = [type |-> type, map |-> m, entry |-> board.shown.entries[m],
               has |-> {x \in board.has : x[1] = m}]

(* The menu of a card. *)
OpenMapDialog ==
    /\ active.type = None /\ ~board.loading /\ board.shown # None /\ Click
    /\ \E m \in DOMAIN board.shown.entries :
         \/ /\ OpensAs("metadata", m)
            /\ Filled(m, board.shown.entries[m])
            /\ UNCHANGED uploader
         \/ /\ OpensAs("models", m)
            /\ Refilled(uploader.res)
            /\ UNCHANGED editor
         \/ /\ OpensAs("delete", m)
            /\ UNCHANGED <<editor, uploader>>
    /\ UNCHANGED <<mapsApi, board, crossed, fetchVars>>

(* Escape and a click beside it close it, whatever it does; a ServerEditor *)
(* that is opened again does not know that it saves.                       *)
CloseMapDialog ==
    /\ active.type # None /\ Click
    /\ active' = NoDialog
    /\ editor' = [editor EXCEPT !.saving = FALSE]
    /\ UNCHANGED <<mapsApi, board, uploader, crossed, fetchVars>>

(* Inherited, yes or no. *)
EditForm ==
    /\ active.type = "metadata" /\ Click
    /\ \E t \in (Flags \cup {"null"}) \ {editor.server} :
         editor' = [editor EXCEPT !.server = t, !.touched = TRUE]
    /\ UNCHANGED <<mapsApi, board, active, uploader, crossed, fetchVars>>

Saves(what, value) ==
    /\ active.type = "metadata" /\ Click
    /\ Send(MapsRequest(what, active.map, value, clicks', ListKey))
    /\ UNCHANGED <<mapsApi, board, active, uploader, crossed>>

HandleSaveGlobal ==
    /\ ~editor.savingGlobal
    /\ Saves("global", editor.global)
    /\ editor' = [editor EXCEPT !.savingGlobal = TRUE]

(* Of ServerEditor. *)
HandleSave ==
    /\ ~editor.saving
    /\ Saves("server", TriToBool(editor.server))
    /\ editor' = [editor EXCEPT !.saving = TRUE]

ConfirmDeleteMap ==
    /\ active.type = "delete" /\ Click
    /\ Send(MapsRequest("delete", active.map, None, clicks', ListKey))
    /\ UNCHANGED <<mapsApi, board, active, editor, uploader, crossed>>

(* The tab of the resolution, a file. *)
ChooseModel ==
    /\ active.type = "models" /\ Click
    /\ \/ \E r \in Resolutions \ {uploader.res} : Refilled(r)
       \/ uploader' = [uploader EXCEPT !.file = TRUE]
    /\ UNCHANGED <<mapsApi, board, active, editor, crossed, fetchVars>>

(* In chunks, which can be cancelled, or at once. *)
HandleUpload ==
    /\ active.type = "models" /\ uploader.file /\ ~uploader.uploading /\ Click
    /\ \E chunked \in BOOLEAN :
         uploader' = [uploader EXCEPT !.uploading = TRUE, !.progress = FALSE,
                                      !.controller = chunked]
    /\ Send(MapsRequest("upload", active.map, uploader.res, clicks', ListKey))
    /\ UNCHANGED <<mapsApi, board, active, editor, crossed>>

(* A chunk arrived: the progress and the button to cancel are shown. *)
UploadProgresses ==
    /\ uploader.uploading /\ ~uploader.progress /\ uploader.controller /\ Alone
    /\ uploader' = [uploader EXCEPT !.progress = TRUE]
    /\ UNCHANGED <<mapsApi, board, active, editor, crossed, fetchVars>>

(* The upload is aborted wherever it is; its tries are over. *)
HandleCancelUpload ==
    /\ active.type = "models" /\ uploader.progress /\ Click
    /\ \E k \in calls :
         /\ k.what = "upload"
         /\ calls' = (calls \ {k}) \cup
                       {[k EXCEPT !.state = "refused", !.try = Tries[page]]}
    /\ UNCHANGED <<mapsVars, lost, doubt>>

(* The dialog closes before the question is asked. *)
HandleDeleteModel ==
    /\ active.type = "models" /\ Click
    /\ <<active.map, uploader.res>> \in active.has
    /\ active' = NoDialog
    /\ \/ UNCHANGED calls
       \/ calls' = calls \cup {MapsRequest("drop", active.map, uploader.res, clicks',
                                     ListKey)}
    /\ UNCHANGED <<mapsApi, board, editor, uploader, crossed, lost, doubt>>

-----------------------------------------------------------------------------
SetFlag(k, field) ==
    mapsApi' = [mapsApi EXCEPT !.entries[k.of] =
                  IF @ = None THEN None ELSE [@ EXCEPT ![field] = k.arg]]

(* Reads see what is stored; the settings of a server need the map. *)
ServeMaps(k) ==
    /\ k.state = "sent" /\ Alone
    /\ Serves(k, IF k.what = "server" /\ mapsApi.entries[k.of] = None
                 THEN "refused" ELSE "ok",
              IF k.what \in {"list", "find", "models"} THEN mapsApi ELSE None)
    /\ CASE k.what = "global" -> SetFlag(k, "global")
         [] k.what = "server" -> SetFlag(k, "server")
         [] k.what = "delete" -> mapsApi' = [mapsApi EXCEPT
                                               !.entries[k.of] = None]
         [] k.what = "upload" -> mapsApi' = [mapsApi EXCEPT
                                               !.models = @ \cup {<<k.of, k.arg>>}]
         [] k.what = "drop"   -> mapsApi' = [mapsApi EXCEPT
                                               !.models = @ \ {<<k.of, k.arg>>}]
         [] OTHER -> UNCHANGED mapsApi
    /\ UNCHANGED <<board, active, editor, uploader, crossed>>

(* The handler goes on with another request. *)
Follows(k, next) ==
    /\ k.state # "sent"
    /\ calls' = (calls \ {k}) \cup next
    /\ UNCHANGED <<lost, doubt>>

ListAnswered(k) ==
    /\ k.what = "list"
    /\ Follows(k, {})
    /\ board' = IF k.state = "ok"
                THEN [board EXCEPT !.loading = FALSE,
                                   !.shown = Listing(k.got, k.saw.key)]
                ELSE [board EXCEPT !.loading = FALSE]
    /\ crossed' = (crossed \/ k.state # "ok")
    /\ UNCHANGED <<active, editor, uploader>>

(* fetchModels; after an upload it closes whatever dialog is open by then. *)
ModelsAnswered(k) ==
    /\ k.what = "models"
    /\ Follows(k, {})
    /\ board' = IF k.state = "ok" THEN [board EXCEPT !.has = k.got.models]
                                  ELSE board
    /\ active' = IF k.arg = "saved" THEN NoDialog ELSE active
    /\ UNCHANGED <<editor, uploader, crossed>>

(* refreshCurrentMap, of the render that saved. *)
SaveAnswered(k) ==
    /\ k.what \in {"global", "server"}
    /\ Follows(k, IF k.state # "ok" THEN {}
                  ELSE {[ReadList(k.saw.key, k.saw.n) EXCEPT
                           !.what = "find", !.of = k.of]})
    /\ editor' = IF k.what = "global" THEN [editor EXCEPT !.savingGlobal = FALSE]
                                      ELSE [editor EXCEPT !.saving = FALSE]
    /\ UNCHANGED <<board, active, uploader, crossed>>

(* It shows the map that was saved, also when its dialog was closed or     *)
(* another one opened meanwhile.                                           *)
FoundAgain(k) ==
    /\ k.what = "find"
    /\ Follows(k, {ReadList(k.saw.key, k.saw.n)})
    /\ IF k.state = "ok" /\ k.of \in Stored(k.got)
       THEN /\ active' = [NoDialog EXCEPT !.type = "metadata", !.map = k.of,
                            !.entry = k.got.entries[k.of]]
            /\ Filled(k.of, k.got.entries[k.of])
       ELSE UNCHANGED <<active, editor>>
    /\ board' = [board EXCEPT !.loading = TRUE]
    /\ crossed' = (crossed \/ Reads(calls) # {} \/ k.saw.key # ListKey)
    /\ UNCHANGED uploader

(* Mutant: the list is not read again. *)
MapDeletedUnread(k) ==
    /\ k.what = "delete"
    /\ Follows(k, {})
    /\ active' = IF k.state = "ok" THEN NoDialog ELSE active
    /\ UNCHANGED <<board, editor, uploader, crossed>>

MapDeleted(k) ==
    /\ k.what = "delete"
    /\ IF k.state = "ok"
       THEN /\ Follows(k, {ReadList(k.saw.key, k.saw.n)})
            /\ active' = NoDialog
            /\ board' = [board EXCEPT !.loading = TRUE]
            /\ crossed' = (crossed \/ Reads(calls) # {} \/ k.saw.key # ListKey)
       ELSE Follows(k, {}) /\ UNCHANGED <<active, board, crossed>>
    /\ UNCHANGED <<editor, uploader>>

UploadAnswered(k) ==
    /\ k.what = "upload"
    /\ Follows(k, IF k.state # "ok" THEN {}
                  ELSE {[ReadModels(k.saw.n) EXCEPT !.arg = "saved"]})
    /\ uploader' = [uploader EXCEPT !.uploading = FALSE, !.progress = FALSE,
                                    !.controller = FALSE]
    /\ UNCHANGED <<board, active, editor, crossed>>

DropAnswered(k) ==
    /\ k.what = "drop"
    /\ Follows(k, IF k.state # "ok" THEN {} ELSE {ReadModels(k.saw.n)})
    /\ UNCHANGED <<board, active, editor, uploader, crossed>>

MapsAnswered(k) ==
    /\ Alone
    /\ \/ ListAnswered(k) \/ ModelsAnswered(k) \/ SaveAnswered(k)
       \/ FoundAgain(k) \/ MapDeleted(k) \/ UploadAnswered(k)
       \/ DropAnswered(k)
    /\ UNCHANGED mapsApi

MapsNext ==
    \/ HandleSearchChange \/ SearchSettles \/ TurnPage
    \/ OpenMapDialog \/ CloseMapDialog \/ EditForm
    \/ HandleSaveGlobal \/ HandleSave \/ ConfirmDeleteMap
    \/ ChooseModel \/ HandleUpload \/ UploadProgresses \/ HandleCancelUpload
    \/ HandleDeleteModel
    \/ \E k \in calls : \/ ServeMaps(k) \/ MapsAnswered(k)
                        \/ (Troubles(k) /\ UNCHANGED mapsVars)

MapsAnswers == \E k \in calls : ServeMaps(k) \/ MapsAnswered(k)

(* While the list is a skeleton. *)
MapsWaits == board.loading

-----------------------------------------------------------------------------
MapsTypeOK ==
    /\ board.page = 1 \/ board.page \in 1..Cardinality(MapNames)
    /\ {board.search, board.debounced} \subseteq MapNames \cup {None}
    /\ active.type \in {"metadata", "models", "delete", None}
    /\ active.map \in MapNames \cup {None}
    /\ editor.server \in Flags \cup {"null"} /\ editor.global \in Flags
    /\ mapsApi.models \subseteq MapNames \X Resolutions
    /\ uploader.res \in Resolutions
    /\ crossed \in BOOLEAN

(* Once everything is answered the list is the stored page of the search   *)
(* that is typed, whatever was saved and deleted meanwhile.  Nothing       *)
(* aborts a read, so it holds until two of them overlapped or a save       *)
(* outlived its page.                                                      *)
MapsListIsStored ==
    (page = "maps" /\ calls = {} /\ board.timer = "off" /\ ~crossed
       /\ doubt = {})
      => board.shown = Listing(mapsApi, [page |-> board.page,
                                         search |-> board.search])

(* The form that would be saved is that of the map in the dialog, also     *)
(* when an answer puts another map into an open dialog; and an override    *)
(* nobody touched is saved as it was.                                      *)
FormIsOfItsMap ==
    active.type = "metadata" =>
        /\ editor.of = active.map
        /\ ~editor.touched => TriToBool(editor.server) = active.entry.server

(* The page uploads one model at a time and knows that it does, also when  *)
(* the dialog is closed and opened for another map, and sends one save of  *)
(* the global settings at a time.                                          *)
OneAtATime ==
    page = "maps" =>
      /\ uploader.uploading <=> \E k \in calls : k.what = "upload"
      /\ \A k, l \in calls :
           k.what = l.what /\ k.what \in {"upload", "global"} => k = l

(***************************************************************************)
(* The page of the maps shows what is stored, saves what it shows and does *)
(* one thing of a kind at a time, although its answers open, replace and   *)
(* close dialogs that were opened after the click they belong to.          *)
(***************************************************************************)
MapsInStep == MapsListIsStored /\ FormIsOfItsMap /\ OneAtATime
=============================================================================
