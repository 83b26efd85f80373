# ZE Graph: models and proofs

TLA+ models of *gfl-ze-watcher* ("ZE Graph"), the site that tracks Zombie Escape
servers, with the TLC runs that check them and the TLAPS proofs about them. Paths
are relative to the root of the repository: the backend is `src/`, the website
`front-gfl/`, the schema `db.sql`.

## 1. The system

| Part | State | Operations | Interacts with |
|---|---|---|---|
| Playtime aggregation (`src/core/workers.rs`, `src/core/utils.rs`) | `website.player_map_time`, `player_server_worker`, `player_playtime`; the Redis lock `lock:player_map_time:<server>:<player>` | `acquire_redis_lock`, `calculate_db_player_map`, `update_worker_time`, the detail query, `release_redis_lock` | run as background tasks of the worker; sessions come from the external scraper |
| Background worker and cache (`src/core/workers.rs`) | moka (60 s), Redis, `active_tasks`, the heavy semaphore | `get_with_fallback`, `spawn_refresh_task`, `try_cache_lookup`, `cache_result` | every page of a player or map goes through it; the page polls while the answer is "Still calculating" |
| 3D model upload (`src/routers/maps.rs`, `src/core/map_storage.rs`) | `upload_session:<id>` in Redis, `.tmp/<id>/chunk_N`, the stored file or R2 object, `website.map_3d_model` | initiate, chunk, complete, cancel, single-shot upload, delete | the browser (`front-gfl/utils/uploadUtils.ts`), through Next.js routes that do not forward an abort; the cleaner in `src/core/updater.rs` |
| Map notifications (`src/core/updater.rs`, `src/core/push_service.rs`, `src/routers/accounts.rs`) | `push_subscriptions`, `map_change_subscriptions`, `map_notify_subscriptions`; the LISTEN connection | subscribe, unsubscribe, the `map_changed` listener, `send_map_change_notifications` | trigger `notify_map_activity`; the browsers' push services; a pg_cron job |
| Character model upload (`src/routers/characters.rs`) | as for maps, keyed by server and model | as for maps | as for maps |
| Guides, comments, votes (`src/routers/maps.rs`, triggers in `db.sql`) | guides, votes, comments, bans; brief rows cached for 60 s | create, vote, comment, delete, ban | triggers recount on every row; foreign keys cascade; PostgreSQL ends deadlocks |
| Server requests (`src/routers/accounts.rs`) | `server_requests`, `community`, `server_browser` | submit, approve, reject | the scraper tracks what is in `server_browser` |
| `cached_response` (`src/core/utils.rs`) | moka (60 s) and Redis | look up, query, keep in both | the announcements' listing, the session keys of players, existence checks, marks |
| Announcements (`src/routers/accounts.rs`, `src/routers/misc.rs`) | `website.announce` | create, update, delete, list | the listing is cached for an hour; the admins' dialog sends all fields |
| Update listener (`src/core/updater.rs`) | its connection, tasks that sleep; a mark in Redis | `listen_new_update`, `maps_updater`, `recent_players_updater` | calls the backend's own endpoints to warm the cache |
| Website: requests (`front-gfl/utils/generalUtils.ts`, `lib/apiProxy.ts`, `utils/uploadUtils.ts`) | attempts of each request | `fetchUrl`, its retries and rate limits, the proxies of `app/api` | every page; the backend |
| Website: radar, lists, charts, server page, map search | React state, timers, requests under way | pick, page, zoom, play, search, favourite | `/radars`, `/graph`, `/servers` |
| Website: guides and comments | forms, lists and votes, some shown before they are stored | write, move, vote, post, edit, delete, report | the guides' API |
| Website: 3D viewer (`components/maps/MapViewer3D.tsx`) | the scene useGLTF keeps, `localStorage`, mode, keys, pointer lock | open, traverse, strip, move, climb, change mode | the browser's pointer lock and keyboard |
| Website: admin pages (`app/admin/`) | tables, dialogs, uploads | filter, page, open, save, delete, upload | the admin endpoints |
| Website: account and live feed | the browser's push subscription, switches, the event stream | subscribe, alert, switch, reconnect | service worker, `/accounts/me/push`, `/users/anonymize`, `/events/data-updates` |
| Profile pictures (`pfp-provider/`) | Redis | providers in turn, the last with retries | Steam and three sites about it |
| Accounts, roles, music reports, broadcast, donations, radars, graphs, queries | one row per operation | single statements and read-only SQL | – |

What is hard in it: the tokio runtime interleaves handlers and tasks at every
`.await`; few operations use a transaction; Redis values are read, changed in
memory and written back whole; the client retries requests that are still running;
the backend may be redeployed between any two statements; NOTIFY is not durable.
On a page, an effect's answer comes after the effect was run again, a handler
writes with what its own render saw, a timer outlives the state it was started for,
a value is shown before it is stored, and fetchUrl sends a write twice when only its
answer was lost.

What makes each part correct:

- **aggregation**: a session is in the totals once for each map it was played on;
  the worker key never runs ahead of the totals; calculations of one player exclude
  each other; nobody waits for ever.
- **worker**: one calculation per key; no permit is lost; a cached key is served; a
  polling client is answered.
- **upload**: what is served is one whole upload; the row describes it; a chunk the
  client was told of is not forgotten; uploads end and leave nothing behind.
- **notifications**: armed once, pushed at most once, marked once it was tried; no
  row a task has read is skipped.
- **guides**: counts are those of the votes and comments there are; nothing is left of
  what was deleted; bans hold; a slug is refused only where it is taken.
- **announcements**: the cached listing is behind the table by a bounded time.
- **update listener**: a refresh asks for what its event was about; passes are a day
  apart, and skipped only after one that was complete; tasks end.
- **pictures**: a url is whole; nobody is told there is none while a provider has one.
- **server requests**: what is approved is tracked and has one community.
- **pages**: once nothing is under way, what is shown is what was asked for last and
  what the API stores; a form, a dialog or a handler acts on what it shows; no
  spinner, lock or timer stays behind.

`PROJECT.json` lists the hazards with the lines where they bite.

## 2. Modules

| Module | Models | Main state | Actions |
|---|---|---|---|
| `PlayerMapTime` | aggregation of one player on one server | `mapTime`, `lastCalc`, `playtime`, `lock`, `task` | one for each await of the map and detail queries |
| `PlaytimeLedger` | what the totals promise | `total` | `Advance` |
| `PlayerMapTimeProofs` | theorems about `PlayerMapTime` | | |
| `ChunkedUpload` | uploads of one model | `session`, `tmp`, `file`, `row`, `handler`, `client` | one for each await of the handlers, and the client's steps |
| `ModelShelf` | what visitors see of uploads | `shelf`, `sent` | `Receive`, `Publish`, `Withdraw` |
| `BackgroundWorker` | cache lookup, single flight, semaphore | `memory`, `redis`, `active`, `lock`, `permits`, `req`, `task` | one for each await of a request and of a task |
| `MapNotify` | subscriptions and their delivery | `device`, `subs`, `inbox`, `task` | endpoints, listener, one for each await of a task |
| `GuideApi` | guides, comments, votes and bans in the database | `post`, `votes`, `banned`, `call` | requests; one for each statement, and its commit |
| `ServerRequests` | nominations of servers and their review | `nomination`, `community`, `browser`, `review` | submit; one for each statement of a review |
| `FastCache` | `cached_response` | `near` (moka), `far` (Redis), `read` | one for each await of a call; time, eviction |
| `Announcements` | announcements and their listing | `announce`, `edit` | create, delete, the two statements of an update; those of `FastCache` |
| `Updater` | update listener and startup pass | `listener`, `refresh`, `pass` | events, tasks, connections, restarts; those of `FastCache` |
| `ProfilePictures` | pfp-provider | `kept`, `request` | cache, providers, retries |
| `Caches` | what is answered from a cache, together | `cached` | those of `BackgroundWorker` or of one of the four above |
| `Endpoints`, `Backend` | what the three groups of endpoints have in common; the three together | `part` | those of one of the three |
| `Browser`, `SiteFetch` | the tab, the person at it; fetchUrl and its proxies | `page`, `clicks`, `calls` | what pages share |
| `RadarClock` | time bar of the radar | `window`, `cursor`, `isLive`, timers, `layer` | buttons, ticks of the timers |
| `Panels` | lists and charts that read the API | `panel`, `key`, `reads`, what is shown | pick, poll, the ends of reads |
| `GraphRange` | dates of a server's page | `dates`, `bar`, `zoom`, `graph` | toolbar, zoom, sessions, timers, answers |
| `MapSearch` | maps of a server | `box`, `search`, `hearts` | type, choose, sort, love, answers |
| `Comments` | comments and votes | `list`, `buttons`, `ui`, `api` | writes, votes, dialogs, answers |
| `GuideForm` | writing and reading a guide | `at`, `goto`, `form`, `guides` | fields, submit, move, delete, links |
| `ModelScene` | the model of a 3D viewer | `scene`, `cache`, `viewer`, `walks`, `passes` | open, leave, traverse, strip |
| `ViewerControls` | moving through it | `mode`, `held`, `moves`, `walker`, `pointer` | keys, mouse, frames, modes |
| `AdminTable` | nine admin tables and their dialogs | `rows`, `listed`, `dialog`, `refreshing` | filter, open, save, answers |
| `AdminMaps` | admin page of the maps | `board`, `active`, `editor`, `uploader`, `mapsApi` | search, page, edit, upload, answers |
| `PushClient` | push subscription and alerts of a browser | `device`, `stored`, `hook`, `button` | subscribe, alert, leave, prefer |
| `Consent` | anonymization switches | `kept`, `switches`, `setting` | toggle, drawing again, answers |
| `LiveFeed` | the live page | `streams`, `timers`, `feed` | open, fail, reconnect, leave |
| `Website` | the tab: one page of the above | all of them | `Next`, `Answers` |
| `PagesProofs` | invariants of radar, graph, lists, 3D viewer, live feed, map search, admin tables and maps, and switches; the radar's theorems | | |
| `WebsiteProofs` | invariants of notifications, comments and guides, and the types; theorems about the whole site | | |
| `ChunkedUploadProofs` | theorems about uploads | | |
| `CachesProofs` | theorems about the worker, the cache, the listing, the updater and the pictures | | |
| `MapNotifyProofs`, `ServerRequestsProofs` | theorems about notifications and server requests | | |
| `BackendProofs` | theorems about guides, and about each group in the backend | | |
| `MC...` | instances for TLC: sets of model values, symmetry | | |

Every component has a constant `Faults`, a set of named faults; an action that only
the environment can cause is guarded by its fault, so a run says precisely which
faults its properties survive. Constants named `Max...` and `Num...` are bounds of
the model. Operators whose comment starts with "Mutant" are not part of the
specification: they are plausible bugs, each of which breaks the property it is
paired with in `PROJECT.json`.

### PlayerMapTime

A total is not a duration but, for each map, how often each session was added to it,
which is what double counting and loss are about. Sessions are numbered in the
order in which they start; a player has one session at a time on a server, so
`BETWEEN ended_at AND started_at` over sessions becomes a comparison of numbers.
`Request` is the point where the background worker starts a task: the session key it
carries was looked up, and cached for 120 s, before. `LockSetNx` and `LockSetTtl`
are separate steps because `SETNX` and `EXPIRE` are separate commands. `no_data`,
`start` and `end` are the fields of `LastWorkerCalculate`. The `PLAYER_DEFAULT_KEY`
"first-time" is session 0; casting it to a uuid fails, as in the SQL.
`ImplementsLedger` is the refinement `INSTANCE PlaytimeLedger WITH total <- mapTime`.

### ChunkedUpload

All uploads in the model are of one map and resolution, because uploads of different
models share nothing. A file is the sequence of the chunks that were written to it,
with `None` for a hole, so truncation, interleaved writes and short files are all
visible. A handler keeps the file it opened after the name is gone (`linked`).
`client` follows `uploadFileChunked`, `uploadChunkWithRetry` and `fetchUrl`. An
error answer is retried only for chunks, a 404 and a broken connection for every
request but the initiate, which would create a new session. `GivesUp` is the
client's (or gateway's) timeout: the handler goes on. Over R2 a `put_object` is
atomic; a local file is truncated and filled in place. `ImplementsShelf` maps the
stored object to the `shelf` of `ModelShelf`.

### BackgroundWorker

A key names its session, so whatever is kept under it is an answer: `memory` and
`redis` are the sets of keys they hold. `Spawn` and `Insert`
are separate because `tokio::spawn` may run the task before its handle is inserted,
although the write lock is held throughout. A task that panics goes to "finished"
without removing its entry, as a `JoinHandle` does; its permit is dropped while it
unwinds.

### MapNotify

A row of either table is a record with a key; `None` in a key stands for "any
server" or, for a map change, "any map". UNIQUE constraints are `Conflict`, which is
empty for a NULL server. A task keeps the id and device of the rows it read
(`Item`), not the rows: `Lookup` reads only the device, so a row that was cancelled
meanwhile is still pushed. `tried`, `pushes` and `troubles` are history variables.

### GuideApi, ServerRequests and Backend

A request of `GuideApi` is a record that goes from check to check (`pc`). A statement
with its triggers is a transaction of two steps: it writes its row and counts, on the
snapshot of then ("write"), and stores the count once the row of the post is free
("commit"). What lies between is what READ COMMITTED does not see; rows that block each
other are `Open`, `Erasing` and `Blocked`, and `Abort` is PostgreSQL ending a deadlock.
Guides and comments are one kind of row (`post`), since votes and their triggers are the
same for both; an id is never used again. A title is the counters at its end, which is all
`generate_unique_guide_slug` tells apart. The extractors cache a guide for 60 s, so a
request may be about any post that was ever stored. Histories: `raced` (counts whose last
recount overlapped another), `saw` (guides stored when a slug was looked up) and `pass`
(how a request got past the check of the ban).

A review of `ServerRequests` goes through its statements in the order of the handler, each
of which may be its last; reviews overlap, and a request may be reviewed again, since its
status is not asked. `AsI16` is the cast of the port. `repeated` is a history.

`Backend` puts both and `MapNotify` behind one server. They share no rows, so a behaviour
is one of a single group (`part`): nothing of an interleaving of groups is lost, because a
step of one neither reads nor writes what another has.

### FastCache, Announcements, Updater and ProfilePictures

`FastCache` has time in ticks: a copy has its `age` since the query (a history) and the
ticks it is kept for (`left`), and a call in progress ages with it. moka keeps 60 s from
the insert, whether that is a query's result or a copy that Redis was about to drop, so
the two TTLs add up. A call may be slow at every await, up to `MaxDelay`.

`Announcements` EXTENDS it with the rows the cached query reads. Dates are the ticks to
come until then, 0 when they have passed: a tick brings all of them nearer, and may
publish or expire a row without any statement. `edit` is an update between its SELECT
and its UPDATE. `held` (history) is how long each announcement has been active, or not,
which is what a listing can be behind.

`Updater` EXTENDS `FastCache` with two keys: the last session of a player, which every
page of that player reads first, and the mark of `maps_updater`. A task of the listener
sleeps, then calls the player's endpoints one after the other; a visitor reads the same
key beside it. `listener` is "deaf" when it is connected and LISTEN failed. Restarts empty
memory and stop tasks, and leave Redis alone. Histories: `quiet` (tasks since whose event
nobody else read the key) and `starts` (of passes: when they began, were complete or cut).

`ProfilePictures` numbers the providers in their order, the official API last: it is the
one that retries. A picture is who had it and whether its url is whole.

`Caches` joins these and `BackgroundWorker`. They share no keys, so a behaviour is one of a
single group (`cached`): a step of one neither reads nor writes what another has. The
listener and the pass at startup are two groups, because they use different keys.

### The website

`Browser` has the tab: the page it shows and what the person did there. `SiteFetch` has
the requests of a page as a set: one is `sent`, then served or refused by the API,
then its handler goes on (`Settles`), so that answers come in any order; it may fail
before or after the API did what it asked (`RequestFails`, `AnswerLost`), and is then
sent again as `fetchUrl` does. A request keeps in `saw` what the closure of its handler
keeps of its render, and a timer is `None` or a record of what its closure keeps: that
is where React's stale closures are visible. An effect with its cleanup is part of the
action that changes what it depends on.

Histories (`overlapped`, `raced`, `astray`, `crossed`, `swapped`, `slipped`, `doubt`...)
remember that two requests overlapped or one failed; no action depends on them. Where
the code gives no guarantee for such a behaviour the property excepts it, and says so:
lists of admin pages, for instance, are not guarded against answers out of order.

- `RadarClock` follows `TemporalController`. Time counts half minutes in the run, and
  what a minute and the ten minutes of the default are is a constant: the slider rounds
  its time down to the minute (`WholeMinute`), which may be before the start of a window
  that begins between two. Every minute and every second runs the closure of the render
  that started the timer.
- `Panels` is one protocol for the thirty components that read in an effect. A panel is
  the set of what it does (`aborts`, `guards`, `clears`, `spins`...), and the definition
  of each panel is that set, at the lines of the component: what differs between
  them is exactly what they forget.
- `GraphRange` has the four sources of a range of dates (URL, toolbar, zoom, sessions),
  and the timers of Apply (1 s) and of the zoom (500 ms). Resetting the zoom of the chart
  completes as a zoom does, so it starts that timer too, with the axis of then (`Axis`).
- `GuideForm` follows a guide from the form to the page it leads to; links carry their
  server and whether they have a route. `goto` is what the router was asked for and does
  not show yet: the form is there, and can be sent, until it does.
- `ModelScene` separates the model (`file`), the objects useGLTF shares between viewers
  (`scene`), and the indices in `localStorage` (`cache`). A traversal in chunks goes on
  after its viewer was left.
- `ViewerControls` keeps `held` (keys that are down) apart from `moves` (what the modes
  think is down), and the lock the browser granted from the one the listener heard of.
  Both Shift keys have one flag, and who flies takes no letter while Ctrl is down. `unseen`
  (history) has the flags whose key last changed where the mode's handlers did not take it.
- `Consent` writes a click into the map the cards are drawn from, `kept`, and leaves what
  a card shows, `switches`: the reducer of `useOptimistic` returns the map it was given, so
  React draws nothing until the answer, or until something else draws the cards.
- `AdminTable` is one protocol for the tables, as `Panels` is for lists; `AdminMaps` has
  a page of its own, whose answers open, replace and close dialogs.
- `PushClient` is the other end of `MapNotify`: the banner and a widget of the page have
  one hook each over the one subscription of the browser.
- `Website` joins them: the tab shows one page, `Next` is that page's next step, and
  what the other pages have stays as it is.

## 3. Runs

| Run | Faults | Shows |
|---|---|---|
| `Playtime` | crash, db_error, busy, torn, stale | `TypeOK`, `LockExcludes`, `NothingLost`, `CountsOnce`; refines `PlaytimeLedger` until `spoiled` |
| `PlayerMapTimeEnds` | crash, db_error, slow | `PlaytimeComplete`, `TasksFinish`, `LockKeptFromOthers` |
| `PlayerMapTimeStale` | stale | refutes `NoDoubleCount` |
| `UploadR2` | crash, io_error, chunk_timeout, abort, two_admins | `TypeOK`, `RecordedIsStored`; refines `ModelShelf` |
| `Upload` | crash, both timeouts, abort, slow; local disk | `AckedIsRecorded`, `RowMatchesFile`, `Acknowledged`, `UploadEnds` |
| `UploadTwice` | complete_timeout, R2 | refutes `ServedWhole` |
| `CachesInStep` | all of the worker; redis_down, evict; disconnect, crash, call_fail, db_error, listen_fail; failures of all providers | `CachesTypeOK`, `SingleFlight`, `CachedIsServed`, `NewsInStep`, `UpdatesInStep`, `PicturesInStep` |
| `CachesSettle` | redis_down, db_error, panic; the listener's and the providers' as above | `CachesSettle`, `HeavyBound` (two heavy keys, one permit) |
| `Backend` | burst, disconnect, crash, send_fail, gone, db_error | `BackendTypeOK`, `OncePerChange`, `OneShot`, `GuidesInStep`, `NominationsInStep`, `BackendSettles` |
| `NotifyRearm` | none | refutes `TriggeredWasTried` |
| `Website` | failures, lost answers and rate limits, as many as `Losses` | one property for each page, `PagesSettle` |
| `ModelReopened` | none | refutes `OnlyProblematicRemoved` |

To run one: `tlc -config UploadR2.cfg MCChunkedUpload.tla`.

`Website` checks, of each page:

| Property | Of | Says |
|---|---|---|
| `RadarInStep` | `RadarClock` | playing and live exclude each other; the layer shows the cursor; the cursor is in the window, or less than a minute before it |
| `PanelInStep` | `Panels` | a panel that rests shows what was asked for last; it spins while it waits; an error is of what is selected |
| `GraphInStep` | `GraphRange` | the chart, the toolbar and the page have one range; no zoom replaces a new choice, but the chart's own reset where the choice did not change the source to the toolbar |
| `CommentsInStep` | `Comments` | votes and comments shown are those stored |
| `GuideInStep` | `GuideForm` | a form becomes one guide each time it is sent, of the server it says unless it is on a server's own page, and leads to its page |
| `ViewerInStep` | `ModelScene`, `ViewerControls` | a viewer that is ready shows no problematic object, the first one all good ones (`SceneInStep`); no key sticks where the handlers heard of it, nobody falls off a ladder, the lock that is heard is the one there is (`ControlsInStep`) |
| `AdminInStep` | `AdminTable`, `AdminMaps` | a table shows what is stored; a form saves the row it shows; one save at a time (`TableInStep`); the same of the maps, and one upload at a time (`MapsInStep`) |
| `AccountInStep` | `PushClient`, `Consent` | the browser, the buttons and the API agree; a card shows what the API keeps (`ShowsWhatIsKept`), and that is what was switched (`KeepsWhatWasMeant`) |
| `VisitInStep` | `MapSearch`, `LiveFeed` | the list follows the box; one stream, no event twice |
| `PagesSettle` | all | spinners, forms, dialogs and animations end |

`Backend` checks, beside `OncePerChange` and `OneShot` of the notifications:

| Property | Of | Says |
|---|---|---|
| `GuidesInStep` | `GuideApi` | counts are right unless recounts overlapped, and right again after the next (`CountsRight`); no vote or comment outlives its post (`NoOrphans`); who is banned writes nothing but what was past the check (`BansHold`); a guide is refused only for a slug of another map or one stored meanwhile (`CreatedOrTaken`) |
| `NominationsInStep` | `ServerRequests` | what says approved has a community and its servers in the browser, whoever else reviewed it and whatever failed (`ApprovedIsTracked`); no server without a community (`TrackedHasCommunity`); a second community only by a repeated or overlapping approval (`OneCommunity`) |
| `BackendSettles` | all | every request ends, those that wait for each other's rows too (`CallsEnd`); every row a task read is handled (`EveryRowHandled`) |

Of the caches:

| Property | Of | Says |
|---|---|---|
| `NewsInStep` | `FastCache`, `Announcements` | an answer is at most `MaxAge` old, the two TTLs and three calls, a bound that is reached (`AnswersFresh`); a visitor sees what was hidden or has expired, or misses what is active, no longer than that (`ListFresh`) |
| `UpdatesInStep` | `Updater` | the two minutes a refresh sleeps are exactly as long as the session key is cached, so it asks for the session that ended unless somebody else read the key meanwhile (`QuietRefreshIsCurrent`); passes begin a day apart as long as Redis keeps their mark (`OnePassADay`); one is skipped only after a complete or a cut one (`SkippedWasUpdated`) |
| `PicturesInStep` | `ProfilePictures` | a url is whole (`PicturesAreWhole`, which holds only because Redis is read under another prefix than it is written); no picture is what all providers say (`NoneOnlyAfterAll`) |
| `CachesSettle` | all | a page that polls is answered (`PollingEnds`), a task of the listener ends (`UpdatesEnd`), and so does a request for a picture (`PicturesEnd`) if the official API does not answer 429 for ever, which is retried without a limit (`MaxLimited`) |

A property that some fault breaks is checked without that fault, or names it: `late`
(the client gave up on a request that may run on) in `AckedIsRecorded` and
`Acknowledged`, `troubles` (overlapping changes, restarts and failed queries so far)
in `OneShot` and `BackendSettles`, `kept` (what Redis kept and answered for) in
`CachedIsServed`, `spoiled` in `CountsOnce` and `ImplementsLedger`, `late` and `broken` (a
restart met a request of the upload, or its session expired under it) in
`RowMatchesFile` and `UploadEnds`. These are history variables: no action depends on
them.

`CountsOnce` says how a session can be counted twice at all: after a task stopped
between the upsert of the totals and `update_worker_time` (a restart or a failed query,
since the two are not one transaction), after one outlived its lock, or after one came
with a session key older than what the totals include (cached for 120 s, kept while it
waited for the lock, or overtaken by a first answer that already has the session in
progress). Nothing else does it: not a failure before the upsert, not a torn or a
contended lock.

The four refuted properties are what a comment, a message or the site's own text says,
and what the code does otherwise:

- **stale key** (`workers.rs:1149`, "Incremental delta: add new sessions to existing
  cumulative total"). The key stored is the caller's, even if it is older than the one
  that is there, and the next delta adds the sessions in between again.
- **complete twice** (`maps.rs:2561`, "Verify final file size"). The check and the
  store are separate reads of a file a second complete may truncate in between.
- **re-armed subscription** (`CurrentMatch.tsx:160`, "You will be notified on next map
  change"). The "Wait for Another" button of the push itself (`public/sw.js:41`)
  subscribes again, and the mark of the push may land after it.
- **viewer opened again** (`MapViewer3D.tsx:115`, "Removed ... problematic objects from
  cache"). The cached indices are of a traversal of the whole scene, but useGLTF hands
  the second viewer the scene the first one stripped: good objects are removed.

Other limits of the code are in the models without a run of their own; to see
one, change the cfg or the property as said:

- `NoDoubleCount` with `"crash"` instead of `"stale"` in `PlayerMapTimeStale.cfg`: the
  totals and `last_calculated` are two statements outside a transaction. The other
  direction does hold: nothing is ever lost (`NothingLost`).
- `RowMatchesFile` without its `Undisturbed`: a local file is truncated and filled in
  place, so a restart leaves the old row with a partial file.
- `AckedIsRecorded` without its `~c.late`: a late chunk request writes its old snapshot
  of the session over newer chunks.
- A subscription to a map on any server is inserted again each time (`Conflict`):
  NULLs are distinct in a UNIQUE constraint (`db.sql:683`).
- `CreatedOrTaken` without its exception of other maps: a title that another map has is
  refused with an error every time, because `generate_unique_guide_slug` asks for one map
  and the column is UNIQUE over all (`db.sql:496`).
- `CountsRight` without `raced`: two votes at once may leave a count that misses one of
  them until somebody votes again.
- `OneCommunity` without `repeated`: an approval that failed half-way, and is repeated,
  inserts a second community.
- `ApprovedIsTracked` without its bound on ports: a port from 32768 on is stored as a
  negative number, and its server is never found.
- `PublishedBeforeExpires` of `Announcements`, as an INVARIANT of `CachesInStep.cfg`: an
  update compares the two dates only when both are sent, and an empty expiry is kept from
  the row (`Merged`, `accounts.rs:1494`), so an announcement may be stored as one that is
  published after it expired. For the same reason an edit without an expiry undoes one that
  another admin stored after its SELECT.
- `SkippedWasUpdated` without `cut`: the mark is stored when a pass begins, so one that a
  restart cut off, or whose query failed, counts as done for a day.
- `listener = "deaf"`: a LISTEN that fails is logged and the connection is kept without the
  channel (`updater.rs:160`); nothing is heard until it breaks.
- `KeepsWhatWasMeant` without `~early`: a click on a switch shows nothing until its
  answer (`UserCommunityConnections.tsx:31-33` changes the map in place), and the next click
  sends the old value of the other switch. Anonymize and then, before the answer, Hide Radar
  Location: the second request undoes the first.
- `OneGuidePerForm` without `again`: `setSubmitting(false)` comes right after `router.push`
  (`GuideEditor.tsx:285-292`), which shows the next page some time later; who clicks
  "Create Guide" again in between creates a second guide.
- `ChosenServerIsKept` without its exception of a server's own page: that page is given no
  `serverId`, so a guide "specific to a selected server" (`GuideEditor.tsx:402`) is stored
  for none, and no server is asked for.
- `OldZoomIsForgotten` with only the range that was asked for: after a second "Now" or
  "Apply" in a row, or a click on a session, the chart's own reset is not skipped, and half
  a second later its axis replaces the range, in the way the comment "Race condition where
  newStart/newEnd become stale" (`ServerGraph.tsx:285`) means to prevent.
- `CursorInWindow` with the cursor never before the window: see `WholeMinute`.
- `NoKeySticks` without `unseen`: a key released in another window, or in another mode,
  keeps its flag until it is pressed and released again.
- `RecordedIsStored` with `Filled` also of clients that are `late`: a request that was given
  up on may truncate a chunk that its retry wrote and recorded.
- `PicturesAreWhole` with the prefix of `RedisCache::set` in `ReadPrefix`: see above. As it
  is, no picture is ever found in Redis, and every request asks the providers.

### Bounds

- Aggregation: two tasks, two maps, three sessions, and four refresh tasks in
  all. Two tasks are what it takes to race for a lock; a third session gives a delta
  that is neither the first nor the last; the second session is on both maps, so that a
  row of the totals mixes sessions.
- Upload: two handlers (a running request and its retry, or another admin's), two
  uploads at once or one after the other, of two chunks and of one, two
  attempts at a request, at most one deletion (in `UploadR2`; `Upload` checks
  liveness and has none). Two chunks are the least that can be
  lost, swapped or half copied. `MaxAttempts` stands for the nested 3 x 3.
- Worker: a key and its fallback (in `CachesSettle` two keys that have none, both heavy), two requests and two tasks, one permit, one or two
  failures (of queries and of Redis together: `MaxFailures`; without a bound on them
  nothing need ever be answered). Memory may expire at any time in `CachesInStep`.
- Notifications: two rows of one device, two tasks and two map changes; two changes are
  what it takes to overlap. `NotifyRearm` has two maps and one task.
- Guides: a guide, with and without a comment on it, three users, two requests at a time
  and two or three in all, as `MCMenus` says: a creation with another one, a deletion or a
  ban between its lookup and its insert, on one map or two, with two titles of which one
  ends in a counter; or two requests about posts, of any kind, and one to put a count right or to
  meet what they left. `MaxCalls` also bounds the ids.
- Server requests: two, that share a server, with ports on both sides of 32768; two reviews
  at once and three in all, which is an overlap and a repetition.
- Announcements: one announcement and one reader beside the admin's edit, TTLs of two ticks
  and one, calls of up to one tick, dates one tick ahead; the dialog sends each kind of
  dates (`MCSent`). `held` is counted up to `LongEnough`, more than any answer may be
  behind. With one reader a copy still reaches the age of `MaxAge`; that two do no more is
  proved, without these bounds.
- Update listener: one task, one visitor and two sessions, which is what it takes to answer
  with the wrong one; the sleep and the key are two ticks, the day three; two maps.
  `CachesSettle` has one session and no visitor.
- Pictures: one request after the other of two players, two scrapers and the official API
  (whose key is set), one or two answers 429.
- Website: two to six clicks on a page (`MCMaxClicks`: the most a page needs for its
  hazards, which are two things started before the first is answered and one thing more;
  six open a guide's form, send it, have it fail and leave it again),
  and as many failures as `MCLosses` says, under the same bound. Two of everything that
  can be mixed up (filters, pages, rows, maps, servers, texts), three objects of a scene
  (one that is removed, one before and one behind it), and ranges of four times. The
  radar's clock counts half minutes, so that a window may begin between two minutes. A page is
  opened in every state its visitor can find: each panel, each admin table, each browser
  permission, each set of problematic objects.

Symmetry is used for tasks, requests and upload handlers, and only in runs that
check no liveness.

`CHECK_DEADLOCK FALSE` appears where the system may stop: requests, sessions, uploads,
map changes or clicks run out. The caches never stop, so their runs check for deadlock,
among other things with all requests waiting on one lock and one semaphore.

### Fairness

- Weak fairness of every task and handler: tokio polls what is ready.
- Weak fairness of `LockExpires` and `Expire`: Redis drops expired keys. The cleaner
  runs every hour (`CleanupStale`).
- Weak fairness of `Send`: an open page sends its next request. `Begin`, `Abort` and
  all faults are not fair: nobody has to upload, and nothing has to fail.
- Weak fairness of `Answers` in `Website`: a request of an open page is answered or fails,
  a timer of the browser fires, a promise goes on. No click is fair.
- Weak fairness of `Runs` and `Reconnects` in `Backend`: handlers and tasks that are ready
  are polled, a lock that is free is had, PostgreSQL looks for deadlocks after a second, and
  the listener connects again by itself. Requests, bans, reviews and failures are not fair.
- Weak fairness of tasks, calls and time in `Updater`, and of the steps of a request in
  `ProfilePictures`: a client that waits has an answer or gives up. Events, visits,
  connections, restarts and failures are not fair.
- Strong fairness of the requests and tasks of `BackgroundWorker`: tokio's `RwLock` and `Semaphore` are fair
  queues, so who waits gets a turn although the lock is taken by others again and
  again; and a page that was told to wait asks again.

## 4. Proofs

| Theorem | Module | Statement | For every |
|---|---|---|---|
| `Typing` | `PlayerMapTimeProofs` | `Spec => []TypeOK` | number of tasks, sessions and maps, set of faults |
| `Exclusion` | `PlayerMapTimeProofs` | `Spec => []LockExcludes` | the same |
| `NoSessionLost` | `PlayerMapTimeProofs` | `Spec => []NothingLost` | the same |
| `CountedOnce` | `PlayerMapTimeProofs` | `Spec => []CountsOnce` | the same, with calculations that outlive their lock |
| `LedgerImplemented` | `PlayerMapTimeProofs` | `Spec => ImplementsLedger` | the same, with calculations that outlive their lock |
| `LockIsKept` | `PlayerMapTimeProofs` | `Spec => LockKeptFromOthers` | the same |
| `PlaytimeIsComplete` | `PlayerMapTimeProofs` | `Spec => []PlaytimeComplete` | the same, without `stale`, `busy` and `torn` |
| `WorkerTyping` | `CachesProofs` | `Spec => []TypeOK` | set of keys, requests, tasks and faults, number of permits |
| `OneTaskOfAKey` | `CachesProofs` | `Spec => []SingleFlight` | the same |
| `HeavyIsBounded` | `CachesProofs` | `Spec => []HeavyBound` | the same |
| `KeptIsUsed` | `CachesProofs` | `Spec => CachedIsServed` | the same |
| `UploadTyping` | `ChunkedUploadProofs` | `Spec => []TypeOK` | set of uploads, requests and faults, number of chunks and attempts, both backends |
| `RecordedStays` | `ChunkedUploadProofs` | `Spec => []RecordedIsStored` | the same |
| `AckedStays` | `ChunkedUploadProofs` | `Spec => []AckedIsRecorded` | the same, without `io_error` |
| `ServedIsWhole` | `ChunkedUploadProofs` | `Spec => []ServedWhole` | the same, over R2 and without `complete_timeout` |
| `ShelfImplemented` | `ChunkedUploadProofs` | `Spec => ImplementsShelf` | the same as `ServedIsWhole` |
| `AcknowledgedIsStored` | `ChunkedUploadProofs` | `Spec => Acknowledged` | set of uploads, requests and faults, number of chunks and attempts, both backends, without `two_admins` |
| `RowIsOfFile` | `ChunkedUploadProofs` | `Spec => []RowMatchesFile` | the same, also without `io_error` |
| `UndisturbedSucceeds` | `ChunkedUploadProofs` | `Spec => [](Undisturbed => no client cancels or fails)` | the same as `RowIsOfFile` |
| `RadarTyping` | `PagesProofs` | `RadarSpec => []RadarTypeOK` | choice of ranges and intervals, length of data, clock |
| `RadarStaysInStep` | `PagesProofs` | `RadarSpec => []RadarInStep` | the same |
| `SiteRadar` | `WebsiteProofs` | `Spec => []RadarInStep` | the same, with all other pages and their constants |
| `SiteGraph` | `WebsiteProofs` | `Spec => []GraphInStep` | set of windows, number of clicks, all other pages |
| `SitePanels` | `WebsiteProofs` | `Spec => []PanelInStep` | list or chart, number of pages and filters, all other pages |
| `SiteViewer` | `WebsiteProofs` | `Spec => []ViewerInStep` | model and set of problematic objects, all other pages |
| `SiteVisit` | `WebsiteProofs` | `Spec => []VisitInStep` | set of texts and list pages, number of tries, events and losses, all other pages |
| `SiteAdmin` | `WebsiteProofs` | `Spec => []AdminInStep` | set of rows, filters, maps and searches, size of a page, number of tries, clicks and losses, all other pages |
| `SiteAccount` | `WebsiteProofs` | `Spec => []AccountInStep` | set of endpoints, number of clicks and losses, all other pages |
| `SiteComments` | `WebsiteProofs` | `Spec => []CommentsInStep` | set of comments, number of tries, clicks and losses, all other pages |
| `SiteGuide` | `WebsiteProofs` | `Spec => []GuideInStep` | set of guides, number of tries, clicks and losses, all other pages |
| `SiteTyping` | `WebsiteProofs` | `Spec => []SiteTypeOK` | all of the above |
| `NotifyTyping` | `MapNotifyProofs` | `Spec => []TypeOK` | set of devices, servers, maps, tasks and faults, every bound |
| `PushedOnce` | `MapNotifyProofs` | `Spec => []OneShot` | the same |
| `PushedOncePerChange` | `MapNotifyProofs` | `Spec => []OncePerChange` | the same |
| `NominationsStayInStep` | `ServerRequestsProofs` | `NominationsSpec => []NominationsInStep` | number of requests, servers, admins and reviews |
| `NewsTyping` | `CachesProofs` | `NewsSpec => []NewsTypeOK` | TTL, delay, set of announcements, readers, admins and faults |
| `NewsStaysInStep` | `CachesProofs` | `NewsSpec => []NewsInStep` | the same |
| `UpdatesStayInStep` | `CachesProofs` | `CachesSpec => []UpdatesInStep` | TTL and delay, no shorter than the session key's TTL; number of visitors, tasks, passes, maps, endpoints, sessions and faults; all other caches |
| `PicturesStayInStep` | `CachesProofs` | `CachesSpec => []PicturesInStep` | number of players, requests and providers, all other caches |
| `CachesStayInStep`, `CachesServeKept` | `CachesProofs` | `CachesSpec => [](SingleFlight /\ HeavyBound /\ NewsInStep)`, `CachedIsServed` | all of the above |
| `CachesTyping` | `CachesProofs` | `CachesSpec => []CachesTypeOK` | all of the above |
| `BackendNominations`, `BackendOneShot`, `BackendOncePerChange` | `BackendProofs` | `BackendSpec => []NominationsInStep`, `[]OneShot`, `[]OncePerChange` | the same, with all groups of endpoints |
| `BackendGuides` | `BackendProofs` | `BackendSpec => []GuidesInStep` | set of users, maps, titles, calls, menus of requests and faults, number of requests |
| `BackendTyping` | `BackendProofs` | `BackendSpec => []BackendTypeOK` | all of the above |

Those of `PlayerMapTime` rest on `ConstantsAssumption`; those of the radar on `RadarAssumption`
and `NothingAssumption` (None is neither a window nor what a timer knows); those of notifications on the `ConstantsAssumption` of `MapNotify`
(of its own, that the tasks at a time are finitely many), and
those of server requests on `NominationsAssumption`: a request lists at least one
server, a port is a u16 and admins are finitely many. Those of guides rest on
the `GuidesAssumption` of `GuideApi`, `NoPostAssumption` (None is neither a row nor a vote) and
`PartsAssumption` (the guides a behaviour starts from are typed, and there is one).

`TypeOK` alone is not inductive: a task's `end` and `start` must name sessions that
have ended, or saving one would break the range of `lastCalc`. `TypeInv` adds that.
For exclusion `HolderInv` says that a task in `Holding` has the key, and that the key's
TTL is not running while its holder is at "expire"; with it,
`LockSetNx` shows that nobody else is inside.

`NothingLost` needs the most. A task may save its `end` only if the totals cover
everything up to it by then, so the invariant `CalcInv` follows a calculation from
step to step: the `start` it read is still `lastCalc` (by exclusion nobody else can
have saved since); at "upsert" every session up to `end` is among its `plays` or, when
something was covered before, not after `start` (`CoversTo`); at "save" the totals
include all sessions up to `end`. Replacing the totals loses nothing because it happens
only when `no_data` makes the range start at the first session. `Safe` joins `CalcInv`
of all tasks with the statement itself, and each step of `Next` has its own case.

`CountedOnce` does not assume that calculations end in time: the step that lets one
outlive its lock spoils the history, so until then the lock excludes. `Once` adds to the
statement that nothing after `lastCalc` is counted (`NoneAfter`) while nobody is about
to save, that nothing after its `end` is when somebody is, and that the rows of a delta
lie between the `start` it read, which is still `lastCalc`, and its `end`. A spoiled
history stays spoiled (`SpoiledStays`).

`LedgerImplemented` adds to `Once` that the totals count nothing that was not played, that
they are those of the first k sessions for some k (`Reaches`) and of none after the last
ended one (`LedgerInv`). Only an upsert changes them. A delta carries them to its `end`,
because it starts where they are; a first answer replaces them by at least as many,
because a calculation that is behind the totals is spoiled (`UpsertReaches`).

`LockIsKept` needs no invariant: the release compares the value of the key in the step
that deletes it. `PlaytimeIsComplete` is about tasks that come with the present session
and wait for their lock. Each then has the last ended session as its `end`, so two that
overlap, one of which outlived its lock, agree about it, and neither takes out of the
totals what the other needs (`NothingTaken`). `PlayInv` says, by the place of a task, up
to where the totals are covered and what its answer and `player_playtime` have of them.

For the radar, `RadarInStep` alone is not inductive. `CursorInWindow` depends on what
timers remember: an animation stops at the end of the window of the render that started
it, and a minute of live mode uses the window of its own. `WindowInv` says that such a
window never ends after the one shown, nor after the clock. `LayerFollows` says that the
layer is what is debounced or what is shown; it needs `DebounceInv`, that the debounced
time and interval are the present ones, because whoever moves either debounces again.
`RadarInv` joins these with the types, and each step of `RadarNext` has its own case.
`SiteRadar` maps a step of the site to a step of the radar or to one that leaves its
variables alone.

The other pages of the tab each have an invariant of their own, and a step of the site
is a step of that page or leaves it alone:

- `GraphInv`, of a server's page: the chart reads for no range but the page's
  (`ReadsOfRange`). The bar's APPLY is there when it would change something, or a timer of the bar will put it
  right (`ApplyIsUseful`, `BarWillTell`), and a zoom that something else has overtaken is
  forgotten (`ZoomForgotten`): the timer is then that of the chart's reset, which is
  skipped or brings the axis of the click.
- `PanelInv`, of lists and charts: what is shown is what was asked for last as soon as
  the last answer is in, also while others are still out (`AnswerShown`, stronger than the
  property, which waits until nothing is out), because a panel that aborts has aborted
  every other read (`OthersAborted`), and those are of earlier selections.
- `SceneInv` and `ControlsInv`, of the 3D viewer: whoever traverses a scene began with
  all of it, and in a whole model an index is an object (`IndicesOfTheModel`,
  `IndexInModel`), until the model is replaced while its indices are kept; each mode, also
  one that is off, has the flags of the keys that are held, but those whose last change it
  did not see (`KeysAsHeld`), and a walker crouches by that flag (`CrouchesAsHeld`); a lock
  is asked for where it will be heard, until the mode goes back to orbit meanwhile
  (`PointerInv`).
- `SearchInv`, of the map search: at most one read of suggestions is out and it is for
  the text of the box, or none is and the suggestions are those (`SuggestionsComing`);
  the list carries the hearts as they are stored, and without a list on its way the
  stored hearts are those shown after the one answer under way (`HeartsComing`). Both as
  long as nothing failed and answers came one at a time, which is when the property
  speaks. A failure is where the invariant needs that the page stays what it is
  (`PageStays`): the requests are shared by pages.
- `LiveInv`, of the live page: a badge counts the events listed under it
  (`OneMore`), and there is one stream at most.
- `TableInv`, of the admin tables: at most one read is out and it is for the filter, and
  as long as the rows are not listed as they are, that read will bring them or a change
  that was answered will have them read (`RowsAreComing`); a guarded dialog that has a
  save under way is among those that know it (`SavesAreKnown`).
- `MapsInv`, of the admins' maps: the list is what is stored, or it is being read as it is
  stored, or one of the requests that changed something is still to be answered, or its
  map still to be found again, after which the list is read (`ListIsComing`). This holds
  until two reads overlapped or a save outlived its page (`crossed`), which is the
  condition of the property. The page uploads exactly while it says so (`OneUpload`), and
  while a save of the global settings is out it says that (`OneGlobal`). The property does
  not need the other way round.
- `PushInv`, of the notifications: a hook tells the API one thing at a time, and so do the
  button and the preference (`OneTold`, `OneAlert`, `OnePreference`). A hook that alone
  changed the subscription knows it, or a call of its own that is out carries it and finds
  the row where it says so (`Knows`); one that leaves is told last, because the browser has
  left before the API is asked. The alert stored is the one the button shows, or the one
  its only call brings or took (`AlertsKept`), and no alert is there while a hook subscribes
  for one; the preference likewise (`PreferenceKept`). Each ends with the failure or the
  crossing (`astray`) that the property excepts.
- `ConsentInv`, of the settings page: changes are served and answered in the order they
  were sent, so what is stored is the last one that was answered with success, which the
  card shows (`ToldOfChanges`); and where each was made after the answer to the one before,
  the last one holds all that was meant, and it is what is stored once none is on its way
  (`BeingSent`). Until the setting was read nothing is sent (`BeingRead`).
- `CommentsInv`, of a guide's comments: until two changes of the list overlap one is out
  at a time, made of the list that is shown, and what is stored is that list without what
  it has deleted and with what it has posted (`ListInv`). Buttons wait exactly while a
  vote of a listed comment is out, one at most, and the API has what they will show: the
  vote that was served, or the one before the click (`VoteInv`). An answer that is lost
  takes its comment, or the list, out of the claim (`doubt`).
- `GuideInv`, of a guide and its form: the page of a new form has no other request out
  than its form's, one at most (`OwnCalls`), and a request keeps what the form showed when
  it was sent (`GuideCall`). As long as no two saves mix, the page that is shown or that
  the router was asked for is under the server its guide is stored for, or the answer under
  way leads to one that is, and what was saved last is stored as its form said
  (`GuideWhere`). There is at most one guide for each time the form was sent after it was
  saved, and none for a form that is out and not served (`GuideCount`).
- Of the types, three say more than a range. A row of an admin table is changed once for
  each time a request is served, and a request is served again after an answer that was
  lost; so the changes done and the tries that are left (`Chances`) are together no more
  than the clicks times the tries of each (`RowsCounted`). The page of the list of maps
  stays in its range because a listing never counts more maps than there are
  (`BoardOfMaps`); and an upload that is out is of a map and a size (`UploadOfMap`), or
  the models would not be. `BoundedStep` says of every page that a click and a loss are
  counted one at a time.

The proof of the types found two definitions that said less than they meant: arms of
`SearchAnswered` (`MapSearch`) and of `Preferred` (`PushClient`) overlapped. TLC takes the
first arm that holds, as the code does; TLA+ only says that one of them is taken. Their
arms now exclude each other.

They rest on `GraphAssumption` and `PanelsAssumption` (there is a filter and a first page,
and a read is possible), `SceneAssumption`, `MapSearchAssumption`, `LiveAssumption`,
`AdminMapsAssumption`, `PushAssumption`, `ConsentAssumption`, `CommentsAssumption` and
the `GuidesAssumption` of `GuideForm`; what these say of `None` is that it is none of the
values it stands beside. The types also rest on `ClicksAssumption` and
`SiteFetchAssumption` (the bounds are numbers, and a request is tried at least once), on
`AdminTableAssumption` (there is a row and a filter) and on `SpeedsAssumption` (there is a
fastest speed). `calls` is shared
by all pages, so what `OneAtATime` says of it is said while the page of the maps is shown.

For notifications, `NotifyTyping` carries the foreign key: no step leaves a subscription
of a device that is not registered. `OneShot` is not inductive, because it does not say
who is about to push. `ShotInv` says that until `troubles` one task at a time handles one
change (`OneAtATime`); that the rows it has still to push were never pushed since they
were armed (`Fresh`) and are not the one in its hands (`TaskInv`); and that a row which
was pushed is triggered, or is what a task marks next (`RowInv`). Rows that endpoints arm
or take away under the task's feet keep this: an armed row has no pushes (`Calmly`).

`OncePerChange` has no such condition, and counts. `CountInv` says that the pushes of a
row, the changes still with the listener and the tasks that may push the row yet (`Owes`)
are together no more than the changes. A change that is received turns into a task, a push
takes its task out of the count, and a row that is armed begins at none, because the
changes and tasks alone are no more than the changes either (`QueueInv`). A task owes a
row once: its queries find rows of different kinds, what it has read is of the kind of its
query still, since an id is never given twice, and a row it handles is no longer to do
(`ReadInv`).

For server requests, `NominationsInv` says what a review has done by its place
(`ReviewInv`): at "servers" its request has a community and every server of it is in the
browser or still to do, at "status" none is left. Nothing of it is ever taken back, so
other reviews leave it true (`OthersKeep`). `SingleInv` says that a request outside
`repeated` has at most one approval past its read, and no community until that one
inserts it. `BoundInv` counts for the types: the communities of a request and the reviews
that may still insert one are no more than the reviews there were.

For guides, `GuidesInStep` says when counts are right, and `GuidesInv` why. A transaction
counts before it commits, so `TallyInv` says what it has counted: what there would be
with its own row, as long as `late` does not say that another recount of the same count
has committed since. Only a commit of the same count disturbs it, and that marks the
other; any other commit leaves the votes or comments it counted alone (`TallySame`). An open transaction is about a row that stays, because a deletion neither
begins while a row has one open (`OpenInv`) nor commits while a comment that would go has
one (`Blocked`): without it a vote or a comment would come back to a post that is gone,
and `NoOrphans` would fall. `PostInv` says what holds of a row, whoever writes beside it:
a comment that is there has its guide. `SlugInv` remembers what the slug lookup found:
each counter it passed is that of a different row, which also bounds the counter by the
rows there are (`CandidateBound`, an injection), and the candidate it stopped at was free
on its map among the rows it saw. Rows only change in the steps that commit; those are
proved from what they do to the rows and one lemma about all other calls (`OthersStay`),
the others from one about the call that moves (`OneCall`).

`BackendProofs` maps a step of the backend to a step of the group or to one
that leaves its variables alone.

For the cache, `NewsInStep` bounds an answer only. `NewsInv` bounds the age of everything
an answer can come from: a copy in Redis by its TTL, what is left of it and the call that
stored it; one in memory by the call that carried it there as well; a call by what it read
and how long it has been waiting. What it carries is as true as it is old: where its
listing differs from the table, the table has changed within that age (`held`). A
statement that changes the listing of an announcement starts `held` again, and a tick ages
both statement that changes the listing of an announcement starts `held` again, and a tick ages
both sides alike. They rest on `CacheAssumption` (TTLs are at least a tick),
`AbsentAssumption` (no copy is not a copy), `AnnouncementAssumption` and `SentAssumption`.

The listener and the pass read through the same cache, so what `NewsInv` says of ages
holds of their copies too, and `UpdaterInv` adds what they are for:

- Only a visitor or a task that calls reads the session key, only the one pass there is
  the mark (`WhoReads`), and no copy is kept longer than its TTL (`KeptInTime`).
- `QuietRefreshIsCurrent` says nothing of a task that sleeps. `Undisturbed` does: while
  nobody else reads the key, what was cached before the player left expires no later than
  the task wakes, because no TTL is longer than its sleep, and whatever is cached while it
  calls was read since and has its session (`SessionSays`, `ReadSays`).
- `OnePassADay` needs that the mark in Redis lasts a day from the pass that wrote it, less
  its delays, and that who found none comes a day after the last pass
  (`MarkIsKept`). That is said until the first mark Redis lost.
- `SkippedWasUpdated` compares a mark with what followed it: unless a pass is writing one
  or is under way, all maps were updated since every mark that can be found, in Redis, in
  memory or in the hands of the pass, or that pass was cut short (`MarkIsTrue`).

For the pictures, `PictureInv` says that nothing is ever kept under the prefix that is
read, and that a request has asked every provider before the one whose turn it is.
`CachesInv` joins the invariants: a step of a group leaves the variables of
the others alone, but the announcements and the updater share the cache, so it adds that the
one that is not used has not begun. They rest on `UpdaterAssumption` (visitors
and tasks are not passes, nor each other; sessions are counted) and `PictureAssumption`
(there is a player).

For the worker, `SingleFlight` speaks of tasks, and what prevents a second one is an
entry that a request checked before. `FlightInv` joins the two: a task that is alive is
the entry of its key, or is in the hands of the request that holds the lock (`AliveInv`);
between `tokio::spawn` and the insert that request found no other entry alive
(`InsertInv`), and it alone holds the lock (`LockInv`). A task may end, panic or run on
before it is inserted. `HeavyBound` counts: `PermitInv` says that the free permits and
those the tasks have are all there are, and who may have one where. `CachedIsServed` is an
action property. `ServedInv` says what a request knows of Redis at each place: what it saw
kept is still there, it asks for the fallback only when its key was missing, and comes to
the lock only with a fallback or with neither. They rest on `ConstantsAssumption`.

For uploads, the control is common to all theorems (`Inv`): where a handler of each
operation may be (`FormInv`), which requests may run on in each phase of their client
(`FitInv`), what a client waits for (`WaitInv`), and that a linked file is still there.
`HandleSteps` says what a step of a handler may do to the stores, to itself and to its
client, `SeveralSteps` and the facts about each step of a client the rest, so that each
further invariant needs a case for each kind of step and not for each place.

- `RecordedIsStored` needs to know what the snapshots in memory hold: everything in the
  `seen` of a chunk request, and from its write on its own chunk, is on disk
  (`SnapshotStored`). No step takes a chunk from the disk while the client sends chunks
  and the session is there. That the chunks have their bytes (`FilledInv`) needs that a
  client which never gave up has one request (`PromptInv`): a request truncates only its
  own chunk, which is not in the session it read, and nobody else records it meanwhile.
- `AckedIsRecorded` needs that a client which never gave up has one request, the one it
  waits for, about the chunk it is at (`PromptInv`), and that the snapshot of that request
  holds every chunk that was acknowledged (`SnapshotAcked`). An `io_error` can remove a
  session that lives, or answer for what was stored, and is excluded; a restart is not.
- `ServedWhole` follows a complete from step to step (`Assembled`): what it has copied is
  its upload's, chunk by chunk, and what it stores is all of it. Nobody else writes to its
  file because it is the one its client waits for, and no cancel runs beside it
  (`AloneInv`). That is where the two assumptions are needed: with a complete that was
  given up on there may be two (which `UploadTwice` shows), and a local file is served
  while it is written. Chunk requests may be given up on, and everything may fail.
- `ImplementsShelf`: the step that stores the object is `Publish`, because a complete is
  sent only after the last chunk was acknowledged, which `FitInv` keeps while it runs on;
  a deletion is `Withdraw`; all others are `Receive` or a stutter, since what was
  delivered stays so (`DeliveredGrows`).
- `Acknowledged`: with one admin one upload is under way, and no deletion runs beside it
  (`SoleInv`). While nobody gave up, the one request that stores a file is alone, so what
  the file, the stored object and the row are follows from its place (`PlacedInv`): what
  it has copied at `copy`, all of it at `store`, its own at `row` and after. Calls may
  fail at any place, with an answer that is then not a success.
- `RowMatchesFile` and `UndisturbedSucceeds` need one invariant (`UndisturbedInv`): a client
  that nothing disturbed has every chunk it was told of in its session (`Received`), its
  request is on its way to a success (`Serves`), and the row is of the stored file
  except between the store and the row update of one request (`RowInv`, `Between`). A
  failed call or a second admin breaks each of them.

They rest on `ConstantsAssumption` and `NothingAssumption` (None is neither a session, a
directory nor a file, and the stored file is not named like an upload). The hypotheses of
`AckedStays`, `ServedIsWhole`, `ShelfImplemented`, `AcknowledgedIsStored`, `RowIsOfFile` and
`UndisturbedSucceeds` are on `Faults` and `Local`, which no step changes; `UploadR2` and
`Upload` are instances of them with all other faults.

Every invariant and every action property of the runs is stated by a theorem. Only
model-checked is what needs fairness, which is beyond TLAPS, as are `ENABLED` and what
recursive definitions compute.

## 5. Not modelled

- `execute`/`execute_get` of the worker, which bypass `active_tasks`; map deletion
  (`admin_maps.rs:304`), which removes totals behind the aggregation's back.
- Categories (casual, tryhard) and the map states of `player_playtime`: derived data.
- Permissions, ownership and validation of requests: the models' requests are those
  that pass.
- The backend's read-only queries, down-sampling, donations, server administration and
  deployment. Of guides, edits (they change texts, never a slug, an author or a count) and
  reports; the UUID that replaces a counter after a thousand guides of one title.
- The broadcast of a push to all devices (`MapNotify.Push` of each); `recent_players_updater`,
  which is `maps_updater` over players, with a mark of its own; what the calls of the warmed endpoints
  do beyond their session key, which is `BackgroundWorker`.
- The picture's medium size and the backend's own cache of a profile; the back-off in seconds
  of the official API, whose `2u64.pow(attempt)` wraps to 0 in a release build after 64 answers 429.
- Presentation: layout, theme, charts, the WMS map under the radar, rendering, collisions
  and cameras of the 3D viewer, static pages. The models have what a page asks for, keeps
  and shows of it, not how it looks.
- Server-side rendering and its caches; cookies and the sign-in by Steam.
- The scraper is outside the repository: `SessionEnds` and `MapChanges`
  stand for it.

## 6. Plan

In this order, the most important first:

1. `GuideApi` composed with `Comments`: what the page shows after a raced recount; the
   reports of guides, comments and music.
2. `Updater` composed with `BackgroundWorker`: what a visitor of a warmed page is served.
3. Character upload as a second instance of the upload protocol; `execute_get` in
   `BackgroundWorker`; map deletion in `PlayerMapTime`.
