# NetShare: a verification development

NetShare is a desktop application (Qt, C++) that shares files with browsers on the
local network.  It embeds an HTTP and WebSocket server (CivetWeb), serves two web
pages (`web/share.html` for downloads, `web/receive.html` for uploads), keeps its
transfers in a list of its user interface (QML), and restores them after a restart.

This directory holds TLA+ modules that model its core, the configurations with which
TLC checks them, and theorems that TLAPS proves about them.  At the centre is the
**resumable chunked upload**: there threads, callbacks, two sides of a network, files and
restarts meet, and there the program's promise ("interrupted transfers continue where
they stopped", `USAGE.md:88-92`) is kept or broken.  Around it are the parser of the
smaller uploads, the shares and their downloads, the WebSocket hub and the chat, and the
life of the application from its registration to its end.

Contents: [1 the system](#1-the-system), [2 the modules](#2-the-modules),
[3 the runs](#3-the-runs), [4 fairness](#4-fairness), [5 proofs](#5-proofs),
[6 findings](#6-findings), [7 abstractions and what is left
out](#7-abstractions-and-what-is-left-out), [8 plan](#8-plan).

## 1 The system

### Threads

* CivetWeb runs ten worker threads (`CivetWebServer.cpp`, request timeout 30 s).  A
  worker calls `RequestHandler` directly, without a lock.  For an upload it calls
  `handleStreamingFileUpload` once with the headers, once per block and once at the end.
* The main thread runs the user interface, queued signals and timers: the expiry of
  upload sessions (every 5 min, after 2 h), the inactivity timer of the transfer engine
  (every 30 s, after 180 s), bandwidth accounting (500 ms), WebSocket heartbeat (30 s).
* `QThreadPool::globalInstance()` merges the chunks of a finished upload;
  `uploadFinalizeReady` is queued back to the main thread.
  Mails are sent there too.
* A worker that begins a download asks the main thread for its task and waits for the
  answer (`Qt::BlockingQueuedConnection`); everything else is queued.
* Download workers of `FileTransferEngine` would run in threads of their own; nothing
  starts them (section 7).

### Components

| Component | State | Operations | Interacts with | What makes it correct |
|---|---|---|---|---|
| Upload endpoints (`RequestHandler`, `/api/upload/*`) | `m_uploadSessions`, `m_taskToToken`, `m_streamingFileStates` | check, file (chunk or whole), finalize, abort, pause, resume, pending; expiry | state files, chunk files, engine, pool, page, WebSocket hub | an accepted chunk is not lost; a merge only touches its own chunks; success means the file is stored |
| State files (`ChunkStateManager`) | `.chunks/<file>.netshare` | create, load, save, update chunk, validate, delete, expire | endpoints, engine (scan at a start) | never ahead of, nor behind, the chunks on the disk |
| Chunk files (`ChunkManager`) | `.chunks/<session>/<file>/chunk_<i>` and the upload directory | write, verify, merge, clean up, split | endpoints, engine | the merged file is the concatenation of the chunks, or none |
| Upload tasks (`FileTransferEngine`) | `m_tasks` | create, adopt, pause, resume, fail, complete, delete, restore, auto-pause | endpoints (callbacks both ways), log, list | one unfinished task per upload; completed means stored |
| Transfer log (`TransferLogService`) | table `transfer_logs` | log, restorable entries, clear, statistics | engine | a start restores what was unfinished and nothing else |
| Upload page (`web/receive.html`) | `uploadStatus`, `failedFiles`, `chunkInfo`, `isUploading`, ... | startUpload, uploadConcurrent, uploadChunked, retryFailed, finalize, WebSocket messages | endpoints, hub | what it calls sent is stored; an interrupted upload can go on |
| HTTP loop (`CivetWebServer`) | connections | route, read body by blocks, static files, streamed files with ranges | endpoints | every request ends with one last call |
| WebSocket hub (`CivetWebServer`) | `m_wsClients`, `m_wsSubscriptions`, `m_connToIp`, `m_wsLastPong` | ready, subscribe, unsubscribe, pong, close, heartbeat, broadcast, send to an address | pages, chat, main thread | no subscription outlives its connection; who answers stays, who is lost goes |
| Multipart parsers (`StreamingMultipartParser`, `parseMultipartFormData`) | buffer, parser state, current part | feed, finish | endpoints (small files) | the parts do not depend on how the body was split |
| Download engine (`performDownload`, workers) | tasks, state files, chunk files | start, chunk started/finished, merge | nothing calls it | - |
| Served downloads (`RequestHandler`, `FolderPacker`) | tasks of kind download | stream a file or a zipped folder, ranges, progress | engine, shares | a range serves the bytes it names; a cut download can be adopted |
| Shares (`ShareManager`) | `m_shares`, table `shares` | create, receive, share again, cancel, access, expire, load | endpoints, database | no share outlives its end or its limit, over starts too |
| Bandwidth (`BandwidthManager`) | records per task | record, limit, remove, period timer | download engine only | - |
| Chat (`ChatService`) | anonymous users, conversations, unread counts | receive, answer, open a conversation, remove silent users | endpoints, hub, message page | no message goes unnoticed |
| Registration (`AuthService`, `EmailService`, `RegistrationKey`, `MachineFingerprint`, `AntiDebug`) | table `users`, security token | register, trial, clear, compare the hardware, send a mail | database, pool, `main.cpp` | a user has the server; who registered is known again |
| TLS certificates (`TlsCertificateGenerator`) | certificate and key files | make a pair | `main.cpp`, settings | the certificate belongs to its key |
| Database (`DatabaseManager`), settings, logger, notifications, mDNS, file browser | files and platform services | thin wrappers | all | none of their own |
| `main.cpp`, user interface (QML) | lists, wiring, what has started | start, late start of the server, stop, buttons | all | nobody works with a part that is gone; the end comes |

How they are joined: the engine calls `pauseUploadForTask` / `resumeUploadForTask` of
`RequestHandler` when the list pauses or resumes a task (callbacks, only for a known
task); `RequestHandler` calls the engine in every handler; both write the same state
files; `main.cpp` broadcasts `taskPaused` as a `pause_upload` message to the pages that
subscribed to the task's session.

### What is hard here

`PROJECT.json` lists each hazard at its line.  In short: handlers, the pool and the main
thread use the same sessions, state files and directories without a lock; a chunk request
holds an index over many calls; finalize answers before it acts; the output of a merge
has its final size before its content; answers get lost and chunks are sent twice; state
files, sessions, tasks and the log survive a restart to different degrees and name the
same upload by different ids (file name, directory, task id).  Shares are checked by one
call and counted by another, in memory and in a table; calls for the task of a download
wait in a queue while the list changes it; the server uses the slot of a WebSocket
connection again before everybody has forgotten the last one; the parts stop one by one
while workers and the pool go on.

## 2 The modules

| Module | Models | Kind |
|---|---|---|
| `UploadServer` | the upload endpoints with state files, chunk directories, upload tasks and log; stop, crash and start | component |
| `UploadChecks` | the check of an upload in the steps that other workers can come between, beside every other step of `UploadServer` | component, extends `UploadServer` |
| `ReceivePage` | the upload script of `web/receive.html` | component |
| `UploadSystem` | `UploadServer` with `ReceivePage` in front of it, the transfer list, and the events that disturb them | composition |
| `FormUpload` | what storing the files of a multipart request promises | abstract specification |
| `MultipartParser` | `StreamingMultipartParser`, which implements `FormUpload` | component, refinement |
| `ChunkSplit` | how the server and the page cut a file into chunks | functions |
| `ShareRegistry` | `ShareManager` with its table, and the workers that show shares and count that, step by step | component |
| `ServedDownload` | the downloads of shares, their tasks, and the page `share.html` | component, extends `ShareRegistry` |
| `WsHub` | the WebSocket part of `CivetWebServer` | component |
| `ChatService` | the chat | component, extends `WsHub` |
| `Registration` | `AuthService`: users, trial, hardware | component |
| `NetShareApp` | start, late start, certificate, mail and end of the application | component, extends `Registration` |
| `MC...` | the instance of the module of that name | model checking |
| `UploadServerProofs` | the type invariant of the server, what it persists and takes over; how a file is cut | proofs |
| `UploadChecksProofs` | what merges and checks spare although checks take several steps; extends `UploadServerProofs` | proofs |
| `UploadSystemProofs` | pages and server together: types, the pages use the server, the transfer list, what is sent is stored; extends `UploadServerProofs` | proofs |
| `FormUploadProofs` | what `FormUpload` implies | proofs |
| `MultipartParserProofs` | the parser's types and sizes; it implements `FormUpload`; the two parsers agree | proofs |
| `ServedDownloadProofs` | the registry: memory and table, limits, what is gone; downloads: requests, tasks and the queue between them; the page | proofs |
| `ChatServiceProofs` | the invariants of the hub and of the messages | proofs |
| `NetShareAppProofs` | the invariants and the types of start and end | proofs |

### UploadServer

| Variable | Code |
|---|---|
| `store[s][f]` | the directory `.chunks/<s>/<f>` with its chunk files (length and content by blocks) |
| `final[f]` | the file in the upload directory (size in chunks, content) |
| `state[f]` | the state file: size, completed chunks, `chunkTempDir`, task id |
| `sessions[s]` | `m_uploadSessions`: task, `fileChunkStates`, `paused` |
| `token[t]` | `m_taskToToken` |
| `tasks[t]` | `m_tasks`: file name and status of the upload tasks |
| `log[t]` | the newest `Started` or `Paused` row of `transfer_logs` of the task |
| `conns[c]` | `m_streamingFileStates`: the chunk request that connection `c` carries |
| `jobs[w]` | a merge that was given to the pool: session, file at work, files to do, files saved |
| `ready` | `uploadFinalizeReady` signals in the event queue |
| `shared`, `issued`, `created`, `restarts` | the shares created for uploads; ids ever drawn; bound |

| Action | Code |
|---|---|
| `UploadCheck` | `handleUploadCheck`: existing files, reuse of the directory of an interrupted upload, validation, cleanup of the other directories, adoption or creation of the task |
| `BeginChunk`, `ReceiveBlock`, `EndChunk` | `handleStreamingFileUpload`: first call, a block, last call |
| `UploadFinalize` | `handleUploadFinalize` up to its answer |
| `OpenMerged`, `CopyMerged`, `EndMerge` | the worker: output file opened and resized, chunks copied (`mergeChunks`), directories removed and signal |
| `FinalizeReady` | `onUploadFinalizeReady` |
| `UploadAbort`, `UploadPause`, `UploadResume`, `ExpireSession` | the handlers and the session timer |
| `PauseTask`, `ResumeTask`, `DeleteTask` | the buttons of the transfer list |
| `AutoPause` | the inactivity timer |
| `Shutdown`, `Crash` | the stop and what the next start restores |

A check of the model takes the sizes, the two ids it draws (`s0`, `t0`) and the task it
ends with as parameters.  Its effect is split as in the code: which files are needed
(`Needed`), which have a state file of the same or another size (`Matching`, `Outdated`),
which directory the loop ends with (`FirstReusable`, `ChosenSid`, `DirAt`), and what is
then written (`CheckedState`, `CheckedFiles`) and removed (`CheckedStore`).  The two
orders that matter are kept: the state file is saved from `existingInfo`, read *before*
the validation (`RequestHandler.cpp:1018`), and files are looked at in the order of their
names (the loop is over a `QMap`).

### UploadChecks

`UploadCheck` above is one step; in the program it takes no lock, and the state file that
it works with may be that of an upload which another worker finalizes meanwhile.
`UploadChecks` has the check in its steps and leaves the rest of `UploadServer` as it is:

| Step | Code (`handleUploadCheck`) |
|---|---|
| `BeginCheck` | is the file in the upload directory already? (`RequestHandler.cpp:919-928`) |
| `LoadCheck` | `existingInfo` is loaded (985) |
| `SaveCheck` | validation, which loads the state file again (987), the choice of the directory (1004) and the state file saved or created (1018, 1046, 1059) |
| `CleanCheck` | one directory of the cleanup: is it that of a session, and if not it is removed (1085-1100) |
| `EndCheck` | the task, and the session on the directory (1115-1151) |

`checks[k]` holds what worker `k` has read and decided so far; `Between` lets any step of
another handler, of the pool or of a timer come between.  Each check is for one file, as
the pages send them for one file.  What is still together, and why:

* *Validation and save.*  Between them, another handler could only change a file that the
  save overwrites anyway, or remove the directory after it was chosen, as it can right
  after the step.
* *Task and session.*  Both are changed from what the check has; no property here is about
  the task.
* *The ids* are drawn where they are first used; a fresh id can be seen by nobody before.
* *The cleanup* may look at a directory that was made after it listed them: the model
  removes more than the code.
* *A finalize.*  Its removal of the session (1376), of the state files (1387) and the
  start of the merge (1413) are one step: what a check can do between them it can do
  around them, since it reads the state file in one step and the sessions in others.

Two variables remember what happened, for the properties: `madeFor[s]`, the file and size
that a directory was made for, and `crossed`, the directories whose session ended while a
check had loaded the state file that names them and had not yet inserted its own.  This is
the window of finding 15, and the only exception that the properties make.

### ReceivePage and UploadSystem

`pages[b]` holds the script's variables of a page, `wire[c]` the request the page waits
for on a connection.  Actions are the points where the script gives control back:
the reply of a check (`Start`, `Retry`), a worker taking the next file (`TakeFile`), a
chunk leaving (`Send`) and being answered (`Answered`, `Failed`, `Skipped`, `Refused`,
`Rejected`), a round of retries (`NextRound`), the end of a file (`EndFile`) and of the
call (`EndCall`), `Finalized`, and the messages `PauseUpload` and `Disconnected`.

`UploadSystem` conjoins them with `UploadServer`'s actions.  `wire[c]` and `conns[c]` are
the two ends of a connection: an answer may be lost (`LoseConnection`) while the server
still reads, and the page then sends the chunk again on another connection.  The constant
`Events` selects what may disturb an upload, so that each run asks one question.  No page
calls `/api/upload/abort`, `pause` or `resume`, so these belong to `UploadServer` only.

### MultipartParser and FormUpload

`MultipartParser` follows the parser symbol by symbol, because what can go wrong is in
the symbols: the body (`Body`, as a browser writes it) is a sequence, `Feed(n)` hands over
the next `n` symbols, `Finish` may come at any time (the end of the body or of the
connection), and every iteration of `processBuffer` is a step of one of the handlers.
`buffer` starts at `m_bufferOffset`; `Consume` moves it and decides whether the loop goes
on.  `disk` holds the files by name and number ("name (1)" for a name that is taken).

| Actions | Code |
|---|---|
| `Feed`, `Finish`, `Close` | `feed`, `finish` |
| `SkipText`, `SkipEnd`, `SkipBoundary` | `handleFindBoundary` |
| `AwaitHeaders`, `BeginField`, `BeginFile` | `handleParseHeaders` |
| `WriteSafe`, `WriteRest` | `handleStreamFileData` |
| `SkipText`, `EndField` | `handleBufferFormData` |

`FormUpload` says what this is for: files are stored one after the other, each is at any
time a prefix of its content, and after a whole form all of them are complete.  The
refinement mapping (`Form`) reads its variables from the disk: what is stored is the
content of the saved paths, so a later part that touches an earlier file would violate it.

`parseMultipartFormData`, which reads whole bodies (`RequestHandler.cpp:1716`), is a
recursive function over the same bodies (`ReadPart` is one round of its loop);
`ParsersAgree` compares what it finds with what the other parser stored, block by block.

### ShareRegistry and ServedDownload

`shares` is `m_shares`, `rows` the table; every statement may fail (`failed` remembers
whose), the clock goes on by half seconds, and `RestartRegistry` is a stop or a crash: the
memory is read from the table again.  A page of a share is checked in one step
(`OpenPage`) and counted by `shareAccessed` in several, which other workers and the main
thread may come between (`access[v]` is how far worker `v` is): the counter is read
(`AccessReads`), written (`AccessAdds`), compared with the limit and read again
(`AccessCompares`), and stored (`AccessStores`) or the share closed (`AccessCancels`).  A
share that is cancelled meanwhile ends this (`AccessMisses`).  So increments may be lost
and counts stored in the wrong order, as no lock prevents it; `lost` remembers the shares
to which this happened (finding 16).

| Variable of `ServedDownload` | Code |
|---|---|
| `file[p]` | size of the file, or of the zip of a folder, in blocks of 64 KB |
| `reqs[r]` | the request that a worker serves, and how far it is |
| `calls` | the calls in the event queue of the main thread |
| `tasks[t]`, `log[t]` | download tasks of `m_tasks` and their newest log entry |
| `stream[r]`, `page`, `saved` | what is on its way to the page, the variables of its script, what it saved |

A request asks the main thread for its task (`Begin`, `HandleCall`, `ResumeOrCreate`),
opens the file (`Open`, with the range), sends block after block (`SendBlock`, with
progress for the task) and ends (`EndSend`).  The list pauses, resumes and deletes tasks
(`ListStep`), the timer pauses them (`AutoPause`), files change (`Edit`), the application
is closed and started (`Restart`).  The page reads blocks, cancels, resumes with a range,
and saves (`PageStep`).

### WsHub and ChatService

`WsHub` keeps the five maps of the server by slot: `link` is the connection that is there,
`clients` and `subs` the two maps of subscriptions, `connToIp` and `lastPong` the address
and the number of heartbeats since the last answer.  `WsReady`, `subscribeClient`,
`unsubscribeClient`, `Pong`, `WsClose` are the handlers of the workers, `sendHeartbeat`,
`broadcastToSubscribers`, `sendToIp` the calls of the others; `Vanish` is a client that is
gone without a word.  `Known` is the early return of `unsubscribeClientFromAll`.

`ChatService` follows a message through its handler in four steps
(`updateAnonymousUser`, `StoreMessage`, `CountMessage`, `BroadcastMessage`), as the main
thread may open the conversation (`clearUnread`, then `refreshChatHistory`), answer or
remove silent users between any two of them.

### Registration and NetShareApp

`Registration` is the table of users with unique names, the trial user with its fixed
name, and the comparison of the hardware with the first registered user.  `NetShareApp`
gives the main thread a program counter (`main`): `database`, `auth`, the four steps of a
certificate, `listen`, `window`, `loop`, and the three stops, which run up to three times
(`round`: when the application is about to quit, after its event loop, in its destructor).
`work[w]` is what a worker does, `job` a merge and `mail` a mail in the pool.  A start may
fail at each step, and a crash may come at any.

## 3 The runs

Twelve runs; the eleven that pass finish in 8 s to 180 s.  `CHECK_DEADLOCK FALSE`
everywhere: ids, messages and clocks are finite and used up, and an upload ends.

| Run | Instance | Properties | Shows |
|---|---|---|---|
| `one_upload` | server alone, one file of 1 or 2 chunks, 2 sessions, 2 tasks, one restart | `TypeOK` `AcceptedIsPersisted` `ResumeKeepsChunks` `MergeIsReported` | any requests, timers, list buttons, a stop or a crash with a torn or outdated state file: accepted chunks are in the state file, the next check takes over every whole chunk, every merge is reported |
| `singles` | server with checks in steps, 2 files of 1 chunk, 2 checks at a time, 2 sessions, 3 tasks, one merge | `MergeIsAlone` `InFlightChunkKnown` `CheckSparesChunks` `MergeSparesChunks` | uploads are checked, finalized, merged, expire and are checked again at once, with an early crash in a check: nothing refers to the directory of a merge, and steps of checks and merges leave the chunks that an upload may be resumed from, except in the window of finding 15 |
| `one_page` | page and server, one file of 2 chunks, 3 connections, 3 sessions, 3 tasks | `SentIsStored` `CompletedIsStored` | lost answers, disconnections, pauses, auto-pauses, and reloads when no merge is left: what the page and the list report is on the disk |
| `all_faults` | page and server, one file of 1 chunk, all events, one restart | `SystemTypeOK` `OneTaskPerName` | the list never shows two unfinished tasks of one name |
| `two_pages` | two pages with a file of 2 chunks each, 2 connections, one merge at a time, no faults | `StartedIsSent` | every upload that starts is sent and stored, under fairness |
| `forms` | the parser, 150 requests | `ParserTypeOK` `SizesAreTrue` `ParsersAgree` `StoresForm` | however a body is split or cut, the parser implements `FormUpload`, reports true sizes, and agrees with the parser of whole bodies |
| `shares` | 3 shares of one file, limit 3, for ever or an hour, 2 workers that count in steps, one that fails | `RowsFollowMemory` `LimitHolds` `OneShareOfReceived` `GoneStaysGone` | memory and table agree over failures and starts and limits hold, but for counts written in the wrong order (finding 16); what is gone stays gone |
| `downloads` | a page, one file of 0 or 2 blocks, 2 requests, 2 tasks, one change or start | `DownloadTypeOK` `SavedIsWhole` `OneDownloadTask` | whatever the page cancels and the list does: saved files are whole, one task per file |
| `clients` | two other programs, a file and a folder of 1 or 2 blocks, whole or from block 1 on, one task | `NoneHangs` `CompletedIsServed` `CompletedIsFull` `AnswerIsRange` | completed tasks were served and stay full, ranges are right though files change, no task runs for ever |
| `hub` | one slot, two addresses, two tokens, two messages, conversations of two | `ChatTypeOK` `SubscriptionsAgree` `NoDeadSubscriber` `ReachesPages` `UnseenIsUnread` `AnsweringStays` `DeadIsForgotten` | subscriptions, addresses and heartbeat are right in a slot with changing clients; no message goes unnoticed |
| `startup` | one worker, one name, three machines, two certificates | `AppTypeOK` `ClosedIsQuiet` `RegisteredServes` `CertPairMatches` `WaitsEnd` | start, registration and end with failures and crashes at every step |
| `lost_tail` | page and server, connections cut in a body | `SentIsStored` violated | finding 2 |

**The properties.**
`AcceptedIsPersisted` relates two copies of the same list that are written by five
handlers.  `ResumeKeepsChunks` is the promise of resumption: it is an action property that
compares the disk, the state file and the session before and after a check.
`MergeIsAlone` and `MergeSparesChunks` are about the pool, which works while
handlers run: no state file, session, check or other merge may refer to a directory that a
worker is going to delete.  `InFlightChunkKnown` is what makes the unchecked index of the last
call safe.  `CheckSparesChunks` is about the steps of a check, above all the cleanup, which
removes every directory that is not that of a session while other checks are about to
insert theirs.  `SentIsStored` and `CompletedIsStored`
join the two ends of the system: the page's text and the list against the disk.
`OneTaskPerName` is about adoption and restoration of tasks.  `MergeIsReported` and
`StartedIsSent` are liveness.
`LimitHolds` and `GoneStaysGone` span starts: the count of a share is in memory and in its
row.  `SavedIsWhole` joins the pieces that a page got from several requests.
`CompletedIsFull` is about calls that are still in the queue when a task is completed.
`AnswerIsRange` is an action property, as a file may change while it is sent: it compares
the request before it is opened with what it is then told to send.
`SubscriptionsAgree` is what `unsubscribeClientFromAll` relies on when it looks at one of
two maps; `ReachesPages` is about slots that are used again; `UnseenIsUnread` relates a
count that two threads write to what was on the screen.  `ClosedIsQuiet` and `WaitsEnd`
are the two sides of the end: nothing goes on too long, and nothing waits for ever but for
the one pair that finding 6 is about.

**Bounds and why they are enough.**
*Chunks.* Two chunks give a last chunk (whose size is not checked) and one that is not the
last; with one chunk both coincide, so both sizes are used where checks of different sizes
matter (`one_upload`).  *Blocks.* One block per chunk distinguishes empty, whole and (with
a second writer) truncated chunks; the constant allows more, see section 6.
*Sessions and tasks.* Ids are drawn once, and each check draws both.  Two sessions give an
upload and its resumption, or two uploads (`singles`: each of two checks may clean up while the
other is under way); `one_page` has three, so that what a second session left behind can harm
a third; three tasks are needed for an adopted, a replaced and a new one.
*Events.* `one_page` leaves out the events under which its properties are violated: a
reload during a merge (`again`) and a deletion (findings 13 and 14), cut bodies (finding 2),
and starts, which section 6 lists.  `all_faults` has all events.
*Connections.* Two let a chunk be received twice at once; where one is used
(`one_upload`, `singles`), what matters is the request that outlives its session.
*Merges* bounds running and queued merges together.  `singles` has one, as what it asks is
what the checks do beside a merge; that two merges share no directory is part of the theorem.
*Checkers.* Two: a check, and one that overlaps it; the proofs are for any number.
*Early crash.* A crash in `singles` comes while the first upload is being resumed: the
window between load and save is where it matters, and the proofs have it anywhere.
*Restarts.* One: everything in memory is reset, so a second start begins from files that
the first could have left.  *Rounds.* The page tries three times; one further try (none in
`all_faults`) gives both outcomes of a failed round, and further rounds repeat it.
*Forms.* The parser keeps `Len(Boundary) + 8` symbols back, so data has up to 16 symbols
to be written early; traps (beginnings of a boundary, line ends, an empty header) are put
at its beginning, in its middle and at its end.  Forms of four parts have an empty file, a
name that is listed twice and names that cannot be opened.  The boundary is three symbols
long; every split of it occurs.
*Shares.* Three tokens give a share that is cancelled, one that replaces it and one that
a start brings back; a limit of three has two accesses that are not the last one, whose
counts two workers may store in the wrong order; both can also have checked the last access.  The clock has two ticks: an hour is one of them and a
second is two, so that an end may lie inside the second that a row is rounded to.
*Downloads.* Two blocks give a beginning and an end, none the empty file; two requests
for one file compete for its task.  `clients` asks what becomes of one task and
has one id, and its one range goes past the end of the shorter version of a file, so that
a change between request and answer matters; `downloads` has two, so that a second task of a file could appear.
*Hub.* A step of the hub is about one slot, or about every slot in the same way, so one
slot that changes hands is enough for TLC; the proofs are for any number.  Two heartbeats
may and three surely time out a connection, as the seconds are compared with `>`.
*Startup.* Workers meet only through the main thread, so one is enough for TLC, again
with proofs for any number.  Three machines: the same, one that still matches, one that
does not.
Symmetry is used for ids, connections and contents, never for files, which are ordered,
and never with liveness.

## 4 Fairness

`FairSpec` (server) assumes that the pool runs the merges it was given and that the event
loop delivers `uploadFinalizeReady`: weak fairness of `MergeStep(w)` and `FinalizeReady`.
Both are always enabled once there is something to do.  `MergeIsReported` excuses a stop
of the application, which the model allows at any time.

`FairSystemSpec` adds: the script of a page runs (`PageStep`), its finalize request
arrives, blocks arrive and are answered (`ReceiveData`, `AnswerChunk`), the application
publishes.  A chunk that is due gets a connection in the end: strong fairness of
`SendChunk`, since pages compete for connections and CivetWeb's queue of accepted sockets
is first-in first-out.  No fairness is assumed of users, timers, faults or checks.

`DownloadFairness`: a worker goes on with its request, as a write ends after thirty
seconds at most; the main thread takes its calls; the timer of the inactive tasks runs.

`ChatFairness`: the heartbeat's timer comes again and again (strong fairness, as the main
thread may be about to show a conversation when it is due), the conversation that was
opened is shown, and a worker that was told to close its connection does.

`AppFairness`: the main thread goes on with a start or an end it has begun, requests,
merges and mails go on (every wait in them has a timeout), and the page hears of a mail.
A `Call` is served only by the event loop, for which no fairness is needed: `WaitsEnd`
excuses the state where both wait.

## 5 Proofs

All theorems hold for every value of the constants that meets the named assumptions of
the modules: for `UploadServer` these are `ConstantsAssumption`, `FilesAreOrdered` (any
set of file names has a first and a last one: the loop runs over a sorted map) and
`NoneAssumption` (`None` is none of the values it stands in for); the other modules have
assumptions of the last kind (`NoneIsNoShare`, `NoneIsNoMark`, ...), and `SystemAssumption`
says that what a page may check again is a part of what its user selected.  TLC evaluates
the assumptions in every run.  Some theorems have a hypothesis on how the program is
used; each is a constant of the model, met by the run that checks the property, and what
happens without it is in section 6: `SingleFileChecks` (each check lists one file; the
checks of `UploadChecks` always do), `~Impatient` (nobody clicks
"download" again while one runs), `Skewed = {}` (no client's clock is wrong),
`EnoughIterations` (no body has so many parts that the loop of `processBuffer` could end by
its limit: three times the number of parts is below the limit, so up to 33 parts for the
100 of the code; a page sends one file per request; `MCMultipartParser` assumes it), and
`Undisturbed`: there is one page, each check lists one file, and the events are among
`GentleEvents`, which are those of the run `one_page`: answers are lost, the page is
disconnected or, once no merge is left, loaded again, tasks are paused by the user or
for being inactive.

| Theorem | Statement | Argument |
|---|---|---|
| `TypeCorrect` | `Spec => []TypeOK` | with `WrittenChunkExists` |
| `AcceptedPersists` | `Spec => []AcceptedIsPersisted`, any checks | `PersistInv` |
| `ChecksAreTyped` | `ChecksSpec => []CheckTypeOK` | `ChecksInv` |
| `MergesAreAlone`, `InFlightChunksKnown` | `ChecksSpec => []MergeIsAlone`, `[]InFlightChunkKnown` | `ChecksInv` |
| `MergesSpareChunks`, `ChecksSpareChunks` | `ChecksSpec => MergeSparesChunks`, `CheckSparesChunks` | `ChecksInv` |
| `FilesInOrder`, `WholeForms` | `FormSpec => []StoredInOrder`, `FormSpec => []WholeIsStored` | `FormInv` |
| `ParserTypeCorrect`, `SavedSizesAreTrue` | `ParserSpec => []ParserTypeOK`, `ParserSpec => []SizesAreTrue` | `ParserInv` |
| `ParserImplementsForm` | `EnoughIterations => (ParserSpec => StoresForm)` | `ParserInv`, step by step |
| `ParsersReadTheSame` | `EnoughIterations => (ParserSpec => []ParsersAgree)` | `ParserInv`, and induction over the rounds of the other parser |
| `ResumesKeepChunks` | `SingleFileChecks => (Spec => ResumeKeepsChunks)`, with restarts and crashes | `TypeInv` |
| `SystemTypes` | `SystemSpec => []SystemTypeOK` | `SystemInv` |
| `PagesUseServer` | `SystemSpec => Spec` | `SystemInv`, step by step |
| `OneTaskEach` | `SystemSpec => []OneTaskPerName`, any events | `SystemInv`, for the types |
| `SentStored`, `CompletedStored` | `Undisturbed => (SystemSpec => []SentIsStored)`, `Undisturbed => (SystemSpec => []CompletedIsStored)` | `StoredInv`, with `SystemInv` and `SpareInv` |
| `EveryByteIsSent`, `NoByteIsSentTwice`, `OnlyLastIsShort`, `ChunkSizeFits` | the slices of the page cover a file of any size once; only the last one is short | arithmetic |
| `CutsAreSlices` | the loop of the server gives the slices of the page, for a file of any size | induction over its rounds |
| `TableFollowsMemory`, `LimitIsKept`, `ReceivedSharedOnce`, `NoShareComesBack` | `RegistrySpec => []RowsFollowMemory`, `[]LimitHolds`, `[]OneShareOfReceived`, `GoneStaysGone` | `RegistryInv` |
| `DownloadsUseRegistry` | `DownloadSpec => [][RegistryNext]_regVars` | step by step |
| `CompletedWereServed`, `CompletedStaysFull`, `OneTaskOfFile`, `AnswersAreRanges` | `DownloadSpec => []CompletedIsServed`, `[]CompletedIsFull`, `[]OneDownloadTask`, `AnswerIsRange` | `ServeInv` |
| `DownloadsAreTyped` | `DownloadSpec => []DownloadTypeOK` | `RegistryInv`, `ServeInv`, `PageTypeOK` |
| `SavedFilesAreWhole` | `~Impatient => (DownloadSpec => []SavedIsWhole)` | `PageInv`, with all of the above |
| `SubscriptionsStayAlike`, `SubscribersAreConnected`, `AddressesAreTrue`, `AnsweringClientsStay` | `ChatSpec => []SubscriptionsAgree`, `[]NoDeadSubscriber`, `[]ReachesPages`, `AnsweringStays` | `HubInv` |
| `ChatsAreTyped` | `ChatSpec => []ChatTypeOK` | `HubInv`, `ChatInv` |
| `TrueClocksAreSafe`, `UnseenStaysUnread` | `ChatSpec => []UnseenOfTrueClocks`; `Skewed = {} => (ChatSpec => []UnseenIsUnread)` | `ChatInv` |
| `QuietWhenClosed`, `CertificatesMatch`, `UsersHaveServer` | `AppSpec => []ClosedIsQuiet`, `[]CertPairMatches`, `[]RegisteredServes` | `AppInv` |
| `AppIsTyped` | `AppSpec => []AppTypeOK` | `AppInv`, `AppTypes` |

* `TypeInv` adds `WrittenChunkExists` to the types: the chunk that a connection writes is
  on the disk.  `ReceiveBlock` updates that chunk, so its type depends on it; it holds
  because an open file cannot be removed (Windows), which every removal respects.
* `PersistInv` is `TypeInv`, `IdsIssued` (whatever names a directory got the name from a
  check, so the directory of a new session is named by nothing) and `ListsAgree` (the
  session's list and the state file have the same size, and the session's chunks are
  completed in the state file).  The step that needs all of it is `EndChunk`, which writes
  both lists and may insert an entry that a check replaced.
* `ChecksInv` is about checks in steps.  A directory is made for one file of one size, by the
  check that draws its id, and whatever refers to it is about that file: state files,
  sessions, requests, checks that have loaded such a state file (`KnownDirs`) and the sessions
  that they are about to insert (`EndsKnown`); a session knows the file of its directory
  (`LiveKnow`).  So a session that ends takes the state file along that names its directory, and
  only a check that had loaded it before can go on with the directory: that is `crossed`.
  `FreshUnused` says that nothing uses a directory whose session is still to be inserted, and
  `DirsAreLiveYet` that until a restart each directory that a state file names has a session
  or will get it from such a check, so that a cleanup spares it or finds it empty.  A restart
  or a crash may come between any two steps; only `CheckSparesChunks` stops there.
* `SingleInv` is for checks of one file in one step, on which the pages' theorems rest
  (`MergeHasDirAlone` is `MergeIsAlone` without the exception): each directory is about one
  file of one size (`OneFilePerDir`), sessions that late requests inserted have no chunks
  (`GhostsAreEmpty`), and a session knows the file whose state file names its directory
  (`SessionsKnowTheirFiles`), so that a finalize that starts a merge also deletes the
  state file.  Checks of several files violate it: the page offers them, see section 6.
* `SpareInv` adds to `SingleInv` that until a restart every directory that a state file names
  is that of a session (`DirsAreLive`; the end of a session takes its state file along), so
  that the cleanup of a check leaves it alone.  A restart forgets the sessions and keeps the
  state files: the hypothesis is needed, see section 6.
* `SystemInv` joins `TypeInv` with three facts about the pages: their types; what a script has
  to do is part of one selection (`FilesArePicked`), so that a retry asks for files the server
  may be asked for; and a page with something to send or to finalize has a session
  (`SidsAreSet`).  `PagesUseServer` makes every theorem about `Spec` one about `SystemSpec`.
* `OneTaskEach` needs no events left out.  `NamesKept` is the lemma that all but two kinds of
  steps share (no unfinished task appears, none changes its name); a check replaces what has
  the name of its new task, and `RestartNames` shows that what a start restores from the log
  and from state files has each name once, whatever both contain.
* `StoredInv` follows a chunk through the system, and its nine parts are the stations.
  `ScriptInv`: the page does not finalize before each of its files is done.  `WiresInv`: each
  chunk is on its way once, in the session of the page unless the page was interrupted.
  `BodiesInv` and `WrittenInv`: what is in a chunk file is what the page sent, as far as it
  arrived.  `ListsInv`: a chunk that a session or a state file lists is whole on the disk.
  `DirsInv`: the state file of a file that is being sent names the directory to which it is
  sent.  `ProgressInv`: what the page does not send any more has failed, is on its way or is
  listed.  `MergersInv`: the merge has every chunk of its file, and the files of the upload
  directory that it does not write are right.  `TasksInv`: a task that is completed is that
  of such a file.  There is one lemma for each action of `UploadSystem` (`SendStored`,
  `AnswerStored`, `CheckStored`, ...), over one for what it does to the page
  (`EndFileEffect`, ...) and one for what it does to the server (`CheckServerEffect`, ...).
  Each hypothesis of `Undisturbed` is needed: section 6 has what goes wrong with two pages
  and with several files in a check, and TLC finds `SentIsStored` violated in `one_page`
  with any other event added (and a restart allowed, for "stop" and "crash").

* `FormInv` adds to `StoredInOrder` that the file at work is a prefix of the next content
  and that nothing is at work after the end.  What it proves holds of every specification
  that implements `FormUpload`, and `ParserImplementsForm` proves that `MultipartParser` does:
  whole forms are stored whole, whatever the blocks were.
* `ParserInv` says where a parser is that was given any blocks of a body.  `BufferInv`: the
  buffer is what arrived of the body after the symbols that were consumed.  `At(k)`: it is at
  part `k`, that is, `Where(k)` (its cursor is at the place of the body that its state says,
  and while data is streamed at least two symbols before the next boundary), `SavedInv(k)`
  (the files of the parts before are saved, each under a path of its own), `FileInv(k)` (the
  file at work has the data up to the cursor) and, if there are `EnoughIterations`,
  `RoundsInv(k)` (a call that still goes on has used at most one iteration for each state it
  went through).  `Done` is what remains at the end.  Each action has a lemma (`SkipTextStep`,
  `WriteRestStep`, ...).  These rest on what a window of a body shows: `BoundariesInBody` (the
  boundaries that the parser can find are those between the parts: there is one before each
  part and one at the end, and the browser's choice leaves no other), `NoBoundarySeen` and
  `WindowOccurrences` (the overlap that is kept is long enough, so that a boundary cut by the
  end of a block is not skipped), `HeadersSeen` (an empty line after a boundary is that of the
  headers) and `LineEndBefore` (the line end that is cut off is not of the data).
* `ParserImplementsForm` maps each step of the parser to one of `FormUpload` or to a stutter
  (`FormBegin`, `FormGrow`, `FormSave`, `FormEnd`, joined by `FormSteps`).  Without
  `EnoughIterations` it is false, see section 6; types and sizes need no hypothesis.
* `ParsersReadTheSame`: `PartIsRead` and `EndIsRead` say what one round of
  `parseMultipartFormData` finds at a part and at the end of a body, `ReadingGoesOn` and
  `ReadingEnds` that each round consumes something, so that the recursion is well defined,
  and `ParsedAreParts` that its result is one file for each part that is one.  Induction is by the least number that has not the property
  (`LeastNumber`, `InductionTo`, from the well-foundedness of `<` on the natural numbers), with
  a set or a function where the library's theorems have an operator; `Recursion` says that a
  function with the equations of `FlattenSeq` exists.

* `RegistryInv` adds two facts to the three properties of the registry.  `FreshIsUnknown`:
  a token that was not drawn is in no map, no row and no worker.  `CountIsServed`: as long as
  no count was overwritten with an older one, the pages shown, with the workers that have
  counted one and not shown it yet, are up to each value of the count no more than that value
  (`PagesCounted`), from the count of the row on, as a crash leaves that one.  A worker that
  stores a count has not reached the limit (`Floor`), so that the count of a row does not
  either, and only workers that had checked the page before can show it beyond.  `GoneStaysGone`
  follows from `RowsFollowMemory` in the step, as a start reads what the rows say.
* Downloads do nothing to the registry (`DownloadsUseRegistry`: every step is one of the
  registry or leaves it alone), so `RegistryInv` is an invariant of them as well, by the same
  step lemma.
* `ServeInv` is about requests, queue, tasks and log together.  `LoggedIsTask` (only tasks in
  the list have an entry that a start restores) is why a start brings no second task of a
  file.  `FindsWait` (each request waits for one call, in the right phase) makes the answer of
  the main thread reach the request that asked.  `SentInRange` and `CompletesServed` say that
  the call that completes a task is the last of a request that sent all it was to send;
  `CompletedIsFull` needs neither, but the comparison in `updateTaskProgress`.
* `PageInv` is the invariant of the page of a patient user: one answer is read at a time
  (`OneReader`, `AskedAlone`), the page has the first blocks of a file in order
  (`ChunksInOrder`), and the answer brings the ones that follow (`StreamFollows`).
  `PageTypeOK` is proved before it from types alone.

* `HubInv` joins three of the properties with the types and `AnswersCount`: a connection
  that was sent a ping and owes none has just answered.  `ForgetsSubscriptions` is the
  lemma about `unsubscribeClientFromAll` that closing, failed writes and the heartbeat
  share; it needs `SubscriptionsAgree`, as the code looks at one map to clean the other.
* `ChatInv` follows a message of an address whose clock is right.  `OldIsQuiet` (only silence
  makes its user old) and `PendingIsYoung` (not while a worker has a message of it) keep the
  user from being removed between the four steps of the handler; `UnseenIsStored` and
  `UnseenCounts` say what each step has reached.  It holds whatever the clocks of the others
  do: `TrueClocksAreSafe` needs no hypothesis, and `UnseenStaysUnread` is the case without
  wrong clocks.
* `AppInv` has a part for each theorem.  `Quiescence` says what has ended by the place of
  the main thread; `Pairs` what there is of a certificate while it is made; `Serving` that
  a window is only made of an application whose users have a server.
* `CountIsTight` (the rounded quotient) and `Multiples` are what the slices rest on.
  `splitFile`, the server's loop, is a recursive function.  `CutsAreSlices` proves by the same
  kind of induction that it gives the slices of the page for all sizes; the assumption
  `SplitAssumption` of `MCUploadServer` evaluates it for sizes up to 40 as well.

Actions that only forget (deletion, expiry, restart, publication) and actions that only
pause are handled once, by `Forgets` and `PauseStep`, which say what such a step may do.

Only model-checked: liveness (`MergeIsReported`, `StartedIsSent`, `NoneHangs`,
`DeadIsForgotten`, `WaitsEnd`), which needs `ENABLED` and is out of this prover's reach.
Every safety property of a passing run is the statement of a theorem, some under the
hypotheses above.  No module declares a `RECURSIVE` operator.

## 6 Findings

The run `lost_tail` shows finding 2.  The others are definitions of the modules that TLC
finds violated when they are added to a run (named in brackets); `PROJECT.json` quotes
the lines they contradict.

1. (`UploadServer`, `WrongIsForgotten`) `handleUploadCheck` loads `existingInfo`, lets
   `validateCompletedChunks` correct the state file, and then saves `existingInfo` over
   it.  A chunk that the log says is "degraded to pending" is completed again, in the file
   and in the session; the page does not send it, and the merge fails.
2. (`lost_tail`) The size of the last chunk is not checked.  A connection cut in it
   leaves a truncated chunk that counts as completed, the page's next try is answered
   "skipped", finalize answers success, and the merge finds the wrong size after the state
   file is gone.  The page reports "Successfully sent".
3. (`UploadSystem`, `FinalIsWhole`, with the event `crash`) `mergeChunks` gives the output
   its final size first.  After a crash the file has the right size and wrong content, and
   the next check reports it as existing, so the page skips it.
4. (`UploadSystem`, `CanGoOn`, with the event `pause`) `isUploading` is set by
   `startUpload` only.  After a pause "retry" takes no file, ends at once, and hides its
   own button: the page must be reloaded (which resumes correctly, `one_page`).
5. (`ServedDownload`, `ResumeWorks`) `resumeDownload` of `share.html` calls `arrayBuffer()`
   on byte arrays, which have no such method: a download that was interrupted ends in an
   error until the page is reloaded.
6. (`NetShareApp`, `QuitEnds`) The main thread waits for the workers of the server, and a
   worker that waits for the main thread to find its task waits for ever.
7. (`NetShareApp`, `MergeHasHandler`) A merge in the pool may end after the handler that
   it reports to is gone; so may a mail after its service.
8. (`NetShareApp`, `WindowHasChat`) The window is given chat and server once: in the
   session of the registration they are missing.
9. (`Registration`, `TrialIsPossible`) The trial user has a fixed, unique name: after a
   change of the hardware a second trial is refused.
10. (`Registration`, `RegisteredIsKnown`) A user who registers again on other hardware is
    asked at every start, as the first registered row counts.
11. (`WsHub`, `Known`) The entries of a connection that never subscribed stay until its
    slot is used again, and each heartbeat closes it once more.
12. (`ChatService`, `BroadcastMessage`) A message is sent to all pages before its request
    is answered; the sender's page shows an echo that is faster than the answer as
    somebody else's message.
13. (`UploadSystem`, `SentIsStored`, with two pages that have a file each and the event
    `lost`, or one page and `again`) A finalize forgets its session before the merge, and a
    check that resumes any other upload removes the directories that no session has: the
    chunks go while the merge reads them, and the task is completed.  `MergeIsAlone`
    says that nothing *refers* to the directory of a merge; this cleanup asks nobody.
14. (`UploadSystem`, `SentIsStored`, with the event `delete` in `one_page`) Deleting a task
    leaves its session: the page goes on sending chunks, and when the file was checked again
    their last calls mark them as completed in the state file of the new session, which never
    never had them.
15. (`UploadChecks`, `MergeIsAlone` and `MergeSparesChunks` without their exception) A check
    loads the state file, and a finalize of the same upload removes session and state file
    and starts the merge before the check saves it again and inserts its session: the merge
    then deletes the chunks that this session counts as completed.
16. (`ShareRegistry`, `RowsFollowMemory` and `LimitHolds` without their exception) Workers
    increment, compare and store the count of a share without a lock: an increment may be
    lost, and an older count stored last, which a start then reads.

Further observations, each reproduced with these modules by changing one constant:

* `SentIsStored` with `Events = {"stop"}` or `{"expire"}`: a finalize that reaches a
  restarted application, or comes after the session has expired, finds no session and
  answers success.  With `{"stall"}` a last chunk is cut as in finding 2.
* `SentIsStored` with several files in one check (`Picks <- Both`, `Selections <-
  Together`): the retry of a part of the selection gets a session of its own, and its
  finalize and cleanup delete the chunks of the files that were complete; and a check that
  resumes several files reuses the directory of the first only.
* `FinalIsWhole` with `Events = {"cut"}` and `Blocks = 2`: two requests for the last chunk
  write the same file; the second truncates it, the first leaves a hole, and the length is
  right.
* `CheckSparesChunks` without its hypothesis on restarts: after a start there are no
  sessions, and the check that resumes one upload removes the chunks of the others.
* `StoresForm` with `MaxIterations = 4`: the loop of `processBuffer` ends after a number of
  iterations (100 in the code) whatever is in the buffer, and `finish` runs it once more; a
  block with more parts than that allows loses the rest.  A part takes three iterations, so
  `ParserImplementsForm` covers 33 parts in the code.  The pages send one file per request.
* `SavedIsWhole` with `Impatient = TRUE`: a second click on "download" while one runs
  mixes the blocks of two requests.
* `UnseenIsUnread` with `Skewed = {i1}`: the time of a message is the client's, so a clock
  that is more than half an hour behind makes its user and the conversation disappear at
  the next minute, with messages nobody has seen.
* `OneTaskPerName` on the server alone: `/api/upload/pause` and `resume`, which no page
  calls, can bring back a task that a newer check replaced in the list.

## 7 Abstractions and what is left out

* A handler's call is one step, but for chunk requests, merges, the check in `UploadChecks`
  and `shareAccessed` in `ShareRegistry`.  Calls of two handlers can overlap inside these
  steps in the program, since there is no lock; a data race on the structure of a `QMap` is
  undefined and is not modelled.
* `UploadSystem`, which adds the pages, has the check of `UploadServer`, in one step: what its
  properties say of a page is said up to the overlap of a check and a finalize (finding 15).
* A file is its number of chunks, a chunk its number of blocks and their content's tag.
  How a file is cut is in `ChunkSplit`; the bookkeeping of files below the chunk threshold
  is not in the model.  Two files of different sizes have different numbers of chunks.
* File names are numbers, ordered as the map orders them; folder paths are left out.
* The state file's status and progress, speeds and counters of tasks are left out.  The
  state file is written by one step; a crash may leave one of them torn.
* `log[t]` keeps what a start reads.  A start restores `Started` and `Paused` rows; later
  `Completed` and `Failed` rows do not hide them.
* An accepted chunk beyond the session's list is undefined in the code.  The model leaves
  the list as it is, or crashes; `InFlightChunkKnown` says when it cannot happen.
* Open files cannot be deleted: the program is documented for Windows, where `QFile` opens
  without `FILE_SHARE_DELETE`.
* At a stop, Qt waits for the pool; a crash ends it.
* Replies to checks and finalize requests are not lost: for the page this is a reload.  A
  chunk request that is refused at once is answered at once.
* A reload and a new selection of the same files are the only way out of the page's end.
* `CompletedIsStored` looks at moments without a merge: a task that was completed by one
  merge may be adopted and merged again.
* `MultipartParser`: the header of a part is one symbol, a browser's boundary does not
  occur in its data, writes to an open file succeed, and a file name with directories is
  listed once per request.
* Calls of `ShareManager` from the main thread, of `ChatService` and of the WebSocket
  handlers are one step each, though no lock protects their maps.  What is kept are the gaps
  between calls: a share that is checked and counted, a message that is stored and counted, a
  subscription that a heartbeat meets.
* `shareAccessed` may find a share with `contains` and make an empty entry with
  `operator[]` if it is removed in between, and write to an entry that is gone: the first
  is left out, the second changes no share.
* Passwords and texts of shares are left out.  A zip is packed for every request and is as
  long as `file` says, or fails.
* Names, devices and texts of the chat are left out.  Users of other applications cannot
  be found: `mDNSService` never emits `serviceDiscovered`.
* Registration codes are taken to be right; `RegistrationKey` (cryptography) and `AntiDebug`
  are not in the models.
* The settings are choices: encryption on or off, certificate paths there or not.

### Not modelled, and why

* **Download engine** (`startDownload`, `performDownload`, workers).  Nothing calls it: it
  can be invoked from QML and no QML file does.  Its workers could not run either: they
  are made in a pool thread that then waits in `waitForFinished`, and their slots are
  queued to that thread.  **Bandwidth limits** are only fed by it.
* **`POST /receive`, `/upload/*`, `/api/upload/single`**: no page uses them.
* **Bookkeeping of small files** (`uploadSmall`, tasks of files below 10 MB) and folder
  paths; their bodies are those of `MultipartParser`.
* **Logger, settings, notifications, mDNS, file browser, themes, QR codes**: input, output
  and presentation, without a protocol of their own.

## 8 Plan

Done: the uploads (`UploadServer`, `ReceivePage`, `UploadSystem`), the parsers, `ChunkSplit`,
shares and downloads, hub and chat, registration and the life of the application, with the
proofs of section 5, which cover every safety property that a passing run checks.  Left, in
this order:

1. `UploadService`, an abstract upload (offered, accepted chunks, stored or lost), which
   `UploadServer` implements for checks of one file; the step lemmas of
   `UploadServerProofs` are what its proof needs.
2. `SmallUpload`: files below the chunk threshold, where the page slices the file at the
   size its check reported while an earlier request may still be written.
