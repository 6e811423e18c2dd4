----------------------------- MODULE ReceivePage -----------------------------
(***************************************************************************)
(* The upload script of web/receive.html, as it runs in the browsers.      *)
(*                                                                         *)
(* A page checks its selection, uploads the chunks of its files over a     *)
(* few requests at a time, tries failed chunks again, and finalizes when   *)
(* all files are done.  The answers of the server are parameters of the    *)
(* actions; UploadSystem connects them to UploadServer.                    *)
(*                                                                         *)
(* A call is an invocation of startUpload or retryFailed.  The flag on     *)
(* (isUploading) is set by startUpload alone.                              *)
(***************************************************************************)
EXTENDS Naturals, FiniteSets

CONSTANTS
  Browsers,      \* the pages
  Files,         \* names of files
  Index,         \* chunk indices
  Length,        \* Length[b][f]: the number of chunks of f in browser b
  Sids,          \* session ids
  Conns,         \* connections
  MaxConcurrent, \* MAX_CONCURRENT: files (and chunks of a file) at a time
  Rounds,        \* how often the failed chunks of a file are tried again
  None

VARIABLES
  pages,  \* the state of each page
  wire    \* wire[c]: the request of a page that connection c carries, or None

pageVars == <<pages, wire>>

Chosen == {"pending", "uploading", "paused", "failed", "done"}

Page == [phase  : {"idle", "run", "over", "finalizing", "sent"},
         sid    : Sids \cup {None},                    \* uploadSessionId
         on     : BOOLEAN,                             \* isUploading
         retry  : BOOLEAN,                             \* the retry button is shown
         status : [Files -> Chosen \cup {None}],       \* uploadStatus
         failed : SUBSET Files,                        \* failedFiles
         todo   : SUBSET Files,                        \* fileList from idx on
         active : SUBSET Files,                        \* running uploadChunked calls
         left   : [Files -> SUBSET Index],             \* pending from nextCI on
         bad    : [Files -> SUBSET Index],             \* failedChunks
         rounds : [Files -> 0 .. Rounds]]              \* maxRetries

Request == [page : Browsers, file : Files, index : Index]

PageTypeOK ==
  /\ pages \in [Browsers -> Page]
  /\ wire \in [Conns -> Request \cup {None}]

NewPage ==
  [phase |-> "idle", sid |-> None, on |-> FALSE, retry |-> FALSE,
   status |-> [f \in Files |-> None], failed |-> {}, todo |-> {}, active |-> {},
   left |-> [f \in Files |-> {}], bad |-> [f \in Files |-> {}],
   rounds |-> [f \in Files |-> 0]]

PageInit ==
  /\ pages = [b \in Browsers |-> NewPage]
  /\ wire = [c \in Conns |-> None]

-----------------------------------------------------------------------------
\* The chunks of file f of page b that are on their way.
InFlight(b, f) ==
  {wire[c].index : c \in {d \in Conns : wire[d] # None /\ wire[d].page = b /\ wire[d].file = f}}

\* markAllActiveAsPaused and markAllActiveAsFailed
Stopped(p, mark) ==
  LET hit == {f \in Files : p.status[f] \in {"uploading", "pending"}}
  IN  [p EXCEPT !.on = FALSE,
                !.status = [f \in Files |-> IF f \in hit THEN mark ELSE p.status[f]],
                !.failed = @ \cup hit]

\* What the reply of a check of the files S sets in page p: the session, the
\* files that exist, and the chunks have[f] of the others that the server has.
\* (A running call of uploadChunked keeps the list of chunks that it made.)
Checked(p, b, S, sid, existing, have) ==
  [p EXCEPT !.phase  = "run",
            !.sid    = sid,
            !.status = [f \in Files |-> IF f \in existing THEN "done"
                                        ELSE IF f \in S THEN "pending" ELSE p.status[f]],
            !.failed = {},
            !.todo   = S \ existing,
            !.left   = [f \in Files |-> IF f \in (S \ existing) \ p.active
                                        THEN (0 .. Length[b][f] - 1) \ have[f] ELSE p.left[f]]]

\* startUpload up to the reply of its check
Start(b, S, sid, existing, have) ==
  /\ pages[b].phase = "idle"
  /\ S # {}
  /\ pages' = [pages EXCEPT ![b] =
                 [Checked(NewPage, b, S, sid, existing, have) EXCEPT !.on = TRUE]]
  /\ UNCHANGED wire

\* retryFailed up to the reply of its check, which is for the failed files only
Retry(b, sid, existing, have) ==
  /\ pages[b].retry
  /\ pages[b].failed # {}
  /\ pages' = [pages EXCEPT ![b] =
                 [Checked(pages[b], b, pages[b].failed, sid, existing, have) EXCEPT !.retry = FALSE]]
  /\ UNCHANGED wire

\* uploadConcurrent: a worker takes the next file, and uploadChunked starts.
TakeFile(b, f) ==
  /\ pages[b].phase = "run"
  /\ pages[b].on
  /\ f \in pages[b].todo
  /\ \A g \in pages[b].todo : f <= g
  /\ Cardinality(pages[b].active) < MaxConcurrent
  /\ pages' = [pages EXCEPT ![b].todo = @ \ {f},
                            ![b].active = @ \cup {f},
                            ![b].status[f] = "uploading",
                            ![b].bad[f] = {},
                            ![b].rounds[f] = Rounds]
  /\ UNCHANGED wire

\* uploadNextChunk: the next chunk of a file is due.  (The loop does not look
\* at isUploading.)
Due(b, f, i) ==
  /\ f \in pages[b].active
  /\ i \in pages[b].left[f]
  /\ \A j \in pages[b].left[f] : i <= j
  /\ Cardinality(InFlight(b, f)) < MaxConcurrent

\* The request takes connection c.
Send(b, f, i, c) ==
  /\ Due(b, f, i)
  /\ wire[c] = None
  /\ wire' = [wire EXCEPT ![c] = [page |-> b, file |-> f, index |-> i]]
  /\ pages' = [pages EXCEPT ![b].left[f] = @ \ {i}]

\* The server answers at once: 200 (the chunk is there already), ...
Skipped(b, f, i) ==
  /\ Due(b, f, i)
  /\ pages' = [pages EXCEPT ![b].left[f] = @ \ {i}]
  /\ UNCHANGED wire

\* ... 409, after which this call of uploadChunked never returns (its promise
\* is rejected where only the fulfilment is handled), ...
Refused(b, f, i) ==
  /\ Due(b, f, i)
  /\ pages' = [pages EXCEPT ![b] =
                 [Stopped(pages[b], "paused") EXCEPT !.left[f] = {},
                                                     !.active = @ \ {f},
                                                     !.retry = TRUE]]
  /\ UNCHANGED wire

\* ... or 400.
Rejected(b, f, i) ==
  /\ Due(b, f, i)
  /\ pages' = [pages EXCEPT ![b].left[f] = @ \ {i}, ![b].bad[f] = @ \cup {i}]
  /\ UNCHANGED wire

\* The answer 200 to the request on connection c arrives, ...
Answered(c) ==
  /\ wire[c] # None
  /\ wire' = [wire EXCEPT ![c] = None]
  /\ UNCHANGED pages

\* ... or the answer 400 or a network error.
Failed(c) ==
  /\ wire[c] # None
  /\ wire' = [wire EXCEPT ![c] = None]
  /\ LET r == wire[c]
     IN  pages' = [pages EXCEPT ![r.page].bad[r.file] =
                     IF r.file \in pages[r.page].active THEN @ \cup {r.index} ELSE @]

\* Mutant: the requests that are still on their way are not waited for.
SettledEarly(b, f) ==
  /\ f \in pages[b].active
  /\ pages[b].left[f] = {}

\* All chunks of f that were due were answered.
Settled(b, f) ==
  /\ f \in pages[b].active
  /\ pages[b].left[f] = {}
  /\ InFlight(b, f) = {}

\* Mutant: the tries are not limited.
AnotherRound(b, f) ==
  /\ Settled(b, f)
  /\ pages[b].bad[f] # {}
  /\ pages' = [pages EXCEPT ![b].left[f] = pages[b].bad[f],
                            ![b].bad[f] = {},
                            ![b].rounds[f] = @ - 1]
  /\ UNCHANGED wire

NextRound(b, f) ==
  /\ Settled(b, f)
  /\ pages[b].bad[f] # {}
  /\ pages[b].rounds[f] > 0
  /\ pages' = [pages EXCEPT ![b].left[f] = pages[b].bad[f],
                            ![b].bad[f] = {},
                            ![b].rounds[f] = @ - 1]
  /\ UNCHANGED wire

\* uploadOne returns or throws; the result counts only while isUploading.
EndFile(b, f) ==
  /\ Settled(b, f)
  /\ pages[b].bad[f] = {} \/ pages[b].rounds[f] = 0
  /\ LET thrown == pages[b].bad[f] # {}
         p == [pages[b] EXCEPT !.active = @ \ {f}]
     IN  pages' = [pages EXCEPT ![b] =
           IF ~p.on THEN p
           ELSE IF thrown
           THEN [p EXCEPT !.status[f] = "failed", !.failed = @ \cup {f}]
           ELSE [p EXCEPT !.status[f] = "done"]]
  /\ UNCHANGED wire

\* The end of startUpload and of retryFailed.  With isUploading off it may
\* come before the last uploads end: they change nothing that it looks at.
EndCall(b) ==
  /\ pages[b].phase = "run"
  /\ pages[b].on => pages[b].todo = {} /\ pages[b].active = {}
  /\ LET p == pages[b]
         some(mark) == \E f \in Files : p.status[f] = mark
         rest == \E f \in Files : p.status[f] \in Chosen \ {"done"}
     IN  pages' = [pages EXCEPT ![b].phase = IF rest THEN "over" ELSE "finalizing",
                                ![b].retry = p.retry \/ some("paused") \/ some("failed")]
  /\ UNCHANGED wire

\* finalize: the server answers with success.
Finalized(b) ==
  /\ pages[b].phase = "finalizing"
  /\ pages' = [pages EXCEPT ![b].phase = "sent"]
  /\ UNCHANGED wire

\* The message pause_upload arrives on the WebSocket.
PauseUpload(b) ==
  /\ pages' = [pages EXCEPT ![b] = [Stopped(pages[b], "paused") EXCEPT !.retry = TRUE]]
  /\ UNCHANGED wire

\* The WebSocket was gone for ten seconds.
Disconnected(b) ==
  /\ pages[b].on
  /\ \E f \in Files : pages[b].status[f] \in {"uploading", "pending"}
  /\ pages' = [pages EXCEPT ![b] = [Stopped(pages[b], "failed") EXCEPT !.retry = TRUE]]
  /\ UNCHANGED wire

\* The page is loaded again: its requests are aborted, and the user may select
\* files again, as the page asks to after an interruption.
Reload(b) ==
  /\ pages[b].phase # "idle"
  /\ pages' = [pages EXCEPT ![b] = NewPage]
  /\ wire' = [c \in Conns |-> IF wire[c] # None /\ wire[c].page = b THEN None ELSE wire[c]]
=============================================================================
