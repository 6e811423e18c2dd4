---------------------------- MODULE ServedDownload ----------------------------
(***************************************************************************)
(* Downloads of shared files and folders: the requests that RequestHandler *)
(* serves in worker threads, the download tasks of FileTransferEngine that *)
(* the main thread keeps for them, and the page of a share in a browser.   *)
(*                                                                         *)
(* Files are counted in blocks of 64 KB.  A worker talks to the main       *)
(* thread by calls that wait in its queue; only the call that finds the    *)
(* task of a download is waited for.                                       *)
(***************************************************************************)
EXTENDS ShareRegistry, Sequences

CONSTANTS
  Folders,    \* the paths that are folders: their zip is what is sent
  Sizes,      \* sizes of files and zips
  Requests,   \* worker threads that serve a download
  TaskIds,    \* ids of download tasks, each drawn at most once
  Ranges,     \* the ranges <<first, last>> that other clients ask for, last may be None
  Actors,     \* who takes part, a subset of AllActors
  Impatient,  \* whether the user clicks on "download" while one is running
  MaxEvents   \* how often files change and the application is closed and started

AllActors ==
  {"user",    \* the user of the application shares files and ends shares,
   "list",    \* uses the buttons of the transfer list,
   "stop",    \* closes the application and starts it again;
   "page",    \* a browser shows the page of a share,
   "client"}  \* other programs download, for instance download managers

ASSUME DownloadAssumption ==
  /\ Folders \subseteq Paths
  /\ Sizes \subseteq Nat
  /\ Ranges \subseteq Nat \X (Nat \cup {None})
  /\ Actors \subseteq AllActors
  /\ Impatient \in BOOLEAN
  /\ MaxEvents \in Nat
  /\ None \notin Requests \cup TaskIds

VARIABLES
  file,    \* the size of each file, or of the zip of each folder
  reqs,    \* the requests being served
  calls,   \* the event queue of the main thread
  tasks,   \* the download tasks of m_tasks
  log,     \* the newest restorable log entry of each task
  stream,  \* what the requests of the page have sent it and it has not read
  page,    \* the page of the share in a browser
  \* For the properties:
  saved,   \* what the page saved last, and the size it had been told
  ended,   \* the tasks of requests that came to the end of their file,
  cut,     \* and of requests that were to end before the end of the file
  events, drawn

serveVars == <<file, reqs, calls, tasks, log, ended, cut, events, drawn>>
pageVars == <<stream, page, saved>>
allVars == <<regVars, serveVars, pageVars>>

Statuses == {"Downloading", "Paused", "Failed", "Completed"}
Task == [path : Paths, status : Statuses, size : Nat, sent : Nat]

\* first and past are the range that is sent, ranged if the request named one.
Request ==
  [path : Paths, phase : {"asking", "found", "sending"}, ranged : BOOLEAN,
   first : Nat, to : Nat \cup {None}, past : Nat, size : Nat, sent : Nat,
   task : TaskIds \cup {None}]

ASSUME NoneIsNoRecord == None \notin Task \cup Request

NewPage ==
  [shown |-> FALSE, asked |-> 0, chunks |-> <<>>, size |-> 0, cancelled |-> FALSE, error |-> FALSE]

DownloadTypeOK ==
  /\ RegistryTypeOK
  /\ file \in [Paths -> Nat]
  /\ reqs \in [Requests -> Request \cup {None}]
  /\ tasks \in [TaskIds -> Task \cup {None}]
  /\ log \in [TaskIds -> [status : {"Paused", "Downloading"}, sent : Nat] \cup {None}]
  /\ \A t \in TaskIds : log[t] # None => tasks[t] # None
  /\ \A r \in Requests : stream[r] # None =>
       stream[r].blocks \in Seq(Nat) /\ stream[r].end \in {"open", "whole", "broken"}
  /\ page.chunks \in Seq(Nat)
  /\ page.size \in Nat
  /\ ended \cup cut \cup drawn \subseteq TaskIds

\* The application starts with shares in the table.
Shared(p) == [path |-> p, source |-> 0, expires |-> None, limit |-> 0, count |-> 0]

DownloadInit ==
  /\ \E f \in [Tokens -> Paths] : shares = [t \in Tokens |-> Shared(f[t])]
  /\ rows = shares
  /\ made = [t \in Tokens |-> 0]
  /\ disk = Paths
  /\ views = [v \in Viewers |-> None]
  /\ access = [v \in Viewers |-> None]
  /\ now = 0
  /\ served = [t \in Tokens |-> 0]
  /\ failed = {}
  /\ lost = {}
  /\ copies = {}
  /\ file \in [Paths -> Sizes]
  /\ reqs = [r \in Requests |-> None]
  /\ calls = <<>>
  /\ tasks = [t \in TaskIds |-> None]
  /\ log = [t \in TaskIds |-> None]
  /\ stream = [r \in Requests |-> None]
  /\ page = NewPage
  /\ saved = [chunks |-> <<>>, size |-> 0]
  /\ ended = {} /\ cut = {} /\ events = 0 /\ drawn = {}

Span(q) == IF q.past > q.first THEN q.past - q.first ELSE 0

-----------------------------------------------------------------------------
(* Tasks, in the main thread *)

Named(p) == {t \in TaskIds : tasks[t] # None /\ tasks[t].path = p}

\* Mutant: the entries stay.
MutLogWithout(T) == log

\* deleteLogsByFileName
LogWithout(T) == [t \in TaskIds |-> IF t \in T THEN None ELSE log[t]]

\* Mutant: a paused task is not taken up again.
MutResumable == {"Failed"}

Resumable == {"Failed", "Paused"}

\* The first task of the name is looked at, and only that.
ResumeOrCreate(p, size, start, t) ==
  LET task == [path |-> p, status |-> "Downloading", size |-> size, sent |-> start]
      New(old) ==
        /\ t \notin drawn
        /\ drawn' = drawn \cup {t}
        /\ tasks' = [u \in TaskIds |-> IF u = t THEN task
                                       ELSE IF u \in old THEN None ELSE tasks[u]]
  IN  \/ /\ Named(p) = {}
         /\ New({})
         /\ UNCHANGED log
      \/ \E u \in Named(p) :
           \/ tasks[u].status = "Downloading" /\ t = u /\ UNCHANGED <<tasks, log, drawn>>
           \/ /\ tasks[u].status \in Resumable
              /\ t = u
              /\ tasks' = [tasks EXCEPT ![t] = [@ EXCEPT !.status = "Downloading", !.sent = start]]
              /\ log' = LogWithout(Named(p))
              /\ UNCHANGED drawn
           \/ /\ tasks[u].status = "Completed"
              /\ New({u})
              /\ log' = LogWithout(Named(p))
           \/ /\ tasks[u].status \notin Resumable \cup {"Downloading", "Completed"}
              /\ New({})
              /\ UNCHANGED log

\* Mutant: progress is taken from any call.
MutProgressed(t, n) == [tasks EXCEPT ![t].sent = n]

Progressed(t, n) ==
  IF tasks[t].status = "Downloading" THEN [tasks EXCEPT ![t].sent = n] ELSE tasks

Finished(t) == [tasks EXCEPT ![t] = [@ EXCEPT !.status = "Completed", !.sent = tasks[t].size]]
Failed(t) == [tasks EXCEPT ![t].status = "Failed"]

\* The main thread takes the next call from its queue; calls for a task that
\* is gone do nothing.  A failure and the log entry of a completed transfer
\* cannot be restored.
HandleCall ==
  /\ calls # <<>>
  /\ calls' = Tail(calls)
  /\ LET c == Head(calls)
     IN  IF c.kind = "find"
         THEN LET q == reqs[c.of]
              IN  \E t \in TaskIds :
                    /\ ResumeOrCreate(q.path, q.size, q.first, t)
                    /\ reqs' = [reqs EXCEPT ![c.of] = [@ EXCEPT !.task = t, !.phase = "found"]]
         ELSE /\ tasks' = IF tasks[c.of] = None THEN tasks
                          ELSE IF c.kind = "progress" THEN Progressed(c.of, c.sent)
                          ELSE IF c.kind = "complete" THEN Finished(c.of)
                          ELSE Failed(c.of)
              /\ UNCHANGED <<reqs, log, drawn>>
  /\ UNCHANGED <<regVars, pageVars, file, ended, cut, events>>

\* The log entry of a paused or running task.
Entry(task) == [status |-> task.status, sent |-> task.sent]

EnginePause(t) ==
  /\ tasks' = [tasks EXCEPT ![t].status = "Paused"]
  /\ log' = [log EXCEPT ![t] = Entry(tasks'[t])]
  /\ UNCHANGED <<regVars, pageVars, file, reqs, calls, ended, cut, events, drawn>>

\* The buttons of the transfer list.  Nobody tells the request.
PauseTask(t) ==
  /\ tasks[t] # None
  /\ tasks[t].status = "Downloading"
  /\ EnginePause(t)

ResumeTask(t) ==
  /\ tasks[t] # None
  /\ tasks[t].status = "Paused"
  /\ tasks' = [tasks EXCEPT ![t].status = "Downloading"]
  /\ log' = [log EXCEPT ![t] = Entry(tasks'[t])]
  /\ UNCHANGED <<regVars, pageVars, file, reqs, calls, ended, cut, events, drawn>>

DeleteTask(t) ==
  /\ tasks[t] # None
  /\ LET T == Named(tasks[t].path)
     IN  /\ tasks' = [u \in TaskIds |-> IF u \in T THEN None ELSE tasks[u]]
         /\ log' = LogWithout(T)
  /\ UNCHANGED <<regVars, pageVars, file, reqs, calls, ended, cut, events, drawn>>

\* A call or a request that will report progress of task t within a minute.
Working(t) ==
  \/ \E r \in Requests : reqs[r] # None /\ reqs[r].task = t
  \/ \E i \in DOMAIN calls : calls[i].kind # "find" /\ calls[i].of = t

\* Mutant: the timer looks after uploads alone.
MutAutoPause(t) ==
  /\ tasks[t] # None
  /\ tasks[t].status = "Uploading"
  /\ EnginePause(t)

\* No progress for three minutes.
AutoPause(t) ==
  /\ tasks[t] # None
  /\ tasks[t].status = "Downloading"
  /\ ~Working(t)
  /\ EnginePause(t)

-----------------------------------------------------------------------------
(* Requests, in worker threads *)

Event == events < MaxEvents /\ events' = events + 1

\* handleFileDownload and handleFolderDownload: a share that is gone or over is
\* answered with 404; a folder is packed again for every request.
Begin(r, t, ranged, from, to) ==
  /\ reqs[r] = None
  /\ stream[r] = None
  /\ IsLive(t)
  /\ LET p == shares[t].path
     IN  /\ IF p \in Folders
            THEN Event /\ \E n \in Sizes : file' = [file EXCEPT ![p] = n]
            ELSE p \in disk /\ UNCHANGED <<file, events>>
         /\ reqs' = [reqs EXCEPT ![r] =
              [path |-> p, phase |-> "asking", ranged |-> ranged, first |-> from, to |-> to,
               past |-> 0, size |-> file'[p], sent |-> 0, task |-> None]]
  /\ calls' = Append(calls, [kind |-> "find", of |-> r])
  /\ UNCHANGED <<regVars, tasks, log, ended, cut, drawn>>

\* Mutant: a range that ends just behind the file is not shortened.
MutPast(q, size) == IF q.to = None \/ q.to > size THEN size ELSE q.to + 1

\* The end of what is sent of a file of this size.
Past(q, size) == IF q.to = None \/ q.to >= size THEN size ELSE q.to + 1

Ended(r, kind) ==
  /\ reqs' = [reqs EXCEPT ![r] = None]
  /\ calls' = Append(calls, [kind |-> kind, of |-> reqs[r].task])

\* sendStreamingFileResponse opens the file: no file is 404, a range behind its
\* end 416, and both make the task fail.
Open(r) ==
  /\ reqs[r] # None
  /\ reqs[r].phase = "found"
  /\ LET q == reqs[r]
     IN  IF q.path \notin disk \/ (q.ranged /\ q.first >= file[q.path])
         THEN /\ Ended(r, "fail")
              /\ stream' = [stream EXCEPT ![r] = IF @ = None THEN None ELSE [@ EXCEPT !.end = "broken"]]
         ELSE /\ reqs' = [reqs EXCEPT ![r] =
                   [@ EXCEPT !.phase = "sending", !.past = Past(q, file[q.path])]]
              /\ UNCHANGED <<calls, stream>>
  /\ UNCHANGED <<regVars, file, tasks, log, page, saved, ended, cut, events, drawn>>

\* More to send, and more to read in the file as it is now.
HasMore(q) == q.sent < Span(q) /\ q.first + q.sent < file[q.path]

SendBlock(r) ==
  /\ reqs[r] # None
  /\ reqs[r].phase = "sending"
  /\ LET q == reqs[r]
     IN  /\ HasMore(q)
         /\ reqs' = [reqs EXCEPT ![r].sent = @ + 1]
         /\ calls' = Append(calls, [kind |-> "progress", of |-> q.task, sent |-> q.first + q.sent + 1])
         /\ stream' = [stream EXCEPT ![r] =
              IF @ = None THEN None
              ELSE [@ EXCEPT !.blocks = Append(stream[r].blocks, q.first + q.sent)]]
  /\ UNCHANGED <<regVars, file, tasks, log, page, saved, ended, cut, events, drawn>>

\* A request without a range is complete if it sent the size that the file had
\* when it began, one with a range if it sent anything.
Complete(q) == q.sent > 0 /\ (q.ranged \/ q.sent = q.size)

\* Mutant: a write that fails ends the loop like the end of the file.
MutResult(q, broken) == IF Complete(q) THEN "complete" ELSE "fail"

Result(q, broken) == IF ~broken /\ Complete(q) THEN "complete" ELSE "fail"

\* The loop is over: the connection broke, or there is nothing more to send.
EndSend(r, broken) ==
  /\ reqs[r] # None
  /\ reqs[r].phase = "sending"
  /\ LET q == reqs[r]
     IN  /\ broken = HasMore(q)
         /\ Ended(r, Result(q, broken))
         /\ stream' = [stream EXCEPT ![r] =
              IF @ = None THEN None
              ELSE [@ EXCEPT !.end = IF ~broken /\ q.sent = Span(q) THEN "whole" ELSE "broken"]]
         /\ ended' = IF ~broken /\ q.first + q.sent >= file[q.path] THEN ended \cup {q.task} ELSE ended
         /\ cut' = IF q.past < file[q.path] THEN cut \cup {q.task} ELSE cut
  /\ UNCHANGED <<regVars, file, tasks, log, page, saved, events, drawn>>

-----------------------------------------------------------------------------
(* The page of the share *)

Running == {r \in Requests : stream[r] # None}

\* startDownload: a HEAD request tells the size.
AskSize(t) ==
  /\ page.shown
  /\ page.asked < 2
  /\ Impatient \/ (page.asked = 0 /\ Running = {})
  /\ IsLive(t)
  /\ shares[t].path \in disk \ Folders
  /\ page' = [page EXCEPT !.asked = @ + 1, !.cancelled = FALSE, !.size = file[shares[t].path]]
  /\ UNCHANGED <<regVars, serveVars, stream, saved>>

\* saveFile
Save ==
  /\ saved' = [chunks |-> page.chunks, size |-> page.size]
  /\ page' = [page EXCEPT !.chunks = <<>>]

\* Mutant: what the page has does not keep it from asking for the whole file.
MutThrows == FALSE

\* The parts that the page has are byte arrays, which have no arrayBuffer():
\* counting them fails.
Throws == page.chunks # <<>>

\* resumeDownload: only a page that has nothing asks for the file.
Resume(t) ==
  /\ page.asked > 0
  /\ page' = [page EXCEPT !.asked = @ - 1, !.error = Throws]
  /\ \/ Throws /\ UNCHANGED <<regVars, serveVars, stream>>
     \/ /\ ~Throws
        /\ \E r \in Requests :
             /\ Begin(r, t, FALSE, 0, None)
             /\ stream' = [stream EXCEPT ![r] = [blocks |-> <<>>, end |-> "open"]]
     \/ ~Throws /\ ~IsLive(t) /\ UNCHANGED <<regVars, serveVars, stream>>
  /\ UNCHANGED saved

\* A part of the answer has arrived; a loop that was cancelled ends instead.
ReadBlock(r) ==
  /\ stream[r] # None
  /\ stream[r].blocks # <<>>
  /\ IF page.cancelled
     THEN stream' = [stream EXCEPT ![r] = None] /\ UNCHANGED page
     ELSE /\ page' = [page EXCEPT !.chunks = Append(@, Head(stream[r].blocks))]
          /\ stream' = [stream EXCEPT ![r].blocks = Tail(@)]
  /\ UNCHANGED <<regVars, serveVars, saved>>

IsWhole == Len(page.chunks) >= page.size

\* The answer is over: save the file if it is whole.
EndRead(r) ==
  /\ stream[r] # None
  /\ stream[r].blocks = <<>>
  /\ stream[r].end # "open"
  /\ stream' = [stream EXCEPT ![r] = None]
  /\ IF stream[r].end = "whole" /\ ~page.cancelled /\ IsWhole
     THEN Save
     ELSE UNCHANGED <<page, saved>>
  /\ UNCHANGED <<regVars, serveVars>>

\* The connection is lost with what it carried.
LoseStream(r) ==
  /\ stream[r] # None
  /\ stream[r].end = "broken"
  /\ stream' = [stream EXCEPT ![r] = None]
  /\ UNCHANGED <<regVars, serveVars, page, saved>>

\* cancelDownload aborts the newest request: its loop ends.
CancelDownload(r) ==
  /\ stream[r] # None
  /\ page' = [page EXCEPT !.cancelled = TRUE]
  /\ stream' = [stream EXCEPT ![r] = None]
  /\ UNCHANGED <<regVars, serveVars, saved>>

\* The worker shows the page; the browser forgets what it had.
ShowPage(v, ok) ==
  /\ AccessEnds(v, ok)
  /\ page' = [NewPage EXCEPT !.shown = TRUE]
  /\ stream' = [r \in Requests |-> None]
  /\ UNCHANGED <<serveVars, saved>>

-----------------------------------------------------------------------------
(* Everything else *)

\* With or without a range.
OtherClient ==
  \E r \in Requests, t \in Tokens :
    /\ \/ Begin(r, t, FALSE, 0, None)
       \/ \E range \in Ranges : Begin(r, t, TRUE, range[1], range[2])
    /\ UNCHANGED pageVars

\* A shared file becomes longer or shorter.
Edit(p) ==
  /\ p \notin Folders
  /\ Event
  /\ \E n \in Sizes \ {file[p]} : file' = [file EXCEPT ![p] = n]
  /\ UNCHANGED <<regVars, pageVars, reqs, calls, tasks, log, ended, cut, drawn>>

\* stopAllTasks logs the tasks that are not over, and initialize restores what
\* the log has of a task: one that is over may have an older entry.
Restart ==
  /\ Event
  /\ RestartRegistry
  /\ log' = [t \in TaskIds |->
       IF tasks[t] # None /\ tasks[t].status \in {"Paused", "Downloading"}
       THEN Entry(tasks[t]) ELSE log[t]]
  /\ tasks' = [t \in TaskIds |->
       IF log'[t] = None THEN None
       ELSE [tasks[t] EXCEPT !.status = log'[t].status, !.sent = log'[t].sent]]
  /\ reqs' = [r \in Requests |-> None]
  /\ calls' = <<>>
  /\ stream' = [r \in Requests |->
       IF stream[r] = None THEN None ELSE [stream[r] EXCEPT !.end = "broken"]]
  /\ UNCHANGED <<file, page, saved, ended, cut, drawn>>

\* The clock stands still: an expired share is to a download as a cancelled one.
RegistryStep ==
  /\ \/ "user" \in Actors /\ UserRegistry
     \/ "page" \in Actors /\ \E v \in Viewers, t \in Tokens : OpenPage(v, t)
     \/ "page" \in Actors /\ \E v \in Viewers : AccessGoesOn(v)
  /\ UNCHANGED <<serveVars, pageVars>>

PageStep ==
  \/ \E t \in Tokens : AskSize(t) \/ Resume(t)
  \/ \E r \in Requests : ReadBlock(r) \/ EndRead(r) \/ LoseStream(r) \/ CancelDownload(r)
  \/ \E v \in Viewers, ok \in BOOLEAN : ShowPage(v, ok)

ListStep ==
  /\ "list" \in Actors
  /\ \E t \in TaskIds : PauseTask(t) \/ ResumeTask(t) \/ DeleteTask(t)

WorkerStep(r) == Open(r) \/ SendBlock(r) \/ \E broken \in BOOLEAN : EndSend(r, broken)

DownloadNext ==
  \/ RegistryStep
  \/ PageStep
  \/ "client" \in Actors /\ OtherClient
  \/ \E r \in Requests : WorkerStep(r)
  \/ HandleCall
  \/ ListStep
  \/ \E t \in TaskIds : AutoPause(t)
  \/ \E p \in Paths : Edit(p)
  \/ "stop" \in Actors /\ Restart

\* Workers end, as a write takes thirty seconds at most; the main thread takes
\* its calls, and the timer runs every thirty seconds.
DownloadFairness ==
  /\ \A r \in Requests : WF_allVars(WorkerStep(r))
  /\ WF_allVars(HandleCall)
  /\ \A t \in TaskIds : WF_allVars(AutoPause(t))

DownloadSpec == DownloadInit /\ [][DownloadNext]_allVars /\ DownloadFairness

-----------------------------------------------------------------------------
(* Properties *)

\* What the page saves has every block once and in order and is as long as the
\* page was told, over cancellations, broken connections and changes of the file
\* (resumeDownload, saveFile).  A second click during a download breaks it.
SavedIsWhole ==
  /\ \A i \in DOMAIN saved.chunks : saved.chunks[i] = i - 1
  /\ Len(saved.chunks) >= saved.size

\* A download that was interrupted goes on from where it stopped (the manual's
\* answer to "what if a transfer is interrupted"): it does not end in an error.
ResumeWorks == ~page.error

\* A task is completed only if some request of it came to the end of the file;
\* a request for a part of it, or one that began when the file was shorter, may
\* be enough (handleFileDownload).
CompletedIsServed ==
  \A t \in TaskIds :
    tasks[t] # None /\ tasks[t].status = "Completed" => t \in ended \cup cut

\* A completed task stays at its full size, whatever calls of other requests
\* for it are still in the queue (updateTaskProgress).
CompletedIsFull ==
  \A t \in TaskIds :
    tasks[t] # None /\ tasks[t].status = "Completed" => tasks[t].sent = tasks[t].size

\* The blocks of a file of this size that a request asks for.
RangeOf(q, size) == {b \in 0..size : /\ b >= q.first /\ b < size
                                     /\ q.to # None => b <= q.to}

\* A request is sent as many blocks as its range has of the file at the moment
\* when it is opened, also if the file has changed since the request began, and
\* if the range goes past the end (sendStreamingFileResponse).
AnswerIsRange ==
  [][\A r \in Requests :
       /\ reqs[r] # None /\ reqs[r].phase = "found"
       /\ reqs'[r] # None /\ reqs'[r].phase = "sending"
       => Span(reqs'[r]) = Cardinality(RangeOf(reqs[r], file[reqs[r].path]))]_allVars

\* The list never has two tasks for one file, however requests, buttons, the
\* timer and starts follow each other (resumeOrCreateDownloadTask).
OneDownloadTask == \A p \in Paths : Cardinality(Named(p)) <= 1

\* No task stays in the list as if it were running (the speed check timer).
NoneHangs ==
  \A t \in TaskIds : []<>(tasks[t] = None \/ tasks[t].status # "Downloading")
=============================================================================
