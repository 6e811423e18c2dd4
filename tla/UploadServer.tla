---------------------------- MODULE UploadServer ----------------------------
(***************************************************************************)
(* The resumable upload service of NetShare: RequestHandler's upload       *)
(* endpoints, the state files and chunk directories that ChunkStateManager *)
(* and ChunkManager keep under <uploadDir>/.chunks, and the upload tasks   *)
(* of FileTransferEngine.                                                  *)
(*                                                                         *)
(* A browser asks for a session (POST /api/upload/check), sends the chunks *)
(* of each file over several connections (POST /api/upload/file) and then  *)
(* finalizes the session.  A thread of QThreadPool merges the chunks and a *)
(* queued signal lets the main thread publish the files.  Every request    *)
(* of this module may come from any browser at any time; UploadSystem puts *)
(* ReceivePage, the browser's side, in front of it.                        *)
(*                                                                         *)
(* Each handler call is one step (a chunk request is one step for its      *)
(* first call, one per block received and one for its last call; a merge   *)
(* is two steps per file).  UploadCheck is a check that no other worker    *)
(* comes between; UploadChecks has the steps in which it touches what      *)
(* others use.  Uploads are chunked files directly in the upload           *)
(* directory, and the size of a file is its number of chunks.              *)
(***************************************************************************)
EXTENDS Naturals, FiniteSets, Sequences

CONSTANTS
  Files,        \* names of the uploaded files, ordered as QMap orders its keys
  Selections,   \* the sets of files that one check request may list
  Sizes,        \* possible sizes of a file, in chunks
  Blocks,       \* blocks of data in a chunk
  Data,         \* what a file may contain (a chunk carries the tag of its file)
  Sids,         \* session ids, which also name the directories under .chunks
  Tasks,        \* task ids
  Conns,        \* connections that CivetWeb serves at the same time
  Merges,       \* bound: merges that the global QThreadPool runs or queues
  MaxRestarts,  \* bound: how often the application may stop and start again
  Hole,         \* a block that nobody wrote (zeros in the file)
  Damaged,      \* the content of a file that is not one upload's data
  None          \* absence (of a file, a session, a task, a request, ...)

ASSUME ConstantsAssumption ==
  /\ Files \subseteq Nat
  /\ IsFiniteSet(Files) /\ Files # {}
  /\ Selections \subseteq SUBSET Files
  /\ Sizes \subseteq Nat \ {0} /\ Sizes # {}
  /\ Blocks \in Nat \ {0}
  /\ MaxRestarts \in Nat
  /\ Hole \notin Data
  /\ Damaged \notin Data

\* Names are sorted: among any files there is a first one and a last one.
ASSUME FilesAreOrdered ==
  \A F \in SUBSET Files : F # {} =>
    /\ \E f \in F : \A g \in F : f <= g
    /\ \E f \in F : \A g \in F : g <= f

VARIABLES
  store,     \* store[s][f]: the directory .chunks/<s>/<f>, or None
  final,     \* final[f]: the file <uploadDir>/<f>, or None
  state,     \* state[f]: the state file .chunks/<f>.netshare, or None
  sessions,  \* m_uploadSessions
  token,     \* m_taskToToken
  tasks,     \* m_tasks of FileTransferEngine (its upload tasks)
  log,       \* log[t]: the newest Started or Paused entry of transfer_logs of t
  conns,     \* m_streamingFileStates: the chunk request each connection carries
  jobs,      \* the merges that were given to the thread pool
  ready,     \* uploadFinalizeReady signals queued for the main thread
  shared,    \* the uploaded files for which a share was created
  issued,    \* session ids and
  created,   \* task ids that were ever generated (a QUuid never comes back)
  restarts   \* how often the application was restarted

vars == <<store, final, state, sessions, token, tasks, log, conns, jobs, ready,
          shared, issued, created, restarts>>

-----------------------------------------------------------------------------
(* Types *)

Index     == UNION {0 .. n - 1 : n \in Sizes}
Block     == Data \cup {Hole}
ChunkFile == [len : 0 .. Blocks, blocks : [1 .. Blocks -> Block]]
ChunkDir  == [Index -> ChunkFile \cup {None}]

\* A merged file whose size is 0 has some size that no browser's file has.
FinalFile == [size : Sizes \cup {0}, data : Data \cup {Damaged}]
StateFile == [size : Sizes, done : SUBSET Index, dir : Sids, task : Tasks]
FileEntry == [size : Sizes \cup {0}, done : SUBSET Index]
Session   == [task   : Tasks \cup {None},
              files  : [Files -> FileEntry \cup {None}],
              paused : BOOLEAN]
Name      == ({"file"} \X Files) \cup ({"files"} \X Nat)
Task      == [name : Name, status : {"Uploading", "Paused", "Completed", "Failed"}]
LogEntry  == [name : Name, status : {"Started", "Paused"}]
Request   == [sid : Sids, file : Files, index : Index, data : Data, received : 0 .. Blocks]
Job       == [sid : Sids \cup {None}, task : Tasks \cup {None}, file : Files \cup {None},
              todo : [Files -> Sizes \cup {0}], saved : SUBSET Files]
Finished  == [task : Tasks \cup {None}, saved : SUBSET Files]

\* None is none of the things that it stands in for.
ASSUME NoneAssumption ==
  /\ None \notin ChunkFile \cup ChunkDir \cup FinalFile \cup StateFile
  /\ None \notin FileEntry \cup Session \cup Task \cup LogEntry
  /\ None \notin Request \cup Job \cup Data \cup Files \cup Sids \cup Tasks

TypeOK ==
  /\ store    \in [Sids -> [Files -> ChunkDir \cup {None}]]
  /\ final    \in [Files -> FinalFile \cup {None}]
  /\ state    \in [Files -> StateFile \cup {None}]
  /\ sessions \in [Sids -> Session \cup {None}]
  /\ token    \in [Tasks -> Sids \cup {None}]
  /\ tasks    \in [Tasks -> Task \cup {None}]
  /\ log      \in [Tasks -> LogEntry \cup {None}]
  /\ conns    \in [Conns -> Request \cup {None}]
  /\ jobs     \in [Merges -> Job \cup {None}]
  /\ ready    \in Seq(Finished)
  /\ shared   \subseteq Files
  /\ issued   \subseteq Sids
  /\ created  \subseteq Tasks
  /\ restarts \in 0 .. MaxRestarts

-----------------------------------------------------------------------------
(* The chunk directories *)

EmptyDir   == [i \in Index |-> None]
NoDirs     == [f \in Files |-> None]
EmptyChunk == [len |-> 0, blocks |-> [k \in 1 .. Blocks |-> Hole]]

\* A chunk file that a connection still writes.  On Windows, the documented
\* platform, QFile opens without FILE_SHARE_DELETE: such a file (and the
\* directories above it) cannot be removed.
Open(s, f, i) ==
  \E c \in Conns : /\ conns[c] # None
                   /\ conns[c].sid = s
                   /\ conns[c].file = f
                   /\ conns[c].index = i

\* The directory .chunks/<s>/<f>, if it exists, without the chunk files in I.
Unlinked(s, f, I) ==
  IF store[s][f] = None
  THEN None
  ELSE [i \in Index |-> IF i \in I /\ ~Open(s, f, i) THEN None ELSE store[s][f][i]]

\* QDir::removeRecursively on .chunks/<s>/<f>.
RemovedDir(s, f) ==
  IF \E i \in Index : Open(s, f, i) THEN Unlinked(s, f, Index) ELSE None

\* QDir::removeRecursively on .chunks/<s>.
RemovedDirs(s) == [f \in Files |-> RemovedDir(s, f)]

HasChunk(s, f, i) == store[s][f] # None /\ store[s][f][i] # None

\* The chunk file is there and has l blocks.
HasSize(s, f, i, l) == HasChunk(s, f, i) /\ store[s][f][i].len = l

\* The n chunk files of f add up to the size of a file of n chunks.
Whole(s, f, n) == \A i \in 0 .. n - 1 : HasSize(s, f, i, Blocks)

\* The blocks of the n chunk files of f are those of a file with content d.
Holds(s, f, n, d) ==
  \A i \in 0 .. n - 1 : \A k \in 1 .. Blocks : store[s][f][i].blocks[k] = d

\* A session of m_uploadSessions that a check request made.
Live(s) == sessions[s] # None /\ sessions[s].task # None

\* What m_uploadSessions[sid] inserts for an id it does not hold.
DefaultSession ==
  [task |-> None, files |-> [f \in Files |-> None], paused |-> FALSE]

\* What session.fileChunkStates[path] inserts for a path it does not hold.
DefaultEntry == [size |-> 0, done |-> {}]

\* Mutant: a file of a single chunk is not taken for a chunked one.
ChunkedSeveral(s) == {f \in Files : sessions[s].files[f] # None /\ sessions[s].files[f].size > 1}

\* The files of session s that have chunks (and a state file).
Chunked(s) == {f \in Files : sessions[s].files[f] # None /\ sessions[s].files[f].size > 0}

\* Mutant: the state files stay.
StateKept(F) == state

\* deleteStateFile for every file in F.
StateWithout(F) == [f \in Files |-> IF f \in F THEN None ELSE state[f]]

-----------------------------------------------------------------------------
(* Upload tasks of FileTransferEngine *)

\* FileTransferEngine::pauseTask and resumeTask change the status and log it.
\* (The state file's own status field is left out, and an upload's chunk is
\* only ever pending or completed, so markDownloadingChunksPartial finds none.)
SetTask(t, taskStatus, logStatus) ==
  IF t # None /\ tasks[t] # None
  THEN /\ tasks' = [tasks EXCEPT ![t].status = taskStatus]
       /\ log' = [log EXCEPT ![t] = [name |-> tasks[t].name, status |-> logStatus]]
  ELSE UNCHANGED <<tasks, log>>

EnginePause(t)  == SetTask(t, "Paused", "Paused")
EngineResume(t) == SetTask(t, "Uploading", "Started")

\* The sessions ss after pauseUploadForTask (p = TRUE) or resumeUploadForTask,
\* the callbacks that pauseTask and resumeTask call for a task they know.
Notified(ss, t, p) ==
  [s \in Sids |-> IF t # None /\ tasks[t] # None /\ token[t] = s /\ ss[s] # None
                  THEN [ss[s] EXCEPT !.paused = p]
                  ELSE ss[s]]

\* failTask (a Failed log entry does not count for a restart).
EngineFail(t) ==
  tasks' = IF t # None /\ tasks[t] # None
           THEN [tasks EXCEPT ![t].status = "Failed"] ELSE tasks

\* m_taskToToken.remove(t)
TokenWithout(t) == [u \in Tasks |-> IF u = t THEN None ELSE token[u]]

\* The name a check request gives its task.
TaskName(S) ==
  IF \E f \in Files : S = {f}
  THEN <<"file", CHOOSE f \in Files : S = {f}>>
  ELSE <<"files", Cardinality(S)>>

\* The tasks findUploadTaskByName may return: the first in uuid order.
PausedTasks(name) ==
  {t \in Tasks : tasks[t] # None /\ tasks[t].name = name /\ tasks[t].status = "Paused"}

\* Mutant: only failed tasks are removed.
WithoutFailed(names) ==
  [t \in Tasks |->
    IF tasks[t] # None /\ tasks[t].name \in names /\ tasks[t].status = "Failed"
    THEN None
    ELSE tasks[t]]

\* removeFailedUploadTasksByName, for every name in names
WithoutUnfinished(names) ==
  [t \in Tasks |->
    IF /\ tasks[t] # None
       /\ tasks[t].name \in names
       /\ tasks[t].status \in {"Failed", "Uploading", "Paused"}
    THEN None
    ELSE tasks[t]]

-----------------------------------------------------------------------------
(* POST /api/upload/check *)

\* The files of a request that are not in the upload directory already.
Needed(S, size) == {f \in S : final[f] = None \/ final[f].size # size[f]}

\* The files whose state file is that of an upload of the same size ...
Matching(S, size) ==
  {f \in Needed(S, size) : state[f] # None /\ state[f].size = size[f]}

\* ... or of another size.
Outdated(S, size) ==
  {f \in Needed(S, size) : state[f] # None /\ state[f].size # size[f]}

\* The files whose chunk directory may be reused.  The loop keeps the first.
Reusable(S, size) == {f \in Matching(S, size) : store[state[f].dir][f] # None}
FirstReusable(S, size) ==
  CHOOSE f \in Reusable(S, size) : \A g \in Reusable(S, size) : f <= g

\* Mutant: the id of the session is always the fresh one.
FreshSid(S, size, s0) == s0

\* The session id that the loop ends with, where s0 is the fresh one.
ChosenSid(S, size, s0) ==
  IF Reusable(S, size) = {} THEN s0 ELSE state[FirstReusable(S, size)].dir

\* The value of chunkTempDir when the loop is at file f.
DirAt(f, S, size, s0) ==
  IF Reusable(S, size) # {} /\ FirstReusable(S, size) <= f
  THEN ChosenSid(S, size, s0)
  ELSE s0

\* The state files after the loop.  The file of a matching upload is saved
\* from existingInfo, which was read before validateCompletedChunks: the
\* chunks that the validation degrades to pending stay completed in it.
CheckedState(S, size, s0, t0) ==
  [f \in Files |->
    IF f \in Reusable(S, size) THEN [state[f] EXCEPT !.task = t0]
    ELSE IF f \in Matching(S, size)
    THEN [state[f] EXCEPT !.task = t0, !.dir = DirAt(f, S, size, s0)]
    ELSE IF f \in Needed(S, size)
    THEN [size |-> size[f], done |-> {}, dir |-> DirAt(f, S, size, s0), task |-> t0]
    ELSE state[f]]

\* The completed chunks of f that validateCompletedChunks removes.
WrongChunks(f) == {i \in state[f].done : ~HasSize(state[f].dir, f, i, Blocks)}

\* The chunk directories after the loop and, if one was reused, after the
\* removal of every other directory that is not that of a session.
CheckedStore(S, size, s0) ==
  [s \in Sids |-> [f \in Files |->
    IF \/ /\ Reusable(S, size) # {}
          /\ s # ChosenSid(S, size, s0)
          /\ ~Live(s)
       \/ f \in Outdated(S, size) /\ state[f].dir = s
    THEN RemovedDir(s, f)
    ELSE IF f \in Matching(S, size) /\ state[f].dir = s
    THEN Unlinked(s, f, WrongChunks(f))
    ELSE store[s][f]]]

\* Mutant: the chunks on the disk count, instead of those in the state file.
FilesOnDisk(S, size) ==
  [f \in Files |->
    IF f \in Matching(S, size)
    THEN [size |-> size[f], done |-> {i \in 0 .. size[f] - 1 : HasChunk(state[f].dir, f, i)}]
    ELSE IF f \in Needed(S, size) THEN [size |-> size[f], done |-> {}]
    ELSE None]

\* The files of the new session.
CheckedFiles(S, size) ==
  [f \in Files |->
    IF f \in Matching(S, size) THEN [size |-> size[f], done |-> state[f].done]
    ELSE IF f \in Needed(S, size) THEN [size |-> size[f], done |-> {}]
    ELSE None]

\* The ids of the chunk directories that the session and its state files name.
CheckedSids(S, size, s0) ==
  {ChosenSid(S, size, s0)} \cup {DirAt(f, S, size, s0) : f \in Needed(S, size)}

\* A check adopts a paused task of the same name or makes a task of its own.
AdoptTask(t, S) ==
  /\ t \in PausedTasks(TaskName(S))
  /\ EngineResume(t)

NewTask(t, S) ==
  /\ PausedTasks(TaskName(S)) = {}
  /\ tasks' = [WithoutUnfinished({TaskName(S)} \cup {<<"file", f>> : f \in S})
                 EXCEPT ![t] = [name |-> TaskName(S), status |-> "Uploading"]]
  /\ UNCHANGED log

\* A check of the files S with these sizes; s0 and t0 are the ids it draws,
\* t is the task it ends with.
UploadCheck(S, size, s0, t0, t) ==
  /\ S # {}
  /\ s0 \in Sids \ issued
  /\ t0 \in Tasks \ created
  /\ \/ AdoptTask(t, S)
     \/ t = t0 /\ NewTask(t, S)
  /\ state' = CheckedState(S, size, s0, t0)
  /\ store' = CheckedStore(S, size, s0)
  /\ sessions' = [Notified(sessions, t, FALSE) EXCEPT ![ChosenSid(S, size, s0)] =
                    [task |-> t, files |-> CheckedFiles(S, size), paused |-> FALSE]]
  /\ token' = [token EXCEPT ![t] = ChosenSid(S, size, s0)]
  /\ issued' = issued \cup CheckedSids(S, size, s0)
  /\ created' = created \cup {t0}
  /\ UNCHANGED <<final, conns, jobs, ready, shared, restarts>>

-----------------------------------------------------------------------------
(* POST /api/upload/file with a chunk index *)

\* Mutant: the first call does not look for the chunk in the session's lists.
AcceptsUnknown(s, f, i) ==
  /\ sessions[s] # None
  /\ ~sessions[s].paused
  /\ sessions[s].files[f] # None => i \notin sessions[s].files[f].done

\* The first call: what makes the handler open (and truncate) the chunk file.
Accepts(s, f, i) ==
  /\ sessions[s] # None
  /\ ~sessions[s].paused
  /\ sessions[s].files[f] # None
  /\ i < sessions[s].files[f].size
  /\ i \notin sessions[s].files[f].done

BeginChunk(c, s, f, i, d) ==
  /\ conns[c] = None
  /\ Accepts(s, f, i)
  /\ conns' = [conns EXCEPT ![c] =
                 [sid |-> s, file |-> f, index |-> i, data |-> d, received |-> 0]]
  /\ store' = [store EXCEPT ![s][f] =
                 [(IF store[s][f] = None THEN EmptyDir ELSE store[s][f])
                    EXCEPT ![i] = EmptyChunk]]
  /\ UNCHANGED <<final, state, sessions, token, tasks, log, jobs, ready, shared,
                 issued, created, restarts>>

\* Mutant: a block is written beyond the size of the chunk.
ReceiveTooMuch(c) ==
  /\ conns[c] # None
  /\ conns[c].received <= Blocks
  /\ conns' = [conns EXCEPT ![c].received = @ + 1]
  /\ UNCHANGED <<store, final, state, sessions, token, tasks, log, jobs, ready, shared,
                 issued, created, restarts>>

\* A block of the body is written where this connection's file position is.
\* Blocks that the other writer of the same file truncated away read as zeros.
ReceiveBlock(c) ==
  /\ conns[c] # None
  /\ conns[c].received < Blocks
  /\ LET r == conns[c]
         chunk == store[r.sid][r.file][r.index]
         written == [len    |-> IF chunk.len > r.received THEN chunk.len ELSE r.received + 1,
                     blocks |-> [chunk.blocks EXCEPT ![r.received + 1] = r.data]]
     IN  /\ store' = [store EXCEPT ![r.sid][r.file][r.index] = written]
         /\ conns' = [conns EXCEPT ![c].received = r.received + 1]
  /\ UNCHANGED <<final, state, sessions, token, tasks, log, jobs, ready, shared,
                 issued, created, restarts>>

\* The session and the file entry that the last call works on: operator[]
\* inserts the ones that are not (or no longer) there.
SessionOf(r) == IF sessions[r.sid] = None THEN DefaultSession ELSE sessions[r.sid]
EntryOf(r) ==
  IF SessionOf(r).files[r.file] = None THEN DefaultEntry ELSE SessionOf(r).files[r.file]

\* The size check is skipped for the last chunk, and verifyChunk compares the
\* chunk file with what was received.  The directory of a session that the
\* last call itself inserts has no chunks.
ChunkAccepted(r) ==
  /\ r.received = Blocks \/ r.index + 1 >= EntryOf(r).size
  /\ SessionOf(r).task # None
  /\ HasSize(r.sid, r.file, r.index, r.received)

\* The last call, when the body was received or the connection was lost.
\* (An accepted chunk beyond the entry's size writes outside of its list of
\* chunks; the model goes on with the list as it was, or crashes.)
EndChunk(c) ==
  /\ conns[c] # None
  /\ conns' = [conns EXCEPT ![c] = None]
  /\ LET r == conns[c]
         chunks(n) == IF ChunkAccepted(r) /\ r.index < n THEN {r.index} ELSE {}
     IN  /\ sessions' = [sessions EXCEPT ![r.sid] =
               [SessionOf(r) EXCEPT !.files[r.file] =
                  [EntryOf(r) EXCEPT !.done = @ \cup chunks(EntryOf(r).size)]]]
         /\ state' = IF state[r.file] = None THEN state
                     ELSE [state EXCEPT ![r.file].done = @ \cup chunks(state[r.file].size)]
  /\ UNCHANGED <<store, final, token, tasks, log, jobs, ready, shared,
                 issued, created, restarts>>

-----------------------------------------------------------------------------
(* POST /api/upload/finalize, the merge in the pool, and its signal *)

\* Mutant: an index too many is expected, so no upload is ever complete.
CompletePlusOne(s) ==
  \A f \in Chunked(s) : sessions[s].files[f].done = 0 .. sessions[s].files[f].size

\* The client gets "success" in any case, before anything else happens, and
\* a request with an unknown session changes nothing.
Complete(s) ==
  \A f \in Chunked(s) : sessions[s].files[f].done = 0 .. sessions[s].files[f].size - 1

UploadFinalize(s, w) ==
  /\ sessions[s] # None
  /\ jobs[w] = None
  /\ sessions' = [sessions EXCEPT ![s] = None]
  /\ token' = TokenWithout(sessions[s].task)
  /\ state' = StateWithout(Chunked(s))
  /\ jobs' = IF ~Complete(s) THEN jobs ELSE
       [jobs EXCEPT ![w] =
         [sid   |-> IF Live(s) THEN s ELSE None,
          task  |-> sessions[s].task,
          file  |-> None,
          todo  |-> [f \in Files |-> IF f \in Chunked(s) THEN sessions[s].files[f].size ELSE 0],
          saved |-> {}]]
  /\ UNCHANGED <<store, final, tasks, log, conns, ready, shared,
                 issued, created, restarts>>

\* mergeChunks truncates the output file and gives it the size of its chunks,
OpenMerged(w, f) ==
  /\ jobs[w] # None
  /\ jobs[w].file = None
  /\ jobs[w].todo[f] > 0
  /\ \A g \in Files : g < f => jobs[w].todo[g] = 0
  /\ jobs' = [jobs EXCEPT ![w].file = f]
  /\ final' = [final EXCEPT ![f] =
       [size |-> IF Whole(jobs[w].sid, f, jobs[w].todo[f]) THEN jobs[w].todo[f] ELSE 0,
        data |-> Damaged]]
  /\ UNCHANGED <<store, state, sessions, token, tasks, log, conns, ready, shared,
                 issued, created, restarts>>

\* and then copies the chunks up to the first that is missing.  Only a file
\* with all chunks and the right size loses its chunk directory.
CopyMerged(w) ==
  /\ jobs[w] # None
  /\ jobs[w].file # None
  /\ LET f == jobs[w].file
         s == jobs[w].sid
         n == jobs[w].todo[f]
         merged == \A i \in 0 .. n - 1 : HasChunk(s, f, i)
         sized  == final[f].size = n \/ Whole(s, f, n)
         copied == {d \in Data : Whole(s, f, n) /\ Holds(s, f, n, d)}
     IN  /\ final' = [final EXCEPT ![f] =
               [size |-> IF sized THEN n ELSE 0,
                data |-> IF copied = {} THEN Damaged ELSE CHOOSE d \in copied : TRUE]]
         /\ store' = IF merged /\ sized
                     THEN [store EXCEPT ![s][f] = RemovedDir(s, f)] ELSE store
         /\ jobs' = [jobs EXCEPT ![w].file = None,
                                 ![w].todo[f] = 0,
                                 ![w].saved = IF merged /\ sized THEN @ \cup {f} ELSE @]
  /\ UNCHANGED <<state, sessions, token, tasks, log, conns, ready, shared,
                 issued, created, restarts>>

\* The worker removes the session's directory and the directories without
\* chunks that no session has, and emits uploadFinalizeReady.
EndMerge(w) ==
  /\ jobs[w] # None
  /\ \A f \in Files : jobs[w].todo[f] = 0
  /\ LET left == IF jobs[w].sid = None THEN store
                 ELSE [store EXCEPT ![jobs[w].sid] = RemovedDirs(jobs[w].sid)]
         used(s) == \E f \in Files : left[s][f] # None /\ \E i \in Index : left[s][f][i] # None
     IN  store' = [s \in Sids |-> IF sessions[s] = None /\ ~used(s) THEN NoDirs ELSE left[s]]
  /\ ready' = Append(ready, [task |-> jobs[w].task, saved |-> jobs[w].saved])
  /\ jobs' = [jobs EXCEPT ![w] = None]
  /\ UNCHANGED <<final, state, sessions, token, tasks, log, conns, shared,
                 issued, created, restarts>>

\* Mutant: the task is completed only when a file was saved.
ReadyIfSaved ==
  /\ ready # <<>>
  /\ ready' = Tail(ready)
  /\ LET e == Head(ready)
     IN  /\ shared' = shared \cup e.saved
         /\ tasks' = IF e.saved # {} /\ e.task # None /\ tasks[e.task] # None
                     THEN [tasks EXCEPT ![e.task].status = "Completed"] ELSE tasks
  /\ UNCHANGED <<store, final, state, sessions, token, log, conns, jobs,
                 issued, created, restarts>>

\* onUploadFinalizeReady: share the files, forget their log entries and mark
\* the task completed, whether or not all of its files were saved.
FinalizeReady ==
  /\ ready # <<>>
  /\ ready' = Tail(ready)
  /\ LET e == Head(ready)
     IN  /\ shared' = shared \cup e.saved
         /\ log' = [t \in Tasks |->
              IF log[t] # None /\ log[t].name \in {"file"} \X e.saved THEN None ELSE log[t]]
         /\ tasks' = IF e.task # None /\ tasks[e.task] # None
                     THEN [tasks EXCEPT ![e.task].status = "Completed"] ELSE tasks
  /\ UNCHANGED <<store, final, state, sessions, token, conns, jobs,
                 issued, created, restarts>>

-----------------------------------------------------------------------------
(* POST /api/upload/abort, pause and resume; the expiry of a session *)

\* What an abort and an expiry do to session s.
Discard(s) ==
  /\ EngineFail(sessions[s].task)
  /\ state' = StateWithout(Chunked(s))
  /\ store' = IF Live(s) THEN [store EXCEPT ![s] = RemovedDirs(s)] ELSE store
  /\ token' = TokenWithout(sessions[s].task)
  /\ sessions' = [sessions EXCEPT ![s] = None]
  /\ UNCHANGED <<final, log, conns, jobs, ready, shared, issued, created, restarts>>

UploadAbort(s) ==
  /\ sessions[s] # None
  /\ Discard(s)

\* cleanupExpiredSessions, two hours after the check that made the session.  A
\* session that a chunk request inserted has no creation time and stays.
ExpireSession(s) ==
  /\ Live(s)
  /\ Discard(s)

UploadPause(s) ==
  /\ sessions[s] # None
  /\ EnginePause(sessions[s].task)
  /\ sessions' = Notified([sessions EXCEPT ![s].paused = TRUE], sessions[s].task, TRUE)
  /\ UNCHANGED <<store, final, state, token, conns, jobs, ready, shared,
                 issued, created, restarts>>

UploadResume(s) ==
  /\ sessions[s] # None
  /\ EngineResume(sessions[s].task)
  /\ sessions' = Notified([sessions EXCEPT ![s].paused = FALSE], sessions[s].task, FALSE)
  /\ UNCHANGED <<store, final, state, token, conns, jobs, ready, shared,
                 issued, created, restarts>>

-----------------------------------------------------------------------------
(* The transfer list of the user interface, and the engine's timer *)

PauseTask(t) ==
  /\ tasks[t] # None
  /\ tasks[t].status = "Uploading"
  /\ EnginePause(t)
  /\ sessions' = Notified(sessions, t, TRUE)
  /\ UNCHANGED <<store, final, state, token, conns, jobs, ready, shared,
                 issued, created, restarts>>

ResumeTask(t) ==
  /\ tasks[t] # None
  /\ tasks[t].status = "Paused"
  /\ EngineResume(t)
  /\ sessions' = Notified(sessions, t, FALSE)
  /\ UNCHANGED <<store, final, state, token, conns, jobs, ready, shared,
                 issued, created, restarts>>

\* deleteTask forgets every task of the same name, the state file of that name
\* and its log entries; sessions and chunk directories stay.
DeleteTask(t) ==
  /\ tasks[t] # None
  /\ LET name == tasks[t].name
     IN  /\ tasks' = [u \in Tasks |->
              IF tasks[u] # None /\ tasks[u].name = name THEN None ELSE tasks[u]]
         /\ state' = StateWithout({f \in Files : name = <<"file", f>>})
         /\ log' = [u \in Tasks |->
              IF log[u] # None /\ log[u].name = name THEN None ELSE log[u]]
  /\ UNCHANGED <<store, final, sessions, token, conns, jobs, ready, shared,
                 issued, created, restarts>>

\* The timer pauses a task that made no progress for three minutes, without
\* the callback that pauses its session.
AutoPause(t) ==
  /\ tasks[t] # None
  /\ tasks[t].status = "Uploading"
  /\ EnginePause(t)
  /\ UNCHANGED <<store, final, state, sessions, token, conns, jobs, ready, shared,
                 issued, created, restarts>>

-----------------------------------------------------------------------------
(* The application stops, or crashes, and starts again *)

\* One task per name, among those that log entries l restore (in uuid order).
RestoredFrom(l) ==
  {R \in SUBSET {t \in Tasks : l[t] # None} :
     /\ \A t, u \in R : l[t].name = l[u].name => t = u
     /\ \A t \in Tasks : l[t] # None => \E u \in R : l[u].name = l[t].name}

\* The tasks that initialize restores from the log entries l of the tasks R and
\* that setUploadDir then adds for the state files st.
RestoredTasks(R, l, st) ==
  LET listed(t) == {f \in Files : /\ st[f] # None
                                  /\ st[f].task = t
                                  /\ \A u \in R : l[u].name # <<"file", f>>}
      last(F)   == CHOOSE f \in F : \A g \in F : g <= f
  IN  [t \in Tasks |->
        IF listed(t) # {} THEN [name |-> <<"file", last(listed(t))>>, status |-> "Paused"]
        ELSE IF t \in R
        THEN [name   |-> l[t].name,
              status |-> IF l[t].status = "Paused" THEN "Paused" ELSE "Uploading"]
        ELSE None]

\* A start with log entries l, when cleanupExpired finds the state files Old
\* older than a week and those of Torn are not valid JSON.
Restart(l, Old, Torn) ==
  /\ restarts < MaxRestarts
  /\ restarts' = restarts + 1
  /\ log' = l
  /\ state' = StateWithout(Old \cup Torn)
  /\ store' = [s \in Sids |-> [f \in Files |->
       IF f \in Old \ Torn /\ state[f] # None /\ state[f].dir = s THEN None ELSE store[s][f]]]
  /\ \E R \in RestoredFrom(l) : tasks' = RestoredTasks(R, l, StateWithout(Old \cup Torn))
  /\ sessions' = [s \in Sids |-> None]
  /\ token' = [t \in Tasks |-> None]
  /\ conns' = [c \in Conns |-> None]
  /\ jobs' = [w \in Merges |-> None]
  /\ ready' = <<>>
  /\ UNCHANGED <<final, shared, issued, created>>

\* shutdown stops the web server, which ends every request, and logs the tasks
\* that are not finished.  The merges of the pool are waited for.
ShutdownLog ==
  [t \in Tasks |->
    IF tasks[t] # None /\ tasks[t].status \in {"Uploading", "Paused"}
    THEN [name   |-> tasks[t].name,
          status |-> IF tasks[t].status = "Paused" THEN "Paused" ELSE "Started"]
    ELSE log[t]]

Shutdown(Old) ==
  /\ \A c \in Conns : conns[c] = None
  /\ \A w \in Merges : jobs[w] = None
  /\ Restart(ShutdownLog, Old, {})

\* A crash may leave one state file half written: it is saved in place.
Crash(Old, Torn) ==
  /\ Cardinality(Torn) <= 1
  /\ Restart(log, Old, Torn)

-----------------------------------------------------------------------------
Init ==
  /\ store    = [s \in Sids |-> NoDirs]
  /\ final    = [f \in Files |-> None]
  /\ state    = [f \in Files |-> None]
  /\ sessions = [s \in Sids |-> None]
  /\ token    = [t \in Tasks |-> None]
  /\ tasks    = [t \in Tasks |-> None]
  /\ log      = [t \in Tasks |-> None]
  /\ conns    = [c \in Conns |-> None]
  /\ jobs     = [w \in Merges |-> None]
  /\ ready    = <<>>
  /\ shared   = {}
  /\ issued   = {}
  /\ created  = {}
  /\ restarts = 0

Check ==
  \E S \in Selections : \E size \in [S -> Sizes], s0 \in Sids, t0, t \in Tasks :
    UploadCheck(S, size, s0, t0, t)

Upload ==
  \E c \in Conns :
    \/ \E s \in Sids, f \in Files, i \in Index, d \in Data : BeginChunk(c, s, f, i, d)
    \/ ReceiveBlock(c)
    \/ EndChunk(c)

Finalize == \E s \in Sids, w \in Merges : UploadFinalize(s, w)

\* What the application does by itself with a merge it was given.
MergeStep(w) == (\E f \in Files : OpenMerged(w, f)) \/ CopyMerged(w) \/ EndMerge(w)

Publish == (\E w \in Merges : MergeStep(w)) \/ FinalizeReady

Control ==
  \/ \E s \in Sids : UploadAbort(s) \/ UploadPause(s) \/ UploadResume(s)
  \/ \E t \in Tasks : PauseTask(t) \/ ResumeTask(t) \/ DeleteTask(t)

Timers ==
  \/ \E s \in Sids : ExpireSession(s)
  \/ \E t \in Tasks : AutoPause(t)

Restarts ==
  \E Old \in SUBSET Files : Shutdown(Old) \/ \E Torn \in SUBSET Files : Crash(Old, Torn)

Next == Check \/ Upload \/ Finalize \/ Publish \/ Control \/ Timers \/ Restarts

\* The pool runs the merges it is given and the event loop of the main thread
\* delivers their signals.
Fairness ==
  /\ \A w \in Merges : WF_vars(MergeStep(w))
  /\ WF_vars(FinalizeReady)

Spec     == Init /\ [][Next]_vars
FairSpec == Spec /\ Fairness

-----------------------------------------------------------------------------
(* Properties *)

\* What a session has accepted would survive a crash: the state file that
\* refers to the session's directory has at least the session's chunks.
\* (handleStreamingFileUpload keeps both lists; a check reads one into the other.)
AcceptedIsPersisted ==
  \A s \in Sids, f \in Files :
    Live(s) /\ sessions[s].files[f] # None /\ state[f] # None /\ state[f].dir = s =>
      sessions[s].files[f].done \subseteq state[f].done

\* A new check of an interrupted upload takes over every chunk that the state
\* file has and that is whole on the disk: the chunk is still there afterwards,
\* in the directory of the new session, and the session counts it (the reuse and
\* the cleanup of directories in handleUploadCheck, against the validation).
\* Holds as long as every check is for a single file.
ResumeKeepsChunks ==
  [][\A f \in Files :
       /\ state[f] # None
       /\ state'[f] # None
       /\ state'[f].size = state[f].size
       /\ state'[f].task # state[f].task
       => LET s == state'[f].dir
          IN  \A i \in state[f].done : HasSize(state[f].dir, f, i, Blocks) =>
                /\ store'[s][f] # None
                /\ store'[s][f][i] = store[state[f].dir][f][i]
                /\ sessions'[s] # None
                /\ i \in sessions'[s].files[f].done]_vars

\* What the check finds wrong it forgets: a completed chunk of an interrupted
\* upload that is not whole on the disk is not completed afterwards.
\* (validateCompletedChunks logs "completed chunk validation failed, degrading
\* to pending", and handleUploadCheck saves the state file after it.)
WrongIsForgotten ==
  [][\A f \in Files :
       /\ state[f] # None
       /\ state'[f] # None
       /\ state'[f].size = state[f].size
       /\ state'[f].task # state[f].task
       => state'[f].done \cap WrongChunks(f) = {}]_vars

\* A file of the upload directory that has the size of an upload, and that no
\* merge is writing, has the content of an upload.  (A check takes such a file
\* for a completed one and the page skips it.)
FinalIsWhole ==
  \A f \in Files :
    /\ final[f] # None
    /\ final[f].size > 0
    /\ ~\E w \in Merges : jobs[w] # None /\ jobs[w].file = f
    => final[f].data \in Data

\* A chunk request of a live session is for a file and a chunk that the session
\* knows: the last call uses the index without the check of the first call.
InFlightChunkKnown ==
  \A c \in Conns : conns[c] # None /\ Live(conns[c].sid) =>
    LET entry == sessions[conns[c].sid].files[conns[c].file]
    IN  entry # None /\ conns[c].index < entry.size

\* Every merge ends in the transfer list: its task is completed or is no longer
\* in the list, however the merge went, unless the application stops before
\* (handleUploadFinalize and onUploadFinalizeReady, across the pool and the
\* event loop).
MergeIsReported ==
  \A w \in Merges, t \in Tasks, n \in 0 .. MaxRestarts :
    jobs[w] # None /\ jobs[w].task = t /\ restarts = n ~>
      tasks[t] = None \/ tasks[t].status = "Completed" \/ restarts > n
=============================================================================
