---------------------------- MODULE UploadChecks ----------------------------
(***************************************************************************)
(* The check of an upload (POST /api/upload/check) in the steps that other *)
(* workers can come between, beside every other step of UploadServer.      *)
(*                                                                         *)
(* handleUploadCheck takes no lock.  It looks for the file in the upload   *)
(* directory, loads the file's state file, saves it or a new one, and      *)
(* inserts the session at last; meanwhile the session that the state file  *)
(* is from may be finalized, given up or replaced by another check.  Each  *)
(* check is for one file.                                                  *)
(***************************************************************************)
EXTENDS UploadServer

CONSTANT Checkers  \* worker threads that handle a check

VARIABLES
  checks,   \* the check that a worker is in
  \* What happened, for the properties:
  madeFor,  \* the file and the size that a chunk directory was made for
  crossed   \* directories whose session ended while a check was to go on with it

checkVars == <<vars, checks, madeFor, crossed>>

Content == [file : Files, size : Sizes]

\* read is the state file as it was loaded (existingInfo); sid, task, done and
\* reused are those of the session to come; cleans are the directories that the
\* cleanup has still to look at.
CheckInfo ==
  [file : Files, size : Sizes, needed : BOOLEAN, stage : {"load", "save", "end"},
   read : StateFile \cup {None}, sid : Sids \cup {None}, task : Tasks \cup {None},
   done : SUBSET Index, reused : BOOLEAN, cleans : SUBSET Sids]

ASSUME NoneIsNoCheck == None \notin CheckInfo \cup Content

CheckTypeOK ==
  /\ TypeOK
  /\ checks \in [Checkers -> CheckInfo \cup {None}]
  /\ madeFor \in [Sids -> Content \cup {None}]
  /\ crossed \subseteq Sids

At(k, stage) == checks[k] # None /\ checks[k].stage = stage

\* The loaded state file is that of an upload of the same size.
Same(c) == c.read # None /\ c.read.size = c.size

\* The check k is to go on with the directory s, which a state file named when
\* it was loaded, or will insert a session for it.
Names(k, s) ==
  \/ At(k, "save") /\ Same(checks[k]) /\ checks[k].read.dir = s
  \/ At(k, "end") /\ checks[k].sid = s

-----------------------------------------------------------------------------
(* The steps of a check *)

\* A file that is in the upload directory already needs no chunks.
BeginCheck(k, f, n) ==
  /\ checks[k] = None
  /\ checks' = [checks EXCEPT ![k] =
       [file |-> f, size |-> n, needed |-> final[f] = None \/ final[f].size # n,
        stage |-> "load", read |-> None, sid |-> None, task |-> None,
        done |-> {}, reused |-> FALSE, cleans |-> {}]]
  /\ UNCHANGED <<vars, madeFor, crossed>>

LoadCheck(k) ==
  /\ At(k, "load")
  /\ LET c == checks[k]
     IN  checks' = [checks EXCEPT ![k] =
           [file |-> c.file, size |-> c.size, needed |-> c.needed, stage |-> "save",
            read |-> IF c.needed THEN state[c.file] ELSE None,
            sid |-> None, task |-> None, done |-> {}, reused |-> FALSE, cleans |-> {}]]
  /\ UNCHANGED <<vars, madeFor, crossed>>

\* The chunks that count as completed: those of existingInfo, as it was read.
Completed(c) == IF Same(c) THEN c.read.done ELSE {}

\* validateCompletedChunks loads the state file again, if it is still there;
\* the directory of an upload of another size goes.
ValidatedStore(c) ==
  LET f == c.file
  IN  IF Same(c)
      THEN IF state[f] = None THEN store
           ELSE [store EXCEPT ![state[f].dir][f] = Unlinked(state[f].dir, f, WrongChunks(f))]
      ELSE IF c.read = None THEN store
      ELSE [store EXCEPT ![c.read.dir][f] = RemovedDir(c.read.dir, f)]

\* The directory of the loaded state file is reused if it is there; sid is the
\* id of the session, fresh if not, and t the task id that the check draws.
SaveCheck(k, sid, t) ==
  LET c == checks[k]
      reused == Same(c) /\ store[c.read.dir][c.file] # None
  IN  /\ At(k, "save")
      /\ IF reused THEN sid = c.read.dir ELSE sid \in Sids \ issued
      /\ t \in Tasks \ created
      /\ state' = IF ~c.needed THEN state ELSE
           [state EXCEPT ![c.file] =
             [size |-> c.size, done |-> Completed(c), dir |-> sid, task |-> t]]
      /\ store' = ValidatedStore(c)
      /\ issued' = issued \cup {sid}
      /\ created' = created \cup {t}
      /\ madeFor' = IF reused \/ ~c.needed THEN madeFor
                    ELSE [madeFor EXCEPT ![sid] = [file |-> c.file, size |-> c.size]]
      /\ checks' = [checks EXCEPT ![k] =
           [file |-> c.file, size |-> c.size, needed |-> c.needed, stage |-> "end",
            read |-> None, sid |-> sid, task |-> t,
            done |-> Completed(c), reused |-> reused,
            cleans |-> IF reused THEN Sids \ {sid} ELSE {}]]
      /\ UNCHANGED <<final, sessions, token, tasks, log, conns, jobs, ready, shared, restarts, crossed>>

\* Mutant: the cleanup removes the directories of other sessions, too.
ClearedDirs(s) == [store EXCEPT ![s] = RemovedDirs(s)]

\* A directory that is not that of a session goes.
CleanedDirs(s) == IF Live(s) THEN store ELSE [store EXCEPT ![s] = RemovedDirs(s)]

\* If a directory was reused, the check looks at every other one.
CleanCheck(k, s) ==
  /\ At(k, "end")
  /\ s \in checks[k].cleans
  /\ store' = CleanedDirs(s)
  /\ checks' = [checks EXCEPT ![k].cleans = @ \ {s}]
  /\ UNCHANGED <<final, state, sessions, token, tasks, log, conns, jobs, ready, shared,
                 issued, created, restarts, madeFor, crossed>>

\* The task t and the session, which is made from what this check has.
EndCheck(k, t) ==
  LET c == checks[k]
  IN  /\ At(k, "end")
      /\ c.cleans = {}
      /\ \/ AdoptTask(t, {c.file})
         \/ t = c.task /\ NewTask(t, {c.file})
      /\ sessions' = [Notified(sessions, t, FALSE) EXCEPT ![c.sid] =
           [task |-> t, paused |-> FALSE,
            files |-> [f \in Files |-> IF c.needed /\ f = c.file
                                       THEN [size |-> c.size, done |-> c.done] ELSE None]]]
      /\ token' = [token EXCEPT ![t] = c.sid]
      /\ checks' = [checks EXCEPT ![k] = None]
      /\ UNCHANGED <<final, store, state, conns, jobs, ready, shared, issued, created,
                     restarts, madeFor, crossed>>

CheckStep ==
  \E k \in Checkers :
    \/ \E f \in Files, n \in Sizes : BeginCheck(k, f, n)
    \/ LoadCheck(k)
    \/ \E sid \in Sids, t \in Tasks : SaveCheck(k, sid, t)
    \/ \E s \in Sids : CleanCheck(k, s)
    \/ \E t \in Tasks : EndCheck(k, t)

-----------------------------------------------------------------------------
(* The other handlers, the pool and the timers come between *)

\* The directories that a check is going on with and whose session ends now.
Crossing ==
  {s \in Sids : Live(s) /\ ~Live(s)' /\ \E k \in Checkers : Names(k, s)}

\* A step of another thread (the checks are those of the steps above).
Between(step) ==
  /\ step
  /\ crossed' = crossed \cup Crossing
  /\ UNCHANGED <<checks, madeFor>>

\* A stop ends the workers' requests first; a crash forgets them.
RestartAmidChecks ==
  \E Old \in SUBSET Files :
    /\ \/ Shutdown(Old) /\ \A k \in Checkers : checks[k] = None
       \/ \E Torn \in SUBSET Files : Crash(Old, Torn)
    /\ checks' = [k \in Checkers |-> None]
    /\ UNCHANGED <<madeFor, crossed>>

ChecksInit ==
  /\ Init
  /\ checks  = [k \in Checkers |-> None]
  /\ madeFor = [s \in Sids |-> None]
  /\ crossed = {}

ChecksNext ==
  \/ CheckStep
  \/ Between(Upload)
  \/ Between(Finalize)
  \/ Between(Publish)
  \/ Between(Control)
  \/ Between(Timers)
  \/ RestartAmidChecks

ChecksSpec == ChecksInit /\ [][ChecksNext]_checkVars

-----------------------------------------------------------------------------
(* Properties *)

\* The merge of a session has its chunk directory to itself: no session, state
\* file, check or other merge refers to it, since the worker deletes it in the
\* end.  The one exception, which the code allows, is a directory whose session
\* ended while a check had loaded the state file that names it and had not yet
\* inserted its own session.  (handleUploadFinalize against handleUploadCheck.)
MergeIsAlone ==
  \A w \in Merges : jobs[w] # None /\ jobs[w].sid # None /\ jobs[w].sid \notin crossed =>
    /\ ~Live(jobs[w].sid)
    /\ \A f \in Files : state[f] # None => state[f].dir # jobs[w].sid
    /\ \A k \in Checkers : ~Names(k, jobs[w].sid)
    /\ \A v \in Merges : v # w /\ jobs[v] # None => jobs[v].sid # jobs[w].sid

\* No step of a merge takes away a chunk that a session counts as completed,
\* but for the directories of that exception: the pool's worker removes its own
\* directory, and every one that it finds without a session and without chunks.
MergeSparesChunks ==
  [][(\E w \in Merges : MergeStep(w)) =>
       \A s \in Sids \ crossed, f \in Files : Live(s) /\ sessions[s].files[f] # None =>
         \A i \in sessions[s].files[f].done : HasChunk(s, f, i) => HasChunk(s, f, i)']_checkVars

\* Whatever step a check is in, it spares the uploads that it is not about: the
\* whole chunks that their state files count stay.  (The cleanup looks for the
\* sessions of the other directories, and a session is inserted only after its
\* state file was saved.)  Holds until a restart, which forgets the sessions.
CheckSparesChunks ==
  [][checks' # checks /\ restarts' = 0 =>
       \A f \in Files :
         state[f] # None /\ state'[f] = state[f] /\ state[f].dir \notin crossed =>
           \A i \in state[f].done : HasSize(state[f].dir, f, i, Blocks) =>
             HasChunk(state[f].dir, f, i)']_checkVars
=============================================================================
