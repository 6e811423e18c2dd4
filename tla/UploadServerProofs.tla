------------------------- MODULE UploadServerProofs -------------------------
(***************************************************************************)
(* Theorems about UploadServer, for every value of its constants.          *)
(*                                                                         *)
(* Types; what a session accepted is in its state file, for checks of any  *)
(* files; and, when every check is for a single file, a check that resumes *)
(* an upload keeps its chunks.  At the end, ChunkSplit.                    *)
(*                                                                         *)
(* The invariants for checks of single files are also those that the       *)
(* theorems about UploadSystem rest on.                                    *)
(***************************************************************************)
EXTENDS UploadServer, ChunkSplit, FiniteSetTheorems, WellFoundedInduction, TLAPS

-----------------------------------------------------------------------------
(* Type correctness *)

\* A chunk file that a connection writes stays where it is: whatever is
\* removed spares the files that are open.
WrittenChunkExists ==
  \A c \in Conns : conns[c] # None =>
    HasChunk(conns[c].sid, conns[c].file, conns[c].index)

\* ReceiveBlock reads the chunk file, so the types need the invariant above.
TypeInv == TypeOK /\ WrittenChunkExists

-----------------------------------------------------------------------------
(* What the helpers return *)

\* The chunks of a file of one of the sizes are among those of Index.
LEMMA IndexOfSize ==
  ASSUME NEW n \in Sizes \cup {0}, NEW i \in 0 .. n - 1
  PROVE  i \in Index
<1>1. CASE n = 0
  BY <1>1
<1>2. CASE n \in Sizes
  BY <1>2 DEF Index
<1> QED
  BY <1>1, <1>2

\* Removing chunk files leaves a chunk directory.
LEMMA UnlinkedType ==
  ASSUME TypeOK, NEW s \in Sids, NEW f \in Files, NEW I
  PROVE  Unlinked(s, f, I) \in ChunkDir \cup {None}
<1>1. store[s][f] \in ChunkDir \cup {None}
  BY DEF TypeOK
<1> QED
  BY <1>1 DEF Unlinked, ChunkDir

LEMMA RemovedDirType ==
  ASSUME TypeOK, NEW s \in Sids, NEW f \in Files
  PROVE  RemovedDir(s, f) \in ChunkDir \cup {None}
BY UnlinkedType DEF RemovedDir

\* What is removed is not open.
LEMMA OpenSurvives ==
  ASSUME TypeOK, NEW s \in Sids, NEW f \in Files, NEW i \in Index, NEW I,
         Open(s, f, i), HasChunk(s, f, i)
  PROVE  /\ Unlinked(s, f, I) # None
         /\ Unlinked(s, f, I)[i] = store[s][f][i]
         /\ RemovedDir(s, f) # None
         /\ RemovedDir(s, f)[i] = store[s][f][i]
<1>1. store[s][f] \in ChunkDir
  BY DEF TypeOK, HasChunk
<1>2. \A J : /\ Unlinked(s, f, J) # None
             /\ Unlinked(s, f, J)[i] = store[s][f][i]
  <2>1. ASSUME NEW J
        PROVE  Unlinked(s, f, J) \in ChunkDir /\ Unlinked(s, f, J)[i] = store[s][f][i]
    BY <1>1 DEF Unlinked, HasChunk, ChunkDir
  <2> QED
    BY <2>1, NoneAssumption
<1> QED
  BY <1>2 DEF RemovedDir
\* The task operations keep the type of the list and of the log.
LEMMA SetTaskType ==
  ASSUME TypeOK, NEW t \in Tasks \cup {None},
         NEW p \in {"Uploading", "Paused"}, NEW l \in {"Started", "Paused"},
         SetTask(t, p, l)
  PROVE  tasks' \in [Tasks -> Task \cup {None}] /\ log' \in [Tasks -> LogEntry \cup {None}]
<1>1. CASE t # None /\ tasks[t] # None
  <2>1. tasks[t] \in Task
    BY <1>1 DEF TypeOK
  <2>2. [tasks[t] EXCEPT !.status = p] \in Task
    BY <2>1 DEF Task
  <2>3. [name |-> tasks[t].name, status |-> l] \in LogEntry
    BY <2>1 DEF Task, LogEntry
  <2> QED
    BY <1>1, <2>2, <2>3 DEF SetTask, TypeOK
<1>2. CASE ~(t # None /\ tasks[t] # None)
  BY <1>2 DEF SetTask, TypeOK
<1> QED
  BY <1>1, <1>2

LEMMA NotifiedType ==
  ASSUME NEW ss \in [Sids -> Session \cup {None}], NEW t
  PROVE  /\ Notified(ss, t, TRUE) \in [Sids -> Session \cup {None}]
         /\ Notified(ss, t, FALSE) \in [Sids -> Session \cup {None}]
<1>1. ASSUME NEW s \in Sids, ss[s] # None
      PROVE  /\ [ss[s] EXCEPT !.paused = TRUE] \in Session
             /\ [ss[s] EXCEPT !.paused = FALSE] \in Session
  BY <1>1 DEF Session
<1> QED
  BY <1>1 DEF Notified

LEMMA EngineFailType ==
  ASSUME TypeOK, NEW t \in Tasks \cup {None}, EngineFail(t)
  PROVE  tasks' \in [Tasks -> Task \cup {None}]
<1>1. ASSUME t # None, tasks[t] # None
      PROVE  [tasks[t] EXCEPT !.status = "Failed"] \in Task
  BY <1>1 DEF Task, TypeOK
<1> QED
  BY <1>1 DEF EngineFail, TypeOK

LEMMA SessionTask ==
  ASSUME TypeOK, NEW s \in Sids, sessions[s] # None
  PROVE  /\ sessions[s] \in Session
         /\ sessions[s].task \in Tasks \cup {None}
         /\ sessions[s].files \in [Files -> FileEntry \cup {None}]
BY DEF TypeOK, Session

LEMMA TaskNameType ==
  ASSUME NEW S \in Selections
  PROVE  TaskName(S) \in Name
<1>1. S \in SUBSET Files
  BY ConstantsAssumption
<1>2. Cardinality(S) \in Nat
  BY <1>1, ConstantsAssumption, FS_Subset, FS_CardinalityType
<1> QED
  BY <1>1, <1>2 DEF TaskName, Name

-----------------------------------------------------------------------------
(* The steps of the pauses, the timers and the list *)

LEMMA DiscardType ==
  ASSUME TypeInv, NEW s \in Sids, sessions[s] # None, Discard(s)
  PROVE  TypeInv'
<1> USE DEF TypeInv
<1>1. tasks' \in [Tasks -> Task \cup {None}]
  BY SessionTask, EngineFailType DEF Discard
<1>2. state' \in [Files -> StateFile \cup {None}]
  BY DEF Discard, StateWithout, TypeOK
<1>3. RemovedDirs(s) \in [Files -> ChunkDir \cup {None}]
  BY RemovedDirType DEF RemovedDirs
<1>4. store' \in [Sids -> [Files -> ChunkDir \cup {None}]]
  BY <1>3 DEF Discard, TypeOK
<1>5. token' \in [Tasks -> Sids \cup {None}]
  BY DEF Discard, TokenWithout, TypeOK
<1>6. sessions' \in [Sids -> Session \cup {None}]
  BY DEF Discard, TypeOK
<1>7. TypeOK'
  BY <1>1, <1>2, <1>4, <1>5, <1>6 DEF TypeOK, Discard
<1>8. ASSUME NEW c \in Conns, conns'[c] # None
      PROVE  HasChunk(conns[c].sid, conns[c].file, conns[c].index)'
  <2> DEFINE r == conns[c]
  <2>1. r \in Request /\ HasChunk(r.sid, r.file, r.index)
    BY <1>8 DEF Discard, TypeOK, WrittenChunkExists
  <2>2. Open(r.sid, r.file, r.index)
    BY <1>8 DEF Open, Discard
  <2>3. RemovedDir(r.sid, r.file) # None
        /\ RemovedDir(r.sid, r.file)[r.index] = store[r.sid][r.file][r.index]
    BY <2>1, <2>2, OpenSurvives DEF Request
  <2> QED
    BY <2>1, <2>3 DEF Discard, HasChunk, RemovedDirs, TypeOK, Request
<1> QED
  BY <1>7, <1>8 DEF WrittenChunkExists
\* Steps that leave the chunk directories and the connections alone.
LEMMA ChunksUnchanged ==
  ASSUME WrittenChunkExists, UNCHANGED <<store, conns>>
  PROVE  WrittenChunkExists'
BY DEF WrittenChunkExists, HasChunk

LEMMA UploadPauseType ==
  ASSUME TypeInv, NEW s \in Sids, UploadPause(s) \/ UploadResume(s)
  PROVE  TypeInv'
<1> USE DEF TypeInv
<1>1. tasks' \in [Tasks -> Task \cup {None}] /\ log' \in [Tasks -> LogEntry \cup {None}]
  BY SessionTask, SetTaskType DEF UploadPause, UploadResume, EnginePause, EngineResume
<1>2. /\ [sessions EXCEPT ![s].paused = TRUE] \in [Sids -> Session \cup {None}]
      /\ [sessions EXCEPT ![s].paused = FALSE] \in [Sids -> Session \cup {None}]
  <2>1. sessions[s] \in Session
    BY DEF UploadPause, UploadResume, TypeOK
  <2>2. /\ [sessions[s] EXCEPT !.paused = TRUE] \in Session
        /\ [sessions[s] EXCEPT !.paused = FALSE] \in Session
    BY <2>1 DEF Session
  <2> QED
    BY <2>2 DEF TypeOK
<1>3. sessions' \in [Sids -> Session \cup {None}]
  <2>1. CASE UploadPause(s)
    <3> DEFINE ss == [sessions EXCEPT ![s].paused = TRUE]
    <3>1. sessions' = Notified(ss, sessions[s].task, TRUE)
      BY <2>1 DEF UploadPause
    <3> QED
      BY <1>2, <3>1, NotifiedType, Zenon
  <2>2. CASE UploadResume(s)
    <3> DEFINE ss == [sessions EXCEPT ![s].paused = FALSE]
    <3>1. sessions' = Notified(ss, sessions[s].task, FALSE)
      BY <2>2 DEF UploadResume
    <3> QED
      BY <1>2, <3>1, NotifiedType, Zenon
  <2> QED
    BY <2>1, <2>2
<1>4. TypeOK'
  BY <1>1, <1>3 DEF TypeOK, UploadPause, UploadResume
<1> QED
  BY <1>4, ChunksUnchanged DEF UploadPause, UploadResume

LEMMA PauseTaskType ==
  ASSUME TypeInv, NEW t \in Tasks, PauseTask(t) \/ ResumeTask(t) \/ AutoPause(t)
  PROVE  TypeInv'
<1> USE DEF TypeInv
<1>1. tasks' \in [Tasks -> Task \cup {None}] /\ log' \in [Tasks -> LogEntry \cup {None}]
  BY SetTaskType DEF PauseTask, ResumeTask, AutoPause, EnginePause, EngineResume
<1>2. sessions' \in [Sids -> Session \cup {None}]
  <2>1. sessions \in [Sids -> Session \cup {None}]
    BY DEF TypeOK
  <2>2. /\ Notified(sessions, t, TRUE) \in [Sids -> Session \cup {None}]
        /\ Notified(sessions, t, FALSE) \in [Sids -> Session \cup {None}]
    BY <2>1, NotifiedType, Zenon
  <2> QED
    BY <2>1, <2>2, Zenon DEF PauseTask, ResumeTask, AutoPause
<1>3. TypeOK'
  BY <1>1, <1>2 DEF TypeOK, PauseTask, ResumeTask, AutoPause
<1> QED
  BY <1>3, ChunksUnchanged DEF PauseTask, ResumeTask, AutoPause

LEMMA DeleteTaskType ==
  ASSUME TypeInv, NEW t \in Tasks, DeleteTask(t)
  PROVE  TypeInv'
<1> USE DEF TypeInv
<1>1. tasks' \in [Tasks -> Task \cup {None}] /\ log' \in [Tasks -> LogEntry \cup {None}]
  BY DEF DeleteTask, TypeOK
<1>2. state' \in [Files -> StateFile \cup {None}]
  BY DEF DeleteTask, StateWithout, TypeOK
<1>3. TypeOK'
  BY <1>1, <1>2 DEF TypeOK, DeleteTask
<1> QED
  BY <1>3, ChunksUnchanged DEF DeleteTask

-----------------------------------------------------------------------------
(* The steps of chunk requests *)

LEMMA BeginChunkType ==
  ASSUME TypeInv, NEW c \in Conns, NEW s \in Sids, NEW f \in Files,
         NEW i \in Index, NEW d \in Data, BeginChunk(c, s, f, i, d)
  PROVE  TypeInv'
<1> USE DEF TypeInv
<1> DEFINE dir == IF store[s][f] = None THEN EmptyDir ELSE store[s][f]
<1>1. dir \in ChunkDir
  BY DEF EmptyDir, ChunkDir, TypeOK
<1>2. EmptyChunk \in ChunkFile
  BY ConstantsAssumption DEF EmptyChunk, ChunkFile, Block
<1>3. [dir EXCEPT ![i] = EmptyChunk] \in ChunkDir
  BY <1>1, <1>2 DEF ChunkDir
<1>4. store' \in [Sids -> [Files -> ChunkDir \cup {None}]]
  BY <1>3 DEF BeginChunk, TypeOK
<1>5. [sid |-> s, file |-> f, index |-> i, data |-> d, received |-> 0] \in Request
  BY ConstantsAssumption DEF Request
<1>6. conns' \in [Conns -> Request \cup {None}]
  BY <1>5 DEF BeginChunk, TypeOK
<1>7. TypeOK'
  BY <1>4, <1>6 DEF TypeOK, BeginChunk
<1>8. \A u \in Sids, g \in Files, j \in Index : HasChunk(u, g, j) => HasChunk(u, g, j)'
  <2> SUFFICES ASSUME NEW u \in Sids, NEW g \in Files, NEW j \in Index, HasChunk(u, g, j)
               PROVE  HasChunk(u, g, j)'
    OBVIOUS
  <2>1. CASE u = s /\ g = f
    <3>1. store'[s][f] = [dir EXCEPT ![i] = EmptyChunk]
      BY DEF BeginChunk, TypeOK
    <3> QED
      BY <2>1, <3>1, <1>1, <1>2, <1>3, NoneAssumption DEF HasChunk, ChunkDir
  <2>2. CASE ~(u = s /\ g = f)
    BY <2>2 DEF BeginChunk, TypeOK, HasChunk
  <2> QED
    BY <2>1, <2>2
<1>9. HasChunk(s, f, i)'
  <2>1. store'[s][f] = [dir EXCEPT ![i] = EmptyChunk]
    BY DEF BeginChunk, TypeOK
  <2> QED
    BY <2>1, <1>1, <1>2, <1>3, NoneAssumption DEF HasChunk, ChunkDir
<1>10. ASSUME NEW e \in Conns, conns'[e] # None
       PROVE  HasChunk(conns[e].sid, conns[e].file, conns[e].index)'
  <2>1. CASE e = c
    BY <2>1, <1>9 DEF BeginChunk, TypeOK
  <2>2. CASE e # c
    BY <2>2, <1>8, <1>10 DEF BeginChunk, TypeOK, WrittenChunkExists, Request
  <2> QED
    BY <2>1, <2>2
<1> QED
  BY <1>7, <1>10 DEF WrittenChunkExists

LEMMA ReceiveBlockType ==
  ASSUME TypeInv, NEW c \in Conns, ReceiveBlock(c)
  PROVE  TypeInv'
<1> USE DEF TypeInv
<1> DEFINE r == conns[c]
           chunk == store[r.sid][r.file][r.index]
           written == [len    |-> IF chunk.len > r.received THEN chunk.len
                                  ELSE r.received + 1,
                       blocks |-> [chunk.blocks EXCEPT ![r.received + 1] = r.data]]
<1>1. r \in Request /\ HasChunk(r.sid, r.file, r.index)
  BY DEF ReceiveBlock, TypeOK, WrittenChunkExists
<1>2. r.sid \in Sids /\ r.file \in Files /\ r.index \in Index /\ r.data \in Data
      /\ r.received \in 0 .. Blocks /\ r.received < Blocks
  BY <1>1 DEF Request, ReceiveBlock
<1>3. chunk \in ChunkFile
  BY <1>1, <1>2 DEF HasChunk, TypeOK, ChunkDir
<1>4. written \in ChunkFile
  <2>1. written.len \in 0 .. Blocks
    <3>1. chunk.len \in 0 .. Blocks
      BY <1>3 DEF ChunkFile
    <3>2. r.received + 1 \in 0 .. Blocks
      BY <1>2, ConstantsAssumption
    <3>3. written.len = chunk.len \/ written.len = r.received + 1
      OBVIOUS
    <3> QED
      BY <3>1, <3>2, <3>3
  <2>2. written.blocks \in [1 .. Blocks -> Block]
    BY <1>2, <1>3 DEF ChunkFile, Block
  <2> QED
    BY <2>1, <2>2 DEF ChunkFile
<1>5. store[r.sid][r.file] \in ChunkDir
  BY <1>1, <1>2 DEF HasChunk, TypeOK
<1>6. [store[r.sid][r.file] EXCEPT ![r.index] = written] \in ChunkDir
  BY <1>2, <1>4, <1>5 DEF ChunkDir
<1>7. store' = [store EXCEPT ![r.sid][r.file][r.index] = written]
  BY DEF ReceiveBlock
<1>8. store' \in [Sids -> [Files -> ChunkDir \cup {None}]]
  BY <1>2, <1>6, <1>7 DEF TypeOK
<1>9. conns' \in [Conns -> Request \cup {None}]
  <2>1. [r EXCEPT !.received = r.received + 1] \in Request
    BY <1>1, <1>2, ConstantsAssumption DEF Request
  <2> QED
    BY <2>1 DEF ReceiveBlock, TypeOK
<1>10. TypeOK'
  BY <1>8, <1>9 DEF TypeOK, ReceiveBlock
<1>11. \A u \in Sids, g \in Files, j \in Index : HasChunk(u, g, j) => HasChunk(u, g, j)'
  BY <1>2, <1>4, <1>5, <1>6, <1>7, NoneAssumption DEF HasChunk, TypeOK, ChunkDir
<1>12. ASSUME NEW e \in Conns, conns'[e] # None
       PROVE  HasChunk(conns[e].sid, conns[e].file, conns[e].index)'
  <2>1. conns[e] \in Request
    BY <1>12 DEF ReceiveBlock, TypeOK
  <2>2. conns'[e].sid = conns[e].sid /\ conns'[e].file = conns[e].file
        /\ conns'[e].index = conns[e].index
    BY <2>1 DEF ReceiveBlock, TypeOK, Request
  <2> QED
    BY <2>1, <2>2, <1>11, NoneAssumption DEF WrittenChunkExists, Request
<1> QED
  BY <1>10, <1>12 DEF WrittenChunkExists
\* The last call of a chunk request works on a session and an entry that have
\* the right type, whether they were there or not.
LEMMA EntryOfType ==
  ASSUME TypeOK, NEW r \in Request
  PROVE  /\ SessionOf(r) \in Session
         /\ EntryOf(r) \in FileEntry
<1>1. DefaultSession \in Session
  BY DEF DefaultSession, Session
<1>2. SessionOf(r) \in Session
  BY <1>1 DEF SessionOf, TypeOK, Request
<1>3. DefaultEntry \in FileEntry
  BY DEF DefaultEntry, FileEntry
<1>4. EntryOf(r) \in FileEntry
  BY <1>2, <1>3 DEF EntryOf, Session, Request
<1> QED
  BY <1>2, <1>4

LEMMA EndChunkType ==
  ASSUME TypeInv, NEW c \in Conns, EndChunk(c)
  PROVE  TypeInv'
<1> USE DEF TypeInv
<1> DEFINE r == conns[c]
           chunks(n) == IF ChunkAccepted(r) /\ r.index < n THEN {r.index} ELSE {}
           entry == [EntryOf(r) EXCEPT !.done = @ \cup chunks(EntryOf(r).size)]
<1>1. r \in Request /\ r.sid \in Sids /\ r.file \in Files /\ r.index \in Index
  BY DEF EndChunk, TypeOK, Request
<1>2. \A n : chunks(n) \subseteq Index
  BY <1>1
<1>3. SessionOf(r) \in Session /\ EntryOf(r) \in FileEntry
  BY <1>1, EntryOfType
<1>4. entry \in FileEntry
  <2> HIDE DEF chunks
  <2> QED
    BY <1>2, <1>3 DEF FileEntry
<1>5. [SessionOf(r) EXCEPT !.files[r.file] = entry] \in Session
  <2> HIDE DEF entry
  <2> QED
    BY <1>3, <1>4 DEF Session
<1>6. sessions' \in [Sids -> Session \cup {None}]
  <2>1. sessions' = [sessions EXCEPT ![r.sid] = [SessionOf(r) EXCEPT !.files[r.file] = entry]]
    BY DEF EndChunk
  <2> QED
    BY <1>5, <2>1 DEF TypeOK
<1>7. state' \in [Files -> StateFile \cup {None}]
  <2>1. CASE state[r.file] = None
    BY <2>1 DEF EndChunk, TypeOK
  <2>2. CASE state[r.file] # None
    <3>1. state' = [state EXCEPT ![r.file].done = @ \cup chunks(state[r.file].size)]
      BY <2>2 DEF EndChunk
    <3>2. state[r.file] \in StateFile
      BY <1>1, <2>2 DEF TypeOK
    <3> HIDE DEF chunks
    <3>3. [state[r.file] EXCEPT !.done = @ \cup chunks(state[r.file].size)] \in StateFile
      BY <1>2, <3>2 DEF StateFile
    <3> QED
      BY <3>1, <3>3 DEF TypeOK
  <2> QED
    BY <2>1, <2>2
<1>8. TypeOK'
  BY <1>6, <1>7 DEF TypeOK, EndChunk
<1> QED
  BY <1>8 DEF EndChunk, WrittenChunkExists, HasChunk, TypeOK

-----------------------------------------------------------------------------
(* The steps of a merge *)

LEMMA UploadFinalizeType ==
  ASSUME TypeInv, NEW s \in Sids, NEW w \in Merges, UploadFinalize(s, w)
  PROVE  TypeInv'
<1> USE DEF TypeInv
<1> DEFINE todo == [f \in Files |-> IF f \in Chunked(s) THEN sessions[s].files[f].size ELSE 0]
           job == [sid   |-> IF Live(s) THEN s ELSE None,
                   task  |-> sessions[s].task,
                   file  |-> None,
                   todo  |-> todo,
                   saved |-> {}]
<1>1. sessions[s] # None
  BY DEF UploadFinalize
<1>2. todo \in [Files -> Sizes \cup {0}]
  BY <1>1, SessionTask DEF Chunked, FileEntry
<1>3. job \in Job
  BY <1>1, <1>2, SessionTask DEF Job
<1>4. jobs' \in [Merges -> Job \cup {None}]
  BY <1>3 DEF UploadFinalize, TypeOK
<1>5. state' \in [Files -> StateFile \cup {None}]
  BY DEF UploadFinalize, StateWithout, TypeOK
<1>6. token' \in [Tasks -> Sids \cup {None}]
  BY DEF UploadFinalize, TokenWithout, TypeOK
<1>7. sessions' \in [Sids -> Session \cup {None}]
  BY DEF UploadFinalize, TypeOK
<1>8. TypeOK'
  BY <1>4, <1>5, <1>6, <1>7 DEF TypeOK, UploadFinalize
<1> QED
  BY <1>8, ChunksUnchanged DEF UploadFinalize

LEMMA OpenMergedType ==
  ASSUME TypeInv, NEW w \in Merges, NEW f \in Files, OpenMerged(w, f)
  PROVE  TypeInv'
<1> USE DEF TypeInv
<1> DEFINE n == jobs[w].todo[f]
           opened == [size |-> IF Whole(jobs[w].sid, f, n) THEN n ELSE 0, data |-> Damaged]
<1>1. jobs[w] \in Job /\ n \in Sizes \cup {0}
  BY DEF OpenMerged, TypeOK, Job
<1>2. opened \in FinalFile
  BY <1>1 DEF FinalFile
<1>3. final' \in [Files -> FinalFile \cup {None}]
  BY <1>2 DEF OpenMerged, TypeOK
<1>4. [jobs[w] EXCEPT !.file = f] \in Job
  BY <1>1 DEF Job
<1>5. jobs' \in [Merges -> Job \cup {None}]
  BY <1>4 DEF OpenMerged, TypeOK
<1>6. TypeOK'
  BY <1>3, <1>5 DEF TypeOK, OpenMerged
<1> QED
  BY <1>6, ChunksUnchanged DEF OpenMerged
\* A step that keeps the connections and every chunk file they write.
LEMMA WrittenChunksKept ==
  ASSUME TypeInv, UNCHANGED conns,
         \A s \in Sids, f \in Files, i \in Index :
           Open(s, f, i) /\ HasChunk(s, f, i) => HasChunk(s, f, i)'
  PROVE  WrittenChunkExists'
<1> SUFFICES ASSUME NEW c \in Conns, conns[c] # None
             PROVE  HasChunk(conns[c].sid, conns[c].file, conns[c].index)'
  BY DEF WrittenChunkExists
<1> DEFINE r == conns[c]
<1>1. r.sid \in Sids /\ r.file \in Files /\ r.index \in Index
  BY DEF TypeInv, TypeOK, Request
<1>2. Open(r.sid, r.file, r.index) /\ HasChunk(r.sid, r.file, r.index)
  BY DEF TypeInv, Open, WrittenChunkExists
<1> QED
  BY <1>1, <1>2

LEMMA CopyMergedType ==
  ASSUME TypeInv, NEW w \in Merges, CopyMerged(w)
  PROVE  TypeInv'
<1> USE DEF TypeInv
<1> DEFINE f == jobs[w].file
           s == jobs[w].sid
           n == jobs[w].todo[f]
           merged == \A i \in 0 .. n - 1 : HasChunk(s, f, i)
           sized  == final[f].size = n \/ Whole(s, f, n)
           copied == {d \in Data : Whole(s, f, n) /\ Holds(s, f, n, d)}
<1>1. jobs[w] \in Job /\ f \in Files /\ n \in Sizes \cup {0}
  BY DEF CopyMerged, TypeOK, Job
<1>2. [size |-> IF sized THEN n ELSE 0,
       data |-> IF copied = {} THEN Damaged ELSE CHOOSE d \in copied : TRUE] \in FinalFile
  <2>1. (IF copied = {} THEN Damaged ELSE CHOOSE d \in copied : TRUE) \in Data \cup {Damaged}
    OBVIOUS
  <2> QED
    BY <1>1, <2>1 DEF FinalFile
<1>3. final' \in [Files -> FinalFile \cup {None}]
  BY <1>1, <1>2 DEF CopyMerged, TypeOK
<1>4. \/ store' = store
      \/ s \in Sids /\ store' = [store EXCEPT ![s][f] = RemovedDir(s, f)]
  <2>1. store' = store \/ store' = [store EXCEPT ![s][f] = RemovedDir(s, f)]
    BY DEF CopyMerged
  <2>2. s \notin Sids => [store EXCEPT ![s][f] = RemovedDir(s, f)] = store
    BY DEF TypeOK
  <2> QED
    BY <2>1, <2>2
<1>5. store' \in [Sids -> [Files -> ChunkDir \cup {None}]]
  <2>1. CASE s \in Sids /\ store' = [store EXCEPT ![s][f] = RemovedDir(s, f)]
    <3>1. RemovedDir(s, f) \in ChunkDir \cup {None}
      BY <1>1, <2>1, RemovedDirType
    <3> HIDE DEF s, f
    <3> QED
      BY <1>1, <2>1, <3>1 DEF TypeOK
  <2>2. CASE store' = store
    BY <2>2 DEF TypeOK
  <2> QED
    BY <1>4, <2>1, <2>2
<1>6. jobs' \in [Merges -> Job \cup {None}]
  <2> DEFINE saved == IF merged /\ sized THEN jobs[w].saved \cup {f} ELSE jobs[w].saved
  <2>1. jobs' = [jobs EXCEPT ![w] = [jobs[w] EXCEPT !.file = None, !.todo[f] = 0, !.saved = saved]]
    BY DEF CopyMerged, TypeOK
  <2>2. saved \subseteq Files
    BY <1>1 DEF Job
  <2>3. [jobs[w] EXCEPT !.file = None, !.todo[f] = 0, !.saved = saved] \in Job
    <3> HIDE DEF saved
    <3> QED
      BY <1>1, <2>2 DEF Job
  <2> QED
    BY <2>1, <2>3 DEF TypeOK
<1>7. TypeOK'
  BY <1>3, <1>5, <1>6 DEF TypeOK, CopyMerged
<1>8. ASSUME NEW u \in Sids, NEW g \in Files, NEW i \in Index,
             Open(u, g, i), HasChunk(u, g, i)
      PROVE  HasChunk(u, g, i)'
  <2>1. RemovedDir(u, g) # None /\ RemovedDir(u, g)[i] = store[u][g][i]
    BY <1>8, OpenSurvives
  <2>2. store'[u][g] = store[u][g] \/ store'[u][g] = RemovedDir(u, g)
    <3> HIDE DEF s, f
    <3> QED
      BY <1>1, <1>4 DEF TypeOK
  <2> QED
    BY <1>8, <2>1, <2>2 DEF HasChunk
<1> QED
  BY <1>7, <1>8, WrittenChunksKept DEF CopyMerged

LEMMA EndMergeType ==
  ASSUME TypeInv, NEW w \in Merges, EndMerge(w)
  PROVE  TypeInv'
<1> USE DEF TypeInv
<1> DEFINE d == jobs[w].sid
           left == IF d = None THEN store ELSE [store EXCEPT ![d] = RemovedDirs(d)]
           used(s) == \E f \in Files : left[s][f] # None /\ \E i \in Index : left[s][f][i] # None
<1>1. jobs[w] \in Job
  BY DEF EndMerge, TypeOK
<1>2. left \in [Sids -> [Files -> ChunkDir \cup {None}]]
  <2>1. d \in Sids => RemovedDirs(d) \in [Files -> ChunkDir \cup {None}]
    BY RemovedDirType DEF RemovedDirs
  <2> QED
    BY <1>1, <2>1 DEF TypeOK, Job
<1>3. NoDirs \in [Files -> ChunkDir \cup {None}]
  BY DEF NoDirs
<1>4. store' = [s \in Sids |-> IF sessions[s] = None /\ ~used(s) THEN NoDirs ELSE left[s]]
  BY DEF EndMerge
<1>5. store' \in [Sids -> [Files -> ChunkDir \cup {None}]]
  <2> HIDE DEF left
  <2> QED
    BY <1>2, <1>3, <1>4
<1>6. ready' \in Seq(Finished)
  <2>1. [task |-> jobs[w].task, saved |-> jobs[w].saved] \in Finished
    BY <1>1 DEF Job, Finished
  <2> QED
    BY <2>1 DEF EndMerge, TypeOK
<1>7. jobs' \in [Merges -> Job \cup {None}]
  BY DEF EndMerge, TypeOK
<1>8. TypeOK'
  BY <1>5, <1>6, <1>7 DEF TypeOK, EndMerge
<1>9. ASSUME NEW u \in Sids, NEW g \in Files, NEW i \in Index,
             Open(u, g, i), HasChunk(u, g, i)
      PROVE  HasChunk(u, g, i)'
  <2>1. RemovedDir(u, g) # None /\ RemovedDir(u, g)[i] = store[u][g][i]
    BY <1>9, OpenSurvives
  <2>2. left[u][g] # None /\ left[u][g][i] = store[u][g][i]
    BY <1>1, <1>9, <2>1 DEF TypeOK, RemovedDirs, HasChunk, Job
  <2>3. used(u)
    BY <1>9, <2>2 DEF HasChunk
  <2>4. store'[u] = left[u]
    BY <1>4, <2>3
  <2> QED
    BY <1>9, <2>2, <2>4 DEF HasChunk
<1> QED
  BY <1>8, <1>9, WrittenChunksKept DEF EndMerge

LEMMA FinalizeReadyType ==
  ASSUME TypeInv, FinalizeReady
  PROVE  TypeInv'
<1> USE DEF TypeInv
<1> DEFINE e == Head(ready)
<1>1. e \in Finished /\ ready' \in Seq(Finished)
  BY DEF FinalizeReady, TypeOK
<1>2. shared' \subseteq Files
  BY <1>1 DEF FinalizeReady, TypeOK, Finished
<1>3. log' \in [Tasks -> LogEntry \cup {None}]
  BY DEF FinalizeReady, TypeOK
<1>4. tasks' \in [Tasks -> Task \cup {None}]
  <2>1. ASSUME NEW t \in Tasks, tasks[t] # None
        PROVE  [tasks[t] EXCEPT !.status = "Completed"] \in Task
    BY <2>1 DEF Task, TypeOK
  <2> QED
    BY <1>1, <2>1 DEF FinalizeReady, TypeOK, Finished
<1>5. TypeOK'
  BY <1>1, <1>2, <1>3, <1>4 DEF TypeOK, FinalizeReady
<1> QED
  BY <1>5, ChunksUnchanged DEF FinalizeReady
-----------------------------------------------------------------------------
(* A check *)

\* The session id and the directories that a check ends with are ids.
LEMMA ChosenSidType ==
  ASSUME TypeOK, NEW S \in Selections, NEW size \in [S -> Sizes], NEW s0 \in Sids
  PROVE  /\ ChosenSid(S, size, s0) \in Sids
         /\ \A f : DirAt(f, S, size, s0) \in Sids
<1>1. CASE Reusable(S, size) = {}
  BY <1>1 DEF ChosenSid, DirAt
<1>2. CASE Reusable(S, size) # {}
  <2>1. Reusable(S, size) \subseteq Files
    BY ConstantsAssumption DEF Reusable, Matching, Needed
  <2>2. FirstReusable(S, size) \in Reusable(S, size)
    BY <1>2, <2>1, FilesAreOrdered DEF FirstReusable
  <2>3. state[FirstReusable(S, size)] \in StateFile
    BY <2>1, <2>2 DEF Reusable, Matching, TypeOK
  <2>4. state[FirstReusable(S, size)].dir \in Sids
    BY <2>3 DEF StateFile
  <2> QED
    BY <1>2, <2>4 DEF ChosenSid, DirAt
<1> QED
  BY <1>1, <1>2

LEMMA UploadCheckType ==
  ASSUME TypeInv, NEW S \in Selections, NEW size \in [S -> Sizes],
         NEW s0 \in Sids, NEW t0 \in Tasks, NEW t \in Tasks,
         UploadCheck(S, size, s0, t0, t)
  PROVE  TypeInv'
<1> USE DEF TypeInv
<1> DEFINE chosen == ChosenSid(S, size, s0)
<1>1. S \subseteq Files
  BY ConstantsAssumption
<1>2. chosen \in Sids /\ \A f : DirAt(f, S, size, s0) \in Sids
  BY ChosenSidType
<1>3. tasks' \in [Tasks -> Task \cup {None}] /\ log' \in [Tasks -> LogEntry \cup {None}]
  <2>1. CASE AdoptTask(t, S)
    BY <2>1, SetTaskType DEF AdoptTask, EngineResume
  <2>2. CASE NewTask(t, S)
    <3>1. [name |-> TaskName(S), status |-> "Uploading"] \in Task
      BY TaskNameType DEF Task
    <3>2. WithoutUnfinished({TaskName(S)} \cup {<<"file", f>> : f \in S})
            \in [Tasks -> Task \cup {None}]
      BY DEF WithoutUnfinished, TypeOK
    <3> QED
      BY <2>2, <3>1, <3>2 DEF NewTask, TypeOK
  <2> QED
    BY <2>1, <2>2 DEF UploadCheck
<1>4. state' \in [Files -> StateFile \cup {None}]
  <2>1. ASSUME NEW f \in Reusable(S, size), f \in Files
        PROVE  [state[f] EXCEPT !.task = t0] \in StateFile
    <3>1. state[f] \in StateFile
      BY <2>1 DEF Reusable, Matching, TypeOK
    <3> QED
      BY <3>1 DEF StateFile
  <2>2. ASSUME NEW f \in Matching(S, size), f \in Files
        PROVE  [state[f] EXCEPT !.task = t0, !.dir = DirAt(f, S, size, s0)] \in StateFile
    BY <1>2, <2>2 DEF Matching, StateFile, TypeOK
  <2>3. ASSUME NEW f \in Needed(S, size)
        PROVE  [size |-> size[f], done |-> {}, dir |-> DirAt(f, S, size, s0), task |-> t0]
                 \in StateFile
    BY <1>2 DEF Needed, StateFile
  <2> QED
    BY <2>1, <2>2, <2>3 DEF CheckedState, UploadCheck, TypeOK
<1>5. store' \in [Sids -> [Files -> ChunkDir \cup {None}]]
  <2>1. ASSUME NEW s \in Sids, NEW f \in Files
        PROVE  /\ RemovedDir(s, f) \in ChunkDir \cup {None}
               /\ Unlinked(s, f, WrongChunks(f)) \in ChunkDir \cup {None}
    BY RemovedDirType, UnlinkedType
  <2> QED
    BY <2>1 DEF CheckedStore, UploadCheck, TypeOK
<1>6. CheckedFiles(S, size) \in [Files -> FileEntry \cup {None}]
  <2>1. ASSUME NEW f \in Matching(S, size), f \in Files
        PROVE  [size |-> size[f], done |-> state[f].done] \in FileEntry
    BY <2>1 DEF Matching, Needed, StateFile, FileEntry, TypeOK
  <2>2. ASSUME NEW f \in Needed(S, size)
        PROVE  [size |-> size[f], done |-> {}] \in FileEntry
    BY DEF Needed, FileEntry
  <2> QED
    BY <2>1, <2>2 DEF CheckedFiles
<1>7. sessions' \in [Sids -> Session \cup {None}]
  <2>1. [task |-> t, files |-> CheckedFiles(S, size), paused |-> FALSE] \in Session
    BY <1>6 DEF Session
  <2>2. Notified(sessions, t, FALSE) \in [Sids -> Session \cup {None}]
    BY NotifiedType, Zenon DEF TypeOK
  <2> QED
    BY <1>2, <2>1, <2>2 DEF UploadCheck
<1>8. token' \in [Tasks -> Sids \cup {None}]
  BY <1>2 DEF UploadCheck, TypeOK
<1>9. issued' \subseteq Sids /\ created' \subseteq Tasks
  BY <1>2 DEF UploadCheck, CheckedSids, TypeOK
<1>10. TypeOK'
  BY <1>3, <1>4, <1>5, <1>7, <1>8, <1>9 DEF TypeOK, UploadCheck
<1>11. ASSUME NEW u \in Sids, NEW g \in Files, NEW i \in Index,
              Open(u, g, i), HasChunk(u, g, i)
       PROVE  HasChunk(u, g, i)'
  <2>1. /\ RemovedDir(u, g) # None /\ RemovedDir(u, g)[i] = store[u][g][i]
        /\ Unlinked(u, g, WrongChunks(g)) # None
        /\ Unlinked(u, g, WrongChunks(g))[i] = store[u][g][i]
    BY <1>11, OpenSurvives
  <2>2. store'[u][g] \in {RemovedDir(u, g), Unlinked(u, g, WrongChunks(g)), store[u][g]}
    BY DEF UploadCheck, CheckedStore
  <2> QED
    BY <1>11, <2>1, <2>2 DEF HasChunk
<1> QED
  BY <1>10, <1>11, WrittenChunksKept DEF UploadCheck

-----------------------------------------------------------------------------
(* A stop and a start *)

LEMMA RestartType ==
  ASSUME TypeInv, NEW l \in [Tasks -> LogEntry \cup {None}], NEW Old, NEW Torn,
         Restart(l, Old, Torn)
  PROVE  TypeInv'
<1> USE DEF TypeInv
<1> DEFINE st == StateWithout(Old \cup Torn)
<1>1. st \in [Files -> StateFile \cup {None}]
  BY DEF StateWithout, TypeOK
<1>2. PICK R \in RestoredFrom(l) : tasks' = RestoredTasks(R, l, st)
  BY DEF Restart
<1>3. tasks' \in [Tasks -> Task \cup {None}]
  <2> DEFINE listed(t) == {f \in Files : /\ st[f] # None
                                         /\ st[f].task = t
                                         /\ \A u \in R : l[u].name # <<"file", f>>}
             last(F)   == CHOOSE f \in F : \A g \in F : g <= f
  <2>1. ASSUME NEW t \in Tasks, listed(t) # {}
        PROVE  [name |-> <<"file", last(listed(t))>>, status |-> "Paused"] \in Task
    <3>1. last(listed(t)) \in Files
      <4>1. \A F \in SUBSET Files : F # {} => last(F) \in Files
        BY FilesAreOrdered
      <4> QED
        BY <2>1, <4>1
    <3> HIDE DEF last, listed
    <3> QED
      BY <3>1 DEF Task, Name
  <2>2. ASSUME NEW t \in R
        PROVE  [name   |-> l[t].name,
                status |-> IF l[t].status = "Paused" THEN "Paused" ELSE "Uploading"] \in Task
    <3>1. l[t] \in LogEntry
      BY <1>2 DEF RestoredFrom
    <3> QED
      BY <3>1 DEF LogEntry, Task
  <2> QED
    BY <1>2, <2>1, <2>2 DEF RestoredTasks
<1>4. store' \in [Sids -> [Files -> ChunkDir \cup {None}]]
  BY DEF Restart, TypeOK
<1>5. ready' \in Seq(Finished)
  BY DEF Restart
<1>6. restarts' \in 0 .. MaxRestarts
  BY ConstantsAssumption DEF Restart, TypeOK
<1>7. TypeOK'
  BY <1>1, <1>3, <1>4, <1>5, <1>6 DEF TypeOK, Restart
<1> QED
  BY <1>7 DEF Restart, WrittenChunkExists

LEMMA RestartsType ==
  ASSUME TypeInv, Restarts
  PROVE  TypeInv'
<1>1. log \in [Tasks -> LogEntry \cup {None}]
  BY DEF TypeInv, TypeOK
<1>2. ShutdownLog \in [Tasks -> LogEntry \cup {None}]
  <2>1. ASSUME NEW t \in Tasks, tasks[t] # None
        PROVE  [name   |-> tasks[t].name,
                status |-> IF tasks[t].status = "Paused" THEN "Paused" ELSE "Started"]
                  \in LogEntry
    BY <2>1 DEF TypeInv, TypeOK, Task, LogEntry
  <2> QED
    BY <1>1, <2>1 DEF ShutdownLog
<1> QED
  BY <1>1, <1>2, RestartType DEF Restarts, Shutdown, Crash

-----------------------------------------------------------------------------
\* The program starts with empty maps, and TypeInv holds.
LEMMA InitType == Init => TypeInv
BY ConstantsAssumption DEF Init, NoDirs, TypeInv, TypeOK, WrittenChunkExists

\* Every step keeps TypeInv.
LEMMA NextType == TypeInv /\ [Next]_vars => TypeInv'
<1> SUFFICES ASSUME TypeInv, [Next]_vars
             PROVE  TypeInv'
  OBVIOUS
<1>1. CASE Check
  BY <1>1, UploadCheckType DEF Check
<1>2. CASE Upload
  BY <1>2, BeginChunkType, ReceiveBlockType, EndChunkType DEF Upload
<1>3. CASE Finalize
  BY <1>3, UploadFinalizeType DEF Finalize
<1>4. CASE Publish
  BY <1>4, OpenMergedType, CopyMergedType, EndMergeType, FinalizeReadyType
     DEF Publish, MergeStep
<1>5. CASE Control
  BY <1>5, DiscardType, UploadPauseType, PauseTaskType, DeleteTaskType
     DEF Control, UploadAbort
<1>6. CASE Timers
  BY <1>6, DiscardType, PauseTaskType DEF Timers, ExpireSession, Live
<1>7. CASE Restarts
  BY <1>7, RestartsType
<1>8. CASE UNCHANGED vars
  BY <1>8 DEF vars, TypeInv, TypeOK, WrittenChunkExists, HasChunk
<1> QED
  BY <1>1, <1>2, <1>3, <1>4, <1>5, <1>6, <1>7, <1>8 DEF Next

\* All values have their types in every state, and no step reads a chunk file
\* that is not there (ReceiveBlock writes to an open file that every removal of
\* directories has to spare).
THEOREM TypeCorrect == Spec => []TypeOK
<1>1. TypeInv => TypeOK
  BY DEF TypeInv
<1> QED
  BY <1>1, InitType, NextType, PTL DEF Spec

-----------------------------------------------------------------------------
(* Invariants for checks of any files *)

\* Whatever refers to a directory got its id from a check.  A check draws ids
\* that were not issued, so nothing refers to the directory of a new session.
IdsIssued ==
  /\ \A s \in Sids  : sessions[s] # None => s \in issued
  /\ \A f \in Files : state[f] # None => state[f].dir \in issued
  /\ \A c \in Conns : conns[c] # None => conns[c].sid \in issued
  /\ \A w \in Merges : jobs[w] # None /\ jobs[w].sid # None => jobs[w].sid \in issued

\* The session and the state file of an upload agree: they have the same size,
\* unless a late chunk request inserted the session's entry, and what the
\* session counts as completed is completed in the state file.
ListsAgree ==
  \A s \in Sids, f \in Files :
    Live(s) /\ sessions[s].files[f] # None /\ state[f] # None /\ state[f].dir = s =>
      /\ sessions[s].files[f].size \in {0, state[f].size}
      /\ sessions[s].files[f].done \subseteq state[f].done

PersistInv == TypeInv /\ IdsIssued /\ ListsAgree

-----------------------------------------------------------------------------
(* Invariants for checks of single files *)

SingleFileChecks == \A S \in Selections : \E f \in Files : S = {f}

\* Everything that refers to directory s is about file f of n chunks.
DirIsFor(s, f, n) ==
  /\ \A g \in Files : state[g] # None /\ state[g].dir = s => g = f /\ state[g].size = n
  /\ \A g \in Files : Live(s) /\ sessions[s].files[g] # None =>
       g = f /\ sessions[s].files[g].size = n
  /\ \A c \in Conns : conns[c] # None /\ conns[c].sid = s =>
       conns[c].file = f /\ conns[c].index < n

OneFilePerDir == \A s \in Sids : \E f \in Files, n \in Sizes : DirIsFor(s, f, n)

\* A session that a late chunk request inserted has no chunks.
GhostsAreEmpty ==
  \A s \in Sids, f \in Files :
    sessions[s] # None /\ ~Live(s) /\ sessions[s].files[f] # None =>
      sessions[s].files[f].size = 0

\* A session knows the files whose state files name its directory.
SessionsKnowTheirFiles ==
  \A s \in Sids, f \in Files :
    Live(s) /\ state[f] # None /\ state[f].dir = s => sessions[s].files[f] # None

\* The merge of a session has its chunk directory to itself: no session, state
\* file or other merge refers to it.  (With a check in one step; UploadChecks
\* says what is left of it when other workers come between its steps.)
MergeHasDirAlone ==
  \A w \in Merges : jobs[w] # None /\ jobs[w].sid # None =>
    /\ ~Live(jobs[w].sid)
    /\ \A f \in Files : state[f] # None => state[f].dir # jobs[w].sid
    /\ \A v \in Merges : v # w /\ jobs[v] # None => jobs[v].sid # jobs[w].sid

SingleInv ==
  /\ TypeInv
  /\ IdsIssued
  /\ OneFilePerDir
  /\ GhostsAreEmpty
  /\ SessionsKnowTheirFiles
  /\ MergeHasDirAlone
  /\ InFlightChunkKnown
-----------------------------------------------------------------------------
(* What pauses leave alone *)

\* The sessions of ss and tt differ in their paused flags only.
SameButPaused(ss, tt) ==
  \A s \in Sids :
    /\ ss[s] = None <=> tt[s] = None
    /\ ss[s] # None => tt[s].task = ss[s].task /\ tt[s].files = ss[s].files

LEMMA PausedSession ==
  ASSUME NEW x \in Session
  PROVE  /\ [x EXCEPT !.paused = TRUE] \in Session
         /\ [x EXCEPT !.paused = FALSE] \in Session
         /\ [x EXCEPT !.paused = TRUE].task = x.task
         /\ [x EXCEPT !.paused = FALSE].task = x.task
         /\ [x EXCEPT !.paused = TRUE].files = x.files
         /\ [x EXCEPT !.paused = FALSE].files = x.files
BY DEF Session

LEMMA NotifiedKeeps ==
  ASSUME NEW ss \in [Sids -> Session \cup {None}], NEW t
  PROVE  /\ SameButPaused(ss, Notified(ss, t, TRUE))
         /\ SameButPaused(ss, Notified(ss, t, FALSE))
<1>1. ASSUME NEW s \in Sids, ss[s] # None
      PROVE  /\ [ss[s] EXCEPT !.paused = TRUE] # None
             /\ [ss[s] EXCEPT !.paused = FALSE] # None
             /\ [ss[s] EXCEPT !.paused = TRUE].task = ss[s].task
             /\ [ss[s] EXCEPT !.paused = FALSE].task = ss[s].task
             /\ [ss[s] EXCEPT !.paused = TRUE].files = ss[s].files
             /\ [ss[s] EXCEPT !.paused = FALSE].files = ss[s].files
  BY <1>1, PausedSession, NoneAssumption
<1> QED
  BY <1>1 DEF Notified, SameButPaused

\* Steps of pauses, resumes and of the timer that pauses.
PauseStep ==
  \/ \E s \in Sids  : UploadPause(s) \/ UploadResume(s)
  \/ \E t \in Tasks : PauseTask(t) \/ ResumeTask(t) \/ AutoPause(t)

LEMMA PauseStepKeeps ==
  ASSUME TypeInv, PauseStep
  PROVE  /\ UNCHANGED <<store, state, conns, jobs, issued>>
         /\ SameButPaused(sessions, sessions')
<1>1. UNCHANGED <<store, state, conns, jobs, issued>>
  BY DEF PauseStep, UploadPause, UploadResume, PauseTask, ResumeTask, AutoPause
<1>2. sessions \in [Sids -> Session \cup {None}]
  BY DEF TypeInv, TypeOK
<1>3. ASSUME NEW s \in Sids, UploadPause(s)
      PROVE  SameButPaused(sessions, sessions')
  <2> DEFINE ss == [sessions EXCEPT ![s].paused = TRUE]
  <2>1. sessions[s] \in Session
    BY <1>2, <1>3 DEF UploadPause
  <2>2. ss \in [Sids -> Session \cup {None}] /\ SameButPaused(sessions, ss)
    BY <1>2, <2>1, PausedSession, NoneAssumption DEF SameButPaused
  <2>3. sessions' = Notified(ss, sessions[s].task, TRUE)
    BY <1>3 DEF UploadPause
  <2>4. SameButPaused(ss, sessions')
    <3> HIDE DEF ss
    <3> QED
      BY <2>2, <2>3, NotifiedKeeps, Zenon
  <2> QED
    BY <2>2, <2>4 DEF SameButPaused
<1>4. ASSUME NEW s \in Sids, UploadResume(s)
      PROVE  SameButPaused(sessions, sessions')
  <2> DEFINE ss == [sessions EXCEPT ![s].paused = FALSE]
  <2>1. sessions[s] \in Session
    BY <1>2, <1>4 DEF UploadResume
  <2>2. ss \in [Sids -> Session \cup {None}] /\ SameButPaused(sessions, ss)
    BY <1>2, <2>1, PausedSession, NoneAssumption DEF SameButPaused
  <2>3. sessions' = Notified(ss, sessions[s].task, FALSE)
    BY <1>4 DEF UploadResume
  <2>4. SameButPaused(ss, sessions')
    <3> HIDE DEF ss
    <3> QED
      BY <2>2, <2>3, NotifiedKeeps, Zenon
  <2> QED
    BY <2>2, <2>4 DEF SameButPaused
<1>5. ASSUME NEW t \in Tasks, PauseTask(t) \/ ResumeTask(t) \/ AutoPause(t)
      PROVE  SameButPaused(sessions, sessions')
  <2>1. SameButPaused(sessions, sessions)
    BY DEF SameButPaused
  <2>2. /\ SameButPaused(sessions, Notified(sessions, t, TRUE))
        /\ SameButPaused(sessions, Notified(sessions, t, FALSE))
    BY <1>2, NotifiedKeeps, Zenon
  <2> QED
    BY <1>5, <2>1, <2>2, Zenon DEF PauseTask, ResumeTask, AutoPause
<1> QED
  BY <1>1, <1>3, <1>4, <1>5 DEF PauseStep
-----------------------------------------------------------------------------
(* What most steps do: they only forget *)

Forgets ==
  /\ \A f \in Files : state'[f] \in {None, state[f]}
  /\ \A s \in Sids  : sessions'[s] \in {None, sessions[s]}
  /\ \A c \in Conns : conns'[c] \in {None, conns[c]}
  /\ issued' = issued

\* No merge is given to the pool.
NoNewMerge ==
  \A w \in Merges : jobs'[w] # None => jobs[w] # None /\ jobs'[w].sid = jobs[w].sid

LEMMA DiscardForgets ==
  ASSUME TypeInv, NEW s \in Sids, Discard(s)
  PROVE  Forgets /\ NoNewMerge
BY DEF TypeInv, TypeOK, Discard, StateWithout, Forgets, NoNewMerge

LEMMA DeleteTaskForgets ==
  ASSUME TypeInv, NEW t \in Tasks, DeleteTask(t)
  PROVE  Forgets /\ NoNewMerge
BY DEF TypeInv, TypeOK, DeleteTask, StateWithout, Forgets, NoNewMerge

LEMMA PublishForgets ==
  ASSUME TypeInv, Publish
  PROVE  Forgets /\ NoNewMerge
<1> USE DEF TypeInv, TypeOK
<1>1. ASSUME NEW w \in Merges, NEW f \in Files, OpenMerged(w, f)
      PROVE  Forgets /\ NoNewMerge
  <2>1. jobs[w] \in Job /\ jobs' = [jobs EXCEPT ![w].file = f]
    BY <1>1 DEF OpenMerged
  <2>2. jobs'[w].sid = jobs[w].sid
    BY <2>1 DEF Job
  <2> QED
    BY <1>1, <2>1, <2>2 DEF OpenMerged, Forgets, NoNewMerge
<1>2. ASSUME NEW w \in Merges, CopyMerged(w)
      PROVE  Forgets /\ NoNewMerge
  <2>1. jobs[w] \in Job
    BY <1>2 DEF CopyMerged
  <2>2. jobs'[w].sid = jobs[w].sid
    BY <1>2, <2>1 DEF CopyMerged, Job
  <2>3. \A v \in Merges : v # w => jobs'[v] = jobs[v]
    BY <1>2 DEF CopyMerged
  <2> QED
    BY <1>2, <2>1, <2>2, <2>3 DEF CopyMerged, Forgets, NoNewMerge
<1>3. ASSUME NEW w \in Merges, EndMerge(w)
      PROVE  Forgets /\ NoNewMerge
  BY <1>3 DEF EndMerge, Forgets, NoNewMerge
<1>4. CASE FinalizeReady
  BY <1>4 DEF FinalizeReady, Forgets, NoNewMerge
<1> QED
  BY <1>1, <1>2, <1>3, <1>4 DEF Publish, MergeStep

LEMMA RestartsForgets ==
  ASSUME TypeInv, Restarts
  PROVE  Forgets /\ NoNewMerge
<1>1. PICK l, Old, Torn : Restart(l, Old, Torn)
  BY DEF Restarts, Shutdown, Crash
<1> QED
  BY <1>1 DEF Restart, StateWithout, Forgets, NoNewMerge

LEMMA UploadFinalizeForgets ==
  ASSUME TypeInv, NEW s \in Sids, NEW w \in Merges, UploadFinalize(s, w)
  PROVE  /\ Forgets
         /\ sessions'[s] = None
         /\ \A f \in Chunked(s) : state'[f] = None
         /\ \A v \in Merges : v # w => jobs'[v] = jobs[v]
         /\ jobs'[w] # None => jobs'[w].sid = IF Live(s) THEN s ELSE None
BY DEF TypeInv, TypeOK, UploadFinalize, StateWithout, Forgets, Chunked

\* Steps that only forget, and steps that change nothing.
ForgetStep ==
  \/ Publish
  \/ Timers /\ ~PauseStep
  \/ Control /\ ~PauseStep
  \/ Restarts
  \/ UNCHANGED vars

LEMMA ForgetStepForgets ==
  ASSUME TypeInv, ForgetStep
  PROVE  Forgets /\ NoNewMerge
<1>1. CASE UNCHANGED vars
  BY <1>1 DEF vars, Forgets, NoNewMerge
<1>2. CASE Timers /\ ~PauseStep
  BY <1>2, DiscardForgets DEF Timers, ExpireSession, PauseStep
<1>3. CASE Control /\ ~PauseStep
  BY <1>3, DiscardForgets, DeleteTaskForgets DEF Control, UploadAbort, PauseStep
<1> QED
  BY <1>1, <1>2, <1>3, PublishForgets, RestartsForgets DEF ForgetStep

\* The kinds of steps.
LEMMA KindsOfSteps ==
  ASSUME [Next]_vars
  PROVE  Check \/ Upload \/ Finalize \/ PauseStep \/ ForgetStep
BY DEF Next, ForgetStep
-----------------------------------------------------------------------------
(* What chunk requests and checks do *)

LEMMA ReceiveBlockKeeps ==
  ASSUME TypeInv, NEW c \in Conns, ReceiveBlock(c)
  PROVE  /\ UNCHANGED <<state, sessions, jobs, issued>>
         /\ \A e \in Conns : conns'[e] # None =>
              /\ conns[e] # None
              /\ conns'[e].sid = conns[e].sid
              /\ conns'[e].file = conns[e].file
              /\ conns'[e].index = conns[e].index
<1>1. conns[c] \in Request
  BY DEF TypeInv, TypeOK, ReceiveBlock
<1>2. conns' = [conns EXCEPT ![c].received = conns[c].received + 1]
  BY DEF ReceiveBlock
<1>3. conns'[c].sid = conns[c].sid /\ conns'[c].file = conns[c].file
      /\ conns'[c].index = conns[c].index
  BY <1>1, <1>2 DEF TypeInv, TypeOK, Request
<1>4. \A e \in Conns : e # c => conns'[e] = conns[e]
  BY <1>2
<1> QED
  BY <1>3, <1>4 DEF ReceiveBlock

\* The last call of a chunk request adds its chunk to the lists that it finds,
\* as far as the index is below the size there.
LEMMA EndChunkEffect ==
  ASSUME TypeInv, NEW c \in Conns, EndChunk(c)
  PROVE  LET r == conns[c]
             chunks(n) == IF ChunkAccepted(r) /\ r.index < n THEN {r.index} ELSE {}
         IN  /\ r \in Request
             /\ UNCHANGED <<jobs, issued>>
             /\ \A e \in Conns : conns'[e] # None => e # c /\ conns'[e] = conns[e]
             /\ \A s \in Sids : s # r.sid => sessions'[s] = sessions[s]
             /\ sessions'[r.sid] # None
             /\ sessions'[r.sid].task = SessionOf(r).task
             /\ \A f \in Files : f # r.file =>
                  sessions'[r.sid].files[f] = SessionOf(r).files[f]
             /\ sessions'[r.sid].files[r.file] # None
             /\ sessions'[r.sid].files[r.file].size = EntryOf(r).size
             /\ sessions'[r.sid].files[r.file].done = EntryOf(r).done \cup chunks(EntryOf(r).size)
             /\ \A f \in Files : f # r.file => state'[f] = state[f]
             /\ state[r.file] = None => state'[r.file] = None
             /\ state[r.file] # None =>
                  /\ state'[r.file] # None
                  /\ state'[r.file].dir = state[r.file].dir
                  /\ state'[r.file].size = state[r.file].size
                  /\ state'[r.file].done = state[r.file].done \cup chunks(state[r.file].size)
<1> DEFINE r == conns[c]
           chunks(n) == IF ChunkAccepted(r) /\ r.index < n THEN {r.index} ELSE {}
           entry == [EntryOf(r) EXCEPT !.done = @ \cup chunks(EntryOf(r).size)]
           session == [SessionOf(r) EXCEPT !.files[r.file] = entry]
<1>1. r \in Request /\ r.sid \in Sids /\ r.file \in Files
  BY DEF EndChunk, TypeInv, TypeOK, Request
<1>2. SessionOf(r) \in Session /\ EntryOf(r) \in FileEntry
  BY <1>1, EntryOfType DEF TypeInv
<1>3. \A n : chunks(n) \subseteq Index
  BY <1>1 DEF Request
<1>4. /\ entry \in FileEntry
      /\ entry.size = EntryOf(r).size
      /\ entry.done = EntryOf(r).done \cup chunks(EntryOf(r).size)
  <2> HIDE DEF chunks, r
  <2> QED
    BY <1>2, <1>3 DEF FileEntry
<1>5. /\ session \in Session
      /\ session.task = SessionOf(r).task
      /\ session.files[r.file] = entry
      /\ \A f \in Files : f # r.file => session.files[f] = SessionOf(r).files[f]
  <2> HIDE DEF entry, r
  <2> QED
    BY <1>1, <1>2, <1>4 DEF Session
<1>6. sessions' = [sessions EXCEPT ![r.sid] = session]
  BY DEF EndChunk
<1>7. /\ sessions'[r.sid] = session
      /\ \A s \in Sids : s # r.sid => sessions'[s] = sessions[s]
  <2> HIDE DEF session, r
  <2> QED
    BY <1>1, <1>6 DEF TypeInv, TypeOK
<1>8. /\ \A f \in Files : f # r.file => state'[f] = state[f]
      /\ state[r.file] = None => state'[r.file] = None
      /\ state[r.file] # None =>
           state'[r.file] = [state[r.file] EXCEPT !.done = @ \cup chunks(state[r.file].size)]
  <2>1. state' = IF state[r.file] = None THEN state
                 ELSE [state EXCEPT ![r.file] =
                         [state[r.file] EXCEPT !.done = @ \cup chunks(state[r.file].size)]]
    BY DEF EndChunk
  <2> HIDE DEF chunks, r
  <2> QED
    BY <1>1, <2>1 DEF TypeInv, TypeOK
<1>9. state[r.file] # None =>
        /\ state'[r.file] # None
        /\ state'[r.file].dir = state[r.file].dir
        /\ state'[r.file].size = state[r.file].size
        /\ state'[r.file].done = state[r.file].done \cup chunks(state[r.file].size)
  <2> SUFFICES ASSUME state[r.file] # None
               PROVE  /\ state'[r.file] # None
                      /\ state'[r.file].dir = state[r.file].dir
                      /\ state'[r.file].size = state[r.file].size
                      /\ state'[r.file].done = state[r.file].done \cup chunks(state[r.file].size)
    OBVIOUS
  <2> DEFINE x == state[r.file]
             y == [x EXCEPT !.done = @ \cup chunks(x.size)]
  <2>1. x \in StateFile /\ chunks(x.size) \subseteq Index
    BY <1>1, <1>3 DEF TypeInv, TypeOK
  <2>2. y \in StateFile /\ y.dir = x.dir /\ y.size = x.size
        /\ y.done = x.done \cup chunks(x.size)
    <3> HIDE DEF chunks, x
    <3> QED
      BY <2>1 DEF StateFile
  <2>3. state'[r.file] = y
    BY <1>8
  <2> HIDE DEF y
  <2> QED
    BY <2>2, <2>3, NoneAssumption
<1>10. UNCHANGED <<jobs, issued>> /\ \A e \in Conns : conns'[e] # None => e # c /\ conns'[e] = conns[e]
  BY DEF EndChunk, TypeInv, TypeOK
<1>11. session # None /\ entry # None
  BY <1>4, <1>5, NoneAssumption
<1> HIDE DEF session, entry
<1> QED
  BY <1>1, <1>4, <1>5, <1>7, <1>8, <1>9, <1>10, <1>11
\* What a check makes of a state file.  Only the files that it needs change.
LEMMA CheckedStateFile ==
  ASSUME TypeInv, NEW S \in Selections, NEW size \in [S -> Sizes], NEW s0 \in Sids,
         NEW t0 \in Tasks, NEW f \in Files
  PROVE  LET st == CheckedState(S, size, s0, t0)
         IN  /\ f \in Reusable(S, size) =>
                  /\ state[f] # None
                  /\ st[f] # None
                  /\ st[f].size = size[f] /\ state[f].size = size[f]
                  /\ st[f].done = state[f].done
                  /\ st[f].dir = state[f].dir
             /\ f \in Matching(S, size) \ Reusable(S, size) =>
                  /\ state[f] # None
                  /\ st[f] # None
                  /\ st[f].size = size[f] /\ state[f].size = size[f]
                  /\ st[f].done = state[f].done
                  /\ st[f].dir = DirAt(f, S, size, s0)
             /\ f \in Needed(S, size) \ Matching(S, size) =>
                  /\ st[f] # None
                  /\ st[f].size = size[f]
                  /\ st[f].done = {}
                  /\ st[f].dir = DirAt(f, S, size, s0)
             /\ f \notin Needed(S, size) => st[f] = state[f]
<1> DEFINE st == CheckedState(S, size, s0, t0)
<1>1. DirAt(f, S, size, s0) \in Sids
  BY ChosenSidType DEF TypeInv
<1>2. ASSUME f \in Matching(S, size)
      PROVE  /\ state[f] \in StateFile
             /\ state[f].size = size[f]
             /\ f \in Needed(S, size)
  BY <1>2 DEF Matching, TypeInv, TypeOK
<1>3. Reusable(S, size) \subseteq Matching(S, size)
  BY DEF Reusable
<1>4. ASSUME f \in Reusable(S, size)
      PROVE  /\ st[f] # None
             /\ st[f].size = size[f]
             /\ st[f].done = state[f].done
             /\ st[f].dir = state[f].dir
  <2> DEFINE x == [state[f] EXCEPT !.task = t0]
  <2>1. st[f] = x
    BY <1>4 DEF CheckedState
  <2>2. /\ x \in StateFile
        /\ x.size = state[f].size /\ x.done = state[f].done /\ x.dir = state[f].dir
    BY <1>2, <1>3, <1>4 DEF StateFile
  <2> HIDE DEF st, x
  <2> QED
    BY <1>2, <1>3, <1>4, <2>1, <2>2, NoneAssumption
<1>5. ASSUME f \in Matching(S, size) \ Reusable(S, size)
      PROVE  /\ st[f] # None
             /\ st[f].size = size[f]
             /\ st[f].done = state[f].done
             /\ st[f].dir = DirAt(f, S, size, s0)
  <2> DEFINE x == [state[f] EXCEPT !.task = t0, !.dir = DirAt(f, S, size, s0)]
  <2>1. st[f] = x
    BY <1>5 DEF CheckedState
  <2>2. /\ x \in StateFile
        /\ x.size = state[f].size /\ x.done = state[f].done
        /\ x.dir = DirAt(f, S, size, s0)
    BY <1>1, <1>2, <1>5 DEF StateFile
  <2> HIDE DEF st, x
  <2> QED
    BY <1>2, <1>5, <2>1, <2>2, NoneAssumption
<1>6. ASSUME f \in Needed(S, size) \ Matching(S, size)
      PROVE  /\ st[f] # None
             /\ st[f].size = size[f]
             /\ st[f].done = {}
             /\ st[f].dir = DirAt(f, S, size, s0)
  <2> DEFINE x == [size |-> size[f], done |-> {}, dir |-> DirAt(f, S, size, s0), task |-> t0]
  <2>1. st[f] = x
    BY <1>3, <1>6 DEF CheckedState
  <2>2. x \in StateFile
    BY <1>1, <1>6 DEF StateFile, Needed
  <2> HIDE DEF st
  <2> QED
    BY <2>1, <2>2, NoneAssumption
<1>7. f \notin Needed(S, size) => st[f] = state[f]
  BY <1>2, <1>3 DEF CheckedState
<1>8. f \in Matching(S, size) => state[f] # None /\ state[f].size = size[f]
  BY <1>2, NoneAssumption
<1> HIDE DEF st
<1> QED
  BY <1>3, <1>4, <1>5, <1>6, <1>7, <1>8 DEF st

\* What a check makes of the sessions: the session of the chosen id is new, and
\* the others may lose their paused flag.
LEMMA CheckedSession ==
  ASSUME TypeInv, NEW S \in Selections, NEW size \in [S -> Sizes], NEW s0 \in Sids,
         NEW t0 \in Tasks, NEW t \in Tasks, UploadCheck(S, size, s0, t0, t)
  PROVE  LET d == ChosenSid(S, size, s0)
         IN  /\ d \in Sids
             /\ sessions'[d] # None
             /\ sessions'[d].task # None
             /\ sessions'[d].files = CheckedFiles(S, size)
             /\ \A s \in Sids : s # d =>
                  /\ sessions[s] = None <=> sessions'[s] = None
                  /\ sessions[s] # None =>
                       /\ sessions'[s].task = sessions[s].task
                       /\ sessions'[s].files = sessions[s].files
<1> DEFINE d == ChosenSid(S, size, s0)
           ss == Notified(sessions, t, FALSE)
           x == [task |-> t, files |-> CheckedFiles(S, size), paused |-> FALSE]
<1>1. d \in Sids
  BY ChosenSidType DEF TypeInv
<1>2. ss \in [Sids -> Session \cup {None}] /\ SameButPaused(sessions, ss)
  <2>1. sessions \in [Sids -> Session \cup {None}]
    BY DEF TypeInv, TypeOK
  <2> QED
    BY <2>1, NotifiedType, NotifiedKeeps, Zenon
<1>3. sessions' = [ss EXCEPT ![d] = x]
  BY DEF UploadCheck
<1>4. sessions'[d] = x /\ \A s \in Sids : s # d => sessions'[s] = ss[s]
  <2> HIDE DEF d, ss, x
  <2> QED
    BY <1>1, <1>2, <1>3
<1>5. sessions'[d] \in Session
  <2>1. sessions' \in [Sids -> Session \cup {None}]
    BY UploadCheckType DEF TypeInv, TypeOK
  <2>2. x.task = t
    OBVIOUS
  <2>3. CheckedFiles(S, size) \in [Files -> FileEntry \cup {None}]
    <3>1. ASSUME NEW f \in Matching(S, size), f \in Files
          PROVE  [size |-> size[f], done |-> state[f].done] \in FileEntry
      BY <3>1 DEF Matching, Needed, StateFile, FileEntry, TypeInv, TypeOK
    <3>2. ASSUME NEW f \in Needed(S, size)
          PROVE  [size |-> size[f], done |-> {}] \in FileEntry
      BY DEF Needed, FileEntry
    <3> QED
      BY <3>1, <3>2 DEF CheckedFiles
  <2>4. x \in Session
    BY <2>3 DEF Session
  <2> QED
    BY <1>4, <2>4
<1>6. sessions'[d] # None /\ sessions'[d].task # None
      /\ sessions'[d].files = CheckedFiles(S, size)
  <2>1. x.task = t /\ x.files = CheckedFiles(S, size) /\ t # None
    BY NoneAssumption
  <2> HIDE DEF x, d
  <2> QED
    BY <1>4, <1>5, <2>1, NoneAssumption
<1>7. ASSUME NEW s \in Sids, s # d
      PROVE  /\ sessions[s] = None <=> sessions'[s] = None
             /\ sessions[s] # None =>
                  /\ sessions'[s].task = sessions[s].task
                  /\ sessions'[s].files = sessions[s].files
  <2> HIDE DEF d, ss
  <2> QED
    BY <1>2, <1>4, <1>7 DEF SameButPaused
<1> HIDE DEF ss, x
<1> QED
  BY <1>1, <1>6, <1>7

\* The files that a check makes known to its session.
LEMMA CheckedEntry ==
  ASSUME TypeInv, NEW S \in Selections, NEW size \in [S -> Sizes], NEW f \in Files
  PROVE  LET e == CheckedFiles(S, size)[f]
         IN  /\ e # None <=> f \in Needed(S, size)
             /\ f \in Needed(S, size) => e.size = size[f]
             /\ f \in Matching(S, size) => e.done = state[f].done
             /\ f \in Needed(S, size) \ Matching(S, size) => e.done = {}
<1>1. ASSUME f \in Matching(S, size)
      PROVE  /\ f \in Needed(S, size)
             /\ [size |-> size[f], done |-> state[f].done] \in FileEntry
  BY <1>1 DEF Matching, Needed, StateFile, FileEntry, TypeInv, TypeOK
<1>2. ASSUME f \in Needed(S, size)
      PROVE  [size |-> size[f], done |-> {}] \in FileEntry
  BY <1>2 DEF Needed, FileEntry
<1> QED
  BY <1>1, <1>2, NoneAssumption DEF CheckedFiles
-----------------------------------------------------------------------------
(* Every id in use was issued *)

LEMMA CheckIssues ==
  ASSUME TypeInv, IdsIssued, NEW S \in Selections, NEW size \in [S -> Sizes],
         NEW s0 \in Sids, NEW t0 \in Tasks, NEW t \in Tasks,
         UploadCheck(S, size, s0, t0, t)
  PROVE  IdsIssued'
<1> DEFINE d == ChosenSid(S, size, s0)
<1>1. UNCHANGED <<conns, jobs>> /\ issued' = issued \cup CheckedSids(S, size, s0)
      /\ state' = CheckedState(S, size, s0, t0)
  BY DEF UploadCheck
<1>2. ASSUME NEW s \in Sids, sessions'[s] # None
      PROVE  s \in issued'
  BY <1>1, <1>2, CheckedSession DEF IdsIssued, CheckedSids
<1>3. ASSUME NEW f \in Files, state'[f] # None
      PROVE  state'[f].dir \in issued'
  <2>1. CASE f \notin Needed(S, size) \/ f \in Reusable(S, size)
    BY <1>1, <1>3, <2>1, CheckedStateFile DEF IdsIssued
  <2>2. CASE f \in Needed(S, size) /\ f \notin Reusable(S, size)
    <3>1. state'[f].dir = DirAt(f, S, size, s0)
      BY <1>1, <2>2, CheckedStateFile
    <3> QED
      BY <1>1, <2>2, <3>1 DEF CheckedSids
  <2> QED
    BY <2>1, <2>2
<1> QED
  BY <1>1, <1>2, <1>3 DEF IdsIssued

LEMMA IdsIssuedStep ==
  ASSUME TypeInv, IdsIssued, [Next]_vars
  PROVE  IdsIssued'
<1>1. CASE Check
  BY <1>1, CheckIssues DEF Check
<1>2. CASE Upload
  <2>1. ASSUME NEW c \in Conns, NEW s \in Sids, NEW f \in Files, NEW i \in Index, NEW d \in Data,
               BeginChunk(c, s, f, i, d)
        PROVE  IdsIssued'
    <3>1. conns'[c].sid = s /\ \A e \in Conns : e # c => conns'[e] = conns[e]
      BY <2>1 DEF BeginChunk, TypeInv, TypeOK
    <3> QED
      BY <2>1, <3>1 DEF BeginChunk, Accepts, IdsIssued
  <2>2. ASSUME NEW c \in Conns, ReceiveBlock(c)
        PROVE  IdsIssued'
    BY <2>2, ReceiveBlockKeeps DEF IdsIssued
  <2>3. ASSUME NEW c \in Conns, EndChunk(c)
        PROVE  IdsIssued'
    <3> DEFINE r == conns[c]
    <3>1. r \in Request /\ conns[c] # None
      BY <2>3 DEF EndChunk, TypeInv, TypeOK
    <3>2. r.sid \in issued
      BY <3>1 DEF IdsIssued
    <3>3. /\ UNCHANGED <<jobs, issued>>
          /\ \A e \in Conns : conns'[e] # None => conns'[e] = conns[e]
          /\ \A s \in Sids : s # r.sid => sessions'[s] = sessions[s]
          /\ \A f \in Files : state'[f] # None => state[f] # None /\ state'[f].dir = state[f].dir
      BY <2>3, EndChunkEffect
    <3> HIDE DEF r
    <3> QED
      BY <3>2, <3>3 DEF IdsIssued
  <2> QED
    BY <1>2, <2>1, <2>2, <2>3 DEF Upload
<1>3. CASE Finalize
  <2>1. PICK s \in Sids, w \in Merges : UploadFinalize(s, w)
    BY <1>3 DEF Finalize
  <2>2. sessions[s] # None
    BY <2>1 DEF UploadFinalize
  <2> QED
    BY <2>1, <2>2, UploadFinalizeForgets DEF IdsIssued, Forgets
<1>4. CASE PauseStep
  BY <1>4, PauseStepKeeps DEF IdsIssued, SameButPaused
<1>5. CASE ForgetStep
  BY <1>5, ForgetStepForgets DEF IdsIssued, Forgets, NoNewMerge
<1> QED
  BY <1>1, <1>2, <1>3, <1>4, <1>5, KindsOfSteps

-----------------------------------------------------------------------------
(* What was accepted is persisted *)

LEMMA CheckListsAgree ==
  ASSUME PersistInv, NEW S \in Selections, NEW size \in [S -> Sizes],
         NEW s0 \in Sids, NEW t0 \in Tasks, NEW t \in Tasks,
         UploadCheck(S, size, s0, t0, t)
  PROVE  ListsAgree'
<1> USE DEF PersistInv
<1> DEFINE d == ChosenSid(S, size, s0)
<1> SUFFICES ASSUME NEW s \in Sids, NEW f \in Files, Live(s)', sessions'[s].files[f] # None,
                    state'[f] # None, state'[f].dir = s
             PROVE  /\ sessions'[s].files[f].size \in {0, state'[f].size}
                    /\ sessions'[s].files[f].done \subseteq state'[f].done
  BY DEF ListsAgree
<1>1. state' = CheckedState(S, size, s0, t0) /\ s0 \in Sids \ issued
  BY DEF UploadCheck
<1>2. CASE s = d
  <2>1. sessions'[s].files[f] = CheckedFiles(S, size)[f]
    BY <1>2, CheckedSession
  <2> HIDE DEF d
  <2> QED
    BY <1>1, <2>1, CheckedEntry, CheckedStateFile
<1>3. CASE s # d
  <2>1. Live(s) /\ sessions'[s].files[f] = sessions[s].files[f]
    BY <1>3, CheckedSession DEF Live
  <2>2. s # s0
    BY <1>1, <2>1 DEF Live, IdsIssued
  <2>3. DirAt(f, S, size, s0) # s
    BY <1>3, <2>2 DEF DirAt
  <2>4. /\ state[f] # None
        /\ state[f].dir = s
        /\ state'[f].size = state[f].size
        /\ state'[f].done = state[f].done
    <3>1. f \notin Needed(S, size) \/ f \in Reusable(S, size)
      BY <1>1, <2>3, CheckedStateFile
    <3> QED
      BY <1>1, <3>1, CheckedStateFile
  <2> QED
    BY <2>1, <2>4 DEF ListsAgree
<1> QED
  BY <1>2, <1>3

LEMMA EndChunkListsAgree ==
  ASSUME PersistInv, NEW c \in Conns, EndChunk(c)
  PROVE  ListsAgree'
<1> USE DEF PersistInv
<1> DEFINE r == conns[c]
           chunks(n) == IF ChunkAccepted(r) /\ r.index < n THEN {r.index} ELSE {}
<1> SUFFICES ASSUME NEW s \in Sids, NEW f \in Files, Live(s)', sessions'[s].files[f] # None,
                    state'[f] # None, state'[f].dir = s
             PROVE  /\ sessions'[s].files[f].size \in {0, state'[f].size}
                    /\ sessions'[s].files[f].done \subseteq state'[f].done
  BY DEF ListsAgree
<1>1. r \in Request /\ r.sid \in Sids /\ r.file \in Files /\ r.index \in Nat
  BY ConstantsAssumption, EndChunkEffect DEF Request, Index
<1>2. /\ state[f] # None /\ state[f].dir = s
      /\ state'[f].size = state[f].size
      /\ state[f].done \subseteq state'[f].done
      /\ f = r.file => state'[f].done = state[f].done \cup chunks(state[f].size)
  BY EndChunkEffect
<1>3. CASE s # r.sid
  <2>1. sessions'[s] = sessions[s]
    BY <1>3, EndChunkEffect
  <2> QED
    BY <1>2, <2>1 DEF ListsAgree, Live
<1>4. CASE s = r.sid /\ f # r.file
  <2>1. sessions'[s].files[f] = SessionOf(r).files[f] /\ sessions'[s].task = SessionOf(r).task
    BY <1>4, EndChunkEffect
  <2>2. Live(s) /\ sessions'[s].files[f] = sessions[s].files[f]
    BY <1>4, <2>1 DEF SessionOf, DefaultSession, Live
  <2> QED
    BY <1>2, <2>2 DEF ListsAgree
<1>5. CASE s = r.sid /\ f = r.file
  <2>1. /\ sessions'[s].task = SessionOf(r).task
        /\ sessions'[s].files[f].size = EntryOf(r).size
        /\ sessions'[s].files[f].done = EntryOf(r).done \cup chunks(EntryOf(r).size)
    BY <1>5, EndChunkEffect
  <2>2. Live(s) /\ SessionOf(r) = sessions[s]
    BY <1>5, <2>1 DEF SessionOf, DefaultSession, Live
  <2>3. /\ EntryOf(r).size \in {0, state[f].size}
        /\ EntryOf(r).done \subseteq state[f].done
    <3>1. CASE sessions[s].files[f] = None
      BY <1>5, <2>2, <3>1 DEF EntryOf, DefaultEntry
    <3>2. CASE sessions[s].files[f] # None
      BY <1>2, <1>5, <2>2, <3>2 DEF EntryOf, ListsAgree
    <3> QED
      BY <3>1, <3>2
  <2>4. chunks(0) = {}
    BY <1>1
  <2> HIDE DEF chunks, r
  <2> QED
    BY <1>2, <1>5, <2>1, <2>3, <2>4
<1> QED
  BY <1>3, <1>4, <1>5

LEMMA ListsAgreeStep ==
  ASSUME PersistInv, [Next]_vars
  PROVE  ListsAgree'
<1> USE DEF PersistInv
<1>1. CASE Check
  BY <1>1, CheckListsAgree DEF Check
<1>2. CASE Upload
  <2>1. ASSUME NEW c \in Conns, NEW s \in Sids, NEW f \in Files, NEW i \in Index, NEW d \in Data,
               BeginChunk(c, s, f, i, d)
        PROVE  ListsAgree'
    BY <2>1 DEF BeginChunk, ListsAgree, Live
  <2>2. ASSUME NEW c \in Conns, ReceiveBlock(c)
        PROVE  ListsAgree'
    BY <2>2 DEF ReceiveBlock, ListsAgree, Live
  <2> QED
    BY <1>2, <2>1, <2>2, EndChunkListsAgree DEF Upload
<1>3. CASE Finalize
  <2>1. Forgets
    BY <1>3, UploadFinalizeForgets DEF Finalize
  <2> QED
    BY <2>1 DEF Forgets, ListsAgree, Live
<1>4. CASE PauseStep
  BY <1>4, PauseStepKeeps DEF SameButPaused, ListsAgree, Live
<1>5. CASE ForgetStep
  BY <1>5, ForgetStepForgets DEF Forgets, ListsAgree, Live
<1> QED
  BY <1>1, <1>2, <1>3, <1>4, <1>5, KindsOfSteps

\* The state files keep up with the sessions: every chunk that a session counts
\* as completed is completed in the state file that a later check, after a crash
\* of the application, would resume from.  This holds for checks of any files.
THEOREM AcceptedPersists == Spec => []AcceptedIsPersisted
<1>1. Init => PersistInv
  BY InitType DEF Init, PersistInv, IdsIssued, ListsAgree, Live
<1>2. PersistInv /\ [Next]_vars => PersistInv'
  BY NextType, IdsIssuedStep, ListsAgreeStep DEF PersistInv
<1>3. PersistInv => AcceptedIsPersisted
  BY DEF PersistInv, ListsAgree, AcceptedIsPersisted
<1> QED
  BY <1>1, <1>2, <1>3, PTL DEF Spec
-----------------------------------------------------------------------------
(* Checks of single files *)

\* A check of g either takes over the directory of g's state file or ends with
\* the fresh id, which nothing refers to.
LEMMA SingleCheck ==
  ASSUME SingleFileChecks, NEW S \in Selections, NEW size \in [S -> Sizes], NEW s0 \in Sids
  PROVE  LET d == ChosenSid(S, size, s0)
         IN  \E g \in Files :
               /\ S = {g}
               /\ Needed(S, size) \subseteq {g}
               /\ DirAt(g, S, size, s0) = d
               /\ \/ Reusable(S, size) = {} /\ d = s0
                  \/ Reusable(S, size) = {g} /\ d = state[g].dir
<1>1. PICK g \in Files : S = {g}
  BY DEF SingleFileChecks
<1>2. Needed(S, size) \subseteq {g} /\ Reusable(S, size) \subseteq {g}
  BY <1>1 DEF Needed, Reusable, Matching
<1>3. CASE Reusable(S, size) = {}
  BY <1>1, <1>2, <1>3 DEF ChosenSid, DirAt
<1>4. CASE Reusable(S, size) # {}
  <2>1. Reusable(S, size) = {g}
    BY <1>2, <1>4
  <2>2. g \in Nat
    BY ConstantsAssumption
  <2>3. FirstReusable(S, size) = g
    BY <2>1, <2>2 DEF FirstReusable
  <2> QED
    BY <1>1, <1>2, <2>1, <2>2, <2>3 DEF ChosenSid, DirAt
<1> QED
  BY <1>3, <1>4

LEMMA CheckOneFilePerDir ==
  ASSUME SingleFileChecks, SingleInv, NEW S \in Selections, NEW size \in [S -> Sizes],
         NEW s0 \in Sids, NEW t0 \in Tasks, NEW t \in Tasks,
         UploadCheck(S, size, s0, t0, t)
  PROVE  OneFilePerDir' /\ SessionsKnowTheirFiles'
<1> USE DEF SingleInv
<1> DEFINE d == ChosenSid(S, size, s0)
<1>1. PICK g \in Files :
        /\ S = {g}
        /\ Needed(S, size) \subseteq {g}
        /\ DirAt(g, S, size, s0) = d
        /\ \/ Reusable(S, size) = {} /\ d = s0
           \/ Reusable(S, size) = {g} /\ d = state[g].dir
  BY SingleCheck
<1>2. /\ state' = CheckedState(S, size, s0, t0)
      /\ s0 \in Sids \ issued
      /\ UNCHANGED conns
      /\ size[g] \in Sizes
  BY <1>1 DEF UploadCheck
<1>3. /\ d \in Sids
      /\ sessions'[d].files = CheckedFiles(S, size)
      /\ \A s \in Sids : s # d =>
           /\ Live(s)' <=> Live(s)
           /\ Live(s) => sessions'[s].files = sessions[s].files
  BY CheckedSession DEF Live
<1>4. \A f \in Files : f \notin Needed(S, size) => state'[f] = state[f]
  BY <1>2, CheckedStateFile
<1>5. ASSUME g \in Needed(S, size)
      PROVE  state'[g] # None /\ state'[g].size = size[g] /\ state'[g].dir = d
  <2>1. state'[g] # None /\ state'[g].size = size[g]
    BY <1>2, <1>5, CheckedStateFile
  <2>2. state'[g].dir = IF g \in Reusable(S, size) THEN state[g].dir ELSE DirAt(g, S, size, s0)
    BY <1>2, <1>5, CheckedStateFile
  <2> HIDE DEF d
  <2> QED
    BY <1>1, <2>1, <2>2
<1>6. ASSUME d = state[g].dir, Reusable(S, size) = {g}
      PROVE  DirIsFor(d, g, size[g])
  <2>1. g \in Reusable(S, size)
    BY <1>6
  <2>2. state[g] # None /\ state[g].size = size[g]
    BY <2>1 DEF Reusable, Matching
  <2>3. PICK f \in Files, n \in Sizes : DirIsFor(d, f, n)
    BY <1>3 DEF OneFilePerDir
  <2>4. f = g /\ n = size[g]
    BY <1>6, <2>2, <2>3 DEF DirIsFor
  <2> QED
    BY <2>3, <2>4
<1>7. ASSUME NEW s \in Sids, s = d
      PROVE  DirIsFor(s, g, size[g])'
  <2>1. ASSUME NEW h \in Files, state'[h] # None, state'[h].dir = d
        PROVE  h = g /\ state'[h].size = size[g]
    <3>1. CASE h \in Needed(S, size)
      BY <1>1, <1>5, <3>1
    <3>2. CASE h \notin Needed(S, size)
      <4>1. state'[h] = state[h] /\ d \in issued
        BY <1>4, <2>1, <3>2 DEF IdsIssued
      <4>2. d = state[g].dir /\ Reusable(S, size) = {g}
        BY <1>1, <1>2, <4>1
      <4> HIDE DEF d
      <4> QED
        BY <1>6, <2>1, <4>1, <4>2 DEF DirIsFor
    <3> QED
      BY <3>1, <3>2
  <2>2. ASSUME NEW h \in Files, sessions'[d].files[h] # None
        PROVE  h = g /\ sessions'[d].files[h].size = size[g]
    <3>1. h \in Needed(S, size)
      BY <1>3, <2>2, CheckedEntry
    <3>2. h = g
      BY <1>1, <3>1
    <3> QED
      BY <1>3, <3>1, <3>2, CheckedEntry
  <2>3. ASSUME NEW c \in Conns, conns'[c] # None, conns'[c].sid = d
        PROVE  conns'[c].file = g /\ conns'[c].index < size[g]
    <3>1. d \in issued
      BY <1>2, <2>3 DEF IdsIssued
    <3>2. DirIsFor(d, g, size[g])
      BY <1>1, <1>2, <1>6, <3>1
    <3> HIDE DEF d
    <3> QED
      BY <1>2, <2>3, <3>2 DEF DirIsFor
  <2> HIDE DEF d
  <2> QED
    BY <1>7, <2>1, <2>2, <2>3 DEF DirIsFor
<1>8. ASSUME NEW s \in Sids, s # d, NEW f \in Files, NEW n \in Sizes, DirIsFor(s, f, n)
      PROVE  DirIsFor(s, f, n)'
  <2>1. \A h \in Files : state'[h] # None /\ state'[h].dir = s => state'[h] = state[h]
    BY <1>1, <1>4, <1>5, <1>8
  <2> HIDE DEF d
  <2> QED
    BY <1>2, <1>3, <1>8, <2>1 DEF DirIsFor
<1>9. OneFilePerDir'
  BY <1>2, <1>3, <1>7, <1>8 DEF OneFilePerDir
<1>10. SessionsKnowTheirFiles'
  <2> SUFFICES ASSUME NEW s \in Sids, NEW f \in Files,
                      Live(s)', state'[f] # None, state'[f].dir = s
               PROVE  sessions'[s].files[f] # None
    BY DEF SessionsKnowTheirFiles
  <2>1. CASE s = d
    <3>1. f = g /\ state'[f].size = size[g]
      BY <1>7, <2>1 DEF DirIsFor
    <3>2. CASE g \in Needed(S, size)
      BY <1>3, <2>1, <3>1, <3>2, CheckedEntry
    <3>3. CASE g \notin Needed(S, size)
      <4>1. Reusable(S, size) = {} /\ d = s0
        BY <1>1, <3>3 DEF Reusable, Matching
      <4>2. state'[f] = state[f]
        BY <1>4, <3>1, <3>3
      <4> QED
        BY <1>2, <2>1, <4>1, <4>2 DEF IdsIssued
    <3> QED
      BY <3>2, <3>3
  <2>2. CASE s # d
    <3>1. state'[f] = state[f]
      BY <1>1, <1>4, <1>5, <2>2
    <3> HIDE DEF d
    <3> QED
      BY <1>3, <2>2, <3>1 DEF SessionsKnowTheirFiles
  <2> QED
    BY <2>1, <2>2
<1> QED
  BY <1>9, <1>10
\* The other invariants after a check: the directory that it takes over has no
\* merge, and the chunk requests for it are for the checked file.
LEMMA CheckSingleInv ==
  ASSUME SingleFileChecks, SingleInv, NEW S \in Selections, NEW size \in [S -> Sizes],
         NEW s0 \in Sids, NEW t0 \in Tasks, NEW t \in Tasks,
         UploadCheck(S, size, s0, t0, t)
  PROVE  GhostsAreEmpty' /\ MergeHasDirAlone' /\ InFlightChunkKnown'
<1> USE DEF SingleInv
<1> DEFINE d == ChosenSid(S, size, s0)
<1>1. PICK g \in Files :
        /\ S = {g}
        /\ Needed(S, size) \subseteq {g}
        /\ DirAt(g, S, size, s0) = d
        /\ \/ Reusable(S, size) = {} /\ d = s0
           \/ Reusable(S, size) = {g} /\ d = state[g].dir
  BY SingleCheck
<1>2. /\ state' = CheckedState(S, size, s0, t0)
      /\ s0 \in Sids \ issued
      /\ UNCHANGED <<conns, jobs>>
  BY DEF UploadCheck
<1>3. /\ d \in Sids
      /\ sessions'[d] # None /\ sessions'[d].task # None
      /\ sessions'[d].files = CheckedFiles(S, size)
      /\ \A s \in Sids : s # d /\ sessions'[s] # None =>
           /\ sessions[s] # None
           /\ sessions'[s].task = sessions[s].task
           /\ sessions'[s].files = sessions[s].files
  BY CheckedSession
<1>4. ASSUME NEW w \in Merges, jobs[w] # None, jobs[w].sid # None
      PROVE  jobs[w].sid \in Sids /\ jobs[w].sid # d
  <2>1. jobs[w].sid \in Sids /\ jobs[w].sid \in issued
    BY <1>4 DEF TypeInv, TypeOK, Job, IdsIssued
  <2>2. CASE d = s0
    BY <1>2, <2>1, <2>2
  <2>3. CASE Reusable(S, size) = {g} /\ d = state[g].dir
    <3>1. state[g] # None
      BY <2>3 DEF Reusable, Matching
    <3> QED
      BY <1>4, <2>1, <2>3, <3>1 DEF MergeHasDirAlone
  <2> QED
    BY <1>1, <2>2, <2>3
<1>5. ASSUME NEW f \in Files, state'[f] # None
      PROVE  \/ state'[f].dir = d
             \/ state[f] # None /\ state'[f].dir = state[f].dir
  <2>1. CASE f \notin Needed(S, size)
    BY <1>2, <1>5, <2>1, CheckedStateFile
  <2>2. CASE f \in Reusable(S, size)
    BY <1>2, <2>2, CheckedStateFile
  <2>3. CASE f \in Needed(S, size) \ Reusable(S, size)
    <3>1. state'[f].dir = DirAt(f, S, size, s0)
      BY <1>2, <2>3, CheckedStateFile
    <3>2. f = g
      BY <1>1, <2>3
    <3> HIDE DEF d
    <3> QED
      BY <1>1, <3>1, <3>2
  <2> QED
    BY <2>1, <2>2, <2>3
<1>6. GhostsAreEmpty'
  <2> HIDE DEF d
  <2> QED
    BY <1>3 DEF GhostsAreEmpty, Live
<1>7. MergeHasDirAlone'
  <2> SUFFICES ASSUME NEW w \in Merges, jobs[w] # None, jobs[w].sid # None
               PROVE  /\ ~Live(jobs[w].sid)'
                      /\ \A f \in Files : state'[f] # None => state'[f].dir # jobs[w].sid
                      /\ \A v \in Merges : v # w /\ jobs[v] # None => jobs[v].sid # jobs[w].sid
    BY <1>2 DEF MergeHasDirAlone
  <2> HIDE DEF d
  <2>1. ~Live(jobs[w].sid)'
    BY <1>2, <1>3, <1>4 DEF MergeHasDirAlone, Live
  <2> QED
    BY <1>4, <1>5, <2>1 DEF MergeHasDirAlone
<1>8. InFlightChunkKnown'
  <2> SUFFICES ASSUME NEW c \in Conns, conns[c] # None, Live(conns[c].sid)'
               PROVE  LET entry == sessions'[conns[c].sid].files[conns[c].file]
                      IN  entry # None /\ conns[c].index < entry.size
    BY <1>2 DEF InFlightChunkKnown
  <2>1. conns[c].sid \in Sids /\ conns[c].file \in Files
    BY DEF TypeInv, TypeOK, Request
  <2>2. CASE conns[c].sid = d
    <3>1. d \in issued
      BY <2>2 DEF IdsIssued
    <3>2. Reusable(S, size) = {g} /\ d = state[g].dir
      BY <1>1, <1>2, <3>1
    <3>3. /\ g \in Needed(S, size)
          /\ state[g] # None
          /\ state[g].size = size[g]
      BY <3>2 DEF Reusable, Matching
    <3>4. PICK f \in Files, n \in Sizes : DirIsFor(d, f, n)
      BY <1>3 DEF OneFilePerDir
    <3>5. f = g /\ n = size[g]
      BY <3>2, <3>3, <3>4 DEF DirIsFor
    <3>6. conns[c].file = g /\ conns[c].index < size[g]
      BY <2>2, <3>4, <3>5 DEF DirIsFor
    <3> QED
      BY <1>3, <2>2, <3>3, <3>6, CheckedEntry
  <2>3. CASE conns[c].sid # d
    <3>1. Live(conns[c].sid) /\ sessions'[conns[c].sid].files = sessions[conns[c].sid].files
      <4> HIDE DEF d
      <4> QED
        BY <1>2, <1>3, <2>1, <2>3 DEF Live
    <3> QED
      BY <3>1 DEF InFlightChunkKnown
  <2> QED
    BY <2>2, <2>3
<1> QED
  BY <1>6, <1>7, <1>8

-----------------------------------------------------------------------------
(* Chunk requests of single files *)

\* A request starts only for a chunk that its session, a live one, knows.
LEMMA BeginChunkSingleInv ==
  ASSUME SingleInv, NEW c \in Conns, NEW s \in Sids, NEW f \in Files,
         NEW i \in Index, NEW d \in Data, BeginChunk(c, s, f, i, d)
  PROVE  /\ OneFilePerDir' /\ GhostsAreEmpty' /\ SessionsKnowTheirFiles'
         /\ MergeHasDirAlone' /\ InFlightChunkKnown'
<1> USE DEF SingleInv
<1>1. /\ UNCHANGED <<state, sessions, jobs>>
      /\ conns'[c] # None
      /\ conns'[c].sid = s /\ conns'[c].file = f /\ conns'[c].index = i
      /\ \A e \in Conns : e # c => conns'[e] = conns[e]
  <2>1. [sid |-> s, file |-> f, index |-> i, data |-> d, received |-> 0] \in Request
    BY ConstantsAssumption DEF Request
  <2> QED
    BY <2>1, NoneAssumption DEF BeginChunk, TypeInv, TypeOK
<1>2. sessions[s] # None /\ sessions[s].files[f] # None /\ i < sessions[s].files[f].size
  BY DEF BeginChunk, Accepts
<1>3. Live(s)
  <2>1. i \in Nat
    BY ConstantsAssumption DEF Index
  <2> QED
    BY <1>2, <2>1 DEF GhostsAreEmpty
<1>4. ASSUME NEW u \in Sids, NEW g \in Files, NEW n \in Sizes, DirIsFor(u, g, n)
      PROVE  DirIsFor(u, g, n)'
  <2>1. CASE u = s
    <3>1. f = g /\ i < n
      BY <1>2, <1>3, <1>4, <2>1 DEF DirIsFor
    <3> QED
      BY <1>1, <1>4, <2>1, <3>1 DEF DirIsFor, Live
  <2>2. CASE u # s
    BY <1>1, <1>4, <2>2 DEF DirIsFor, Live
  <2> QED
    BY <2>1, <2>2
<1>5. OneFilePerDir'
  BY <1>4 DEF OneFilePerDir
<1>6. InFlightChunkKnown'
  BY <1>1, <1>2 DEF InFlightChunkKnown, Live
<1> QED
  BY <1>1, <1>5, <1>6 DEF GhostsAreEmpty, SessionsKnowTheirFiles, MergeHasDirAlone, Live

LEMMA ReceiveBlockSingleInv ==
  ASSUME SingleInv, NEW c \in Conns, ReceiveBlock(c)
  PROVE  /\ OneFilePerDir' /\ GhostsAreEmpty' /\ SessionsKnowTheirFiles'
         /\ MergeHasDirAlone' /\ InFlightChunkKnown'
<1> USE DEF SingleInv
<1>1. /\ UNCHANGED <<state, sessions, jobs>>
      /\ \A e \in Conns : conns'[e] # None =>
           /\ conns[e] # None
           /\ conns'[e].sid = conns[e].sid
           /\ conns'[e].file = conns[e].file
           /\ conns'[e].index = conns[e].index
  BY ReceiveBlockKeeps
<1>2. ASSUME NEW u \in Sids, NEW g \in Files, NEW n \in Sizes, DirIsFor(u, g, n)
      PROVE  DirIsFor(u, g, n)'
  BY <1>1, <1>2 DEF DirIsFor, Live
<1>3. OneFilePerDir'
  BY <1>2 DEF OneFilePerDir
<1>4. InFlightChunkKnown'
  BY <1>1 DEF InFlightChunkKnown, Live
<1> QED
  BY <1>1, <1>3, <1>4 DEF GhostsAreEmpty, SessionsKnowTheirFiles, MergeHasDirAlone, Live
\* The last call of a request for a live session finds its entry there, and for
\* any other it leaves an entry without chunks.
LEMMA EndChunkSingleInv ==
  ASSUME SingleInv, NEW c \in Conns, EndChunk(c)
  PROVE  /\ OneFilePerDir' /\ GhostsAreEmpty' /\ SessionsKnowTheirFiles'
         /\ MergeHasDirAlone' /\ InFlightChunkKnown'
<1> USE DEF SingleInv
<1> DEFINE r == conns[c]
<1>1. /\ r \in Request /\ r # None
      /\ UNCHANGED jobs
      /\ \A e \in Conns : conns'[e] # None => conns'[e] = conns[e]
      /\ \A s \in Sids : s # r.sid => sessions'[s] = sessions[s]
      /\ \A f \in Files : state'[f] # None =>
           /\ state[f] # None
           /\ state'[f].dir = state[f].dir
           /\ state'[f].size = state[f].size
  BY EndChunkEffect DEF EndChunk
<1>2. r.sid \in Sids /\ r.file \in Files
  BY <1>1 DEF Request
<1>3. ASSUME NEW s \in Sids, s = r.sid, Live(s)'
      PROVE  /\ Live(s)
             /\ sessions'[s].files[r.file] # None
             /\ sessions'[s].files[r.file].size = sessions[s].files[r.file].size
             /\ sessions[s].files[r.file] # None
             /\ \A f \in Files : f # r.file =>
                  sessions'[s].files[f] = sessions[s].files[f]
  <2>1. /\ sessions'[r.sid].task = SessionOf(r).task
        /\ sessions'[r.sid].files[r.file] # None
        /\ sessions'[r.sid].files[r.file].size = EntryOf(r).size
        /\ \A f \in Files : f # r.file =>
             sessions'[r.sid].files[f] = SessionOf(r).files[f]
    BY EndChunkEffect
  <2>2. SessionOf(r).task # None
    BY <1>1, <1>3, <2>1 DEF Live, EndChunk
  <2>3. SessionOf(r) = sessions[r.sid] /\ Live(r.sid)
    BY <2>2 DEF SessionOf, DefaultSession, Live
  <2>4. sessions[r.sid].files[r.file] # None
    BY <1>1, <2>3 DEF InFlightChunkKnown
  <2>5. EntryOf(r) = sessions[r.sid].files[r.file]
    BY <2>3, <2>4 DEF EntryOf
  <2> HIDE DEF r
  <2> QED
    BY <1>3, <2>1, <2>3, <2>4, <2>5
<1>4. ASSUME NEW s \in Sids, Live(s)'
      PROVE  /\ Live(s)
             /\ \A f \in Files :
                  /\ sessions'[s].files[f] # None <=> sessions[s].files[f] # None
                  /\ sessions[s].files[f] # None =>
                       sessions'[s].files[f].size = sessions[s].files[f].size
  <2>1. CASE s = r.sid
    <3> HIDE DEF r
    <3> QED
      BY <1>3, <1>4, <2>1
  <2>2. CASE s # r.sid
    BY <1>1, <1>4, <2>2 DEF Live
  <2> QED
    BY <2>1, <2>2
<1>5. ASSUME NEW s \in Sids, NEW f \in Files, sessions'[s] # None, ~Live(s)',
             sessions'[s].files[f] # None
      PROVE  sessions'[s].files[f].size = 0
  <2>1. CASE s # r.sid
    BY <1>1, <1>5, <2>1 DEF GhostsAreEmpty, Live
  <2>2. CASE s = r.sid
    <3>1. /\ sessions'[s].task = SessionOf(r).task
          /\ sessions'[s].files[r.file].size = EntryOf(r).size
          /\ f # r.file => sessions'[s].files[f] = SessionOf(r).files[f]
      BY <2>2, EndChunkEffect
    <3>2. SessionOf(r).task = None
      BY <1>5, <3>1 DEF Live
    <3>3. CASE sessions[s] = None
      BY <1>5, <2>2, <3>1, <3>3 DEF SessionOf, EntryOf, DefaultSession, DefaultEntry
    <3>4. CASE sessions[s] # None
      <4>1. SessionOf(r) = sessions[s] /\ ~Live(s)
        BY <2>2, <3>2, <3>4 DEF SessionOf, Live
      <4>2. EntryOf(r).size = 0
        BY <1>2, <2>2, <3>4, <4>1 DEF EntryOf, DefaultEntry, GhostsAreEmpty
      <4> QED
        BY <1>5, <3>1, <3>4, <4>1, <4>2 DEF GhostsAreEmpty
    <3> QED
      BY <3>3, <3>4
  <2> QED
    BY <2>1, <2>2
<1>6. ASSUME NEW u \in Sids, NEW g \in Files, NEW n \in Sizes, DirIsFor(u, g, n)
      PROVE  DirIsFor(u, g, n)'
  <2> HIDE DEF r
  <2>1. \A h \in Files : state'[h] # None /\ state'[h].dir = u => h = g /\ state'[h].size = n
    BY <1>1, <1>6 DEF DirIsFor
  <2>2. \A h \in Files : Live(u)' /\ sessions'[u].files[h] # None =>
          h = g /\ sessions'[u].files[h].size = n
    BY <1>4, <1>6 DEF DirIsFor
  <2>3. \A e \in Conns : conns'[e] # None /\ conns'[e].sid = u =>
          conns'[e].file = g /\ conns'[e].index < n
    BY <1>1, <1>6 DEF DirIsFor
  <2> QED
    BY <2>1, <2>2, <2>3 DEF DirIsFor
<1>7. OneFilePerDir'
  BY <1>6 DEF OneFilePerDir
<1>8. GhostsAreEmpty'
  BY <1>5 DEF GhostsAreEmpty
<1>9. SessionsKnowTheirFiles'
  <2> HIDE DEF r
  <2> QED
    BY <1>1, <1>4 DEF SessionsKnowTheirFiles
<1>10. MergeHasDirAlone'
  <2>1. ASSUME NEW w \in Merges, jobs[w] # None, jobs[w].sid # None
        PROVE  ~Live(jobs[w].sid)'
    <3>1. jobs[w].sid \in Sids
      BY <2>1 DEF TypeInv, TypeOK, Job
    <3> QED
      BY <1>1, <1>4, <2>1, <3>1 DEF MergeHasDirAlone
  <2> HIDE DEF r
  <2> QED
    BY <1>1, <2>1 DEF MergeHasDirAlone
<1>11. InFlightChunkKnown'
  <2> SUFFICES ASSUME NEW e \in Conns, conns'[e] # None, Live(conns[e].sid)'
               PROVE  LET entry == sessions'[conns'[e].sid].files[conns'[e].file]
                      IN  entry # None /\ conns'[e].index < entry.size
    BY DEF InFlightChunkKnown
  <2>1. conns'[e] = conns[e] /\ conns[e].sid \in Sids /\ conns[e].file \in Files
    BY <1>1 DEF TypeInv, TypeOK, Request
  <2> HIDE DEF r
  <2> QED
    BY <1>4, <2>1 DEF InFlightChunkKnown
<1> QED
  BY <1>7, <1>8, <1>9, <1>10, <1>11

-----------------------------------------------------------------------------
(* The other steps *)

LEMMA ForgetsSingleInv ==
  ASSUME SingleInv, Forgets
  PROVE  /\ OneFilePerDir' /\ GhostsAreEmpty' /\ SessionsKnowTheirFiles'
         /\ InFlightChunkKnown'
<1> USE DEF SingleInv, Forgets
<1>1. ASSUME NEW u \in Sids, NEW g \in Files, NEW n \in Sizes, DirIsFor(u, g, n)
      PROVE  DirIsFor(u, g, n)'
  BY <1>1 DEF DirIsFor, Live
<1>2. OneFilePerDir'
  BY <1>1 DEF OneFilePerDir
<1>3. GhostsAreEmpty' /\ SessionsKnowTheirFiles'
  BY DEF GhostsAreEmpty, SessionsKnowTheirFiles, Live
<1>4. InFlightChunkKnown'
  <2> SUFFICES ASSUME NEW e \in Conns, conns'[e] # None, Live(conns[e].sid)'
               PROVE  LET entry == sessions'[conns'[e].sid].files[conns'[e].file]
                      IN  entry # None /\ conns'[e].index < entry.size
    BY DEF InFlightChunkKnown
  <2>1. conns'[e] = conns[e] /\ conns[e].sid \in Sids
    BY DEF TypeInv, TypeOK, Request
  <2> QED
    BY <2>1 DEF InFlightChunkKnown, Live
<1> QED
  BY <1>2, <1>3, <1>4

LEMMA ForgetsMergeAlone ==
  ASSUME SingleInv, Forgets, NoNewMerge
  PROVE  MergeHasDirAlone'
<1> SUFFICES ASSUME NEW w \in Merges, jobs'[w] # None, jobs'[w].sid # None
             PROVE  /\ ~Live(jobs[w].sid)'
                    /\ \A f \in Files : state'[f] # None => state'[f].dir # jobs'[w].sid
                    /\ \A v \in Merges : v # w /\ jobs'[v] # None => jobs'[v].sid # jobs'[w].sid
  BY DEF MergeHasDirAlone
<1>1. jobs[w] # None /\ jobs'[w].sid = jobs[w].sid /\ jobs[w].sid \in Sids
  BY DEF NoNewMerge, SingleInv, TypeInv, TypeOK, Job
<1> QED
  BY <1>1 DEF SingleInv, MergeHasDirAlone, Forgets, NoNewMerge, Live

LEMMA PausesSingleInv ==
  ASSUME SingleInv, PauseStep
  PROVE  /\ OneFilePerDir' /\ GhostsAreEmpty' /\ SessionsKnowTheirFiles'
         /\ MergeHasDirAlone' /\ InFlightChunkKnown'
<1> USE DEF SingleInv
<1>1. /\ UNCHANGED <<state, conns, jobs>>
      /\ \A s \in Sids : sessions'[s] # None =>
           /\ sessions[s] # None
           /\ sessions'[s].task = sessions[s].task
           /\ sessions'[s].files = sessions[s].files
  BY PauseStepKeeps DEF SameButPaused
<1>2. ASSUME NEW u \in Sids, NEW g \in Files, NEW n \in Sizes, DirIsFor(u, g, n)
      PROVE  DirIsFor(u, g, n)'
  BY <1>1, <1>2 DEF DirIsFor, Live
<1>3. OneFilePerDir'
  BY <1>2 DEF OneFilePerDir
<1>4. GhostsAreEmpty' /\ SessionsKnowTheirFiles'
  BY <1>1 DEF GhostsAreEmpty, SessionsKnowTheirFiles, Live
<1>5. MergeHasDirAlone'
  <2>1. \A w \in Merges : jobs[w] # None /\ jobs[w].sid # None => jobs[w].sid \in Sids
    BY DEF TypeInv, TypeOK, Job
  <2> QED
    BY <1>1, <2>1 DEF MergeHasDirAlone, Live
<1>6. InFlightChunkKnown'
  <2>1. \A e \in Conns : conns[e] # None => conns[e].sid \in Sids
    BY DEF TypeInv, TypeOK, Request
  <2> QED
    BY <1>1, <2>1 DEF InFlightChunkKnown, Live
<1> QED
  BY <1>3, <1>4, <1>5, <1>6
\* The directory of a finished session is that of no other upload: its state
\* files are those of the session and go with it.
LEMMA FinalizeMergeAlone ==
  ASSUME SingleInv, NEW s \in Sids, NEW w \in Merges, UploadFinalize(s, w)
  PROVE  MergeHasDirAlone'
<1> USE DEF SingleInv
<1>1. /\ Forgets
      /\ sessions'[s] = None
      /\ \A f \in Chunked(s) : state'[f] = None
      /\ \A v \in Merges : v # w => jobs'[v] = jobs[v]
      /\ jobs'[w] # None => jobs'[w].sid = IF Live(s) THEN s ELSE None
  BY UploadFinalizeForgets
<1>2. ASSUME NEW f \in Files, Live(s), state'[f] # None
      PROVE  state'[f].dir # s
  <2> SUFFICES ASSUME state[f] # None, state[f].dir = s
               PROVE  FALSE
    BY <1>1, <1>2 DEF Forgets
  <2>1. sessions[s].files[f] # None
    BY <1>2 DEF SessionsKnowTheirFiles
  <2>2. PICK g \in Files, n \in Sizes : DirIsFor(s, g, n)
    BY DEF OneFilePerDir
  <2>3. sessions[s].files[f].size > 0
    BY <1>2, <2>1, <2>2, ConstantsAssumption DEF DirIsFor
  <2> QED
    BY <1>1, <1>2, <2>1, <2>3 DEF Chunked
<1>3. ASSUME NEW v \in Merges, jobs[v] # None, jobs[v].sid # None
      PROVE  jobs[v].sid \in Sids /\ ~Live(jobs[v].sid)
  BY <1>3 DEF TypeInv, TypeOK, Job, MergeHasDirAlone
<1>4. ASSUME NEW v \in Merges, v # w, jobs'[v] # None, jobs'[v].sid # None
      PROVE  /\ ~Live(jobs[v].sid)'
             /\ \A f \in Files : state'[f] # None => state'[f].dir # jobs'[v].sid
             /\ \A u \in Merges : u # v /\ jobs'[u] # None => jobs'[u].sid # jobs'[v].sid
  <2>1. jobs'[v] = jobs[v] /\ jobs[v] # None /\ jobs[v].sid # None
    BY <1>1, <1>4
  <2>2. ~Live(jobs[v].sid)'
    BY <1>1, <1>3, <2>1 DEF Forgets, Live
  <2>3. \A f \in Files : state'[f] # None => state'[f].dir # jobs'[v].sid
    BY <1>1, <2>1 DEF Forgets, MergeHasDirAlone
  <2>4. ASSUME NEW u \in Merges, u # v, jobs'[u] # None
        PROVE  jobs'[u].sid # jobs'[v].sid
    <3>1. CASE u = w
      BY <1>1, <1>3, <2>1, <2>4, <3>1
    <3>2. CASE u # w
      BY <1>1, <2>1, <2>4, <3>2 DEF MergeHasDirAlone
    <3> QED
      BY <3>1, <3>2
  <2> QED
    BY <2>2, <2>3, <2>4
<1>5. ASSUME jobs'[w] # None, jobs'[w].sid # None
      PROVE  /\ ~Live(jobs[w].sid)'
             /\ \A f \in Files : state'[f] # None => state'[f].dir # jobs'[w].sid
             /\ \A u \in Merges : u # w /\ jobs'[u] # None => jobs'[u].sid # jobs'[w].sid
  <2>1. jobs'[w].sid = s /\ Live(s)
    BY <1>1, <1>5
  <2>2. ~Live(jobs[w].sid)'
    BY <1>1, <2>1 DEF Live
  <2>3. ASSUME NEW u \in Merges, u # w, jobs'[u] # None
        PROVE  jobs'[u].sid # s
    <3>1. jobs[u] # None /\ jobs'[u].sid = jobs[u].sid
      BY <1>1, <2>3
    <3>2. CASE jobs[u].sid = None
      BY <3>1, <3>2, NoneAssumption
    <3>3. CASE jobs[u].sid # None
      BY <1>3, <2>1, <3>1, <3>3
    <3> QED
      BY <3>2, <3>3
  <2> QED
    BY <1>2, <2>1, <2>2, <2>3
<1> QED
  BY <1>4, <1>5 DEF MergeHasDirAlone

LEMMA InitSingleInv == Init => SingleInv
<1> SUFFICES ASSUME Init
             PROVE  SingleInv
  OBVIOUS
<1>1. TypeInv
  BY InitType
<1>2. IdsIssued /\ GhostsAreEmpty /\ SessionsKnowTheirFiles
      /\ MergeHasDirAlone /\ InFlightChunkKnown
  BY DEF Init, IdsIssued, GhostsAreEmpty, SessionsKnowTheirFiles, MergeHasDirAlone,
         InFlightChunkKnown, Live
<1>3. OneFilePerDir
  <2>1. PICK f \in Files, n \in Sizes : TRUE
    BY ConstantsAssumption
  <2>2. ASSUME NEW s \in Sids
        PROVE  DirIsFor(s, f, n)
    BY DEF Init, DirIsFor, Live
  <2> QED
    BY <2>1, <2>2 DEF OneFilePerDir
<1> QED
  BY <1>1, <1>2, <1>3 DEF SingleInv

LEMMA NextSingleInv ==
  ASSUME SingleFileChecks, SingleInv, [Next]_vars
  PROVE  SingleInv'
<1> USE DEF SingleInv
<1>1. TypeInv' /\ IdsIssued'
  BY NextType, IdsIssuedStep
<1>2. CASE Check
  BY <1>1, <1>2, CheckOneFilePerDir, CheckSingleInv DEF Check
<1>3. CASE Upload
  BY <1>1, <1>3, BeginChunkSingleInv, ReceiveBlockSingleInv, EndChunkSingleInv DEF Upload
<1>4. CASE Finalize
  <2>1. PICK s \in Sids, w \in Merges : UploadFinalize(s, w)
    BY <1>4 DEF Finalize
  <2>2. Forgets
    BY <2>1, UploadFinalizeForgets
  <2> QED
    BY <1>1, <2>1, <2>2, FinalizeMergeAlone, ForgetsSingleInv
<1>5. CASE PauseStep
  BY <1>1, <1>5, PausesSingleInv
<1>6. CASE ForgetStep
  <2>1. Forgets /\ NoNewMerge
    BY <1>6, ForgetStepForgets
  <2> QED
    BY <1>1, <2>1, ForgetsSingleInv, ForgetsMergeAlone
<1> QED
  BY <1>2, <1>3, <1>4, <1>5, <1>6, KindsOfSteps

-----------------------------------------------------------------------------
(* What checks take over *)

\* A check gives its new task id to the state files of the files it needs.
LEMMA CheckedTask ==
  ASSUME TypeInv, NEW S \in Selections, NEW size \in [S -> Sizes], NEW s0 \in Sids,
         NEW t0 \in Tasks, NEW f \in Needed(S, size), f \in Files
  PROVE  CheckedState(S, size, s0, t0)[f].task = t0
<1> DEFINE st == CheckedState(S, size, s0, t0)
<1>1. Reusable(S, size) \subseteq Matching(S, size)
  BY DEF Reusable
<1>2. CASE f \in Matching(S, size)
  <2>1. state[f] \in StateFile
    BY <1>2 DEF Matching, TypeInv, TypeOK
  <2>2. \A dir : /\ [state[f] EXCEPT !.task = t0].task = t0
                 /\ [state[f] EXCEPT !.task = t0, !.dir = dir].task = t0
    BY <2>1 DEF StateFile
  <2>3. st[f] \in {[state[f] EXCEPT !.task = t0],
                   [state[f] EXCEPT !.task = t0, !.dir = DirAt(f, S, size, s0)]}
    BY <1>2 DEF CheckedState
  <2>4. \A x : x \in {[state[f] EXCEPT !.task = t0],
                     [state[f] EXCEPT !.task = t0, !.dir = DirAt(f, S, size, s0)]} => x.task = t0
    BY <2>2
  <2> HIDE DEF st
  <2> QED
    BY <2>3, <2>4 DEF st
<1>3. CASE f \notin Matching(S, size)
  BY <1>1, <1>3 DEF CheckedState
<1> QED
  BY <1>2, <1>3

\* The last call of a chunk request leaves the task of a state file as it is.
LEMMA EndChunkTask ==
  ASSUME TypeInv, NEW c \in Conns, EndChunk(c), NEW f \in Files, state[f] # None
  PROVE  state'[f].task = state[f].task
<1> DEFINE r == conns[c]
           chunks(n) == IF ChunkAccepted(r) /\ r.index < n THEN {r.index} ELSE {}
           x == state[r.file]
           y == [x EXCEPT !.done = @ \cup chunks(x.size)]
<1>1. CASE f # r.file
  BY <1>1, EndChunkEffect
<1>2. CASE f = r.file
  <2>1. x \in StateFile
    BY <1>2 DEF TypeInv, TypeOK
  <2>2. y.task = x.task
    <3> HIDE DEF chunks, x
    <3> QED
      BY <2>1 DEF StateFile
  <2>3. state' = [state EXCEPT ![r.file] = y]
    BY <1>2 DEF EndChunk
  <2>4. state'[f] = y
    <3> HIDE DEF y, r
    <3> QED
      BY <1>2, <2>3 DEF TypeInv, TypeOK
  <2> HIDE DEF y
  <2> QED
    BY <1>2, <2>2, <2>4
<1> QED
  BY <1>1, <1>2

\* Only checks draw task ids.
LEMMA ChecksCreate ==
  ASSUME [Next]_vars, ~Check
  PROVE  created' = created
<1>1. CASE Upload
  BY <1>1 DEF Upload, BeginChunk, ReceiveBlock, EndChunk
<1>2. CASE Finalize
  BY <1>2 DEF Finalize, UploadFinalize
<1>3. CASE Publish
  BY <1>3 DEF Publish, MergeStep, OpenMerged, CopyMerged, EndMerge, FinalizeReady
<1>4. CASE Control
  BY <1>4 DEF Control, UploadAbort, Discard, UploadPause, UploadResume, PauseTask, ResumeTask,
    DeleteTask
<1>5. CASE Timers
  BY <1>5 DEF Timers, ExpireSession, Discard, AutoPause
<1>6. CASE Restarts
  BY <1>6 DEF Restarts, Shutdown, Crash, Restart
<1>7. CASE UNCHANGED vars
  BY <1>7 DEF vars
<1> QED
  BY <1>1, <1>2, <1>3, <1>4, <1>5, <1>6, <1>7 DEF Next

\* The task of a state file is one that a check made.
TasksCreated == \A f \in Files : state[f] # None => state[f].task \in created

LEMMA TasksCreatedStep ==
  ASSUME TypeInv, TasksCreated, [Next]_vars
  PROVE  TasksCreated'
<1>1. CASE Check
  <2> PICK S \in Selections :
        \E size \in [S -> Sizes], s0 \in Sids, t0, t \in Tasks : UploadCheck(S, size, s0, t0, t)
    BY <1>1 DEF Check
  <2>1. PICK size \in [S -> Sizes], s0 \in Sids, t0 \in Tasks, t \in Tasks :
          UploadCheck(S, size, s0, t0, t)
    OBVIOUS
  <2>2. state' = CheckedState(S, size, s0, t0) /\ created' = created \cup {t0}
    BY <2>1 DEF UploadCheck
  <2>3. ASSUME NEW f \in Files, state'[f] # None
        PROVE  state'[f].task \in created'
    <3>1. CASE f \in Needed(S, size)
      BY <2>2, <3>1, CheckedTask
    <3>2. CASE f \notin Needed(S, size)
      BY <2>2, <2>3, <3>2, CheckedStateFile DEF TasksCreated
    <3> QED
      BY <3>1, <3>2
  <2> QED
    BY <2>3 DEF TasksCreated
<1>2. CASE ~Check
  <2>1. created' = created
    BY <1>2, ChecksCreate
  <2>2. ASSUME NEW c \in Conns, EndChunk(c)
        PROVE  TasksCreated'
    <3>1. \A f \in Files : state'[f] # None => state[f] # None
      BY <2>2, EndChunkEffect
    <3> QED
      BY <2>1, <2>2, <3>1, EndChunkTask DEF TasksCreated
  <2>3. CASE UNCHANGED state
    BY <2>1, <2>3 DEF TasksCreated
  <2>4. CASE Forgets
    BY <2>1, <2>4 DEF Forgets, TasksCreated
  <2>5. CASE Upload
    BY <2>2, <2>3, <2>5 DEF Upload, BeginChunk, ReceiveBlock
  <2>6. CASE Finalize
    BY <2>4, <2>6, UploadFinalizeForgets DEF Finalize
  <2> QED
    BY <1>2, <2>3, <2>4, <2>5, <2>6, KindsOfSteps, PauseStepKeeps, ForgetStepForgets
<1> QED
  BY <1>1, <1>2

\* Until the application is started again, the directory that a state file names
\* is that of a live session.
DirsAreLive == restarts = 0 => \A f \in Files : state[f] # None => Live(state[f].dir)

SpareInv == SingleInv /\ TasksCreated /\ DirsAreLive

\* The state files of a session that ends are among those that go with it.
LEMMA EndedSessionFiles ==
  ASSUME SingleInv, NEW s \in Sids, Live(s), NEW f \in Files, state[f] # None, state[f].dir = s
  PROVE  f \in Chunked(s)
<1>1. sessions[s].files[f] # None
  BY DEF SingleInv, SessionsKnowTheirFiles
<1>2. PICK g \in Files, n \in Sizes : DirIsFor(s, g, n)
  BY DEF SingleInv, OneFilePerDir
<1>3. sessions[s].files[f].size > 0
  BY <1>1, <1>2, ConstantsAssumption DEF DirIsFor
<1> QED
  BY <1>1, <1>3 DEF Chunked

\* Ending session s leaves no state file that names its directory.
LEMMA EndedSessionLive ==
  ASSUME SpareInv, restarts = 0, NEW s \in Sids,
         state' = StateWithout(Chunked(s)), sessions' = [sessions EXCEPT ![s] = None],
         NEW f \in Files, state'[f] # None
  PROVE  Live(state[f].dir)'
<1>1. state'[f] = state[f] /\ f \notin Chunked(s) /\ Live(state[f].dir)
  BY DEF StateWithout, SpareInv, DirsAreLive
<1>2. state[f].dir # s
  BY <1>1, EndedSessionFiles DEF SpareInv
<1> QED
  BY <1>1, <1>2 DEF SpareInv, SingleInv, TypeInv, TypeOK, StateFile, Live

LEMMA CheckDirsLive ==
  ASSUME SingleFileChecks, SpareInv, restarts = 0, NEW S \in Selections,
         NEW size \in [S -> Sizes], NEW s0 \in Sids, NEW t0 \in Tasks, NEW t \in Tasks,
         UploadCheck(S, size, s0, t0, t), NEW f \in Files, state'[f] # None
  PROVE  Live(state[f].dir)'
<1> DEFINE d == ChosenSid(S, size, s0)
<1>1. PICK g \in Files :
        /\ S = {g}
        /\ Needed(S, size) \subseteq {g}
        /\ DirAt(g, S, size, s0) = d
        /\ \/ Reusable(S, size) = {} /\ d = s0
           \/ Reusable(S, size) = {g} /\ d = state[g].dir
  BY SingleCheck
<1>2. TypeInv /\ state' = CheckedState(S, size, s0, t0)
  BY DEF UploadCheck, SpareInv, SingleInv
<1>3. /\ d \in Sids
      /\ sessions'[d] # None
      /\ sessions'[d].task # None
      /\ \A s \in Sids : s # d =>
           /\ sessions[s] = None <=> sessions'[s] = None
           /\ sessions[s] # None => sessions'[s].task = sessions[s].task
  BY <1>2, CheckedSession
<1>4. CASE f \in Needed(S, size)
  <2>1. f = g
    BY <1>1, <1>4
  <2>2. state'[g].dir = IF g \in Reusable(S, size) THEN state[g].dir ELSE DirAt(g, S, size, s0)
    BY <1>2, <1>4, <2>1, CheckedStateFile
  <2>3. state'[g].dir = d
    <3> HIDE DEF d
    <3> QED
      BY <1>1, <2>2
  <2> HIDE DEF d
  <2> QED
    BY <1>3, <2>1, <2>3 DEF Live
<1>5. CASE f \notin Needed(S, size)
  <2>1. state'[f] = state[f] /\ state[f] # None
    BY <1>2, <1>5, CheckedStateFile
  <2>2. Live(state[f].dir) /\ state[f].dir \in Sids
    BY <1>2, <2>1 DEF SpareInv, DirsAreLive, TypeInv, TypeOK, StateFile
  <2> HIDE DEF d
  <2> QED
    BY <1>3, <2>1, <2>2 DEF Live
<1> QED
  BY <1>4, <1>5

LEMMA DirsAreLiveStep ==
  ASSUME SingleFileChecks, SpareInv, [Next]_vars
  PROVE  DirsAreLive'
<1>1. TypeInv /\ restarts \in Nat
  BY DEF SpareInv, SingleInv, TypeInv, TypeOK
<1>2. CASE Restarts
  <2>1. PICK l, Old, Torn : Restart(l, Old, Torn)
    BY <1>2 DEF Restarts, Shutdown, Crash
  <2>2. restarts' # 0
    BY <1>1, <2>1 DEF Restart
  <2> QED
    BY <2>2 DEF DirsAreLive
<1>3. CASE ~Restarts
  <2> SUFFICES ASSUME restarts' = 0, NEW f \in Files, state'[f] # None
               PROVE  Live(state[f].dir)'
    BY DEF DirsAreLive
  <2>1. restarts = 0
    <3>1. UNCHANGED restarts
      <4>1. CASE Check
        BY <4>1 DEF Check, UploadCheck
      <4>2. CASE Upload
        BY <4>2 DEF Upload, BeginChunk, ReceiveBlock, EndChunk
      <4>3. CASE Finalize
        BY <4>3 DEF Finalize, UploadFinalize
      <4>4. CASE Publish
        BY <4>4 DEF Publish, MergeStep, OpenMerged, CopyMerged, EndMerge, FinalizeReady
      <4>5. CASE Control
        BY <4>5 DEF Control, UploadAbort, Discard, UploadPause, UploadResume, PauseTask,
          ResumeTask, DeleteTask
      <4>6. CASE Timers
        BY <4>6 DEF Timers, ExpireSession, Discard, AutoPause
      <4>7. CASE UNCHANGED vars
        BY <4>7 DEF vars
      <4> QED
        BY <1>3, <4>1, <4>2, <4>3, <4>4, <4>5, <4>6, <4>7 DEF Next
    <3> QED
      BY <3>1
  <2>2. \A g \in Files : state[g] # None => Live(state[g].dir) /\ state[g].dir \in Sids
    BY <1>1, <2>1 DEF SpareInv, DirsAreLive, TypeInv, TypeOK, StateFile
  <2>3. CASE Check
    BY <2>1, <2>3, CheckDirsLive DEF Check
  <2>4. CASE Upload
    <3>1. ASSUME NEW c \in Conns, EndChunk(c)
          PROVE  Live(state[f].dir)'
      <4> DEFINE r == conns[c]
      <4>1. /\ \A s \in Sids : s # r.sid => sessions'[s] = sessions[s]
            /\ sessions'[r.sid] # None
            /\ sessions'[r.sid].task = SessionOf(r).task
            /\ state[f] # None /\ state'[f].dir = state[f].dir
        BY <1>1, <3>1, EndChunkEffect
      <4>2. Live(r.sid) => SessionOf(r) = sessions[r.sid]
        BY DEF Live, SessionOf
      <4> HIDE DEF r
      <4> QED
        BY <2>2, <4>1, <4>2 DEF Live
    <3>2. CASE UNCHANGED <<state, sessions>>
      BY <2>2, <3>2 DEF Live
    <3> QED
      BY <2>4, <3>1, <3>2 DEF Upload, BeginChunk, ReceiveBlock
  <2>5. CASE Finalize
    BY <2>1, <2>5, EndedSessionLive DEF Finalize, UploadFinalize
  <2>6. CASE PauseStep
    BY <1>1, <2>2, <2>6, PauseStepKeeps DEF SameButPaused, Live
  <2>7. ASSUME NEW s \in Sids, Discard(s)
        PROVE  Live(state[f].dir)'
    BY <2>1, <2>7, EndedSessionLive DEF Discard
  <2>8. ASSUME NEW t \in Tasks, DeleteTask(t)
        PROVE  Live(state[f].dir)'
    BY <2>2, <2>8 DEF DeleteTask, StateWithout, Live
  <2>9. CASE Publish \/ UNCHANGED vars
    <3>1. UNCHANGED <<state, sessions>>
      BY <2>9 DEF Publish, MergeStep, OpenMerged, CopyMerged, EndMerge, FinalizeReady, vars
    <3> QED
      BY <2>2, <3>1 DEF Live
  <2> QED
    BY <1>3, <2>3, <2>4, <2>5, <2>6, <2>7, <2>8, <2>9
    DEF Next, Control, Timers, UploadAbort, ExpireSession, PauseStep
<1> QED
  BY <1>2, <1>3

LEMMA SpareInvariant ==
  ASSUME SingleFileChecks
  PROVE  Spec => []SpareInv
<1>1. Init => SpareInv
  BY InitSingleInv DEF Init, SpareInv, TasksCreated, DirsAreLive
<1>2. SpareInv /\ [Next]_vars => SpareInv'
  BY NextSingleInv, TasksCreatedStep, DirsAreLiveStep DEF SpareInv, SingleInv
<1> QED
  BY <1>1, <1>2, PTL DEF Spec

\* As long as every check is for a single file, a check that goes on with an
\* upload takes over every chunk that the state file has and that is whole on the
\* disk, whatever crashes, expiry and the list did before (handleUploadCheck).
THEOREM ResumesKeepChunks ==
  ASSUME SingleFileChecks
  PROVE  Spec => ResumeKeepsChunks
<1> DEFINE Keeps ==
      \A f \in Files :
        /\ state[f] # None
        /\ state'[f] # None
        /\ state'[f].size = state[f].size
        /\ state'[f].task # state[f].task
        => LET s == state'[f].dir
           IN  \A i \in state[f].done : HasSize(state[f].dir, f, i, Blocks) =>
                 /\ store'[s][f] # None
                 /\ store'[s][f][i] = store[state[f].dir][f][i]
                 /\ sessions'[s] # None
                 /\ i \in sessions'[s].files[f].done
<1>1. ASSUME TypeInv, [Next]_vars
      PROVE  [Keeps]_vars
  <2> SUFFICES ASSUME NEW f \in Files, state[f] # None, state'[f] # None,
                      state'[f].size = state[f].size, state'[f].task # state[f].task,
                      NEW i \in state[f].done, HasSize(state[f].dir, f, i, Blocks)
               PROVE  /\ store'[state'[f].dir][f] # None
                      /\ store'[state'[f].dir][f][i] = store[state[f].dir][f][i]
                      /\ sessions'[state'[f].dir] # None
                      /\ i \in sessions'[state'[f].dir].files[f].done
    OBVIOUS
  <2>1. Check
    <3>1. ASSUME NEW c \in Conns, EndChunk(c)
          PROVE  FALSE
      BY <1>1, <3>1, EndChunkTask
    <3>2. Upload => FALSE
      BY <3>1 DEF Upload, BeginChunk, ReceiveBlock
    <3>3. Finalize => FALSE
      BY <1>1, UploadFinalizeForgets DEF Finalize, Forgets
    <3>4. PauseStep \/ ForgetStep => FALSE
      BY <1>1, PauseStepKeeps, ForgetStepForgets DEF Forgets
    <3> QED
      BY <1>1, <3>2, <3>3, <3>4, KindsOfSteps
  <2> PICK S \in Selections :
        \E size \in [S -> Sizes], s0 \in Sids, t0, t \in Tasks : UploadCheck(S, size, s0, t0, t)
    BY <2>1 DEF Check
  <2>2. PICK size \in [S -> Sizes], s0 \in Sids, t0 \in Tasks, t \in Tasks :
          UploadCheck(S, size, s0, t0, t)
    OBVIOUS
  <2> DEFINE d == ChosenSid(S, size, s0)
  <2>3. /\ state' = CheckedState(S, size, s0, t0)
        /\ store' = CheckedStore(S, size, s0)
    BY <2>2 DEF UploadCheck
  <2>4. f \in Needed(S, size)
    BY <1>1, <2>3, CheckedStateFile
  <2>5. f \in Reusable(S, size)
    <3>1. state'[f].size = size[f]
      BY <1>1, <2>3, <2>4, CheckedStateFile
    <3> QED
      BY <2>4, <3>1 DEF Matching, Reusable, HasSize, HasChunk
  <2>6. d = state[f].dir /\ d \in Sids /\ state'[f].dir = state[f].dir
    <3>1. d = state[f].dir
      BY <2>5, SingleCheck DEF Needed, Reusable, Matching
    <3>2. state'[f].dir = state[f].dir
      BY <1>1, <2>3, <2>5, CheckedStateFile
    <3> QED
      BY <1>1, <3>1, <3>2, ChosenSidType DEF TypeInv
  <2>7. /\ f \in Matching(S, size)
        /\ f \notin Outdated(S, size)
        /\ i \in Index
        /\ i \notin WrongChunks(f)
    BY <1>1, <2>5 DEF Reusable, Matching, Outdated, WrongChunks, TypeInv, TypeOK, StateFile
  <2>8. store'[d][f] = Unlinked(d, f, WrongChunks(f))
    <3>1. store'[d][f] =
            IF \/ Reusable(S, size) # {} /\ d # ChosenSid(S, size, s0) /\ ~Live(d)
               \/ f \in Outdated(S, size) /\ state[f].dir = d
            THEN RemovedDir(d, f)
            ELSE IF f \in Matching(S, size) /\ state[f].dir = d
            THEN Unlinked(d, f, WrongChunks(f))
            ELSE store[d][f]
      BY <2>3, <2>6 DEF CheckedStore
    <3>2. d = ChosenSid(S, size, s0)
      OBVIOUS
    <3> HIDE DEF d
    <3> QED
      BY <2>6, <2>7, <3>1, <3>2
  <2>9. store[d][f] # None
    BY <2>6 DEF HasSize, HasChunk
  <2>10. store'[d][f] # None /\ store'[d][f][i] = store[d][f][i]
    <3>1. store'[d][f] = [j \in Index |-> IF j \in WrongChunks(f) /\ ~Open(d, f, j)
                                          THEN None ELSE store[d][f][j]]
      BY <2>8, <2>9 DEF Unlinked
    <3>2. store'[d][f] \in ChunkDir \cup {None}
      BY <1>1, <2>6, NextType DEF TypeInv, TypeOK
    <3>3. None \notin ChunkDir
      BY NoneAssumption
    <3>4. store'[d][f] \in ChunkDir
      <4>1. [j \in Index |-> IF j \in WrongChunks(f) /\ ~Open(d, f, j)
                             THEN None ELSE store[d][f][j]] \in ChunkDir
        BY <1>1, <2>6, <2>9 DEF ChunkDir, TypeInv, TypeOK
      <4> QED
        BY <3>1, <4>1
    <3> HIDE DEF d
    <3> QED
      BY <2>7, <3>1, <3>3, <3>4
  <2>11. sessions'[d] # None /\ i \in sessions'[d].files[f].done
    <3>1. sessions'[d] # None /\ sessions'[d].files = CheckedFiles(S, size)
      BY <1>1, <2>2, CheckedSession
    <3>2. CheckedFiles(S, size)[f].done = state[f].done
      BY <1>1, <2>7, CheckedEntry
    <3> HIDE DEF d
    <3> QED
      BY <3>1, <3>2
  <2> HIDE DEF d
  <2> QED
    BY <2>6, <2>10, <2>11
<1>2. Spec => []TypeInv
  BY InitType, NextType, PTL DEF Spec
<1> QED
  BY <1>1, <1>2, PTL DEF Spec, ResumeKeepsChunks

-----------------------------------------------------------------------------
(* How a file is cut (ChunkSplit): the slices of the page are a partition  *)
(* of it, and the server cuts it into the same ones, whatever the sizes.   *)

(* The number of slices is the least one that is enough. *)
LEMMA CountIsTight ==
  ASSUME NEW s \in Nat, NEW c \in Nat \ {0}
  PROVE  LET t == totalChunks(s, c)
         IN  /\ t \in Nat
             /\ s <= t * c
             /\ t * c < s + c
<1> DEFINE t == totalChunks(s, c)
<1>1. /\ (s + c - 1) \div c \in Int
      /\ c * ((s + c - 1) \div c) <= s + c - 1
      /\ s + c - 1 < c * ((s + c - 1) \div c) + c
  BY SMTT(30)
<1>2. t \in Int /\ c * t <= s + c - 1 /\ s + c - 1 < c * t + c
  BY <1>1 DEF totalChunks
<1>3. t >= 0
  BY <1>2, SMTT(30)
<1>4. t * c = c * t
  BY <1>2
<1> QED
  BY <1>2, <1>3, <1>4

(* Multiplying by a size keeps the order of indices. *)
LEMMA Multiples ==
  ASSUME NEW c \in Nat \ {0}, NEW i \in Int, NEW j \in Int, i < j
  PROVE  i * c + c <= j * c
<1>1. j - i >= 1
  OBVIOUS
<1>2. (j - i) * c >= c
  BY <1>1, SMTT(30)
<1>3. j * c = i * c + (j - i) * c
  BY SMTT(30)
<1> QED
  BY <1>2, <1>3

(* Every byte of a file is in a slice that the page sends. *)
THEOREM EveryByteIsSent ==
  ASSUME NEW s \in Nat, NEW c \in Nat \ {0}, NEW b \in 0 .. s - 1
  PROVE  \E i \in 0 .. totalChunks(s, c) - 1 : Contains(i, b, s, c)
<1> DEFINE t == totalChunks(s, c)
           i == b \div c
<1>1. t \in Nat /\ s <= t * c
  BY CountIsTight
<1>2. i \in Int /\ c * i <= b /\ b < c * i + c
  BY SMTT(30)
<1>3. c * i = i * c
  BY <1>2
<1>4. i >= 0
  BY <1>2, SMTT(30)
<1>5. i < t
  <2>1. SUFFICES ASSUME t <= i PROVE FALSE
    BY <1>1, <1>2
  <2>2. t * c <= i * c
    <3>1. CASE t = i
      BY <3>1, <1>1, <1>2
    <3>2. CASE t < i
      BY <3>2, <1>1, <1>2, Multiples
    <3> QED
      BY <2>1, <3>1, <3>2, <1>1, <1>2
  <2> QED
    BY <2>2, <1>1, <1>2, <1>3
<1>6. Contains(i, b, s, c)
  BY <1>2, <1>3 DEF Contains, SliceStart, SliceEnd
<1> QED
  BY <1>1, <1>2, <1>4, <1>5, <1>6

(* No byte is in two slices. *)
THEOREM NoByteIsSentTwice ==
  ASSUME NEW s \in Nat, NEW c \in Nat \ {0}, NEW b \in Nat,
         NEW i \in Nat, NEW j \in Nat,
         Contains(i, b, s, c), Contains(j, b, s, c)
  PROVE  i = j
<1>1. ASSUME NEW m \in Nat, NEW n \in Nat, m < n,
             Contains(m, b, s, c), Contains(n, b, s, c)
      PROVE  FALSE
  <2>1. m * c + c <= n * c
    BY <1>1, Multiples
  <2>2. m * c \in Int /\ n * c \in Int
    OBVIOUS
  <2>3. b < m * c + c
    BY <1>1, <2>2 DEF Contains, SliceStart, SliceEnd
  <2>4. n * c <= b
    BY <1>1 DEF Contains, SliceStart
  <2> QED
    BY <2>1, <2>2, <2>3, <2>4
<1> QED
  BY <1>1

(* Slices are not empty, none is longer than a chunk, and all but the last *)
(* one are a whole chunk: the server's check of the size may excuse only    *)
(* the last chunk.                                                          *)
THEOREM OnlyLastIsShort ==
  ASSUME NEW s \in Nat, NEW c \in Nat \ {0}, NEW i \in 0 .. totalChunks(s, c) - 1
  PROVE  LET size == SliceEnd(i, s, c) - SliceStart(i, c)
         IN  /\ size \in 1 .. c
             /\ i < totalChunks(s, c) - 1 => size = c
<1> DEFINE t == totalChunks(s, c)
<1>1. t \in Nat /\ t * c < s + c
  BY CountIsTight
<1>2. i * c \in Int
  OBVIOUS
<1>3. i * c + c <= t * c
  BY <1>1, Multiples
<1>4. i * c < s
  BY <1>1, <1>2, <1>3
<1>5. ASSUME i < t - 1
      PROVE  i * c + c < s
  <2>1. i + 1 \in Int /\ i + 1 < t /\ (i + 1) * c = i * c + c
    BY <1>1, <1>5, SMTT(30)
  <2>2. (i + 1) * c + c <= t * c
    BY <2>1, <1>1, Multiples
  <2> QED
    BY <2>1, <2>2, <1>1, <1>2
<1> QED
  BY <1>1, <1>2, <1>4, <1>5 DEF SliceStart, SliceEnd

(* The server keeps sizes of chunks in an int, and the page relies on them  *)
(* being positive.                                                          *)
THEOREM ChunkSizeFits ==
  ASSUME NEW s \in Int
  PROVE  calculateChunkSize(s) \in 1 .. 2^31 - 1
<1>1. calculateChunkSize(s) \in {MB, 4 * MB, 8 * MB, 16 * MB}
  BY DEF calculateChunkSize
<1>2. MB = 1048576 /\ 2^31 = 2147483648
  BY DEF MB
<1> QED
  BY <1>1, <1>2

(* It is the only number that is. *)
LEMMA CountIs ==
  ASSUME NEW s \in Nat, NEW c \in Nat \ {0}, NEW t \in Nat, s <= t * c, t * c < s + c
  PROVE  totalChunks(s, c) = t
<1> DEFINE n == totalChunks(s, c)
<1>1. n \in Nat /\ s <= n * c /\ n * c < s + c
  BY CountIsTight
<1>2. n * c \in Int /\ t * c \in Int
  BY <1>1
<1>3. n < t => n * c + c <= t * c
  BY <1>1, Multiples
<1>4. t < n => t * c + c <= n * c
  BY <1>1, Multiples
<1> QED
  BY <1>1, <1>2, <1>3, <1>4

(* After a chunk there is one chunk less to come, and after all there is none. *)
LEMMA OneChunkLess ==
  ASSUME NEW s \in Nat, NEW c \in Nat \ {0}
  PROVE  /\ s = 0 => totalChunks(s, c) = 0
         /\ s > c => totalChunks(s, c) = totalChunks(s - c, c) + 1
         /\ s > 0 /\ s <= c => totalChunks(s, c) = 1
<1>1. ASSUME s = 0 PROVE totalChunks(s, c) = 0
  <2>1. 0 * c = 0
    OBVIOUS
  <2> QED
    BY <1>1, <2>1, CountIs
<1>2. ASSUME s > c PROVE totalChunks(s, c) = totalChunks(s - c, c) + 1
  <2> DEFINE n == totalChunks(s - c, c)
  <2>1. s - c \in Nat
    BY <1>2
  <2>2. n \in Nat /\ s - c <= n * c /\ n * c < (s - c) + c
    BY <2>1, CountIsTight
  <2> HIDE DEF n
  <2>3. (n + 1) * c = n * c + c /\ n * c \in Int /\ n + 1 \in Nat
    BY <2>2, SMTT(30)
  <2>4. s <= (n + 1) * c /\ (n + 1) * c < s + c
    BY <2>2, <2>3
  <2> QED
    BY <2>3, <2>4, CountIs DEF n
<1>3. ASSUME s > 0, s <= c PROVE totalChunks(s, c) = 1
  <2>1. 1 * c = c
    OBVIOUS
  <2> QED
    BY <1>3, <2>1, CountIs
<1> QED
  BY <1>1, <1>2, <1>3

(* A set of natural numbers that is not empty has a least element. *)
LEMMA LeastNumber ==
  ASSUME NEW T, T \subseteq Nat, T # {}
  PROVE  \E m \in T : \A n \in T : m <= n
<1> DEFINE R == {ss \in Nat \X Nat : ss[1] < ss[2]}
<1>1. IsWellFoundedOn(R, Nat)
  BY NatLessThanWellFounded DEF OpToRel
<1>2. \A m, n \in T : <<n, m>> \in R <=> n < m
  OBVIOUS
<1> HIDE DEF R
<1>3. PICK m \in T : \A n \in T : ~(<<n, m>> \in R)
  BY <1>1, WFMin
<1>4. ASSUME NEW n \in T PROVE m <= n
  <2>1. m \in Nat /\ n \in Nat
    OBVIOUS
  <2>2. ~(n < m)
    BY <1>2, <1>3
  <2> QED
    BY <2>1, <2>2
<1> QED
  BY <1>4

(* What a function is that takes the rounds of splitFile from every offset. *)
Smaller(a, b)   == IF a < b THEN a ELSE b
Chunk(o, s, c)  == [offset |-> o, size |-> Smaller(c, s - o)]
Cuts(f, s, c) ==
  f = [o \in Nat |-> IF o >= s THEN <<>>
                     ELSE <<Chunk(o, s, c)>> \o f[o + Smaller(c, s - o)]]

(* The slices of what follows an offset. *)
Rest(o, s, c) ==
  IF o >= s THEN <<>>
  ELSE [n \in 1 .. totalChunks(s - o, c) |-> Chunk(o + (n - 1) * c, s, c)]

(* After an offset comes a slice, and then the slices after it. *)
LEMMA RestGoesOn ==
  ASSUME NEW s \in Nat, NEW c \in Nat \ {0}, NEW o \in Nat, o < s
  PROVE  Rest(o, s, c) = <<Chunk(o, s, c)>> \o Rest(o + Smaller(c, s - o), s, c)
<1> DEFINE d == Smaller(c, s - o)
           t == totalChunks(s - o, c)
           r == Rest(o, s, c)
           q == Rest(o + d, s, c)
           x == Chunk(o, s, c)
<1>1. s - o \in Nat /\ s - o > 0 /\ d \in Nat \ {0} /\ o + d \in Nat /\ o + 0 = o
  BY DEF Smaller
<1>2. r = [n \in 1 .. t |-> Chunk(o + (n - 1) * c, s, c)]
  BY DEF Rest
<1>3. Chunk(o + (1 - 1) * c, s, c) = x
  <2>1. (1 - 1) * c = 0
    OBVIOUS
  <2> QED
    BY <1>1, <2>1
<1>4. CASE s - o <= c
  <2>1. t = 1
    BY <1>1, <1>4, OneChunkLess
  <2>2. r = <<x>>
    <3>1. r = [n \in 1 .. 1 |-> Chunk(o + (n - 1) * c, s, c)]
      BY <1>2, <2>1
    <3> HIDE DEF x, r
    <3>2. r = [n \in 1 .. 1 |-> x]
      BY <1>3, <3>1
    <3> QED
      BY <3>2
  <2>3. q = <<>>
    <3>1. o + d >= s
      BY <1>4 DEF Smaller
    <3> QED
      BY <3>1 DEF Rest
  <2>4. <<x>> \o <<>> = <<x>>
    OBVIOUS
  <2> QED
    BY <2>2, <2>3, <2>4
<1>5. CASE s - o > c
  <2> DEFINE m == totalChunks(s - (o + d), c)
  <2>1. d = c /\ o + d < s /\ s - (o + d) = (s - o) - c /\ s - (o + d) \in Nat
    BY <1>1, <1>5 DEF Smaller
  <2>2. t = m + 1 /\ m \in Nat
    <3>1. t = totalChunks((s - o) - c, c) + 1
      BY <1>1, <1>5, OneChunkLess
    <3> QED
      BY <2>1, <3>1, CountIsTight
  <2>3. q = [n \in 1 .. m |-> Chunk((o + d) + (n - 1) * c, s, c)]
    <3>1. ~(o + d >= s)
      BY <1>1, <2>1
    <3> QED
      BY <3>1 DEF Rest
  <2> DEFINE S == {x} \cup {q[n] : n \in 1 .. m}
  <2>4. q \in Seq(S) /\ Len(q) = m /\ <<x>> \in Seq(S) /\ Len(<<x>>) = 1
    <3> HIDE DEF x
    <3>1. q = [n \in 1 .. m |-> q[n]]
      BY <2>3
    <3> HIDE DEF q, m
    <3>2. q \in [1 .. m -> S]
      BY <3>1
    <3> QED
      BY <2>2, <3>2
  <2> HIDE DEF x, q, m, t, r, S
  <2> DEFINE p == <<x>> \o q
  <2>5. /\ p \in Seq(S) /\ Len(p) = 1 + m
        /\ p[1] = x /\ \A n \in 2 .. 1 + m : p[n] = q[n - 1]
    BY <2>2, <2>4
  <2>6. ASSUME NEW n \in 1 .. m + 1 PROVE p[n] = Chunk(o + (n - 1) * c, s, c)
    <3>1. CASE n = 1
      BY <1>3, <2>5, <3>1
    <3>2. CASE n # 1
      <4>1. n \in 2 .. 1 + m /\ n - 1 \in 1 .. m
        BY <2>2, <3>2
      <4>2. p[n] = Chunk((o + d) + ((n - 1) - 1) * c, s, c)
        BY <2>3, <2>5, <4>1
      <4>3. ((n - 1) - 1) * c + c = (n - 1) * c /\ ((n - 1) - 1) * c \in Int
        BY <4>1, SMTT(30)
      <4>4. (o + d) + ((n - 1) - 1) * c = o + (n - 1) * c
        BY <2>1, <4>3
      <4> QED
        BY <4>2, <4>4
    <3> QED
      BY <3>1, <3>2
  <2>7. p = [n \in 1 .. m + 1 |-> p[n]]
    <3> HIDE DEF p
    <3> QED
      BY <2>2, <2>5
  <2>8. p = r
    <3> HIDE DEF p
    <3> QED
      BY <1>2, <2>2, <2>6, <2>7
  <2> QED
    BY <2>8 DEF p, q, r, x
<1> QED
  BY <1>1, <1>4, <1>5

(* The server cuts a file into the slices of the page: the loop and the     *)
(* arithmetic agree for files and chunks of every size (splitFile of        *)
(* ChunkManager.cpp, uploadChunked of receive.html).                        *)
THEOREM CutsAreSlices ==
  ASSUME NEW s \in Nat, NEW c \in Nat \ {0}
  PROVE  SidesAgree(s, c)
<1> DEFINE rounds == CHOOSE f : Cuts(f, s, c)
           w == [o \in Nat |-> Rest(o, s, c)]
<1>1. splitFile(s, c) = rounds[0]
  BY DEF splitFile, Cuts, Chunk, Smaller
<1>2. Cuts(w, s, c)
  <2>1. ASSUME NEW o \in Nat
        PROVE  Rest(o, s, c) = IF o >= s THEN <<>>
                               ELSE <<Chunk(o, s, c)>> \o w[o + Smaller(c, s - o)]
    <3>1. CASE o >= s
      BY <3>1 DEF Rest
    <3>2. CASE o < s
      <4>1. o + Smaller(c, s - o) \in Nat
        BY <3>2 DEF Smaller
      <4>2. w[o + Smaller(c, s - o)] = Rest(o + Smaller(c, s - o), s, c)
        BY <4>1
      <4>3. ~(o >= s)
        BY <3>2
      <4> QED
        BY <3>2, <4>2, <4>3, RestGoesOn
    <3> QED
      BY <3>1, <3>2
  <2> QED
    BY <2>1 DEF Cuts
<1>3. Cuts(rounds, s, c)
  <2> HIDE DEF w
  <2> QED
    BY <1>2
<1> HIDE DEF rounds
<1>4. \A o \in Nat : rounds[o] = IF o >= s THEN <<>>
                                 ELSE <<Chunk(o, s, c)>> \o rounds[o + Smaller(c, s - o)]
  BY <1>3 DEF Cuts
<1>5. \A o \in Nat : rounds[o] = Rest(o, s, c)
  <2> DEFINE T == {n \in 0 .. s : rounds[s - n] # Rest(s - n, s, c)}
  <2>1. T = {}
    <3>1. SUFFICES ASSUME T # {} PROVE FALSE
      OBVIOUS
    <3>2. PICK n \in T : \A l \in T : n <= l
      <4>1. T \subseteq Nat
        OBVIOUS
      <4> HIDE DEF T
      <4> QED
        BY <3>1, <4>1, LeastNumber
    <3> DEFINE o == s - n
               d == Smaller(c, s - o)
    <3>3. o \in Nat /\ n \in 0 .. s /\ s - o = n /\ rounds[o] # Rest(o, s, c)
      BY <3>2
    <3>4. o < s
      <4>1. SUFFICES ASSUME o >= s PROVE FALSE
        BY <3>3
      <4> QED
        BY <1>4, <3>3, <4>1 DEF Rest
    <3>5. d \in 1 .. n /\ n - d \in 0 .. s /\ s - (n - d) = o + d /\ ~(n <= n - d)
      BY <3>3, <3>4 DEF Smaller
    <3>6. n - d \notin T
      <4> HIDE DEF T, d
      <4> QED
        BY <3>2, <3>5
    <3>7. rounds[o + d] = Rest(o + d, s, c)
      BY <3>5, <3>6
    <3> HIDE DEF o
    <3>8. rounds[o] = <<Chunk(o, s, c)>> \o rounds[o + d]
      <4>1. ~(o >= s)
        BY <3>3, <3>4
      <4> QED
        BY <1>4, <3>3, <4>1
    <3> QED
      BY <3>3, <3>4, <3>7, <3>8, RestGoesOn
  <2>2. ASSUME NEW o \in Nat PROVE rounds[o] = Rest(o, s, c)
    <3>1. CASE o >= s
      BY <1>4, <3>1 DEF Rest
    <3>2. CASE o < s
      <4>1. s - o \in 0 .. s /\ s - (s - o) = o
        BY <3>2
      <4> QED
        BY <2>1, <4>1
    <3> QED
      BY <3>1, <3>2
  <2> QED
    BY <2>2
<1>6. Rest(0, s, c) = Slices(s, c)
  <2> DEFINE t == totalChunks(s, c)
  <2>1. ASSUME NEW n \in 1 .. t
        PROVE  Chunk(0 + (n - 1) * c, s, c) =
                 [offset |-> SliceStart(n - 1, c),
                  size   |-> SliceEnd(n - 1, s, c) - SliceStart(n - 1, c)]
    <3> DEFINE a == (n - 1) * c
    <3>1. a \in Int /\ 0 + a = a
      BY CountIsTight
    <3> HIDE DEF a
    <3>2. Smaller(c, s - a) = (IF a + c < s THEN a + c ELSE s) - a
      BY <3>1 DEF Smaller
    <3>3. SliceStart(n - 1, c) = a /\ SliceEnd(n - 1, s, c) = IF a + c < s THEN a + c ELSE s
      BY DEF SliceStart, SliceEnd, a
    <3>4. Chunk(0 + a, s, c) = [offset |-> a, size |-> Smaller(c, s - a)]
      BY <3>1 DEF Chunk
    <3>5. Chunk(0 + a, s, c) = [offset |-> SliceStart(n - 1, c),
                                size   |-> SliceEnd(n - 1, s, c) - SliceStart(n - 1, c)]
      BY <3>2, <3>3, <3>4
    <3> QED
      BY <3>5 DEF a
  <2>2. CASE s = 0
    <3>1. t = 0 /\ 1 .. 0 = {}
      BY <2>2, OneChunkLess
    <3>2. Slices(s, c) = <<>>
      BY <3>1 DEF Slices
    <3> QED
      BY <2>2, <3>2 DEF Rest
  <2>3. CASE s > 0
    <3>1. Rest(0, s, c) = [n \in 1 .. t |-> Chunk(0 + (n - 1) * c, s, c)]
      <4>1. ~(0 >= s) /\ s - 0 = s
        BY <2>3
      <4> QED
        BY <4>1 DEF Rest
    <3> QED
      BY <2>1, <3>1 DEF Slices
  <2> QED
    BY <2>2, <2>3
<1> QED
  BY <1>1, <1>5, <1>6 DEF SidesAgree
=============================================================================
