------------------------- MODULE UploadChecksProofs -------------------------
(***************************************************************************)
(* Theorems about UploadChecks: what handleUploadCheck keeps although any  *)
(* handler, merge or timer may come between its steps, for any number of   *)
(* workers, files and uploads.                                             *)
(*                                                                         *)
(* A chunk directory is made for one file of one size, by the check that   *)
(* draws its id.  Whatever refers to the directory then is about that file *)
(* (KnownDirs), so a session that ends takes the state file along that     *)
(* names its directory, and only a check that had loaded that state file   *)
(* before can still go on with the directory.                              *)
(***************************************************************************)
EXTENDS UploadChecks, UploadServerProofs

-----------------------------------------------------------------------------
(* Type correctness *)

CheckTypeInv == TypeInv /\ CheckTypeOK

\* The fields of a check that is under way.
LEMMA CheckFields ==
  ASSUME CheckTypeOK, NEW k \in Checkers, checks[k] # None
  PROVE  /\ checks[k] \in CheckInfo
         /\ checks[k].file \in Files
         /\ checks[k].size \in Sizes
         /\ checks[k].needed \in BOOLEAN
         /\ checks[k].reused \in BOOLEAN
         /\ checks[k].sid \in Sids \cup {None}
         /\ checks[k].task \in Tasks \cup {None}
         /\ checks[k].done \subseteq Index
         /\ checks[k].read # None =>
              /\ checks[k].read \in StateFile
              /\ checks[k].read.dir \in Sids
              /\ checks[k].read.size \in Sizes
              /\ checks[k].read.done \subseteq Index
BY DEF CheckTypeOK, CheckInfo, StateFile

\* A check is put down: the others stay as they are.
LEMMA PutCheck ==
  ASSUME CheckTypeOK, NEW k \in Checkers, NEW x \in CheckInfo \cup {None},
         checks' = [checks EXCEPT ![k] = x]
  PROVE  /\ checks'[k] = x
         /\ \A j \in Checkers : j # k => checks'[j] = checks[j]
         /\ checks' \in [Checkers -> CheckInfo \cup {None}]
         /\ x \in CheckInfo => x # None
BY NoneIsNoCheck DEF CheckTypeOK

LEMMA BeginCheckType ==
  ASSUME CheckTypeInv, NEW k \in Checkers, NEW f \in Files, NEW n \in Sizes,
         BeginCheck(k, f, n)
  PROVE  /\ CheckTypeInv'
         /\ checks'[k] # None /\ checks'[k].stage = "load"
         /\ \A j \in Checkers : j # k => checks'[j] = checks[j]
         /\ UNCHANGED <<vars, madeFor, crossed>>
<1> DEFINE x == [file |-> f, size |-> n, needed |-> final[f] = None \/ final[f].size # n,
                 stage |-> "load", read |-> None, sid |-> None, task |-> None,
                 done |-> {}, reused |-> FALSE, cleans |-> {}]
<1>1. x \in CheckInfo /\ x.stage = "load"
  BY DEF CheckInfo
<1>2. checks' = [checks EXCEPT ![k] = x] /\ UNCHANGED <<vars, madeFor, crossed>>
  BY DEF BeginCheck
<1> HIDE DEF x
<1>3. /\ checks'[k] = x
      /\ \A j \in Checkers : j # k => checks'[j] = checks[j]
      /\ checks' \in [Checkers -> CheckInfo \cup {None}]
      /\ x # None
  BY <1>1, <1>2, PutCheck DEF CheckTypeInv
<1>4. TypeInv'
  BY <1>2 DEF CheckTypeInv, vars, TypeInv, TypeOK, WrittenChunkExists, HasChunk
<1> QED
  BY <1>1, <1>2, <1>3, <1>4 DEF CheckTypeInv, CheckTypeOK, TypeInv

LEMMA LoadCheckType ==
  ASSUME CheckTypeInv, NEW k \in Checkers, LoadCheck(k)
  PROVE  /\ CheckTypeInv'
         /\ checks[k] # None
         /\ checks'[k] # None /\ checks'[k].stage = "save"
         /\ checks'[k].file = checks[k].file /\ checks'[k].size = checks[k].size
         /\ checks'[k].needed = checks[k].needed
         /\ checks'[k].read # None =>
              checks[k].needed /\ checks'[k].read = state[checks[k].file]
         /\ \A j \in Checkers : j # k => checks'[j] = checks[j]
         /\ UNCHANGED <<vars, madeFor, crossed>>
<1> DEFINE c == checks[k]
           x == [file |-> c.file, size |-> c.size, needed |-> c.needed, stage |-> "save",
                 read |-> IF c.needed THEN state[c.file] ELSE None,
                 sid |-> None, task |-> None, done |-> {}, reused |-> FALSE,
                 cleans |-> {}]
<1>1. checks[k] # None
  BY DEF LoadCheck, At
<1>2. c.file \in Files /\ c.size \in Sizes /\ c.needed \in BOOLEAN
  BY <1>1, CheckFields DEF CheckTypeInv
<1>3. state[c.file] \in StateFile \cup {None}
  BY <1>2 DEF CheckTypeInv, TypeInv, TypeOK
<1>4. /\ x \in CheckInfo
      /\ x.stage = "save" /\ x.file = c.file /\ x.size = c.size /\ x.needed = c.needed
      /\ x.read # None => c.needed /\ x.read = state[c.file]
  <2> HIDE DEF c
  <2> QED
    BY <1>2, <1>3 DEF CheckInfo
<1>5. checks' = [checks EXCEPT ![k] = x] /\ UNCHANGED <<vars, madeFor, crossed>>
  BY DEF LoadCheck
<1> HIDE DEF x
<1>6. /\ checks'[k] = x
      /\ \A j \in Checkers : j # k => checks'[j] = checks[j]
      /\ checks' \in [Checkers -> CheckInfo \cup {None}]
      /\ x # None
  BY <1>4, <1>5, PutCheck DEF CheckTypeInv
<1>7. TypeInv'
  BY <1>5 DEF CheckTypeInv, vars, TypeInv, TypeOK, WrittenChunkExists, HasChunk
<1> QED
  BY <1>1, <1>4, <1>5, <1>6, <1>7 DEF CheckTypeInv, CheckTypeOK, TypeInv

\* The directories after the validation: of the files of the check, as they were,
\* or without what it removed.
LEMMA ValidatedDirs ==
  ASSUME CheckTypeInv, NEW k \in Checkers, checks[k] # None
  PROVE  LET c == checks[k]
         IN  /\ ValidatedStore(c) \in [Sids -> [Files -> ChunkDir \cup {None}]]
             /\ \A s \in Sids, f \in Files :
                  ValidatedStore(c)[s][f] \in
                    {store[s][f], RemovedDir(s, f), Unlinked(s, f, WrongChunks(f))}
             /\ \A s \in Sids, f \in Files : f # c.file => ValidatedStore(c)[s][f] = store[s][f]
<1> USE DEF CheckTypeInv, TypeInv
<1> DEFINE c == checks[k]
           f == c.file
           Goal == /\ ValidatedStore(c) \in [Sids -> [Files -> ChunkDir \cup {None}]]
                   /\ \A s \in Sids, g \in Files :
                        ValidatedStore(c)[s][g] \in
                          {store[s][g], RemovedDir(s, g), Unlinked(s, g, WrongChunks(g))}
                   /\ \A s \in Sids, g \in Files : g # f => ValidatedStore(c)[s][g] = store[s][g]
<1> SUFFICES Goal
  OBVIOUS
<1>1. f \in Files /\ store \in [Sids -> [Files -> ChunkDir \cup {None}]]
  BY CheckFields DEF TypeOK
<1>2. CASE (Same(c) /\ state[f] = None) \/ (~Same(c) /\ c.read = None)
  <2>1. ValidatedStore(c) = store
    BY <1>2 DEF ValidatedStore
  <2> HIDE DEF c, f
  <2> QED
    BY <1>1, <2>1
<1>3. CASE Same(c) /\ state[f] # None
  <2> DEFINE d == state[f].dir
             x == Unlinked(d, f, WrongChunks(f))
  <2>1. d \in Sids
    BY <1>1, <1>3 DEF TypeOK, StateFile
  <2>2. x \in ChunkDir \cup {None}
    BY <1>1, <2>1, UnlinkedType
  <2>3. ValidatedStore(c) = [store EXCEPT ![d][f] = x]
    BY <1>3 DEF ValidatedStore
  <2>4. \A s \in Sids, g \in Files :
          ValidatedStore(c)[s][g] = IF s = d /\ g = f THEN x ELSE store[s][g]
    <3> HIDE DEF c, f, d, x
    <3> QED
      BY <1>1, <2>1, <2>3
  <2>5. ValidatedStore(c) \in [Sids -> [Files -> ChunkDir \cup {None}]]
    <3> HIDE DEF c, f, d, x
    <3> QED
      BY <1>1, <2>1, <2>2, <2>3
  <2> HIDE DEF c, f, d
  <2> QED
    BY <2>4, <2>5
<1>4. CASE ~Same(c) /\ c.read # None
  <2> DEFINE d == c.read.dir
             x == RemovedDir(d, f)
  <2>1. d \in Sids
    BY <1>4, CheckFields
  <2>2. x \in ChunkDir \cup {None}
    BY <1>1, <2>1, RemovedDirType
  <2>3. ValidatedStore(c) = [store EXCEPT ![d][f] = x]
    BY <1>4 DEF ValidatedStore
  <2>4. \A s \in Sids, g \in Files :
          ValidatedStore(c)[s][g] = IF s = d /\ g = f THEN x ELSE store[s][g]
    <3> HIDE DEF c, f, d, x
    <3> QED
      BY <1>1, <2>1, <2>3
  <2>5. ValidatedStore(c) \in [Sids -> [Files -> ChunkDir \cup {None}]]
    <3> HIDE DEF c, f, d, x
    <3> QED
      BY <1>1, <2>1, <2>2, <2>3
  <2> HIDE DEF c, f, d
  <2> QED
    BY <2>4, <2>5
<1> HIDE DEF Goal
<1> QED
  BY <1>2, <1>3, <1>4

\* What a check saves, and what it goes on with.
LEMMA SaveCheckEffect ==
  ASSUME CheckTypeInv, NEW k \in Checkers, NEW sid \in Sids, NEW t \in Tasks,
         SaveCheck(k, sid, t)
  PROVE  LET c == checks[k]
             reused == Same(c) /\ store[c.read.dir][c.file] # None
         IN  /\ At(k, "save") /\ c.file \in Files /\ c.size \in Sizes
             /\ IF reused THEN sid = c.read.dir ELSE sid \notin issued
             /\ UNCHANGED <<final, sessions, token, tasks, log, conns, jobs, ready, shared,
                            restarts, crossed>>
             /\ issued' = issued \cup {sid}
             /\ store' = ValidatedStore(c)
             /\ \A f \in Files : ~c.needed \/ f # c.file => state'[f] = state[f]
             /\ c.needed => /\ state'[c.file] # None
                            /\ state'[c.file].size = c.size
                            /\ state'[c.file].done = Completed(c)
                            /\ state'[c.file].dir = sid
             /\ \A s \in Sids : s # sid \/ reused \/ ~c.needed => madeFor'[s] = madeFor[s]
             /\ ~reused /\ c.needed => /\ madeFor'[sid] # None
                                       /\ madeFor'[sid].file = c.file
                                       /\ madeFor'[sid].size = c.size
             /\ checks'[k] # None /\ checks'[k].stage = "end"
             /\ checks'[k].file = c.file /\ checks'[k].size = c.size
             /\ checks'[k].needed = c.needed /\ checks'[k].sid = sid
             /\ checks'[k].reused = reused
             /\ \A j \in Checkers : j # k => checks'[j] = checks[j]
<1> USE DEF CheckTypeInv, TypeInv
<1> DEFINE c == checks[k]
           reused == Same(c) /\ store[c.read.dir][c.file] # None
           st == [size |-> c.size, done |-> Completed(c), dir |-> sid, task |-> t]
           made == [file |-> c.file, size |-> c.size]
           x == [file |-> c.file, size |-> c.size, needed |-> c.needed, stage |-> "end",
                 read |-> None, sid |-> sid, task |-> t, done |-> Completed(c),
                 reused |-> reused, cleans |-> IF reused THEN Sids \ {sid} ELSE {}]
<1>1. checks[k] # None /\ At(k, "save")
  BY DEF SaveCheck, At
<1>2. /\ c.file \in Files /\ c.size \in Sizes /\ c.needed \in BOOLEAN
      /\ Completed(c) \subseteq Index
  BY <1>1, CheckFields DEF Completed, Same
<1>3. st \in StateFile /\ st.size = c.size /\ st.done = Completed(c) /\ st.dir = sid
  BY <1>2 DEF StateFile
<1>4. /\ x \in CheckInfo /\ x.stage = "end" /\ x.file = c.file /\ x.size = c.size
      /\ x.needed = c.needed /\ x.sid = sid /\ x.reused = reused
  <2>1. reused \in BOOLEAN
    OBVIOUS
  <2> HIDE DEF reused, c
  <2> QED
    BY <1>2, <2>1 DEF CheckInfo
<1>5. made \in Content /\ made.file = c.file /\ made.size = c.size
  BY <1>2 DEF Content
<1>6. made # None /\ st # None
  BY <1>3, <1>5, NoneIsNoCheck, NoneAssumption
<1>7. /\ IF reused THEN sid = c.read.dir ELSE sid \in Sids \ issued
      /\ state' = IF c.needed THEN [state EXCEPT ![c.file] = st] ELSE state
      /\ store' = ValidatedStore(c)
      /\ issued' = issued \cup {sid}
      /\ madeFor' = IF reused \/ ~c.needed THEN madeFor ELSE [madeFor EXCEPT ![sid] = made]
      /\ checks' = [checks EXCEPT ![k] = x]
      /\ UNCHANGED <<final, sessions, token, tasks, log, conns, jobs, ready, shared,
                     restarts, crossed>>
  BY DEF SaveCheck
<1>8. state \in [Files -> StateFile \cup {None}] /\ madeFor \in [Sids -> Content \cup {None}]
  BY DEF CheckTypeOK, TypeOK
<1> HIDE DEF c, reused, st, made, x
<1>9. checks'[k] = x /\ checks'[k] # None /\ \A j \in Checkers : j # k => checks'[j] = checks[j]
  BY <1>4, <1>7, PutCheck
<1>10. /\ \A f \in Files : ~c.needed \/ f # c.file => state'[f] = state[f]
       /\ c.needed => state'[c.file] = st
  BY <1>2, <1>7, <1>8
<1>11. /\ \A s \in Sids : s # sid \/ reused \/ ~c.needed => madeFor'[s] = madeFor[s]
       /\ ~reused /\ c.needed => madeFor'[sid] = made
  BY <1>7, <1>8
<1>12. /\ c.needed => /\ state'[c.file] # None
                      /\ state'[c.file].size = c.size
                      /\ state'[c.file].done = Completed(c)
                      /\ state'[c.file].dir = sid
       /\ ~reused /\ c.needed => /\ madeFor'[sid] # None
                                 /\ madeFor'[sid].file = c.file
                                 /\ madeFor'[sid].size = c.size
  BY <1>3, <1>5, <1>6, <1>10, <1>11
<1>13. /\ checks'[k].stage = "end"
       /\ checks'[k].file = c.file /\ checks'[k].size = c.size
       /\ checks'[k].needed = c.needed /\ checks'[k].sid = sid
       /\ checks'[k].reused = reused
  BY <1>4, <1>9
<1>14. IF reused THEN sid = c.read.dir ELSE sid \notin issued
  BY <1>7
<1> QED
  BY <1>1, <1>2, <1>7, <1>9, <1>10, <1>11, <1>12, <1>13, <1>14 DEF c, reused

LEMMA SaveCheckType ==
  ASSUME CheckTypeInv, NEW k \in Checkers, NEW sid \in Sids, NEW t \in Tasks,
         SaveCheck(k, sid, t)
  PROVE  CheckTypeInv'
<1> USE DEF CheckTypeInv, TypeInv
<1> DEFINE c == checks[k]
           reused == Same(c) /\ store[c.read.dir][c.file] # None
           st == [size |-> c.size, done |-> Completed(c), dir |-> sid, task |-> t]
           made == [file |-> c.file, size |-> c.size]
           x == [file |-> c.file, size |-> c.size, needed |-> c.needed, stage |-> "end",
                 read |-> None, sid |-> sid, task |-> t, done |-> Completed(c),
                 reused |-> reused, cleans |-> IF reused THEN Sids \ {sid} ELSE {}]
<1>1. checks[k] # None
  BY DEF SaveCheck, At
<1>2. /\ c.file \in Files /\ c.size \in Sizes /\ c.needed \in BOOLEAN
      /\ Completed(c) \subseteq Index
  BY <1>1, CheckFields DEF Completed, Same
<1>3. st \in StateFile /\ made \in Content
  BY <1>2 DEF StateFile, Content
<1>4. x \in CheckInfo
  <2>1. reused \in BOOLEAN
    OBVIOUS
  <2> HIDE DEF reused, c
  <2> QED
    BY <1>2, <2>1 DEF CheckInfo
<1>5. /\ state' = IF c.needed THEN [state EXCEPT ![c.file] = st] ELSE state
      /\ store' = ValidatedStore(c)
      /\ issued' = issued \cup {sid} /\ created' = created \cup {t}
      /\ madeFor' = IF reused \/ ~c.needed THEN madeFor ELSE [madeFor EXCEPT ![sid] = made]
      /\ checks' = [checks EXCEPT ![k] = x]
      /\ UNCHANGED <<final, sessions, token, tasks, log, conns, jobs, ready, shared,
                     restarts, crossed>>
  BY DEF SaveCheck
<1>6. store' \in [Sids -> [Files -> ChunkDir \cup {None}]]
  BY <1>1, <1>5, ValidatedDirs
<1>7. WrittenChunkExists'
  <2>1. ASSUME NEW u \in Sids, NEW g \in Files, NEW i \in Index,
               Open(u, g, i), HasChunk(u, g, i)
        PROVE  HasChunk(u, g, i)'
    <3>1. /\ RemovedDir(u, g) # None /\ RemovedDir(u, g)[i] = store[u][g][i]
          /\ Unlinked(u, g, WrongChunks(g)) # None
          /\ Unlinked(u, g, WrongChunks(g))[i] = store[u][g][i]
      BY <2>1, OpenSurvives
    <3>2. store'[u][g] \in {store[u][g], RemovedDir(u, g), Unlinked(u, g, WrongChunks(g))}
      BY <1>1, <1>5, ValidatedDirs
    <3> QED
      BY <2>1, <3>1, <3>2 DEF HasChunk
  <2> QED
    BY <1>5, <2>1, WrittenChunksKept
<1>8. checks' \in [Checkers -> CheckInfo \cup {None}]
  BY <1>4, <1>5, PutCheck
<1> HIDE DEF c, reused, st, made, x
<1>9. TypeOK' /\ CheckTypeOK'
  BY <1>2, <1>3, <1>5, <1>6, <1>8 DEF TypeOK, CheckTypeOK
<1> QED
  BY <1>7, <1>9

\* The cleanup looks at one directory; it takes away what it has, or nothing.
LEMMA CleanedDirsAre ==
  ASSUME CheckTypeInv, NEW d \in Sids
  PROVE  /\ CleanedDirs(d) \in [Sids -> [Files -> ChunkDir \cup {None}]]
         /\ \A s \in Sids, f \in Files : CleanedDirs(d)[s][f] \in {store[s][f], RemovedDir(s, f)}
         /\ \A s \in Sids : s # d \/ Live(s) => CleanedDirs(d)[s] = store[s]
<1>1. store \in [Sids -> [Files -> ChunkDir \cup {None}]]
  BY DEF CheckTypeInv, TypeInv, TypeOK
<1>2. \A s \in Sids : RemovedDirs(s) \in [Files -> ChunkDir \cup {None}]
  BY RemovedDirType DEF CheckTypeInv, TypeInv, RemovedDirs
<1> QED
  BY <1>1, <1>2 DEF CleanedDirs, RemovedDirs

\* The check stays where it is, with one directory less to look at.
LEMMA CleanCheckEffect ==
  ASSUME CheckTypeInv, NEW k \in Checkers, NEW d \in Sids, CleanCheck(k, d)
  PROVE  /\ At(k, "end") /\ d \in checks[k].cleans
         /\ UNCHANGED <<final, state, sessions, token, tasks, log, conns, jobs, ready, shared,
                        issued, created, restarts, madeFor, crossed>>
         /\ store' = CleanedDirs(d)
         /\ checks'[k] # None /\ checks'[k].stage = "end"
         /\ checks'[k].file = checks[k].file /\ checks'[k].size = checks[k].size
         /\ checks'[k].needed = checks[k].needed /\ checks'[k].sid = checks[k].sid
         /\ checks'[k].reused = checks[k].reused
         /\ \A j \in Checkers : j # k => checks'[j] = checks[j]
         /\ CheckTypeInv'
<1> USE DEF CheckTypeInv, TypeInv
<1> DEFINE x == [checks[k] EXCEPT !.cleans = @ \ {d}]
<1>1. At(k, "end") /\ checks[k] # None /\ checks[k] \in CheckInfo
  BY CheckFields DEF CleanCheck, At
<1>2. /\ x \in CheckInfo /\ x.stage = checks[k].stage /\ x.file = checks[k].file
      /\ x.size = checks[k].size /\ x.needed = checks[k].needed /\ x.sid = checks[k].sid
      /\ x.reused = checks[k].reused
  BY <1>1 DEF CheckInfo
<1>3. /\ d \in checks[k].cleans
      /\ UNCHANGED <<final, state, sessions, token, tasks, log, conns, jobs, ready, shared,
                     issued, created, restarts, madeFor, crossed>>
      /\ store' = CleanedDirs(d)
      /\ checks' = [checks EXCEPT ![k] = x]
  BY DEF CleanCheck
<1> HIDE DEF x
<1>4. /\ checks'[k] = x /\ x # None
      /\ \A j \in Checkers : j # k => checks'[j] = checks[j]
      /\ checks' \in [Checkers -> CheckInfo \cup {None}]
  BY <1>2, <1>3, PutCheck
<1>5. store' \in [Sids -> [Files -> ChunkDir \cup {None}]]
  BY <1>3, CleanedDirsAre
<1>6. TypeOK' /\ CheckTypeOK'
  BY <1>3, <1>4, <1>5 DEF TypeOK, CheckTypeOK
<1>7. WrittenChunkExists'
  <2>1. ASSUME NEW u \in Sids, NEW g \in Files, NEW i \in Index,
               Open(u, g, i), HasChunk(u, g, i)
        PROVE  HasChunk(u, g, i)'
    <3>1. RemovedDir(u, g) # None /\ RemovedDir(u, g)[i] = store[u][g][i]
      BY <2>1, OpenSurvives
    <3>2. store'[u][g] \in {store[u][g], RemovedDir(u, g)}
      BY <1>3, CleanedDirsAre
    <3> QED
      BY <2>1, <3>1, <3>2 DEF HasChunk
  <2> QED
    BY <1>3, <2>1, WrittenChunksKept
<1> QED
  BY <1>1, <1>2, <1>3, <1>4, <1>6, <1>7 DEF At

\* The session that a check inserts.
LEMMA EndCheckEffect ==
  ASSUME CheckTypeInv, NEW k \in Checkers, checks[k].sid \in Sids, NEW t \in Tasks,
         EndCheck(k, t)
  PROVE  LET c == checks[k]
         IN  /\ At(k, "end") /\ c.file \in Files /\ c.size \in Sizes
             /\ UNCHANGED <<final, store, state, conns, jobs, ready, shared, issued, created,
                            restarts, madeFor, crossed>>
             /\ checks'[k] = None
             /\ \A j \in Checkers : j # k => checks'[j] = checks[j]
             /\ sessions'[c.sid] # None /\ sessions'[c.sid].task # None
             /\ \A f \in Files : f # c.file \/ ~c.needed => sessions'[c.sid].files[f] = None
             /\ c.needed => /\ sessions'[c.sid].files[c.file] # None
                            /\ sessions'[c.sid].files[c.file].size = c.size
             /\ \A s \in Sids : s # c.sid =>
                  /\ sessions[s] = None <=> sessions'[s] = None
                  /\ sessions[s] # None => /\ sessions'[s].task = sessions[s].task
                                           /\ sessions'[s].files = sessions[s].files
             /\ CheckTypeInv'
<1> USE DEF CheckTypeInv, TypeInv
<1> DEFINE c == checks[k]
           e == [size |-> c.size, done |-> c.done]
           fs == [f \in Files |-> IF c.needed /\ f = c.file THEN e ELSE None]
           x == [task |-> t, paused |-> FALSE, files |-> fs]
           ss == Notified(sessions, t, FALSE)
<1>1. checks[k] # None /\ At(k, "end")
  BY DEF EndCheck, At
<1>2. c.file \in Files /\ c.size \in Sizes /\ c.done \subseteq Index
  BY <1>1, CheckFields
<1>3. e \in FileEntry /\ e # None /\ e.size = c.size
  BY <1>2, NoneAssumption DEF FileEntry
<1>4. fs \in [Files -> FileEntry \cup {None}]
  BY <1>3
<1>5. x \in Session /\ x # None /\ x.task = t /\ x.files = fs /\ t # None
  <2>1. x \in Session
    BY <1>4 DEF Session
  <2>2. x.task = t /\ x.files = fs
    OBVIOUS
  <2> HIDE DEF x
  <2> QED
    BY <2>1, <2>2, NoneAssumption
<1>6. ss \in [Sids -> Session \cup {None}] /\ SameButPaused(sessions, ss)
  <2>1. sessions \in [Sids -> Session \cup {None}]
    BY DEF TypeOK
  <2> QED
    BY <2>1, NotifiedType, NotifiedKeeps, Zenon
<1>7. /\ sessions' = [ss EXCEPT ![c.sid] = x]
      /\ token' = [token EXCEPT ![t] = c.sid]
      /\ checks' = [checks EXCEPT ![k] = None]
      /\ UNCHANGED <<final, store, state, conns, jobs, ready, shared, issued, created,
                     restarts, madeFor, crossed>>
  BY DEF EndCheck
<1>8. /\ sessions'[c.sid] = x
      /\ \A s \in Sids : s # c.sid => sessions'[s] = ss[s]
      /\ sessions' \in [Sids -> Session \cup {None}]
  <2> HIDE DEF c, x, ss
  <2> QED
    BY <1>5, <1>6, <1>7 DEF c
<1>9. /\ checks'[k] = None
      /\ \A j \in Checkers : j # k => checks'[j] = checks[j]
      /\ checks' \in [Checkers -> CheckInfo \cup {None}]
  BY <1>7, PutCheck
<1>10. tasks' \in [Tasks -> Task \cup {None}] /\ log' \in [Tasks -> LogEntry \cup {None}]
  <2>1. CASE AdoptTask(t, {c.file})
    BY <2>1, SetTaskType DEF AdoptTask, EngineResume
  <2>2. CASE NewTask(t, {c.file})
    <3>1. TaskName({c.file}) \in Name
      <4>1. c.file = CHOOSE f \in Files : {c.file} = {f}
        BY <1>2
      <4> QED
        BY <1>2, <4>1 DEF TaskName, Name
    <3>2. [name |-> TaskName({c.file}), status |-> "Uploading"] \in Task
      BY <3>1 DEF Task
    <3>3. WithoutUnfinished({TaskName({c.file})} \cup {<<"file", f>> : f \in {c.file}})
            \in [Tasks -> Task \cup {None}]
      BY DEF WithoutUnfinished, TypeOK
    <3> QED
      BY <2>2, <3>2, <3>3 DEF NewTask, TypeOK
  <2> QED
    BY <2>1, <2>2 DEF EndCheck
<1>11. token' \in [Tasks -> Sids \cup {None}]
  BY <1>7 DEF TypeOK
<1>13. TypeOK' /\ CheckTypeOK'
  BY <1>7, <1>8, <1>9, <1>10, <1>11 DEF TypeOK, CheckTypeOK
<1>14. WrittenChunkExists'
  BY <1>7 DEF WrittenChunkExists, HasChunk
<1>15. /\ sessions'[c.sid] # None /\ sessions'[c.sid].task # None
       /\ sessions'[c.sid].files = fs
  <2> HIDE DEF x, c
  <2> QED
    BY <1>5, <1>8
<1>16. /\ \A f \in Files : f # c.file \/ ~c.needed => fs[f] = None
       /\ c.needed => fs[c.file] = e
  BY <1>2
<1>17. \A s \in Sids : s # c.sid =>
         /\ sessions[s] = None <=> sessions'[s] = None
         /\ sessions[s] # None => /\ sessions'[s].task = sessions[s].task
                                  /\ sessions'[s].files = sessions[s].files
  <2> HIDE DEF ss, c
  <2> QED
    BY <1>6, <1>8 DEF SameButPaused
<1> HIDE DEF fs, e
<1> QED
  BY <1>1, <1>2, <1>3, <1>7, <1>9, <1>13, <1>14, <1>15, <1>16, <1>17

-----------------------------------------------------------------------------
(* Invariants *)

\* The directory s was made for file f with n chunks.
IsFor(x, f, n)   == x # None /\ x.file = f /\ x.size = n
MadeFor(s, f, n) == IsFor(madeFor[s], f, n)

\* Every id in use was issued.
IssuedIds ==
  /\ \A s \in Sids : madeFor[s] # None \/ sessions[s] # None => s \in issued
  /\ \A k \in Checkers : At(k, "end") => checks[k].sid \in issued
  /\ \A w \in Merges : jobs[w] # None /\ jobs[w].sid # None => jobs[w].sid \in issued

\* Whatever refers to a directory is about the file that it was made for.
KnownDirs ==
  /\ \A f \in Files : state[f] # None => MadeFor(state[f].dir, f, state[f].size)
  /\ \A s \in Sids, f \in Files :
       sessions[s] # None /\ sessions[s].files[f] # None /\ sessions[s].files[f].size # 0 =>
         MadeFor(s, f, sessions[s].files[f].size)
  /\ \A c \in Conns : conns[c] # None =>
       \E n \in Sizes : MadeFor(conns[c].sid, conns[c].file, n) /\ conns[c].index < n
  /\ \A s \in Sids, f \in Files : store[s][f] # None => madeFor[s] # None
  /\ \A k \in Checkers : At(k, "save") /\ checks[k].read # None =>
       /\ checks[k].needed
       /\ MadeFor(checks[k].read.dir, checks[k].file, checks[k].read.size)

\* So does the session that a check is going to insert.
EndsKnown ==
  \A k \in Checkers : At(k, "end") =>
    /\ checks[k].sid # None
    /\ checks[k].needed => MadeFor(checks[k].sid, checks[k].file, checks[k].size)
    /\ ~checks[k].needed => ~checks[k].reused /\ madeFor[checks[k].sid] = None

\* A session knows the file that its directory was made for.
LiveKnow ==
  \A s \in Sids : Live(s) /\ madeFor[s] # None =>
    /\ sessions[s].files[madeFor[s].file] # None
    /\ sessions[s].files[madeFor[s].file].size = madeFor[s].size

\* Nothing uses a directory whose session is still to be inserted.
FreshUnused ==
  \A k \in Checkers : At(k, "end") /\ ~checks[k].reused =>
    /\ sessions[checks[k].sid] = None
    /\ \A f \in Files : store[checks[k].sid][f] = None
    /\ \A c \in Conns : conns[c] # None => conns[c].sid # checks[k].sid
    /\ \A j \in Checkers : j # k /\ At(j, "end") => checks[j].sid # checks[k].sid

\* A session for directory s, which holds nothing, is still to be inserted.
Fresh(s) == \E k \in Checkers : At(k, "end") /\ checks[k].sid = s /\ ~checks[k].reused

\* Without a restart, the directories of state files have sessions, or will have.
DirsAreLiveYet ==
  restarts = 0 =>
    /\ \A f \in Files : state[f] # None /\ state[f].dir \notin crossed =>
         Live(state[f].dir) \/ Fresh(state[f].dir)
    /\ \A k \in Checkers :
         At(k, "save") /\ Same(checks[k]) /\ checks[k].read.dir \notin crossed =>
           Live(checks[k].read.dir) \/ Fresh(checks[k].read.dir)
    /\ \A k \in Checkers :
         At(k, "end") /\ checks[k].reused /\ checks[k].sid \notin crossed =>
           Live(checks[k].sid)

ChecksInv ==
  /\ CheckTypeInv
  /\ IssuedIds
  /\ KnownDirs
  /\ EndsKnown
  /\ LiveKnow
  /\ GhostsAreEmpty
  /\ FreshUnused
  /\ DirsAreLiveYet
  /\ MergeIsAlone

\* The types of what refers to directories.
LEMMA References ==
  ASSUME CheckTypeInv
  PROVE  /\ \A f \in Files : state[f] # None => state[f].dir \in Sids /\ state[f].size \in Sizes
         /\ \A c \in Conns : conns[c] # None =>
              conns[c].sid \in Sids /\ conns[c].file \in Files /\ conns[c].index \in Nat
         /\ \A w \in Merges : jobs[w] # None => jobs[w].sid \in Sids \cup {None}
         /\ \A s \in Sids : madeFor[s] # None =>
              madeFor[s].file \in Files /\ madeFor[s].size \in Sizes
BY ConstantsAssumption
   DEF CheckTypeInv, CheckTypeOK, TypeInv, TypeOK, StateFile, Request, Job, Content, Index

\* A chunk request of a live session is for a chunk that the session knows.
LEMMA RequestKnown ==
  ASSUME CheckTypeInv, KnownDirs, LiveKnow
  PROVE  InFlightChunkKnown
<1> SUFFICES ASSUME NEW c \in Conns, conns[c] # None, Live(conns[c].sid)
             PROVE  LET entry == sessions[conns[c].sid].files[conns[c].file]
                    IN  entry # None /\ conns[c].index < entry.size
  BY DEF InFlightChunkKnown
<1>1. conns[c].sid \in Sids
  BY References
<1>2. PICK n \in Sizes : MadeFor(conns[c].sid, conns[c].file, n) /\ conns[c].index < n
  BY DEF KnownDirs
<1> QED
  BY <1>1, <1>2 DEF LiveKnow, MadeFor, IsFor

\* The files whose state files name the directory of a live session have chunks
\* in that session.
LEMMA NamedIsChunked ==
  ASSUME CheckTypeInv, KnownDirs, LiveKnow, NEW f \in Files, state[f] # None, Live(state[f].dir)
  PROVE  f \in Chunked(state[f].dir)
<1>1. PICK s \in Sids, n \in Sizes : s = state[f].dir /\ n = state[f].size
  BY References
<1>2. madeFor[s] # None /\ madeFor[s].file = f /\ madeFor[s].size = n
  BY <1>1 DEF KnownDirs, MadeFor, IsFor
<1>3. sessions[s].files[f] # None /\ sessions[s].files[f].size = n
  BY <1>1, <1>2 DEF LiveKnow, Live
<1>4. n > 0
  BY ConstantsAssumption
<1> QED
  BY <1>1, <1>3, <1>4 DEF Chunked

-----------------------------------------------------------------------------
(* What the steps between those of a check keep *)

\* What every handler, merge and timer does but for the first call of a chunk
\* request: references are kept or forgotten, and when a session ends, so do the
\* state files of its files.
Keeps ==
  /\ \A f \in Files : state'[f] # None =>
       state[f] # None /\ state'[f].dir = state[f].dir /\ state'[f].size = state[f].size
  /\ \A c \in Conns : conns'[c] # None =>
       /\ conns[c] # None
       /\ conns'[c].sid = conns[c].sid
       /\ conns'[c].file = conns[c].file
       /\ conns'[c].index = conns[c].index
  /\ \A s \in Sids : sessions'[s] # None =>
       sessions[s] # None \/ \E c \in Conns : conns[c] # None /\ conns[c].sid = s
  /\ \A s \in Sids : Live(s)' =>
       /\ Live(s)
       /\ \A f \in Files : sessions[s].files[f] # None =>
            /\ sessions'[s].files[f] # None
            /\ sessions'[s].files[f].size = sessions[s].files[f].size
  /\ \A s \in Sids, f \in Files :
       sessions'[s] # None /\ sessions'[s].files[f] # None /\ sessions'[s].files[f].size # 0 =>
         /\ sessions[s] # None /\ sessions[s].files[f] # None
         /\ sessions'[s].files[f].size = sessions[s].files[f].size
  /\ \A s \in Sids : Live(s) /\ ~Live(s)' => \A f \in Chunked(s) : state'[f] = None
  /\ \A s \in Sids, f \in Files : store'[s][f] # None => store[s][f] # None
  /\ GhostsAreEmpty'
  /\ issued' = issued /\ restarts' = restarts

\* Steps that only forget, and that forget a session with its state files.
ForgetsAll ==
  /\ Forgets
  /\ \A s \in Sids : Live(s) /\ ~Live(s)' => \A f \in Chunked(s) : state'[f] = None
  /\ \A s \in Sids, f \in Files : store'[s][f] # None => store[s][f] # None
  /\ restarts' = restarts

LEMMA ForgetsAllKeeps ==
  ASSUME GhostsAreEmpty, ForgetsAll
  PROVE  Keeps
<1>1. GhostsAreEmpty'
  BY DEF ForgetsAll, Forgets, GhostsAreEmpty, Live
<1>2. \A s \in Sids : Live(s)' => Live(s) /\ sessions'[s] = sessions[s]
  BY DEF ForgetsAll, Forgets, Live
<1>3. \A s \in Sids : sessions'[s] # None => sessions'[s] = sessions[s]
  BY DEF ForgetsAll, Forgets
<1> QED
  BY <1>1, <1>2, <1>3 DEF ForgetsAll, Forgets, Keeps

\* What is removed was there.
LEMMA RemovedWasThere ==
  ASSUME NEW s, NEW f
  PROVE  /\ RemovedDir(s, f) # None => store[s][f] # None
         /\ \A I : Unlinked(s, f, I) # None => store[s][f] # None
BY DEF RemovedDir, Unlinked

LEMMA DiscardKeeps ==
  ASSUME TypeInv, GhostsAreEmpty, NEW s \in Sids, sessions[s] # None, Discard(s)
  PROVE  Keeps
<1>1. Forgets /\ restarts' = restarts
  BY DiscardForgets DEF Discard
<1>2. \A u \in Sids : u # s => sessions'[u] = sessions[u]
  BY DEF Discard, TypeInv, TypeOK
<1>3. \A f \in Chunked(s) : state'[f] = None
  BY DEF Discard, StateWithout, Chunked
<1>4. \A u \in Sids, f \in Files : store'[u][f] # None => store[u][f] # None
  <2>1. store' = store \/ store' = [store EXCEPT ![s] = RemovedDirs(s)]
    BY DEF Discard
  <2>2. \A u \in Sids, f \in Files : store'[u][f] \in {store[u][f], RemovedDir(u, f)}
    BY <2>1 DEF RemovedDirs, TypeInv, TypeOK
  <2> QED
    BY <2>2, RemovedWasThere
<1> QED
  BY <1>1, <1>2, <1>3, <1>4, ForgetsAllKeeps DEF ForgetsAll, Live

LEMMA FinalizeKeeps ==
  ASSUME TypeInv, GhostsAreEmpty, NEW s \in Sids, NEW w \in Merges, UploadFinalize(s, w)
  PROVE  Keeps
<1>1. Forgets /\ \A f \in Chunked(s) : state'[f] = None
  BY UploadFinalizeForgets
<1>2. UNCHANGED <<store, restarts>> /\ \A u \in Sids : u # s => sessions'[u] = sessions[u]
  BY DEF UploadFinalize, TypeInv, TypeOK
<1> QED
  BY <1>1, <1>2, ForgetsAllKeeps DEF ForgetsAll, Live

LEMMA DeleteTaskKeeps ==
  ASSUME TypeInv, GhostsAreEmpty, NEW t \in Tasks, DeleteTask(t)
  PROVE  Keeps
<1>1. Forgets /\ UNCHANGED <<sessions, store, restarts>>
  BY DeleteTaskForgets DEF DeleteTask
<1> QED
  BY <1>1, ForgetsAllKeeps DEF ForgetsAll, Live

LEMMA PublishKeeps ==
  ASSUME TypeInv, GhostsAreEmpty, Publish
  PROVE  Keeps
<1>1. Forgets
  BY PublishForgets
<1>2. UNCHANGED <<sessions, restarts>>
  BY DEF Publish, MergeStep, OpenMerged, CopyMerged, EndMerge, FinalizeReady
<1>3. \A s \in Sids, f \in Files : store'[s][f] # None => store[s][f] # None
  <2>0. store \in [Sids -> [Files -> ChunkDir \cup {None}]]
    BY DEF TypeInv, TypeOK
  <2>1. ASSUME NEW w \in Merges, CopyMerged(w)
        PROVE  \A s \in Sids, f \in Files : store'[s][f] \in {store[s][f], RemovedDir(s, f)}
    <3> DEFINE d == jobs[w].sid
               g == jobs[w].file
    <3>1. store' = store \/ store' = [store EXCEPT ![d][g] = RemovedDir(d, g)]
      BY <2>1 DEF CopyMerged
    <3> HIDE DEF d, g
    <3> QED
      BY <2>0, <3>1
  <2>2. ASSUME NEW w \in Merges, EndMerge(w)
        PROVE  \A s \in Sids, f \in Files : store'[s][f] \in {store[s][f], RemovedDir(s, f), None}
    <3> DEFINE d == jobs[w].sid
               left == IF d = None THEN store ELSE [store EXCEPT ![d] = RemovedDirs(d)]
    <3>1. \A s \in Sids, f \in Files : left[s][f] \in {store[s][f], RemovedDir(s, f)}
      <4> HIDE DEF d
      <4> QED
        BY <2>0 DEF RemovedDirs
    <3>2. \A s \in Sids : store'[s] \in {NoDirs, left[s]}
      BY <2>2 DEF EndMerge
    <3> HIDE DEF left
    <3> QED
      BY <3>1, <3>2 DEF NoDirs
  <2>3. CASE UNCHANGED store
    BY <2>3
  <2> QED
    BY <2>1, <2>2, <2>3, RemovedWasThere
    DEF Publish, MergeStep, OpenMerged, FinalizeReady
<1> QED
  BY <1>1, <1>2, <1>3, ForgetsAllKeeps DEF ForgetsAll, Live

LEMMA PauseKeeps ==
  ASSUME TypeInv, GhostsAreEmpty, PauseStep
  PROVE  Keeps
<1>1. UNCHANGED <<store, state, conns, jobs, issued>> /\ SameButPaused(sessions, sessions')
  BY PauseStepKeeps
<1>2. restarts' = restarts
  BY DEF PauseStep, UploadPause, UploadResume, PauseTask, ResumeTask, AutoPause
<1>3. \A s \in Sids : /\ Live(s)' <=> Live(s)
                      /\ sessions[s] = None <=> sessions'[s] = None
                      /\ sessions[s] # None => sessions'[s].files = sessions[s].files
  BY <1>1 DEF SameButPaused, Live
<1>4. GhostsAreEmpty'
  BY <1>3 DEF GhostsAreEmpty
<1> QED
  BY <1>1, <1>2, <1>3, <1>4 DEF Keeps

LEMMA ReceiveBlockKeepsAll ==
  ASSUME TypeInv, GhostsAreEmpty, NEW c \in Conns, ReceiveBlock(c)
  PROVE  Keeps
<1>1. /\ UNCHANGED <<state, sessions, jobs, issued, restarts>>
      /\ \A e \in Conns : conns'[e] # None =>
           /\ conns[e] # None
           /\ conns'[e].sid = conns[e].sid
           /\ conns'[e].file = conns[e].file
           /\ conns'[e].index = conns[e].index
  BY ReceiveBlockKeeps DEF ReceiveBlock
<1>2. \A s \in Sids, f \in Files : store'[s][f] # None => store[s][f] # None
  <2> DEFINE d == conns[c].sid
             g == conns[c].file
             i == conns[c].index
  <2>1. /\ store \in [Sids -> [Files -> ChunkDir \cup {None}]]
        /\ d \in Sids /\ g \in Files
        /\ store[d][g] # None
    BY DEF TypeInv, TypeOK, WrittenChunkExists, HasChunk, ReceiveBlock, Request
  <2>2. PICK x : store' = [store EXCEPT ![d][g][i] = x]
    BY DEF ReceiveBlock
  <2> HIDE DEF d, g, i
  <2>3. \A s \in Sids, f \in Files : s # d \/ f # g => store'[s][f] = store[s][f]
    BY <2>1, <2>2
  <2> QED
    BY <2>1, <2>3
<1> QED
  BY <1>1, <1>2 DEF Keeps, GhostsAreEmpty, Live

\* The last call of a chunk request: a live session has the entry that the call
\* looks for, and any other gets one without chunks.
LEMMA EndChunkKeeps ==
  ASSUME TypeInv, GhostsAreEmpty, InFlightChunkKnown, NEW c \in Conns, EndChunk(c)
  PROVE  Keeps
<1> DEFINE r == conns[c]
<1>1. /\ r \in Request /\ r # None /\ r.sid \in Sids /\ r.file \in Files
      /\ \A e \in Conns : conns'[e] # None => conns'[e] = conns[e]
      /\ \A s \in Sids : s # r.sid => sessions'[s] = sessions[s]
      /\ \A f \in Files : state'[f] # None =>
           /\ state[f] # None
           /\ state'[f].dir = state[f].dir
           /\ state'[f].size = state[f].size
      /\ UNCHANGED <<issued, store, restarts>>
  BY EndChunkEffect DEF EndChunk, Request
<1>2. /\ sessions'[r.sid] # None
      /\ sessions'[r.sid].task = SessionOf(r).task
      /\ sessions'[r.sid].files[r.file] # None
      /\ sessions'[r.sid].files[r.file].size = EntryOf(r).size
      /\ \A f \in Files : f # r.file => sessions'[r.sid].files[f] = SessionOf(r).files[f]
  BY EndChunkEffect
<1>3. CASE Live(r.sid)
  <2>1. SessionOf(r) = sessions[r.sid] /\ sessions[r.sid].files[r.file] # None
    BY <1>1, <1>3 DEF SessionOf, Live, InFlightChunkKnown
  <2>2. EntryOf(r) = sessions[r.sid].files[r.file]
    BY <2>1 DEF EntryOf
  <2>3. \A s \in Sids : Live(s)' <=> Live(s)
    <3> HIDE DEF r
    <3> QED
      BY <1>1, <1>2, <1>3, <2>1 DEF Live
  <2>4. \A s \in Sids, f \in Files :
          sessions[s] # None =>
            /\ sessions'[s].files[f] # None <=> sessions[s].files[f] # None
            /\ sessions[s].files[f] # None =>
                 sessions'[s].files[f].size = sessions[s].files[f].size
    <3> HIDE DEF r
    <3> QED
      BY <1>1, <1>2, <2>1, <2>2
  <2>5. \A s \in Sids : sessions'[s] # None <=> sessions[s] # None
    <3> HIDE DEF r
    <3> QED
      BY <1>1, <1>2, <1>3 DEF Live
  <2>6. GhostsAreEmpty'
    BY <2>3, <2>4, <2>5 DEF GhostsAreEmpty
  <2> HIDE DEF r
  <2> QED
    BY <1>1, <2>3, <2>4, <2>5, <2>6 DEF Keeps, Live
<1>4. CASE ~Live(r.sid)
  <2>1. SessionOf(r).task = None
    BY <1>4 DEF SessionOf, DefaultSession, Live
  <2>2. \A f \in Files : SessionOf(r).files[f] # None =>
          sessions[r.sid] # None /\ SessionOf(r).files[f].size = 0
    <3> HIDE DEF r
    <3> QED
      BY <1>1, <1>4 DEF SessionOf, DefaultSession, GhostsAreEmpty
  <2>3. EntryOf(r).size = 0
    BY <1>1, <2>2 DEF EntryOf, DefaultEntry
  <2>4. \A s \in Sids : /\ s = r.sid => ~Live(s)'
                        /\ s # r.sid => (Live(s)' <=> Live(s))
    <3> HIDE DEF r
    <3>1. sessions'[r.sid].task = None
      BY <1>2, <2>1
    <3> QED
      BY <1>1, <3>1 DEF Live
  <2>5. \A f \in Files : sessions'[r.sid].files[f] # None => sessions'[r.sid].files[f].size = 0
    <3> HIDE DEF r
    <3> QED
      BY <1>1, <1>2, <2>2, <2>3
  <2>6. GhostsAreEmpty'
    <3> HIDE DEF r
    <3> QED
      BY <1>1, <2>4, <2>5 DEF GhostsAreEmpty, Live
  <2>7. \A s \in Sids : sessions'[s] # None =>
          sessions[s] # None \/ \E e \in Conns : conns[e] # None /\ conns[e].sid = s
    BY <1>1
  <2>8. \A s \in Sids : Live(s)' => Live(s) /\ sessions'[s] = sessions[s]
    <3> HIDE DEF r
    <3> QED
      BY <1>1, <2>4 DEF Live
  <2>9. \A s \in Sids : Live(s) => Live(s)'
    BY <1>4, <2>4
  <2>10. \A s \in Sids, f \in Files :
           sessions'[s] # None /\ sessions'[s].files[f] # None /\ sessions'[s].files[f].size # 0 =>
             /\ sessions[s] # None /\ sessions[s].files[f] # None
             /\ sessions'[s].files[f].size = sessions[s].files[f].size
    <3> HIDE DEF r
    <3> QED
      BY <1>1, <2>5
  <2>11. \A e \in Conns : conns'[e] # None =>
           /\ conns[e] # None
           /\ conns'[e].sid = conns[e].sid
           /\ conns'[e].file = conns[e].file
           /\ conns'[e].index = conns[e].index
    <3> HIDE DEF r
    <3> QED
      BY <1>1
  <2> HIDE DEF r
  <2> QED
    BY <1>1, <2>6, <2>7, <2>8, <2>9, <2>10, <2>11 DEF Keeps
<1> QED
  BY <1>3, <1>4

\* All steps that come between those of a check, with the types after them.
LEMMA BetweenSteps ==
  ASSUME ChecksInv,
         \/ Between(Upload) \/ Between(Finalize) \/ Between(Publish)
         \/ Between(Control) \/ Between(Timers)
  PROVE  /\ CheckTypeInv'
         /\ Upload \/ Finalize \/ Publish \/ Control \/ Timers
         /\ checks' = checks /\ madeFor' = madeFor
         /\ crossed' = crossed \cup Crossing
         /\ \/ Keeps
            \/ \E c \in Conns, s \in Sids, f \in Files, i \in Index, d \in Data :
                 BeginChunk(c, s, f, i, d)
<1>1. /\ Upload \/ Finalize \/ Publish \/ Control \/ Timers
      /\ checks' = checks /\ madeFor' = madeFor
      /\ crossed' = crossed \cup Crossing
  BY DEF Between
<1>2. TypeInv /\ CheckTypeOK /\ GhostsAreEmpty /\ InFlightChunkKnown
  BY RequestKnown DEF ChecksInv, CheckTypeInv
<1>3. TypeInv'
  BY <1>1, <1>2, NextType DEF Next
<1>4. CheckTypeOK'
  BY <1>1, <1>2, <1>3 DEF CheckTypeOK, Crossing, TypeInv
<1>5. Upload => \/ Keeps
                \/ \E c \in Conns, s \in Sids, f \in Files, i \in Index, d \in Data :
                     BeginChunk(c, s, f, i, d)
  BY <1>2, ReceiveBlockKeepsAll, EndChunkKeeps DEF Upload
<1>6. Finalize => Keeps
  BY <1>2, FinalizeKeeps DEF Finalize
<1>7. Publish => Keeps
  BY <1>2, PublishKeeps
<1>8. Control => Keeps
  BY <1>2, DiscardKeeps, PauseKeeps, DeleteTaskKeeps DEF Control, UploadAbort, PauseStep
<1>9. Timers => Keeps
  BY <1>2, DiscardKeeps, PauseKeeps DEF Timers, ExpireSession, PauseStep, Live
<1> QED
  BY <1>1, <1>3, <1>4, <1>5, <1>6, <1>7, <1>8, <1>9 DEF CheckTypeInv

\* What keeps the references keeps the invariants about directories.
LEMMA KeepsInv ==
  ASSUME ChecksInv, Keeps, checks' = checks, madeFor' = madeFor,
         crossed' = crossed \cup Crossing
  PROVE  KnownDirs' /\ EndsKnown' /\ LiveKnow' /\ FreshUnused' /\ DirsAreLiveYet'
<1> USE DEF ChecksInv
<1>1. KnownDirs'
  BY DEF KnownDirs, Keeps, MadeFor, IsFor, At
<1>2. EndsKnown'
  BY DEF EndsKnown, MadeFor, IsFor, At
<1>3. LiveKnow'
  <2> SUFFICES ASSUME NEW s \in Sids, Live(s)', madeFor[s] # None
               PROVE  /\ sessions'[s].files[madeFor[s].file] # None
                      /\ sessions'[s].files[madeFor[s].file].size = madeFor[s].size
    BY DEF LiveKnow
  <2>1. Live(s) /\ madeFor[s].file \in Files
    BY References DEF Keeps
  <2> QED
    BY <2>1 DEF Keeps, LiveKnow
<1>4. FreshUnused'
  <2> SUFFICES ASSUME NEW k \in Checkers, At(k, "end"), ~checks[k].reused
               PROVE  /\ sessions'[checks[k].sid] = None
                      /\ \A f \in Files : store'[checks[k].sid][f] = None
                      /\ \A c \in Conns : conns'[c] # None => conns'[c].sid # checks[k].sid
                      /\ \A j \in Checkers : j # k /\ At(j, "end") => checks[j].sid # checks[k].sid
    BY DEF FreshUnused, At
  <2>1. PICK s \in Sids : s = checks[k].sid
    BY CheckFields DEF EndsKnown, At, CheckTypeInv
  <2>2. /\ sessions[s] = None
        /\ \A f \in Files : store[s][f] = None
        /\ \A c \in Conns : conns[c] # None => conns[c].sid # s
        /\ \A j \in Checkers : j # k /\ At(j, "end") => checks[j].sid # s
    BY <2>1 DEF FreshUnused
  <2> QED
    BY <2>1, <2>2 DEF Keeps
<1>5. DirsAreLiveYet'
  <2> SUFFICES ASSUME restarts = 0
               PROVE  DirsAreLiveYet'
    BY DEF Keeps, DirsAreLiveYet
  <2>1. \A s \in Sids : Fresh(s)' <=> Fresh(s)
    BY DEF Fresh, At
  <2>2. \A s \in Sids, k \in Checkers :
          s \notin crossed' /\ Names(k, s) /\ Live(s) => s \notin crossed /\ Live(s)'
    BY DEF Crossing
  <2>3. ASSUME NEW f \in Files, state'[f] # None, NEW s \in Sids, s = state'[f].dir, s \notin crossed'
        PROVE  Live(s)' \/ Fresh(s)'
    <3>1. state[f] # None /\ s = state[f].dir
      BY <2>3 DEF Keeps
    <3>2. Live(s) => f \in Chunked(s)
      BY <3>1, NamedIsChunked
    <3>3. Live(s) => Live(s)'
      BY <2>3, <3>2 DEF Keeps
    <3>4. Live(s) \/ Fresh(s)
      BY <2>3, <3>1 DEF DirsAreLiveYet
    <3> QED
      BY <2>1, <3>3, <3>4
  <2>4. ASSUME NEW k \in Checkers, At(k, "save"), Same(checks[k]),
               NEW s \in Sids, s = checks[k].read.dir, s \notin crossed'
        PROVE  Live(s)' \/ Fresh(s)'
    <3>1. Names(k, s)
      BY <2>4 DEF Names
    <3>2. Live(s) \/ Fresh(s)
      BY <2>4 DEF DirsAreLiveYet
    <3> QED
      BY <2>1, <2>2, <2>4, <3>1, <3>2
  <2>5. ASSUME NEW k \in Checkers, At(k, "end"), checks[k].reused,
               NEW s \in Sids, s = checks[k].sid, s \notin crossed'
        PROVE  Live(s)'
    <3>1. Names(k, s) /\ Live(s)
      BY <2>5 DEF Names, DirsAreLiveYet
    <3> QED
      BY <2>2, <2>5, <3>1
  <2>6. /\ \A f \in Files : state'[f] # None => state'[f].dir \in Sids
        /\ \A k \in Checkers : At(k, "save") /\ Same(checks[k]) => checks[k].read.dir \in Sids
        /\ \A k \in Checkers : At(k, "end") => checks[k].sid \in Sids
    BY References, CheckFields DEF Keeps, At, Same, EndsKnown, CheckTypeInv
  <2>7. \A k \in Checkers : /\ At(k, "save")' <=> At(k, "save")
                            /\ At(k, "end")' <=> At(k, "end")
                            /\ checks'[k] = checks[k]
    BY DEF At
  <2> HIDE DEF ChecksInv
  <2> QED
    BY <2>3, <2>4, <2>5, <2>6, <2>7, SMTT(30) DEF DirsAreLiveYet, Live, Fresh, At, Same
<1> QED
  BY <1>1, <1>2, <1>3, <1>4, <1>5

\* The first call of a chunk request: it refers to a directory of its session.
LEMMA BeginChunkInv ==
  ASSUME ChecksInv, checks' = checks, madeFor' = madeFor, crossed' = crossed \cup Crossing,
         NEW c \in Conns, NEW s \in Sids, NEW f \in Files, NEW i \in Index, NEW d \in Data,
         BeginChunk(c, s, f, i, d)
  PROVE  /\ IssuedIds' /\ KnownDirs' /\ EndsKnown' /\ LiveKnow' /\ GhostsAreEmpty'
         /\ FreshUnused' /\ DirsAreLiveYet' /\ MergeIsAlone'
<1> USE DEF ChecksInv
<1>1. /\ Accepts(s, f, i)
      /\ UNCHANGED <<final, state, sessions, jobs, issued, restarts>>
      /\ \A e \in Conns : e # c => conns'[e] = conns[e]
      /\ conns'[c].sid = s /\ conns'[c].file = f /\ conns'[c].index = i
  BY DEF BeginChunk, CheckTypeInv, TypeInv, TypeOK
<1>2. \A u \in Sids, g \in Files : store'[u][g] # None => store[u][g] # None \/ u = s
  <2> DEFINE x == [(IF store[s][f] = None THEN EmptyDir ELSE store[s][f]) EXCEPT ![i] = EmptyChunk]
  <2>1. store' = [store EXCEPT ![s][f] = x]
    BY DEF BeginChunk
  <2>2. store \in [Sids -> [Files -> ChunkDir \cup {None}]]
    BY DEF CheckTypeInv, TypeInv, TypeOK
  <2> HIDE DEF x
  <2> QED
    BY <2>1, <2>2
<1>3. /\ sessions[s] # None /\ sessions[s].files[f] # None
      /\ sessions[s].files[f].size # 0 /\ i < sessions[s].files[f].size
      /\ sessions[s].files[f].size \in Nat
  <2>1. /\ sessions[s] # None /\ sessions[s].files[f] # None
        /\ i < sessions[s].files[f].size
    BY <1>1 DEF Accepts
  <2>2. sessions[s].files[f] \in FileEntry
    BY <2>1 DEF CheckTypeInv, TypeInv, TypeOK, Session
  <2>3. i \in Nat /\ sessions[s].files[f].size \in Nat
    BY <2>2, ConstantsAssumption DEF FileEntry, Index
  <2> QED
    BY <2>1, <2>3
<1>4. PICK n \in Sizes : MadeFor(s, f, n) /\ i < n
  <2>1. MadeFor(s, f, sessions[s].files[f].size)
    BY <1>3 DEF KnownDirs
  <2>2. madeFor[s].size \in Sizes
    BY <2>1, References DEF MadeFor, IsFor
  <2> QED
    BY <1>3, <2>1, <2>2 DEF MadeFor, IsFor
<1>5. Crossing = {} /\ crossed' = crossed
  BY <1>1 DEF Crossing, Live
<1>6. IssuedIds'
  BY <1>1 DEF IssuedIds, At
<1>7. KnownDirs'
  <2>1. \A e \in Conns : conns'[e] # None =>
          \E m \in Sizes : MadeFor(conns'[e].sid, conns'[e].file, m) /\ conns'[e].index < m
    BY <1>1, <1>4 DEF KnownDirs
  <2>2. \A u \in Sids, g \in Files : store'[u][g] # None => madeFor[u] # None
    BY <1>2, <1>4 DEF KnownDirs, MadeFor, IsFor
  <2> QED
    BY <1>1, <2>1, <2>2 DEF KnownDirs, MadeFor, IsFor, At
<1>8. EndsKnown' /\ LiveKnow' /\ GhostsAreEmpty'
  BY <1>1 DEF EndsKnown, LiveKnow, GhostsAreEmpty, MadeFor, IsFor, At, Live
<1>9. FreshUnused'
  <2> SUFFICES ASSUME NEW k \in Checkers, At(k, "end"), ~checks[k].reused
               PROVE  /\ sessions'[checks[k].sid] = None
                      /\ \A g \in Files : store'[checks[k].sid][g] = None
                      /\ \A e \in Conns : conns'[e] # None => conns'[e].sid # checks[k].sid
                      /\ \A j \in Checkers : j # k /\ At(j, "end") => checks[j].sid # checks[k].sid
    BY DEF FreshUnused, At
  <2>1. PICK u \in Sids : u = checks[k].sid
    BY CheckFields DEF EndsKnown, At, CheckTypeInv
  <2>2. /\ sessions[u] = None
        /\ \A g \in Files : store[u][g] = None
        /\ \A e \in Conns : conns[e] # None => conns[e].sid # u
        /\ \A j \in Checkers : j # k /\ At(j, "end") => checks[j].sid # u
    BY <2>1 DEF FreshUnused
  <2> QED
    BY <1>1, <1>2, <1>3, <2>1, <2>2
<1>10. DirsAreLiveYet'
  BY <1>1, <1>5 DEF DirsAreLiveYet, Live, Fresh, At, Same
<1>11. MergeIsAlone'
  BY <1>1, <1>5 DEF MergeIsAlone, Live, Names, At, Same
<1> QED
  BY <1>6, <1>7, <1>8, <1>9, <1>10, <1>11

\* Every other step between those of a check uses ids that were issued.
LEMMA KeepsIssued ==
  ASSUME ChecksInv, Keeps, checks' = checks, madeFor' = madeFor,
         \A w \in Merges : jobs'[w] # None /\ jobs'[w].sid # None =>
           \/ jobs[w] # None /\ jobs'[w].sid = jobs[w].sid
           \/ jobs'[w].sid \in Sids /\ Live(jobs'[w].sid)
  PROVE  IssuedIds'
<1>1. \A c \in Conns : conns[c] # None => conns[c].sid \in Sids /\ conns[c].sid \in issued
  BY References DEF ChecksInv, KnownDirs, MadeFor, IsFor, IssuedIds
<1>2. \A s \in Sids : madeFor[s] # None \/ sessions'[s] # None => s \in issued
  BY <1>1 DEF ChecksInv, IssuedIds, Keeps
<1>3. \A w \in Merges : jobs'[w] # None /\ jobs'[w].sid # None => jobs'[w].sid \in issued
  BY DEF ChecksInv, IssuedIds, Live
<1> QED
  BY <1>2, <1>3 DEF ChecksInv, IssuedIds, Keeps, At

\* A step that gives no merge to the pool leaves the merges alone: references
\* are not made by it, sessions are.
LEMMA KeepsMergeAlone ==
  ASSUME ChecksInv, Keeps, NoNewMerge, checks' = checks, crossed \subseteq crossed'
  PROVE  MergeIsAlone'
<1>0. ASSUME NEW w \in Merges, jobs'[w] # None, NEW s, s = jobs'[w].sid, s # None,
             s \notin crossed'
      PROVE  /\ ~Live(s)'
             /\ \A f \in Files : state'[f] # None => state'[f].dir # s
             /\ \A k \in Checkers : ~Names(k, s)'
             /\ \A v \in Merges : v # w /\ jobs'[v] # None => jobs'[v].sid # s
  <2>1. jobs[w] # None /\ jobs[w].sid = s /\ s \notin crossed /\ s \in Sids
    BY <1>0, References DEF NoNewMerge, ChecksInv
  <2>2. /\ ~Live(s)
        /\ \A f \in Files : state[f] # None => state[f].dir # s
        /\ \A k \in Checkers : ~Names(k, s)
        /\ \A v \in Merges : v # w /\ jobs[v] # None => jobs[v].sid # s
    BY <1>0, <2>1 DEF ChecksInv, MergeIsAlone
  <2>3. ~Live(s)' /\ \A f \in Files : state'[f] # None => state'[f].dir # s
    BY <2>1, <2>2 DEF Keeps
  <2>4. \A v \in Merges : v # w /\ jobs'[v] # None => jobs'[v].sid # s
    BY <2>2 DEF NoNewMerge
  <2>5. \A k \in Checkers : ~Names(k, s)'
    BY <2>2 DEF Names, At, Same
  <2> QED
    BY <2>3, <2>4, <2>5
<1> QED
  BY <1>0 DEF MergeIsAlone, Live, Names, At, Same

\* A finalize gives the directory of its session to a merge: the session ends
\* with its state file, and only a check can go on with the directory.
LEMMA FinalizeMergeIsAlone ==
  ASSUME ChecksInv, checks' = checks, crossed' = crossed \cup Crossing,
         NEW s \in Sids, NEW w \in Merges, UploadFinalize(s, w)
  PROVE  MergeIsAlone'
<1>1. /\ Forgets
      /\ sessions'[s] = None
      /\ \A f \in Chunked(s) : state'[f] = None
      /\ \A v \in Merges : v # w => jobs'[v] = jobs[v]
      /\ jobs'[w] # None => jobs'[w].sid = IF Live(s) THEN s ELSE None
      /\ jobs[w] = None
  BY UploadFinalizeForgets DEF ChecksInv, CheckTypeInv, UploadFinalize
<1>2. ASSUME NEW v \in Merges, jobs'[v] # None, NEW u, u = jobs'[v].sid, u # None,
             u \notin crossed'
      PROVE  /\ ~Live(u)'
             /\ \A f \in Files : state'[f] # None => state'[f].dir # u
             /\ \A k \in Checkers : ~Names(k, u)'
             /\ \A x \in Merges : x # v /\ jobs'[x] # None => jobs'[x].sid # u
  <2>1. u \in Sids /\ u \notin crossed /\ ~Live(u)'
    <3>1. CASE v = w
      BY <1>1, <1>2, <3>1 DEF Live
    <3>2. CASE v # w
      <4>1. jobs[v] # None /\ jobs[v].sid = u /\ u \in Sids
        BY <1>1, <1>2, <3>2, References DEF ChecksInv
      <4>2. ~Live(u)
        BY <1>2, <4>1 DEF ChecksInv, MergeIsAlone
      <4> QED
        BY <1>1, <1>2, <4>1, <4>2 DEF Forgets, Live
    <3> QED
      BY <1>2, <3>1, <3>2
  <2>2. CASE v = w
    <3>1. u = s /\ Live(s)
      BY <1>1, <1>2, <2>2
    <3>2. \A k \in Checkers : ~Names(k, s)
      BY <1>1, <1>2, <3>1 DEF Crossing, Live
    <3>3. \A f \in Files : state'[f] # None => state'[f].dir # s
      BY <1>1, <3>1, NamedIsChunked DEF Forgets, ChecksInv
    <3>4. \A x \in Merges : x # w /\ jobs'[x] # None => jobs'[x].sid # s
      <4>1. \A x \in Merges : jobs[x] # None => jobs[x].sid # s
        BY <1>2, <2>1, <3>1, NoneAssumption DEF ChecksInv, MergeIsAlone
      <4> QED
        BY <1>1, <4>1
    <3> QED
      BY <2>1, <2>2, <3>1, <3>2, <3>3, <3>4 DEF Names, At, Same
  <2>3. CASE v # w
    <3>1. jobs[v] # None /\ jobs[v].sid = u
      BY <1>1, <1>2, <2>3
    <3>2. /\ ~Live(u)
          /\ \A f \in Files : state[f] # None => state[f].dir # u
          /\ \A k \in Checkers : ~Names(k, u)
          /\ \A x \in Merges : x # v /\ jobs[x] # None => jobs[x].sid # u
      BY <1>2, <2>1, <3>1 DEF ChecksInv, MergeIsAlone
    <3>3. jobs'[w] # None => jobs'[w].sid # u
      BY <1>1, <1>2, <3>2
    <3> QED
      BY <1>1, <2>1, <3>2, <3>3 DEF Forgets, Names, At, Same
  <2> QED
    BY <2>2, <2>3
<1> QED
  BY <1>2 DEF MergeIsAlone, Live, Names, At, Same

\* Everything that comes between the steps of a check keeps the invariants.
LEMMA BetweenInv ==
  ASSUME ChecksInv,
         \/ Between(Upload) \/ Between(Finalize) \/ Between(Publish)
         \/ Between(Control) \/ Between(Timers)
  PROVE  ChecksInv'
<1>1. /\ CheckTypeInv'
      /\ Upload \/ Finalize \/ Publish \/ Control \/ Timers
      /\ checks' = checks /\ madeFor' = madeFor
      /\ crossed' = crossed \cup Crossing
      /\ \/ Keeps
         \/ \E c \in Conns, s \in Sids, f \in Files, i \in Index, d \in Data :
              BeginChunk(c, s, f, i, d)
  BY BetweenSteps
<1>2. CASE \E c \in Conns, s \in Sids, f \in Files, i \in Index, d \in Data :
             BeginChunk(c, s, f, i, d)
  BY <1>1, <1>2, BeginChunkInv DEF ChecksInv
<1>3. CASE Keeps
  <2>1. KnownDirs' /\ EndsKnown' /\ LiveKnow' /\ FreshUnused' /\ DirsAreLiveYet' /\ GhostsAreEmpty'
    BY <1>1, <1>3, KeepsInv DEF Keeps
  <2>2. NoNewMerge \/ \E s \in Sids, w \in Merges : UploadFinalize(s, w)
    <3> USE DEF ChecksInv, CheckTypeInv
    <3>1. CASE Upload
      BY <3>1, ReceiveBlockKeeps, EndChunkEffect DEF Upload, BeginChunk, NoNewMerge
    <3>2. CASE Control \/ Timers
      BY <3>2, ForgetStepForgets, PauseStepKeeps DEF ForgetStep, NoNewMerge
    <3> QED
      BY <1>1, <3>1, <3>2, PublishForgets DEF Finalize
  <2>3. IssuedIds' /\ MergeIsAlone'
    <3>1. CASE NoNewMerge
      BY <1>1, <1>3, <3>1, KeepsIssued, KeepsMergeAlone DEF NoNewMerge
    <3>2. ASSUME NEW s \in Sids, NEW w \in Merges, UploadFinalize(s, w)
          PROVE  IssuedIds' /\ MergeIsAlone'
      <4>1. MergeIsAlone'
        BY <1>1, <3>2, FinalizeMergeIsAlone
      <4>2. \A v \in Merges : jobs'[v] # None /\ jobs'[v].sid # None =>
              \/ jobs[v] # None /\ jobs'[v].sid = jobs[v].sid
              \/ jobs'[v].sid \in Sids /\ Live(jobs'[v].sid)
        <5>1. /\ \A v \in Merges : v # w => jobs'[v] = jobs[v]
              /\ jobs'[w] # None => jobs'[w].sid = IF Live(s) THEN s ELSE None
          BY <3>2, UploadFinalizeForgets DEF ChecksInv, CheckTypeInv
        <5> QED
          BY <5>1
      <4> QED
        BY <1>1, <1>3, <4>1, <4>2, KeepsIssued
    <3> QED
      BY <2>2, <3>1, <3>2
  <2> QED
    BY <1>1, <2>1, <2>3 DEF ChecksInv
<1> QED
  BY <1>1, <1>2, <1>3

-----------------------------------------------------------------------------
(* What the steps of a check keep *)

LEMMA BeginCheckInv ==
  ASSUME ChecksInv, NEW k \in Checkers, NEW f \in Files, NEW n \in Sizes, BeginCheck(k, f, n)
  PROVE  ChecksInv'
<1> USE DEF ChecksInv
<1>1. /\ CheckTypeInv'
      /\ checks[k] = None
      /\ \A j \in Checkers, stage \in {"save", "end"} : At(j, stage)' => j # k
      /\ \A j \in Checkers : j # k => checks'[j] = checks[j]
      /\ UNCHANGED <<store, state, sessions, conns, jobs, issued, restarts, madeFor, crossed>>
  BY BeginCheckType DEF BeginCheck, At, vars
<1>2. /\ \A j \in Checkers, stage \in {"save", "end"} :
           At(j, stage)' => j # k /\ At(j, stage) /\ checks'[j] = checks[j]
      /\ \A j \in Checkers : At(j, "end") => At(j, "end")' /\ checks'[j] = checks[j]
  BY <1>1 DEF At
<1>3. IssuedIds' /\ EndsKnown' /\ LiveKnow' /\ GhostsAreEmpty'
  BY <1>1, <1>2 DEF IssuedIds, EndsKnown, LiveKnow, GhostsAreEmpty, MadeFor, IsFor, Live
<1>4. KnownDirs'
  BY <1>1, <1>2 DEF KnownDirs, MadeFor, IsFor
<1>5. FreshUnused'
  BY <1>1, <1>2 DEF FreshUnused
<1>6. DirsAreLiveYet'
  BY <1>1, <1>2 DEF DirsAreLiveYet, Fresh, Live, Same
<1>7. MergeIsAlone'
  BY <1>1, <1>2 DEF MergeIsAlone, Names, Live, Same
<1> QED
  BY <1>1, <1>3, <1>4, <1>5, <1>6, <1>7

LEMMA LoadCheckInv ==
  ASSUME ChecksInv, NEW k \in Checkers, LoadCheck(k)
  PROVE  ChecksInv'
<1> USE DEF ChecksInv
<1>1. /\ CheckTypeInv'
      /\ At(k, "load") /\ At(k, "save")'
      /\ checks'[k].file = checks[k].file /\ checks[k].file \in Files
      /\ checks'[k].needed = checks[k].needed
      /\ checks'[k].read # None =>
           checks[k].needed /\ checks'[k].read = state[checks[k].file]
      /\ \A j \in Checkers : j # k => checks'[j] = checks[j]
      /\ UNCHANGED <<store, state, sessions, conns, jobs, issued, restarts, madeFor, crossed>>
  BY LoadCheckType, CheckFields DEF LoadCheck, At, vars, CheckTypeInv
<1>2. /\ \A j \in Checkers : At(j, "end")' <=> At(j, "end")
      /\ \A j \in Checkers : At(j, "end") => j # k /\ checks'[j] = checks[j]
      /\ \A j \in Checkers : j # k /\ At(j, "save")' => At(j, "save")
  BY <1>1 DEF At
<1>3. IssuedIds' /\ EndsKnown' /\ LiveKnow' /\ GhostsAreEmpty'
  BY <1>1, <1>2 DEF IssuedIds, EndsKnown, LiveKnow, GhostsAreEmpty, MadeFor, IsFor, Live
<1>4. KnownDirs'
  BY <1>1, <1>2 DEF KnownDirs, MadeFor, IsFor
<1>5. FreshUnused'
  BY <1>1, <1>2 DEF FreshUnused
<1>6. DirsAreLiveYet'
  BY <1>1, <1>2 DEF DirsAreLiveYet, Fresh, Live, Same
<1>7. MergeIsAlone'
  BY <1>1, <1>2 DEF MergeIsAlone, Names, Live, Same
<1> QED
  BY <1>1, <1>3, <1>4, <1>5, <1>6, <1>7

LEMMA SaveCheckInv ==
  ASSUME ChecksInv, NEW k \in Checkers, NEW sid \in Sids, NEW t \in Tasks,
         SaveCheck(k, sid, t)
  PROVE  ChecksInv'
<1> USE DEF ChecksInv
<1> DEFINE c == checks[k]
           reused == Same(c) /\ store[c.read.dir][c.file] # None
<1>1. /\ c = checks[k]
      /\ reused <=> Same(c) /\ store[c.read.dir][c.file] # None
      /\ At(k, "save") /\ c.file \in Files /\ c.size \in Sizes
      /\ IF reused THEN sid = c.read.dir ELSE sid \notin issued
      /\ UNCHANGED <<final, sessions, token, tasks, log, conns, jobs, ready, shared,
                     restarts, crossed>>
      /\ issued' = issued \cup {sid}
      /\ store' = ValidatedStore(c)
      /\ \A f \in Files : ~c.needed \/ f # c.file => state'[f] = state[f]
      /\ c.needed => /\ state'[c.file] # None
                     /\ state'[c.file].size = c.size
                     /\ state'[c.file].done = Completed(c)
                     /\ state'[c.file].dir = sid
      /\ \A s \in Sids : s # sid \/ reused \/ ~c.needed => madeFor'[s] = madeFor[s]
      /\ ~reused /\ c.needed => /\ madeFor'[sid] # None
                                /\ madeFor'[sid].file = c.file
                                /\ madeFor'[sid].size = c.size
      /\ checks'[k] # None /\ checks'[k].stage = "end"
      /\ checks'[k].file = c.file /\ checks'[k].size = c.size
      /\ checks'[k].needed = c.needed /\ checks'[k].sid = sid
      /\ checks'[k].reused = reused
      /\ \A j \in Checkers : j # k => checks'[j] = checks[j]
  BY SaveCheckEffect
<1> HIDE DEF c, reused
<1>2. CheckTypeInv'
  BY SaveCheckType
<1>3. /\ \A j \in Checkers : At(j, "end")' <=> j = k \/ At(j, "end")
      /\ \A j \in Checkers : At(j, "save")' => At(j, "save") /\ j # k
      /\ ~At(k, "end")
  BY <1>1 DEF At
<1>4. /\ \A s \in Sids : s \in issued => madeFor'[s] = madeFor[s]
      /\ \A s \in Sids : madeFor[s] # None => s \in issued
  BY <1>1 DEF IssuedIds
<1>5. \A s \in Sids, f \in Files : store'[s][f] # None => store[s][f] # None
  <2>1. \A s \in Sids, f \in Files :
          ValidatedStore(c)[s][f] \in {store[s][f], RemovedDir(s, f), Unlinked(s, f, WrongChunks(f))}
    BY <1>1, ValidatedDirs DEF At
  <2> QED
    BY <1>1, <2>1, RemovedWasThere
<1>6. reused => /\ c.needed /\ sid \in issued /\ Names(k, sid)
                /\ MadeFor(sid, c.file, c.size)
                /\ Same(c) /\ store[sid][c.file] # None
  <2> SUFFICES ASSUME reused
               PROVE  /\ c.needed /\ sid \in issued /\ Names(k, sid)
                      /\ MadeFor(sid, c.file, c.size)
                      /\ Same(c) /\ store[sid][c.file] # None
    OBVIOUS
  <2>1. Same(c) /\ sid = c.read.dir /\ store[sid][c.file] # None
    BY <1>1
  <2>2. c.needed /\ MadeFor(sid, c.file, c.size)
    BY <1>1, <2>1 DEF KnownDirs, Same
  <2> QED
    BY <1>1, <1>4, <2>1, <2>2 DEF Names, MadeFor, IsFor
<1>7. c.needed => IsFor(madeFor'[sid], c.file, c.size)
  <2>1. reused => madeFor'[sid] = madeFor[sid]
    BY <1>1
  <2> QED
    BY <1>1, <1>6, <2>1 DEF MadeFor, IsFor
<1>8. \A s \in Sids : \A f, n : MadeFor(s, f, n) => IsFor(madeFor'[s], f, n)
  BY <1>4 DEF MadeFor, IsFor
<1>9. IssuedIds'
  BY <1>1, <1>3, <1>4 DEF IssuedIds
<1>10. KnownDirs'
  <2>1. ASSUME NEW f \in Files, state'[f] # None
        PROVE  IsFor(madeFor'[state'[f].dir], f, state'[f].size)
    <3>1. CASE c.needed /\ f = c.file
      BY <1>1, <1>7, <3>1 DEF MadeFor, IsFor
    <3>2. CASE ~(c.needed /\ f = c.file)
      <4>1. PICK s \in Sids : state'[f] = state[f] /\ s = state[f].dir
        BY <1>1, <2>1, <3>2, References
      <4> QED
        BY <2>1, <4>1, <1>8 DEF KnownDirs, MadeFor, IsFor
    <3> QED
      BY <3>1, <3>2
  <2>2. \A s \in Sids, f \in Files :
          sessions[s] # None /\ sessions[s].files[f] # None /\ sessions[s].files[f].size # 0 =>
            IsFor(madeFor'[s], f, sessions[s].files[f].size)
    BY <1>8 DEF KnownDirs
  <2>3. \A e \in Conns : conns[e] # None =>
          \E n \in Sizes : IsFor(madeFor'[conns[e].sid], conns[e].file, n) /\ conns[e].index < n
    BY <1>1, <1>4, References DEF KnownDirs, MadeFor, IsFor
  <2>4. \A s \in Sids, f \in Files : store'[s][f] # None => madeFor'[s] # None
    BY <1>4, <1>5 DEF KnownDirs
  <2>5. ASSUME NEW j \in Checkers, At(j, "save")', checks'[j].read # None
        PROVE  checks'[j].needed /\ IsFor(madeFor'[checks'[j].read.dir], checks'[j].file, checks'[j].read.size)
    <3>1. At(j, "save") /\ checks'[j] = checks[j]
      BY <1>1, <1>3, <2>5
    <3>2. PICK s \in Sids : s = checks[j].read.dir
      BY <2>5, <3>1, CheckFields DEF At, CheckTypeInv
    <3> QED
      BY <1>8, <2>5, <3>1, <3>2 DEF KnownDirs, MadeFor, IsFor
  <2> QED
    BY <1>1, <2>1, <2>2, <2>3, <2>4, <2>5 DEF KnownDirs, MadeFor, IsFor
<1>11. EndsKnown'
  <2>1. ~c.needed => ~reused /\ madeFor'[sid] = None
    <3>1. ~c.needed => ~reused
      BY <1>6
    <3> QED
      BY <1>1, <1>4, <3>1
  <2>2. ASSUME NEW j \in Checkers, At(j, "end")', j # k
        PROVE  /\ checks'[j].sid # None
               /\ checks'[j].needed => IsFor(madeFor'[checks'[j].sid], checks'[j].file, checks'[j].size)
               /\ ~checks'[j].needed => ~checks'[j].reused /\ madeFor'[checks'[j].sid] = None
    <3>1. At(j, "end") /\ checks'[j] = checks[j]
      BY <1>1, <1>3, <2>2
    <3>2. PICK s \in Sids : s = checks[j].sid /\ s \in issued
      BY <3>1, CheckFields DEF At, EndsKnown, CheckTypeInv, IssuedIds
    <3> QED
      BY <1>4, <3>1, <3>2 DEF EndsKnown, MadeFor, IsFor
  <2>3. sid # None
    BY NoneAssumption
  <2> QED
    BY <1>1, <1>3, <1>7, <2>1, <2>2, <2>3 DEF EndsKnown, MadeFor, IsFor
<1>12. LiveKnow' /\ GhostsAreEmpty'
  <2>1. \A s \in Sids : Live(s) => s \in issued
    BY DEF IssuedIds, Live
  <2> QED
    BY <1>1, <1>4, <2>1 DEF LiveKnow, GhostsAreEmpty, Live
<1>13. FreshUnused'
  <2>1. ASSUME ~reused
        PROVE  /\ sessions[sid] = None
               /\ \A f \in Files : store'[sid][f] = None
               /\ \A e \in Conns : conns[e] # None => conns[e].sid # sid
               /\ \A j \in Checkers : At(j, "end") => checks[j].sid # sid
    <3>1. sid \notin issued /\ madeFor[sid] = None
      BY <1>1, <1>4, <2>1
    <3> QED
      BY <1>5, <3>1 DEF IssuedIds, KnownDirs, MadeFor, IsFor
  <2>2. ASSUME NEW j \in Checkers, At(j, "end"), ~checks[j].reused
        PROVE  /\ sessions[checks[j].sid] = None
               /\ \A f \in Files : store'[checks[j].sid][f] = None
               /\ \A e \in Conns : conns[e] # None => conns[e].sid # checks[j].sid
               /\ \A i \in Checkers : i # j /\ At(i, "end") => checks[i].sid # checks[j].sid
               /\ checks[j].sid # sid
    <3>1. PICK s \in Sids : s = checks[j].sid /\ s \in issued
      BY <2>2, CheckFields DEF At, EndsKnown, CheckTypeInv, IssuedIds
    <3>2. /\ sessions[s] = None
          /\ \A f \in Files : store[s][f] = None
          /\ \A e \in Conns : conns[e] # None => conns[e].sid # s
          /\ \A i \in Checkers : i # j /\ At(i, "end") => checks[i].sid # s
      BY <2>2, <3>1 DEF FreshUnused
    <3>3. s # sid
      BY <1>1, <1>6, <3>1, <3>2
    <3> QED
      BY <1>5, <3>1, <3>2, <3>3
  <2> QED
    BY <1>1, <1>3, <2>1, <2>2 DEF FreshUnused
<1>14. DirsAreLiveYet'
  <2> SUFFICES ASSUME restarts = 0
               PROVE  DirsAreLiveYet'
    BY <1>1 DEF DirsAreLiveYet
  <2>1. \A s \in Sids : Fresh(s) => Fresh(s)'
    BY <1>1, <1>3 DEF Fresh
  <2>2. ~reused => Fresh(sid)'
    BY <1>1, <1>3 DEF Fresh
  <2>3. reused /\ sid \notin crossed => Live(sid)
    <3>1. ~reused \/ ~Fresh(sid)
      BY <1>1, <1>6 DEF Fresh, FreshUnused
    <3> QED
      BY <1>1, <1>6, <3>1 DEF DirsAreLiveYet
  <2>4. \A s \in Sids : Live(s)' <=> Live(s)
    BY <1>1 DEF Live
  <2>5. ASSUME NEW f \in Files, state'[f] # None, NEW s \in Sids, s = state'[f].dir, s \notin crossed
        PROVE  Live(s) \/ Fresh(s)'
    <3>1. CASE c.needed /\ f = c.file
      BY <1>1, <2>2, <2>3, <2>5, <3>1
    <3>2. CASE ~(c.needed /\ f = c.file)
      <4>1. state'[f] = state[f]
        BY <1>1, <3>2
      <4> QED
        BY <2>1, <2>5, <4>1 DEF DirsAreLiveYet
    <3> QED
      BY <3>1, <3>2
  <2>6. ASSUME NEW j \in Checkers, At(j, "save")', Same(checks'[j]), NEW s \in Sids,
               s = checks'[j].read.dir, s \notin crossed
        PROVE  Live(s) \/ Fresh(s)'
    <3>1. At(j, "save") /\ checks'[j] = checks[j]
      BY <1>1, <1>3, <2>6
    <3> QED
      BY <2>1, <2>6, <3>1 DEF DirsAreLiveYet
  <2>7. ASSUME NEW j \in Checkers, At(j, "end")', checks'[j].reused, NEW s \in Sids,
               s = checks'[j].sid, s \notin crossed
        PROVE  Live(s)
    <3>1. CASE j = k
      BY <1>1, <2>3, <2>7, <3>1
    <3>2. CASE j # k
      <4>1. At(j, "end") /\ checks'[j] = checks[j]
        BY <1>1, <1>3, <2>7, <3>2
      <4> QED
        BY <2>7, <4>1 DEF DirsAreLiveYet
    <3> QED
      BY <3>1, <3>2
  <2>8. /\ \A f \in Files : state'[f] # None => state'[f].dir \in Sids
        /\ \A j \in Checkers : At(j, "save")' /\ Same(checks'[j]) => checks'[j].read.dir \in Sids
        /\ \A j \in Checkers : At(j, "end")' => checks'[j].sid \in Sids
    <3>1. \A f \in Files : state'[f] # None => state'[f].dir \in Sids
      BY <1>1, References
    <3>2. \A j \in Checkers : At(j, "save") /\ Same(checks[j]) => checks[j].read.dir \in Sids
      BY CheckFields DEF At, Same, CheckTypeInv
    <3>3. \A j \in Checkers : At(j, "end") => checks[j].sid \in Sids
      BY CheckFields DEF At, EndsKnown, CheckTypeInv
    <3> QED
      BY <1>1, <1>3, <3>1, <3>2, <3>3
  <2> HIDE DEF ChecksInv
  <2> QED
    BY <1>1, <2>4, <2>5, <2>6, <2>7, <2>8 DEF DirsAreLiveYet, Live, Fresh, Same
<1>15. MergeIsAlone'
  <2> SUFFICES ASSUME NEW w \in Merges, NEW d \in Sids, jobs[w] # None, d = jobs[w].sid,
                      d # None, d \notin crossed
               PROVE  /\ \A f \in Files : state'[f] # None => state'[f].dir # d
                      /\ \A j \in Checkers : ~Names(j, d)'
    BY <1>1, References DEF MergeIsAlone, Live, Names, At, Same
  <2>1. /\ \A f \in Files : state[f] # None => state[f].dir # d
        /\ \A j \in Checkers : ~Names(j, d)
        /\ d \in issued
    BY DEF MergeIsAlone, IssuedIds
  <2>2. d # sid
    BY <1>1, <1>6, <2>1
  <2>3. \A f \in Files : state'[f] # None => state'[f].dir # d
    BY <1>1, <2>1, <2>2
  <2>4. \A j \in Checkers : j # k => ~Names(j, d)'
    BY <1>1, <2>1 DEF Names, At, Same
  <2>5. ~Names(k, d)'
    BY <1>1, <2>2 DEF Names, At
  <2> QED
    BY <2>3, <2>4, <2>5
<1> QED
  BY <1>2, <1>9, <1>10, <1>11, <1>12, <1>13, <1>14, <1>15

LEMMA CleanCheckInv ==
  ASSUME ChecksInv, NEW k \in Checkers, NEW d \in Sids, CleanCheck(k, d)
  PROVE  ChecksInv'
<1> USE DEF ChecksInv
<1>1. /\ At(k, "end") /\ d \in checks[k].cleans
      /\ UNCHANGED <<final, state, sessions, token, tasks, log, conns, jobs, ready, shared,
                     issued, created, restarts, madeFor, crossed>>
      /\ store' = CleanedDirs(d)
      /\ checks'[k] # None /\ checks'[k].stage = "end"
      /\ checks'[k].file = checks[k].file /\ checks'[k].size = checks[k].size
      /\ checks'[k].needed = checks[k].needed /\ checks'[k].sid = checks[k].sid
      /\ checks'[k].reused = checks[k].reused
      /\ \A j \in Checkers : j # k => checks'[j] = checks[j]
      /\ CheckTypeInv'
  BY CleanCheckEffect
<1>2. /\ \A j \in Checkers : \A stage : At(j, stage)' <=> At(j, stage)
      /\ \A j \in Checkers : At(j, "save") => checks'[j] = checks[j]
      /\ \A j \in Checkers : At(j, "end") =>
           /\ checks'[j].file = checks[j].file /\ checks'[j].size = checks[j].size
           /\ checks'[j].needed = checks[j].needed /\ checks'[j].sid = checks[j].sid
           /\ checks'[j].reused = checks[j].reused
      /\ \A s \in Sids : Live(s)' <=> Live(s)
  BY <1>1 DEF At, Live
<1>3. \A s \in Sids, f \in Files : store'[s][f] # None => store[s][f] # None
  <2>1. \A s \in Sids, f \in Files : store'[s][f] \in {store[s][f], RemovedDir(s, f)}
    BY <1>1, CleanedDirsAre
  <2> QED
    BY <2>1, RemovedWasThere
<1>4. IssuedIds'
  BY <1>1, <1>2 DEF IssuedIds
<1>5. KnownDirs' /\ EndsKnown'
  BY <1>1, <1>2, <1>3 DEF KnownDirs, EndsKnown, MadeFor
<1>6. LiveKnow' /\ GhostsAreEmpty'
  BY <1>1, <1>2 DEF LiveKnow, GhostsAreEmpty
<1>7. FreshUnused'
  <2> SUFFICES ASSUME NEW j \in Checkers, At(j, "end"), ~checks[j].reused
               PROVE  /\ sessions[checks[j].sid] = None
                      /\ \A f \in Files : store'[checks[j].sid][f] = None
                      /\ \A e \in Conns : conns[e] # None => conns[e].sid # checks[j].sid
                      /\ \A i \in Checkers : i # j /\ At(i, "end") =>
                           checks[i].sid # checks[j].sid
    BY <1>1, <1>2 DEF FreshUnused
  <2>1. checks[j].sid \in Sids
    BY CheckFields DEF At, EndsKnown, CheckTypeInv
  <2> QED
    BY <1>3, <2>1 DEF FreshUnused
<1>8. \A s : Fresh(s)' <=> Fresh(s)
  BY <1>2 DEF Fresh
<1>9. DirsAreLiveYet'
  <2> SUFFICES ASSUME restarts = 0
               PROVE  DirsAreLiveYet'
    BY <1>1 DEF DirsAreLiveYet
  <2>1. /\ \A f \in Files : state[f] # None => state[f].dir \in Sids
        /\ \A j \in Checkers : At(j, "save") /\ Same(checks[j]) => checks[j].read.dir \in Sids
        /\ \A j \in Checkers : At(j, "end") => checks[j].sid \in Sids
    BY References, CheckFields DEF At, Same, EndsKnown, CheckTypeInv
  <2> HIDE DEF ChecksInv
  <2>2. DirsAreLiveYet
    BY DEF ChecksInv
  <2> QED
    BY <1>1, <1>2, <1>8, <2>1, <2>2 DEF DirsAreLiveYet, Same
<1>10. MergeIsAlone'
  <2>1. \A j \in Checkers, s \in Sids : Names(j, s)' <=> Names(j, s)
    BY <1>2 DEF Names, Same
  <2> QED
    BY <1>1, <1>2, <2>1, References DEF MergeIsAlone
<1> QED
  BY <1>1, <1>4, <1>5, <1>6, <1>7, <1>9, <1>10

LEMMA EndCheckInv ==
  ASSUME ChecksInv, NEW k \in Checkers, NEW t \in Tasks, EndCheck(k, t)
  PROVE  ChecksInv'
<1> USE DEF ChecksInv
<1> DEFINE c == checks[k]
<1>1. At(k, "end") /\ checks[k].sid \in Sids
  BY CheckFields DEF EndCheck, At, EndsKnown, CheckTypeInv
<1>2. /\ c = checks[k]
      /\ c.file \in Files
      /\ UNCHANGED <<final, store, state, conns, jobs, ready, shared, issued, created,
                     restarts, madeFor, crossed>>
      /\ checks'[k] = None
      /\ \A j \in Checkers : j # k => checks'[j] = checks[j]
      /\ sessions'[c.sid] # None /\ sessions'[c.sid].task # None
      /\ \A f \in Files : f # c.file \/ ~c.needed => sessions'[c.sid].files[f] = None
      /\ c.needed => /\ sessions'[c.sid].files[c.file] # None
                     /\ sessions'[c.sid].files[c.file].size = c.size
      /\ \A s \in Sids : s # c.sid =>
           /\ sessions[s] = None <=> sessions'[s] = None
           /\ sessions[s] # None => /\ sessions'[s].task = sessions[s].task
                                    /\ sessions'[s].files = sessions[s].files
      /\ CheckTypeInv'
  BY <1>1, EndCheckEffect
<1> HIDE DEF c
<1>3. PICK u \in Sids : u = c.sid
  BY <1>1, <1>2
<1>4. /\ \A j \in Checkers : \A stage : At(j, stage)' <=> j # k /\ At(j, stage)
      /\ \A j \in Checkers : j # k => checks'[j] = checks[j]
  BY <1>2 DEF At
<1>5. \A s \in Sids : /\ s = u => Live(s)'
                      /\ s # u => (Live(s)' <=> Live(s))
  BY <1>2, <1>3 DEF Live
<1>6. /\ c.needed => IsFor(madeFor[u], c.file, c.size)
      /\ ~c.needed => madeFor[u] = None
      /\ u \in issued
  BY <1>1, <1>2, <1>3 DEF EndsKnown, MadeFor, IssuedIds
<1>7. IssuedIds'
  BY <1>2, <1>3, <1>4, <1>6 DEF IssuedIds
<1>8. KnownDirs'
  <2>1. ASSUME NEW s \in Sids, NEW f \in Files, sessions'[s] # None,
               sessions'[s].files[f] # None, sessions'[s].files[f].size # 0
        PROVE  IsFor(madeFor[s], f, sessions'[s].files[f].size)
    <3>1. CASE s = u
      BY <1>2, <1>3, <1>6, <2>1, <3>1
    <3>2. CASE s # u
      BY <1>2, <1>3, <2>1, <3>2 DEF KnownDirs, MadeFor
    <3> QED
      BY <3>1, <3>2
  <2> QED
    BY <1>2, <1>4, <2>1 DEF KnownDirs, MadeFor
<1>9. EndsKnown'
  BY <1>2, <1>4 DEF EndsKnown, MadeFor
<1>10. LiveKnow' /\ GhostsAreEmpty'
  <2>1. LiveKnow'
    <3> SUFFICES ASSUME NEW s \in Sids, Live(s)', madeFor[s] # None
                 PROVE  /\ sessions'[s].files[madeFor[s].file] # None
                        /\ sessions'[s].files[madeFor[s].file].size = madeFor[s].size
      BY <1>2 DEF LiveKnow
    <3>1. CASE s = u
      BY <1>2, <1>3, <1>6, <3>1 DEF IsFor
    <3>2. CASE s # u
      BY <1>2, <1>3, <1>5, <3>2 DEF LiveKnow, Live
    <3> QED
      BY <3>1, <3>2
  <2>2. GhostsAreEmpty'
    BY <1>2, <1>3, <1>5 DEF GhostsAreEmpty
  <2> QED
    BY <2>1, <2>2
<1>11. FreshUnused'
  <2> SUFFICES ASSUME NEW j \in Checkers, j # k, At(j, "end"), ~checks[j].reused
               PROVE  /\ sessions'[checks[j].sid] = None
                      /\ \A f \in Files : store'[checks[j].sid][f] = None
                      /\ \A e \in Conns : conns[e] # None => conns[e].sid # checks[j].sid
                      /\ \A i \in Checkers : i # j /\ i # k /\ At(i, "end") =>
                           checks[i].sid # checks[j].sid
    BY <1>2, <1>4 DEF FreshUnused
  <2>1. PICK s \in Sids : s = checks[j].sid
    BY CheckFields DEF At, EndsKnown, CheckTypeInv
  <2>2. /\ sessions[s] = None
        /\ \A f \in Files : store[s][f] = None
        /\ \A e \in Conns : conns[e] # None => conns[e].sid # s
        /\ \A i \in Checkers : i # j /\ At(i, "end") => checks[i].sid # s
    BY <2>1 DEF FreshUnused
  <2>3. s # u
    BY <1>1, <1>2, <1>3, <2>2
  <2> QED
    BY <1>2, <1>3, <2>1, <2>2, <2>3
<1>12. DirsAreLiveYet'
  <2> SUFFICES ASSUME restarts = 0
               PROVE  DirsAreLiveYet'
    BY <1>2 DEF DirsAreLiveYet
  <2>1. \A s \in Sids : Live(s) => Live(s)'
    BY <1>5
  <2>2. \A s \in Sids : Fresh(s) => Fresh(s)' \/ Live(s)'
    BY <1>2, <1>3, <1>4, <1>5 DEF Fresh
  <2>3. /\ \A f \in Files : state[f] # None => state[f].dir \in Sids
        /\ \A j \in Checkers : At(j, "save") /\ Same(checks[j]) => checks[j].read.dir \in Sids
        /\ \A j \in Checkers : At(j, "end") => checks[j].sid \in Sids
    BY References, CheckFields DEF At, Same, EndsKnown, CheckTypeInv
  <2>4. ASSUME NEW f \in Files, state[f] # None, NEW s \in Sids, s = state[f].dir, s \notin crossed
        PROVE  Live(s)' \/ Fresh(s)'
    BY <2>1, <2>2, <2>4 DEF DirsAreLiveYet
  <2>5. ASSUME NEW j \in Checkers, At(j, "save"), Same(checks[j]), NEW s \in Sids,
               s = checks[j].read.dir, s \notin crossed
        PROVE  Live(s)' \/ Fresh(s)'
    BY <2>1, <2>2, <2>5 DEF DirsAreLiveYet
  <2>6. ASSUME NEW j \in Checkers, At(j, "end"), checks[j].reused, NEW s \in Sids,
               s = checks[j].sid, s \notin crossed
        PROVE  Live(s)'
    BY <2>1, <2>6 DEF DirsAreLiveYet
  <2> HIDE DEF ChecksInv
  <2> QED
    BY <1>2, <1>4, <2>3, <2>4, <2>5, <2>6 DEF DirsAreLiveYet, Live, Fresh, Same
<1>13. MergeIsAlone'
  <2> SUFFICES ASSUME NEW w \in Merges, NEW d \in Sids, jobs[w] # None, d = jobs[w].sid,
                      d # None, d \notin crossed
               PROVE  /\ ~Live(d)'
                      /\ \A j \in Checkers : ~Names(j, d)'
    BY <1>2, References DEF MergeIsAlone, Live, Names, At, Same
  <2>1. ~Live(d) /\ \A j \in Checkers : ~Names(j, d)
    BY DEF MergeIsAlone
  <2>2. d # u
    BY <1>1, <1>2, <1>3, <2>1 DEF Names
  <2>3. \A j \in Checkers : ~Names(j, d)'
    BY <1>4, <2>1 DEF Names, Same
  <2> QED
    BY <1>5, <2>1, <2>2, <2>3
<1> QED
  BY <1>2, <1>7, <1>8, <1>9, <1>10, <1>11, <1>12, <1>13

\* A start forgets sessions, requests, merges and checks.
LEMMA RestartAmidChecksInv ==
  ASSUME ChecksInv, RestartAmidChecks
  PROVE  ChecksInv'
<1> USE DEF ChecksInv
<1>1. PICK l, Old, Torn : Restart(l, Old, Torn)
  BY DEF RestartAmidChecks, Shutdown, Crash
<1>2. /\ checks' = [k \in Checkers |-> None]
      /\ UNCHANGED <<madeFor, crossed>>
      /\ Restarts
  BY DEF RestartAmidChecks, Restarts
<1>3. TypeInv'
  BY <1>2, NextType DEF CheckTypeInv, Next
<1>4. CheckTypeInv'
  BY <1>2, <1>3 DEF CheckTypeInv, CheckTypeOK, TypeInv
<1>5. /\ \A f \in Files : state'[f] \in {None, state[f]}
      /\ \A s \in Sids, f \in Files : store'[s][f] # None => store'[s][f] = store[s][f]
      /\ \A s \in Sids : sessions'[s] = None
      /\ \A c \in Conns : conns'[c] = None
      /\ \A w \in Merges : jobs'[w] = None
      /\ restarts' # 0
      /\ issued' = issued
  <2>1. restarts \in Nat
    BY ConstantsAssumption DEF CheckTypeInv, TypeInv, TypeOK
  <2> QED
    BY <1>1, <2>1 DEF Restart, StateWithout
<1>6. \A k \in Checkers : \A stage : ~At(k, stage)'
  BY <1>2 DEF At
<1>7. IssuedIds' /\ EndsKnown' /\ LiveKnow' /\ GhostsAreEmpty' /\ FreshUnused'
  BY <1>2, <1>5, <1>6 DEF IssuedIds, EndsKnown, LiveKnow, GhostsAreEmpty, FreshUnused, Live
<1>8. KnownDirs'
  BY <1>2, <1>5, <1>6 DEF KnownDirs, MadeFor
<1>9. DirsAreLiveYet' /\ MergeIsAlone'
  BY <1>5 DEF DirsAreLiveYet, MergeIsAlone
<1> QED
  BY <1>4, <1>7, <1>8, <1>9

LEMMA InitChecksInv == ChecksInit => ChecksInv
<1> SUFFICES ASSUME ChecksInit
             PROVE  ChecksInv
  OBVIOUS
<1>1. CheckTypeInv
  BY InitType DEF ChecksInit, CheckTypeInv, CheckTypeOK, TypeInv
<1>2. \A k \in Checkers : \A stage : ~At(k, stage)
  BY DEF ChecksInit, At
<1>3. \A s \in Sids, f \in Files : store[s][f] = None
  BY DEF ChecksInit, Init, NoDirs
<1> QED
  BY <1>1, <1>2, <1>3
  DEF ChecksInit, Init, ChecksInv, IssuedIds, KnownDirs, EndsKnown, LiveKnow, GhostsAreEmpty,
      FreshUnused, DirsAreLiveYet, MergeIsAlone, Live

LEMMA NextChecksInv ==
  ASSUME ChecksInv, [ChecksNext]_checkVars
  PROVE  ChecksInv'
<1>1. CASE CheckStep
  BY <1>1, BeginCheckInv, LoadCheckInv, SaveCheckInv, CleanCheckInv, EndCheckInv DEF CheckStep
<1>2. CASE RestartAmidChecks
  BY <1>2, RestartAmidChecksInv
<1>3. CASE \/ Between(Upload) \/ Between(Finalize) \/ Between(Publish)
           \/ Between(Control) \/ Between(Timers)
  BY <1>3, BetweenInv
<1>4. CASE UNCHANGED checkVars
  <2>1. CheckTypeInv'
    BY <1>4 DEF checkVars, vars, ChecksInv, CheckTypeInv, CheckTypeOK, TypeInv, TypeOK,
                WrittenChunkExists, HasChunk
  <2> QED
    BY <1>4, <2>1
    DEF checkVars, vars, ChecksInv, IssuedIds, KnownDirs, EndsKnown, LiveKnow, GhostsAreEmpty,
        FreshUnused, DirsAreLiveYet, MergeIsAlone, MadeFor, Live, Fresh, Names, At, Same
<1> QED
  BY <1>1, <1>2, <1>3, <1>4 DEF ChecksNext

-----------------------------------------------------------------------------
(* What follows from the invariants *)

\* Every check, chunk directory, session and request is well formed, whatever
\* handlers do to each other.
THEOREM ChecksAreTyped == ChecksSpec => []CheckTypeOK
<1>1. ChecksInv /\ [ChecksNext]_checkVars => ChecksInv'
  BY NextChecksInv
<1>2. ChecksInv => CheckTypeOK
  BY DEF ChecksInv, CheckTypeInv
<1> QED
  BY <1>1, <1>2, InitChecksInv, PTL DEF ChecksSpec

\* The worker that merges an upload and then deletes its directory is the only
\* one that still refers to it, but for a check that had loaded the state file
\* before the session ended.
THEOREM MergesAreAlone == ChecksSpec => []MergeIsAlone
<1>1. ChecksInv /\ [ChecksNext]_checkVars => ChecksInv'
  BY NextChecksInv
<1>2. ChecksInv => MergeIsAlone
  BY DEF ChecksInv
<1> QED
  BY <1>1, <1>2, InitChecksInv, PTL DEF ChecksSpec

\* The last call of a chunk request for a live session, which does not check its
\* index again, stays in the list, whatever checks have replaced the session.
THEOREM InFlightChunksKnown == ChecksSpec => []InFlightChunkKnown
<1>1. ChecksInv /\ [ChecksNext]_checkVars => ChecksInv'
  BY NextChecksInv
<1>2. ChecksInv => InFlightChunkKnown
  BY RequestKnown DEF ChecksInv
<1> QED
  BY <1>1, <1>2, InitChecksInv, PTL DEF ChecksSpec

\* No step of a merge removes a chunk that a session counts as completed,
\* whatever handlers do meanwhile, but for the directories of that exception.
THEOREM MergesSpareChunks == ChecksSpec => MergeSparesChunks
<1>1. ChecksInv /\ [ChecksNext]_checkVars => ChecksInv'
  BY NextChecksInv
<1> DEFINE Spares ==
      (\E w \in Merges : MergeStep(w)) =>
        \A s \in Sids \ crossed, f \in Files : Live(s) /\ sessions[s].files[f] # None =>
          \A i \in sessions[s].files[f].done : HasChunk(s, f, i) => HasChunk(s, f, i)'
<1>2. ASSUME ChecksInv
      PROVE  Spares
  <2> SUFFICES ASSUME NEW w \in Merges, MergeStep(w), NEW s \in Sids, s \notin crossed,
                      Live(s), NEW f \in Files
               PROVE  store'[s][f] = store[s][f]
    BY DEF HasChunk
  <2>1. ASSUME NEW g \in Files, OpenMerged(w, g)
        PROVE  store'[s][f] = store[s][f]
    BY <2>1 DEF OpenMerged
  <2>2. CASE CopyMerged(w) \/ EndMerge(w)
    <3> DEFINE d == jobs[w].sid
    <3>1. jobs[w] # None /\ d # s
      BY <1>2, <2>2, NoneAssumption DEF CopyMerged, EndMerge, ChecksInv, MergeIsAlone
    <3>2. store \in [Sids -> [Files -> ChunkDir \cup {None}]]
      BY <1>2 DEF ChecksInv, CheckTypeInv, TypeInv, TypeOK
    <3>3. CASE CopyMerged(w)
      <4>1. \/ store' = store
            \/ store' = [store EXCEPT ![d][jobs[w].file] = RemovedDir(d, jobs[w].file)]
        BY <3>3 DEF CopyMerged
      <4> HIDE DEF d
      <4> QED
        BY <3>1, <3>2, <4>1
    <3>4. CASE EndMerge(w)
      <4> DEFINE left == IF d = None THEN store ELSE [store EXCEPT ![d] = RemovedDirs(d)]
      <4>1. left[s] = store[s]
        <5> HIDE DEF d
        <5> QED
          BY <3>1, <3>2
      <4>2. store'[s] = left[s]
        BY <3>4 DEF EndMerge, Live
      <4> QED
        BY <4>1, <4>2
    <3> QED
      BY <2>2, <3>3, <3>4
  <2> QED
    BY <2>1, <2>2 DEF MergeStep
<1> QED
  BY <1>1, <1>2, InitChecksInv, PTL DEF ChecksSpec, MergeSparesChunks

\* A check that saves its state file leaves the whole chunks of the others.
LEMMA SaveCheckSpares ==
  ASSUME ChecksInv, NEW k \in Checkers, NEW sid \in Sids, NEW t \in Tasks, SaveCheck(k, sid, t),
         NEW f \in Files, state[f] # None, state'[f] = state[f],
         NEW s \in Sids, s = state[f].dir, NEW i \in state[f].done, HasSize(s, f, i, Blocks)
  PROVE  HasChunk(s, f, i)'
<1> DEFINE c == checks[k]
<1>1. /\ At(k, "save") /\ c.file \in Files
      /\ store' = ValidatedStore(c)
      /\ c.needed => state'[c.file].done = Completed(c)
  BY SaveCheckEffect DEF ChecksInv
<1>2. checks[k] # None
  BY <1>1 DEF At
<1>3. store \in [Sids -> [Files -> ChunkDir \cup {None}]] /\ state[f].done \subseteq Index
  BY DEF ChecksInv, CheckTypeInv, TypeInv, TypeOK, StateFile
<1>4. CASE f # c.file
  BY <1>1, <1>2, <1>4, ValidatedDirs DEF ChecksInv, HasSize, HasChunk
<1>5. CASE f = c.file /\ Same(c)
  <2>1. store' = [store EXCEPT ![s][f] = Unlinked(s, f, WrongChunks(f))]
    BY <1>1, <1>5 DEF ValidatedStore
  <2>2. store'[s][f] = Unlinked(s, f, WrongChunks(f))
    BY <1>3, <2>1
  <2>3. i \notin WrongChunks(f) /\ store[s][f] # None /\ store[s][f][i] # None
    BY DEF WrongChunks, HasSize, HasChunk
  <2>4. Unlinked(s, f, WrongChunks(f)) \in ChunkDir \cup {None}
    BY UnlinkedType DEF ChecksInv, CheckTypeInv, TypeInv
  <2>5. /\ Unlinked(s, f, WrongChunks(f)) # None
        /\ Unlinked(s, f, WrongChunks(f))[i] = store[s][f][i]
    <3>1. Unlinked(s, f, WrongChunks(f)) =
            [j \in Index |-> IF j \in WrongChunks(f) /\ ~Open(s, f, j) THEN None
                                                                       ELSE store[s][f][j]]
      BY <2>3 DEF Unlinked
    <3>2. Unlinked(s, f, WrongChunks(f)) \in ChunkDir
      <4>1. store[s][f] \in [Index -> ChunkFile \cup {None}]
        BY <1>3, <2>3 DEF ChunkDir
      <4> QED
        BY <3>1, <4>1 DEF ChunkDir
    <3> QED
      BY <1>3, <2>3, <3>1, <3>2, NoneAssumption
  <2> QED
    BY <2>2, <2>3, <2>5 DEF HasChunk
<1>6. CASE f = c.file /\ ~Same(c) /\ c.read = None
  <2>1. store' = store
    BY <1>1, <1>6 DEF ValidatedStore
  <2> QED
    BY <2>1 DEF HasSize, HasChunk
<1>7. CASE f = c.file /\ ~Same(c) /\ c.read # None
  <2>1. c.needed
    BY <1>1, <1>7 DEF ChecksInv, KnownDirs
  <2>2. state[f].done = {}
    BY <1>1, <1>7, <2>1 DEF Completed
  <2> QED
    BY <2>2
<1> QED
  BY <1>4, <1>5, <1>6, <1>7

\* So does its cleanup, as long as no start has forgotten the sessions.
LEMMA CleanCheckSpares ==
  ASSUME ChecksInv, restarts = 0, NEW k \in Checkers, NEW d \in Sids, CleanCheck(k, d),
         NEW f \in Files, state[f] # None,
         NEW s \in Sids, s = state[f].dir, s \notin crossed,
         NEW i \in state[f].done, HasSize(s, f, i, Blocks)
  PROVE  HasChunk(s, f, i)'
<1>1. store' = CleanedDirs(d)
  BY DEF CleanCheck
<1>2. CASE Live(s)
  BY <1>1, <1>2, CleanedDirsAre DEF ChecksInv, HasSize, HasChunk
<1>3. CASE ~Live(s)
  <2>1. Fresh(s)
    BY <1>3 DEF ChecksInv, DirsAreLiveYet
  <2>2. store[s][f] = None
    BY <2>1 DEF ChecksInv, Fresh, FreshUnused
  <2> QED
    BY <2>2 DEF HasSize, HasChunk
<1> QED
  BY <1>2, <1>3

\* Until a restart, no step of a check takes away a whole chunk that the state
\* file of another upload counts, whatever comes between the steps.
THEOREM ChecksSpareChunks == ChecksSpec => CheckSparesChunks
<1>1. ChecksInv /\ [ChecksNext]_checkVars => ChecksInv'
  BY NextChecksInv
<1> DEFINE Spares ==
      checks' # checks /\ restarts' = 0 =>
        \A f \in Files :
          state[f] # None /\ state'[f] = state[f] /\ state[f].dir \notin crossed =>
            \A i \in state[f].done : HasSize(state[f].dir, f, i, Blocks) =>
              HasChunk(state[f].dir, f, i)'
<1>2. ASSUME ChecksInv, [ChecksNext]_checkVars
      PROVE  Spares
  <2> SUFFICES ASSUME checks' # checks, restarts' = 0, NEW f \in Files, state[f] # None,
                      state'[f] = state[f], state[f].dir \notin crossed,
                      NEW i \in state[f].done, HasSize(state[f].dir, f, i, Blocks)
               PROVE  HasChunk(state[f].dir, f, i)'
    OBVIOUS
  <2>1. PICK s \in Sids : s = state[f].dir
    BY <1>2, References DEF ChecksInv
  <2>2. CheckStep
    <3>1. ~RestartAmidChecks
      <4>1. restarts \in Nat
        BY <1>2, ConstantsAssumption DEF ChecksInv, CheckTypeInv, TypeInv, TypeOK
      <4>2. ASSUME RestartAmidChecks
            PROVE  restarts' = restarts + 1
        BY <4>2 DEF RestartAmidChecks, Shutdown, Crash, Restart
      <4> QED
        BY <4>1, <4>2
    <3> QED
      BY <1>2, <3>1 DEF ChecksNext, Between, checkVars
  <2>3. HasChunk(s, f, i)'
    <3>1. ASSUME NEW k \in Checkers, NEW g \in Files, NEW n \in Sizes, BeginCheck(k, g, n)
          PROVE  HasChunk(s, f, i)'
      BY <2>1, <3>1 DEF BeginCheck, vars, HasSize, HasChunk
    <3>2. ASSUME NEW k \in Checkers, LoadCheck(k)
          PROVE  HasChunk(s, f, i)'
      BY <2>1, <3>2 DEF LoadCheck, vars, HasSize, HasChunk
    <3>3. ASSUME NEW k \in Checkers, NEW sid \in Sids, NEW t \in Tasks, SaveCheck(k, sid, t)
          PROVE  HasChunk(s, f, i)'
      BY <1>2, <2>1, <3>3, SaveCheckSpares
    <3>4. ASSUME NEW k \in Checkers, NEW d \in Sids, CleanCheck(k, d)
          PROVE  HasChunk(s, f, i)'
      <4>1. restarts = 0
        BY <3>4 DEF CleanCheck
      <4> QED
        BY <1>2, <2>1, <3>4, <4>1, CleanCheckSpares
    <3>5. ASSUME NEW k \in Checkers, NEW t \in Tasks, EndCheck(k, t)
          PROVE  HasChunk(s, f, i)'
      BY <2>1, <3>5 DEF EndCheck, HasSize, HasChunk
    <3> QED
      BY <2>2, <3>1, <3>2, <3>3, <3>4, <3>5 DEF CheckStep
  <2> QED
    BY <2>1, <2>3 DEF HasChunk
<1> QED
  BY <1>1, <1>2, InitChecksInv, PTL DEF ChecksSpec, CheckSparesChunks
=============================================================================
