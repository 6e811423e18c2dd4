----------------------------- MODULE UploadSystem -----------------------------
(***************************************************************************)
(* NetShare's upload service together with the pages that use it: every    *)
(* request of UploadServer comes from a browser that runs ReceivePage, and *)
(* the transfer list of the user interface pauses, resumes and deletes     *)
(* upload tasks.  No shipped page calls /api/upload/abort, pause or resume.*)
(***************************************************************************)
EXTENDS UploadServer

CONSTANTS
  Browsers,      \* the pages
  Picks,         \* Picks[b]: what the user of page b may select
  Length,        \* Length[b][f]: the number of chunks of file f in browser b
  Content,       \* Content[b]: what the files of browser b contain
  MaxConcurrent, \* requests of a file that a page makes at a time (3 in the page)
  Rounds,        \* further tries for the failed chunks of a file (3 in the page)
  Events         \* what may happen besides: a subset of AllEvents

AllEvents ==
  {"cut",         \* a connection breaks before the body of its request arrived
   "stall",       \* the body of a request stops arriving for thirty seconds
   "lost",        \* a connection breaks before the answer to its request arrived
   "reload",      \* a page is loaded again when no merge is left,
   "again",       \* or at any time
   "disconnect",  \* the WebSocket of a page is gone for ten seconds
   "pause",       \* the user pauses and resumes tasks,
   "delete",      \* or deletes them
   "inactive",    \* a task makes no progress for three minutes
   "expire",      \* a session is two hours old
   "stop",        \* the application is closed and started again
   "crash"}       \* the application crashes and is started again

ASSUME SystemAssumption ==
  /\ Picks \in [Browsers -> SUBSET Selections]
  /\ \A b \in Browsers : \A S \in Picks[b] :      \* a retry is for a part of it
       (SUBSET S) \ {{}} \subseteq Selections
  /\ Length \in [Browsers -> [Files -> Sizes]]
  /\ Content \in [Browsers -> Data]
  /\ MaxConcurrent \in Nat \ {0}
  /\ Rounds \in Nat
  /\ Events \subseteq AllEvents

VARIABLES
  pages,  \* the pages, and
  wire,   \* the requests they wait for (ReceivePage)
  mail    \* the pages to which a pause_upload message is on its way

Client == INSTANCE ReceivePage

ASSUME NoneIsNoMark == None \notin Client!Chosen \cup Client!Request

sysVars == <<vars, pages, wire, mail>>

SystemTypeOK ==
  /\ Client!PageTypeOK
  /\ mail \subseteq Browsers

SystemInit ==
  /\ Init
  /\ Client!PageInit
  /\ mail = {}

\* Nothing is left of what finalize started.
Idle == ready = <<>> /\ \A w \in Merges : jobs[w] = None

-----------------------------------------------------------------------------
(* Requests *)

\* A check of the files S lists their sizes; its reply says which of them exist,
\* and the chunks of the others that the server has.
Lengths(b, S)  == [f \in S |-> Length[b][f]]
Existing(b, S) == S \ Needed(S, Lengths(b, S))
Have(b, S) ==
  [f \in Files |-> IF f \in S \ Existing(b, S)
                   THEN CheckedFiles(S, Lengths(b, S))[f].done ELSE {}]

StartUpload(b) ==
  \E S \in Picks[b], s0 \in Sids, t0, t \in Tasks :
    /\ UploadCheck(S, Lengths(b, S), s0, t0, t)
    /\ Client!Start(b, S, ChosenSid(S, Lengths(b, S), s0), Existing(b, S), Have(b, S))
    /\ UNCHANGED mail

RetryFailed(b) ==
  LET S == pages[b].failed
  IN  \E s0 \in Sids, t0, t \in Tasks :
        /\ UploadCheck(S, Lengths(b, S), s0, t0, t)
        /\ Client!Retry(b, ChosenSid(S, Lengths(b, S), s0), Existing(b, S), Have(b, S))
        /\ UNCHANGED mail

\* The answers of handleStreamingFileUpload to a request it does not take:
\* 409 for a paused session, 200 for a chunk that it has, 400 otherwise.
Refuses(s) == sessions[s] # None /\ sessions[s].paused
Knows(s, f, i) ==
  /\ sessions[s] # None
  /\ sessions[s].files[f] # None
  /\ i < sessions[s].files[f].size
Has(s, f, i) == Knows(s, f, i) /\ i \in sessions[s].files[f].done

\* A chunk is sent: the server takes the request or answers at once.
SendChunk(b, f, i) ==
  LET s == pages[b].sid
  IN  /\ Client!Due(b, f, i)
      /\ \/ \E c \in Conns : BeginChunk(c, s, f, i, Content[b]) /\ Client!Send(b, f, i, c)
         \/ Refuses(s) /\ Client!Refused(b, f, i) /\ UNCHANGED vars
         \/ ~Refuses(s) /\ Has(s, f, i) /\ Client!Skipped(b, f, i) /\ UNCHANGED vars
         \/ ~Refuses(s) /\ ~Knows(s, f, i) /\ Client!Rejected(b, f, i) /\ UNCHANGED vars
      /\ UNCHANGED mail

\* A block of a request's body arrives at the server.
ReceiveData(c) == ReceiveBlock(c) /\ UNCHANGED <<pages, wire, mail>>

\* The server's last call, and its answer if the connection is still there.
AnswerChunk(c) ==
  /\ EndChunk(c)
  /\ conns[c].received < Blocks => wire[c] = None \/ "stall" \in Events
  /\ IF wire[c] = None THEN UNCHANGED <<pages, wire>>
     ELSE IF ChunkAccepted(conns[c]) THEN Client!Answered(c)
     ELSE Client!Failed(c)
  /\ UNCHANGED mail

\* The page's connection breaks: the server notices later.
LoseConnection(c) ==
  /\ conns[c] # None
  /\ \/ "lost" \in Events /\ conns[c].received = Blocks
     \/ "cut" \in Events
  /\ Client!Failed(c)
  /\ UNCHANGED <<vars, mail>>

\* The request was lost in a restart of the application.
ConnectionGone(c) ==
  /\ conns[c] = None
  /\ Client!Failed(c)
  /\ UNCHANGED <<vars, mail>>

FinalizeUpload(b) ==
  /\ pages[b].phase = "finalizing"
  /\ Client!Finalized(b)
  /\ IF sessions[pages[b].sid] = None THEN UNCHANGED vars
     ELSE \E w \in Merges : UploadFinalize(pages[b].sid, w)
  /\ UNCHANGED mail

-----------------------------------------------------------------------------
(* The pages by themselves, and the messages of the application *)

PageStep(b) ==
  /\ \/ \E f \in Files : \/ Client!TakeFile(b, f)
                         \/ Client!NextRound(b, f)
                         \/ Client!EndFile(b, f)
     \/ Client!EndCall(b)
  /\ UNCHANGED <<vars, mail>>

PauseMessage(b) ==
  /\ b \in mail
  /\ mail' = mail \ {b}
  /\ Client!PauseUpload(b)
  /\ UNCHANGED vars

DisconnectPage(b) ==
  /\ "disconnect" \in Events
  /\ Client!Disconnected(b)
  /\ UNCHANGED <<vars, mail>>

\* Requests whose body is still on its way are cut by a reload.
ReloadPage(b) ==
  /\ "reload" \in Events
  /\ "again" \in Events \/ Idle
  /\ \A c \in Conns : wire[c] # None /\ wire[c].page = b /\ conns[c] # None =>
       conns[c].received = Blocks \/ "cut" \in Events
  /\ Client!Reload(b)
  /\ mail' = mail \ {b}
  /\ UNCHANGED vars

\* taskPaused is broadcast to the pages that subscribed to the task's session.
Subscribers(t) == {b \in Browsers : token[t] # None /\ pages[b].sid = token[t]}

UserStep(t) ==
  /\ \/ "pause" \in Events /\ PauseTask(t) /\ mail' = mail \cup Subscribers(t)
     \/ "pause" \in Events /\ ResumeTask(t) /\ UNCHANGED mail
     \/ "delete" \in Events /\ DeleteTask(t) /\ UNCHANGED mail
     \/ "inactive" \in Events /\ AutoPause(t) /\ mail' = mail \cup Subscribers(t)
  /\ UNCHANGED <<pages, wire>>

ServerStep ==
  /\ \/ Publish
     \/ "expire" \in Events /\ \E s \in Sids : ExpireSession(s)
  /\ UNCHANGED <<pages, wire, mail>>

RestartStep ==
  /\ \/ "stop" \in Events /\ Shutdown({})
     \/ "crash" \in Events /\ Crash({}, {})
  /\ mail' = {}
  /\ UNCHANGED <<pages, wire>>

SystemNext ==
  \/ \E b \in Browsers :
       \/ StartUpload(b) \/ RetryFailed(b) \/ FinalizeUpload(b)
       \/ \E f \in Files, i \in Index : SendChunk(b, f, i)
       \/ PageStep(b) \/ PauseMessage(b) \/ DisconnectPage(b) \/ ReloadPage(b)
  \/ \E c \in Conns :
       ReceiveData(c) \/ AnswerChunk(c) \/ LoseConnection(c) \/ ConnectionGone(c)
  \/ \E t \in Tasks : UserStep(t)
  \/ ServerStep
  \/ RestartStep

SystemSpec == SystemInit /\ [][SystemNext]_sysVars

-----------------------------------------------------------------------------
(* Properties *)

\* Every file of the selection of page b is in the upload directory, whole.
Stored(b) ==
  \A f \in Files : pages[b].status[f] # None =>
    final[f] = [size |-> Length[b][f], data |-> Content[b]]

\* A page that tells its user that the files were sent tells the truth: when
\* the merges have ended, the files are there with their content.  (finalize
\* of receive.html shows sent_count on any answer of handleUploadFinalize,
\* which answers before it looks at the chunks.)  Holds of one page that checks
\* one file at a time, with the events "lost", "reload", "disconnect", "pause"
\* and "inactive" (UploadSystemProofs), and with none of the others.
SentIsStored ==
  \A b \in Browsers : pages[b].phase = "sent" /\ Idle => Stored(b)

\* An upload that the transfer list shows as completed is in the upload
\* directory, whole, unless a merge is at work.  (onUploadFinalizeReady
\* completes the task of every merge, whatever came of its files.)  Holds
\* where SentIsStored does.
CompletedIsStored ==
  Idle => \A t \in Tasks, f \in Files :
    tasks[t] # None /\ tasks[t].status = "Completed" /\ tasks[t].name = <<"file", f>> =>
      \E b \in Browsers : final[f] = [size |-> Length[b][f], data |-> Content[b]]

\* No two tasks of the transfer list are unfinished uploads of the same name:
\* a check adopts or replaces the old one, and a start restores only one.
OneTaskPerName ==
  \A t, u \in Tasks :
    /\ tasks[t] # None /\ tasks[t].status \in {"Uploading", "Paused"}
    /\ tasks[u] # None /\ tasks[u].status \in {"Uploading", "Paused"}
    /\ tasks[t].name = tasks[u].name
    => t = u

\* A page whose upload came to an end with files left offers to try again.
\* (The pause text and the disconnection text ask the user to do so.)
CanGoOn ==
  \A b \in Browsers : pages[b].phase = "over" => pages[b].retry /\ pages[b].failed # {}

\* Without interference every upload that is started is sent and stored, also
\* when several pages share the connections and the pool.
StartedIsSent ==
  \A b \in Browsers :
    pages[b].phase = "run" ~> pages[b].phase = "sent" /\ Idle /\ Stored(b)

\* Scripts run, requests are carried and answered, and the application merges.
SystemFairness ==
  /\ \A b \in Browsers : /\ WF_sysVars(PageStep(b))
                         /\ WF_sysVars(FinalizeUpload(b))
                         /\ \A f \in Files, i \in Index : SF_sysVars(SendChunk(b, f, i))
  /\ \A c \in Conns : WF_sysVars(ReceiveData(c)) /\ WF_sysVars(AnswerChunk(c))
  /\ WF_sysVars(Publish /\ UNCHANGED <<pages, wire, mail>>)

FairSystemSpec == SystemSpec /\ SystemFairness
=============================================================================
