----------------------------- MODULE NetShareApp -----------------------------
(***************************************************************************)
(* The life of the application: what NetShareApplication starts in which   *)
(* order, the registration that may delay the server, the certificate it   *)
(* makes, and the end, when the main thread stops the parts one by one     *)
(* while worker threads and tasks of the thread pool are still busy.       *)
(***************************************************************************)
EXTENDS Registration

CONSTANTS
  Workers,   \* threads of the server
  MaxCerts,  \* bound on the certificates that are made
  None

ASSUME AppAssumption ==
  /\ MaxCerts \in Nat \ {0}
  /\ None \notin 1..MaxCerts
  /\ None \notin {"created", "running", "stopped"}

VARIABLES
  main,     \* what the main thread does
  round,    \* how often the application has begun to stop
  db,       \* the database is open
  server,   \* m_civetServer
  window,   \* whether the window has the chat and the server, None without one
  tls,      \* the server uses the certificate
  certs,    \* the certificate and the key in the files, by number
  made,     \* the number of the last certificate
  paths,    \* the settings name the files
  work,     \* what each worker does
  tasks,    \* the engine has a task that is not finished and not in the log
  job,      \* a merge is in the thread pool
  mail      \* the step of sending a mail

appVars == <<main, round, db, server, window, tls, certs, made, paths, work, tasks, job, mail>>
vars == <<authVars, appVars>>

Starts == {"database", "auth", "window"}
Making == {"clear", "key", "cert", "listen"}  \* the certificate, and the server
Files == {"cert", "key"}

\* Mutant: the tasks are stopped while requests still come.
MutStops == <<"tasks", "server", "close">>

\* shutdown: "joining", for the threads of the server, follows "server".
Stops == <<"server", "tasks", "close">>
Stopping == Range(Stops) \cup {"joining", "deleted"}

\* What the mail server has to answer, with the connection and the text, and
\* how the mail may end.
SmtpSteps == 11
Sent == SmtpSteps + 1
NotSent == SmtpSteps + 2

AppTypeOK ==
  /\ AuthTypeOK
  /\ main \in {"off", "loop"} \cup Starts \cup Making \cup Stopping
  /\ round \in 0..3
  /\ db \in BOOLEAN /\ tls \in BOOLEAN /\ paths \in BOOLEAN
  /\ main \in {"auth", "window", "loop"} \cup Making => db
  /\ server \in {None, "created", "running", "stopped"}
  /\ window \in BOOLEAN \cup {None}
  /\ certs \in [Files -> 1..MaxCerts \cup {None}] /\ made \in 0..MaxCerts
  /\ work \in [Workers -> {"idle", "busy", "calling"}]
  /\ tasks \in BOOLEAN /\ job \in BOOLEAN
  /\ mail \in 0..NotSent \cup {None}

AppInit ==
  /\ AuthInit
  /\ main = "off" /\ round = 0 /\ db = FALSE /\ server = None /\ window = None
  /\ tls = FALSE /\ certs = [f \in Files |-> None] /\ made = 0 /\ paths = FALSE
  /\ work = [w \in Workers |-> "idle"] /\ tasks = FALSE /\ job = FALSE /\ mail = None

certVars == <<certs, made, paths>>
others == <<work, tasks, job, mail>>  \* what the main thread does not change alone

-----------------------------------------------------------------------------
(* The start, in the main thread *)

Launch ==
  /\ main = "off"
  /\ main' = "database"
  /\ UNCHANGED <<authVars, round, db, server, window, tls, certVars, others>>

\* An application that could not start has its destructor stop it.
Fail == main' = Stops[1] /\ round' = 3

\* Mutant: it goes on without the database.
MutOpen == main' = "auth" /\ db' \in BOOLEAN /\ UNCHANGED round

Open ==
  \/ main' = "auth" /\ db' = TRUE /\ UNCHANGED round
  \/ Fail /\ db' \in BOOLEAN

\* Opened with its tables, or not; the settings and services cannot fail.
initializeDatabase ==
  /\ main = "database"
  /\ Open
  /\ UNCHANGED <<authVars, server, window, tls, certVars, others>>

\* initializeNetworkServer, up to the certificate: a pair is made if the
\* settings name none and there is none where it is kept.
BeginServer ==
  IF ~token'
    THEN UNCHANGED <<server, tls>> /\ IF window = None THEN Fail ELSE UNCHANGED <<main, round>>
    ELSE /\ server' = "created"
         /\ \E enabled \in BOOLEAN :
              LET exist == \A f \in Files : certs[f] # None
              IN  /\ tls' = (enabled /\ exist)
                  /\ main' = IF enabled /\ ~exist /\ ~paths THEN "clear" ELSE "listen"
         /\ UNCHANGED round

\* Users of any kind have the server from the start.
initializeAuth ==
  /\ main = "auth"
  /\ IF isRegistered \/ isTrialMode
       THEN generateSecurityToken /\ BeginServer
       ELSE main' = "window" /\ UNCHANGED <<round, token, server, tls>>
  /\ UNCHANGED <<users, machine, asking, db, window, certVars, others>>

\* Mutant: files of an earlier attempt stay.
MutCleared == certs

Cleared == [f \in Files |-> None]

\* openssl writes the key and then the certificate; it may fail or be killed at
\* any moment, and what there is of the key is removed.
generateSelfSignedCert ==
  /\ \/ main = "clear" /\ certs' = Cleared /\ main' = "key" /\ UNCHANGED <<made, paths, tls>>
     \/ /\ main = "key" /\ made < MaxCerts
        /\ made' = made + 1
        /\ certs' = [certs EXCEPT !.key = made']
        /\ main' = "cert"
        /\ UNCHANGED <<paths, tls>>
     \/ /\ main = "cert"
        /\ certs' = [certs EXCEPT !.cert = made]
        /\ paths' = TRUE /\ tls' = TRUE
        /\ main' = "listen"
        /\ UNCHANGED made
     \/ /\ main \in {"key", "cert"}
        /\ \E cert \in {certs.cert} \cup (IF main = "cert" THEN {made} ELSE {}) :
             certs' = [cert |-> cert, key |-> None]
        /\ main' = "listen"
        /\ UNCHANGED <<made, paths, tls>>
  /\ UNCHANGED <<authVars, round, db, server, window, others>>

\* The port may be in use.
start ==
  /\ main = "listen"
  /\ \/ /\ tls => certs.cert = certs.key
        /\ server' = "running"
        /\ main' = IF window = None THEN "window" ELSE "loop"
        /\ UNCHANGED round
     \/ /\ UNCHANGED server
        /\ IF window = None THEN Fail ELSE main' = "loop" /\ UNCHANGED round
  /\ UNCHANGED <<authVars, db, window, tls, certVars, others>>

\* The window is given what there is now of chat and server, for good.
initializeQml ==
  /\ main = "window"
  /\ main' = "loop"
  /\ \/ window' = (server # None) /\ asking' = AsksAtStart
     \/ UNCHANGED <<window, asking>>
  /\ UNCHANGED <<users, machine, token, round, db, server, tls, certVars, others>>

-----------------------------------------------------------------------------
(* Registration, in the event loop *)

\* Only a server that was never created is started.
onRegistrationCompleted ==
  IF server = None THEN BeginServer ELSE UNCHANGED <<main, round, server, tls>>

Register ==
  /\ main = "loop" /\ window # None
  /\ enterTrialMode \/ \E name \in Names : registerUser(name)
  /\ onRegistrationCompleted
  /\ UNCHANGED <<db, window, certVars, others>>

UseSettings ==
  /\ main = "loop" /\ window # None
  /\ clearRegistration \/ openRegister
  /\ UNCHANGED appVars

sendRegistrationEmail ==
  /\ main = "loop" /\ asking /\ mail = None
  /\ mail' = 0
  /\ UNCHANGED <<authVars, main, round, db, server, window, tls, certVars, work, tasks, job>>

\* Mutant: a step that fails ends the task without a word.
MutStepFailed == NotSent + 1

StepFailed == NotSent

\* The task in the thread pool; each step may fail or time out, but for the last
\* one, QUIT, whose answer is not looked at.
SmtpStep ==
  /\ mail \in 0..SmtpSteps
  /\ \/ mail' = mail + 1
     \/ mail < SmtpSteps /\ mail' = StepFailed
  /\ UNCHANGED <<authVars, main, round, db, server, window, tls, certVars, work, tasks, job>>

\* The page hears of the end and the button can be pressed again.
HearMail ==
  /\ main = "loop"
  /\ mail \in {Sent, NotSent}
  /\ mail' = None
  /\ UNCHANGED <<authVars, main, round, db, server, window, tls, certVars, work, tasks, job>>

-----------------------------------------------------------------------------
(* Worker threads and the thread pool *)

\* Mutant: requests are accepted until the server is gone.
MutAccepts == server \in {"running", "stopped"}

Accepts == server = "running"

BeginRequest(w) ==
  /\ Accepts
  /\ work[w] = "idle"
  /\ work' = [work EXCEPT ![w] = "busy"]
  /\ UNCHANGED <<authVars, main, round, db, server, window, tls, certVars, tasks, job, mail>>

\* A download asks the main thread for its task and waits for the answer.
Call(w) ==
  /\ work[w] = "busy"
  /\ work' = [work EXCEPT ![w] = "calling"]
  /\ UNCHANGED <<authVars, main, round, db, server, window, tls, certVars, tasks, job, mail>>

Serve(w) ==
  /\ main = "loop"
  /\ work[w] = "calling"
  /\ work' = [work EXCEPT ![w] = "busy"]
  /\ UNCHANGED <<authVars, main, round, db, server, window, tls, certVars, tasks, job, mail>>

\* The request began a task or ended one, or has a file merged in the pool.
EndRequest(w) ==
  /\ work[w] = "busy"
  /\ work' = [work EXCEPT ![w] = "idle"]
  /\ tasks' \in BOOLEAN
  /\ job' \in {job, TRUE}
  /\ UNCHANGED <<authVars, main, round, db, server, window, tls, certVars, mail>>

JobEnds ==
  /\ job
  /\ job' = FALSE
  /\ UNCHANGED <<authVars, main, round, db, server, window, tls, certVars, work, tasks, mail>>

-----------------------------------------------------------------------------
(* The end *)

Quit ==
  /\ main = "loop"
  /\ main' = Stops[1]
  /\ round' = 1
  /\ UNCHANGED <<authVars, db, server, window, tls, certVars, others>>

\* When the application is about to quit, after its event loop, and in its
\* destructor; a part that is stopped stays so.
NextStop(step) ==
  LET i == CHOOSE j \in DOMAIN Stops : Stops[j] = step
  IN  IF i < Len(Stops) THEN main' = Stops[i + 1] /\ UNCHANGED round
      ELSE IF round < 3 THEN main' = Stops[1] /\ round' = round + 1
      ELSE main' = "deleted" /\ UNCHANGED round

\* CivetWebServer::stop: no more requests, and every thread has to end.
StopServer ==
  /\ main = "server"
  /\ IF server = "running"
       THEN server' = "stopped" /\ main' = "joining" /\ UNCHANGED round
       ELSE NextStop("server") /\ UNCHANGED server
  /\ UNCHANGED <<authVars, db, window, tls, certVars, others>>

Join ==
  /\ main = "joining"
  /\ \A w \in Workers : work[w] = "idle"
  /\ NextStop("server")
  /\ UNCHANGED <<authVars, db, server, window, tls, certVars, others>>

\* stopAllTasks puts them into the log.
StopTasks ==
  /\ main = "tasks"
  /\ tasks' = FALSE
  /\ NextStop("tasks")
  /\ UNCHANGED <<authVars, db, server, window, tls, certVars, work, job, mail>>

\* The window goes at the end of the round.
CloseDatabase ==
  /\ main = "close"
  /\ db' = FALSE
  /\ window' = None
  /\ asking' = FALSE
  /\ NextStop("close")
  /\ UNCHANGED <<users, machine, token, server, tls, certVars, others>>

Off ==
  /\ main' = "off" /\ round' = 0 /\ db' = FALSE /\ server' = None /\ window' = None
  /\ tls' = FALSE /\ token' = FALSE /\ asking' = FALSE
  /\ work' = [w \in Workers |-> "idle"] /\ tasks' = FALSE /\ job' = FALSE /\ mail' = None
  /\ UNCHANGED <<users, machine, certVars>>

\* The process waits for the pool, whose tasks use what was deleted.
Exit ==
  /\ main = "deleted"
  /\ ~job /\ mail \notin 0..SmtpSteps
  /\ Off

Crash ==
  /\ main # "off"
  /\ Off

MainStep ==
  \/ initializeDatabase \/ initializeAuth \/ generateSelfSignedCert \/ start \/ initializeQml
  \/ StopServer \/ Join \/ StopTasks \/ CloseDatabase \/ Exit

AppNext ==
  \/ Launch
  \/ MainStep
  \/ Register \/ UseSettings \/ sendRegistrationEmail \/ Quit
  \/ SmtpStep \/ HearMail
  \/ \E w \in Workers : BeginRequest(w) \/ Call(w) \/ Serve(w) \/ EndRequest(w)
  \/ JobEnds
  \/ Crash
  \/ main = "off" /\ (\E m \in Machines : Rebuild(m)) /\ UNCHANGED appVars

\* The main thread goes on with what it has begun, and so do the other threads.
AppFairness ==
  /\ WF_vars(MainStep)
  /\ WF_vars(HearMail)
  /\ WF_vars(SmtpStep)
  /\ WF_vars(JobEnds)
  /\ \A w \in Workers : WF_vars(EndRequest(w))

AppSpec == AppInit /\ [][AppNext]_vars /\ AppFairness

-----------------------------------------------------------------------------
(* Properties *)

\* When the database is closed nobody works with it any more and no unfinished
\* task is left out of the log, in whatever requests the end comes (shutdown).
ClosedIsQuiet == ~db => ~tasks /\ \A w \in Workers : work[w] = "idle"

\* Once the register page is closed the server runs, whether it came with the
\* start, with a trial or with a registration, after clearing it too; unless it
\* was created and could not be started (initializeAuth, onRegistrationCompleted).
RegisteredServes ==
  main = "loop" /\ window # None /\ ~asking => server \in {"running", "created"}

\* No failure or crash while a certificate is made leaves one that does not
\* belong to its key: every later start would end there (generateSelfSignedCert).
CertPairMatches ==
  certs.cert # None /\ certs.key # None => certs.cert = certs.key

\* The threads that wait for each other.
Stuck == main = "joining" /\ \E w \in Workers : work[w] = "calling"

\* Quitting ends and so does sending a mail, unless the main thread waits for a
\* worker that waits for the main thread (shutdown, SmtpTask).
WaitsEnd ==
  /\ main \in Stopping ~> main = "off" \/ Stuck
  /\ mail # None ~> mail = None \/ Stuck

\* The code lets the main thread and a download wait for each other.
QuitEnds == main \in Stopping ~> main = "off"

\* A merge may outlive the objects that it reports to.
MergeHasHandler == main = "deleted" => ~job

\* A window that was there before the server never gets its chat.
WindowHasChat == main = "loop" /\ server = "running" /\ window # None => window
=============================================================================
