-------------------------- MODULE NetShareAppProofs --------------------------
(***************************************************************************)
(* Theorems about the start and the end of the application, for every      *)
(* number of workers, users and certificates.                              *)
(***************************************************************************)
EXTENDS NetShareApp, TLAPS

\* What the main thread has started or stopped, by what it does now.
Quiescence ==
  /\ work \in [Workers -> {"idle", "busy", "calling"}]
  /\ server # "running" /\ main # "joining" => \A w \in Workers : work[w] = "idle"
  /\ main \in {"off", "database", "auth", "joining", "tasks", "close", "deleted"} => server # "running"
  /\ main \in {"auth", "window", "loop", "joining"} \cup Making => db
  /\ tasks => server = "running" \/ main \in {"joining", "tasks"}
  /\ ~db => server # "running" /\ ~tasks

\* The pair of files, while a certificate is made too.
Pairs ==
  /\ certs \in [Files -> Nat \cup {None}]
  /\ made \in Nat
  /\ main \in {"key", "cert"} => certs.cert = None
  /\ main = "cert" => certs.key = made
  /\ CertPairMatches

\* The server that users have, from the start or from their registration on.
Serving ==
  /\ server \in {None, "created", "running", "stopped"}
  /\ main \in {"off", "database", "auth"} => server = None
  /\ main \in {"off", "database", "auth", "window"} => window = None
  /\ main \in {"window", "loop"} => server # "stopped"
  /\ main \in Making => server = "created"
  /\ main = "window" /\ isRegistered => server \in {"created", "running"}
  /\ RegisteredServes

AppInv == Quiescence /\ Pairs /\ Serving

-----------------------------------------------------------------------------
(* The order in which the parts stop *)

LEMMA StopOrder ==
  /\ NextStop("server") => main' = "tasks" /\ UNCHANGED round
  /\ NextStop("tasks") => main' = "close" /\ UNCHANGED round
  /\ NextStop("close") => \/ main' = "server" /\ round < 3 /\ round' = round + 1
                          \/ main' = "deleted" /\ UNCHANGED round
<1>1. DOMAIN Stops = 1..3 /\ Len(Stops) = 3
  BY DEF Stops
<1>2. Stops[1] = "server" /\ Stops[2] = "tasks" /\ Stops[3] = "close"
  BY DEF Stops
<1>3. /\ (CHOOSE j \in DOMAIN Stops : Stops[j] = "server") = 1
      /\ (CHOOSE j \in DOMAIN Stops : Stops[j] = "tasks") = 2
      /\ (CHOOSE j \in DOMAIN Stops : Stops[j] = "close") = 3
  <2>1. \A j \in DOMAIN Stops : j = 1 \/ j = 2 \/ j = 3
    BY <1>1
  <2> QED
    BY <1>1, <1>2, <2>1
<1> QED
  BY <1>1, <1>2, <1>3 DEF NextStop

LEMMA FailStops == Fail => main' = "server" /\ round' = 3
BY DEF Fail, Stops

LEMMA QuitStops == Quit => main' = "server" /\ round' = 1
BY DEF Quit, Stops

-----------------------------------------------------------------------------
(* The invariants *)

LEMMA AppStarts ==
  ASSUME AppInit
  PROVE  AppInv
BY AppAssumption
   DEF AppInit, AuthInit, AppInv, Quiescence, Pairs, Serving, Making, CertPairMatches,
       RegisteredServes, Files

\* Workers and tasks go quiet before the database is closed.
LEMMA QuiescenceStays ==
  ASSUME Quiescence, [AppNext]_vars
  PROVE  Quiescence'
<1> USE AppAssumption
<1>1. CASE Launch
  BY <1>1 DEF Quiescence, Launch, others, Making
<1>2. CASE initializeDatabase
  BY <1>2, FailStops DEF Quiescence, initializeDatabase, Open, others, Making
<1>3. CASE initializeAuth
  BY <1>3, FailStops DEF Quiescence, initializeAuth, BeginServer, generateSecurityToken, others,
                         Making
<1>4. CASE generateSelfSignedCert
  BY <1>4 DEF Quiescence, generateSelfSignedCert, others, Making
<1>5. CASE start
  BY <1>5, FailStops DEF Quiescence, start, others, Making
<1>6. CASE initializeQml
  BY <1>6 DEF Quiescence, initializeQml, others, Making
<1>7. CASE Register
  BY <1>7, FailStops DEF Quiescence, Register, onRegistrationCompleted, BeginServer,
                         enterTrialMode, registerUser, generateSecurityToken, others, Making
<1>8. CASE UseSettings
  BY <1>8 DEF Quiescence, UseSettings, clearRegistration, openRegister, appVars, Making
<1>9. CASE Quit
  BY <1>9, QuitStops DEF Quiescence, Quit, others, Making
<1>10. CASE StopServer
  BY <1>10, StopOrder DEF Quiescence, StopServer, others, Making
<1>11. CASE Join
  BY <1>11, StopOrder DEF Quiescence, Join, others, Making
<1>12. CASE StopTasks
  BY <1>12, StopOrder DEF Quiescence, StopTasks, Making
<1>13. CASE CloseDatabase
  BY <1>13, StopOrder DEF Quiescence, CloseDatabase, others, Making
<1>14. CASE Exit \/ Crash
  BY <1>14 DEF Quiescence, Exit, Crash, Off, Making
<1>15. CASE \E w \in Workers : BeginRequest(w)
  BY <1>15 DEF Quiescence, BeginRequest, Accepts, Making
<1>16. CASE \E w \in Workers : Call(w)
  BY <1>16 DEF Quiescence, Call, Making
<1>17. CASE \E w \in Workers : Serve(w)
  BY <1>17 DEF Quiescence, Serve, Making
<1>18. CASE \E w \in Workers : EndRequest(w)
  BY <1>18 DEF Quiescence, EndRequest, Making
<1>19. CASE sendRegistrationEmail \/ SmtpStep \/ HearMail \/ JobEnds
  BY <1>19 DEF Quiescence, sendRegistrationEmail, SmtpStep, HearMail, JobEnds, Making
<1>20. CASE main = "off" /\ (\E m \in Machines : Rebuild(m)) /\ UNCHANGED appVars
  BY <1>20 DEF Quiescence, Rebuild, appVars, Making
<1>21. CASE UNCHANGED vars
  BY <1>21 DEF Quiescence, vars, authVars, appVars, Making
<1> QED
  BY <1>1, <1>2, <1>3, <1>4, <1>5, <1>6, <1>7, <1>8, <1>9, <1>10, <1>11, <1>12, <1>13, <1>14,
     <1>15, <1>16, <1>17, <1>18, <1>19, <1>20, <1>21 DEF AppNext, MainStep

\* A certificate is only written next to the key that was made for it.
LEMMA PairsStay ==
  ASSUME Pairs, [AppNext]_vars
  PROVE  Pairs'
<1>1. CASE Launch
  BY <1>1 DEF Pairs, CertPairMatches, Launch, certVars
<1>2. CASE initializeDatabase
  BY <1>2, FailStops DEF Pairs, CertPairMatches, initializeDatabase, Open, certVars
<1>3. CASE initializeAuth
  BY <1>3, FailStops DEF Pairs, CertPairMatches, initializeAuth, BeginServer,
                         generateSecurityToken, certVars
<1>4. CASE generateSelfSignedCert
  <2>1. CASE main = "clear" /\ certs' = Cleared /\ main' = "key" /\ UNCHANGED <<made, paths, tls>>
    BY <2>1 DEF Pairs, CertPairMatches, Cleared, Files
  <2>2. CASE main = "key" /\ made' = made + 1 /\ certs' = [certs EXCEPT !.key = made'] /\ main' = "cert"
    BY <2>2 DEF Pairs, CertPairMatches, Files
  <2>3. CASE main = "cert" /\ certs' = [certs EXCEPT !.cert = made] /\ main' = "listen" /\ UNCHANGED made
    BY <2>3 DEF Pairs, CertPairMatches, Files
  <2>4. CASE /\ main \in {"key", "cert"} /\ main' = "listen" /\ UNCHANGED made
             /\ \E cert \in {certs.cert} \cup (IF main = "cert" THEN {made} ELSE {}) :
                  certs' = [cert |-> cert, key |-> None]
    BY <2>4 DEF Pairs, CertPairMatches, Files
  <2> QED
    BY <1>4, <2>1, <2>2, <2>3, <2>4 DEF generateSelfSignedCert
<1>5. CASE start
  BY <1>5, FailStops DEF Pairs, CertPairMatches, start, certVars
<1>6. CASE initializeQml
  BY <1>6 DEF Pairs, CertPairMatches, initializeQml, certVars
<1>7. CASE Register
  BY <1>7, FailStops DEF Pairs, CertPairMatches, Register, onRegistrationCompleted, BeginServer,
                         enterTrialMode, registerUser, generateSecurityToken, certVars
<1>8. CASE UseSettings
  BY <1>8 DEF Pairs, CertPairMatches, UseSettings, clearRegistration, openRegister, appVars
<1>9. CASE Quit
  BY <1>9, QuitStops DEF Pairs, CertPairMatches, Quit, certVars
<1>10. CASE StopServer
  BY <1>10, StopOrder DEF Pairs, CertPairMatches, StopServer, certVars
<1>11. CASE Join
  BY <1>11, StopOrder DEF Pairs, CertPairMatches, Join, certVars
<1>12. CASE StopTasks
  BY <1>12, StopOrder DEF Pairs, CertPairMatches, StopTasks, certVars
<1>13. CASE CloseDatabase
  BY <1>13, StopOrder DEF Pairs, CertPairMatches, CloseDatabase, certVars
<1>14. CASE Exit \/ Crash
  BY <1>14 DEF Pairs, CertPairMatches, Exit, Crash, Off, certVars
<1>15. CASE \E w \in Workers : BeginRequest(w)
  BY <1>15 DEF Pairs, CertPairMatches, BeginRequest, certVars
<1>16. CASE \E w \in Workers : Call(w)
  BY <1>16 DEF Pairs, CertPairMatches, Call, certVars
<1>17. CASE \E w \in Workers : Serve(w)
  BY <1>17 DEF Pairs, CertPairMatches, Serve, certVars
<1>18. CASE \E w \in Workers : EndRequest(w)
  BY <1>18 DEF Pairs, CertPairMatches, EndRequest, certVars
<1>19. CASE sendRegistrationEmail \/ SmtpStep \/ HearMail \/ JobEnds
  BY <1>19 DEF Pairs, CertPairMatches, sendRegistrationEmail, SmtpStep, HearMail, JobEnds,
               certVars
<1>20. CASE main = "off" /\ (\E m \in Machines : Rebuild(m)) /\ UNCHANGED appVars
  BY <1>20 DEF Pairs, CertPairMatches, Rebuild, appVars
<1>21. CASE UNCHANGED vars
  BY <1>21 DEF Pairs, CertPairMatches, vars, authVars, appVars
<1> QED
  BY <1>1, <1>2, <1>3, <1>4, <1>5, <1>6, <1>7, <1>8, <1>9, <1>10, <1>11, <1>12, <1>13, <1>14,
     <1>15, <1>16, <1>17, <1>18, <1>19, <1>20, <1>21 DEF AppNext, MainStep

\* The server comes with the start or with the registration.
LEMMA ServingStays ==
  ASSUME Serving, [AppNext]_vars
  PROVE  Serving'
<1> USE AppAssumption
<1>1. CASE Launch
  BY <1>1 DEF Serving, RegisteredServes, isRegistered, Launch, authVars, Making
<1>2. CASE initializeDatabase
  BY <1>2, FailStops DEF Serving, RegisteredServes, isRegistered, initializeDatabase, Open,
                         authVars, Making
<1>3. CASE initializeAuth
  BY <1>3, FailStops DEF Serving, RegisteredServes, isRegistered, initializeAuth, BeginServer,
                         generateSecurityToken, Making
<1>4. CASE generateSelfSignedCert
  BY <1>4 DEF Serving, RegisteredServes, isRegistered, generateSelfSignedCert, authVars, Making
<1>5. CASE start
  BY <1>5, FailStops DEF Serving, RegisteredServes, isRegistered, start, authVars, Making
<1>6. CASE initializeQml
  BY <1>6 DEF Serving, RegisteredServes, isRegistered, initializeQml, AsksAtStart, authVars, Making
<1>7. CASE Register
  BY <1>7, FailStops DEF Serving, RegisteredServes, isRegistered, Register,
                         onRegistrationCompleted, BeginServer, enterTrialMode, registerUser,
                         generateSecurityToken, Making
<1>8. CASE UseSettings
  BY <1>8 DEF Serving, RegisteredServes, isRegistered, UseSettings, clearRegistration,
              openRegister, appVars, authVars, Making
<1>9. CASE Quit
  BY <1>9, QuitStops DEF Serving, RegisteredServes, isRegistered, Quit, authVars, Making
<1>10. CASE StopServer
  BY <1>10, StopOrder DEF Serving, RegisteredServes, isRegistered, StopServer, authVars, Making
<1>11. CASE Join
  BY <1>11, StopOrder DEF Serving, RegisteredServes, isRegistered, Join, authVars, Making
<1>12. CASE StopTasks
  BY <1>12, StopOrder DEF Serving, RegisteredServes, isRegistered, StopTasks, authVars, Making
<1>13. CASE CloseDatabase
  BY <1>13, StopOrder DEF Serving, RegisteredServes, isRegistered, CloseDatabase, Making
<1>14. CASE Exit \/ Crash
  BY <1>14 DEF Serving, RegisteredServes, isRegistered, Exit, Crash, Off, Making
<1>15. CASE \E w \in Workers : BeginRequest(w)
  BY <1>15 DEF Serving, RegisteredServes, isRegistered, BeginRequest, authVars, Making
<1>16. CASE \E w \in Workers : Call(w)
  BY <1>16 DEF Serving, RegisteredServes, isRegistered, Call, authVars, Making
<1>17. CASE \E w \in Workers : Serve(w)
  BY <1>17 DEF Serving, RegisteredServes, isRegistered, Serve, authVars, Making
<1>18. CASE \E w \in Workers : EndRequest(w)
  BY <1>18 DEF Serving, RegisteredServes, isRegistered, EndRequest, authVars, Making
<1>19. CASE sendRegistrationEmail \/ SmtpStep \/ HearMail \/ JobEnds
  BY <1>19 DEF Serving, RegisteredServes, isRegistered, sendRegistrationEmail, SmtpStep,
               HearMail, JobEnds, authVars, Making
<1>20. CASE main = "off" /\ (\E m \in Machines : Rebuild(m)) /\ UNCHANGED appVars
  BY <1>20 DEF Serving, RegisteredServes, isRegistered, Rebuild, appVars, authVars, Making
<1>21. CASE UNCHANGED vars
  BY <1>21 DEF Serving, RegisteredServes, isRegistered, vars, authVars, appVars, Making
<1> QED
  BY <1>1, <1>2, <1>3, <1>4, <1>5, <1>6, <1>7, <1>8, <1>9, <1>10, <1>11, <1>12, <1>13, <1>14,
     <1>15, <1>16, <1>17, <1>18, <1>19, <1>20, <1>21 DEF AppNext, MainStep

LEMMA AppInvariant == AppSpec => []AppInv
<1>1. AppInit => AppInv
  BY AppStarts
<1>2. AppInv /\ [AppNext]_vars => AppInv'
  BY QuiescenceStays, PairsStay, ServingStays DEF AppInv
<1> QED
  BY <1>1, <1>2, PTL DEF AppSpec

-----------------------------------------------------------------------------
(* Theorems *)

\* Nobody works with a closed database and no unfinished task is left out of
\* the log (shutdown).
THEOREM QuietWhenClosed == AppSpec => []ClosedIsQuiet
<1>1. AppInv => ClosedIsQuiet
  BY DEF AppInv, Quiescence, ClosedIsQuiet
<1> QED
  BY <1>1, AppInvariant, PTL

\* A certificate belongs to its key, whatever fails and whenever the
\* application ends (generateSelfSignedCert).
THEOREM CertificatesMatch == AppSpec => []CertPairMatches
<1>1. AppInv => CertPairMatches
  BY DEF AppInv, Pairs
<1> QED
  BY <1>1, AppInvariant, PTL

\* Once the register page is closed there is a server (initializeAuth,
\* onRegistrationCompleted).
THEOREM UsersHaveServer == AppSpec => []RegisteredServes
<1>1. AppInv => RegisteredServes
  BY DEF AppInv, Serving
<1> QED
  BY <1>1, AppInvariant, PTL

-----------------------------------------------------------------------------
(* Types *)

Mains == {"off", "loop"} \cup Starts \cup Making \cup {"server", "joining", "tasks", "close", "deleted"}

MainTypes == main \in Mains /\ round \in 0..3

FlagTypes ==
  /\ window \in BOOLEAN \cup {None}
  /\ db \in BOOLEAN /\ tls \in BOOLEAN /\ paths \in BOOLEAN
  /\ tasks \in BOOLEAN /\ job \in BOOLEAN
  /\ mail \in 0..NotSent \cup {None}

\* There is a key before there is a certificate.
FileTypes ==
  /\ certs \in [Files -> 1..MaxCerts \cup {None}]
  /\ made \in 0..MaxCerts
  /\ main = "cert" => made > 0

AppTypes == AuthTypeOK /\ MainTypes /\ FlagTypes /\ FileTypes

\* A table of users with another row, or with one that has changed, is one.
LEMMA RowsAreUsers ==
  ASSUME NEW s \in Seq(User), NEW u \in User
  PROVE  /\ Append(s, u) \in Seq(User) /\ Len(Append(s, u)) = Len(s) + 1
         /\ \A i : [s EXCEPT ![i] = u] \in Seq(User) /\ Len([s EXCEPT ![i] = u]) = Len(s)
<1>1. Append(s, u) \in Seq(User) /\ Len(Append(s, u)) = Len(s) + 1
  OBVIOUS
<1>2. ASSUME NEW i
      PROVE  [s EXCEPT ![i] = u] \in Seq(User) /\ Len([s EXCEPT ![i] = u]) = Len(s)
  <2>1. s \in [1..Len(s) -> User] /\ Len(s) \in Nat
    OBVIOUS
  <2>2. [s EXCEPT ![i] = u] \in [1..Len(s) -> User]
    BY <2>1
  <2>3. [s EXCEPT ![i] = u] \in Seq(User)
    BY <2>1, <2>2
  <2> QED
    BY <2>1, <2>2, <2>3
<1> QED
  BY <1>1, <1>2

\* Who registers gets a row, or that of the trial user (registerUser,
\* enterTrialMode).
LEMMA UsersStay ==
  ASSUME AuthTypeOK, enterTrialMode \/ \E name \in Names : registerUser(name)
  PROVE  AuthTypeOK'
<1>1. users \in Seq(User) /\ Len(users) \in Nat /\ Len(users) <= MaxUsers
  BY DEF AuthTypeOK
<1>2. ASSUME enterTrialMode
      PROVE  AuthTypeOK'
  <2> DEFINE u == [name |-> TrialName, machine |-> machine, trial |-> TRUE]
  <2>1. u \in User
    BY DEF AuthTypeOK, User
  <2>2. /\ token' = TRUE /\ asking' = FALSE /\ UNCHANGED machine
        /\ UNCHANGED users \/ (Len(users) < MaxUsers /\ users' = Append(users, u))
    BY <1>2 DEF enterTrialMode, generateSecurityToken
  <2> HIDE DEF u
  <2>3. users' \in Seq(User) /\ Len(users') <= MaxUsers
    BY <1>1, <2>1, <2>2, RowsAreUsers, RegistrationAssumption
  <2> QED
    BY <2>2, <2>3 DEF AuthTypeOK
<1>3. ASSUME NEW name \in Names, registerUser(name)
      PROVE  AuthTypeOK'
  <2> DEFINE u == [name |-> name, machine |-> machine, trial |-> FALSE]
             i == TrialOfMachine
  <2>1. u \in User
    BY DEF AuthTypeOK, User
  <2>2. /\ token' = TRUE /\ asking' = FALSE /\ UNCHANGED machine
        /\ \/ users' = [users EXCEPT ![i] = u]
           \/ Len(users) < MaxUsers /\ users' = Append(users, u)
    BY <1>3 DEF registerUser, generateSecurityToken
  <2> HIDE DEF u, i
  <2>3. users' \in Seq(User) /\ Len(users') <= MaxUsers
    BY <1>1, <2>1, <2>2, RowsAreUsers, RegistrationAssumption
  <2> QED
    BY <2>2, <2>3 DEF AuthTypeOK
<1> QED
  BY <1>2, <1>3

\* The registration keeps its types.
LEMMA AuthTypesStay ==
  ASSUME AuthTypeOK, [AppNext]_vars
  PROVE  AuthTypeOK'
<1> USE AppAssumption
<1>1. CASE Launch
  BY <1>1 DEF AuthTypeOK, Launch, authVars
<1>2. CASE initializeDatabase
  BY <1>2 DEF AuthTypeOK, initializeDatabase, Open, authVars
<1>3. CASE initializeAuth
  BY <1>3 DEF AuthTypeOK, initializeAuth, generateSecurityToken
<1>4. CASE generateSelfSignedCert
  BY <1>4 DEF AuthTypeOK, generateSelfSignedCert, authVars
<1>5. CASE start
  BY <1>5 DEF AuthTypeOK, start, authVars
<1>6. CASE initializeQml
  <2>1. AsksAtStart \in BOOLEAN
    BY DEF AsksAtStart, isRegistered
  <2> QED
    BY <1>6, <2>1 DEF AuthTypeOK, initializeQml
<1>7. CASE Register
  BY <1>7, UsersStay DEF Register
<1>8. CASE UseSettings
  <2>1. <<>> \in Seq(User) /\ Len(<<>>) <= MaxUsers
    BY RegistrationAssumption
  <2> QED
    BY <1>8, <2>1 DEF AuthTypeOK, UseSettings, clearRegistration, openRegister
<1>9. CASE Quit
  BY <1>9 DEF AuthTypeOK, Quit, authVars
<1>10. CASE StopServer
  BY <1>10 DEF AuthTypeOK, StopServer, authVars
<1>11. CASE Join
  BY <1>11 DEF AuthTypeOK, Join, authVars
<1>12. CASE StopTasks
  BY <1>12 DEF AuthTypeOK, StopTasks, authVars
<1>13. CASE CloseDatabase
  BY <1>13 DEF AuthTypeOK, CloseDatabase
<1>14. CASE Exit \/ Crash
  BY <1>14 DEF AuthTypeOK, Exit, Crash, Off
<1>15. CASE \E w \in Workers : BeginRequest(w)
  BY <1>15 DEF AuthTypeOK, BeginRequest, authVars
<1>16. CASE \E w \in Workers : Call(w)
  BY <1>16 DEF AuthTypeOK, Call, authVars
<1>17. CASE \E w \in Workers : Serve(w)
  BY <1>17 DEF AuthTypeOK, Serve, authVars
<1>18. CASE \E w \in Workers : EndRequest(w)
  BY <1>18 DEF AuthTypeOK, EndRequest, authVars
<1>19. CASE sendRegistrationEmail \/ SmtpStep \/ HearMail \/ JobEnds
  BY <1>19 DEF AuthTypeOK, sendRegistrationEmail, SmtpStep, HearMail, JobEnds, authVars
<1>20. CASE main = "off" /\ (\E m \in Machines : Rebuild(m)) /\ UNCHANGED appVars
  BY <1>20 DEF AuthTypeOK, Rebuild, appVars, authVars
<1>21. CASE UNCHANGED vars
  BY <1>21 DEF AuthTypeOK, vars, authVars, appVars
<1> QED
  BY <1>1, <1>2, <1>3, <1>4, <1>5, <1>6, <1>7, <1>8, <1>9, <1>10, <1>11, <1>12, <1>13, <1>14,
     <1>15, <1>16, <1>17, <1>18, <1>19, <1>20, <1>21 DEF AppNext, MainStep

\* So do the main thread's states.
LEMMA MainTypesStay ==
  ASSUME MainTypes, [AppNext]_vars
  PROVE  MainTypes'
<1> USE AppAssumption
<1>1. CASE Launch
  BY <1>1 DEF MainTypes, Mains, Launch, Making, Starts
<1>2. CASE initializeDatabase
  BY <1>2, FailStops DEF MainTypes, Mains, initializeDatabase, Open, Making, Starts
<1>3. CASE initializeAuth
  BY <1>3, FailStops DEF MainTypes, Mains, initializeAuth, BeginServer, generateSecurityToken,
                         Making, Starts
<1>4. CASE generateSelfSignedCert
  BY <1>4 DEF MainTypes, Mains, generateSelfSignedCert, Making, Starts
<1>5. CASE start
  BY <1>5, FailStops DEF MainTypes, Mains, start, Making, Starts
<1>6. CASE initializeQml
  BY <1>6 DEF MainTypes, Mains, initializeQml, Making, Starts
<1>7. CASE Register
  BY <1>7, FailStops DEF MainTypes, Mains, Register, onRegistrationCompleted, BeginServer,
                         enterTrialMode, registerUser, generateSecurityToken, Making, Starts
<1>8. CASE UseSettings
  BY <1>8 DEF MainTypes, Mains, UseSettings, clearRegistration, openRegister, appVars, Making,
              Starts
<1>9. CASE Quit
  BY <1>9, QuitStops DEF MainTypes, Mains, Quit, Making, Starts
<1>10. CASE StopServer
  BY <1>10, StopOrder DEF MainTypes, Mains, StopServer, Making, Starts
<1>11. CASE Join
  BY <1>11, StopOrder DEF MainTypes, Mains, Join, Making, Starts
<1>12. CASE StopTasks
  BY <1>12, StopOrder DEF MainTypes, Mains, StopTasks, Making, Starts
<1>13. CASE CloseDatabase
  BY <1>13, StopOrder DEF MainTypes, Mains, CloseDatabase, Making, Starts
<1>14. CASE Exit \/ Crash
  BY <1>14 DEF MainTypes, Mains, Exit, Crash, Off, Making, Starts
<1>15. CASE \E w \in Workers : BeginRequest(w)
  BY <1>15 DEF MainTypes, Mains, BeginRequest, Making, Starts
<1>16. CASE \E w \in Workers : Call(w)
  BY <1>16 DEF MainTypes, Mains, Call, Making, Starts
<1>17. CASE \E w \in Workers : Serve(w)
  BY <1>17 DEF MainTypes, Mains, Serve, Making, Starts
<1>18. CASE \E w \in Workers : EndRequest(w)
  BY <1>18 DEF MainTypes, Mains, EndRequest, Making, Starts
<1>19. CASE sendRegistrationEmail \/ SmtpStep \/ HearMail \/ JobEnds
  BY <1>19 DEF MainTypes, Mains, sendRegistrationEmail, SmtpStep, HearMail, JobEnds, Making,
               Starts
<1>20. CASE main = "off" /\ (\E m \in Machines : Rebuild(m)) /\ UNCHANGED appVars
  BY <1>20 DEF MainTypes, Mains, Rebuild, appVars, Making, Starts
<1>21. CASE UNCHANGED vars
  BY <1>21 DEF MainTypes, Mains, vars, authVars, appVars, Making, Starts
<1> QED
  BY <1>1, <1>2, <1>3, <1>4, <1>5, <1>6, <1>7, <1>8, <1>9, <1>10, <1>11, <1>12, <1>13, <1>14,
     <1>15, <1>16, <1>17, <1>18, <1>19, <1>20, <1>21 DEF AppNext, MainStep

\* What is open, running or under way stays a flag or a step.
LEMMA FlagTypesStay ==
  ASSUME FlagTypes, [AppNext]_vars
  PROVE  FlagTypes'
<1> USE AppAssumption
<1>1. CASE Launch
  BY <1>1 DEF FlagTypes, Launch, others, certVars
<1>2. CASE initializeDatabase
  BY <1>2, FailStops DEF FlagTypes, initializeDatabase, Open, others, certVars
<1>3. CASE initializeAuth
  BY <1>3, FailStops DEF FlagTypes, initializeAuth, BeginServer, generateSecurityToken, others,
                         certVars
<1>4. CASE generateSelfSignedCert
  BY <1>4 DEF FlagTypes, generateSelfSignedCert, others
<1>5. CASE start
  BY <1>5, FailStops DEF FlagTypes, start, others, certVars
<1>6. CASE initializeQml
  BY <1>6 DEF FlagTypes, initializeQml, others, certVars
<1>7. CASE Register
  BY <1>7, FailStops DEF FlagTypes, Register, onRegistrationCompleted, BeginServer,
                         enterTrialMode, registerUser, generateSecurityToken, others, certVars
<1>8. CASE UseSettings
  BY <1>8 DEF FlagTypes, UseSettings, clearRegistration, openRegister, appVars
<1>9. CASE Quit
  BY <1>9, QuitStops DEF FlagTypes, Quit, others, certVars
<1>10. CASE StopServer
  BY <1>10, StopOrder DEF FlagTypes, StopServer, others, certVars
<1>11. CASE Join
  BY <1>11, StopOrder DEF FlagTypes, Join, others, certVars
<1>12. CASE StopTasks
  BY <1>12, StopOrder DEF FlagTypes, StopTasks, certVars
<1>13. CASE CloseDatabase
  BY <1>13, StopOrder DEF FlagTypes, CloseDatabase, others, certVars
<1>14. CASE Exit \/ Crash
  BY <1>14 DEF FlagTypes, Exit, Crash, Off, certVars
<1>15. CASE \E w \in Workers : BeginRequest(w)
  BY <1>15 DEF FlagTypes, BeginRequest, certVars
<1>16. CASE \E w \in Workers : Call(w)
  BY <1>16 DEF FlagTypes, Call, certVars
<1>17. CASE \E w \in Workers : Serve(w)
  BY <1>17 DEF FlagTypes, Serve, certVars
<1>18. CASE \E w \in Workers : EndRequest(w)
  BY <1>18 DEF FlagTypes, EndRequest, certVars
<1>19. CASE sendRegistrationEmail \/ SmtpStep \/ HearMail \/ JobEnds
  <2>1. CASE sendRegistrationEmail \/ HearMail
    BY <2>1 DEF FlagTypes, sendRegistrationEmail, HearMail, certVars, NotSent, SmtpSteps
  <2>2. CASE JobEnds
    BY <2>2 DEF FlagTypes, JobEnds, certVars
  <2>3. CASE SmtpStep
    <3>1. mail' \in 0..NotSent
      BY <2>3 DEF SmtpStep, StepFailed, NotSent, SmtpSteps
    <3> QED
      BY <2>3, <3>1 DEF FlagTypes, SmtpStep, certVars
  <2> QED
    BY <1>19, <2>1, <2>2, <2>3
<1>20. CASE main = "off" /\ (\E m \in Machines : Rebuild(m)) /\ UNCHANGED appVars
  BY <1>20 DEF FlagTypes, Rebuild, appVars
<1>21. CASE UNCHANGED vars
  BY <1>21 DEF FlagTypes, vars, authVars, appVars
<1> QED
  BY <1>1, <1>2, <1>3, <1>4, <1>5, <1>6, <1>7, <1>8, <1>9, <1>10, <1>11, <1>12, <1>13, <1>14,
     <1>15, <1>16, <1>17, <1>18, <1>19, <1>20, <1>21 DEF AppNext, MainStep

\* And the files of the certificate.
LEMMA FileTypesStay ==
  ASSUME FileTypes, [AppNext]_vars
  PROVE  FileTypes'
<1> USE AppAssumption
<1>1. CASE Launch
  BY <1>1 DEF FileTypes, Launch, certVars
<1>2. CASE initializeDatabase
  BY <1>2, FailStops DEF FileTypes, initializeDatabase, Open, certVars
<1>3. CASE initializeAuth
  BY <1>3, FailStops DEF FileTypes, initializeAuth, BeginServer, generateSecurityToken, certVars
<1>4. CASE generateSelfSignedCert
  <2>1. CASE main = "clear" /\ certs' = Cleared /\ main' = "key" /\ UNCHANGED <<made, paths, tls>>
    BY <2>1 DEF FileTypes, Cleared
  <2>2. CASE /\ main = "key" /\ made < MaxCerts
             /\ made' = made + 1 /\ certs' = [certs EXCEPT !.key = made'] /\ main' = "cert"
    BY <2>2 DEF FileTypes, Files
  <2>3. CASE main = "cert" /\ certs' = [certs EXCEPT !.cert = made] /\ main' = "listen" /\ UNCHANGED made
    BY <2>3 DEF FileTypes, Files
  <2>4. CASE /\ main \in {"key", "cert"} /\ main' = "listen" /\ UNCHANGED made
             /\ \E cert \in {certs.cert} \cup (IF main = "cert" THEN {made} ELSE {}) :
                  certs' = [cert |-> cert, key |-> None]
    BY <2>4 DEF FileTypes, Files
  <2> QED
    BY <1>4, <2>1, <2>2, <2>3, <2>4 DEF generateSelfSignedCert
<1>5. CASE start
  BY <1>5, FailStops DEF FileTypes, start, certVars
<1>6. CASE initializeQml
  BY <1>6 DEF FileTypes, initializeQml, certVars
<1>7. CASE Register
  BY <1>7, FailStops DEF FileTypes, Register, onRegistrationCompleted, BeginServer,
                         enterTrialMode, registerUser, generateSecurityToken, certVars
<1>8. CASE UseSettings
  BY <1>8 DEF FileTypes, UseSettings, clearRegistration, openRegister, appVars
<1>9. CASE Quit
  BY <1>9, QuitStops DEF FileTypes, Quit, certVars
<1>10. CASE StopServer
  BY <1>10, StopOrder DEF FileTypes, StopServer, certVars
<1>11. CASE Join
  BY <1>11, StopOrder DEF FileTypes, Join, certVars
<1>12. CASE StopTasks
  BY <1>12, StopOrder DEF FileTypes, StopTasks, certVars
<1>13. CASE CloseDatabase
  BY <1>13, StopOrder DEF FileTypes, CloseDatabase, certVars
<1>14. CASE Exit \/ Crash
  BY <1>14 DEF FileTypes, Exit, Crash, Off, certVars
<1>15. CASE \E w \in Workers : BeginRequest(w)
  BY <1>15 DEF FileTypes, BeginRequest, certVars
<1>16. CASE \E w \in Workers : Call(w)
  BY <1>16 DEF FileTypes, Call, certVars
<1>17. CASE \E w \in Workers : Serve(w)
  BY <1>17 DEF FileTypes, Serve, certVars
<1>18. CASE \E w \in Workers : EndRequest(w)
  BY <1>18 DEF FileTypes, EndRequest, certVars
<1>19. CASE sendRegistrationEmail \/ SmtpStep \/ HearMail \/ JobEnds
  BY <1>19 DEF FileTypes, sendRegistrationEmail, SmtpStep, HearMail, JobEnds, certVars
<1>20. CASE main = "off" /\ (\E m \in Machines : Rebuild(m)) /\ UNCHANGED appVars
  BY <1>20 DEF FileTypes, Rebuild, appVars
<1>21. CASE UNCHANGED vars
  BY <1>21 DEF FileTypes, vars, authVars, appVars
<1> QED
  BY <1>1, <1>2, <1>3, <1>4, <1>5, <1>6, <1>7, <1>8, <1>9, <1>10, <1>11, <1>12, <1>13, <1>14,
     <1>15, <1>16, <1>17, <1>18, <1>19, <1>20, <1>21 DEF AppNext, MainStep

\* All of it at the beginning.
LEMMA TypesStart ==
  ASSUME AppInit
  PROVE  AppTypes
<1>1. AuthTypeOK
  <2>1. <<>> \in Seq(User) /\ Len(<<>>) <= MaxUsers
    BY RegistrationAssumption
  <2> QED
    BY <2>1 DEF AppInit, AuthInit, AuthTypeOK
<1>2. MainTypes
  BY DEF AppInit, MainTypes, Mains
<1>3. FlagTypes
  BY DEF AppInit, FlagTypes, NotSent, SmtpSteps
<1>4. FileTypes
  BY AppAssumption DEF AppInit, FileTypes
<1> QED
  BY <1>1, <1>2, <1>3, <1>4 DEF AppTypes

\* Everything has its type, and the database is open from the moment when it is
\* needed until the application stops.
THEOREM AppIsTyped == AppSpec => []AppTypeOK
<1>1. AppTypes /\ [AppNext]_vars => AppTypes'
  BY AuthTypesStay, MainTypesStay, FlagTypesStay, FileTypesStay DEF AppTypes
<1>2. AppTypes /\ AppInv => AppTypeOK
  <2>1. DOMAIN Stops = 1..3 /\ Stops[1] = "server" /\ Stops[2] = "tasks" /\ Stops[3] = "close"
    BY DEF Stops
  <2>2. Range(Stops) = {"server", "tasks", "close"}
    BY <2>1 DEF Range
  <2>3. Mains = {"off", "loop"} \cup Starts \cup Making \cup Stopping
    BY <2>2 DEF Mains, Stopping
  <2> QED
    BY <2>3 DEF AppTypes, MainTypes, FlagTypes, FileTypes, AppInv, Quiescence, Serving, AppTypeOK
<1>3. AppInit => AppTypes
  BY TypesStart
<1> QED
  BY <1>1, <1>2, <1>3, AppInvariant, PTL DEF AppSpec
=============================================================================
