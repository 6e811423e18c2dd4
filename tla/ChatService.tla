----------------------------- MODULE ChatService -----------------------------
(***************************************************************************)
(* The chat of NetShare: messages come by POST requests that worker        *)
(* threads handle and go to every page that subscribes to "chat"; those    *)
(* of the user of the application go to the connections of an address.     *)
(* ChatService keeps a conversation and a count of unread messages for     *)
(* each address.                                                           *)
(*                                                                         *)
(* No other application is ever found in the network, as mDNSService does  *)
(* not emit serviceDiscovered: all users are anonymous.                    *)
(***************************************************************************)
EXTENDS WsHub, Sequences, Functions

CONSTANTS
  Messages,    \* messages of clients, each sent at most once
  Writers,     \* the addresses that send them
  MaxHistory,  \* length of a conversation (500)
  Skewed       \* the addresses whose clock is more than half an hour behind

ASSUME ChatAssumption ==
  /\ MaxHistory \in Nat \ {0}
  /\ Writers \subseteq Ips
  /\ Skewed \subseteq Ips
  /\ None \notin Messages

VARIABLES
  users,     \* m_anonymousUsers; old: the last message is half an hour ago
  history,   \* m_chatHistory; None is a message of the user
  posts,     \* where the handler of each message is
  selected,  \* the conversation that the user has open
  reading,   \* whether the main thread is about to show it
  quiet,     \* the addresses that have been silent for half an hour
  \* For the properties:
  seen,      \* the messages that were shown
  lost       \* the messages that the end of a conversation took along

chatVars == <<users, history, posts, selected, reading, quiet, seen, lost>>

Stages == {"new", "known", "stored", "counted", "sent"}

ASSUME NoneIsNoRecord == None \notin [unread : Nat, old : BOOLEAN] \cup [ip : Ips, stage : Stages]

ChatTypeOK ==
  /\ HubTypeOK
  /\ users \in [Ips -> [unread : Nat, old : BOOLEAN] \cup {None}]
  /\ \A ip \in Ips : /\ history[ip] \in Seq(Messages \cup {None})
                     /\ Len(history[ip]) <= MaxHistory
  /\ posts \in [Messages -> [ip : Ips, stage : Stages] \cup {None}]
  /\ selected \in Ips \cup {None}
  /\ reading \in BOOLEAN
  /\ quiet \subseteq Ips
  /\ seen \cup lost \subseteq Messages

ChatInit ==
  /\ HubInit
  /\ users = [ip \in Ips |-> None]
  /\ history = [ip \in Ips |-> <<>>]
  /\ posts = [m \in Messages |-> None]
  /\ selected = None
  /\ reading = FALSE
  /\ quiet = {}
  /\ seen = {} /\ lost = {}

-----------------------------------------------------------------------------
(* handleChatMessage and onMessageReceived, in a worker thread *)

\* A page or another program sends a message.
Post(m, ip) ==
  /\ posts[m] = None
  /\ posts' = [posts EXCEPT ![m] = [ip |-> ip, stage |-> "new"]]
  /\ UNCHANGED <<hubVars, users, history, selected, reading, quiet, seen, lost>>

Step(m, from, to) ==
  /\ posts[m] # None
  /\ posts[m].stage = from
  /\ posts' = [posts EXCEPT ![m].stage = to]

updateAnonymousUser(m) ==
  /\ Step(m, "new", "known")
  /\ users' = [users EXCEPT ![posts[m].ip] =
       [unread |-> IF @ = None THEN 0 ELSE @.unread, old |-> FALSE]]
  /\ quiet' = quiet \ {posts[m].ip}
  /\ UNCHANGED <<hubVars, history, selected, reading, seen, lost>>

\* Mutant: the length is compared before the message is there.
MutAppend(ip, m) ==
  LET full == Len(history[ip]) > MaxHistory
  IN  /\ history' = [history EXCEPT ![ip] = Append(IF full THEN Tail(@) ELSE @, m)]
      /\ lost' = IF full THEN lost \cup ({Head(history[ip])} \ {None}) ELSE lost

\* The oldest message goes when there are too many.
appendMessage(ip, m) ==
  LET full == Len(history[ip]) >= MaxHistory
  IN  /\ history' = [history EXCEPT ![ip] = Append(IF full THEN Tail(@) ELSE @, m)]
      /\ lost' = IF full THEN lost \cup ({Head(history[ip])} \ {None}) ELSE lost

StoreMessage(m) ==
  /\ Step(m, "known", "stored")
  /\ appendMessage(posts[m].ip, m)
  /\ UNCHANGED <<hubVars, users, selected, reading, quiet, seen>>

\* The time that the client gave becomes the time of the user; one who was
\* removed meanwhile is not counted.
CountMessage(m) ==
  /\ Step(m, "stored", "counted")
  /\ LET ip == posts[m].ip
     IN  users' = [users EXCEPT ![ip] =
           IF @ = None THEN None ELSE [unread |-> @.unread + 1, old |-> ip \in Skewed]]
  /\ UNCHANGED <<hubVars, history, selected, reading, quiet, seen, lost>>

\* The page that sent it gets it too; then the request is answered.
BroadcastMessage(m) ==
  /\ Step(m, "counted", "sent")
  /\ broadcastToSubscribers("chat")
  /\ UNCHANGED <<users, history, selected, reading, quiet, seen, lost>>

-----------------------------------------------------------------------------
(* The main thread *)

\* selectUser clears the count and then shows the conversation; workers may
\* come in between, but nothing else of the main thread.
clearUnread(ip) ==
  /\ ~reading
  /\ users[ip] # None
  /\ users' = [users EXCEPT ![ip].unread = 0]
  /\ selected' = ip
  /\ reading' = TRUE
  /\ UNCHANGED <<hubVars, history, posts, quiet, seen, lost>>

\* The messages of an open conversation that are shown from now on.
Shown(ip) == seen \cup (Range(history'[ip]) \ {None})

\* Also when the page hears of a new message in the conversation.
refreshChatHistory ==
  /\ \/ reading
     \/ \E m \in Messages : /\ posts[m] # None
                          /\ posts[m].ip = selected
                          /\ posts[m].stage \in {"counted", "sent"}
  /\ reading' = FALSE
  /\ UNCHANGED <<hubVars, users, history, posts, selected, quiet, lost>>
  /\ seen' = Shown(selected)

\* To the conversation that is open, whether its user is still there or not;
\* that it reached nobody is not noted.
sendMessage ==
  /\ ~reading
  /\ selected # None
  /\ appendMessage(selected, None)
  /\ sendToIp(selected)
  /\ seen' = Shown(selected)
  /\ UNCHANGED <<users, posts, selected, reading, quiet>>

\* Mutant: users are removed whatever the time of their last message is.
MutStale == {ip \in Ips : users[ip] # None}

Stale == {ip \in Ips : users[ip] # None /\ users[ip].old}

\* Every minute: users whose last message is half an hour old and their
\* conversations are removed.
cleanupStaleAnonymousUsers ==
  /\ ~reading
  /\ Stale # {}
  /\ users' = [ip \in Ips |-> IF ip \in Stale THEN None ELSE users[ip]]
  /\ history' = [ip \in Ips |-> IF ip \in Stale THEN <<>> ELSE history[ip]]
  /\ lost' = lost \cup {m \in Messages : \E ip \in Stale \cap quiet : m \in Range(history[ip])}
  /\ UNCHANGED <<hubVars, posts, selected, reading, quiet, seen>>

\* Half an hour without a message; no request takes that long.
Quiet(ip) ==
  /\ users[ip] # None
  /\ \A m \in Messages : posts[m] # None /\ posts[m].ip = ip => posts[m].stage = "sent"
  /\ quiet' = quiet \cup {ip}
  /\ users' = [users EXCEPT ![ip].old = TRUE]
  /\ UNCHANGED <<hubVars, history, posts, selected, reading, seen, lost>>

Heartbeat ==
  /\ ~reading
  /\ sendHeartbeat
  /\ UNCHANGED chatVars

\* A worker that was told to close its connection does.
CloseTold(c) ==
  /\ link[c] # None
  /\ link[c].closing
  /\ WsClose(c)
  /\ UNCHANGED chatVars

ChatNext ==
  \/ HubWorkers /\ UNCHANGED chatVars
  \/ ~reading /\ SendUpdate /\ UNCHANGED chatVars
  \/ Heartbeat
  \/ \E m \in Messages :
       \/ \E ip \in Writers : Post(m, ip)
       \/ updateAnonymousUser(m) \/ StoreMessage(m) \/ CountMessage(m) \/ BroadcastMessage(m)
  \/ \E ip \in Ips : clearUnread(ip) \/ Quiet(ip)
  \/ refreshChatHistory
  \/ sendMessage
  \/ cleanupStaleAnonymousUsers

\* The main thread comes to an end with what it does and its event loop gets to
\* the timer again and again, whatever the user does; workers that were told to
\* close their connection do.
ChatFairness ==
  /\ SF_<<hubVars, chatVars>>(Heartbeat)
  /\ WF_<<hubVars, chatVars>>(refreshChatHistory)
  /\ \A c \in Slots : WF_<<hubVars, chatVars>>(CloseTold(c))

ChatSpec == ChatInit /\ [][ChatNext]_<<hubVars, chatVars>> /\ ChatFairness

-----------------------------------------------------------------------------
(* Properties *)

\* A message that was received and not shown yet is in the conversation of its
\* address and counts as unread, until newer messages or half an hour of silence
\* make it go: no order of the worker that stores it and the user who opens the
\* conversation lets it go unnoticed (onMessageReceived, selectUser).  While the
\* conversation is being opened its count may be zero already.
UnseenIsUnread ==
  \A m \in Messages \ (seen \cup lost) :
    posts[m] # None /\ posts[m].stage = "sent" =>
      LET ip == posts[m].ip
      IN  /\ m \in Range(history[ip])
          /\ users[ip] # None
          /\ users[ip].unread > 0 \/ (reading /\ ip = selected)
=============================================================================
