-------------------------- MODULE ChatServiceProofs --------------------------
(***************************************************************************)
(* Theorems about the chat and the WebSocket hub that it uses, for every   *)
(* number of connections, addresses, tokens and messages.                  *)
(*                                                                         *)
(* There are two invariants, one of the hub and one of messages, users and *)
(* conversations: no action needs the one to keep the other.               *)
(***************************************************************************)
EXTENDS ChatService, TLAPS

\* A connection that was sent a ping and has none to answer has just answered,
\* or its entries are gone.
AnswersCount == \A c \in pinged \ owes : lastPong[c] \in {0, None}

\* The inductive invariant.
HubInv ==
  /\ HubTypeOK
  /\ SubscriptionsAgree
  /\ NoDeadSubscriber
  /\ ReachesPages
  /\ AnswersCount

\* The steps of the chat, as the hub sees them.
HubStep ==
  \/ HubWorkers
  \/ \E To \in SUBSET Slots : WriteTo(To)
  \/ sendHeartbeat

-----------------------------------------------------------------------------
(* What the hub forgets *)

\* Forgetting connections keeps the two maps of subscriptions alike, takes
\* exactly those connections out of them and no other.
LEMMA ForgetsSubscriptions ==
  ASSUME HubTypeOK, SubscriptionsAgree, NEW C \in SUBSET Slots, UnsubscribeAll(C)
  PROVE  /\ clients' \in [Topics -> SUBSET Slots]
         /\ subs' \in [Slots -> (SUBSET Topics) \cup {None}]
         /\ SubscriptionsAgree'
         /\ \A c \in Slots, t \in Topics : c \in clients'[t] <=> c \in clients[t] /\ c \notin C
<1>1. \A t \in Topics : clients'[t] = clients[t] \ {c \in Known(C) : t \in subs[c]}
  BY DEF UnsubscribeAll, ClientsWithout
<1>2. \A c \in Slots : subs'[c] = IF c \in Known(C) THEN None ELSE subs[c]
  BY DEF UnsubscribeAll, EntriesWithout
<1>3. clients' \in [Topics -> SUBSET Slots]
  BY DEF UnsubscribeAll, ClientsWithout, HubTypeOK
<1>4. subs' \in [Slots -> (SUBSET Topics) \cup {None}]
  BY DEF UnsubscribeAll, EntriesWithout, HubTypeOK
<1>5. \A c \in Slots, t \in Topics : c \in clients'[t] <=> c \in clients[t] /\ c \notin C
  BY <1>1 DEF Known, SubscriptionsAgree
<1>6. SubscriptionsAgree'
  BY <1>2, <1>5 DEF Known, SubscriptionsAgree
<1> QED
  BY <1>3, <1>4, <1>5, <1>6

\* Entries that are left out keep the type of the map.
LEMMA EntriesType ==
  ASSUME NEW S, NEW map \in [Slots -> S \cup {None}], NEW C
  PROVE  EntriesWithout(map, C) \in [Slots -> S \cup {None}]
BY DEF EntriesWithout

LEMMA AgedType ==
  ASSUME HubTypeOK
  PROVE  Aged \in [Slots -> 0..TimesOut \cup {None}]
<1>1. \A c \in Slots : lastPong[c] \in 0..TimesOut \cup {None}
  BY DEF HubTypeOK
<1> QED
  BY <1>1 DEF Aged, TimesOut

-----------------------------------------------------------------------------
(* The invariant *)

LEMMA HubStarts ==
  ASSUME ChatInit
  PROVE  HubInv
BY DEF ChatInit, HubInit, HubInv, HubTypeOK, SubscriptionsAgree, NoDeadSubscriber,
       Subscribed, ReachesPages, IsAlive, AnswersCount, TimesOut

\* What a worker does on one connection.
LEMMA WorkersKeepHub ==
  ASSUME HubInv, HubWorkers
  PROVE  HubInv'
<1> USE HubAssumption, NoneAssumption
<1>1. PICK c \in Slots :
        \/ \E ip \in Ips : WsReady(c, ip)
        \/ \E t \in Topics : subscribeClient(c, t) \/ unsubscribeClient(c, t)
        \/ Pong(c)
        \/ WsClose(c)
        \/ Vanish(c)
  BY DEF HubWorkers
<1>2. ASSUME NEW ip \in Ips, WsReady(c, ip)
      PROVE  HubInv'
  <2>1. HubTypeOK'
    BY <1>2 DEF HubInv, HubTypeOK, WsReady, Addressed, Link, TimesOut
  <2>2. SubscriptionsAgree' /\ NoDeadSubscriber'
    BY <1>2 DEF HubInv, HubTypeOK, WsReady, SubscriptionsAgree, NoDeadSubscriber, Subscribed
  <2>3. ReachesPages' /\ AnswersCount'
    BY <1>2 DEF HubInv, HubTypeOK, WsReady, Addressed, ReachesPages, IsAlive, AnswersCount
  <2> QED
    BY <2>1, <2>2, <2>3 DEF HubInv
<1>3. ASSUME NEW t \in Topics, subscribeClient(c, t)
      PROVE  HubInv'
  <2>1. HubTypeOK'
    BY <1>3 DEF HubInv, HubTypeOK, subscribeClient
  <2>2. SubscriptionsAgree'
    BY <1>3 DEF HubInv, HubTypeOK, subscribeClient, SubscriptionsAgree
  <2>3. NoDeadSubscriber'
    BY <1>3 DEF HubInv, HubTypeOK, subscribeClient, NoDeadSubscriber, Subscribed, IsAlive
  <2>4. ReachesPages' /\ AnswersCount'
    BY <1>3 DEF HubInv, subscribeClient, ReachesPages, IsAlive, AnswersCount
  <2> QED
    BY <2>1, <2>2, <2>3, <2>4 DEF HubInv
<1>4. ASSUME NEW t \in Topics, unsubscribeClient(c, t)
      PROVE  HubInv'
  <2>1. HubTypeOK'
    BY <1>4 DEF HubInv, HubTypeOK, unsubscribeClient
  <2>2. SubscriptionsAgree'
    BY <1>4 DEF HubInv, HubTypeOK, unsubscribeClient, SubscriptionsAgree
  <2>3. NoDeadSubscriber'
    BY <1>4 DEF HubInv, HubTypeOK, unsubscribeClient, NoDeadSubscriber, Subscribed, IsAlive
  <2>4. ReachesPages' /\ AnswersCount'
    BY <1>4 DEF HubInv, unsubscribeClient, ReachesPages, IsAlive, AnswersCount
  <2> QED
    BY <2>1, <2>2, <2>3, <2>4 DEF HubInv
<1>5. ASSUME Pong(c)
      PROVE  HubInv'
  <2>1. HubTypeOK'
    BY <1>5 DEF HubInv, HubTypeOK, Pong, Ponged, TimesOut
  <2>2. SubscriptionsAgree' /\ NoDeadSubscriber' /\ ReachesPages'
    BY <1>5 DEF HubInv, Pong, SubscriptionsAgree, NoDeadSubscriber, Subscribed, ReachesPages, IsAlive
  <2>3. AnswersCount'
    BY <1>5 DEF HubInv, HubTypeOK, Pong, Ponged, AnswersCount
  <2> QED
    BY <2>1, <2>2, <2>3 DEF HubInv
<1>6. ASSUME WsClose(c)
      PROVE  HubInv'
  <2>1. /\ clients' \in [Topics -> SUBSET Slots]
        /\ subs' \in [Slots -> (SUBSET Topics) \cup {None}]
        /\ SubscriptionsAgree'
        /\ \A d \in Slots, t \in Topics : d \in clients'[t] <=> d \in clients[t] /\ d # c
    <3>1. UnsubscribeAll({c})
      BY <1>6 DEF WsClose
    <3> QED
      BY <3>1, ForgetsSubscriptions DEF HubInv
  <2>2. HubTypeOK'
    BY <1>6, <2>1, EntriesType DEF HubInv, HubTypeOK, WsClose
  <2>3. NoDeadSubscriber'
    BY <1>6, <2>1 DEF HubInv, HubTypeOK, WsClose, NoDeadSubscriber, Subscribed
  <2>4. ReachesPages' /\ AnswersCount'
    <3>1. \A d \in Slots \ {c} : connToIp'[d] = connToIp[d] /\ lastPong'[d] = lastPong[d]
      BY <1>6 DEF WsClose, EntriesWithout, Known
    <3> QED
      BY <1>6, <3>1 DEF HubInv, HubTypeOK, WsClose, ReachesPages, IsAlive, AnswersCount
  <2> QED
    BY <2>1, <2>2, <2>3, <2>4 DEF HubInv
<1>7. ASSUME Vanish(c)
      PROVE  HubInv'
  <2>1. link[c] \in Link /\ link' = [link EXCEPT ![c] = [link[c] EXCEPT !.alive = FALSE]]
    BY <1>7 DEF HubInv, HubTypeOK, Vanish, IsAlive
  <2>2. link'[c] \in Link /\ ~link'[c].alive
    BY <2>1 DEF HubInv, HubTypeOK, Link
  <2>3. HubTypeOK'
    BY <1>7, <2>1, <2>2 DEF HubInv, HubTypeOK, Vanish
  <2>4. SubscriptionsAgree' /\ AnswersCount'
    BY <1>7 DEF HubInv, Vanish, SubscriptionsAgree, AnswersCount
  <2>5. NoDeadSubscriber' /\ ReachesPages'
    BY <1>7, <2>1, <2>2 DEF HubInv, HubTypeOK, Vanish, NoDeadSubscriber, Subscribed, ReachesPages, IsAlive
  <2> QED
    BY <2>3, <2>4, <2>5 DEF HubInv
<1> QED
  BY <1>1, <1>2, <1>3, <1>4, <1>5, <1>6, <1>7

\* A message that is written, and the connections where that failed.
LEMMA WritesKeepHub ==
  ASSUME HubInv, NEW To \in SUBSET Slots, WriteTo(To)
  PROVE  HubInv'
<1>1. PICK Dead \in SUBSET {c \in To : ~IsAlive(c)} :
        /\ UnsubscribeAll(Dead)
        /\ connToIp' = EntriesWithout(connToIp, Dead)
        /\ lastPong' = EntriesWithout(lastPong, Known(Dead))
  BY DEF WriteTo
<1>2. UNCHANGED <<link, owes, pinged>>
  BY DEF WriteTo
<1>3. /\ clients' \in [Topics -> SUBSET Slots]
      /\ subs' \in [Slots -> (SUBSET Topics) \cup {None}]
      /\ SubscriptionsAgree'
      /\ \A c \in Slots, t \in Topics : c \in clients'[t] <=> c \in clients[t] /\ c \notin Dead
  BY <1>1, ForgetsSubscriptions DEF HubInv
<1>4. HubTypeOK'
  <2>1. connToIp' \in [Slots -> Ips \cup {None}]
    BY <1>1, EntriesType DEF HubInv, HubTypeOK
  <2>2. lastPong' \in [Slots -> 0..TimesOut \cup {None}]
    BY <1>1, EntriesType DEF HubInv, HubTypeOK
  <2> QED
    BY <1>2, <1>3, <2>1, <2>2 DEF HubInv, HubTypeOK
<1>5. NoDeadSubscriber'
  BY <1>2, <1>3 DEF HubInv, NoDeadSubscriber, Subscribed
<1>6. ReachesPages'
  BY <1>1, <1>2 DEF HubInv, ReachesPages, IsAlive, EntriesWithout
<1>7. AnswersCount'
  BY <1>1, <1>2 DEF HubInv, HubTypeOK, AnswersCount, EntriesWithout
<1> QED
  BY <1>3, <1>4, <1>5, <1>6, <1>7 DEF HubInv

\* The connections that the heartbeat gives up, and the others.
LEMMA HeartbeatKeepsHub ==
  ASSUME HubInv, sendHeartbeat
  PROVE  HubInv'
<1> USE NoneAssumption
<1>1. PICK Late \in SUBSET {c \in Slots : Aged[c] # None /\ Aged[c] >= MayTimeOut} :
        /\ UnsubscribeAll(Late)
        /\ connToIp' = EntriesWithout(connToIp, Known(Late))
        /\ lastPong' = EntriesWithout(Aged, Known(Late))
        /\ link' = Closing(Late)
        /\ pinged' = {c \in Slots : \E t \in Topics : c \in clients'[t]}
        /\ owes' = owes \cup pinged'
  BY DEF sendHeartbeat
<1>2. /\ clients' \in [Topics -> SUBSET Slots]
      /\ subs' \in [Slots -> (SUBSET Topics) \cup {None}]
      /\ SubscriptionsAgree'
      /\ \A c \in Slots, t \in Topics : c \in clients'[t] <=> c \in clients[t] /\ c \notin Late
  BY <1>1, ForgetsSubscriptions DEF HubInv
<1>3. \A c \in Slots : IF c \in Late /\ link[c] # None
                         THEN link'[c] = [link[c] EXCEPT !.closing = TRUE]
                         ELSE link'[c] = link[c]
  BY <1>1 DEF Closing
<1>4. \A c \in Slots : link[c] = None <=> link'[c] = None
  <2>1. \A l \in Link : [l EXCEPT !.closing = TRUE] \in Link
    BY DEF Link
  <2>2. \A c \in Slots : link[c] \in Link \cup {None}
    BY DEF HubInv, HubTypeOK
  <2> QED
    BY <1>3, <2>1, <2>2
<1>5. HubTypeOK'
  <2>1. link' \in [Slots -> Link \cup {None}]
    BY <1>1 DEF HubInv, HubTypeOK, Closing, Link
  <2>2. connToIp' \in [Slots -> Ips \cup {None}]
    BY <1>1, EntriesType DEF HubInv, HubTypeOK
  <2>3. lastPong' \in [Slots -> 0..TimesOut \cup {None}]
    BY <1>1, EntriesType, AgedType DEF HubInv
  <2> QED
    BY <1>1, <1>2, <2>1, <2>2, <2>3 DEF HubInv, HubTypeOK
<1>6. NoDeadSubscriber'
  BY <1>2, <1>4 DEF HubInv, NoDeadSubscriber, Subscribed
<1>7. ReachesPages'
  <2> SUFFICES ASSUME NEW c \in Slots, IsAlive(c)', ~link'[c].closing
               PROVE  connToIp'[c] = link'[c].ip
    BY DEF ReachesPages
  <2>1. link[c] \in Link
    BY <1>4 DEF HubInv, HubTypeOK, IsAlive
  <2>2. c \notin Late /\ link'[c] = link[c]
    BY <1>3, <2>1 DEF Link
  <2>3. connToIp'[c] = connToIp[c]
    BY <1>1, <2>2 DEF EntriesWithout, Known
  <2> QED
    BY <2>2, <2>3 DEF HubInv, ReachesPages, IsAlive
<1>8. AnswersCount'
  BY <1>1 DEF AnswersCount
<1> QED
  BY <1>2, <1>5, <1>6, <1>7, <1>8 DEF HubInv

\* Every step of the chat is one of the hub or leaves it alone.
LEMMA ChatStepsOfHub ==
  ASSUME HubTypeOK, [ChatNext]_<<hubVars, chatVars>>
  PROVE  HubStep \/ UNCHANGED hubVars
<1>1. \A t \in Topics : clients[t] \in SUBSET Slots
  BY DEF HubTypeOK
<1>2. ASSUME NEW m \in Messages, BroadcastMessage(m)
      PROVE  HubStep
  BY <1>1, <1>2, HubAssumption DEF BroadcastMessage, broadcastToSubscribers, HubStep
<1>3. ASSUME sendMessage
      PROVE  HubStep
  BY <1>3 DEF sendMessage, sendToIp, HubStep
<1>4. ASSUME SendUpdate
      PROVE  HubStep
  BY <1>1, <1>4 DEF SendUpdate, broadcastToSubscribers, HubStep
<1>5. ASSUME Heartbeat
      PROVE  HubStep
  BY <1>5 DEF Heartbeat, HubStep
<1>6. CASE HubWorkers
  BY <1>6 DEF HubStep
<1>7. CASE UNCHANGED <<hubVars, chatVars>>
  BY <1>7
<1>8. ASSUME NEW m \in Messages,
             \/ \E ip \in Writers : Post(m, ip)
             \/ updateAnonymousUser(m) \/ StoreMessage(m) \/ CountMessage(m)
      PROVE  UNCHANGED hubVars
  BY <1>8 DEF Post, updateAnonymousUser, StoreMessage, CountMessage
<1>9. ASSUME \/ \E ip \in Ips : clearUnread(ip) \/ Quiet(ip)
             \/ refreshChatHistory
             \/ cleanupStaleAnonymousUsers
      PROVE  UNCHANGED hubVars
  BY <1>9 DEF clearUnread, Quiet, refreshChatHistory, cleanupStaleAnonymousUsers
<1> QED
  BY <1>2, <1>3, <1>4, <1>5, <1>6, <1>7, <1>8, <1>9 DEF ChatNext

LEMMA HubStays ==
  ASSUME HubInv, [ChatNext]_<<hubVars, chatVars>>
  PROVE  HubInv'
<1>1. CASE HubStep
  BY <1>1, WorkersKeepHub, WritesKeepHub, HeartbeatKeepsHub DEF HubStep
<1>2. CASE UNCHANGED hubVars
  BY <1>2 DEF hubVars, HubInv, HubTypeOK, SubscriptionsAgree, NoDeadSubscriber, Subscribed,
              ReachesPages, IsAlive, AnswersCount
<1> QED
  BY <1>1, <1>2, ChatStepsOfHub DEF HubInv

LEMMA HubInvariant == ChatSpec => []HubInv
<1>1. ChatInit => HubInv
  BY HubStarts
<1>2. HubInv /\ [ChatNext]_<<hubVars, chatVars>> => HubInv'
  BY HubStays
<1> QED
  BY <1>1, <1>2, PTL DEF ChatSpec

-----------------------------------------------------------------------------
(* Theorems *)

\* The two maps of subscriptions say the same in every state (subscribeClient,
\* unsubscribeClientFromAll).
THEOREM SubscriptionsStayAlike == ChatSpec => []SubscriptionsAgree
<1>1. HubInv => SubscriptionsAgree
  BY DEF HubInv
<1> QED
  BY <1>1, HubInvariant, PTL

\* No subscription outlives its connection (staticWsCloseHandler).
THEOREM SubscribersAreConnected == ChatSpec => []NoDeadSubscriber
<1>1. HubInv => NoDeadSubscriber
  BY DEF HubInv
<1> QED
  BY <1>1, HubInvariant, PTL

\* A message to an address goes to the connections of its clients, in slots
\* that were used before too (sendToIp, staticWsReadyHandler).
THEOREM AddressesAreTrue == ChatSpec => []ReachesPages
<1>1. HubInv => ReachesPages
  BY DEF HubInv
<1> QED
  BY <1>1, HubInvariant, PTL

\* The heartbeat closes a subscriber that was sent a ping only if that did not
\* answer it (sendHeartbeat).
THEOREM AnsweringClientsStay == ChatSpec => AnsweringStays
<1>1. HubInv /\ [ChatNext]_<<hubVars, chatVars>> =>
        [\A c \in Slots :
           /\ Subscribed(c) /\ ~link[c].closing
           /\ link'[c] # None /\ link'[c].closing
           /\ c \in pinged
           => c \in owes]_hubVars
  <2> SUFFICES ASSUME HubInv, [ChatNext]_<<hubVars, chatVars>>, ~UNCHANGED hubVars,
                      NEW c \in Slots,
                      Subscribed(c), ~link[c].closing,
                      link'[c] # None, link'[c].closing,
                      c \in pinged, c \notin owes
               PROVE  FALSE
    OBVIOUS
  <2>1. HubTypeOK /\ link[c] \in Link
    BY DEF HubInv, NoDeadSubscriber, HubTypeOK
  <2>2. lastPong[c] \in {0, None}
    BY DEF HubInv, AnswersCount
  <2>3. CASE HubWorkers
    BY <2>1, <2>3 DEF HubWorkers, WsReady, subscribeClient, unsubscribeClient, Pong, WsClose,
                      Vanish, HubTypeOK, Link
  <2>4. CASE \E To \in SUBSET Slots : WriteTo(To)
    BY <2>4 DEF WriteTo
  <2>5. CASE sendHeartbeat
    <3>1. PICK Late \in SUBSET {d \in Slots : Aged[d] # None /\ Aged[d] >= MayTimeOut} :
            link' = Closing(Late)
      BY <2>5 DEF sendHeartbeat
    <3>2. c \in Late
      BY <3>1 DEF Closing
    <3>3. Aged[c] # None /\ Aged[c] >= 2
      BY <3>2 DEF MayTimeOut
    <3>4. Aged[c] = None \/ Aged[c] = 1
      BY <2>2 DEF Aged, TimesOut
    <3> QED
      BY <3>3, <3>4
  <2> QED
    BY <2>1, <2>3, <2>4, <2>5, ChatStepsOfHub DEF HubStep
<1> QED
  BY <1>1, HubInvariant, PTL DEF ChatSpec, AnsweringStays

-----------------------------------------------------------------------------
(* Messages *)

User == [unread : Nat, old : BOOLEAN]
Posted == [ip : Ips, stage : Stages]

ChatTypes ==
  /\ users \in [Ips -> User \cup {None}]
  /\ history \in [Ips -> Seq(Messages \cup {None})]
  /\ \A ip \in Ips : Len(history[ip]) <= MaxHistory
  /\ posts \in [Messages -> Posted \cup {None}]
  /\ selected \in Ips \cup {None}
  /\ reading \in BOOLEAN
  /\ reading => selected # None
  /\ quiet \subseteq Ips
  /\ seen \subseteq Messages /\ lost \subseteq Messages

\* Message m is at one of these stages, and its address has a clock that is right.
At(m, S) == posts[m] # None /\ posts[m].ip \notin Skewed /\ posts[m].stage \in S

\* Only silence makes a user old,
OldIsQuiet == \A ip \in Ips \ Skewed : users[ip] # None /\ users[ip].old => ip \in quiet

\* and not while a handler is at work for it: it cannot be removed before the
\* message has been counted.
PendingIsYoung ==
  \A m \in Messages : At(m, {"known", "stored", "counted"}) =>
    users[posts[m].ip] # None /\ ~users[posts[m].ip].old

\* A message that was not shown is in its conversation as soon as it is stored,
UnseenIsStored ==
  \A m \in Messages \ (seen \cup lost) : At(m, {"stored", "counted", "sent"}) =>
    m \in Range(history[posts[m].ip])

\* and unread as soon as it is counted.
UnseenCounts ==
  \A m \in Messages \ (seen \cup lost) : At(m, {"counted", "sent"}) =>
    /\ users[posts[m].ip] # None
    /\ users[posts[m].ip].unread > 0 \/ (reading /\ posts[m].ip = selected)

ChatInv ==
  /\ ChatTypes
  /\ OldIsQuiet
  /\ PendingIsYoung
  /\ UnseenIsStored
  /\ UnseenCounts

\* A conversation that gets a message keeps its bound, and all but the oldest.
LEMMA AppendFits ==
  ASSUME NEW S, NEW h \in Seq(S), Len(h) <= MaxHistory, NEW e \in S
  PROVE  LET full == Len(h) >= MaxHistory
             g == Append(IF full THEN Tail(h) ELSE h, e)
         IN  /\ g \in Seq(S) /\ Len(g) <= MaxHistory
             /\ e \in Range(g) /\ Range(g) \subseteq S
             /\ full => Head(h) \in S
             /\ \A x \in Range(h) : x \in Range(g) \/ (full /\ x = Head(h))
<1> DEFINE full == Len(h) >= MaxHistory
           k == IF full THEN Tail(h) ELSE h
           g == Append(k, e)
<1>1. MaxHistory \in Nat \ {0}
  BY ChatAssumption
<1>2. /\ k \in Seq(S) /\ Len(k) < MaxHistory
      /\ full => Head(h) \in S
  <2>1. CASE full
    <3>1. h # <<>> /\ Tail(h) \in Seq(S) /\ Len(Tail(h)) = Len(h) - 1 /\ Head(h) \in S
      BY <1>1, <2>1
    <3> QED
      BY <1>1, <2>1, <3>1
  <2>2. CASE ~full
    BY <1>1, <2>2
  <2> QED
    BY <2>1, <2>2
<1>3. \A x \in Range(h) : x \in Range(k) \/ (full /\ x = Head(h))
  <2> SUFFICES ASSUME NEW i \in DOMAIN h
               PROVE  h[i] \in Range(k) \/ (full /\ h[i] = Head(h))
    BY DEF Range
  <2>1. CASE full
    <3>1. CASE i = 1
      BY <2>1, <3>1
    <3>2. CASE i # 1
      <4>1. i - 1 \in DOMAIN Tail(h) /\ Tail(h)[i - 1] = h[i]
        BY <3>2
      <4> QED
        BY <2>1, <4>1 DEF Range
    <3> QED
      BY <3>1, <3>2
  <2>2. CASE ~full
    BY <2>2 DEF Range
  <2> QED
    BY <2>1, <2>2
<1> HIDE DEF k, full
<1>4. /\ g \in Seq(S) /\ Len(g) = Len(k) + 1 /\ Len(k) \in Nat
      /\ Len(g) \in DOMAIN g /\ g[Len(g)] = e
      /\ \A i \in DOMAIN k : i \in DOMAIN g /\ g[i] = k[i]
  BY <1>2
<1> HIDE DEF g
<1>5. e \in Range(g) /\ Range(g) \subseteq S /\ Range(k) \subseteq Range(g)
  BY <1>4 DEF Range
<1>6. Len(g) <= MaxHistory
  BY <1>1, <1>2, <1>4
<1>7. /\ g \in Seq(S) /\ Len(g) <= MaxHistory
      /\ e \in Range(g) /\ Range(g) \subseteq S
      /\ full => Head(h) \in S
      /\ \A x \in Range(h) : x \in Range(g) \/ (full /\ x = Head(h))
  BY <1>2, <1>3, <1>4, <1>5, <1>6
<1> QED
  BY <1>7 DEF g, k, full

\* The same of the conversation of an address (appendMessage).
LEMMA Appends ==
  ASSUME ChatTypes, NEW ip \in Ips, NEW e \in Messages \cup {None}, appendMessage(ip, e)
  PROVE  /\ history' \in [Ips -> Seq(Messages \cup {None})]
         /\ \A i \in Ips : Len(history'[i]) <= MaxHistory
         /\ lost \subseteq lost' /\ lost' \subseteq Messages
         /\ e \in Range(history'[ip]) /\ Range(history'[ip]) \subseteq Messages \cup {None}
         /\ \A m \in Messages, i \in Ips :
              m \in Range(history[i]) => m \in Range(history'[i]) \/ m \in lost'
<1> DEFINE h == history[ip]
           full == Len(h) >= MaxHistory
           g == Append(IF full THEN Tail(h) ELSE h, e)
<1>1. h \in Seq(Messages \cup {None}) /\ Len(h) <= MaxHistory
  BY DEF ChatTypes
<1>2. /\ g \in Seq(Messages \cup {None}) /\ Len(g) <= MaxHistory
      /\ e \in Range(g) /\ Range(g) \subseteq Messages \cup {None}
      /\ full => Head(h) \in Messages \cup {None}
      /\ \A x \in Range(h) : x \in Range(g) \/ (full /\ x = Head(h))
  BY <1>1, AppendFits
<1>3. /\ history' = [history EXCEPT ![ip] = g]
      /\ lost' = IF full THEN lost \cup ({Head(h)} \ {None}) ELSE lost
  BY DEF appendMessage
<1> HIDE DEF g, h, full
<1>4. /\ history'[ip] = g /\ \A i \in Ips \ {ip} : history'[i] = history[i]
      /\ history' \in [Ips -> Seq(Messages \cup {None})]
  BY <1>2, <1>3 DEF ChatTypes
<1>5. \A i \in Ips : Len(history'[i]) <= MaxHistory
  BY <1>2, <1>4 DEF ChatTypes
<1>6. lost \subseteq lost' /\ lost' \subseteq Messages
  BY <1>2, <1>3 DEF ChatTypes
<1>7. \A m \in Messages, i \in Ips :
        m \in Range(history[i]) => m \in Range(history'[i]) \/ m \in lost'
  <2> SUFFICES ASSUME NEW m \in Messages, NEW i \in Ips, m \in Range(history[i])
               PROVE  m \in Range(history'[i]) \/ m \in lost'
    OBVIOUS
  <2>1. CASE i = ip
    <3>1. m \in Range(g) \/ (full /\ m = Head(h))
      BY <1>2, <2>1 DEF h
    <3> QED
      BY <1>3, <1>4, <2>1, <3>1, ChatAssumption
  <2>2. CASE i # ip
    BY <1>4, <2>2
  <2> QED
    BY <2>1, <2>2
<1> QED
  BY <1>2, <1>4, <1>5, <1>6, <1>7

\* A handler goes on with its message and no other.
LEMMA HandlerMoves ==
  ASSUME ChatTypes, NEW m \in Messages, NEW from, NEW to \in Stages, Step(m, from, to)
  PROVE  /\ posts' \in [Messages -> Posted \cup {None}]
         /\ posts[m] # None /\ posts[m].ip \in Ips /\ posts[m].stage = from
         /\ posts'[m] # None /\ posts'[m].ip = posts[m].ip /\ posts'[m].stage = to
         /\ \A o \in Messages \ {m} : posts'[o] = posts[o]
<1>1. /\ posts[m] # None /\ posts[m] \in Posted /\ posts[m].stage = from
      /\ posts' = [posts EXCEPT ![m] = [posts[m] EXCEPT !.stage = to]]
  BY DEF Step, ChatTypes
<1>2. /\ [posts[m] EXCEPT !.stage = to] \in Posted
      /\ [posts[m] EXCEPT !.stage = to].ip = posts[m].ip
      /\ [posts[m] EXCEPT !.stage = to].stage = to
      /\ posts[m].ip \in Ips
  BY <1>1 DEF Posted
<1>3. [posts[m] EXCEPT !.stage = to] # None
  BY <1>2, NoneIsNoRecord DEF Posted
<1> QED
  BY <1>1, <1>2, <1>3 DEF ChatTypes

\* A message comes.
LEMMA PostKeeps ==
  ASSUME ChatInv, NEW m \in Messages, NEW ip \in Ips, Post(m, ip)
  PROVE  ChatInv'
<1>1. /\ posts' = [posts EXCEPT ![m] = [ip |-> ip, stage |-> "new"]]
      /\ UNCHANGED <<users, history, selected, reading, quiet, seen, lost>>
  BY DEF Post
<1>2. [ip |-> ip, stage |-> "new"] \in Posted
  BY DEF Posted, Stages
<1>3. /\ posts'[m].stage = "new"
      /\ \A o \in Messages \ {m} : posts'[o] = posts[o]
      /\ posts' \in [Messages -> Posted \cup {None}]
  BY <1>1, <1>2 DEF ChatInv, ChatTypes
<1>4. \A o \in Messages : At(o, {"known", "stored", "counted", "sent"})' => posts'[o] = posts[o]
  BY <1>3 DEF At
<1>5. ChatTypes'
  BY <1>1, <1>3 DEF ChatInv, ChatTypes
<1>6. OldIsQuiet'
  BY <1>1 DEF ChatInv, OldIsQuiet
<1>7. PendingIsYoung' /\ UnseenIsStored' /\ UnseenCounts'
  BY <1>1, <1>4 DEF ChatInv, PendingIsYoung, UnseenIsStored, UnseenCounts, At
<1> QED
  BY <1>5, <1>6, <1>7 DEF ChatInv

\* The sender becomes known, or young again (updateAnonymousUser).
LEMMA KnownKeeps ==
  ASSUME ChatInv, NEW m \in Messages, updateAnonymousUser(m)
  PROVE  ChatInv'
<1> DEFINE ip == posts[m].ip
           u == [unread |-> IF users[ip] = None THEN 0 ELSE users[ip].unread, old |-> FALSE]
<1>1. /\ posts' \in [Messages -> Posted \cup {None}]
      /\ posts[m] # None /\ ip \in Ips /\ posts[m].stage = "new"
      /\ posts'[m] # None /\ posts'[m].ip = ip /\ posts'[m].stage = "known"
      /\ \A o \in Messages \ {m} : posts'[o] = posts[o]
  <2>1. Step(m, "new", "known") /\ "known" \in Stages
    BY DEF updateAnonymousUser, Stages
  <2> QED
    BY <2>1, HandlerMoves DEF ChatInv
<1>2. /\ users' = [users EXCEPT ![ip] = u]
      /\ quiet' = quiet \ {ip}
      /\ UNCHANGED <<history, selected, reading, seen, lost>>
  BY DEF updateAnonymousUser
<1>3. /\ u \in User /\ u # None /\ u.old = FALSE
      /\ users[ip] # None => u.unread = users[ip].unread
  <2>1. users[ip] # None => users[ip].unread \in Nat
    BY <1>1 DEF ChatInv, ChatTypes, User
  <2>2. u \in User
    BY <2>1 DEF User
  <2> QED
    BY <2>2, NoneIsNoRecord DEF User
<1> HIDE DEF u, ip
<1>4. /\ users'[ip] = u /\ \A i \in Ips \ {ip} : users'[i] = users[i]
      /\ users' \in [Ips -> User \cup {None}]
  BY <1>1, <1>2, <1>3 DEF ChatInv, ChatTypes
<1>5. ChatTypes'
  BY <1>1, <1>2, <1>4 DEF ChatInv, ChatTypes
<1>6. OldIsQuiet'
  BY <1>2, <1>3, <1>4 DEF ChatInv, OldIsQuiet
<1>7. PendingIsYoung'
  <2> SUFFICES ASSUME NEW o \in Messages, At(o, {"known", "stored", "counted"})'
               PROVE  users'[posts'[o].ip] # None /\ ~users'[posts'[o].ip].old
    BY DEF PendingIsYoung
  <2>1. CASE posts'[o].ip = ip
    BY <1>3, <1>4, <2>1
  <2>2. CASE posts'[o].ip # ip
    <3>1. posts'[o] = posts[o] /\ posts[o].ip \in Ips
      BY <1>1, <2>2 DEF At, ChatInv, ChatTypes, Posted
    <3> QED
      BY <1>4, <2>2, <3>1 DEF At, ChatInv, PendingIsYoung
  <2> QED
    BY <2>1, <2>2
<1>8. UnseenIsStored'
  BY <1>1, <1>2 DEF ChatInv, UnseenIsStored, At
<1>9. UnseenCounts'
  <2> SUFFICES ASSUME NEW o \in Messages \ (seen \cup lost), At(o, {"counted", "sent"})'
               PROVE  /\ users'[posts'[o].ip] # None
                      /\ users'[posts'[o].ip].unread > 0 \/ (reading /\ posts'[o].ip = selected)
    BY <1>2 DEF UnseenCounts
  <2>1. posts'[o] = posts[o] /\ posts[o].ip \in Ips
    BY <1>1 DEF At, ChatInv, ChatTypes, Posted
  <2>2. /\ users[posts[o].ip] # None
        /\ users[posts[o].ip].unread > 0 \/ (reading /\ posts[o].ip = selected)
    BY <2>1 DEF At, ChatInv, UnseenCounts
  <2> QED
    BY <1>3, <1>4, <2>1, <2>2
<1> QED
  BY <1>5, <1>6, <1>7, <1>8, <1>9 DEF ChatInv

\* The message is stored: the one that it may push out is lost.
LEMMA StoreKeeps ==
  ASSUME ChatInv, NEW m \in Messages, StoreMessage(m)
  PROVE  ChatInv'
<1> DEFINE ip == posts[m].ip
<1>1. /\ posts' \in [Messages -> Posted \cup {None}]
      /\ posts[m] # None /\ ip \in Ips /\ posts[m].stage = "known"
      /\ posts'[m] # None /\ posts'[m].ip = ip /\ posts'[m].stage = "stored"
      /\ \A o \in Messages \ {m} : posts'[o] = posts[o]
  <2>1. Step(m, "known", "stored") /\ "stored" \in Stages
    BY DEF StoreMessage, Stages
  <2> QED
    BY <2>1, HandlerMoves DEF ChatInv
<1>2. appendMessage(ip, m) /\ UNCHANGED <<users, selected, reading, quiet, seen>>
  BY DEF StoreMessage
<1>3. /\ history' \in [Ips -> Seq(Messages \cup {None})]
      /\ \A i \in Ips : Len(history'[i]) <= MaxHistory
      /\ lost \subseteq lost' /\ lost' \subseteq Messages
      /\ m \in Range(history'[ip])
      /\ \A o \in Messages, i \in Ips :
           o \in Range(history[i]) => o \in Range(history'[i]) \/ o \in lost'
  BY <1>1, <1>2, Appends DEF ChatInv
<1> HIDE DEF ip
<1>4. ChatTypes'
  BY <1>1, <1>2, <1>3 DEF ChatInv, ChatTypes
<1>5. OldIsQuiet'
  BY <1>2 DEF ChatInv, OldIsQuiet
<1>6. PendingIsYoung'
  BY <1>1, <1>2 DEF ChatInv, PendingIsYoung, At, ip
<1>7. UnseenIsStored'
  <2> SUFFICES ASSUME NEW o \in Messages \ (seen \cup lost'),
                      At(o, {"stored", "counted", "sent"})'
               PROVE  o \in Range(history'[posts'[o].ip])
    BY <1>2 DEF UnseenIsStored
  <2>1. CASE o = m
    BY <1>1, <1>3, <2>1
  <2>2. CASE o # m
    <3>1. posts'[o] = posts[o] /\ posts[o].ip \in Ips
      BY <1>1, <2>2 DEF At, ChatInv, ChatTypes, Posted
    <3>2. o \in Range(history[posts[o].ip])
      BY <1>3, <3>1 DEF At, ChatInv, UnseenIsStored
    <3> QED
      BY <1>3, <3>1, <3>2
  <2> QED
    BY <2>1, <2>2
<1>8. UnseenCounts'
  BY <1>1, <1>2, <1>3 DEF ChatInv, UnseenCounts, At
<1> QED
  BY <1>4, <1>5, <1>6, <1>7, <1>8 DEF ChatInv

\* The message is counted, unless its user was removed: one with a clock that is
\* right was not.
LEMMA CountKeeps ==
  ASSUME ChatInv, NEW m \in Messages, CountMessage(m)
  PROVE  ChatInv'
<1> DEFINE ip == posts[m].ip
           u == IF users[ip] = None THEN None
                ELSE [unread |-> users[ip].unread + 1, old |-> ip \in Skewed]
<1>1. /\ posts' \in [Messages -> Posted \cup {None}]
      /\ posts[m] # None /\ ip \in Ips /\ posts[m].stage = "stored"
      /\ posts'[m] # None /\ posts'[m].ip = ip /\ posts'[m].stage = "counted"
      /\ \A o \in Messages \ {m} : posts'[o] = posts[o]
  <2>1. Step(m, "stored", "counted") /\ "counted" \in Stages
    BY DEF CountMessage, Stages
  <2> QED
    BY <2>1, HandlerMoves DEF ChatInv
<1>2. /\ users' = [users EXCEPT ![ip] = u]
      /\ UNCHANGED <<history, selected, reading, quiet, seen, lost>>
  BY DEF CountMessage
<1>3. /\ u \in User \cup {None}
      /\ users[ip] # None => u # None /\ u.unread > 0 /\ u.old = (ip \in Skewed)
      /\ users[ip] = None => u = None
  <2>1. CASE users[ip] = None
    BY <2>1
  <2>2. CASE users[ip] # None
    <3>1. users[ip].unread \in Nat
      BY <1>1, <2>2 DEF ChatInv, ChatTypes, User
    <3>2. u \in User
      BY <2>2, <3>1 DEF User
    <3>3. u # None
      BY <3>2, NoneIsNoRecord DEF User
    <3> QED
      BY <2>2, <3>1, <3>2, <3>3
  <2> QED
    BY <2>1, <2>2
<1> HIDE DEF u, ip
<1>4. /\ users'[ip] = u /\ \A i \in Ips \ {ip} : users'[i] = users[i]
      /\ users' \in [Ips -> User \cup {None}]
  BY <1>1, <1>2, <1>3 DEF ChatInv, ChatTypes
<1>5. ChatTypes'
  BY <1>1, <1>2, <1>4 DEF ChatInv, ChatTypes
<1>6. ip \notin Skewed => users[ip] # None
  BY <1>1 DEF ChatInv, PendingIsYoung, At, ip
<1>7. OldIsQuiet'
  BY <1>2, <1>3, <1>4 DEF ChatInv, OldIsQuiet
<1>8. PendingIsYoung'
  <2> SUFFICES ASSUME NEW o \in Messages, At(o, {"known", "stored", "counted"})'
               PROVE  users'[posts'[o].ip] # None /\ ~users'[posts'[o].ip].old
    BY DEF PendingIsYoung
  <2>1. CASE posts'[o].ip = ip
    BY <1>3, <1>4, <1>6, <2>1 DEF At
  <2>2. CASE posts'[o].ip # ip
    <3>1. posts'[o] = posts[o] /\ posts[o].ip \in Ips
      BY <1>1, <2>2 DEF At, ChatInv, ChatTypes, Posted
    <3> QED
      BY <1>4, <2>2, <3>1 DEF At, ChatInv, PendingIsYoung
  <2> QED
    BY <2>1, <2>2
<1>9. UnseenIsStored'
  <2> SUFFICES ASSUME NEW o \in Messages \ (seen \cup lost), At(o, {"stored", "counted", "sent"})'
               PROVE  o \in Range(history[posts'[o].ip])
    BY <1>2 DEF UnseenIsStored
  <2>1. posts'[o].ip = posts[o].ip /\ At(o, {"stored", "counted", "sent"})
    BY <1>1 DEF At, ip
  <2> QED
    BY <2>1 DEF ChatInv, UnseenIsStored
<1>10. UnseenCounts'
  <2> SUFFICES ASSUME NEW o \in Messages \ (seen \cup lost), At(o, {"counted", "sent"})'
               PROVE  /\ users'[posts'[o].ip] # None
                      /\ users'[posts'[o].ip].unread > 0 \/ (reading /\ posts'[o].ip = selected)
    BY <1>2 DEF UnseenCounts
  <2>1. CASE posts'[o].ip = ip
    BY <1>3, <1>4, <1>6, <2>1 DEF At
  <2>2. CASE posts'[o].ip # ip
    <3>1. posts'[o] = posts[o] /\ posts[o].ip \in Ips
      BY <1>1, <2>2 DEF At, ChatInv, ChatTypes, Posted
    <3> QED
      BY <1>4, <2>2, <3>1 DEF At, ChatInv, UnseenCounts
  <2> QED
    BY <2>1, <2>2
<1> QED
  BY <1>5, <1>7, <1>8, <1>9, <1>10 DEF ChatInv

\* The message goes to the pages and its request is answered.
LEMMA SentKeeps ==
  ASSUME ChatInv, NEW m \in Messages, BroadcastMessage(m)
  PROVE  ChatInv'
<1>1. /\ posts' \in [Messages -> Posted \cup {None}]
      /\ posts[m] # None /\ posts[m].stage = "counted"
      /\ posts'[m] # None /\ posts'[m].ip = posts[m].ip /\ posts'[m].stage = "sent"
      /\ \A o \in Messages \ {m} : posts'[o] = posts[o]
  <2>1. Step(m, "counted", "sent") /\ "sent" \in Stages
    BY DEF BroadcastMessage, Stages
  <2> QED
    BY <2>1, HandlerMoves DEF ChatInv
<1>2. UNCHANGED <<users, history, selected, reading, quiet, seen, lost>>
  BY DEF BroadcastMessage
<1>3. ChatTypes' /\ OldIsQuiet'
  BY <1>1, <1>2 DEF ChatInv, ChatTypes, OldIsQuiet
<1>4. PendingIsYoung'
  BY <1>1, <1>2 DEF ChatInv, PendingIsYoung, At
<1>5. UnseenIsStored' /\ UnseenCounts'
  BY <1>1, <1>2 DEF ChatInv, UnseenIsStored, UnseenCounts, At
<1> QED
  BY <1>3, <1>4, <1>5 DEF ChatInv

\* The user opens a conversation: its messages are read, and shown next.
LEMMA OpenKeeps ==
  ASSUME ChatInv, NEW ip \in Ips, clearUnread(ip)
  PROVE  ChatInv'
<1> DEFINE u == [users[ip] EXCEPT !.unread = 0]
<1>1. /\ ~reading /\ users[ip] # None
      /\ users' = [users EXCEPT ![ip] = u]
      /\ selected' = ip /\ reading' = TRUE
      /\ UNCHANGED <<history, posts, quiet, seen, lost>>
  BY DEF clearUnread
<1>2. u \in User /\ u # None /\ u.old = users[ip].old
  <2>1. users[ip] \in User
    BY <1>1 DEF ChatInv, ChatTypes
  <2>2. u \in User /\ u.old = users[ip].old
    BY <2>1 DEF User
  <2> QED
    BY <2>2, NoneIsNoRecord DEF User
<1> HIDE DEF u
<1>3. /\ users'[ip] = u /\ \A i \in Ips \ {ip} : users'[i] = users[i]
      /\ users' \in [Ips -> User \cup {None}]
  BY <1>1, <1>2 DEF ChatInv, ChatTypes
<1>4. ChatTypes'
  BY <1>1, <1>3, HubAssumption DEF ChatInv, ChatTypes
<1>5. OldIsQuiet'
  BY <1>1, <1>2, <1>3 DEF ChatInv, OldIsQuiet
<1>6. \A o \in Messages : posts[o] # None => posts[o].ip \in Ips
  BY DEF ChatInv, ChatTypes, Posted
<1>7. PendingIsYoung'
  BY <1>1, <1>2, <1>3, <1>6 DEF ChatInv, PendingIsYoung, At
<1>8. UnseenIsStored'
  BY <1>1 DEF ChatInv, UnseenIsStored, At
<1>9. UnseenCounts'
  <2> SUFFICES ASSUME NEW o \in Messages \ (seen \cup lost), At(o, {"counted", "sent"})
               PROVE  /\ users'[posts[o].ip] # None
                      /\ users'[posts[o].ip].unread > 0 \/ posts[o].ip = ip
    BY <1>1 DEF UnseenCounts, At
  <2>1. CASE posts[o].ip = ip
    BY <1>2, <1>3, <2>1
  <2>2. CASE posts[o].ip # ip
    BY <1>1, <1>3, <1>6, <2>2 DEF ChatInv, UnseenCounts, At
  <2> QED
    BY <2>1, <2>2
<1> QED
  BY <1>4, <1>5, <1>7, <1>8, <1>9 DEF ChatInv

\* The open conversation is shown.
LEMMA ShowKeeps ==
  ASSUME ChatInv, refreshChatHistory
  PROVE  ChatInv'
<1>1. /\ reading' = FALSE
      /\ UNCHANGED <<users, history, posts, selected, quiet, lost>>
      /\ seen' = seen \cup (Range(history[selected]) \ {None})
  BY DEF refreshChatHistory, Shown
<1>2. selected \in Ips
  <2>1. CASE reading
    BY <2>1 DEF ChatInv, ChatTypes
  <2>2. CASE ~reading
    BY <2>2 DEF refreshChatHistory, ChatInv, ChatTypes, Posted
  <2> QED
    BY <2>1, <2>2
<1>3. Range(history[selected]) \ {None} \subseteq Messages
  BY <1>2 DEF ChatInv, ChatTypes, Range
<1>4. ChatTypes'
  BY <1>1, <1>3 DEF ChatInv, ChatTypes
<1>5. OldIsQuiet' /\ PendingIsYoung'
  BY <1>1 DEF ChatInv, OldIsQuiet, PendingIsYoung, At
<1>6. UnseenIsStored'
  BY <1>1 DEF ChatInv, UnseenIsStored, At
<1>7. UnseenCounts'
  <2> SUFFICES ASSUME NEW o \in Messages \ (seen' \cup lost), At(o, {"counted", "sent"})
               PROVE  users[posts[o].ip] # None /\ users[posts[o].ip].unread > 0
    BY <1>1 DEF UnseenCounts, At
  <2>1. o \notin seen /\ o \in Range(history[posts[o].ip])
    BY <1>1 DEF ChatInv, UnseenIsStored, At
  <2>2. posts[o].ip # selected
    BY <1>1, <2>1, ChatAssumption
  <2> QED
    BY <2>1, <2>2 DEF ChatInv, UnseenCounts
<1> QED
  BY <1>4, <1>5, <1>6, <1>7 DEF ChatInv

\* The user sends a message to the open conversation, which is shown with it.
LEMMA SendKeeps ==
  ASSUME ChatInv, sendMessage
  PROVE  ChatInv'
<1>1. /\ ~reading /\ selected \in Ips
      /\ appendMessage(selected, None)
      /\ seen' = seen \cup (Range(history'[selected]) \ {None})
      /\ UNCHANGED <<users, posts, selected, reading, quiet>>
  BY DEF sendMessage, Shown, ChatInv, ChatTypes
<1>2. /\ history' \in [Ips -> Seq(Messages \cup {None})]
      /\ \A i \in Ips : Len(history'[i]) <= MaxHistory
      /\ lost \subseteq lost' /\ lost' \subseteq Messages
      /\ Range(history'[selected]) \subseteq Messages \cup {None}
      /\ \A o \in Messages, i \in Ips :
           o \in Range(history[i]) => o \in Range(history'[i]) \/ o \in lost'
  BY <1>1, Appends DEF ChatInv
<1>3. seen \subseteq seen' /\ seen' \subseteq Messages
  BY <1>1, <1>2 DEF ChatInv, ChatTypes
<1>4. ChatTypes'
  BY <1>1, <1>2, <1>3 DEF ChatInv, ChatTypes
<1>5. OldIsQuiet' /\ PendingIsYoung'
  BY <1>1 DEF ChatInv, OldIsQuiet, PendingIsYoung, At
<1>6. UnseenIsStored'
  <2> SUFFICES ASSUME NEW o \in Messages \ (seen' \cup lost'),
                      At(o, {"stored", "counted", "sent"})
               PROVE  o \in Range(history'[posts[o].ip])
    BY <1>1 DEF UnseenIsStored, At
  <2>1. o \in Range(history[posts[o].ip]) /\ posts[o].ip \in Ips
    BY <1>2, <1>3 DEF ChatInv, UnseenIsStored, At, ChatTypes, Posted
  <2> QED
    BY <1>2, <2>1
<1>7. UnseenCounts'
  BY <1>1, <1>2, <1>3 DEF ChatInv, UnseenCounts, At
<1> QED
  BY <1>4, <1>5, <1>6, <1>7 DEF ChatInv

\* Old users are removed with their conversations: what had been received from
\* one that was silent is lost, and there are no others but those whose clocks
\* are wrong.
LEMMA CleanupKeeps ==
  ASSUME ChatInv, cleanupStaleAnonymousUsers
  PROVE  ChatInv'
<1>1. /\ ~reading
      /\ users' = [ip \in Ips |-> IF ip \in Stale THEN None ELSE users[ip]]
      /\ history' = [ip \in Ips |-> IF ip \in Stale THEN <<>> ELSE history[ip]]
      /\ lost' = lost \cup {m \in Messages : \E ip \in Stale \cap quiet : m \in Range(history[ip])}
      /\ UNCHANGED <<posts, selected, reading, quiet, seen>>
  BY DEF cleanupStaleAnonymousUsers
<1>2. <<>> \in Seq(Messages \cup {None}) /\ Len(<<>>) <= MaxHistory
  BY ChatAssumption
<1>3. ChatTypes'
  <2>1. history' \in [Ips -> Seq(Messages \cup {None})] /\ \A ip \in Ips : Len(history'[ip]) <= MaxHistory
    BY <1>1, <1>2 DEF ChatInv, ChatTypes
  <2>2. users' \in [Ips -> User \cup {None}]
    BY <1>1 DEF ChatInv, ChatTypes
  <2> QED
    BY <1>1, <2>1, <2>2 DEF ChatInv, ChatTypes
<1>4. OldIsQuiet'
  BY <1>1 DEF ChatInv, OldIsQuiet
<1>5. \A o \in Messages : posts[o] # None => posts[o].ip \in Ips
  BY DEF ChatInv, ChatTypes, Posted
<1>6. PendingIsYoung'
  BY <1>1, <1>5 DEF ChatInv, PendingIsYoung, At, Stale
<1>7. \A o \in Messages \ (seen \cup lost') : At(o, {"stored", "counted", "sent"}) =>
        o \notin lost /\ posts[o].ip \notin Stale
  <2> SUFFICES ASSUME NEW o \in Messages \ (seen \cup lost), At(o, {"stored", "counted", "sent"}),
                      posts[o].ip \in Stale
               PROVE  o \in lost'
    BY <1>1
  <2>1. posts[o].ip \in quiet
    BY <1>5 DEF ChatInv, OldIsQuiet, Stale, At
  <2>2. o \in Range(history[posts[o].ip])
    BY DEF ChatInv, UnseenIsStored
  <2> QED
    BY <1>1, <2>1, <2>2
<1>8. UnseenIsStored'
  BY <1>1, <1>5, <1>7 DEF ChatInv, UnseenIsStored, At
<1>9. UnseenCounts'
  BY <1>1, <1>5, <1>7 DEF ChatInv, UnseenCounts, At
<1> QED
  BY <1>3, <1>4, <1>6, <1>8, <1>9 DEF ChatInv

\* Half an hour goes by without a message from an address.
LEMMA QuietKeeps ==
  ASSUME ChatInv, NEW ip \in Ips, Quiet(ip)
  PROVE  ChatInv'
<1> DEFINE u == [users[ip] EXCEPT !.old = TRUE]
<1>1. /\ users[ip] # None
      /\ \A m \in Messages : posts[m] # None /\ posts[m].ip = ip => posts[m].stage = "sent"
      /\ quiet' = quiet \cup {ip}
      /\ users' = [users EXCEPT ![ip] = u]
      /\ UNCHANGED <<history, posts, selected, reading, seen, lost>>
  BY DEF Quiet
<1>2. u \in User /\ u # None /\ u.unread = users[ip].unread
  <2>1. users[ip] \in User
    BY <1>1 DEF ChatInv, ChatTypes
  <2>2. u \in User /\ u.unread = users[ip].unread
    BY <2>1 DEF User
  <2> QED
    BY <2>2, NoneIsNoRecord DEF User
<1> HIDE DEF u
<1>3. /\ users'[ip] = u /\ \A i \in Ips \ {ip} : users'[i] = users[i]
      /\ users' \in [Ips -> User \cup {None}]
  BY <1>1, <1>2 DEF ChatInv, ChatTypes
<1>4. ChatTypes'
  BY <1>1, <1>3 DEF ChatInv, ChatTypes
<1>5. OldIsQuiet'
  BY <1>1, <1>3 DEF ChatInv, OldIsQuiet
<1>6. \A o \in Messages : posts[o] # None => posts[o].ip \in Ips
  BY DEF ChatInv, ChatTypes, Posted
<1>7. PendingIsYoung'
  BY <1>1, <1>3, <1>6 DEF ChatInv, PendingIsYoung, At
<1>8. UnseenIsStored'
  BY <1>1 DEF ChatInv, UnseenIsStored, At
<1>9. UnseenCounts'
  BY <1>1, <1>2, <1>3, <1>6 DEF ChatInv, UnseenCounts, At
<1> QED
  BY <1>4, <1>5, <1>7, <1>8, <1>9 DEF ChatInv

\* Every step keeps what is said of messages and conversations.
LEMMA ChatStays ==
  ASSUME ChatInv, [ChatNext]_<<hubVars, chatVars>>
  PROVE  ChatInv'
<1>1. CASE UNCHANGED chatVars
  BY <1>1 DEF chatVars, ChatInv, ChatTypes, OldIsQuiet, PendingIsYoung, UnseenIsStored,
              UnseenCounts, At
<1>2. CASE Heartbeat
  BY <1>1, <1>2 DEF Heartbeat
<1>3. ASSUME NEW m \in Messages,
             \/ \E ip \in Writers : Post(m, ip)
             \/ updateAnonymousUser(m) \/ StoreMessage(m) \/ CountMessage(m) \/ BroadcastMessage(m)
      PROVE  ChatInv'
  BY <1>3, ChatAssumption, PostKeeps, KnownKeeps, StoreKeeps, CountKeeps, SentKeeps
<1>4. ASSUME NEW ip \in Ips, clearUnread(ip) \/ Quiet(ip)
      PROVE  ChatInv'
  BY <1>4, OpenKeeps, QuietKeeps
<1> QED
  BY <1>1, <1>2, <1>3, <1>4, ShowKeeps, SendKeeps, CleanupKeeps DEF ChatNext

\* There are no messages at the beginning.
LEMMA ChatStarts ==
  ASSUME ChatInit
  PROVE  ChatInv
<1>1. /\ users = [ip \in Ips |-> None]
      /\ history = [ip \in Ips |-> <<>>]
      /\ posts = [m \in Messages |-> None]
      /\ selected = None /\ reading = FALSE
      /\ quiet = {} /\ seen = {} /\ lost = {}
  BY DEF ChatInit
<1>2. <<>> \in Seq(Messages \cup {None}) /\ Len(<<>>) <= MaxHistory
  BY ChatAssumption
<1>3. ChatTypes
  BY <1>1, <1>2 DEF ChatTypes
<1> QED
  BY <1>1, <1>3 DEF ChatInv, OldIsQuiet, PendingIsYoung, UnseenIsStored, UnseenCounts, At

\* What is said of messages and conversations holds in every state.
LEMMA ChatInvariant == ChatSpec => []ChatInv
<1>1. ChatInit => ChatInv
  BY ChatStarts
<1>2. ChatInv /\ [ChatNext]_<<hubVars, chatVars>> => ChatInv'
  BY ChatStays
<1> QED
  BY <1>1, <1>2, PTL DEF ChatSpec

\* Everything has its type; no conversation grows beyond its bound, whoever
\* adds to it (appendMessage).
THEOREM ChatsAreTyped == ChatSpec => []ChatTypeOK
<1>1. HubInv /\ ChatInv => ChatTypeOK
  BY DEF HubInv, ChatInv, ChatTypes, User, Posted, ChatTypeOK
<1> QED
  BY <1>1, HubInvariant, ChatInvariant, PTL

\* UnseenIsUnread, for the messages from addresses whose clock is right.
UnseenOfTrueClocks ==
  \A m \in Messages \ (seen \cup lost) :
    posts[m] # None /\ posts[m].ip \notin Skewed /\ posts[m].stage = "sent" =>
      LET ip == posts[m].ip
      IN  /\ m \in Range(history[ip])
          /\ users[ip] # None
          /\ users[ip].unread > 0 \/ (reading /\ ip = selected)

\* Clients with wrong clocks do no harm to the messages of the others: however
\* the workers that receive messages, the user and the timers follow each other,
\* what was answered and not shown is in its conversation and counts as unread
\* (onMessageReceived, cleanupStaleAnonymousUsers).
THEOREM TrueClocksAreSafe == ChatSpec => []UnseenOfTrueClocks
<1>1. ChatInv => UnseenOfTrueClocks
  BY DEF ChatInv, UnseenIsStored, UnseenCounts, At, UnseenOfTrueClocks
<1> QED
  BY <1>1, ChatInvariant, PTL

\* If no clock is wrong, no message goes unnoticed.
THEOREM UnseenStaysUnread ==
  ASSUME Skewed = {}
  PROVE  ChatSpec => []UnseenIsUnread
<1>1. UnseenOfTrueClocks => UnseenIsUnread
  BY DEF UnseenOfTrueClocks, UnseenIsUnread
<1> QED
  BY <1>1, TrueClocksAreSafe, PTL
=============================================================================
