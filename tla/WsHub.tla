------------------------------- MODULE WsHub -------------------------------
(***************************************************************************)
(* The WebSocket hub of CivetWebServer: which connection subscribes to     *)
(* what, from which address it comes, and when it answered last.  Worker   *)
(* threads handle what arrives on a connection; the main thread sends      *)
(* messages and, every thirty seconds, a heartbeat.                        *)
(*                                                                         *)
(* A connection is known by its slot, which the server uses again for the  *)
(* next one.  Each handler is one step, although nothing locks the maps.   *)
(***************************************************************************)
EXTENDS Naturals, FiniteSets

CONSTANTS
  Slots,   \* connections of the server
  Ips,     \* addresses of clients
  Topics,  \* tokens to subscribe to: "chat" and the sessions of uploads
  None

ASSUME HubAssumption ==
  /\ "chat" \in Topics
  /\ None \notin Ips

VARIABLES
  link,       \* the WebSocket connection of each slot
  clients,    \* m_wsClients: no set is an empty one
  subs,       \* m_wsSubscriptions
  connToIp,   \* m_connToIp
  lastPong,   \* m_wsLastPong, as the number of heartbeats since then
  owes,       \* the connections that have a ping to answer
  pinged      \* for the properties: those that the last heartbeat sent a ping

hubVars == <<link, clients, subs, connToIp, lastPong, owes, pinged>>

\* closing: the worker was told to end the connection.
Link == [ip : Ips, alive : BOOLEAN, closing : BOOLEAN]

ASSUME NoneAssumption ==
  /\ None \notin Link
  /\ \A T \in SUBSET Topics : T # None

\* Heartbeats after which a connection may have, and surely has, timed out:
\* the timer and the seconds that are compared are not exact.
MayTimeOut == 2
TimesOut == 3

HubTypeOK ==
  /\ link \in [Slots -> Link \cup {None}]
  /\ clients \in [Topics -> SUBSET Slots]
  /\ subs \in [Slots -> (SUBSET Topics) \cup {None}]
  /\ connToIp \in [Slots -> Ips \cup {None}]
  /\ lastPong \in [Slots -> 0..TimesOut \cup {None}]
  /\ owes \cup pinged \subseteq Slots

HubInit ==
  /\ link = [c \in Slots |-> None]
  /\ clients = [t \in Topics |-> {}]
  /\ subs = [c \in Slots |-> None]
  /\ connToIp = [c \in Slots |-> None]
  /\ lastPong = [c \in Slots |-> None]
  /\ owes = {} /\ pinged = {}

IsAlive(c) == link[c] # None /\ link[c].alive
Subscribed(c) == \E t \in Topics : c \in clients[t]

-----------------------------------------------------------------------------
(* Handlers of the worker threads *)

\* Mutant: an address that is known stays.
MutAddressed(c, ip) == IF connToIp[c] = None THEN [connToIp EXCEPT ![c] = ip] ELSE connToIp

Addressed(c, ip) == [connToIp EXCEPT ![c] = ip]

\* A connection is made and ready; the slot may have entries of an earlier one.
WsReady(c, ip) ==
  /\ link[c] = None
  /\ link' = [link EXCEPT ![c] = [ip |-> ip, alive |-> TRUE, closing |-> FALSE]]
  /\ connToIp' = Addressed(c, ip)
  /\ lastPong' = [lastPong EXCEPT ![c] = 0]
  /\ UNCHANGED <<clients, subs, owes, pinged>>

subscribeClient(c, t) ==
  /\ IsAlive(c)
  /\ clients' = [clients EXCEPT ![t] = @ \cup {c}]
  /\ subs' = [subs EXCEPT ![c] = (IF @ = None THEN {} ELSE @) \cup {t}]
  /\ UNCHANGED <<link, connToIp, lastPong, owes, pinged>>

unsubscribeClient(c, t) ==
  /\ IsAlive(c)
  /\ clients' = [clients EXCEPT ![t] = @ \ {c}]
  /\ subs' = [subs EXCEPT ![c] = (IF @ = None THEN {} ELSE @) \ {t}]
  /\ UNCHANGED <<link, connToIp, lastPong, owes, pinged>>

\* Mutant: an answer does not count.
MutPonged(c) == lastPong

\* Also for a connection that was forgotten meanwhile.
Ponged(c) == [lastPong EXCEPT ![c] = 0]

Pong(c) ==
  /\ IsAlive(c)
  /\ c \in owes
  /\ owes' = owes \ {c}
  /\ lastPong' = Ponged(c)
  /\ UNCHANGED <<link, clients, subs, connToIp, pinged>>

\* Mutant: the entry is gone before it is looked for.
MutKnown(C) == {}

\* unsubscribeClientFromAll: a connection that never subscribed keeps its entries.
Known(C) == {c \in C : subs[c] # None}

\* Mutant: the connection stays among the clients of its first token.
MutClientsWithout(C) == clients

ClientsWithout(C) == [t \in Topics |-> clients[t] \ {c \in Known(C) : t \in subs[c]}]

EntriesWithout(map, C) == [c \in Slots |-> IF c \in C THEN None ELSE map[c]]

UnsubscribeAll(C) ==
  /\ clients' = ClientsWithout(C)
  /\ subs' = EntriesWithout(subs, Known(C))

\* The client closes the connection, or the worker finds it lost or closing.
WsClose(c) ==
  /\ link[c] # None
  /\ link' = [link EXCEPT ![c] = None]
  /\ UnsubscribeAll({c})
  /\ connToIp' = EntriesWithout(connToIp, Known({c}))
  /\ lastPong' = EntriesWithout(lastPong, Known({c}))
  /\ owes' = owes \ {c}
  /\ pinged' = pinged \ {c}

\* The client is gone and the server has not heard of it.
Vanish(c) ==
  /\ IsAlive(c)
  /\ link' = [link EXCEPT ![c].alive = FALSE]
  /\ UNCHANGED <<clients, subs, connToIp, lastPong, owes, pinged>>

-----------------------------------------------------------------------------
(* The main thread *)

\* A message is written to the connections To: it fails where no connection is,
\* may fail where no client is, and those that failed are forgotten.
WriteTo(To) ==
  /\ \E Dead \in SUBSET {c \in To : ~IsAlive(c)} :
       /\ {c \in To : link[c] = None} \subseteq Dead
       /\ UnsubscribeAll(Dead)
       /\ connToIp' = EntriesWithout(connToIp, Dead)
       /\ lastPong' = EntriesWithout(lastPong, Known(Dead))
  /\ UNCHANGED <<link, owes, pinged>>

broadcastToSubscribers(t) == WriteTo(clients[t])

sendToIp(ip) == WriteTo({c \in Slots : connToIp[c] = ip})

Aged == [c \in Slots |-> IF lastPong[c] = None THEN None
                         ELSE IF lastPong[c] < TimesOut THEN lastPong[c] + 1 ELSE TimesOut]

\* Mutant: connections that are forgotten are not closed.
MutClosing(Late) == link

Closing(Late) ==
  [c \in Slots |-> IF c \in Late /\ link[c] # None THEN [link[c] EXCEPT !.closing = TRUE] ELSE link[c]]

\* Connections that timed out are forgotten and closed; subscribers get a ping.
sendHeartbeat ==
  \E Late \in SUBSET {c \in Slots : Aged[c] # None /\ Aged[c] >= MayTimeOut} :
    /\ {c \in Slots : Aged[c] = TimesOut} \subseteq Late
    /\ UnsubscribeAll(Late)
    /\ connToIp' = EntriesWithout(connToIp, Known(Late))
    /\ lastPong' = EntriesWithout(Aged, Known(Late))
    /\ link' = Closing(Late)
    /\ pinged' = {c \in Slots : \E t \in Topics : c \in clients'[t]}
    /\ owes' = owes \cup pinged'

-----------------------------------------------------------------------------
HubWorkers ==
  \E c \in Slots :
    \/ \E ip \in Ips : WsReady(c, ip)
    \/ \E t \in Topics : subscribeClient(c, t) \/ unsubscribeClient(c, t)
    \/ Pong(c)
    \/ WsClose(c)
    \/ Vanish(c)

\* Progress of a transfer and pauses from the list.
SendUpdate == \E t \in Topics \ {"chat"} : broadcastToSubscribers(t)

-----------------------------------------------------------------------------
(* Properties *)

\* The two maps of subscriptions say the same, whatever order subscriptions,
\* closed connections, failed writes and timeouts come in
\* (unsubscribeClientFromAll looks only at the tokens of one of them).
SubscriptionsAgree ==
  \A c \in Slots, t \in Topics : c \in clients[t] <=> subs[c] # None /\ t \in subs[c]

\* No message is written to a connection that ended, or to the one that has its
\* slot now, because of a subscription of the old one (staticWsCloseHandler).
NoDeadSubscriber == \A c \in Slots : link[c] = None => ~Subscribed(c)

\* A message to an address reaches the connections of its clients and no other
\* client's, also in slots that were used before (sendToIp).
ReachesPages ==
  \A c \in Slots : IsAlive(c) /\ ~link[c].closing => connToIp[c] = link[c].ip

\* The heartbeat gives up a subscriber only if that has a ping to answer, or had
\* not subscribed when the last pings were sent (sendHeartbeat).
AnsweringStays ==
  [][\A c \in Slots :
       /\ Subscribed(c) /\ ~link[c].closing
       /\ link'[c] # None /\ link'[c].closing
       /\ c \in pinged
       => c \in owes]_hubVars

\* A client that vanished does not stay a subscriber for ever: no other part
\* looks after connections on which nothing arrives (the heartbeat's timeout).
DeadIsForgotten ==
  \A c \in Slots : []<>~(link[c] # None /\ ~link[c].alive /\ Subscribed(c))
=============================================================================
