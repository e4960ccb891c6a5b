------------------------------ MODULE EventLoop ------------------------------
(***************************************************************************)
(* The main loop: it takes up to Batch events from ENet, handles them and  *)
(* then runs the tick of the worlds.  A connection has a slot of the host  *)
(* (an ENetPeer), which is used again when the connection has ended, and a *)
(* Player, which CONNECT allocates, which peer->data points to and which   *)
(* DISCONNECT saves and deletes.  ENet knows nothing of peer->data.        *)
(*                                                                         *)
(* An event may not reach its handler: the one that fills the batch is     *)
(* fetched and then dropped, a handler may throw, and enet_peer_reset ends *)
(* a connection without an event.  A timer thread reads the Players too,   *)
(* under g_world_loop_mutex.                                               *)
(***************************************************************************)
EXTENDS Naturals

CONSTANTS Peers,       \* slots of the host
          Batch,       \* events_processed at which a batch ends (100)
          MaxConns, MaxPackets, MaxThrows  \* bounds

ASSUME EventLoopAssumption ==
    /\ Batch \in Nat \ {0}
    /\ {MaxConns, MaxPackets, MaxThrows} \subseteq Nat

\* Connections are numbered, and a Player has the number of the connection
\* that it was allocated for.
NULL == 0
Conns == 1..MaxConns

VARIABLES state,     \* state[p]: ENetPeer::state
          conn,      \* conn[p]: the connection at p, the last one if it has ended
          conns,     \* connections so far
          incoming,  \* incoming[p]: packets at p that have not been fetched
          data,      \* data[p]: peer->data
          heap,      \* the Players that are allocated
          pc,        \* where the main thread is
          events_processed,
          timer,     \* the Player gameTimerThread is reading, with the mutex held
          throws,    \* exceptions so far
          unsent,    \* history: connections whose CONNECT was not handled
          missed     \* history: Players whose DISCONNECT was not handled

enet == <<state, conn, conns, incoming>>
vars == <<enet, data, heap, pc, events_processed, timer, throws, unsent, missed>>

\* DISCONNECTING stands for DISCONNECT_LATER and ACKNOWLEDGING_DISCONNECT too.
States == {"DISCONNECTED", "ACKNOWLEDGING_CONNECT", "CONNECTED", "DISCONNECTING", "ZOMBIE"}

Init ==
    /\ state = [p \in Peers |-> "DISCONNECTED"]
    /\ conn = [p \in Peers |-> NULL] /\ conns = 0
    /\ incoming = [p \in Peers |-> 0]
    /\ data = [p \in Peers |-> NULL]
    /\ heap = {}
    /\ pc = "service" /\ events_processed = 0
    /\ timer = NULL
    /\ throws = 0
    /\ unsent = {} /\ missed = {}
-----------------------------------------------------------------------------
(* ENet.                                                                   *)

enet_protocol_handle_connect(p) ==
    /\ state[p] = "DISCONNECTED" /\ conns < MaxConns
    /\ state' = [state EXCEPT ![p] = "ACKNOWLEDGING_CONNECT"]
    /\ conn' = [conn EXCEPT ![p] = conns + 1] /\ conns' = conns + 1
    /\ UNCHANGED <<incoming, data, heap, pc, events_processed, timer, throws, unsent, missed>>

enet_peer_queue_incoming_command(p) ==
    /\ state[p] = "CONNECTED" /\ incoming[p] < MaxPackets
    /\ incoming' = [incoming EXCEPT ![p] = @ + 1]
    /\ UNCHANGED <<state, conn, conns, data, heap, pc, events_processed, timer, throws, unsent, missed>>

\* The client disconnects, acknowledges a disconnect, or times out.  Nobody is
\* told of a connection that was never complete.
enet_protocol_notify_disconnect(p) ==
    /\ state[p] \in {"ACKNOWLEDGING_CONNECT", "CONNECTED", "DISCONNECTING"}
    /\ state' = [state EXCEPT ![p] = IF @ = "ACKNOWLEDGING_CONNECT" THEN "DISCONNECTED" ELSE "ZOMBIE"]
    /\ incoming' = [incoming EXCEPT ![p] = 0]
    /\ UNCHANGED <<conn, conns, data, heap, pc, events_processed, timer, throws, unsent, missed>>

\* The type of the event that p has for enet_host_service.
Event(p) ==
    CASE state[p] = "ACKNOWLEDGING_CONNECT" -> "CONNECT"
      [] state[p] = "CONNECTED" /\ incoming[p] > 0 -> "RECEIVE"
      [] state[p] = "ZOMBIE" -> "DISCONNECT"
      [] OTHER -> "NONE"

\* The event of p is fetched.  The slot of an ended connection is free from
\* then on, and its data pointer stays.
Fetch(p, kind) ==
    /\ pc = "service" /\ Event(p) = kind
    /\ UNCHANGED <<conn, conns>>
    /\ incoming' = [incoming EXCEPT ![p] = IF kind = "RECEIVE" THEN @ - 1 ELSE 0]

\* enet_peer_disconnect_later: no packet of the peers ps is delivered any more.
Peer_Disconnect(ps) ==
    state' = [p \in Peers |-> IF p \in ps THEN "DISCONNECTING" ELSE state[p]]

Becomes(p, s) == state' = [state EXCEPT ![p] = s]
-----------------------------------------------------------------------------
(* Handlers.                                                               *)

LastOfBatch == events_processed + 1 >= Batch

\* Counts nothing.
HandledMutant == /\ ~LastOfBatch
                 /\ UNCHANGED <<events_processed, pc>>

\* An event that does not end the batch goes to its handler.
Handled == /\ ~LastOfBatch
           /\ events_processed' = events_processed + 1
           /\ pc' = "service"

\* g_world_loop_mutex is free.
Unlocked == timer = NULL

\* LoginAttempt may refuse the connection.
EVENT_TYPE_CONNECT(p) ==
    /\ Fetch(p, "CONNECT") /\ Handled
    /\ data' = [data EXCEPT ![p] = conn[p]]
    /\ heap' = heap \cup {conn[p]}
    /\ \E s \in {"CONNECTED", "DISCONNECTING"} : Becomes(p, s)
    /\ UNCHANGED <<timer, throws, unsent, missed>>

\* Leaves the pointer to the deleted Player.
EVENT_TYPE_DISCONNECTMutant(p) ==
    /\ Fetch(p, "DISCONNECT") /\ Handled /\ Becomes(p, "DISCONNECTED")
    /\ data[p] # NULL => Unlocked
    /\ heap' = heap \ {data[p]}
    /\ UNCHANGED <<data, timer, throws, unsent, missed>>

\* The Player is saved, and deleted with the mutex held.
EVENT_TYPE_DISCONNECT(p) ==
    /\ Fetch(p, "DISCONNECT") /\ Handled /\ Becomes(p, "DISCONNECTED")
    /\ data[p] # NULL => Unlocked
    /\ heap' = heap \ {data[p]}
    /\ data' = [data EXCEPT ![p] = NULL]
    /\ UNCHANGED <<timer, throws, unsent, missed>>

Receives(p) == Fetch(p, "RECEIVE") /\ Handled

\* A packet for nobody, or one whose handler ends no connection.
Packet(p) ==
    /\ Receives(p)
    /\ UNCHANGED <<state, data, heap, timer, throws, unsent, missed>>

\* A packet whose handler disconnects q: p itself after too much data, a
\* refused login or an unknown packet, or another session of the account.
PacketKicks(p, q) ==
    /\ Receives(p) /\ data[p] # NULL
    /\ state[q] = "CONNECTED" /\ data[q] # NULL
    /\ Peer_Disconnect({q})
    /\ UNCHANGED <<data, heap, timer, throws, unsent, missed>>

\* The packet limit: without the mutex.
PacketLimitMutant(p) ==
    /\ Receives(p) /\ data[p] # NULL
    /\ Peer_Disconnect({p})
    /\ heap' = heap \ {data[p]}
    /\ data' = [data EXCEPT ![p] = NULL]
    /\ UNCHANGED <<timer, throws, unsent, missed>>

\* Only forgets the Player.
PacketLimitLeakMutant(p) ==
    /\ Receives(p) /\ data[p] # NULL
    /\ Peer_Disconnect({p})
    /\ data' = [data EXCEPT ![p] = NULL]
    /\ UNCHANGED <<heap, timer, throws, unsent, missed>>

\* The limit on game packets: the Player is saved, and deleted with the mutex held,
\* without waiting for DISCONNECT, which will find no Player.
PacketLimit(p) ==
    /\ Receives(p) /\ data[p] # NULL
    /\ Unlocked
    /\ Peer_Disconnect({p})
    /\ heap' = heap \ {data[p]}
    /\ data' = [data EXCEPT ![p] = NULL]
    /\ UNCHANGED <<timer, throws, unsent, missed>>

\* A game message before login is complete: Peer_Reset frees the slot, and no
\* DISCONNECT will come.
PacketResets(p) ==
    /\ Receives(p) /\ data[p] # NULL
    /\ Becomes(p, "DISCONNECTED")
    /\ missed' = missed \cup {data[p]}
    /\ UNCHANGED <<data, heap, timer, throws, unsent>>

\* The event is gone and nothing has come of it, except that ENet did its part.
Lost(p, kind) ==
    /\ Becomes(p, CASE kind = "CONNECT" -> "CONNECTED"
                    [] kind = "DISCONNECT" -> "DISCONNECTED"
                    [] kind = "RECEIVE" -> state[p])
    /\ unsent' = IF kind = "CONNECT" THEN unsent \cup {conn[p]} ELSE unsent
    /\ missed' = IF kind = "DISCONNECT" THEN missed \cup ({data[p]} \ {NULL}) ELSE missed
    /\ UNCHANGED <<data, heap, timer>>

\* A handler throws (CONNECT when there is no memory for a Player, DISCONNECT
\* before it deletes one): the loop starts again, without a tick.
Throw(p, kind) ==
    /\ Fetch(p, kind) /\ ~LastOfBatch /\ throws < MaxThrows
    /\ kind # "CONNECT" => data[p] # NULL
    /\ kind = "DISCONNECT" => Unlocked
    /\ Lost(p, kind)
    /\ throws' = throws + 1
    /\ events_processed' = 0 /\ pc' = "service"

\* The event that reaches the limit is dropped.
Drop(p, kind) ==
    /\ Fetch(p, kind) /\ LastOfBatch
    /\ Lost(p, kind)
    /\ events_processed' = events_processed + 1 /\ pc' = "tick"
    /\ UNCHANGED throws

\* enet_host_service returns 0.
NoEvent ==
    /\ pc = "service" /\ \A p \in Peers : Event(p) = "NONE"
    /\ pc' = "tick"
    /\ UNCHANGED <<enet, data, heap, events_processed, timer, throws, unsent, missed>>

\* The count goes on in the next batch.
WorldsTickMutant ==
    /\ pc = "tick" /\ Unlocked
    /\ pc' = "service"
    /\ UNCHANGED <<enet, data, heap, events_processed, timer, throws, unsent, missed>>

\* tick_jobs and, when 100 ms have passed, Looping::Worlds and PartyEvent::Tick.
WorldsTick ==
    /\ pc = "tick" /\ Unlocked
    /\ pc' = "service" /\ events_processed' = 0
    /\ UNCHANGED <<enet, data, heap, timer, throws, unsent, missed>>
-----------------------------------------------------------------------------
(* gameTimerThread.                                                        *)

\* It locks the mutex and comes to p, whose Player it reads.
TimerReads(p) ==
    /\ Unlocked
    /\ state[p] = "CONNECTED" /\ data[p] # NULL
    /\ timer' = data[p]
    /\ UNCHANGED <<enet, data, heap, pc, events_processed, throws, unsent, missed>>

TimerUnlocks ==
    /\ timer # NULL
    /\ timer' = NULL
    /\ UNCHANGED <<enet, data, heap, pc, events_processed, throws, unsent, missed>>
-----------------------------------------------------------------------------
ENet(p) == \/ enet_protocol_handle_connect(p)
           \/ enet_peer_queue_incoming_command(p)
           \/ enet_protocol_notify_disconnect(p)

Handle(p) == \/ EVENT_TYPE_CONNECT(p) \/ EVENT_TYPE_DISCONNECT(p)
             \/ Packet(p) \/ PacketLimit(p) \/ PacketResets(p)
             \/ \E q \in Peers : PacketKicks(p, q)
             \/ \E kind \in {"CONNECT", "RECEIVE", "DISCONNECT"} :
                   Throw(p, kind) \/ Drop(p, kind)

MainStep == (\E p \in Peers : Handle(p)) \/ NoEvent \/ WorldsTick

Next == \/ \E p \in Peers : ENet(p) \/ TimerReads(p)
        \/ MainStep
        \/ TimerUnlocks

\* The main thread runs; the timer thread sleeps 100 ms between two times that
\* it takes the mutex, so whoever waits for it gets it.
Fairness == SF_vars(MainStep) /\ WF_vars(TimerUnlocks)

Spec == Init /\ [][Next]_vars /\ Fairness
-----------------------------------------------------------------------------
(* Properties.                                                             *)

\* Types of the variables; a batch takes at most Batch events.
TypeOK ==
    /\ state \in [Peers -> States]
    /\ conn \in [Peers -> Conns \cup {NULL}] /\ conns \in 0..MaxConns
    /\ incoming \in [Peers -> 0..MaxPackets]
    /\ data \in [Peers -> Conns \cup {NULL}]
    /\ heap \subseteq Conns
    /\ pc \in {"service", "tick"} /\ events_processed \in 0..Batch
    /\ timer \in Conns \cup {NULL}
    /\ throws \in 0..MaxThrows
    /\ unsent \subseteq Conns /\ missed \subseteq Conns

\* peer->data is the Player of the connection at the slot.  It is that of an
\* earlier one only if the DISCONNECT of that one and the CONNECT of the present
\* one both never reached their handlers: a single lost event puts nobody in
\* the place of another player.
OwnPlayer ==
    \A p \in Peers : data[p] # NULL =>
        IF state[p] \in {"CONNECTED", "DISCONNECTING", "ZOMBIE"}
        THEN data[p] = conn[p] \/ (data[p] \in missed /\ conn[p] \in unsent)
        ELSE data[p] \in missed

\* A Player that no slot points to any more has been deleted, unless its
\* DISCONNECT never reached the handler; and no slot points to a deleted one.
NoLeak == LET used == {data[p] : p \in Peers} \ {NULL}
          IN used \subseteq heap /\ heap \subseteq used \cup missed

\* The timer thread never reads a deleted Player, although CONNECT and packet
\* handlers run while it does.
NoUseAfterFree == timer # NULL => timer \in heap

\* "limit events per batch to prevent starving Looping::Worlds()": the tick
\* comes again and again however fast packets come.
TickNotStarved == []<><<WorldsTick>>_vars
=============================================================================
