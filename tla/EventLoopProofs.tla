--------------------------- MODULE EventLoopProofs ---------------------------
(***************************************************************************)
(* EventLoop keeps its safety properties, whatever the number of slots,    *)
(* connections, packets and exceptions and the size of a batch.            *)
(***************************************************************************)
EXTENDS EventLoop, TLAPS

\* A batch that goes on is not full.
BatchInv == pc = "service" => events_processed < Batch

\* No two slots have had one connection last, or have one Player.
Distinct ==
    /\ \A p, q \in Peers : conn[p] = conn[q] /\ conn[p] # NULL => p = q
    /\ \A p, q \in Peers : data[p] = data[q] /\ data[p] # NULL => p = q

\* Players are those of connections that there have been, and the Player of a
\* connection whose CONNECT has not been fetched is not allocated.
Fresh ==
    /\ \A p \in Peers : conn[p] <= conns
    /\ \A c \in heap : c <= conns
    /\ \A p \in Peers : state[p] = "ACKNOWLEDGING_CONNECT" => conn[p] # NULL /\ conn[p] \notin heap

\* NoLeak without sets of Players.
LeakInv ==
    /\ \A p \in Peers : data[p] # NULL => data[p] \in heap
    /\ \A c \in heap : c \in missed \/ \E p \in Peers : data[p] = c

IndInv == TypeOK /\ BatchInv /\ Distinct /\ Fresh /\ LeakInv /\ OwnPlayer /\ NoUseAfterFree
-----------------------------------------------------------------------------
\* What the proofs use of the assumption on the constants.
LEMMA Consts ==
    /\ MaxConns \in Nat /\ MaxPackets \in Nat /\ MaxThrows \in Nat
    /\ Batch \in Nat /\ Batch > 0
BY EventLoopAssumption

\* The loop starts in the invariant.
LEMMA InitInv == Init => IndInv
BY Consts DEF Init, IndInv, TypeOK, States, Conns, NULL, BatchInv, Distinct, Fresh, LeakInv,
    OwnPlayer, NoUseAfterFree

\* Every step keeps it.  A Player is deleted only by a slot that is the only one
\* to point to it, and never while the timer thread reads.
LEMMA StepInv == IndInv /\ [Next]_vars => IndInv'
<1> SUFFICES ASSUME IndInv, [Next]_vars PROVE IndInv'
  OBVIOUS
<1> USE Consts DEF IndInv, TypeOK, NULL, Conns
<1>1. ASSUME NEW p \in Peers, enet_protocol_handle_connect(p) PROVE IndInv'
  <2>1. TypeOK' /\ BatchInv'
    BY <1>1 DEF enet_protocol_handle_connect, States, BatchInv, Fresh
  <2>2. Distinct' /\ Fresh'
    BY <1>1 DEF enet_protocol_handle_connect, Distinct, Fresh, LeakInv
  <2>3. LeakInv' /\ NoUseAfterFree'
    BY <1>1 DEF enet_protocol_handle_connect, LeakInv, NoUseAfterFree, Distinct,
      OwnPlayer
  <2>4. OwnPlayer'
    BY <1>1 DEF enet_protocol_handle_connect, OwnPlayer
  <2> QED BY <2>1, <2>2, <2>3, <2>4
<1>2. ASSUME NEW p \in Peers, enet_peer_queue_incoming_command(p) PROVE IndInv'
  BY <1>2 DEF enet_peer_queue_incoming_command, States, BatchInv, Distinct, Fresh,
    LeakInv, OwnPlayer, NoUseAfterFree
<1>3. ASSUME NEW p \in Peers, enet_protocol_notify_disconnect(p) PROVE IndInv'
  <2>1. TypeOK' /\ BatchInv'
    BY <1>3 DEF enet_protocol_notify_disconnect, States, BatchInv, Fresh
  <2>2. Distinct' /\ Fresh'
    BY <1>3 DEF enet_protocol_notify_disconnect, Distinct, Fresh, LeakInv
  <2>3. LeakInv' /\ NoUseAfterFree'
    BY <1>3 DEF enet_protocol_notify_disconnect, LeakInv, NoUseAfterFree, Distinct,
      OwnPlayer
  <2>4. OwnPlayer'
    BY <1>3 DEF enet_protocol_notify_disconnect, OwnPlayer
  <2> QED BY <2>1, <2>2, <2>3, <2>4
<1>4. ASSUME NEW p \in Peers, EVENT_TYPE_CONNECT(p) PROVE IndInv'
  <2>1. TypeOK' /\ BatchInv'
    BY <1>4 DEF EVENT_TYPE_CONNECT, Fetch, Event, Handled, LastOfBatch, Becomes, States,
      BatchInv, Fresh
  <2>2. Distinct' /\ Fresh'
    BY <1>4 DEF EVENT_TYPE_CONNECT, Fetch, Event, Handled, LastOfBatch, Becomes,
      Distinct, Fresh, LeakInv
  <2>3. LeakInv' /\ NoUseAfterFree'
    BY <1>4 DEF EVENT_TYPE_CONNECT, Fetch, Event, Handled, LastOfBatch, Becomes,
      LeakInv, NoUseAfterFree, Distinct, OwnPlayer
  <2>4. OwnPlayer'
    BY <1>4 DEF EVENT_TYPE_CONNECT, Fetch, Event, Handled, LastOfBatch, Becomes,
      OwnPlayer
  <2> QED BY <2>1, <2>2, <2>3, <2>4
<1>5. ASSUME NEW p \in Peers, EVENT_TYPE_DISCONNECT(p) PROVE IndInv'
  <2>1. TypeOK' /\ BatchInv'
    BY <1>5 DEF EVENT_TYPE_DISCONNECT, Fetch, Event, Handled, LastOfBatch, Becomes,
      Unlocked, States, BatchInv, Fresh
  <2>2. Distinct' /\ Fresh'
    BY <1>5 DEF EVENT_TYPE_DISCONNECT, Fetch, Event, Handled, LastOfBatch, Becomes,
      Unlocked, Distinct, Fresh, LeakInv
  <2>3. LeakInv' /\ NoUseAfterFree'
    BY <1>5 DEF EVENT_TYPE_DISCONNECT, Fetch, Event, Handled, LastOfBatch, Becomes,
      Unlocked, LeakInv, NoUseAfterFree, Distinct, OwnPlayer
  <2>4. OwnPlayer'
    BY <1>5 DEF EVENT_TYPE_DISCONNECT, Fetch, Event, Handled, LastOfBatch, Becomes,
      Unlocked, OwnPlayer
  <2> QED BY <2>1, <2>2, <2>3, <2>4
<1>6. ASSUME NEW p \in Peers, Packet(p) PROVE IndInv'
  BY <1>6 DEF Packet, Receives, Fetch, Event, Handled, LastOfBatch, States, BatchInv,
    Distinct, Fresh, LeakInv, OwnPlayer, NoUseAfterFree
<1>7. ASSUME NEW p \in Peers, NEW q \in Peers, PacketKicks(p, q) PROVE IndInv'
  BY <1>7 DEF PacketKicks, Receives, Fetch, Event, Handled, LastOfBatch,
    Peer_Disconnect, States, BatchInv, Distinct, Fresh, LeakInv, OwnPlayer,
    NoUseAfterFree
<1>8. ASSUME NEW p \in Peers, PacketLimit(p) PROVE IndInv'
  <2>1. TypeOK' /\ BatchInv'
    BY <1>8 DEF PacketLimit, Receives, Fetch, Event, Handled, LastOfBatch,
      Peer_Disconnect, Unlocked, States, BatchInv, Fresh
  <2>2. Distinct' /\ Fresh'
    BY <1>8 DEF PacketLimit, Receives, Fetch, Event, Handled, LastOfBatch,
      Peer_Disconnect, Unlocked, Distinct, Fresh, LeakInv
  <2>3. LeakInv' /\ NoUseAfterFree'
    BY <1>8 DEF PacketLimit, Receives, Fetch, Event, Handled, LastOfBatch,
      Peer_Disconnect, Unlocked, LeakInv, NoUseAfterFree, Distinct, OwnPlayer
  <2>4. OwnPlayer'
    BY <1>8 DEF PacketLimit, Receives, Fetch, Event, Handled, LastOfBatch,
      Peer_Disconnect, Unlocked, OwnPlayer
  <2> QED BY <2>1, <2>2, <2>3, <2>4
<1>9. ASSUME NEW p \in Peers, PacketResets(p) PROVE IndInv'
  <2>1. TypeOK' /\ BatchInv'
    BY <1>9 DEF PacketResets, Receives, Fetch, Event, Handled, LastOfBatch, Becomes,
      States, BatchInv, Fresh
  <2>2. Distinct' /\ Fresh'
    BY <1>9 DEF PacketResets, Receives, Fetch, Event, Handled, LastOfBatch, Becomes,
      Distinct, Fresh, LeakInv
  <2>3. LeakInv' /\ NoUseAfterFree'
    BY <1>9 DEF PacketResets, Receives, Fetch, Event, Handled, LastOfBatch, Becomes,
      LeakInv, NoUseAfterFree, Distinct, OwnPlayer
  <2>4. OwnPlayer'
    BY <1>9 DEF PacketResets, Receives, Fetch, Event, Handled, LastOfBatch, Becomes,
      OwnPlayer
  <2> QED BY <2>1, <2>2, <2>3, <2>4
<1>10. ASSUME NEW p \in Peers, NEW kind \in {"CONNECT", "RECEIVE", "DISCONNECT"},
  Throw(p, kind) PROVE IndInv'
  <2>1. TypeOK' /\ BatchInv'
    BY <1>10 DEF Throw, Lost, Fetch, Event, LastOfBatch, Becomes, States, BatchInv,
      Fresh
  <2>2. Distinct' /\ Fresh'
    BY <1>10 DEF Throw, Lost, Fetch, Event, LastOfBatch, Becomes, Distinct, Fresh,
      LeakInv
  <2>3. LeakInv' /\ NoUseAfterFree'
    BY <1>10 DEF Throw, Lost, Fetch, Event, LastOfBatch, Becomes, LeakInv,
      NoUseAfterFree, Distinct, OwnPlayer
  <2>4. OwnPlayer'
    BY <1>10 DEF Throw, Lost, Fetch, Event, LastOfBatch, Becomes, OwnPlayer
  <2> QED BY <2>1, <2>2, <2>3, <2>4
<1>11. ASSUME NEW p \in Peers, NEW kind \in {"CONNECT", "RECEIVE", "DISCONNECT"},
  Drop(p, kind) PROVE IndInv'
  <2>1. TypeOK' /\ BatchInv'
    BY <1>11 DEF Drop, Lost, Fetch, Event, LastOfBatch, Becomes, States, BatchInv, Fresh
  <2>2. Distinct' /\ Fresh'
    BY <1>11 DEF Drop, Lost, Fetch, Event, LastOfBatch, Becomes, Distinct, Fresh,
      LeakInv
  <2>3. LeakInv' /\ NoUseAfterFree'
    BY <1>11 DEF Drop, Lost, Fetch, Event, LastOfBatch, Becomes, LeakInv,
      NoUseAfterFree, Distinct, OwnPlayer
  <2>4. OwnPlayer'
    BY <1>11 DEF Drop, Lost, Fetch, Event, LastOfBatch, Becomes, OwnPlayer
  <2> QED BY <2>1, <2>2, <2>3, <2>4
<1>12. ASSUME NEW p \in Peers, TimerReads(p) PROVE IndInv'
  BY <1>12 DEF TimerReads, enet, Unlocked, States, BatchInv, Distinct, Fresh, LeakInv,
    OwnPlayer, NoUseAfterFree
<1>13. ASSUME NoEvent PROVE IndInv'
  BY <1>13 DEF NoEvent, enet, BatchInv, Distinct, Fresh, LeakInv, OwnPlayer,
    NoUseAfterFree
<1>14. ASSUME WorldsTick PROVE IndInv'
  BY <1>14 DEF WorldsTick, enet, BatchInv, Distinct, Fresh, LeakInv, OwnPlayer,
    NoUseAfterFree
<1>15. ASSUME TimerUnlocks PROVE IndInv'
  BY <1>15 DEF TimerUnlocks, enet, BatchInv, Distinct, Fresh, LeakInv, OwnPlayer,
    NoUseAfterFree
<1>16. ASSUME UNCHANGED vars PROVE IndInv'
  BY <1>16 DEF vars, enet, BatchInv, Distinct, Fresh, LeakInv, OwnPlayer, NoUseAfterFree
<1> QED
  BY <1>1, <1>2, <1>3, <1>4, <1>5, <1>6, <1>7, <1>8, <1>9, <1>10, <1>11, <1>12, <1>13,
    <1>14, <1>15, <1>16 DEF Next, MainStep, Handle, ENet

\* The invariant holds in every behaviour.
LEMMA Invariance == Spec => []IndInv
BY InitInv, StepInv, PTL DEF Spec

\* The variables keep their types and no batch takes more than Batch events.
THEOREM TypeCorrect == Spec => []TypeOK
<1>1. IndInv => TypeOK BY DEF IndInv
<1> QED BY <1>1, Invariance, PTL

\* Nobody plays with another connection's Player unless two events were lost:
\* the DISCONNECT of that connection and the CONNECT of this one.
THEOREM OwnPlayerCorrect == Spec => []OwnPlayer
<1>1. IndInv => OwnPlayer BY DEF IndInv
<1> QED BY <1>1, Invariance, PTL

\* A Player that no slot has is deleted, unless its DISCONNECT was lost.
THEOREM NoLeakCorrect == Spec => []NoLeak
<1>1. IndInv => NoLeak BY Consts DEF IndInv, LeakInv, NoLeak, TypeOK, Conns, NULL
<1> QED BY <1>1, Invariance, PTL

\* gameTimerThread never reads a deleted Player.
THEOREM NoUseAfterFreeCorrect == Spec => []NoUseAfterFree
<1>1. IndInv => NoUseAfterFree BY DEF IndInv
<1> QED BY <1>1, Invariance, PTL
=============================================================================
