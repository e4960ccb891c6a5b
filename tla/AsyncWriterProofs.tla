------------------------- MODULE AsyncWriterProofs -------------------------
(***************************************************************************)
(* Proofs about AsyncWriter for any threads, files and number of pushes.   *)
(***************************************************************************)
EXTENDS AsyncWriter, TLAPS

\* d is the data of the last task for p in the queue q.
LastQueued(q, p, d) ==
    \E i \in 1 .. Len(q) : /\ q[i].path = p
                           /\ q[i].data = d
                           /\ \A j \in 1 .. Len(q) : j > i => q[j].path # p

\* The worker has a task exactly while it writes, and a file it writes opened.
TaskInv == /\ (worker \in {"open", "write"}) <=> (task # NoTask)
           /\ worker = "write" => task.path \in Openable

\* The worker holds mutex_ from the predicate to the sleep, break or pop, and
\* ends only after the destructor has begun.
ControlInv == /\ (mutex = "worker") <=> (worker \in {"block", "ready"})
              /\ worker \in {"loopq", "done"} => ~running
              /\ dtor = "destroyed" => worker = "done"

\* Where the content pushed last for p is: at the latest place of the queue
\* that concerns p, else in the worker's hands, else in the file.
OrderInv ==
    \A p \in Openable :
        IF worker = "done" THEN file[p] = last[p]
        ELSE \/ LastQueued(queue, p, last[p])
             \/ /\ \A i \in 1 .. Len(queue) : queue[i].path # p
                /\ IF task # NoTask /\ task.path = p
                   THEN task.data = last[p]
                   ELSE file[p] = last[p]

IndInv == TypeOK /\ TaskInv /\ ControlInv /\ OrderInv

\* Types, the worker's task and the control state are kept by every step.
LEMMA ControlStep ==
    ASSUME TypeOK, TaskInv, ControlInv, [Next]_vars
    PROVE  TypeOK' /\ TaskInv' /\ ControlInv'
<1> USE AWAssumption DEF TypeOK, TaskInv, ControlInv, WorkerPC
<1>1. ASSUME NEW t \in Threads, NEW p \in Paths, Push(t, p)
      PROVE  TypeOK' /\ TaskInv' /\ ControlInv'
  <2>1. pushes + 1 \in Data
    BY <1>1 DEF Push, Data
  <2>2. [path |-> p, data |-> pushes + 1] \in Task
    BY <2>1 DEF Task
  <2> QED BY <1>1, <2>1, <2>2 DEF Push
<1>2. ASSUME NEW t \in Threads, PushNotify(t)
      PROVE  TypeOK' /\ TaskInv' /\ ControlInv'
  <2>1. pusher' \in [Threads -> {"idle", "notify"}]
    BY <1>2 DEF PushNotify
  <2>2. worker' = worker \/ (worker = "sleep" /\ worker' = "lock")
    BY <1>2 DEF PushNotify, notify_one
  <2> QED BY <1>2, <2>1, <2>2 DEF PushNotify
<1>3. CASE LoopRunning
  BY <1>3 DEF LoopRunning
<1>4. CASE LoopQueue
  BY <1>4 DEF LoopQueue
<1>5. CASE Lock
  BY <1>5 DEF Lock
<1>6. CASE WaitSleep
  BY <1>6 DEF WaitSleep
<1>7. CASE WaitBreak
  BY <1>7 DEF WaitBreak
<1>8. CASE WaitPop
  <2>1. Head(queue) \in Task /\ Tail(queue) \in Seq(Task)
    BY <1>8 DEF WaitPop
  <2> QED BY <1>8, <2>1 DEF WaitPop
<1>9. CASE Open
  <2>1. task \in Task
    BY <1>9 DEF Open
  <2>2. task.path \in Paths /\ task.data \in Data
    BY <2>1 DEF Task
  <2> QED BY <1>9, <2>1, <2>2 DEF Open
<1>10. CASE Write
  <2>1. task \in Task
    BY <1>10 DEF Write
  <2>2. task.path \in Paths /\ task.data \in Data
    BY <2>1 DEF Task
  <2> QED BY <1>10, <2>1, <2>2 DEF Write
<1>11. CASE SpuriousWakeup
  BY <1>11 DEF SpuriousWakeup
<1>12. CASE DtorStop
  BY <1>12 DEF DtorStop
<1>13. CASE DtorNotify
  BY <1>13 DEF DtorNotify, notify_one
<1>14. CASE DtorJoin
  BY <1>14 DEF DtorJoin
<1>15. CASE UNCHANGED vars
  BY <1>15 DEF vars
<1> QED
  BY <1>1, <1>2, <1>3, <1>4, <1>5, <1>6, <1>7, <1>8, <1>9, <1>10, <1>11, <1>12, <1>13, <1>14, <1>15 DEF Next, WorkerStep

\* A Push, a pop or a write moves the content pushed last for a file along
\* queue, worker and disk; no other step concerns it.
LEMMA OrderStep ==
    ASSUME TypeOK, TaskInv, ControlInv, OrderInv, [Next]_vars
    PROVE  OrderInv'
<1> USE AWAssumption DEF TypeOK, OrderInv
<1>1. ASSUME NEW t \in Threads, NEW q \in Paths, Push(t, q) PROVE OrderInv'
  <2> DEFINE new == [path |-> q, data |-> pushes + 1]
  <2>1. /\ queue' = Append(queue, new)
        /\ worker' = worker /\ task' = task /\ file' = file
        /\ last' = IF worker = "done" THEN last ELSE [last EXCEPT ![q] = pushes + 1]
    BY <1>1 DEF Push
  <2>2. CASE worker = "done"
    BY <2>1, <2>2
  <2>3. CASE worker # "done"
    <3> SUFFICES ASSUME NEW p \in Openable
                 PROVE  \/ LastQueued(queue', p, last'[p])
                        \/ /\ \A i \in 1 .. Len(queue') : queue'[i].path # p
                           /\ IF task # NoTask /\ task.path = p
                              THEN task.data = last'[p]
                              ELSE file[p] = last'[p]
      BY <2>1, <2>3
    <3>1. /\ Len(queue') = Len(queue) + 1
          /\ queue'[Len(queue) + 1] = new
          /\ \A i \in 1 .. Len(queue) : queue'[i] = queue[i]
          /\ Len(queue) \in Nat
      BY <2>1
    <3>2. CASE p = q
      <4>1. last'[p] = pushes + 1
        BY <2>1, <2>3, <3>2
      <4>2. /\ queue'[Len(queue) + 1].path = p
            /\ queue'[Len(queue) + 1].data = last'[p]
        BY <3>1, <3>2, <4>1
      <4> QED BY <3>1, <4>2 DEF LastQueued
    <3>3. CASE p # q
      <4>1. last'[p] = last[p]
        BY <2>1, <2>3, <3>3
      <4>2. queue'[Len(queue) + 1].path # p
        BY <3>1, <3>3
      <4>3. CASE LastQueued(queue, p, last[p])
        <5>1. PICK i \in 1 .. Len(queue) :
                /\ queue[i].path = p
                /\ queue[i].data = last[p]
                /\ \A j \in 1 .. Len(queue) : j > i => queue[j].path # p
          BY <4>3 DEF LastQueued
        <5>2. i \in 1 .. Len(queue') /\ queue'[i].path = p /\ queue'[i].data = last'[p]
          BY <3>1, <4>1, <5>1
        <5>3. ASSUME NEW j \in 1 .. Len(queue'), j > i PROVE queue'[j].path # p
          <6>1. CASE j = Len(queue) + 1
            BY <4>2, <6>1
          <6>2. CASE j # Len(queue) + 1
            <7>1. j \in 1 .. Len(queue)
              BY <3>1, <6>2
            <7> QED BY <3>1, <5>1, <5>3, <7>1
          <6> QED BY <6>1, <6>2
        <5> QED BY <5>2, <5>3 DEF LastQueued
      <4>4. CASE /\ \A i \in 1 .. Len(queue) : queue[i].path # p
                 /\ IF task # NoTask /\ task.path = p
                    THEN task.data = last[p]
                    ELSE file[p] = last[p]
        <5>1. ASSUME NEW i \in 1 .. Len(queue') PROVE queue'[i].path # p
          BY <3>1, <4>2, <4>4
        <5> QED BY <4>1, <4>4, <5>1
      <4> QED BY <2>3, <4>3, <4>4
    <3> QED BY <3>2, <3>3
  <2> QED BY <2>2, <2>3
<1>2. CASE WaitPop
  <2>1. /\ worker = "ready" /\ worker' = "open" /\ queue # <<>>
        /\ task = NoTask /\ task' = queue[1]
        /\ task' \in Task /\ task' # NoTask
        /\ queue' = Tail(queue) /\ file' = file /\ last' = last
    BY <1>2 DEF WaitPop, TaskInv
  <2>2. /\ Len(queue) \in Nat \ {0}
        /\ Len(queue') = Len(queue) - 1
        /\ \A i \in 1 .. Len(queue') : queue'[i] = queue[i + 1]
    BY <2>1
  <2> SUFFICES ASSUME NEW p \in Openable
               PROVE  \/ LastQueued(queue', p, last[p])
                      \/ /\ \A i \in 1 .. Len(queue') : queue'[i].path # p
                         /\ IF task'.path = p
                            THEN task'.data = last[p]
                            ELSE file[p] = last[p]
    BY <2>1
  <2>3. CASE LastQueued(queue, p, last[p])
    <3>1. PICK i \in 1 .. Len(queue) :
            /\ queue[i].path = p
            /\ queue[i].data = last[p]
            /\ \A j \in 1 .. Len(queue) : j > i => queue[j].path # p
      BY <2>3 DEF LastQueued
    <3>2. ASSUME NEW j \in 1 .. Len(queue'), j + 1 > i PROVE queue'[j].path # p
      BY <2>2, <3>1, <3>2
    <3>3. CASE i = 1
      BY <2>1, <2>2, <3>1, <3>2, <3>3
    <3>4. CASE i > 1
      <4>1. /\ i - 1 \in 1 .. Len(queue')
            /\ queue'[i - 1].path = p
            /\ queue'[i - 1].data = last[p]
        BY <2>2, <3>1, <3>4
      <4>2. \A j \in 1 .. Len(queue') : j > i - 1 => queue'[j].path # p
        BY <2>2, <3>2
      <4> QED BY <4>1, <4>2 DEF LastQueued
    <3> QED BY <3>3, <3>4
  <2>4. CASE /\ \A i \in 1 .. Len(queue) : queue[i].path # p
             /\ file[p] = last[p]
    BY <2>1, <2>2, <2>4
  <2> QED BY <2>1, <2>3, <2>4
<1>3. CASE Open
  <2>1. task \in Task /\ task # NoTask /\ worker = "open"
    BY <1>3 DEF Open, TaskInv
  <2>2. task.path \in Paths
    BY <2>1 DEF Task
  <2>3. CASE task.path \in Openable
    <3>1. \A p \in Openable : p # task.path => file'[p] = file[p]
      BY <1>3, <2>2, <2>3 DEF Open
    <3> QED BY <1>3, <2>1, <2>3, <3>1 DEF Open, LastQueued
  <2>4. CASE task.path \notin Openable
    BY <1>3, <2>1, <2>4 DEF Open, LastQueued
  <2> QED BY <2>3, <2>4
<1>4. CASE Write
  <2>1. task \in Task /\ task # NoTask /\ worker = "write" /\ task.path \in Openable
    BY <1>4 DEF Write, TaskInv
  <2>2. \A p \in Openable : file'[p] = IF p = task.path THEN task.data ELSE file[p]
    BY <1>4, <2>1 DEF Write
  <2> QED BY <1>4, <2>1, <2>2 DEF Write, LastQueued
<1>5. CASE LoopQueue
  BY <1>5 DEF LoopQueue, LastQueued, TaskInv
<1>6. CASE WaitBreak
  BY <1>6 DEF WaitBreak, LastQueued, TaskInv
<1>7. ASSUME UNCHANGED <<queue, task, file, last>>,
             (worker' = "done") <=> (worker = "done")
      PROVE  OrderInv'
  BY <1>7 DEF LastQueued
<1>8. ASSUME NEW t \in Threads, PushNotify(t) PROVE OrderInv'
  BY <1>7, <1>8 DEF PushNotify, notify_one
<1>9. CASE LoopRunning \/ Lock \/ WaitSleep \/ SpuriousWakeup
  BY <1>7, <1>9 DEF LoopRunning, Lock, WaitSleep, SpuriousWakeup
<1>10. CASE DtorStop \/ DtorNotify \/ DtorJoin
  BY <1>7, <1>10 DEF DtorStop, DtorNotify, DtorJoin, notify_one
<1>11. CASE UNCHANGED vars
  BY <1>7, <1>11 DEF vars
<1> QED
  BY <1>1, <1>2, <1>3, <1>4, <1>5, <1>6, <1>8, <1>9, <1>10, <1>11
  DEF Next, WorkerStep

\* The inductive invariant holds in every behaviour of the writer.
THEOREM Inductive == Spec => []IndInv
<1>1. Init => IndInv
  BY AWAssumption
  DEF Init, IndInv, TypeOK, TaskInv, ControlInv, OrderInv, LastQueued, Data, WorkerPC
<1>2. IndInv /\ [Next]_vars => IndInv'
  BY ControlStep, OrderStep DEF IndInv
<1> QED BY <1>1, <1>2, PTL DEF Spec

\* Every step of AsyncWriter keeps its variables within their types.
THEOREM TypeCorrect == Spec => []TypeOK
<1>1. IndInv => TypeOK
  BY DEF IndInv
<1> QED BY <1>1, Inductive, PTL

\* A file with no task queued or in hand has the content pushed last for it.
THEOREM LastPushWinsCorrect == Spec => []LastPushWins
<1>1. IndInv => LastPushWins
  BY DEF IndInv, OrderInv, LastQueued, LastPushWins, Settled
<1> QED BY <1>1, Inductive, PTL

\* ~AsyncWriter returns only when every task accepted is on disk.
THEOREM JoinDrainsCorrect == Spec => []JoinDrains
<1>1. IndInv => JoinDrains
  BY DEF IndInv, OrderInv, ControlInv, JoinDrains
<1> QED BY <1>1, Inductive, PTL

\* Every step of the threads is a step of the abstract writer or leaves its
\* state alone.
LEMMA RefinementStep ==
    ASSUME IndInv, IndInv', [Next]_vars
    PROVE  [WB!WBNext]_(WB!wbvars)
<1> USE AWAssumption DEF IndInv, TypeOK, TaskInv, ControlInv, WB!wbvars
<1>1. ASSUME NEW t \in Threads, NEW p \in Paths, Push(t, p)
      PROVE  [WB!WBNext]_(WB!wbvars)
  <2> DEFINE new == [path |-> p, data |-> pushes + 1]
  <2>1. new \in WB!Task
    BY <1>1 DEF Push, WB!Task, Data
  <2>2. CASE worker = "done"
    BY <1>1, <2>2 DEF Push
  <2>3. CASE worker # "done"
    <3>1. WB!Accept(new)
      BY <1>1, <2>3 DEF Push, WB!Accept
    <3> QED BY <2>1, <3>1 DEF WB!WBNext
  <2> QED BY <2>2, <2>3
<1>2. CASE WaitPop
  <2>1. WB!Take
    BY <1>2 DEF WaitPop, WB!Take
  <2> QED BY <2>1 DEF WB!WBNext
<1>3. CASE Open
  <2>1. CASE task.path \in Openable
    <3>1. WB!Truncate
      BY <1>3, <2>1 DEF Open, WB!Truncate
    <3> QED BY <3>1 DEF WB!WBNext
  <2>2. CASE task.path \notin Openable
    <3>1. WB!Complete
      BY <1>3, <2>2 DEF Open, WB!Complete
    <3> QED BY <3>1 DEF WB!WBNext
  <2> QED BY <2>1, <2>2
<1>4. CASE Write
  <2>1. WB!Complete
    BY <1>4 DEF Write, WB!Complete
  <2> QED BY <2>1 DEF WB!WBNext
<1>5. CASE LoopQueue
  <2>1. CASE queue = <<>>
    <3>1. WB!Stop
      BY <1>5, <2>1 DEF LoopQueue, WB!Stop
    <3> QED BY <3>1 DEF WB!WBNext
  <2>2. CASE queue # <<>>
    BY <1>5, <2>2 DEF LoopQueue
  <2> QED BY <2>1, <2>2
<1>6. CASE WaitBreak
  <2>1. WB!Stop
    BY <1>6 DEF WaitBreak, WB!Stop
  <2> QED BY <2>1 DEF WB!WBNext
<1>7. ASSUME UNCHANGED <<queue, task, file>>,
             (worker' = "done") <=> (worker = "done")
      PROVE  UNCHANGED WB!wbvars
  BY <1>7
<1>8. ASSUME NEW t \in Threads, PushNotify(t) PROVE UNCHANGED WB!wbvars
  BY <1>7, <1>8 DEF PushNotify, notify_one
<1>9. CASE LoopRunning \/ Lock \/ WaitSleep \/ SpuriousWakeup
  BY <1>7, <1>9 DEF LoopRunning, Lock, WaitSleep, SpuriousWakeup
<1>10. CASE DtorStop \/ DtorNotify \/ DtorJoin
  BY <1>7, <1>10 DEF DtorStop, DtorNotify, DtorJoin, notify_one
<1>11. CASE UNCHANGED vars
  BY <1>7, <1>11 DEF vars
<1> QED
  BY <1>1, <1>2, <1>3, <1>4, <1>5, <1>6, <1>8, <1>9, <1>10, <1>11
  DEF Next, WorkerStep

\* The threads, the mutex and the condition variable of AsyncWriter implement
\* the abstract write-behind queue.
THEOREM Refinement == Spec => Implements
<1>1. Init => WB!WBInit
  BY AWAssumption DEF Init, WB!WBInit, Data
<1>2. IndInv /\ IndInv' /\ [Next]_vars => [WB!WBNext]_(WB!wbvars)
  BY RefinementStep
<1> QED BY <1>1, <1>2, Inductive, PTL DEF Spec, Implements, WB!WBSpec
=============================================================================
