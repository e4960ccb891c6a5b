---------------------------- MODULE AsyncWriter ----------------------------
(***************************************************************************)
(* AsyncWriter: the write-behind queue through which players, worlds and   *)
(* guilds are saved (src/NopySource/Handle/WorldInfo.h, class AsyncWriter).*)
(* Any thread may Push; one Worker thread pops a task under mutex_ and     *)
(* writes the file outside it; the destructor of the static object runs    *)
(* at exit() while other threads may still be pushing.                     *)
(*                                                                         *)
(* The critical sections of Push and of the destructor are one step each,  *)
(* enabled while mutex_ is free; the notify_one that follows the unlock is *)
(* a step of its own.  The worker holds mutex_ from evaluating the wait    *)
(* predicate until it is asleep, and these are two steps.                  *)
(* Definitions named ...Mutant are faulty variants that the properties     *)
(* must tell from the code; no specification uses them.                    *)
(***************************************************************************)
EXTENDS Naturals, Sequences

CONSTANTS Threads,    \* threads that call Push
          Paths,      \* files of the database
          Openable,   \* those whose ofstream opens (file.is_open())
          MaxPushes,  \* bound: tasks pushed in a behaviour
          Torn,       \* content of a file between truncation and close
          NoTask

\* Content n is what the n-th Push carries; 0 is on disk at start.
Data == 0 .. MaxPushes

Task == [path : Paths, data : Data]

ASSUME AWAssumption == /\ MaxPushes \in Nat
                       /\ Openable \subseteq Paths
                       /\ Torn \notin Data
                       /\ NoTask \notin Task

VARIABLES queue,     \* queue_
          mutex,     \* "free", or "worker" while the worker holds mutex_
          running,   \* running_
          worker,    \* program counter of Worker()
          task,      \* Worker's local task
          pusher,    \* pusher[t]: "idle", or "notify" before cv_.notify_one
          dtor,      \* "alive", "notify", "join", "destroyed"
          file,      \* file[p]: content of file p
          pushes,    \* number of Push calls so far
          last       \* history: data of the last task for p pushed before
                     \* the worker ended

vars == <<queue, mutex, running, worker, task, pusher, dtor, file, pushes, last>>

WorkerPC == {"loop", "loopq", "lock", "block", "sleep", "ready", "open", "write", "done"}

Init == /\ queue = <<>>
        /\ mutex = "free"
        /\ running = TRUE
        /\ worker = "loop"
        /\ task = NoTask
        /\ pusher = [t \in Threads |-> "idle"]
        /\ dtor = "alive"
        /\ file = [p \in Paths |-> 0]
        /\ pushes = 0
        /\ last = [p \in Paths |-> 0]

\* notify_one wakes the worker, which re-acquires mutex_; with nobody
\* waiting it does nothing.
notify_one == worker' = IF worker = "sleep" THEN "lock" ELSE worker

(***************************************************************************)
(* Push.                                                                   *)
(***************************************************************************)
Push(t, p) ==
    /\ pusher[t] = "idle"
    /\ dtor # "destroyed"
    /\ mutex = "free"
    /\ pushes < MaxPushes
    /\ pushes' = pushes + 1
    /\ queue' = Append(queue, [path |-> p, data |-> pushes + 1])
    /\ last' = IF worker = "done" THEN last ELSE [last EXCEPT ![p] = pushes + 1]
    /\ pusher' = [pusher EXCEPT ![t] = "notify"]
    /\ UNCHANGED <<mutex, running, worker, task, dtor, file>>

\* Push without cv_.notify_one().
PushNotifyMutant(t) ==
    /\ pusher[t] = "notify"
    /\ pusher' = [pusher EXCEPT ![t] = "idle"]
    /\ UNCHANGED <<queue, mutex, running, worker, task, dtor, file, pushes, last>>

PushNotify(t) ==
    /\ pusher[t] = "notify"
    /\ pusher' = [pusher EXCEPT ![t] = "idle"]
    /\ notify_one
    /\ UNCHANGED <<queue, mutex, running, task, dtor, file, pushes, last>>

(***************************************************************************)
(* Worker.                                                                 *)
(***************************************************************************)
\* while (running_.load() || ...
LoopRunning ==
    /\ worker = "loop"
    /\ worker' = IF running THEN "lock" ELSE "loopq"
    /\ UNCHANGED <<queue, mutex, running, task, pusher, dtor, file, pushes, last>>

\* while (running_.load()) alone.
LoopQueueMutant ==
    /\ worker = "loopq"
    /\ worker' = "done"
    /\ UNCHANGED <<queue, mutex, running, task, pusher, dtor, file, pushes, last>>

\* ... || !queue_.empty()): read without mutex_.
LoopQueue ==
    /\ worker = "loopq"
    /\ worker' = IF queue # <<>> THEN "lock" ELSE "done"
    /\ UNCHANGED <<queue, mutex, running, task, pusher, dtor, file, pushes, last>>

\* cv_.wait: acquire mutex_, then evaluate the predicate.
Lock ==
    /\ worker = "lock"
    /\ mutex = "free"
    /\ mutex' = "worker"
    /\ worker' = IF queue = <<>> /\ running THEN "block" ELSE "ready"
    /\ UNCHANGED <<queue, running, task, pusher, dtor, file, pushes, last>>

\* The predicate was false: release mutex_ and sleep.
WaitSleep ==
    /\ worker = "block"
    /\ mutex' = "free"
    /\ worker' = "sleep"
    /\ UNCHANGED <<queue, running, task, pusher, dtor, file, pushes, last>>

SpuriousWakeup ==
    /\ worker = "sleep"
    /\ worker' = "lock"
    /\ UNCHANGED <<queue, mutex, running, task, pusher, dtor, file, pushes, last>>

\* Leaves as soon as running_ is false, whatever is queued.
WaitBreakMutant ==
    /\ worker = "ready"
    /\ ~running
    /\ mutex' = "free"
    /\ worker' = "done"
    /\ UNCHANGED <<queue, running, task, pusher, dtor, file, pushes, last>>

\* Nothing left and no longer running: break.
WaitBreak ==
    /\ worker = "ready"
    /\ queue = <<>>
    /\ ~running
    /\ mutex' = "free"
    /\ worker' = "done"
    /\ UNCHANGED <<queue, running, task, pusher, dtor, file, pushes, last>>

\* A stack instead of a queue.
WaitPopMutant ==
    /\ worker = "ready"
    /\ queue # <<>>
    /\ task' = queue[Len(queue)]
    /\ queue' = SubSeq(queue, 1, Len(queue) - 1)
    /\ mutex' = "free"
    /\ worker' = "open"
    /\ UNCHANGED <<running, pusher, dtor, file, pushes, last>>

WaitPop ==
    /\ worker = "ready"
    /\ queue # <<>>
    /\ task' = Head(queue)
    /\ queue' = Tail(queue)
    /\ mutex' = "free"
    /\ worker' = "open"
    /\ UNCHANGED <<running, pusher, dtor, file, pushes, last>>

\* std::ofstream truncates the file; a file that does not open is skipped.
Open ==
    /\ worker = "open"
    /\ IF task.path \in Openable
       THEN /\ file' = [file EXCEPT ![task.path] = Torn]
            /\ worker' = "write"
            /\ UNCHANGED task
       ELSE /\ worker' = "loop"
            /\ task' = NoTask
            /\ UNCHANGED file
    /\ UNCHANGED <<queue, mutex, running, pusher, dtor, pushes, last>>

\* Streams the path into the file instead of the data.
WriteMutant ==
    /\ worker = "write"
    /\ file' = [file EXCEPT ![task.path] = task.path]
    /\ task' = NoTask
    /\ worker' = "loop"
    /\ UNCHANGED <<queue, mutex, running, pusher, dtor, pushes, last>>

Write ==
    /\ worker = "write"
    /\ file' = [file EXCEPT ![task.path] = task.data]
    /\ task' = NoTask
    /\ worker' = "loop"
    /\ UNCHANGED <<queue, mutex, running, pusher, dtor, pushes, last>>

(***************************************************************************)
(* ~AsyncWriter.                                                           *)
(***************************************************************************)
\* running_.store(false) outside mutex_: the worker may be about to sleep.
DtorStopMutant ==
    /\ dtor = "alive"
    /\ running' = FALSE
    /\ dtor' = "notify"
    /\ UNCHANGED <<queue, mutex, worker, task, pusher, file, pushes, last>>

DtorStop ==
    /\ dtor = "alive"
    /\ mutex = "free"
    /\ running' = FALSE
    /\ dtor' = "notify"
    /\ UNCHANGED <<queue, mutex, worker, task, pusher, file, pushes, last>>

DtorNotify ==
    /\ dtor = "notify"
    /\ dtor' = "join"
    /\ notify_one
    /\ UNCHANGED <<queue, mutex, running, task, pusher, file, pushes, last>>

DtorJoin ==
    /\ dtor = "join"
    /\ worker = "done"
    /\ dtor' = "destroyed"
    /\ UNCHANGED <<queue, mutex, running, worker, task, pusher, file, pushes, last>>

WorkerStep == \/ LoopRunning \/ LoopQueue \/ Lock
              \/ WaitSleep \/ WaitBreak \/ WaitPop
              \/ Open \/ Write

Next == \/ \E t \in Threads, p \in Paths : Push(t, p)
        \/ \E t \in Threads : PushNotify(t)
        \/ WorkerStep
        \/ SpuriousWakeup
        \/ DtorStop \/ DtorNotify \/ DtorJoin

\* Nobody has to push or to exit; a thread that is running goes on.
Fairness == /\ WF_vars(WorkerStep)
            /\ WF_vars(DtorNotify)
            /\ WF_vars(DtorJoin)
            /\ \A t \in Threads : WF_vars(PushNotify(t))

Spec == Init /\ [][Next]_vars

FairSpec == Spec /\ Fairness
-----------------------------------------------------------------------------
(***************************************************************************)
(* Properties.                                                             *)
(***************************************************************************)
\* Types of the variables.
TypeOK == /\ queue \in Seq(Task)
          /\ mutex \in {"free", "worker"}
          /\ running \in BOOLEAN
          /\ worker \in WorkerPC
          /\ task \in Task \cup {NoTask}
          /\ pusher \in [Threads -> {"idle", "notify"}]
          /\ dtor \in {"alive", "notify", "join", "destroyed"}
          /\ file \in [Paths -> Data \cup {Torn}]
          /\ pushes \in Data
          /\ last \in [Paths -> Data]

\* Nothing of p is queued or in the worker's hands.
Settled(p) == /\ \A i \in 1 .. Len(queue) : queue[i].path # p
              /\ task # NoTask => task.path # p

\* Whenever the writer holds no task for a file, the file has the content
\* that was pushed last for it before the worker ended: Worker() applies
\* tasks in the order of Push and drops none.
LastPushWins == \A p \in Openable : (worker # "done" /\ Settled(p)) => file[p] = last[p]

\* thread_.join() in ~AsyncWriter returns only once every task pushed while
\* the worker was alive is on disk: exit() loses no save already pushed.
JoinDrains == dtor = "destroyed" => \A p \in Openable : file[p] = last[p]

\* Once the destructor has begun, the join returns: the worker is not left
\* asleep on cv_ by the notify_one that precedes the join.
JoinReturns == (dtor # "alive") ~> (dtor = "destroyed")

\* A pushed content reaches its file, or a later Push to that file
\* supersedes it: no Push leaves the worker asleep with a task queued.
PushedIsWritten ==
    \A p \in Openable : \A d \in Data :
        (last[p] = d) ~> (file[p] = d \/ last[p] # d)

\* The thread, its mutex and its condition variable implement the abstract
\* writer.
WB == INSTANCE WriteBehind WITH pending <- IF worker = "done" THEN <<>> ELSE queue,
                                inflight <- task,
                                disk <- file,
                                stopped <- (worker = "done")
Implements == WB!WBSpec
=============================================================================
