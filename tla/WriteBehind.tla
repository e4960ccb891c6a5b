---------------------------- MODULE WriteBehind ----------------------------
(***************************************************************************)
(* What AsyncWriter (src/NopySource/Handle/WorldInfo.h) promises its       *)
(* callers, with no thread, lock or condition variable in sight: a task    *)
(* handed over is written to its file, tasks reach the disk one at a time  *)
(* and in the order of Push, and the writer stops only when nothing        *)
(* accepted is left to write.                                              *)
(***************************************************************************)
EXTENDS Naturals, Sequences

CONSTANTS Paths,     \* files of the database
          Openable,  \* those whose ofstream opens
          Data,      \* file contents
          Torn,      \* content of a file between truncation and close
          NoTask     \* the writer has no task in hand

VARIABLES pending,   \* accepted tasks, oldest first
          inflight,  \* the task being written, or NoTask
          disk,      \* disk[p]: content of file p
          stopped    \* the writer takes no more tasks

wbvars == <<pending, inflight, disk, stopped>>

Task == [path : Paths, data : Data]

WBInit == /\ pending = <<>>
          /\ inflight = NoTask
          /\ disk \in [Paths -> Data]
          /\ stopped = FALSE

Accept(t) == /\ ~stopped
             /\ pending' = Append(pending, t)
             /\ UNCHANGED <<inflight, disk, stopped>>

Take == /\ ~stopped
        /\ inflight = NoTask
        /\ pending # <<>>
        /\ inflight' = Head(pending)
        /\ pending' = Tail(pending)
        /\ UNCHANGED <<disk, stopped>>

\* Opening the file truncates it.
Truncate == /\ inflight # NoTask
            /\ inflight.path \in Openable
            /\ disk' = [disk EXCEPT ![inflight.path] = Torn]
            /\ UNCHANGED <<pending, inflight, stopped>>

Complete == /\ inflight # NoTask
            /\ disk' = IF inflight.path \in Openable
                       THEN [disk EXCEPT ![inflight.path] = inflight.data]
                       ELSE disk
            /\ inflight' = NoTask
            /\ UNCHANGED <<pending, stopped>>

Stop == /\ pending = <<>>
        /\ inflight = NoTask
        /\ stopped' = TRUE
        /\ UNCHANGED <<pending, inflight, disk>>

WBNext == \/ \E t \in Task : Accept(t)
          \/ Take
          \/ Truncate
          \/ Complete
          \/ Stop

WBSpec == WBInit /\ [][WBNext]_wbvars
=============================================================================
