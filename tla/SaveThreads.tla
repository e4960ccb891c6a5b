---------------------------- MODULE SaveThreads ----------------------------
(***************************************************************************)
(* The threads that write JSON files, as players and worlds share them:    *)
(*   "async"       AsyncWriter's worker, at the granularity of WriteBehind *)
(*   "disconnect"  disconnectSaveThread / disconnectWorldSaveThread        *)
(*   "all"         SaveDatabase::All, which gets its job from the module   *)
(*                 that extends this one                                   *)
(* Each writes with a std::ofstream of its own and no lock, so that two    *)
(* may have one file open at a time.                                       *)
(***************************************************************************)
EXTENDS Naturals, Sequences

CONSTANTS Overlap,  \* two streams may have one file open at a time
          NoJob, NoFile, Torn

Writers == {"async", "disconnect", "all"}

VARIABLES aq,       \* AsyncWriter's queue
          dq,       \* g_disconnect_save_queue, g_disconnect_world_save_queue
          snap,     \* the thread's local copy of dq
          dpc,      \* program counter of the thread
          job,      \* job[w]: the save (name, data) that writer w holds
          opened,   \* opened[w]: w has the file of its job open
          clash,    \* clash[w]: another stream had that file open meanwhile
          file,     \* file[n]: content of the file of n
          covered,  \* history: edits that have been in a complete file
          torn      \* history: edits of saves that a mixture replaced

pipe == <<aq, dq, snap, dpc>>
disk == <<job, opened, clash, file, covered, torn>>

PipeInit == /\ aq = <<>> /\ dq = <<>> /\ snap = <<>>
            /\ dpc = "swap"
            /\ job = [w \in Writers |-> NoJob]
            /\ opened = [w \in Writers |-> FALSE]
            /\ clash = [w \in Writers |-> FALSE]
            /\ torn = {}

\* AsyncWriter::Worker takes the oldest task.
AsyncTake ==
    /\ job["async"] = NoJob
    /\ aq # <<>>
    /\ job' = [job EXCEPT !["async"] = Head(aq)]
    /\ aq' = Tail(aq)
    /\ UNCHANGED <<dq, snap, dpc, opened, clash, file, covered, torn>>

\* The thread swaps the queue out, writes every save, and looks at
\* g_server_running before it sleeps again.
DisconnectSwap ==
    /\ dpc = "swap"
    /\ snap' = dq
    /\ dq' = <<>>
    /\ dpc' = "write"
    /\ UNCHANGED <<aq, disk>>

DisconnectTake ==
    /\ dpc = "write"
    /\ job["disconnect"] = NoJob
    /\ snap # <<>>
    /\ job' = [job EXCEPT !["disconnect"] = Head(snap)]
    /\ snap' = Tail(snap)
    /\ UNCHANGED <<aq, dq, dpc, opened, clash, file, covered, torn>>

\* The thread returns after one round.
DisconnectLoopMutant(running) ==
    /\ dpc = "write"
    /\ job["disconnect"] = NoJob
    /\ snap = <<>>
    /\ dpc' = "done"
    /\ UNCHANGED <<aq, dq, snap, disk>>

DisconnectLoop(running) ==
    /\ dpc = "write"
    /\ job["disconnect"] = NoJob
    /\ snap = <<>>
    /\ dpc' = IF running THEN "swap" ELSE "done"
    /\ UNCHANGED <<aq, dq, snap, disk>>

\* Writers that have the file of n open.
Streams(n) == {w \in Writers : opened[w] /\ job[w].name = n}

\* std::ofstream f(path): truncates the file.
FileOpen(w) ==
    /\ job[w] # NoJob
    /\ ~opened[w]
    /\ LET others == Streams(job[w].name) IN
        /\ Overlap \/ others = {}
        /\ opened' = [opened EXCEPT ![w] = TRUE]
        /\ clash' = [v \in Writers |-> clash[v] \/ (others # {} /\ v \in others \cup {w})]
        /\ file' = [file EXCEPT ![job[w].name] = Torn]
    /\ UNCHANGED <<pipe, job, covered, torn>>

\* f << json; f.close(): two streams on one file leave the one's bytes, or a
\* mixture that does not parse.
FileClose(w, mixed) ==
    /\ opened[w]
    /\ mixed => clash[w]
    /\ file' = [file EXCEPT ![job[w].name] = IF mixed THEN Torn ELSE job[w].data]
    /\ covered' = IF mixed THEN covered ELSE covered \cup job[w].data
    /\ torn' = IF mixed THEN torn \cup job[w].data ELSE torn
    /\ job' = [job EXCEPT ![w] = NoJob]
    /\ opened' = [opened EXCEPT ![w] = FALSE]
    /\ clash' = [clash EXCEPT ![w] = FALSE]
    /\ UNCHANGED pipe

InSaves(e, q) == \E i \in 1 .. Len(q) : e \in q[i].data

\* Edit e is in a save that some thread has still to write.
InPipeline(e) == \/ InSaves(e, aq) \/ InSaves(e, dq) \/ InSaves(e, snap)
                 \/ \E w \in Writers : job[w] # NoJob /\ e \in job[w].data
=============================================================================
