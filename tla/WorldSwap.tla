------------------------------ MODULE WorldSwap ------------------------------
(***************************************************************************)
(* "Change of Address": create_address_world exchanges the names of two    *)
(* worlds by renaming their files.  It runs on the main thread, between    *)
(* the steps of WorldStore, while the writers go on.  Its steps are the    *)
(* ones its comments number: flush the disconnect queue, 1 save both       *)
(* worlds, 2 rename, 3 kick the players, 4 unload both worlds.  The        *)
(* streams of this module do not overlap: no file is renamed while it is   *)
(* open.                                                                   *)
(***************************************************************************)
EXTENDS WorldStore

CONSTANTS NoSwap,
          MaxSwaps     \* bound: name swaps

VARIABLES swap,        \* the create_address_world call in progress
          swaps        \* swaps so far

swapVars == <<vars, swap, swaps>>

Swap == [pc : {"load", "return", "save", "rename", "kick", "unload"},
         cur : Worlds, tgt : Worlds]

ASSUME SwapAssumption == MaxSwaps \in Nat /\ NoSwap \notin Swap

SwapInit == Init /\ swap = NoSwap /\ swaps = 0

\* The saves of q for neither world, and the last one for w.
Others(q, ws) == SelectSeq(q, LAMBDA s : s.name \notin ws)
Last1(q, w) == LET s == SelectSeq(q, LAMBDA x : x.name = w)
               IN IF s = <<>> THEN file[w] ELSE s[Len(s)].data

\* Writes the saves of both worlds that wait in the disconnect queue, and
\* loads the target.  The caller must own both worlds and have the item.
SwapBegin(p, tgt, allowed) ==
    /\ Idle
    /\ swap = NoSwap
    /\ swaps < MaxSwaps
    /\ state[p] = "connected"
    /\ world[p] \in Worlds \ {tgt}
    /\ find_if(worlds, world[p]) # 0
    /\ LET both == {world[p], tgt} IN
        /\ \A w \in both : Streams(w) = {}
        /\ dq' = Others(dq, both)
        /\ file' = [w \in Worlds |-> IF w \in both THEN Last1(dq, w) ELSE file[w]]
        /\ covered' = covered \cup UNION {dq[i].data : i \in {j \in DOMAIN dq : dq[j].name \in both}}
    /\ swaps' = swaps + 1
    /\ swap' = [pc |-> IF allowed THEN "load" ELSE "return", cur |-> world[p], tgt |-> tgt]
    /\ UNCHANGED <<mem, all, aq, snap, dpc, job, opened, clash, torn, clock, unmarked>>

SwapLoad ==
    /\ swap # NoSwap
    /\ swap.pc \in {"load", "return"}
    /\ LET new == get_world(swap.tgt)
           ws  == worlds \o new
       IN /\ worlds' = ws
          /\ worlds_idx' = IF new = <<>> THEN worlds_idx
                           ELSE [worlds_idx EXCEPT ![swap.tgt] = Len(ws)]
    /\ swap' = IF swap.pc = "load" THEN [swap EXCEPT !.pc = "save"] ELSE NoSwap
    /\ UNCHANGED <<state, world, edit, sweep, joins, all, pipe, disk, clock, unmarked, swaps>>

\* Step 1: mark every copy and save_world(name, false), which finds the first
\* copy: AsyncWriter gets the two saves in the order of the vector.
SwapSave ==
    /\ swap # NoSwap
    /\ swap.pc = "save"
    /\ Len(aq) + 2 <= MaxQueue
    /\ LET i == find_if(worlds, swap.cur)
           j == find_if(worlds, swap.tgt)
           S(k) == [name |-> worlds[k].name, data |-> worlds[k].ver]
       IN /\ aq' = aq \o (IF i < j THEN <<S(i), S(j)>> ELSE <<S(j), S(i)>>)
          /\ worlds' = [k \in DOMAIN worlds |->
                          IF worlds[k].name \in {swap.cur, swap.tgt}
                          THEN [worlds[k] EXCEPT !.fresh_world = k \notin {i, j}]
                          ELSE worlds[k]]
          /\ worlds_idx' = [worlds_idx EXCEPT ![swap.cur] = i, ![swap.tgt] = j]
    /\ swap' = [swap EXCEPT !.pc = "rename"]
    /\ UNCHANGED <<state, world, edit, sweep, joins, all, dq, snap, dpc, disk, clock, unmarked, swaps>>

\* Step 2: the four renames.
SwapRename ==
    /\ swap # NoSwap
    /\ swap.pc = "rename"
    /\ Streams(swap.cur) = {} /\ Streams(swap.tgt) = {}
    /\ file' = [file EXCEPT ![swap.cur] = file[swap.tgt], ![swap.tgt] = file[swap.cur]]
    /\ swap' = [swap EXCEPT !.pc = "kick"]
    /\ UNCHANGED <<mem, all, pipe, job, opened, clash, covered, torn, clock, unmarked, swaps>>

\* Players still in one of the worlds.
Inside == {p \in Peers : state[p] = "connected" /\ world[p] \in {swap.cur, swap.tgt}}

\* Kicks nobody.
SwapKickedMutant ==
    /\ swap # NoSwap
    /\ swap.pc = "kick"
    /\ swap' = [swap EXCEPT !.pc = "unload"]
    /\ UNCHANGED <<vars, swaps>>

\* Step 3: exit_ for each of them.
SwapKick(p) ==
    /\ swap # NoSwap
    /\ swap.pc = "kick"
    /\ p \in Inside
    /\ exit_(p)
    /\ UNCHANGED <<state, swap, swaps>>

SwapKicked ==
    /\ swap # NoSwap
    /\ swap.pc = "kick"
    /\ Inside = {}
    /\ swap' = [swap EXCEPT !.pc = "unload"]
    /\ UNCHANGED <<vars, swaps>>

\* Step 4: what is still loaded of both worlds is dropped.
SwapUnload ==
    /\ swap # NoSwap
    /\ swap.pc = "unload"
    /\ worlds' = SelectSeq(worlds, LAMBDA x : x.name \notin {swap.cur, swap.tgt})
    /\ worlds_idx' = [w \in Worlds |-> IF \E i \in DOMAIN worlds : /\ worlds[i].name = w
                                                                   /\ w \in {swap.cur, swap.tgt}
                                       THEN 0 ELSE worlds_idx[w]]
    /\ swap' = NoSwap
    /\ UNCHANGED <<state, world, edit, sweep, joins, all, pipe, disk, clock, unmarked, swaps>>

SwapStep == \/ \E p \in Peers, tgt \in Worlds, allowed \in BOOLEAN : SwapBegin(p, tgt, allowed)
            \/ SwapLoad \/ SwapSave \/ SwapRename
            \/ \E p \in Peers : SwapKick(p)
            \/ SwapKicked \/ SwapUnload

\* The main thread serves other events only between swaps.
SwapNext == \/ /\ swap = NoSwap
               /\ EditApply \/ SaveNext \/ \E p \in Peers : MainStep(p)
               /\ UNCHANGED <<swap, swaps>>
            \/ /\ AsyncStep \/ DisconnectStep \/ AllStep
               /\ UNCHANGED <<swap, swaps>>
            \/ SwapStep

SwapSpec == SwapInit /\ [][SwapNext]_swapVars
-----------------------------------------------------------------------------
(***************************************************************************)
(* What the comments of create_address_world say.                          *)
(***************************************************************************)
\* Nothing is left to write.
Quiet == /\ swap = NoSwap
         /\ aq = <<>> /\ dq = <<>> /\ snap = <<>>
         /\ \A w \in Writers : job[w] = NoJob

\* "swap is now instant but still fully dupe-safe": once every save has been
\* written, the content of a world is not in the files of two names.
DupeSafe ==
    Quiet => \A v, w \in Worlds :
        (v # w /\ {file[v], file[w]} \cap {NoFile, Torn} = {}) => file[v] \cap file[w] = {}
=============================================================================
