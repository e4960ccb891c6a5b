----------------------------- MODULE WorldStore -----------------------------
(***************************************************************************)
(* Worlds in memory and the world files database/worlds/<name>_.json.      *)
(*                                                                         *)
(* `worlds` holds the loaded worlds, worlds_idx guesses their positions,   *)
(* and fresh_world marks the ones with changes to save.  The main thread   *)
(* loads a world when a player joins it and saves and unloads it when the  *)
(* last player leaves.  AsyncWriter, disconnectWorldSaveThread and         *)
(* SaveDatabase::All write the files (SaveThreads).  save_world runs under *)
(* g_world_loop_mutex when All calls it, so it is one step; the handlers   *)
(* that change a world hold no lock.                                       *)
(*                                                                         *)
(* A world is abstracted to the set of changes it contains: <<w, k>> is    *)
(* the k-th change made to world w.  The empty set is a world that         *)
(* create_world has just generated.  The worlds are the ones with a file   *)
(* of their own; mines, whose file exit_ removes, are not among them.      *)
(***************************************************************************)
EXTENDS SaveThreads, FiniteSets, SequencesExt

CONSTANTS Peers, Worlds,
          Nameless,    \* peers that log in with a password and no name
          Pinned,      \* worlds that stay loaded: CARNIVAL
          Stored,      \* worlds with a file at start
          Silent,      \* whether commands that forget fresh_world run
          MaxEdits,    \* bound: changes of a world
          MaxQueue,    \* bound: saves queued at one writer
          MaxJoins,    \* bound: calls of join_world
          MaxRounds,   \* bound: rounds of SaveDatabase::All
          NoWorld, NoEdit

Content == SUBSET (Worlds \X (1 .. MaxEdits))
Save == [name : Worlds, data : Content]
World == [name : Worlds, ver : Content, fresh_world : BOOLEAN]

ASSUME WSAssumption == /\ IsFiniteSet(Peers) /\ Nameless \subseteq Peers
                       /\ Pinned \subseteq Worlds /\ Stored \subseteq Worlds
                       /\ Overlap \in BOOLEAN /\ Silent \in BOOLEAN
                       /\ MaxEdits \in Nat \ {0} /\ MaxQueue \in Nat
                       /\ MaxJoins \in Nat /\ MaxRounds \in Nat
                       /\ NoWorld \notin Worlds
                       /\ NoEdit \notin [pos : Nat, name : Worlds]
                       /\ NoJob \notin Save

VARIABLES
    state,      \* state[p]: ENet state of the slot
    world,      \* world[p]: pInfo(peer)->world
    worlds,     \* the vector of loaded worlds
    worlds_idx, \* worlds_idx[w]: position of w at its last lookup, 0 if none
    edit,       \* the handler in progress: name and position of the world it
                \* changes (its World*)
    sweep,      \* position of the next world that SAVE_WORLD saves, 0 if none
    joins,      \* calls of join_world so far
    todo,       \* names All has still to save
    apc,        \* program counter of All
    rounds,     \* rounds of All so far
    clock,      \* history: number of changes made to w
    unmarked    \* history: changes made while fresh_world was not set, nor since

mem  == <<state, world, worlds, worlds_idx, edit, sweep, joins>>
all  == <<todo, apc, rounds>>
vars == <<mem, all, pipe, disk, clock, unmarked>>

Init == /\ state = [p \in Peers |-> "free"]
        /\ world = [p \in Peers |-> NoWorld]
        /\ worlds = <<>>
        /\ worlds_idx = [w \in Worlds |-> 0]
        /\ edit = NoEdit /\ sweep = 0
        /\ joins = 0
        /\ todo = <<>> /\ apc = "sleep" /\ rounds = 0
        /\ unmarked = {}
        /\ clock = [w \in Worlds |-> IF w \in Stored THEN 1 ELSE 0]
        /\ file = [w \in Worlds |-> IF w \in Stored THEN {<<w, 1>>} ELSE NoFile]
        /\ covered = {<<w, 1>> : w \in Stored}
        /\ PipeInit

(***************************************************************************)
(* The vector and its index.                                               *)
(***************************************************************************)
\* std::find_if over worlds: the first world of that name, 0 if none.
find_if(ws, w) == IF \E i \in DOMAIN ws : ws[i].name = w
                  THEN CHOOSE i \in DOMAIN ws :
                         /\ ws[i].name = w
                         /\ \A j \in 1 .. i - 1 : ws[j].name # w
                  ELSE 0

\* The indexed position if the world there has the name, else a scan.
find_world(ws, idx, w) == IF idx[w] \in DOMAIN ws /\ ws[idx[w]].name = w
                          THEN idx[w] ELSE find_if(ws, w)

\* find_world stores what it finds.
Indexed(ws, idx, w) == [idx EXCEPT ![w] = find_world(ws, idx, w)]

\* Hands out the World after `world_ = {}`.
create_worldMutant(w) == [name |-> NoWorld, ver |-> {}, fresh_world |-> TRUE]

create_world(w) == [name |-> w, ver |-> {}, fresh_world |-> TRUE]

\* The worlds get_world appends: none when the world is loaded, what the file
\* holds, or a new world.  When the file does not parse, create_world appends
\* the new world and get_world appends it once more.
get_world(w) ==
    CASE find_if(worlds, w) # 0 -> <<>>
      [] find_if(worlds, w) = 0 /\ file[w] = NoFile -> <<create_world(w)>>
      [] find_if(worlds, w) = 0 /\ file[w] = Torn -> <<create_world(w), create_world(w)>>
      [] OTHER -> <<[name |-> w, ver |-> file[w], fresh_world |-> FALSE]>>

\* Unloads a world without serialising it.
save_worldMutant(ws, idx, w, erase) ==
    LET i == find_world(ws, idx, w)
        unload == erase /\ w \notin Pinned
        writes == i # 0 /\ ~erase /\ ws[i].fresh_world
    IN  [json |-> IF writes THEN <<[name |-> w, data |-> ws[i].ver]>> ELSE <<>>,
         worlds |-> IF i = 0 THEN ws
                    ELSE IF unload THEN RemoveAt(ws, i)
                    ELSE [ws EXCEPT ![i].fresh_world = FALSE],
         idx |-> [idx EXCEPT ![w] = IF unload THEN 0 ELSE i]]

\* Erases the world before it serialises it: the position is then that of the
\* next world.
save_worldLateMutant(ws, idx, w, erase) ==
    LET i == find_world(ws, idx, w)
        unload == erase /\ w \notin Pinned
        writes == i # 0 /\ (ws[i].fresh_world \/ (erase /\ ~unload))
        next == IF unload /\ i < Len(ws) THEN i + 1 ELSE i
    IN  [json |-> IF writes THEN <<[name |-> w, data |-> ws[next].ver]>> ELSE <<>>,
         worlds |-> IF i = 0 THEN ws
                    ELSE IF unload THEN RemoveAt(ws, i)
                    ELSE [ws EXCEPT ![i].fresh_world = FALSE],
         idx |-> [idx EXCEPT ![w] = IF unload THEN 0 ELSE i]]

\* save_world(name, erase): the JSON it gives out, and what it leaves in
\* memory.  A clean world is not serialised; a pinned one always is when
\* erase is set, and stays.
save_world(ws, idx, w, erase) ==
    LET i == find_world(ws, idx, w)
        unload == erase /\ w \notin Pinned
        writes == i # 0 /\ (ws[i].fresh_world \/ (erase /\ ~unload))
    IN  [json |-> IF writes THEN <<[name |-> w, data |-> ws[i].ver]>> ELSE <<>>,
         worlds |-> IF i = 0 THEN ws
                    ELSE IF unload THEN RemoveAt(ws, i)
                    ELSE [ws EXCEPT ![i].fresh_world = FALSE],
         idx |-> [idx EXCEPT ![w] = IF unload THEN 0 ELSE i]]

\* PlayerCountWorld, with where[p] as the players' worlds: it counts the
\* players that have a name.
PlayerCountWorld(where, w) ==
    Cardinality({p \in Peers \ Nameless : state[p] = "connected" /\ where[p] = w})

(***************************************************************************)
(* Main thread.                                                            *)
(***************************************************************************)
\* No handler is in progress.
Idle == edit = NoEdit /\ sweep = 0

\* A player logs in on the slot.
Connect(p) ==
    /\ Idle
    /\ state[p] = "free"
    /\ state' = [state EXCEPT ![p] = "connected"]
    /\ UNCHANGED <<world, worlds, worlds_idx, edit, sweep, joins, all, pipe, disk, clock, unmarked>>

\* The client leaves, or a handler calls Peer_Disconnect.
ClientLeaves(p) ==
    /\ Idle
    /\ state[p] = "connected"
    /\ state' = [state EXCEPT ![p] = "leaving"]
    /\ UNCHANGED <<world, worlds, worlds_idx, edit, sweep, joins, all, pipe, disk, clock, unmarked>>

\* The limit on game packets deletes the Player of a world without exit_.
SpamKick(p) ==
    /\ Idle
    /\ state[p] = "connected" /\ world[p] # NoWorld
    /\ state' = [state EXCEPT ![p] = "leaving"]
    /\ world' = [world EXCEPT ![p] = NoWorld]
    /\ UNCHANGED <<worlds, worlds_idx, edit, sweep, joins, all, pipe, disk, clock, unmarked>>

\* exit_: the last player out saves and unloads the world.  A slot whose
\* peer is disconnected is not counted, whatever its world.
exit_(p) ==
    /\ Len(dq) < MaxQueue
    /\ world' = [world EXCEPT ![p] = NoWorld]
    /\ LET w == world[p]
           r == IF PlayerCountWorld(world', w) = 0
                THEN save_world(worlds, worlds_idx, w, TRUE)
                ELSE [json |-> <<>>, worlds |-> worlds, idx |-> worlds_idx]
       IN /\ worlds' = r.worlds
          /\ worlds_idx' = Indexed(r.worlds, r.idx, w)
          /\ dq' = dq \o r.json
    /\ UNCHANGED <<edit, sweep, joins, all, aq, snap, dpc, disk, clock, unmarked>>

Leave(p) ==
    /\ Idle
    /\ state[p] = "connected"
    /\ world[p] # NoWorld
    /\ exit_(p)
    /\ UNCHANGED state

\* The DISCONNECT event.
Disconnect(p) ==
    /\ Idle
    /\ state[p] = "leaving"
    /\ state' = [state EXCEPT ![p] = "free"]
    /\ IF world[p] # NoWorld THEN exit_(p)
       ELSE UNCHANGED <<world, worlds, worlds_idx, edit, sweep, joins, all, pipe, disk, clock, unmarked>>

\* join_world: get_world, then in, or cant_enter, whose memory_clean_world
\* saves and unloads the world if nobody is in it.  A player who was in
\* another world does not exit_ from it.
join_world(p, w, admitted) ==
    /\ Idle
    /\ state[p] = "connected"
    /\ world[p] # w
    /\ joins < MaxJoins
    /\ Len(aq) < MaxQueue
    /\ joins' = joins + 1
    /\ LET new == get_world(w)
           ws  == worlds \o new
           idx == [worlds_idx EXCEPT ![w] = IF new = <<>> THEN find_world(ws, worlds_idx, w)
                                            ELSE Len(ws)]
           r   == IF ~admitted /\ PlayerCountWorld(world, w) < 1
                  THEN save_world(ws, idx, w, TRUE)
                  ELSE [json |-> <<>>, worlds |-> ws, idx |-> idx]
       IN /\ worlds' = r.worlds
          /\ worlds_idx' = r.idx
          /\ aq' = aq \o r.json
    /\ world' = IF admitted THEN [world EXCEPT ![p] = w] ELSE world
    /\ UNCHANGED <<state, edit, sweep, all, dq, snap, dpc, disk, clock, unmarked>>

\* Positions at which a handler finds its player's world.
Found(p) == {find_if(worlds, world[p]), find_world(worlds, worlds_idx, world[p])} \ {0}

\* History: change e is made to the world at position i.
Unmarked(i, e) == IF worlds[i].fresh_world THEN unmarked ELSE unmarked \cup {e}

\* edit_tile, Drop and the others: first fresh_world = true, then the change.
EditBegin(p, i) ==
    /\ Idle
    /\ state[p] = "connected"
    /\ world[p] # NoWorld
    /\ i \in Found(p)
    /\ clock[world[p]] < MaxEdits
    /\ worlds' = [worlds EXCEPT ![i].fresh_world = TRUE]
    /\ edit' = [pos |-> i, name |-> world[p]]
    /\ unmarked' = unmarked \ worlds[i].ver
    /\ UNCHANGED <<state, world, worlds_idx, sweep, joins, all, pipe, disk, clock>>

EditApply ==
    /\ edit # NoEdit
    /\ LET i == edit.pos
           w == worlds[i].name
       IN /\ clock' = [clock EXCEPT ![w] = @ + 1]
          /\ worlds' = [worlds EXCEPT ![i].ver = @ \cup {<<w, clock[w] + 1>>}]
          /\ unmarked' = Unmarked(i, <<w, clock[w] + 1>>)
    /\ edit' = NoEdit
    /\ UNCHANGED <<state, world, worlds_idx, sweep, joins, all, pipe, disk>>

\* SAVE_WORLD: a loop over the positions of the vector.
SaveCommand(p) ==
    /\ Idle
    /\ state[p] = "connected"
    /\ world[p] # NoWorld
    /\ worlds # <<>>
    /\ sweep' = 1
    /\ UNCHANGED <<state, world, worlds, worlds_idx, edit, joins, all, pipe, disk, clock, unmarked>>

\* One round of the loop: save_world(worlds[i].name, false).
SaveNext ==
    /\ sweep # 0
    /\ Len(aq) < MaxQueue
    /\ LET r == save_world(worlds, worlds_idx, worlds[sweep].name, FALSE)
       IN /\ worlds' = r.worlds
          /\ worlds_idx' = r.idx
          /\ aq' = aq \o r.json
    /\ sweep' = IF sweep < Len(worlds) THEN sweep + 1 ELSE 0
    /\ UNCHANGED <<state, world, edit, joins, all, dq, snap, dpc, disk, clock, unmarked>>

\* Commands that change the world (music, lock, owner) and call save_world
\* without setting fresh_world.
SilentCommand(p, i) ==
    /\ Silent
    /\ Idle
    /\ state[p] = "connected"
    /\ world[p] # NoWorld
    /\ i \in Found(p)
    /\ clock[world[p]] < MaxEdits
    /\ Len(aq) < MaxQueue
    /\ LET w == world[p]
           ws == [worlds EXCEPT ![i].ver = @ \cup {<<w, clock[w] + 1>>}]
           r == save_world(ws, worlds_idx, w, FALSE)
       IN /\ clock' = [clock EXCEPT ![w] = @ + 1]
          /\ unmarked' = Unmarked(i, <<w, clock[w] + 1>>)
          /\ worlds' = r.worlds
          /\ worlds_idx' = r.idx
          /\ aq' = aq \o r.json
    /\ UNCHANGED <<state, world, edit, sweep, joins, all, dq, snap, dpc, disk>>

(***************************************************************************)
(* The writers.                                                            *)
(***************************************************************************)
Thread(A) == A /\ UNCHANGED <<mem, all, clock, unmarked>>

\* SaveDatabase::All: the names of the loaded worlds, under the lock.
AllSnapshot ==
    /\ apc = "sleep"
    /\ rounds < MaxRounds
    /\ rounds' = rounds + 1
    /\ todo' = [i \in DOMAIN worlds |-> worlds[i].name]
    /\ apc' = "save"
    /\ UNCHANGED <<mem, pipe, disk, clock, unmarked>>

\* Calls save_world with its default, erase = true.
AllSaveMutant ==
    /\ apc = "save"
    /\ job["all"] = NoJob
    /\ todo # <<>>
    /\ todo' = Tail(todo)
    /\ LET r == save_world(worlds, worlds_idx, Head(todo), TRUE) IN
        IF find_if(worlds, Head(todo)) = 0
        THEN UNCHANGED <<worlds, worlds_idx, job>>
        ELSE /\ worlds' = r.worlds
             /\ worlds_idx' = r.idx
             /\ job' = [job EXCEPT !["all"] = IF r.json = <<>> THEN NoJob ELSE r.json[1]]
    /\ UNCHANGED <<state, world, edit, sweep, joins, apc, rounds, pipe,
                   opened, clash, file, covered, torn, clock, unmarked>>

\* One world, under the lock again, if it is still loaded.
AllSave ==
    /\ apc = "save"
    /\ job["all"] = NoJob
    /\ todo # <<>>
    /\ todo' = Tail(todo)
    /\ LET r == save_world(worlds, worlds_idx, Head(todo), FALSE) IN
        IF find_if(worlds, Head(todo)) = 0
        THEN UNCHANGED <<worlds, worlds_idx, job>>
        ELSE /\ worlds' = r.worlds
             /\ worlds_idx' = r.idx
             /\ job' = [job EXCEPT !["all"] = IF r.json = <<>> THEN NoJob ELSE r.json[1]]
    /\ UNCHANGED <<state, world, edit, sweep, joins, apc, rounds, pipe,
                   opened, clash, file, covered, torn, clock, unmarked>>

AllLoop ==
    /\ apc = "save"
    /\ job["all"] = NoJob
    /\ todo = <<>>
    /\ apc' = "sleep"
    /\ UNCHANGED <<mem, todo, rounds, pipe, disk, clock, unmarked>>

MainStep(p) ==
    \/ Connect(p) \/ ClientLeaves(p) \/ SpamKick(p) \/ Leave(p) \/ Disconnect(p)
    \/ \E w \in Worlds, admitted \in BOOLEAN : join_world(p, w, admitted)
    \/ \E i \in DOMAIN worlds : EditBegin(p, i) \/ SilentCommand(p, i)
    \/ SaveCommand(p)

FileStep(w) == Thread(FileOpen(w)) \/ \E mixed \in BOOLEAN : Thread(FileClose(w, mixed))

AsyncStep == Thread(AsyncTake) \/ FileStep("async")
DisconnectStep == \/ Thread(DisconnectSwap)
                  \/ Thread(DisconnectTake)
                  \/ Thread(DisconnectLoop(TRUE))
                  \/ FileStep("disconnect")
AllStep == AllSnapshot \/ AllSave \/ AllLoop \/ FileStep("all")

Next == \/ \E p \in Peers : MainStep(p)
        \/ EditApply \/ SaveNext
        \/ AsyncStep \/ DisconnectStep \/ AllStep

Spec == Init /\ [][Next]_vars

\* The threads run on, and a stream that waits for a file gets it.
Fairness == /\ WF_vars(AsyncStep)
            /\ WF_vars(DisconnectStep)
            /\ WF_vars(AllStep)
            /\ WF_vars(EditApply) /\ WF_vars(SaveNext)
            /\ \A w \in Writers : SF_vars(Thread(FileOpen(w)))

FairSpec == Spec /\ Fairness
-----------------------------------------------------------------------------
(***************************************************************************)
(* Properties.                                                             *)
(***************************************************************************)
\* Types of the variables.
TypeOK ==
    /\ state \in [Peers -> {"free", "connected", "leaving"}]
    /\ world \in [Peers -> Worlds \cup {NoWorld}]
    /\ worlds \in Seq(World)
    /\ worlds_idx \in [Worlds -> Nat]
    /\ edit = NoEdit \/ (edit.pos \in Nat /\ edit.name \in Worlds)
    /\ sweep \in Nat /\ joins \in 0 .. MaxJoins
    /\ todo \in Seq(Worlds) /\ apc \in {"sleep", "save"} /\ rounds \in 0 .. MaxRounds
    /\ aq \in Seq(Save) /\ dq \in Seq(Save) /\ snap \in Seq(Save)
    /\ dpc \in {"swap", "write"}
    /\ job \in [Writers -> Save \cup {NoJob}]
    /\ opened \in [Writers -> BOOLEAN] /\ clash \in [Writers -> BOOLEAN]
    /\ file \in [Worlds -> Content \cup {NoFile, Torn}]
    /\ covered \in Content /\ torn \in Content /\ unmarked \in Content
    /\ clock \in [Worlds -> 0 .. MaxEdits]

\* The World* that a handler without the lock holds stays that of its world,
\* whatever All does meanwhile: erasing from the vector shifts the worlds
\* behind the erased one.
HandlerPointerValid ==
    edit # NoEdit => /\ edit.pos \in DOMAIN worlds
                     /\ worlds[edit.pos].name = edit.name

\* A world with a connected player in it who has a name is loaded, however
\* joins that are refused, exits and disconnects of other players interleave:
\* a handler that does not find its world silently does nothing.
OccupiedIsLoaded ==
    \A p \in Peers \ Nameless : state[p] = "connected" /\ world[p] # NoWorld
                                => find_if(worlds, world[p]) # 0

Made == {e \in Worlds \X (1 .. MaxEdits) : e[2] <= clock[e[1]]}

\* A loaded world has change e and will be saved.
Dirty(e) == \E i \in DOMAIN worlds : worlds[i].fresh_world /\ e \in worlds[i].ver

\* A change made to a world is in a world marked for saving, on its way to
\* the disk, or has been on disk: nothing that unloads a world (exit_,
\* memory_clean_world) drops it, although clean worlds are unloaded unsaved
\* and a world may be loaded twice.
WorldEditsSafe == \A e \in Made : Dirty(e) \/ InPipeline(e) \/ e \in covered

\* The same with SaveDatabase::All, commands that forget fresh_world and
\* streams that meet in one file: what is lost was made while the mark was
\* clear and not marked since, or was in a save that a mixture replaced.
MarkedEditsSafe ==
    \A e \in Made \ (unmarked \cup torn) : Dirty(e) \/ InPipeline(e) \/ e \in covered

\* A change that is in no loaded world any more gets to the disk.
UnloadedIsSaved ==
    \A e \in Worlds \X (1 .. MaxEdits) :
        (e \in Made /\ \A i \in DOMAIN worlds : e \notin worlds[i].ver) ~> (e \in covered)

\* No world file ever holds another world's content.
OwnWorldOnly ==
    \A w \in Worlds : file[w] \in {NoFile, Torn} \/ \A e \in file[w] : e[1] = w
=============================================================================
