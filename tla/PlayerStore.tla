---------------------------- MODULE PlayerStore ----------------------------
(***************************************************************************)
(* Player sessions and the player files database/players/<name>_.json.     *)
(*                                                                         *)
(* The main thread serves ENet events: it connects, logs in, plays, kicks  *)
(* and disconnects peers.  Three threads write player files: the worker of *)
(* AsyncWriter, disconnectSaveThread and SaveDatabase::All.  A RECEIVE     *)
(* handler holds no lock, so the steps of All interleave with a login; the *)
(* DISCONNECT handler and All's serialisation hold g_world_loop_mutex, so  *)
(* each is one step.                                                       *)
(*                                                                         *)
(* A Player is abstracted to the set of edits it contains.  Edit <<a, k>>  *)
(* is the k-th change made to account a; the first is its registration.    *)
(* The empty set is a freshly constructed Player.                          *)
(***************************************************************************)
EXTENDS SaveThreads

CONSTANTS Peers,       \* ENet peer slots
          Accounts,    \* GrowIDs
          Registered,  \* those with a file at start
          MaxEdits,    \* bound: edits of an account
          MaxQueue,    \* bound: saves queued at one writer
          MaxSessions, \* bound: connections
          MaxRounds,   \* bound: rounds of SaveDatabase::All
          Ends,        \* how the process may end: FALSE Trigger, TRUE signal
          NoName, NoData

Content == SUBSET (Accounts \X (1 .. MaxEdits))
Blank == {}

\* pass: tankIDPass is not empty.  Has_Login is set in every phase but
\* "fresh".  "token" and "guest" are logins whose name, if any, has not been
\* checked against a file.
Player == [name : Accounts \cup {NoName}, pass : BOOLEAN, ver : Content,
           phase : {"fresh", "loading", "in", "refused", "token", "guest"}]

Save == [name : Accounts, data : Content]

ASSUME PSAssumption == /\ Registered \subseteq Accounts
                       /\ Overlap \in BOOLEAN
                       /\ MaxEdits \in Nat \ {0}
                       /\ MaxQueue \in Nat
                       /\ MaxSessions \in Nat
                       /\ MaxRounds \in Nat
                       /\ Ends \subseteq BOOLEAN
                       /\ NoName \notin Accounts
                       /\ NoData \notin Player
                       /\ NoJob \notin Save

VARIABLES
    state,    \* state[p]: ENet state of the slot
    player,   \* player[p]: peer->data
    login,    \* the PlayerLogin call in progress on the main thread
    sessions, \* connections so far
    todo,     \* peers All has still to save
    apc,      \* program counter of All
    rounds,   \* rounds of All so far
    proc,     \* the process: "up", saving before an exit, exiting, or down
    sig,      \* whether a signal (CrashHandler) or Trigger ends it
    left,     \* peers that the final save has still to visit
    due,      \* history: edits the final save has pushed
    clock,    \* history: number of edits made to a
    dropped,  \* history: edits in Players that the code gives up unsaved
    strayed,  \* history: edits in Players that were given another name
    revived   \* history: peers that were connected without a CONNECT event

all   == <<todo, apc, rounds>>
mem   == <<state, player, login, sessions>>
ending == <<proc, sig, left, due>>
history == <<clock, dropped, strayed, revived>>
vars  == <<mem, all, pipe, disk, ending, history>>

NoLogin == [pc |-> "none"]
Login == {NoLogin}
         \cup [pc : {"auth"}, peer : Peers, good : BOOLEAN]
         \cup [pc : {"load"}, peer : Peers, json : Content]

Init == /\ state = [p \in Peers |-> "free"]
        /\ player = [p \in Peers |-> NoData]
        /\ login = NoLogin
        /\ sessions = 0
        /\ PipeInit
        /\ todo = {} /\ apc = "sleep" /\ rounds = 0
        /\ clock = [a \in Accounts |-> IF a \in Registered THEN 1 ELSE 0]
        /\ file = [a \in Accounts |-> IF a \in Registered THEN {<<a, 1>>} ELSE NoFile]
        /\ covered = {<<a, 1>> : a \in Registered}
        /\ proc = "up" /\ sig = FALSE
        /\ left = {} /\ due = {}
        /\ dropped = {} /\ strayed = {} /\ revived = {}

\* SaveDatabase::Players returns at once for a Player without a name or
\* without a password.
Saves(pl) == IF pl.name = NoName \/ ~pl.pass THEN <<>>
             ELSE <<[name |-> pl.name, data |-> pl.ver]>>

NewPlayer == [name |-> NoName, pass |-> FALSE, ver |-> Blank, phase |-> "fresh"]

\* The peer's packets are being handled on the main thread.
Receiving(p) == /\ proc # "down"
                /\ login = NoLogin
                /\ state[p] = "connected"
                /\ player[p] # NoData

\* OnSuperMainStartAcceptLogon, the end of PlayerLogin, sets it.
bypass(p) == player[p].phase \in {"in", "guest"}

InGame(p) == Receiving(p) /\ bypass(p) /\ player[p].name # NoName

\* dialog_return: a NET_MESSAGE_GENERIC_TEXT, for which Has_Login is enough.
Dialog(p) == Receiving(p) /\ player[p].phase # "fresh"

\* enet_peer_disconnect_later: no packet is received from the peer any more,
\* its DISCONNECT event comes later.  A free slot stays free.
Peer_Disconnect(ps) ==
    state' = [p \in Peers |-> IF p \in ps /\ state[p] # "free" THEN "leaving" ELSE state[p]]

\* Edits that are gone when the slot's Player is not saved any more.
InSlot(p) == IF player[p] = NoData THEN {} ELSE player[p].ver

(***************************************************************************)
(* Main thread: ENet events.                                               *)
(***************************************************************************)
\* A slot that still has a Player keeps it, without its name and login.
ConnectMutant(p) ==
    /\ proc # "down"
    /\ login = NoLogin
    /\ state[p] = "free"
    /\ sessions < MaxSessions
    /\ sessions' = sessions + 1
    /\ state' = [state EXCEPT ![p] = "connected"]
    /\ player' = [player EXCEPT ![p] = [NewPlayer EXCEPT !.ver = InSlot(p)]]
    /\ revived' = revived \ {p}
    /\ UNCHANGED <<login, all, pipe, disk, ending, clock, dropped, strayed>>

\* ENET_EVENT_TYPE_CONNECT.
Connect(p) ==
    /\ proc # "down"
    /\ login = NoLogin
    /\ state[p] = "free"
    /\ sessions < MaxSessions
    /\ sessions' = sessions + 1
    /\ state' = [state EXCEPT ![p] = "connected"]
    /\ player' = [player EXCEPT ![p] = NewPlayer]
    /\ revived' = revived \ {p}
    /\ UNCHANGED <<login, all, pipe, disk, ending, clock, dropped, strayed>>

\* The CONNECT event reached the batch limit and was not handled: the slot
\* keeps the Player of an earlier connection, if it holds one.
ConnectLost(p) ==
    /\ proc # "down"
    /\ login = NoLogin
    /\ state[p] = "free"
    /\ sessions < MaxSessions
    /\ sessions' = sessions + 1
    /\ state' = [state EXCEPT ![p] = "connected"]
    /\ revived' = revived \cup {p}
    /\ UNCHANGED <<player, login, all, pipe, disk, ending, clock, dropped, strayed>>

\* The client closes the connection, or ENet times it out.
ClientLeaves(p) ==
    /\ proc # "down"
    /\ login = NoLogin
    /\ state[p] = "connected"
    /\ Peer_Disconnect({p})
    /\ UNCHANGED <<player, login, sessions, all, pipe, disk, ending, history>>

\* Queues the save without looking at the name.
DisconnectMutant(p) ==
    /\ proc # "down"
    /\ login = NoLogin
    /\ state[p] = "leaving"
    /\ Len(dq) < MaxQueue
    /\ state' = [state EXCEPT ![p] = "free"]
    /\ player' = [player EXCEPT ![p] = NoData]
    /\ dq' = IF player[p] = NoData THEN dq
             ELSE Append(dq, [name |-> player[p].name, data |-> player[p].ver])
    /\ UNCHANGED <<login, sessions, aq, snap, dpc, all, disk, ending, history>>

\* ENET_EVENT_TYPE_DISCONNECT.
Disconnect(p) ==
    /\ proc # "down"
    /\ login = NoLogin
    /\ state[p] = "leaving"
    /\ Len(dq) < MaxQueue
    /\ state' = [state EXCEPT ![p] = "free"]
    /\ player' = [player EXCEPT ![p] = NoData]
    /\ dq' = IF player[p] = NoData THEN dq ELSE dq \o Saves(player[p])
    /\ UNCHANGED <<login, sessions, aq, snap, dpc, all, disk, ending, history>>

\* The DISCONNECT event reached the batch limit and was not handled.
DisconnectLost(p) ==
    /\ proc # "down"
    /\ login = NoLogin
    /\ state[p] = "leaving"
    /\ state' = [state EXCEPT ![p] = "free"]
    /\ dropped' = dropped \cup InSlot(p)
    /\ UNCHANGED <<player, login, sessions, all, pipe, disk, ending, clock, strayed, revived>>

\* The limit on game packets, for a player in a world: save, disconnect, delete
\* the Player.  The DISCONNECT event that follows finds no data.
SpamKick(p) ==
    /\ InGame(p)
    /\ Len(aq) < MaxQueue
    /\ aq' = aq \o Saves(player[p])
    /\ Peer_Disconnect({p})
    /\ player' = [player EXCEPT ![p] = NoData]
    /\ UNCHANGED <<login, sessions, dq, snap, dpc, all, disk, ending, history>>

\* Peer_Reset whatever the peer has done before.
PeerResetMutant(p) ==
    /\ Receiving(p)
    /\ state' = [state EXCEPT ![p] = "free"]
    /\ UNCHANGED <<player, login, sessions, all, pipe, disk, ending, history>>

\* A game message before the login has been accepted: enet_peer_reset gives
\* no DISCONNECT event and leaves peer->data to be overwritten by the next
\* connection.
PeerReset(p) ==
    /\ Receiving(p)
    /\ ~bypass(p)
    /\ state' = [state EXCEPT ![p] = "free"]
    /\ UNCHANGED <<player, login, sessions, all, pipe, disk, ending, history>>

(***************************************************************************)
(* Main thread: PlayerLogin and Player_Authentication.                     *)
(***************************************************************************)
\* Name and password are stored in the Player before they are checked.
LoginName(p, a, good) ==
    /\ Receiving(p)
    /\ player[p].phase = "fresh"
    /\ player' = [player EXCEPT ![p].name = a, ![p].pass = TRUE, ![p].phase = "loading"]
    /\ login' = [pc |-> "auth", peer |-> p, good |-> good]
    /\ UNCHANGED <<state, sessions, all, pipe, disk, ending, history>>

\* Anti_GL: a ban keeps the packet's name and password in the Player, an
\* invalid packet clears them.  Either disconnects before the file is read.
LoginDenied(p, a, pass) ==
    /\ Receiving(p)
    /\ player[p].phase = "fresh"
    /\ player' = [player EXCEPT ![p].name = a, ![p].pass = pass, ![p].phase = "refused"]
    /\ Peer_Disconnect({p})
    /\ UNCHANGED <<login, sessions, all, pipe, disk, ending, history>>

\* No file (-4), a file that does not parse (-2) or a wrong password (-1):
\* the name is cleared and the peer disconnected.
AuthRefuse ==
    /\ proc # "down"
    /\ login.pc = "auth"
    /\ LET p == login.peer IN
        /\ \/ file[player[p].name] \in {NoFile, Torn}
           \/ ~login.good
        /\ player' = [player EXCEPT ![p].name = NoName, ![p].pass = FALSE,
                                    ![p].phase = "refused"]
        /\ Peer_Disconnect({p})
    /\ login' = NoLogin
    /\ UNCHANGED <<sessions, all, pipe, disk, ending, history>>

\* Other sessions of the account.
SameAccount(p) == {q \in Peers \ {p} : /\ state[q] = "connected"
                                       /\ player[q] # NoData
                                       /\ player[q].name = player[p].name}

\* Logs in beside the other session.
AuthReadMutant ==
    /\ proc # "down"
    /\ login.pc = "auth"
    /\ login.good
    /\ file[player[login.peer].name] \notin {NoFile, Torn}
    /\ login' = [pc |-> "load", peer |-> login.peer,
                 json |-> file[player[login.peer].name]]
    /\ UNCHANGED <<state, player, sessions, all, pipe, disk, ending, history>>

\* The file is parsed into r_, the password is right, and the account's
\* other sessions are told to disconnect.
AuthRead ==
    /\ proc # "down"
    /\ login.pc = "auth"
    /\ login.good
    /\ file[player[login.peer].name] \notin {NoFile, Torn}
    /\ Peer_Disconnect(SameAccount(login.peer))
    /\ login' = [pc |-> "load", peer |-> login.peer,
                 json |-> file[player[login.peer].name]]
    /\ UNCHANGED <<player, sessions, all, pipe, disk, ending, history>>

\* The fields of r_ are copied into the Player.  A blacklisted or suspended
\* account, or maintenance (-5, -6), disconnects the peer, name kept.  A slot
\* that the console has reset meanwhile is loaded for nobody.
AuthLoad(accepted) ==
    /\ proc # "down"
    /\ login.pc = "load"
    /\ LET p == login.peer IN
        /\ player' = [player EXCEPT ![p].ver = login.json,
                                    ![p].phase = IF accepted THEN "in" ELSE "refused"]
        /\ Peer_Disconnect(IF accepted THEN {} ELSE {p})
        /\ dropped' = IF state[p] = "free" THEN dropped \cup login.json ELSE dropped
    /\ login' = NoLogin
    /\ UNCHANGED <<sessions, all, pipe, disk, ending, clock, strayed, revived>>

\* A field of an unexpected type throws (-2), after the other sessions have
\* been told to disconnect: the name is cleared, what was loaded is not saved.
AuthThrow ==
    /\ proc # "down"
    /\ login.pc = "load"
    /\ LET p == login.peer IN
        /\ player' = [player EXCEPT ![p].name = NoName, ![p].pass = FALSE,
                                    ![p].ver = login.json, ![p].phase = "refused"]
        /\ Peer_Disconnect({p})
    /\ dropped' = dropped \cup login.json
    /\ login' = NoLogin
    /\ UNCHANGED <<sessions, all, pipe, disk, ending, clock, strayed, revived>>

\* Registration, and the automatic one of a login with an unknown name: no
\* file of that name exists; the new Player is saved through AsyncWriter and
\* the client is sent to log in again.
Register(p, a) ==
    /\ Receiving(p)
    /\ player[p].phase = "fresh"
    /\ file[a] = NoFile
    /\ clock[a] < MaxEdits
    /\ Len(aq) < MaxQueue
    /\ clock' = [clock EXCEPT ![a] = @ + 1]
    /\ player' = [player EXCEPT ![p] = [name |-> a, pass |-> TRUE,
                                        ver |-> {<<a, clock[a] + 1>>}, phase |-> "in"]]
    /\ aq' = aq \o Saves(player'[p])
    /\ Peer_Disconnect({p})
    /\ UNCHANGED <<login, sessions, dq, snap, dpc, all, disk, ending, dropped, strayed, revived>>

\* A login token with the right password, which sends the client to log in
\* by name and stores none; and a login without a name or without a password,
\* which skips Player_Authentication and is accepted with the name it gave.
LoginUnchecked(p, a, how) ==
    /\ Receiving(p)
    /\ player[p].phase = "fresh"
    /\ how = "token" => a = NoName /\ \E b \in Accounts : file[b] \notin {NoFile, Torn}
    /\ player' = [player EXCEPT ![p].name = a, ![p].phase = how]
    /\ UNCHANGED <<state, login, sessions, all, pipe, disk, ending, history>>

(***************************************************************************)
(* Main thread: dialogs that change the name or the password of a session. *)
(***************************************************************************)
\* The right password of account b puts its name on this Player, data kept,
\* and sends the client to log in again.
DoLogin(p, b) ==
    /\ Dialog(p)
    /\ file[b] \notin {NoFile, Torn}
    /\ player' = [player EXCEPT ![p].name = b, ![p].pass = TRUE]
    /\ strayed' = strayed \cup {e \in player[p].ver : e[1] # b}
    /\ Peer_Disconnect({p})
    /\ UNCHANGED <<login, sessions, all, pipe, disk, ending, clock, dropped, revived>>

\* Logout_MyAcc, and the fifth wrong code of verify_2fa: name and password
\* are cleared first, so that the DISCONNECT event saves nothing.
Logout_MyAcc(p) ==
    /\ Dialog(p)
    /\ player' = [player EXCEPT ![p].name = NoName, ![p].pass = FALSE, ![p].phase = "guest"]
    /\ dropped' = dropped \cup player[p].ver
    /\ Peer_Disconnect({p})
    /\ UNCHANGED <<login, sessions, all, pipe, disk, ending, clock, strayed, revived>>

\* A session that logged in with a name only gets a password.
Change_Password(p) ==
    /\ Dialog(p)
    /\ ~player[p].pass
    /\ player' = [player EXCEPT ![p].pass = TRUE]
    /\ UNCHANGED <<state, login, sessions, all, pipe, disk, ending, history>>

(***************************************************************************)
(* Console (ServerInputPlugin): a thread of its own that takes no lock, so *)
(* that it may act on a peer whose login is in progress.                   *)
(***************************************************************************)
\* maintenance, for a peer that is not an administrator's.
ConsoleMaintenance(p) ==
    /\ proc # "down"
    /\ state[p] = "connected"
    /\ player[p] # NoData
    /\ Peer_Disconnect({p})
    /\ UNCHANGED <<player, login, sessions, all, pipe, disk, ending, history>>

\* kickall, one peer of its loop: Peer_Disconnect, then Peer_Reset.
ConsoleKickall(p) ==
    /\ proc # "down"
    /\ state[p] = "connected"
    /\ player[p] # NoData
    /\ state' = [state EXCEPT ![p] = "free"]
    /\ dropped' = dropped \cup InSlot(p)
    /\ UNCHANGED <<player, login, sessions, all, pipe, disk, ending, clock, strayed, revived>>

(***************************************************************************)
(* Main thread: play.                                                      *)
(***************************************************************************)
\* A change to an account.  What a session changes whose name has not been
\* checked belongs to no account and is not counted.
Edit(p) ==
    /\ InGame(p)
    /\ player[p].phase = "in"
    /\ LET a == player[p].name IN
        /\ clock[a] < MaxEdits
        /\ clock' = [clock EXCEPT ![a] = @ + 1]
        /\ player' = [player EXCEPT ![p].ver = @ \cup {<<a, clock[a] + 1>>}]
    /\ UNCHANGED <<state, login, sessions, all, pipe, disk, ending, dropped, strayed, revived>>

\* SaveDatabase::Players(pInfo(peer), false), called by many handlers.
SaveNow(p) ==
    /\ InGame(p)
    /\ Len(aq) < MaxQueue
    /\ aq' = aq \o Saves(player[p])
    /\ UNCHANGED <<mem, dq, snap, dpc, all, disk, ending, history>>

(***************************************************************************)
(* The writers.                                                            *)
(***************************************************************************)
\* A step of a thread other than main.
Thread(A) == /\ proc # "down"
             /\ A
             /\ UNCHANGED <<mem, all, ending, history>>

\* SaveDatabase::All, once a minute: the peers to save, under the lock.
AllSnapshot ==
    /\ proc # "down"
    /\ apc = "sleep"
    /\ rounds < MaxRounds
    /\ rounds' = rounds + 1
    /\ todo' = {p \in Peers : state[p] = "connected" /\ player[p] # NoData}
    /\ apc' = "save"
    /\ UNCHANGED <<mem, aq, dq, snap, dpc, disk, ending, history>>

\* One peer, under the lock again: re-checked and serialised.
AllSerialize(p) ==
    /\ proc # "down"
    /\ apc = "save"
    /\ job["all"] = NoJob
    /\ p \in todo
    /\ todo' = todo \ {p}
    /\ job' = [job EXCEPT !["all"] =
                  IF \/ state[p] # "connected"
                     \/ player[p] = NoData
                     \/ Saves(player[p]) = <<>>
                  THEN NoJob
                  ELSE Saves(player[p])[1]]
    /\ UNCHANGED <<mem, aq, dq, snap, dpc, apc, rounds, opened, clash, file, covered, torn,
                   ending, history>>

AllLoop ==
    /\ proc # "down"
    /\ apc = "save"
    /\ job["all"] = NoJob
    /\ todo = {}
    /\ apc' = IF proc = "up" THEN "sleep" ELSE "done"
    /\ UNCHANGED <<mem, aq, dq, snap, dpc, todo, rounds, disk, ending, history>>

(***************************************************************************)
(* The end of the process: ServerPool::Trigger and CrashHandler.           *)
(***************************************************************************)
\* g_server_running = false; Trigger calls exit(), CrashHandler _exit().
EndBegin(crash) ==
    /\ proc = "up"
    /\ proc' = "saving"
    /\ sig' = crash
    /\ left' = Peers
    /\ UNCHANGED <<mem, all, pipe, disk, due, history>>

EndSave(p) ==
    /\ proc = "saving"
    /\ p \in left
    /\ left' = left \ {p}
    /\ LET s == IF state[p] = "connected" /\ player[p] # NoData
                THEN Saves(player[p]) ELSE <<>>
       IN /\ aq' = aq \o s
          /\ due' = IF s = <<>> THEN due ELSE due \cup player[p].ver
    /\ UNCHANGED <<mem, dq, snap, dpc, all, disk, proc, sig, history>>

EndSaved ==
    /\ proc = "saving"
    /\ left = {}
    /\ proc' = IF sig THEN "down" ELSE "exiting"
    /\ UNCHANGED <<mem, all, pipe, disk, sig, left, due, history>>

\* _exit() instead of exit(): no destructor runs.
EndExitMutant ==
    /\ proc = "exiting"
    /\ proc' = "down"
    /\ UNCHANGED <<mem, all, pipe, disk, sig, left, due, history>>

\* exit() destroys the static AsyncWriter, whose destructor joins the worker
\* (AsyncWriter!JoinDrains).
EndExit ==
    /\ proc = "exiting"
    /\ aq = <<>>
    /\ job["async"] = NoJob
    /\ proc' = "down"
    /\ UNCHANGED <<mem, all, pipe, disk, sig, left, due, history>>

MainStep(p) ==
    \/ Connect(p) \/ ConnectLost(p) \/ ClientLeaves(p)
    \/ Disconnect(p) \/ DisconnectLost(p) \/ SpamKick(p) \/ PeerReset(p)
    \/ \E a \in Accounts, good \in BOOLEAN : LoginName(p, a, good)
    \/ \E a \in Accounts \cup {NoName}, pass \in BOOLEAN : LoginDenied(p, a, pass)
    \/ \E a \in Accounts : Register(p, a)
    \/ \E a \in Accounts \cup {NoName}, how \in {"token", "guest"} : LoginUnchecked(p, a, how)
    \/ \E b \in Accounts : DoLogin(p, b)
    \/ Logout_MyAcc(p) \/ Change_Password(p)
    \/ Edit(p) \/ SaveNow(p)

ConsoleStep(p) == ConsoleMaintenance(p) \/ ConsoleKickall(p)

AuthStep == AuthRefuse \/ AuthRead \/ AuthThrow \/ \E accepted \in BOOLEAN : AuthLoad(accepted)

FileStep(w) == Thread(FileOpen(w)) \/ \E mixed \in BOOLEAN : Thread(FileClose(w, mixed))

AsyncStep == Thread(AsyncTake) \/ FileStep("async")
DisconnectStep == \/ Thread(DisconnectSwap)
                  \/ Thread(DisconnectTake)
                  \/ Thread(DisconnectLoop(proc = "up"))
                  \/ FileStep("disconnect")
AllStep == AllSnapshot \/ (\E p \in Peers : AllSerialize(p)) \/ AllLoop \/ FileStep("all")

EndStep == \/ \E crash \in Ends : EndBegin(crash)
           \/ \E p \in Peers : EndSave(p)
           \/ EndSaved \/ EndExit

Next == \/ \E p \in Peers : MainStep(p) \/ ConsoleStep(p)
        \/ AuthStep
        \/ AsyncStep \/ DisconnectStep \/ AllStep
        \/ EndStep

Spec == Init /\ [][Next]_vars

\* The two threads that write the saves of handlers, and a login in progress,
\* go on, and the main loop fetches the DISCONNECT event of a peer that leaves, to
\* serve it or, at the batch limit, to drop it.  Nobody has to connect, play or
\* stop, and All may take its time.
Fairness == /\ WF_vars(AsyncStep)
            /\ WF_vars(DisconnectStep)
            /\ WF_vars(AuthStep)
            /\ \A p \in Peers : SF_vars(Disconnect(p) \/ DisconnectLost(p))

FairSpec == Spec /\ Fairness
-----------------------------------------------------------------------------
(***************************************************************************)
(* Properties.                                                             *)
(***************************************************************************)
\* Types of the variables.
TypeOK ==
    /\ state \in [Peers -> {"free", "connected", "leaving"}]
    /\ player \in [Peers -> Player \cup {NoData}]
    /\ login \in Login
    /\ sessions \in 0 .. MaxSessions
    /\ aq \in Seq(Save) /\ dq \in Seq(Save) /\ snap \in Seq(Save)
    /\ dpc \in {"swap", "write", "done"}
    /\ todo \subseteq Peers /\ apc \in {"sleep", "save", "done"} /\ rounds \in 0 .. MaxRounds
    /\ job \in [Writers -> Save \cup {NoJob}]
    /\ opened \in [Writers -> BOOLEAN] /\ clash \in [Writers -> BOOLEAN]
    /\ file \in [Accounts -> Content \cup {NoFile, Torn}]
    /\ proc \in {"up", "saving", "exiting", "down"} /\ sig \in BOOLEAN
    /\ left \subseteq Peers
    /\ clock \in [Accounts -> 0 .. MaxEdits]
    /\ covered \in Content /\ torn \in Content /\ due \in Content
    /\ dropped \in Content /\ strayed \in Content /\ revived \subseteq Peers

\* Edits of account a alone.
Own(a) == {a} \X (1 .. MaxEdits)

\* A player file holds data of another account only where the DoLogin dialog
\* has put that account's name on a Player which held it: whichever slots the
\* accounts' sessions use, and however All, the disconnect queue, AsyncWriter,
\* lost events and the console interleave with logins, a save pairs a name
\* with the data of that name.
OwnEditsOnly == \A a \in Accounts : \/ file[a] \in {NoFile, Torn}
                                    \/ file[a] \subseteq Own(a) \cup strayed

LoggedIn(p) == /\ state[p] = "connected"
               /\ player[p] # NoData
               /\ player[p].phase = "in"

\* An account has at most one session that is connected and has given its
\* password: a login disconnects every earlier one (Player_Authentication).
\* A connection whose CONNECT event was lost plays with the Player of an
\* earlier one and does not log in; it is left out.
OneSession ==
    \A p, q \in Peers \ revived :
        LoggedIn(p) /\ LoggedIn(q) /\ player[p].name = player[q].name => p = q

\* Edit e is in the memory of a session that has not been freed.
InMemory(e) == \E p \in Peers : /\ state[p] # "free"
                                /\ player[p] # NoData
                                /\ e \in player[p].ver

Made == {e \in Accounts \X (1 .. MaxEdits) : e[2] <= clock[e[1]]}

\* Edits that the code loses by what it does: with a session that logs out,
\* is kicked by the console or whose DISCONNECT event is dropped; under the
\* name of another account; in a file that two streams wrote at a time.
Forfeited == dropped \cup strayed \cup torn

\* While the server is up, every other change made to a player is in a
\* session's memory, on its way to the disk, or has been on disk: no other
\* way a session ends (disconnect, kick, reset, second login, refusal) and
\* no interleaving of saves with logins loses one.
EditsSafe ==
    proc = "up" => \A e \in Made \ Forfeited : InMemory(e) \/ InPipeline(e) \/ e \in covered

\* A change whose session has ended gets to the disk, unless it is one of
\* those or the process ends first.
EndedSessionIsSaved ==
    \A e \in Accounts \X (1 .. MaxEdits) :
        (e \in Made /\ ~InMemory(e)) ~> (e \in covered \cup Forfeited \/ proc # "up")

\* When Trigger's exit() ends the process, everything its save loop pushed
\* has been written, or replaced by the mixture of two streams.
TriggerSaves == (proc = "down" /\ ~sig) => due \subseteq covered \cup torn
=============================================================================
