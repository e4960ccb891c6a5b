------------------------- MODULE PlayerStoreProofs -------------------------
(***************************************************************************)
(* Proofs about PlayerStore for any peers, accounts and bounds, with       *)
(* overlapping streams or without: its types, whose data a file holds, who *)
(* is logged in, and which changes of a player may be lost.                *)
(***************************************************************************)
EXTENDS PlayerStore, TLAPS

\* A save carries data of its own account and of S.
SaveOK(s, S) == s.data \subseteq Own(s.name) \cup S

QueueOK(q, S) == \A i \in 1 .. Len(q) : SaveOK(q[i], S)

\* A Player that is not saved has nothing but data of D; one that has a name
\* has data of that account and of S, and none before it is loaded.
PlayerOK(pl, D, S) ==
    /\ pl.name = NoName \/ ~pl.pass => pl.ver \subseteq D
    /\ pl.name # NoName => pl.ver \subseteq Own(pl.name) \cup S
    /\ pl.phase = "fresh" => pl.name = NoName
    /\ pl.phase \in {"fresh", "loading"} => pl.ver = {}
    /\ pl.phase = "in" => pl.name # NoName /\ pl.pass

\* A login in progress works on a named Player with a password and nothing
\* loaded, and on the data of its account.
LoginInv == login # NoLogin =>
    LET p == login.peer IN
    /\ player[p] # NoData
    /\ player[p].phase = "loading"
    /\ player[p].name # NoName
    /\ player[p].pass
    /\ login.pc = "load" => login.json \subseteq Own(player[p].name) \cup strayed

\* The login has disconnected the other sessions of the account.
AloneInv == (login # NoLogin /\ login.pc = "load") =>
    \A q \in Peers : (/\ q # login.peer
                      /\ state[q] = "connected"
                      /\ player[q] # NoData)
                     => player[q].name # player[login.peer].name

PlayersInv == \A p \in Peers : player[p] # NoData => PlayerOK(player[p], dropped, strayed)

\* Queues, writers and files keep the accounts apart.
SavesInv == /\ QueueOK(aq, strayed) /\ QueueOK(dq, strayed) /\ QueueOK(snap, strayed)
            /\ \A w \in Writers : job[w] # NoJob => SaveOK(job[w], strayed)
            /\ OwnEditsOnly

\* A writer with an open file has a save in hand.
StreamInv == \A w \in Writers : opened[w] => job[w] # NoJob

IndInv == TypeOK /\ StreamInv /\ LoginInv /\ AloneInv /\ PlayersInv /\ SavesInv /\ OneSession

\* What Players() pushes is at most one well-formed save.
LEMMA SavesOK ==
    ASSUME NEW pl \in Player, NEW D, NEW S, PlayerOK(pl, D, S)
    PROVE  /\ Saves(pl) \in Seq(Save)
           /\ QueueOK(Saves(pl), S)
           /\ Saves(pl) # <<>> => /\ Saves(pl)[1] \in Save
                                  /\ SaveOK(Saves(pl)[1], S)
<1>1. CASE pl.name = NoName \/ ~pl.pass
  BY <1>1 DEF Saves, QueueOK
<1>2. CASE pl.name # NoName /\ pl.pass
  <2> DEFINE s == [name |-> pl.name, data |-> pl.ver]
  <2>1. s \in Save /\ SaveOK(s, S)
    BY <1>2 DEF Player, Save, SaveOK, PlayerOK
  <2>2. Saves(pl) = <<s>>
    BY <1>2 DEF Saves
  <2> QED BY <2>1, <2>2 DEF QueueOK
<1> QED BY <1>1, <1>2

\* Queues stay well-formed under concatenation and removal of the head.
LEMMA ConcatOK ==
    ASSUME NEW q \in Seq(Save), NEW r \in Seq(Save), NEW S, QueueOK(q, S), QueueOK(r, S)
    PROVE  q \o r \in Seq(Save) /\ QueueOK(q \o r, S)
<1>1. q \o r \in Seq(Save) /\ Len(q \o r) = Len(q) + Len(r)
  OBVIOUS
<1>2. ASSUME NEW i \in 1 .. Len(q \o r) PROVE SaveOK((q \o r)[i], S)
  <2>1. CASE i <= Len(q)
    BY <1>1, <2>1 DEF QueueOK
  <2>2. CASE i > Len(q)
    <3>1. i - Len(q) \in 1 .. Len(r) /\ (q \o r)[i] = r[i - Len(q)]
      BY <1>1, <2>2
    <3> QED BY <3>1 DEF QueueOK
  <2> QED BY <2>1, <2>2
<1> QED BY <1>1, <1>2 DEF QueueOK

\* Taking the head of a queue leaves a well-formed save and a well-formed queue.
LEMMA TailOK ==
    ASSUME NEW q \in Seq(Save), q # <<>>, NEW S, QueueOK(q, S)
    PROVE  /\ Head(q) \in Save /\ SaveOK(Head(q), S)
           /\ Tail(q) \in Seq(Save) /\ QueueOK(Tail(q), S)
<1>1. /\ Head(q) = q[1] /\ 1 \in 1 .. Len(q) /\ q[1] \in Save
      /\ Tail(q) \in Seq(Save) /\ Len(Tail(q)) = Len(q) - 1
      /\ \A i \in 1 .. Len(Tail(q)) : Tail(q)[i] = q[i + 1] /\ i + 1 \in 1 .. Len(q)
  OBVIOUS
<1> QED BY <1>1 DEF QueueOK

\* What is well-formed stays so when more has been given up or has strayed.
LEMMA StaysOK ==
    ASSUME NEW D, NEW S, NEW D2, NEW S2, D \subseteq D2, S \subseteq S2
    PROVE  /\ \A pl : PlayerOK(pl, D, S) => PlayerOK(pl, D2, S2)
           /\ \A s : SaveOK(s, S) => SaveOK(s, S2)
           /\ \A q : QueueOK(q, S) => QueueOK(q, S2)
<1>1. ASSUME NEW pl, PlayerOK(pl, D, S) PROVE PlayerOK(pl, D2, S2)
  BY <1>1 DEF PlayerOK
<1>2. ASSUME NEW s, SaveOK(s, S) PROVE SaveOK(s, S2)
  BY <1>2 DEF SaveOK
<1> QED BY <1>1, <1>2 DEF QueueOK

\* A login in progress is on a peer, and one that loads has data to load.
LEMMA LoginTypes ==
    ASSUME login \in Login
    PROVE  /\ login.pc \in {"auth", "load"} => login # NoLogin
           /\ login # NoLogin => login.peer \in Peers /\ login.pc \in {"auth", "load"}
           /\ login.pc = "load" => login.json \in Content
  BY DEF Login, NoLogin

\* The Player that Register makes.
Newcomer(a) == [name |-> a, pass |-> TRUE, ver |-> {<<a, clock[a] + 1>>}, phase |-> "in"]

\* A registered Player has its own first change, and it is saved.
LEMMA NewcomerOK ==
    ASSUME TypeOK, NEW a \in Accounts, clock[a] < MaxEdits, NEW D, NEW S
    PROVE  /\ clock[a] + 1 \in 1 .. MaxEdits
           /\ Newcomer(a) \in Player /\ Newcomer(a) # NoData
           /\ PlayerOK(Newcomer(a), D, S)
           /\ Saves(Newcomer(a)) \in Seq(Save) /\ QueueOK(Saves(Newcomer(a)), S)
<1>1. clock[a] + 1 \in 1 .. MaxEdits
  BY PSAssumption DEF TypeOK
<1>2. {<<a, clock[a] + 1>>} \in Content /\ {<<a, clock[a] + 1>>} \subseteq Own(a)
  BY <1>1 DEF Content, Own
<1>3. Newcomer(a) \in Player /\ PlayerOK(Newcomer(a), D, S)
  BY <1>2, PSAssumption DEF Player, PlayerOK, Newcomer
<1> QED BY <1>1, <1>3, SavesOK, PSAssumption

\* No step takes back what has been given up, has strayed, was torn or has
\* been on disk.
LEMMA HistoryGrows ==
    ASSUME [Next]_vars
    PROVE  /\ dropped \subseteq dropped' /\ strayed \subseteq strayed'
           /\ covered \subseteq covered' /\ torn \subseteq torn'
<1> USE DEF history, disk
<1>1. ASSUME NEW p \in Peers, MainStep(p)
      PROVE  /\ dropped \subseteq dropped' /\ strayed \subseteq strayed' /\ UNCHANGED <<covered, torn>>
  <2>1. CASE Connect(p) \/ ConnectLost(p) \/ ClientLeaves(p) \/ Disconnect(p) \/ DisconnectLost(p)
             \/ SpamKick(p) \/ PeerReset(p)
    BY <2>1 DEF Connect, ConnectLost, ClientLeaves, Disconnect, DisconnectLost, SpamKick, PeerReset
  <2>2. CASE \/ \E a \in Accounts, good \in BOOLEAN : LoginName(p, a, good)
             \/ \E a \in Accounts \cup {NoName}, pass \in BOOLEAN : LoginDenied(p, a, pass)
             \/ \E a \in Accounts : Register(p, a)
             \/ \E a \in Accounts \cup {NoName}, how \in {"token", "guest"} : LoginUnchecked(p, a, how)
    BY <2>2 DEF LoginName, LoginDenied, Register, LoginUnchecked
  <2>3. CASE (\E b \in Accounts : DoLogin(p, b)) \/ Logout_MyAcc(p) \/ Change_Password(p)
             \/ Edit(p) \/ SaveNow(p)
    BY <2>3 DEF DoLogin, Logout_MyAcc, Change_Password, Edit, SaveNow
  <2> QED BY <1>1, <2>1, <2>2, <2>3 DEF MainStep
<1>2. ASSUME NEW p \in Peers, ConsoleStep(p)
      PROVE  dropped \subseteq dropped' /\ UNCHANGED <<strayed, covered, torn>>
  BY <1>2 DEF ConsoleStep, ConsoleMaintenance, ConsoleKickall
<1>3. ASSUME AuthStep PROVE dropped \subseteq dropped' /\ UNCHANGED <<strayed, covered, torn>>
  BY <1>3 DEF AuthStep, AuthRefuse, AuthRead, AuthThrow, AuthLoad
<1>4. ASSUME NEW w, FileStep(w)
      PROVE  UNCHANGED <<dropped, strayed>> /\ covered \subseteq covered' /\ torn \subseteq torn'
  BY <1>4 DEF FileStep, Thread, FileOpen, FileClose
<1>5. ASSUME \/ Thread(AsyncTake) \/ Thread(DisconnectSwap) \/ Thread(DisconnectTake)
             \/ Thread(DisconnectLoop(proc = "up"))
             \/ AllSnapshot \/ (\E p \in Peers : AllSerialize(p)) \/ AllLoop
      PROVE  UNCHANGED <<dropped, strayed, covered, torn>>
  BY <1>5 DEF Thread, AsyncTake, DisconnectSwap, DisconnectTake, DisconnectLoop, AllSnapshot,
     AllSerialize, AllLoop
<1>6. ASSUME EndStep PROVE UNCHANGED <<dropped, strayed, covered, torn>>
  BY <1>6 DEF EndStep, EndBegin, EndSave, EndSaved, EndExit
<1>7. CASE UNCHANGED vars
  BY <1>7 DEF vars
<1> QED
  BY <1>1, <1>2, <1>3, <1>4, <1>5, <1>6, <1>7 DEF Next, AsyncStep, DisconnectStep, AllStep

\* Every step keeps the variables within their types, and a
\* file is open only for a save in hand.
LEMMA TypeStep ==
    ASSUME IndInv, [Next]_vars
    PROVE  TypeOK' /\ StreamInv'
<1> USE PSAssumption DEF IndInv, TypeOK, StreamInv, all, mem, pipe, disk, ending, history
<1>s. ASSUME NEW p \in Peers, player[p] # NoData
      PROVE  /\ player[p] \in Player /\ Saves(player[p]) \in Seq(Save)
             /\ Saves(player[p]) # <<>> => Saves(player[p])[1] \in Save
  BY <1>s, SavesOK DEF PlayersInv
<1>1. ASSUME NEW p \in Peers, Connect(p) PROVE TypeOK' /\ StreamInv'
  <2>1. NewPlayer \in Player
    BY DEF NewPlayer, Player, Content, Blank
  <2> QED BY <1>1, <2>1 DEF Connect
<1>2. ASSUME NEW p \in Peers, ConnectLost(p) PROVE TypeOK' /\ StreamInv'
  BY <1>2 DEF ConnectLost
<1>34. ASSUME NEW p \in Peers, ClientLeaves(p) PROVE TypeOK' /\ StreamInv'
  BY <1>34 DEF ClientLeaves, Peer_Disconnect
<1>3. ASSUME NEW p \in Peers, Disconnect(p) PROVE TypeOK' /\ StreamInv'
  <2>1. dq' \in Seq(Save)
    BY <1>3, <1>s DEF Disconnect
  <2> QED BY <1>3, <2>1 DEF Disconnect
<1>4. ASSUME NEW p \in Peers, SpamKick(p) PROVE TypeOK' /\ StreamInv'
  <2>1. aq' \in Seq(Save)
    BY <1>4, <1>s DEF SpamKick, InGame, Receiving
  <2> QED BY <1>4, <2>1 DEF SpamKick, Peer_Disconnect
<1>5. ASSUME NEW p \in Peers, PeerReset(p) PROVE TypeOK' /\ StreamInv'
  BY <1>5 DEF PeerReset
<1>6. ASSUME NEW p \in Peers, NEW a \in Accounts, NEW good \in BOOLEAN, LoginName(p, a, good)
      PROVE  TypeOK' /\ StreamInv'
  <2>1. player[p] \in Player
    BY <1>6, <1>s DEF LoginName, Receiving
  <2>2. player' \in [Peers -> Player \cup {NoData}]
    BY <1>6, <2>1 DEF LoginName, Player
  <2>3. login' \in Login
    BY <1>6 DEF LoginName, Login
  <2> QED BY <1>6, <2>2, <2>3 DEF LoginName
<1>7. ASSUME NEW p \in Peers, NEW a \in Accounts, Register(p, a) PROVE TypeOK' /\ StreamInv'
  <2>1. player' = [player EXCEPT ![p] = Newcomer(a)] /\ player'[p] = Newcomer(a)
    BY <1>7 DEF Register, Newcomer
  <2>2. /\ clock[a] + 1 \in 1 .. MaxEdits
        /\ Newcomer(a) \in Player /\ Saves(Newcomer(a)) \in Seq(Save)
    BY <1>7, NewcomerOK DEF Register
  <2>3. aq' \in Seq(Save)
    <3>1. aq' = aq \o Saves(Newcomer(a))
      BY <1>7, <2>1 DEF Register
    <3> QED BY <2>2, <3>1
  <2>4. clock' \in [Accounts -> 0 .. MaxEdits]
    BY <1>7, <2>2 DEF Register
  <2>5. player' \in [Peers -> Player \cup {NoData}]
    BY <2>1, <2>2
  <2> QED BY <1>7, <2>3, <2>4, <2>5 DEF Register, Peer_Disconnect
<1>8. ASSUME NEW p \in Peers, NEW a \in Accounts \cup {NoName}, NEW how \in {"token", "guest"},
             LoginUnchecked(p, a, how)
      PROVE  TypeOK' /\ StreamInv'
  <2>1. player[p] \in Player
    BY <1>8, <1>s DEF LoginUnchecked, Receiving
  <2>2. player' \in [Peers -> Player \cup {NoData}]
    BY <1>8, <2>1 DEF LoginUnchecked, Player
  <2> QED BY <1>8, <2>2 DEF LoginUnchecked
<1>9. ASSUME NEW p \in Peers, Edit(p) PROVE TypeOK' /\ StreamInv'
  <2>1. player[p] \in Player /\ player[p].name \in Accounts
    BY <1>9, <1>s DEF Edit, InGame, Receiving, Player
  <2> DEFINE a == player[p].name
             v == player[p].ver \cup {<<a, clock[a] + 1>>}
  <2>3. clock[a] + 1 \in 1 .. MaxEdits
    BY <1>9, <2>1 DEF Edit
  <2>4. v \in Content
    BY <2>1, <2>3 DEF Player, Content
  <2>5. player' \in [Peers -> Player \cup {NoData}]
    BY <1>9, <2>1, <2>4 DEF Edit, Player
  <2>6. clock' \in [Accounts -> 0 .. MaxEdits]
    BY <1>9, <2>1, <2>3 DEF Edit
  <2> QED BY <1>9, <2>5, <2>6 DEF Edit
<1>10. ASSUME NEW p \in Peers, SaveNow(p) PROVE TypeOK' /\ StreamInv'
  <2>1. aq' \in Seq(Save)
    BY <1>10, <1>s DEF SaveNow, InGame, Receiving
  <2> QED BY <1>10, <2>1 DEF SaveNow
<1>11. ASSUME AuthRefuse PROVE TypeOK' /\ StreamInv'
  <2>1. login.peer \in Peers /\ player[login.peer] \in Player
    BY <1>11, <1>s, LoginTypes DEF AuthRefuse, LoginInv
  <2>2. player' \in [Peers -> Player \cup {NoData}]
    BY <1>11, <2>1 DEF AuthRefuse, Player
  <2>3. login' \in Login
    BY <1>11 DEF AuthRefuse, Login
  <2> QED BY <1>11, <2>2, <2>3 DEF AuthRefuse, Peer_Disconnect
<1>12. ASSUME AuthRead PROVE TypeOK' /\ StreamInv'
  <2>1. login # NoLogin /\ login.peer \in Peers
    BY <1>12, LoginTypes DEF AuthRead
  <2>2. player[login.peer] \in Player /\ player[login.peer].name \in Accounts
    BY <2>1 DEF LoginInv, Player
  <2>3. file[player[login.peer].name] \in Content
    BY <1>12, <2>2 DEF AuthRead
  <2>4. login' \in Login
    BY <1>12, <2>1, <2>3 DEF AuthRead, Login
  <2> QED BY <1>12, <2>4 DEF AuthRead, Peer_Disconnect
<1>13. ASSUME NEW accepted \in BOOLEAN, AuthLoad(accepted) PROVE TypeOK' /\ StreamInv'
  <2>1. login # NoLogin /\ login.peer \in Peers /\ login.json \in Content
    BY <1>13, LoginTypes DEF AuthLoad
  <2>2. player[login.peer] \in Player
    BY <2>1 DEF LoginInv
  <2>3. player' \in [Peers -> Player \cup {NoData}]
    BY <1>13, <2>1, <2>2 DEF AuthLoad, Player
  <2>4. login' \in Login
    BY <1>13 DEF AuthLoad, Login
  <2>5. dropped' \in Content
    BY <1>13, <2>1 DEF AuthLoad, Content
  <2> QED BY <1>13, <2>3, <2>4, <2>5 DEF AuthLoad, Peer_Disconnect
<1>14. ASSUME Thread(AsyncTake) PROVE TypeOK' /\ StreamInv'
  <2>1. Head(aq) \in Save /\ aq' \in Seq(Save) /\ "async" \in Writers
    BY <1>14, TailOK DEF Thread, AsyncTake, SavesInv, Writers
  <2> QED BY <1>14, <2>1 DEF Thread, AsyncTake
<1>15. ASSUME Thread(DisconnectSwap) PROVE TypeOK' /\ StreamInv'
  BY <1>15 DEF Thread, DisconnectSwap
<1>16. ASSUME Thread(DisconnectTake) PROVE TypeOK' /\ StreamInv'
  <2>1. Head(snap) \in Save /\ snap' \in Seq(Save) /\ "disconnect" \in Writers
    BY <1>16, TailOK DEF Thread, DisconnectTake, SavesInv, Writers
  <2> QED BY <1>16, <2>1 DEF Thread, DisconnectTake
<1>17. ASSUME Thread(DisconnectLoop(proc = "up")) PROVE TypeOK' /\ StreamInv'
  BY <1>17 DEF Thread, DisconnectLoop
<1>18. ASSUME AllSnapshot PROVE TypeOK' /\ StreamInv'
  BY <1>18 DEF AllSnapshot
<1>19. ASSUME NEW p \in Peers, AllSerialize(p) PROVE TypeOK' /\ StreamInv'
  <2>1. "all" \in Writers /\ ~opened["all"]
    BY <1>19 DEF AllSerialize, Writers
  <2>2. job'["all"] \in Save \cup {NoJob} /\ \A w \in Writers : w # "all" => job'[w] = job[w]
    BY <1>19, <1>s, <2>1 DEF AllSerialize
  <2>3. job' \in [Writers -> Save \cup {NoJob}]
    BY <1>19, <2>2 DEF AllSerialize
  <2> QED BY <1>19, <2>1, <2>2, <2>3 DEF AllSerialize
<1>20. ASSUME AllLoop PROVE TypeOK' /\ StreamInv'
  BY <1>20 DEF AllLoop
<1>21. ASSUME NEW w \in Writers, Thread(FileOpen(w)) PROVE TypeOK' /\ StreamInv'
  BY <1>21 DEF Thread, FileOpen
<1>22. ASSUME NEW w \in Writers, NEW mixed \in BOOLEAN, Thread(FileClose(w, mixed)) PROVE TypeOK' /\ StreamInv'
  <2>1. job[w] \in Save
    BY <1>22 DEF Thread, FileClose
  <2>2. job[w].name \in Accounts /\ job[w].data \in Content
    BY <2>1 DEF Save
  <2>3. covered' \in Content /\ torn' \in Content
    BY <1>22, <2>2 DEF Thread, FileClose, Content
  <2>4. file' \in [Accounts -> Content \cup {NoFile, Torn}]
    BY <1>22, <2>2 DEF Thread, FileClose
  <2> QED BY <1>22, <2>3, <2>4 DEF Thread, FileClose
<1>23. ASSUME NEW crash \in Ends, EndBegin(crash) PROVE TypeOK' /\ StreamInv'
  BY <1>23 DEF EndBegin
<1>24. ASSUME NEW p \in Peers, EndSave(p) PROVE TypeOK' /\ StreamInv'
  <2>1. CASE state[p] = "connected" /\ player[p] # NoData
    <3>1. player[p] \in Player /\ Saves(player[p]) \in Seq(Save)
      BY <1>s, <2>1
    <3>2. aq' \in Seq(Save)
      BY <1>24, <2>1, <3>1 DEF EndSave
    <3>3. due' \in Content
      BY <1>24, <2>1, <3>1 DEF EndSave, Player, Content
    <3> QED BY <1>24, <3>2, <3>3 DEF EndSave
  <2>2. CASE ~(state[p] = "connected" /\ player[p] # NoData)
    BY <1>24, <2>2 DEF EndSave
  <2> QED BY <2>1, <2>2
<1>25. ASSUME EndSaved PROVE TypeOK' /\ StreamInv'
  BY <1>25 DEF EndSaved
<1>26. ASSUME EndExit PROVE TypeOK' /\ StreamInv'
  BY <1>26 DEF EndExit
<1>27. CASE UNCHANGED vars
  BY <1>27 DEF vars
<1>i. ASSUME NEW p \in Peers PROVE InSlot(p) \in Content
  BY DEF InSlot, Player, Content
<1>28. ASSUME NEW p \in Peers, DisconnectLost(p) \/ ConsoleStep(p) PROVE TypeOK' /\ StreamInv'
  <2>1. dropped' \in Content
    BY <1>28, <1>i DEF DisconnectLost, ConsoleStep, ConsoleMaintenance, ConsoleKickall, Content
  <2> QED BY <1>28, <2>1 DEF DisconnectLost, ConsoleStep, ConsoleMaintenance, ConsoleKickall,
                            Peer_Disconnect
<1>29. ASSUME NEW p \in Peers, NEW a \in Accounts \cup {NoName}, NEW pass \in BOOLEAN,
              LoginDenied(p, a, pass)
       PROVE  TypeOK' /\ StreamInv'
  <2>1. player[p] \in Player
    BY <1>29, <1>s DEF LoginDenied, Receiving
  <2>2. player' \in [Peers -> Player \cup {NoData}]
    BY <1>29, <2>1 DEF LoginDenied, Player
  <2> QED BY <1>29, <2>2 DEF LoginDenied, Peer_Disconnect
<1>30. ASSUME NEW p \in Peers, NEW b \in Accounts, DoLogin(p, b) PROVE TypeOK' /\ StreamInv'
  <2>1. player[p] \in Player
    BY <1>30, <1>s DEF DoLogin, Dialog, Receiving
  <2>2. player' \in [Peers -> Player \cup {NoData}]
    BY <1>30, <2>1 DEF DoLogin, Player
  <2>3. strayed' \in Content
    BY <1>30, <2>1 DEF DoLogin, Player, Content
  <2> QED BY <1>30, <2>2, <2>3 DEF DoLogin, Peer_Disconnect
<1>31. ASSUME NEW p \in Peers, Logout_MyAcc(p) PROVE TypeOK' /\ StreamInv'
  <2>1. player[p] \in Player
    BY <1>31, <1>s DEF Logout_MyAcc, Dialog, Receiving
  <2>2. player' \in [Peers -> Player \cup {NoData}]
    BY <1>31, <2>1 DEF Logout_MyAcc, Player
  <2>3. dropped' \in Content
    BY <1>31, <2>1 DEF Logout_MyAcc, Player, Content
  <2> QED BY <1>31, <2>2, <2>3 DEF Logout_MyAcc, Peer_Disconnect
<1>32. ASSUME NEW p \in Peers, Change_Password(p) PROVE TypeOK' /\ StreamInv'
  <2>1. player[p] \in Player
    BY <1>32, <1>s DEF Change_Password, Dialog, Receiving
  <2>2. player' \in [Peers -> Player \cup {NoData}]
    BY <1>32, <2>1 DEF Change_Password, Player
  <2> QED BY <1>32, <2>2 DEF Change_Password
<1>33. ASSUME AuthThrow PROVE TypeOK' /\ StreamInv'
  <2>1. login # NoLogin /\ login.peer \in Peers /\ login.json \in Content
    BY <1>33, LoginTypes DEF AuthThrow
  <2>2. player[login.peer] \in Player
    BY <2>1 DEF LoginInv
  <2>3. player' \in [Peers -> Player \cup {NoData}]
    BY <1>33, <2>1, <2>2 DEF AuthThrow, Player
  <2>4. login' \in Login
    BY <1>33 DEF AuthThrow, Login
  <2>5. dropped' \in Content
    BY <1>33, <2>1 DEF AuthThrow, Content
  <2> QED BY <1>33, <2>3, <2>4, <2>5 DEF AuthThrow, Peer_Disconnect
<1> HIDE DEF IndInv, TypeOK, StreamInv, all, mem, pipe, disk, ending, history
<1>w. "async" \in Writers /\ "disconnect" \in Writers /\ "all" \in Writers
  BY DEF Writers
<1> QED
  BY <1>w, <1>1, <1>2, <1>3, <1>4, <1>5, <1>6, <1>7, <1>8, <1>9, <1>10,
     <1>11, <1>12, <1>13, <1>14, <1>15, <1>16, <1>17, <1>18, <1>19,
     <1>20, <1>21, <1>22, <1>23, <1>24, <1>25, <1>26, <1>27, <1>28, <1>29,
     <1>30, <1>31, <1>32, <1>33, <1>34
  DEF Next, MainStep, AuthStep, AsyncStep, DisconnectStep, AllStep, FileStep, EndStep

\* The steps of the main thread and the console keep sessions apart: each
\* Player has data of its own account, and an account is logged in once.
LEMMA SessionStep ==
    ASSUME IndInv, [Next]_vars
    PROVE  LoginInv' /\ AloneInv' /\ PlayersInv' /\ OneSession'
<1> DEFINE Goal == LoginInv /\ AloneInv /\ PlayersInv /\ OneSession
<1> SUFFICES Goal'
  OBVIOUS
<1>h. dropped \subseteq dropped' /\ strayed \subseteq strayed'
  BY HistoryGrows
<1>t. /\ state \in [Peers -> {"free", "connected", "leaving"}]
      /\ player \in [Peers -> Player \cup {NoData}]
      /\ login \in Login
      /\ file \in [Accounts -> Content \cup {NoFile, Torn}]
      /\ clock \in [Accounts -> 0 .. MaxEdits]
  BY DEF IndInv, TypeOK
<1>p. ASSUME NEW p \in Peers, player[p] # NoData
      PROVE  player[p] \in Player /\ PlayerOK(player[p], dropped, strayed)
  BY <1>t, <1>p DEF IndInv, PlayersInv
\* Only p's Player changes.
<1>k. ASSUME NEW p \in Peers, \A q \in Peers : q # p => player'[q] = player[q],
             player'[p] # NoData => PlayerOK(player'[p], dropped', strayed')
      PROVE  PlayersInv'
  <2>1. ASSUME NEW q \in Peers, q # p, player'[q] # NoData
        PROVE  PlayerOK(player'[q], dropped', strayed')
    <3>1. player'[q] = player[q] /\ PlayerOK(player[q], dropped, strayed)
      BY <1>k, <1>p, <2>1
    <3> QED BY <1>h, <3>1, StaysOK
  <2> QED BY <1>k, <2>1 DEF PlayersInv
<1>u. ASSUME player' = player PROVE PlayersInv'
  <2>1. ASSUME NEW q \in Peers, player'[q] # NoData
        PROVE  PlayerOK(player'[q], dropped', strayed')
    <3>1. player'[q] = player[q] /\ PlayerOK(player[q], dropped, strayed)
      BY <1>u, <1>p, <2>1
    <3> QED BY <1>h, <3>1, StaysOK
  <2> QED BY <2>1 DEF PlayersInv
<1>o. ASSUME \A q \in Peers \ revived' : LoggedIn(q)' =>
                  q \notin revived /\ LoggedIn(q) /\ player'[q].name = player[q].name
      PROVE  OneSession'
  BY <1>o DEF IndInv, OneSession
<1>l. ASSUME login' = NoLogin PROVE LoginInv' /\ AloneInv'
  BY <1>l DEF LoginInv, AloneInv
\* No Player changes and no peer connects.
<1>q. ASSUME UNCHANGED <<player, login, revived>>,
             \A q \in Peers : state'[q] = "connected" => state[q] = "connected"
      PROVE  Goal'
  <2>1. LoginInv' /\ AloneInv'
    BY <1>h, <1>q DEF IndInv, LoginInv, AloneInv
  <2>2. PlayersInv'
    BY <1>q, <1>u
  <2>3. OneSession'
    BY <1>q, <1>o DEF LoggedIn
  <2> QED BY <2>1, <2>2, <2>3
<1> USE PSAssumption
<1>1. ASSUME NEW p \in Peers, Connect(p) PROVE Goal'
  <2>1. PlayerOK(NewPlayer, dropped', strayed') /\ NewPlayer.phase = "fresh"
    BY DEF PlayerOK, NewPlayer, Blank
  <2>2. player'[p] = NewPlayer /\ \A q \in Peers : q # p => player'[q] = player[q] /\ state'[q] = state[q]
    BY <1>t, <1>1 DEF Connect
  <2>3. login' = NoLogin /\ revived' = revived \ {p}
    BY <1>1 DEF Connect
  <2>4. OneSession'
    BY <2>1, <2>2, <2>3, <1>o DEF LoggedIn
  <2> QED BY <2>1, <2>2, <2>3, <2>4, <1>k, <1>l
<1>2. ASSUME NEW p \in Peers, ConnectLost(p) PROVE Goal'
  <2>1. /\ player' = player /\ login' = NoLogin /\ revived' = revived \cup {p}
        /\ \A q \in Peers : q # p => state'[q] = state[q]
    BY <1>t, <1>2 DEF ConnectLost
  <2>2. OneSession'
    BY <2>1, <1>o DEF LoggedIn
  <2> QED BY <2>1, <2>2, <1>u, <1>l
<1>3. ASSUME NEW p \in Peers,
             ClientLeaves(p) \/ DisconnectLost(p) \/ PeerReset(p) \/ ConsoleStep(p)
      PROVE  Goal'
  <2>1. /\ UNCHANGED <<player, login, revived>>
        /\ \A q \in Peers : state'[q] = "connected" => state[q] = "connected"
    BY <1>t, <1>3 DEF ClientLeaves, DisconnectLost, PeerReset, ConsoleStep, ConsoleMaintenance,
       ConsoleKickall, Peer_Disconnect, history
  <2> HIDE DEF Goal
  <2> QED BY <2>1, <1>q
<1>4. ASSUME NEW p \in Peers, Disconnect(p) \/ SpamKick(p) PROVE Goal'
  <2>1. /\ player'[p] = NoData /\ login' = NoLogin /\ revived' = revived
        /\ \A q \in Peers : q # p => player'[q] = player[q] /\ state'[q] = state[q]
    BY <1>t, <1>4 DEF Disconnect, SpamKick, InGame, Receiving, Peer_Disconnect, history
  <2>2. OneSession'
    BY <2>1, <1>o DEF LoggedIn
  <2> QED BY <2>1, <2>2, <1>k, <1>l
<1>5. ASSUME NEW p \in Peers, NEW a \in Accounts, NEW good \in BOOLEAN, LoginName(p, a, good)
      PROVE  Goal'
  <2>1. player[p] \in Player /\ player[p].phase = "fresh" /\ player[p].ver = {}
    BY <1>5, <1>p DEF LoginName, Receiving, PlayerOK
  <2>2. /\ player'[p] = [player[p] EXCEPT !.name = a, !.pass = TRUE, !.phase = "loading"]
        /\ \A q \in Peers : q # p => player'[q] = player[q]
        /\ UNCHANGED <<state, revived>>
    BY <1>t, <1>5 DEF LoginName, history
  <2>3. /\ player'[p] \in Player /\ player'[p].name = a /\ player'[p].phase = "loading"
        /\ player'[p].ver = {} /\ player'[p].pass
    BY <2>1, <2>2 DEF Player
  <2>4. PlayerOK(player'[p], dropped', strayed')
    BY <2>3 DEF PlayerOK
  <2>5. player'[p] # NoData /\ a # NoName
    BY <2>3
  <2>6. login' # NoLogin /\ login'.peer = p /\ login'.pc = "auth"
    BY <1>5 DEF LoginName, NoLogin
  <2>7. LoginInv' /\ AloneInv'
    BY <2>3, <2>5, <2>6 DEF LoginInv, AloneInv
  <2>8. PlayersInv'
    BY <2>2, <2>4, <1>k
  <2>9. OneSession'
    BY <2>2, <2>3, <1>o DEF LoggedIn
  <2> QED BY <2>7, <2>8, <2>9
<1>6. ASSUME NEW p \in Peers, NEW a \in Accounts \cup {NoName}, NEW pass \in BOOLEAN,
             LoginDenied(p, a, pass)
      PROVE  Goal'
  <2>1. player[p] \in Player /\ player[p].ver = {} /\ login = NoLogin /\ state[p] # "free"
    BY <1>6, <1>p DEF LoginDenied, Receiving, PlayerOK
  <2>2. /\ player'[p] = [player[p] EXCEPT !.name = a, !.pass = pass, !.phase = "refused"]
        /\ \A q \in Peers : q # p => player'[q] = player[q] /\ state'[q] = state[q]
        /\ state'[p] = "leaving" /\ revived' = revived /\ login' = NoLogin
    BY <1>t, <1>6, <2>1 DEF LoginDenied, Peer_Disconnect, history
  <2>3. player'[p].phase = "refused" /\ player'[p].ver = {}
    BY <2>1, <2>2 DEF Player
  <2>4. PlayerOK(player'[p], dropped', strayed')
    BY <2>3 DEF PlayerOK
  <2>5. OneSession'
    BY <2>2, <1>o DEF LoggedIn
  <2> QED BY <2>2, <2>4, <2>5, <1>k, <1>l
<1>7. ASSUME NEW p \in Peers, NEW a \in Accounts, Register(p, a) PROVE Goal'
  <2>1. PlayerOK(Newcomer(a), dropped', strayed')
    BY <1>7, NewcomerOK DEF Register, IndInv
  <2>2. /\ player'[p] = Newcomer(a) /\ login' = NoLogin /\ revived' = revived
        /\ \A q \in Peers : q # p => player'[q] = player[q] /\ state'[q] = state[q]
        /\ state'[p] = "leaving"
    BY <1>t, <1>7 DEF Register, Newcomer, Receiving, Peer_Disconnect
  <2>3. OneSession'
    BY <2>2, <1>o DEF LoggedIn
  <2> QED BY <2>1, <2>2, <2>3, <1>k, <1>l
<1>8. ASSUME NEW p \in Peers, NEW a \in Accounts \cup {NoName}, NEW how \in {"token", "guest"},
             LoginUnchecked(p, a, how)
      PROVE  Goal'
  <2>1. player[p] \in Player /\ player[p].ver = {} /\ login = NoLogin
    BY <1>8, <1>p DEF LoginUnchecked, Receiving, PlayerOK
  <2>2. /\ player'[p] = [player[p] EXCEPT !.name = a, !.phase = how]
        /\ \A q \in Peers : q # p => player'[q] = player[q]
        /\ UNCHANGED <<state, login, revived>>
    BY <1>t, <1>8 DEF LoginUnchecked, history
  <2>3. player'[p].phase \in {"token", "guest"} /\ player'[p].ver = {}
    BY <2>1, <2>2 DEF Player
  <2>4. PlayerOK(player'[p], dropped', strayed')
    BY <2>3 DEF PlayerOK
  <2>5. OneSession'
    BY <2>2, <2>3, <1>o DEF LoggedIn
  <2> QED BY <2>1, <2>2, <2>4, <2>5, <1>k, <1>l
<1>9. ASSUME NEW p \in Peers, NEW b \in Accounts, DoLogin(p, b) PROVE Goal'
  <2>1. /\ player[p] \in Player /\ PlayerOK(player[p], dropped, strayed) /\ login = NoLogin
        /\ state[p] # "free" /\ player[p].phase # "fresh"
    BY <1>9, <1>p DEF DoLogin, Dialog, Receiving
  <2>2. /\ player'[p] = [player[p] EXCEPT !.name = b, !.pass = TRUE]
        /\ \A q \in Peers : q # p => player'[q] = player[q] /\ state'[q] = state[q]
        /\ state'[p] = "leaving" /\ revived' = revived /\ login' = NoLogin
        /\ strayed' = strayed \cup {e \in player[p].ver : e[1] # b}
    BY <1>t, <1>9, <2>1 DEF DoLogin, Peer_Disconnect
  <2>3. /\ player'[p].phase = player[p].phase /\ player'[p].ver = player[p].ver
        /\ player'[p].name = b /\ player'[p].pass /\ b # NoName
    BY <2>1, <2>2 DEF Player
  <2>4. player[p].ver \subseteq Own(b) \cup strayed'
    <3>1. player[p].ver \subseteq Accounts \X (1 .. MaxEdits)
      BY <2>1 DEF Player, Content
    <3>2. \A e \in player[p].ver : e[1] = b => e \in Own(b)
      BY <3>1 DEF Own
    <3> QED BY <2>2, <3>2
  <2>5. PlayerOK(player'[p], dropped', strayed')
    BY <2>1, <2>3, <2>4 DEF PlayerOK
  <2>6. OneSession'
    BY <2>2, <1>o DEF LoggedIn
  <2> QED BY <2>2, <2>5, <2>6, <1>k, <1>l
<1>10. ASSUME NEW p \in Peers, Logout_MyAcc(p) PROVE Goal'
  <2>1. player[p] \in Player /\ login = NoLogin /\ state[p] # "free"
    BY <1>10, <1>p DEF Logout_MyAcc, Dialog, Receiving
  <2>2. /\ player'[p] = [player[p] EXCEPT !.name = NoName, !.pass = FALSE, !.phase = "guest"]
        /\ \A q \in Peers : q # p => player'[q] = player[q] /\ state'[q] = state[q]
        /\ state'[p] = "leaving" /\ revived' = revived /\ login' = NoLogin
        /\ dropped' = dropped \cup player[p].ver
    BY <1>t, <1>10, <2>1 DEF Logout_MyAcc, Peer_Disconnect
  <2>3. player'[p].name = NoName /\ player'[p].ver = player[p].ver /\ player'[p].phase = "guest"
    BY <2>1, <2>2 DEF Player
  <2>4. PlayerOK(player'[p], dropped', strayed')
    BY <2>2, <2>3 DEF PlayerOK
  <2>5. OneSession'
    BY <2>2, <1>o DEF LoggedIn
  <2> QED BY <2>2, <2>4, <2>5, <1>k, <1>l
<1>11. ASSUME NEW p \in Peers, Change_Password(p) PROVE Goal'
  <2>1. /\ player[p] \in Player /\ PlayerOK(player[p], dropped, strayed) /\ login = NoLogin
        /\ player[p] # NoData
    BY <1>11, <1>p DEF Change_Password, Dialog, Receiving
  <2>2. /\ player'[p] = [player[p] EXCEPT !.pass = TRUE]
        /\ \A q \in Peers : q # p => player'[q] = player[q]
        /\ UNCHANGED <<state, login, revived, dropped, strayed>>
    BY <1>t, <1>11 DEF Change_Password, history
  <2>3. /\ player'[p].name = player[p].name /\ player'[p].ver = player[p].ver
        /\ player'[p].phase = player[p].phase /\ player'[p].pass
    BY <2>1, <2>2 DEF Player
  <2>4. PlayerOK(player'[p], dropped', strayed')
    BY <2>1, <2>2, <2>3 DEF PlayerOK
  <2>5. OneSession'
    BY <2>1, <2>2, <2>3, <1>o DEF LoggedIn
  <2> QED BY <2>1, <2>2, <2>4, <2>5, <1>k, <1>l
<1>12. ASSUME NEW p \in Peers, Edit(p) PROVE Goal'
  <2> DEFINE a == player[p].name
             v == player[p].ver \cup {<<a, clock[a] + 1>>}
  <2>1. /\ player[p] \in Player /\ player[p] # NoData /\ player[p].phase = "in"
        /\ PlayerOK(player[p], dropped, strayed) /\ login = NoLogin
    BY <1>12, <1>p DEF Edit, InGame, Receiving
  <2>2. a \in Accounts /\ player[p].pass
    BY <2>1 DEF Player, PlayerOK
  <2>3. clock[a] + 1 \in 1 .. MaxEdits
    BY <1>t, <1>12, <2>2 DEF Edit
  <2>4. v \subseteq Own(a) \cup strayed
    BY <2>1, <2>2, <2>3 DEF PlayerOK, Own
  <2>5. /\ player'[p] = [player[p] EXCEPT !.ver = v]
        /\ \A q \in Peers : q # p => player'[q] = player[q]
        /\ UNCHANGED <<state, login, revived, strayed, dropped>>
    BY <1>t, <1>12 DEF Edit
  <2>6. /\ player'[p].name = a /\ player'[p].ver = v /\ player'[p].phase = "in"
        /\ player'[p].pass = player[p].pass
    BY <2>1, <2>5 DEF Player
  <2>7. PlayerOK(player'[p], dropped', strayed')
    BY <2>2, <2>4, <2>5, <2>6 DEF PlayerOK
  <2> HIDE DEF v
  <2>8. OneSession'
    BY <2>1, <2>5, <2>6, <1>o DEF LoggedIn
  <2> QED BY <2>1, <2>5, <2>7, <2>8, <1>k, <1>l
<1>13. ASSUME AuthRefuse \/ AuthThrow PROVE Goal'
  <2> DEFINE p == login.peer
  <2>1. login # NoLogin /\ p \in Peers
    BY <1>t, <1>13, LoginTypes DEF AuthRefuse, AuthThrow
  <2>2. player[p] \in Player /\ player[p].ver = {}
    BY <2>1, <1>p DEF IndInv, LoginInv, PlayerOK
  <2>3. /\ player'[p] \in {[player[p] EXCEPT !.name = NoName, !.pass = FALSE, !.phase = "refused"],
                           [player[p] EXCEPT !.name = NoName, !.pass = FALSE, !.ver = login.json,
                                             !.phase = "refused"]}
        /\ \A q \in Peers : q # p => player'[q] = player[q] /\ state'[q] = state[q]
        /\ state'[p] # "connected"
        /\ login' = NoLogin /\ revived' = revived
    BY <1>t, <1>13, <2>1 DEF AuthRefuse, AuthThrow, Peer_Disconnect, history
  <2>4. /\ player'[p].name = NoName /\ player'[p].phase = "refused"
        /\ player'[p].ver \subseteq dropped'
    <3>1. CASE AuthRefuse
      <4>1. player'[p] = [player[p] EXCEPT !.name = NoName, !.pass = FALSE, !.phase = "refused"]
        BY <1>t, <2>1, <3>1 DEF AuthRefuse
      <4> QED BY <2>2, <4>1 DEF Player
    <3>2. CASE AuthThrow
      <4>1. /\ player'[p] = [player[p] EXCEPT !.name = NoName, !.pass = FALSE, !.ver = login.json,
                                              !.phase = "refused"]
            /\ dropped' = dropped \cup login.json
        BY <1>t, <2>1, <3>2 DEF AuthThrow
      <4> QED BY <2>2, <4>1 DEF Player
    <3> QED BY <1>13, <3>1, <3>2
  <2>5. PlayerOK(player'[p], dropped', strayed')
    BY <2>4 DEF PlayerOK
  <2> HIDE DEF p
  <2>6. OneSession'
    BY <2>1, <2>3, <1>o DEF LoggedIn
  <2> QED BY <2>1, <2>3, <2>5, <2>6, <1>k, <1>l
<1>14. ASSUME AuthRead PROVE Goal'
  <2> DEFINE p == login.peer
             a == player[p].name
  <2>1. login # NoLogin /\ p \in Peers
    BY <1>t, <1>14, LoginTypes DEF AuthRead
  <2>2. /\ player[p] \in Player /\ player[p] # NoData /\ player[p].phase = "loading"
        /\ a # NoName /\ player[p].pass
    BY <2>1, <1>p DEF IndInv, LoginInv
  <2>3. a \in Accounts
    BY <2>2 DEF Player
  <2>4. file[a] \subseteq Own(a) \cup strayed'
    BY <1>h, <1>14, <2>3 DEF AuthRead, IndInv, SavesInv, OwnEditsOnly
  <2>5. /\ login' # NoLogin /\ login'.peer = p /\ login'.pc = "load" /\ login'.json = file[a]
        /\ player' = player /\ revived' = revived
    BY <1>14 DEF AuthRead, NoLogin, history
  <2>6. \A q \in Peers : state'[q] = IF q \in SameAccount(p) /\ state[q] # "free" THEN "leaving"
                                     ELSE state[q]
    BY <1>14 DEF AuthRead, Peer_Disconnect
  <2>7. \A q \in Peers : q \in SameAccount(p) <=>
          (q # p /\ state[q] = "connected" /\ player[q] # NoData /\ player[q].name = a)
    BY DEF SameAccount
  <2> HIDE DEF p, a
  <2>8. LoginInv'
    BY <2>2, <2>4, <2>5 DEF a, LoginInv
  <2>9. AloneInv'
    BY <2>1, <2>5, <2>6, <2>7 DEF a, AloneInv
  <2>10. OneSession'
    BY <2>5, <2>6, <1>o DEF LoggedIn
  <2> QED BY <2>5, <2>8, <2>9, <2>10, <1>u
<1>15. ASSUME NEW accepted \in BOOLEAN, AuthLoad(accepted) PROVE Goal'
  <2> DEFINE p == login.peer
             a == player[p].name
  <2>1. login # NoLogin /\ p \in Peers /\ login.pc = "load"
    BY <1>t, <1>15, LoginTypes DEF AuthLoad
  <2>2. /\ player[p] \in Player /\ player[p] # NoData /\ player[p].pass
        /\ a # NoName /\ login.json \subseteq Own(a) \cup strayed
    BY <2>1, <1>p DEF IndInv, LoginInv
  <2>3. /\ player'[p] = [player[p] EXCEPT !.ver = login.json,
                            !.phase = IF accepted THEN "in" ELSE "refused"]
        /\ \A q \in Peers : q # p => player'[q] = player[q]
        /\ login' = NoLogin /\ revived' = revived /\ strayed' = strayed
    BY <1>t, <1>15, <2>1 DEF AuthLoad
  <2>4. /\ player'[p].name = a /\ player'[p].ver = login.json /\ player'[p].pass = player[p].pass
        /\ player'[p].phase \in {"in", "refused"}
    BY <2>2, <2>3 DEF Player
  <2>5. PlayerOK(player'[p], dropped', strayed')
    BY <2>2, <2>3, <2>4 DEF PlayerOK
  <2>6. \A q \in Peers : state'[q] = "connected" => state[q] = "connected"
    BY <1>t, <1>15 DEF AuthLoad, Peer_Disconnect
  <2>7. \A q \in Peers : (q # p /\ state[q] = "connected" /\ player[q] # NoData)
                           => player[q].name # a
    BY <2>1 DEF IndInv, AloneInv
  <2> HIDE DEF p, a
  <2>8. \A q \in Peers : LoggedIn(q)' =>
          IF q = p THEN player'[q].name = a
          ELSE LoggedIn(q) /\ player'[q].name = player[q].name /\ player[q].name # a
    <3>1. ASSUME NEW q \in Peers, LoggedIn(q)', q # p
          PROVE  LoggedIn(q) /\ player'[q].name = player[q].name /\ player[q].name # a
      <4>1. player'[q] = player[q] /\ state[q] = "connected" /\ player[q] # NoData
        BY <2>3, <2>6, <3>1 DEF LoggedIn
      <4> QED BY <2>7, <3>1, <4>1 DEF LoggedIn
    <3> QED BY <2>4, <3>1
  <2>9. OneSession'
    BY <2>3, <2>8 DEF OneSession, IndInv
  <2> QED BY <2>1, <2>3, <2>5, <2>9, <1>k, <1>l
<1>16. ASSUME UNCHANGED <<mem, history>> PROVE Goal'
  <2>1. /\ UNCHANGED <<player, login, revived>>
        /\ \A q \in Peers : state'[q] = "connected" => state[q] = "connected"
    BY <1>16 DEF mem, history
  <2> HIDE DEF Goal
  <2> QED BY <2>1, <1>q
<1> HIDE DEF Goal
<1>17. CASE \E p \in Peers : SaveNow(p) \/ EndSave(p) \/ AllSerialize(p)
  BY <1>16, <1>17 DEF SaveNow, EndSave, AllSerialize
<1>18. CASE \/ Thread(AsyncTake) \/ Thread(DisconnectSwap) \/ Thread(DisconnectTake)
         \/ Thread(DisconnectLoop(proc = "up")) \/ AllSnapshot \/ AllLoop
  BY <1>16, <1>18 DEF Thread, AllSnapshot, AllLoop
<1>19. ASSUME NEW w, FileStep(w) PROVE Goal'
  BY <1>16, <1>19 DEF Thread, FileStep
<1>20. CASE (\E crash \in Ends : EndBegin(crash)) \/ EndSaved \/ EndExit
  BY <1>16, <1>20 DEF EndBegin, EndSaved, EndExit
<1>21. CASE UNCHANGED vars
  BY <1>16, <1>21 DEF vars
<1> QED
  BY <1>1, <1>2, <1>3, <1>4, <1>5, <1>6, <1>7, <1>8, <1>9, <1>10, <1>11, <1>12, <1>13,
     <1>14, <1>15, <1>17, <1>18, <1>19, <1>20, <1>21
  DEF Next, MainStep, AuthStep, AsyncStep, DisconnectStep, AllStep, EndStep

\* Every save that is queued, taken or written carries data of its own
\* account, or such as has strayed.
LEMMA SavesStep ==
    ASSUME IndInv, [Next]_vars
    PROVE  SavesInv'
<1>h. strayed \subseteq strayed'
  BY HistoryGrows
<1>m. /\ \A s : SaveOK(s, strayed) => SaveOK(s, strayed')
      /\ \A q : QueueOK(q, strayed) => QueueOK(q, strayed')
  BY <1>h, StaysOK
<1> USE PSAssumption DEF IndInv, TypeOK, SavesInv
<1>1. ASSUME NEW p \in Peers, player[p] # NoData
      PROVE  /\ Saves(player[p]) \in Seq(Save) /\ QueueOK(Saves(player[p]), strayed)
             /\ Saves(player[p]) # <<>> => SaveOK(Saves(player[p])[1], strayed)
  BY <1>1, SavesOK DEF PlayersInv
<1>2. ASSUME NEW p \in Peers, Disconnect(p) PROVE SavesInv'
  <2>1. QueueOK(dq', strayed)
    BY <1>1, <1>2, ConcatOK DEF Disconnect
  <2> QED BY <1>2, <2>1 DEF Disconnect, disk, history, OwnEditsOnly
<1>3. ASSUME NEW p \in Peers, SpamKick(p) \/ SaveNow(p) PROVE SavesInv'
  <2>1. aq' = aq \o Saves(player[p]) /\ player[p] # NoData
    BY <1>3 DEF SpamKick, SaveNow, InGame, Receiving
  <2>2. QueueOK(aq', strayed)
    BY <1>1, <2>1, ConcatOK
  <2> QED BY <1>3, <2>2 DEF SpamKick, SaveNow, disk, history, OwnEditsOnly
<1>4. ASSUME NEW p \in Peers, NEW a \in Accounts, Register(p, a) PROVE SavesInv'
  <2>1. player'[p] = Newcomer(a) /\ aq' = aq \o Saves(player'[p])
    BY <1>4 DEF Register, Newcomer
  <2>2. Saves(Newcomer(a)) \in Seq(Save) /\ QueueOK(Saves(Newcomer(a)), strayed)
    BY <1>4, NewcomerOK DEF Register
  <2>3. QueueOK(aq', strayed)
    BY <2>1, <2>2, ConcatOK
  <2> QED BY <1>4, <2>3 DEF Register, disk, OwnEditsOnly
<1>6. CASE Thread(AsyncTake)
  <2>1. SaveOK(Head(aq), strayed) /\ QueueOK(aq', strayed)
    BY <1>6, TailOK DEF Thread, AsyncTake
  <2>2. \A w \in Writers : job'[w] = IF w = "async" THEN Head(aq) ELSE job[w]
    BY <1>6 DEF Thread, AsyncTake
  <2> QED BY <1>6, <2>1, <2>2 DEF Thread, AsyncTake, OwnEditsOnly, history
<1>7. CASE Thread(DisconnectSwap)
  BY <1>7 DEF Thread, DisconnectSwap, disk, QueueOK, OwnEditsOnly, history
<1>8. CASE Thread(DisconnectTake)
  <2>1. SaveOK(Head(snap), strayed) /\ QueueOK(snap', strayed)
    BY <1>8, TailOK DEF Thread, DisconnectTake
  <2>2. \A w \in Writers : job'[w] = IF w = "disconnect" THEN Head(snap) ELSE job[w]
    BY <1>8 DEF Thread, DisconnectTake
  <2> QED BY <1>8, <2>1, <2>2 DEF Thread, DisconnectTake, OwnEditsOnly, history
<1>9. ASSUME NEW p \in Peers, AllSerialize(p) PROVE SavesInv'
  <2>1. \A w \in Writers : w # "all" => job'[w] = job[w]
    BY <1>9 DEF AllSerialize
  <2>2. "all" \in Writers
    BY DEF Writers
  <2>3. job'["all"] # NoJob => SaveOK(job'["all"], strayed)
    BY <1>1, <1>9, <2>2 DEF AllSerialize
  <2> QED BY <1>9, <2>1, <2>2, <2>3 DEF AllSerialize, OwnEditsOnly, history
<1>10. ASSUME NEW w \in Writers, Thread(FileOpen(w)) PROVE SavesInv'
  <2>1. job[w].name \in Accounts
    BY <1>10 DEF Thread, FileOpen, Save
  <2>2. OwnEditsOnly'
    BY <1>10, <2>1 DEF Thread, FileOpen, OwnEditsOnly, history
  <2> QED BY <1>10, <2>2 DEF Thread, FileOpen, pipe, history
<1>11. ASSUME NEW w \in Writers, NEW mixed \in BOOLEAN, Thread(FileClose(w, mixed)) PROVE SavesInv'
  <2>1. job[w] \in Save /\ SaveOK(job[w], strayed)
    BY <1>11 DEF Thread, FileClose, StreamInv
  <2>2. job[w].name \in Accounts /\ job[w].data \subseteq Own(job[w].name) \cup strayed
    BY <2>1 DEF SaveOK, Save
  <2>3. OwnEditsOnly'
    BY <1>11, <2>2 DEF Thread, FileClose, OwnEditsOnly, history
  <2>4. \A v \in Writers : job'[v] = IF v = w THEN NoJob ELSE job[v]
    BY <1>11 DEF Thread, FileClose
  <2> QED BY <1>11, <2>3, <2>4 DEF Thread, FileClose, pipe, history
<1>12. ASSUME NEW p \in Peers, EndSave(p) PROVE SavesInv'
  <2>1. QueueOK(<<>>, strayed) /\ <<>> \in Seq(Save)
    BY DEF QueueOK
  <2>2. QueueOK(aq', strayed)
    BY <1>1, <1>12, <2>1, ConcatOK DEF EndSave
  <2> QED BY <1>12, <2>2 DEF EndSave, disk, OwnEditsOnly, history
<1>13. ASSUME UNCHANGED <<aq, dq, snap, job, file>> PROVE SavesInv'
  <2>1. OwnEditsOnly'
    BY <1>h, <1>13 DEF OwnEditsOnly
  <2> QED BY <1>m, <1>13, <2>1
<1> HIDE DEF IndInv, TypeOK, SavesInv
<1>14. ASSUME NEW p \in Peers,
             \/ Connect(p) \/ ConnectLost(p) \/ ClientLeaves(p) \/ DisconnectLost(p)
             \/ PeerReset(p) \/ Edit(p) \/ Change_Password(p) \/ Logout_MyAcc(p) \/ ConsoleStep(p)
             \/ \E b \in Accounts : DoLogin(p, b)
       PROVE SavesInv'
  BY <1>13, <1>14
  DEF Connect, ConnectLost, ClientLeaves, DisconnectLost, PeerReset, Edit, Change_Password,
      Logout_MyAcc, ConsoleStep, ConsoleMaintenance, ConsoleKickall, DoLogin, pipe, disk
<1>5. ASSUME NEW p \in Peers,
             \/ \E a \in Accounts \cup {NoName}, how \in {"token", "guest"} : LoginUnchecked(p, a, how)
             \/ \E a \in Accounts \cup {NoName}, pass \in BOOLEAN : LoginDenied(p, a, pass)
             \/ \E a \in Accounts, good \in BOOLEAN : LoginName(p, a, good)
       PROVE SavesInv'
  BY <1>13, <1>5 DEF LoginUnchecked, LoginDenied, LoginName, pipe, disk
<1>15. CASE AuthStep
  BY <1>13, <1>15 DEF AuthStep, AuthRefuse, AuthRead, AuthThrow, AuthLoad, pipe, disk
<1>16. CASE Thread(DisconnectLoop(proc = "up")) \/ AllSnapshot \/ AllLoop
  BY <1>13, <1>16 DEF Thread, DisconnectLoop, AllSnapshot, AllLoop, disk
<1>17. CASE (\E crash \in Ends : EndBegin(crash)) \/ EndSaved \/ EndExit
  BY <1>13, <1>17 DEF EndBegin, EndSaved, EndExit, pipe, disk
<1>18. CASE UNCHANGED vars
  BY <1>13, <1>18 DEF vars, pipe, disk
<1>19. "async" \in Writers /\ "disconnect" \in Writers /\ "all" \in Writers
  BY DEF Writers
<1> QED
  BY <1>2, <1>3, <1>4, <1>5, <1>6, <1>7, <1>8, <1>9, <1>10, <1>11, <1>12, <1>14,
     <1>15, <1>16, <1>17, <1>18, <1>19
  DEF Next, MainStep, AsyncStep, DisconnectStep, AllStep, FileStep, EndStep

\* The inductive invariant holds in every behaviour.
THEOREM Inductive == Spec => []IndInv
<1>1. Init => IndInv
  <2> SUFFICES ASSUME Init PROVE IndInv
    OBVIOUS
  <2> USE PSAssumption DEF Init, PipeInit
  <2>1. \A a \in Registered : {<<a, 1>>} \in Content /\ {<<a, 1>>} \subseteq Own(a)
    BY DEF Content, Own
  <2>2. covered \in Content /\ {} \in Content
    BY DEF Content
  <2>3. file \in [Accounts -> Content \cup {NoFile, Torn}]
    BY <2>1
  <2>4. clock \in [Accounts -> 0 .. MaxEdits]
    OBVIOUS
  <2>5. login \in Login
    BY DEF Login
  <2>6. TypeOK
    <3>1. /\ due \in Content /\ torn \in Content /\ dropped \in Content /\ strayed \in Content
          /\ revived \subseteq Peers
      BY <2>2
    <3>2. aq \in Seq(Save) /\ dq \in Seq(Save) /\ snap \in Seq(Save)
      OBVIOUS
    <3>3. sessions \in 0 .. MaxSessions /\ rounds \in 0 .. MaxRounds
      OBVIOUS
    <3>4. /\ state \in [Peers -> {"free", "connected", "leaving"}]
          /\ player \in [Peers -> Player \cup {NoData}]
          /\ job \in [Writers -> Save \cup {NoJob}]
          /\ opened \in [Writers -> BOOLEAN] /\ clash \in [Writers -> BOOLEAN]
      OBVIOUS
    <3>5. /\ todo \subseteq Peers /\ left \subseteq Peers
          /\ dpc \in {"swap", "write", "done"} /\ apc \in {"sleep", "save", "done"}
          /\ proc \in {"up", "saving", "exiting", "down"} /\ sig \in BOOLEAN
      OBVIOUS
    <3> HIDE DEF Init, PipeInit
    <3> QED BY <2>2, <2>3, <2>4, <2>5, <3>1, <3>2, <3>3, <3>4, <3>5 DEF TypeOK
  <2>7. SavesInv
    <3>1. OwnEditsOnly
      BY <2>1 DEF OwnEditsOnly
    <3>2. QueueOK(<<>>, strayed)
      BY DEF QueueOK
    <3> QED BY <3>1, <3>2 DEF SavesInv
  <2>8. StreamInv /\ LoginInv /\ AloneInv /\ PlayersInv /\ OneSession
    BY DEF StreamInv, LoginInv, AloneInv, PlayersInv, OneSession, LoggedIn
  <2> QED BY <2>6, <2>7, <2>8 DEF IndInv
<1>2. IndInv /\ [Next]_vars => IndInv'
  BY TypeStep, SessionStep, SavesStep DEF IndInv
<1> QED BY <1>1, <1>2, PTL DEF Spec

\* Every step of the server's threads keeps PlayerStore's variables within
\* their types.
THEOREM TypeCorrect == Spec => []TypeOK
<1>1. IndInv => TypeOK
  BY DEF IndInv
<1> QED BY <1>1, Inductive, PTL

\* A player file holds another account's data only if DoLogin has put that
\* file's name on a Player with such data: for any number of peers and
\* accounts and any interleaving of the three writers and the console with
\* logins, logouts and lost events.
THEOREM OwnEditsOnlyCorrect == Spec => []OwnEditsOnly
<1>1. IndInv => OwnEditsOnly
  BY DEF IndInv, SavesInv
<1> QED BY <1>1, Inductive, PTL

\* No account is logged in with its password by two connections that were
\* greeted with a CONNECT event.
THEOREM OneSessionCorrect == Spec => []OneSession
<1>1. IndInv => OneSession
  BY DEF IndInv
<1> QED BY <1>1, Inductive, PTL
-----------------------------------------------------------------------------
(* Nothing else is lost.                                                   *)

\* Edit e is in a session's memory, on its way to the disk, has been there,
\* or is one of those that the code gives up.
Safe(e) == InMemory(e) \/ InPipeline(e) \/ e \in covered \cup Forfeited

\* Edit e has been handed to AsyncWriter.
Pushed(e) == \/ InSaves(e, aq)
             \/ job["async"] # NoJob /\ e \in job["async"].data
             \/ e \in covered \cup torn

\* The Player of a free slot, or of a connection whose login is not complete,
\* has nothing to lose.
IdleInv == \A p \in Peers :
    (/\ player[p] # NoData
     /\ \/ state[p] = "free"
        \/ state[p] = "connected" /\ player[p].phase # "in") => player[p].ver \subseteq dropped

MadeSafe == \A e \in Made : Safe(e)

\* What the final save has pushed is on its way, and exit() has seen the end
\* of it.
DueInv == /\ \A e \in due : Pushed(e)
          /\ proc = "down" /\ ~sig => aq = <<>> /\ job["async"] = NoJob

\* The thread swaps the queue only when it has written its copy.
SnapInv == dpc = "swap" => snap = <<>>

SafetyInv == IdleInv /\ SnapInv /\ MadeSafe /\ DueInv

\* An edit is in a concatenation if it is in one of its parts.
LEMMA InSavesConcat ==
    ASSUME NEW q \in Seq(Save), NEW r \in Seq(Save), NEW e,
           InSaves(e, q) \/ InSaves(e, r)
    PROVE  InSaves(e, q \o r)
<1>1. Len(q \o r) = Len(q) + Len(r)
  OBVIOUS
<1>2. CASE InSaves(e, q)
  <2>1. PICK i \in 1 .. Len(q) : e \in q[i].data
    BY <1>2 DEF InSaves
  <2>2. i \in 1 .. Len(q \o r) /\ (q \o r)[i] = q[i]
    BY <1>1
  <2> QED BY <2>1, <2>2 DEF InSaves
<1>3. CASE InSaves(e, r)
  <2>1. PICK i \in 1 .. Len(r) : e \in r[i].data
    BY <1>3 DEF InSaves
  <2>2. Len(q) + i \in 1 .. Len(q \o r) /\ (q \o r)[Len(q) + i] = r[i]
    BY <1>1
  <2> QED BY <2>1, <2>2 DEF InSaves
<1> QED BY <1>2, <1>3

\* Taking the head of a queue takes no edit out of reach.
LEMMA InSavesTake ==
    ASSUME NEW q \in Seq(Save), q # <<>>, NEW e, InSaves(e, q)
    PROVE  e \in Head(q).data \/ InSaves(e, Tail(q))
<1>1. PICK i \in 1 .. Len(q) : e \in q[i].data
  BY DEF InSaves
<1>2. CASE i = 1
  BY <1>1, <1>2
<1>3. CASE i # 1
  <2>1. i - 1 \in 1 .. Len(Tail(q)) /\ Tail(q)[i - 1] = q[i]
    BY <1>3
  <2> QED BY <1>1, <2>1 DEF InSaves
<1> QED BY <1>2, <1>3

\* SaveDatabase::Players saves every edit that the Player contains; if it
\* saves nothing, the Player contains nothing but what was given up.
LEMMA SavesAll ==
    ASSUME NEW pl \in Player, NEW D, NEW S, PlayerOK(pl, D, S), NEW e \in pl.ver
    PROVE  /\ Saves(pl) # <<>> => InSaves(e, Saves(pl))
           /\ e \notin D => InSaves(e, Saves(pl))
<1>1. CASE pl.name = NoName \/ ~pl.pass
  BY <1>1 DEF PlayerOK, Saves
<1>2. CASE pl.name # NoName /\ pl.pass
  <2>1. Saves(pl) = <<[name |-> pl.name, data |-> pl.ver]>>
    BY <1>2 DEF Saves
  <2>2. Len(Saves(pl)) = 1 /\ Saves(pl)[1].data = pl.ver
    BY <2>1
  <2> QED BY <2>2 DEF InSaves
<1> QED BY <1>1, <1>2

\* Nothing leaves the pipeline when the queues and jobs do not change.
LEMMA PipelineKept ==
    ASSUME NEW e, UNCHANGED <<aq, dq, snap, job>>
    PROVE  InPipeline(e) => InPipeline(e)'
  BY DEF InPipeline, InSaves

\* What Players() pushes of a session's Player is a queue of saves that
\* contains every edit of it that has not been given up.
LEMMA SessionSaves ==
    ASSUME IndInv, NEW p \in Peers, player[p] # NoData
    PROVE  /\ player[p] \in Player /\ PlayerOK(player[p], dropped, strayed)
           /\ Saves(player[p]) \in Seq(Save)
           /\ \A e \in player[p].ver : /\ e \notin dropped => InSaves(e, Saves(player[p]))
                                       /\ Saves(player[p]) # <<>> => InSaves(e, Saves(player[p]))
<1>1. player[p] \in Player /\ PlayerOK(player[p], dropped, strayed)
  BY DEF IndInv, TypeOK, PlayersInv
<1> QED BY <1>1, SavesOK, SavesAll

\* How the steps of the main thread and the console change one session: which
\* edits its Player has after them.
LEMMA SessionKeeps ==
    ASSUME IndInv, IdleInv, NEW p \in Peers, NEW q \in Peers,
           MainStep(p) \/ ConsoleStep(p), ~Disconnect(p), ~SpamKick(p)
    PROVE  \A e : (/\ state[q] # "free" /\ player[q] # NoData /\ e \in player[q].ver)
                  => \/ e \in dropped'
                     \/ state'[q] # "free" /\ player'[q] # NoData /\ e \in player'[q].ver
<1> USE PSAssumption
<1>t. /\ state \in [Peers -> {"free", "connected", "leaving"}]
      /\ player \in [Peers -> Player \cup {NoData}]
      /\ clock \in [Accounts -> 0 .. MaxEdits]
  BY DEF IndInv, TypeOK
<1>p. ASSUME player[p] # NoData PROVE player[p] \in Player /\ PlayerOK(player[p], dropped, strayed)
  BY <1>t, <1>p DEF IndInv, PlayersInv
<1> DEFINE Goal == \A e : (/\ state[q] # "free" /\ player[q] # NoData /\ e \in player[q].ver)
                  => \/ e \in dropped'
                     \/ state'[q] # "free" /\ player'[q] # NoData /\ e \in player'[q].ver
<1> SUFFICES Goal
  OBVIOUS
\* The Player keeps its data and the slot is not freed.
<1>k. ASSUME \A r \in Peers : r # p => player'[r] = player[r],
             \A r \in Peers : state[r] # "free" => state'[r] # "free",
             player'[p] \in Player, player[p].ver \subseteq player'[p].ver
      PROVE  Goal
  BY <1>k
<1>1. CASE Connect(p)
  BY <1>t, <1>1 DEF Connect
<1>2. CASE ConnectLost(p) \/ ClientLeaves(p) \/ ConsoleMaintenance(p)
  <2>1. player' = player /\ (state[q] # "free" => state'[q] # "free")
    BY <1>t, <1>2 DEF ConnectLost, ClientLeaves, ConsoleMaintenance, Peer_Disconnect
  <2> QED BY <2>1
<1>3. CASE DisconnectLost(p) \/ ConsoleKickall(p)
  <2>1. /\ player' = player /\ dropped' = dropped \cup InSlot(p)
        /\ q # p => state'[q] = state[q]
    BY <1>t, <1>3 DEF DisconnectLost, ConsoleKickall
  <2> QED BY <2>1 DEF InSlot
<1>4. CASE PeerReset(p)
  <2>1. player[p].ver \subseteq dropped /\ dropped' = dropped
    BY <1>4 DEF PeerReset, Receiving, bypass, IdleInv, history
  <2> QED BY <1>t, <1>4, <2>1 DEF PeerReset
<1>5. ASSUME NEW a \in Accounts, NEW good \in BOOLEAN, LoginName(p, a, good) PROVE Goal
  <2>1. player[p] \in Player
    BY <1>5, <1>p DEF LoginName, Receiving
  <2>2. player'[p] \in Player /\ player'[p].ver = player[p].ver
    BY <1>t, <1>5, <2>1 DEF LoginName, Player
  <2> QED BY <1>t, <1>5, <2>2, <1>k DEF LoginName
<1>6. ASSUME NEW a \in Accounts \cup {NoName}, NEW pass \in BOOLEAN, LoginDenied(p, a, pass) PROVE Goal
  <2>1. player[p] \in Player
    BY <1>6, <1>p DEF LoginDenied, Receiving
  <2>2. player'[p] \in Player /\ player'[p].ver = player[p].ver
    BY <1>t, <1>6, <2>1 DEF LoginDenied, Player
  <2> QED BY <1>t, <1>6, <2>2, <1>k DEF LoginDenied, Peer_Disconnect
<1>7. ASSUME NEW a \in Accounts, Register(p, a) PROVE Goal
  <2>1. player[p].ver = {}
    BY <1>7, <1>p DEF Register, Receiving, PlayerOK
  <2> QED BY <1>t, <1>7, <2>1 DEF Register, Peer_Disconnect
<1>8. ASSUME NEW a \in Accounts \cup {NoName}, NEW how \in {"token", "guest"},
             LoginUnchecked(p, a, how)
      PROVE  Goal
  <2>1. player[p] \in Player
    BY <1>8, <1>p DEF LoginUnchecked, Receiving
  <2>2. player'[p] \in Player /\ player'[p].ver = player[p].ver
    BY <1>t, <1>8, <2>1 DEF LoginUnchecked, Player
  <2> QED BY <1>t, <1>8, <2>2, <1>k DEF LoginUnchecked
<1>9. ASSUME NEW b \in Accounts, DoLogin(p, b) PROVE Goal
  <2>1. player[p] \in Player
    BY <1>9, <1>p DEF DoLogin, Dialog, Receiving
  <2>2. player'[p] \in Player /\ player'[p].ver = player[p].ver
    BY <1>t, <1>9, <2>1 DEF DoLogin, Player
  <2> QED BY <1>t, <1>9, <2>2, <1>k DEF DoLogin, Peer_Disconnect
<1>10. CASE Logout_MyAcc(p)
  <2>1. player[p] \in Player
    BY <1>10, <1>p DEF Logout_MyAcc, Dialog, Receiving
  <2>2. player'[p] \in Player /\ player'[p].ver = player[p].ver
    BY <1>t, <1>10, <2>1 DEF Logout_MyAcc, Player
  <2> QED BY <1>t, <1>10, <2>2, <1>k DEF Logout_MyAcc, Peer_Disconnect
<1>11. CASE Change_Password(p)
  <2>1. player[p] \in Player
    BY <1>11, <1>p DEF Change_Password, Dialog, Receiving
  <2>2. player'[p] \in Player /\ player'[p].ver = player[p].ver
    BY <1>t, <1>11, <2>1 DEF Change_Password, Player
  <2> QED BY <1>t, <1>11, <2>2, <1>k DEF Change_Password
<1>12. CASE Edit(p)
  <2> DEFINE a == player[p].name
             v == player[p].ver \cup {<<a, clock[a] + 1>>}
  <2>1. player[p] \in Player /\ a \in Accounts
    BY <1>12, <1>p DEF Edit, InGame, Receiving, Player
  <2>2. clock[a] + 1 \in 1 .. MaxEdits
    BY <1>t, <1>12, <2>1 DEF Edit
  <2>3. v \in Content
    BY <2>1, <2>2 DEF Player, Content
  <2>4. player'[p] = [player[p] EXCEPT !.ver = v]
    BY <1>t, <1>12 DEF Edit
  <2>5. player'[p] \in Player /\ player[p].ver \subseteq player'[p].ver
    BY <2>1, <2>3, <2>4 DEF Player
  <2> HIDE DEF a, v
  <2> QED BY <1>t, <1>12, <2>5, <1>k DEF Edit
<1>13. CASE SaveNow(p)
  BY <1>13 DEF SaveNow, mem
<1> HIDE DEF Goal
<1> QED
  BY <1>1, <1>2, <1>3, <1>4, <1>5, <1>6, <1>7, <1>8, <1>9, <1>10, <1>11, <1>12, <1>13
  DEF MainStep, ConsoleStep

\* No step takes an edit out of memory, pipeline and disk at once, unless it
\* is one that the code gives up.
LEMMA SafeStep ==
    ASSUME IndInv, SafetyInv, [Next]_vars, NEW e, Safe(e)
    PROVE  Safe(e)'
<1> USE PSAssumption
<1>t. /\ state \in [Peers -> {"free", "connected", "leaving"}]
      /\ player \in [Peers -> Player \cup {NoData}]
      /\ aq \in Seq(Save) /\ dq \in Seq(Save) /\ snap \in Seq(Save)
      /\ job \in [Writers -> Save \cup {NoJob}]
      /\ login \in Login
  BY DEF IndInv, TypeOK
<1>h. /\ dropped \subseteq dropped' /\ strayed \subseteq strayed'
      /\ covered \subseteq covered' /\ torn \subseteq torn'
  BY HistoryGrows
<1>d. CASE e \in covered \cup Forfeited \/ e \in dropped'
  BY <1>d, <1>h DEF Safe, Forfeited
<1> SUFFICES ASSUME e \notin dropped, e \notin dropped', InMemory(e) \/ InPipeline(e)
             PROVE  Safe(e)'
  BY <1>d, <1>h DEF Safe, Forfeited
<1>k. ASSUME UNCHANGED <<aq, dq, snap, job>>,
             \A p \in Peers : state[p] # "free" /\ player[p] # NoData /\ e \in player[p].ver
                => state'[p] # "free" /\ player'[p] # NoData /\ e \in player'[p].ver
      PROVE  Safe(e)'
  BY <1>k, PipelineKept DEF Safe, InMemory
<1>a. ASSUME NEW s \in Seq(Save), aq' = aq \o s, UNCHANGED <<dq, snap, job>>,
             InMemory(e) => InMemory(e)' \/ InSaves(e, s)
      PROVE  Safe(e)'
  <2>1. InSaves(e, aq) \/ InSaves(e, s) => InSaves(e, aq')
    BY <1>t, <1>a, InSavesConcat
  <2> QED BY <1>a, <2>1 DEF Safe, InPipeline, InSaves
<1>3. ASSUME NEW p \in Peers, Disconnect(p) PROVE Safe(e)'
  <2>1. /\ \A q \in Peers : q # p => state'[q] = state[q] /\ player'[q] = player[q]
        /\ UNCHANGED <<aq, snap, job>>
    BY <1>t, <1>3 DEF Disconnect, disk
  <2>2. CASE player[p] # NoData /\ e \in player[p].ver
    <3>1. dq' = dq \o Saves(player[p])
      BY <1>3, <2>2 DEF Disconnect
    <3>2. InSaves(e, dq')
      BY <1>t, <2>2, <3>1, SessionSaves, InSavesConcat
    <3> QED BY <3>2 DEF Safe, InPipeline, InSaves
  <2>3. CASE ~(player[p] # NoData /\ e \in player[p].ver) /\ InMemory(e)
    BY <2>1, <2>3 DEF Safe, InMemory
  <2>4. CASE InPipeline(e)
    <3>1. InSaves(e, dq) => InSaves(e, dq')
      BY <1>t, <1>3, SessionSaves, InSavesConcat DEF Disconnect
    <3> QED BY <2>1, <2>4, <3>1 DEF Safe, InPipeline, InSaves
  <2> QED BY <2>2, <2>3, <2>4
<1>4. ASSUME NEW p \in Peers, SpamKick(p) PROVE Safe(e)'
  <2>1. /\ \A q \in Peers : q # p => state'[q] = state[q] /\ player'[q] = player[q]
        /\ aq' = aq \o Saves(player[p])
        /\ player[p] # NoData
        /\ UNCHANGED <<dq, snap, job>>
    BY <1>t, <1>4 DEF SpamKick, InGame, Receiving, Peer_Disconnect, disk
  <2>2. Saves(player[p]) \in Seq(Save) /\ (e \in player[p].ver => InSaves(e, Saves(player[p])))
    BY <2>1, SessionSaves
  <2>3. InMemory(e) => InMemory(e)' \/ InSaves(e, Saves(player[p]))
    BY <2>1, <2>2 DEF InMemory
  <2> QED BY <1>a, <2>1, <2>2, <2>3
<1>5. ASSUME NEW p \in Peers, NEW a \in Accounts, Register(p, a) PROVE Safe(e)'
  <2>1. player'[p] = Newcomer(a) /\ aq' = aq \o Saves(player'[p]) /\ UNCHANGED <<dq, snap, job>>
    BY <1>t, <1>5 DEF Register, Newcomer, disk
  <2>2. Saves(Newcomer(a)) \in Seq(Save)
    BY <1>5, NewcomerOK DEF Register, IndInv
  <2>3. InMemory(e) => InMemory(e)'
    <3>1. MainStep(p) /\ ~Disconnect(p) /\ ~SpamKick(p)
      BY <1>5 DEF MainStep, Disconnect, SpamKick, Register, InGame, Receiving, bypass
    <3> QED BY <3>1, SessionKeeps DEF InMemory, SafetyInv
  <2> QED BY <1>a, <2>1, <2>2, <2>3
<1>6. ASSUME NEW p \in Peers, SaveNow(p) PROVE Safe(e)'
  <2>1. /\ aq' = aq \o Saves(player[p])
        /\ player[p] # NoData
        /\ UNCHANGED <<state, player, dq, snap, job>>
    BY <1>6 DEF SaveNow, InGame, Receiving, mem, disk
  <2> QED BY <1>a, <2>1, SessionSaves DEF InMemory
<1>7. ASSUME NEW p \in Peers, MainStep(p) \/ ConsoleStep(p), ~Disconnect(p), ~SpamKick(p),
             ~SaveNow(p), ~\E a \in Accounts : Register(p, a)
      PROVE  Safe(e)'
  <2>1. UNCHANGED <<aq, dq, snap, job>>
    BY <1>7 DEF MainStep, ConsoleStep, Connect, ConnectLost, ClientLeaves, DisconnectLost, PeerReset,
       LoginName, LoginDenied, LoginUnchecked, DoLogin, Logout_MyAcc, Change_Password, Edit,
       ConsoleMaintenance, ConsoleKickall, pipe, disk
  <2> QED BY <1>7, <2>1, <1>k, SessionKeeps DEF SafetyInv
<1>8. CASE AuthStep
  <2>1. UNCHANGED <<aq, dq, snap, job>>
    BY <1>8 DEF AuthStep, AuthRefuse, AuthRead, AuthThrow, AuthLoad, pipe, disk
  <2>2. login.peer \in Peers /\ player[login.peer] \in Player /\ player[login.peer].ver = {}
    <3>1. login # NoLogin /\ login.peer \in Peers
      BY <1>t, <1>8, LoginTypes DEF AuthStep, AuthRefuse, AuthRead, AuthThrow, AuthLoad
    <3> QED BY <1>t, <3>1 DEF IndInv, LoginInv, PlayersInv, PlayerOK
  <2>3. /\ \A q \in Peers : q # login.peer => player'[q] = player[q]
        /\ \A q \in Peers : state[q] # "free" => state'[q] # "free"
    BY <1>t, <1>8 DEF AuthStep, AuthRefuse, AuthRead, AuthThrow, AuthLoad, Peer_Disconnect
  <2> QED BY <2>1, <2>2, <2>3, <1>k
<1>14. CASE Thread(AsyncTake)
  <2>1. /\ job["async"] = NoJob /\ job' = [job EXCEPT !["async"] = Head(aq)]
        /\ aq # <<>> /\ aq' = Tail(aq)
        /\ UNCHANGED <<state, player, dq, snap>>
    BY <1>14 DEF Thread, AsyncTake, mem
  <2>2. "async" \in Writers /\ Head(aq) \in Save
    BY <1>t, <2>1 DEF Writers
  <2>3. InSaves(e, aq) => e \in job'["async"].data \/ InSaves(e, aq')
    BY <1>t, <2>1, <2>2, InSavesTake
  <2>4. \A w \in Writers : w # "async" => job'[w] = job[w]
    BY <1>t, <2>1
  <2>5. job'["async"] # NoJob
    BY <1>t, <2>1, <2>2
  <2> QED BY <2>1, <2>2, <2>3, <2>4, <2>5 DEF Safe, InMemory, InPipeline, InSaves
<1>15. CASE Thread(DisconnectSwap)
  <2>1. /\ dpc = "swap" /\ snap' = dq /\ dq' = <<>>
        /\ UNCHANGED <<state, player, aq, job>>
    BY <1>15 DEF Thread, DisconnectSwap, mem, disk
  <2>2. snap = <<>>
    BY <2>1 DEF SafetyInv, SnapInv
  <2> QED BY <2>1, <2>2 DEF Safe, InMemory, InPipeline, InSaves
<1>16. CASE Thread(DisconnectTake)
  <2>1. /\ job["disconnect"] = NoJob /\ job' = [job EXCEPT !["disconnect"] = Head(snap)]
        /\ snap # <<>> /\ snap' = Tail(snap)
        /\ UNCHANGED <<state, player, aq, dq>>
    BY <1>16 DEF Thread, DisconnectTake, mem
  <2>2. "disconnect" \in Writers /\ Head(snap) \in Save
    BY <1>t, <2>1 DEF Writers
  <2>3. InSaves(e, snap) => e \in job'["disconnect"].data \/ InSaves(e, snap')
    BY <1>t, <2>1, <2>2, InSavesTake
  <2>4. \A w \in Writers : w # "disconnect" => job'[w] = job[w]
    BY <1>t, <2>1
  <2>5. job'["disconnect"] # NoJob
    BY <1>t, <2>1, <2>2
  <2> QED BY <2>1, <2>2, <2>3, <2>4, <2>5 DEF Safe, InMemory, InPipeline, InSaves
<1>17. CASE Thread(DisconnectLoop(proc = "up"))
  BY <1>k, <1>17 DEF Thread, DisconnectLoop, mem, disk
<1>18. CASE AllSnapshot \/ AllLoop
  BY <1>k, <1>18 DEF AllSnapshot, AllLoop, mem, disk
<1>19. ASSUME NEW p \in Peers, AllSerialize(p) PROVE Safe(e)'
  <2>1. /\ job["all"] = NoJob /\ \A w \in Writers : w # "all" => job'[w] = job[w]
        /\ UNCHANGED <<state, player, aq, dq, snap>>
    BY <1>t, <1>19 DEF AllSerialize, mem
  <2> QED BY <2>1 DEF Safe, InMemory, InPipeline, InSaves
<1>20. ASSUME NEW w \in Writers, Thread(FileOpen(w)) PROVE Safe(e)'
  BY <1>k, <1>20 DEF Thread, FileOpen, mem, pipe
<1>21. ASSUME NEW w \in Writers, NEW mixed \in BOOLEAN, Thread(FileClose(w, mixed))
       PROVE  Safe(e)'
  <2>1. /\ job[w].data \subseteq covered' \cup torn'
        /\ \A v \in Writers : v # w => job'[v] = job[v]
        /\ UNCHANGED <<state, player, aq, dq, snap>>
    BY <1>t, <1>21 DEF Thread, FileClose, mem, pipe
  <2> QED BY <2>1 DEF Safe, Forfeited, InMemory, InPipeline, InSaves
<1>22. ASSUME NEW p \in Peers, EndSave(p) PROVE Safe(e)'
  <2> DEFINE s == IF state[p] = "connected" /\ player[p] # NoData
                  THEN Saves(player[p]) ELSE <<>>
  <2>1. aq' = aq \o s /\ UNCHANGED <<state, player, dq, snap, job>>
    BY <1>22 DEF EndSave, mem, disk
  <2>2. s \in Seq(Save)
    BY SessionSaves
  <2> HIDE DEF s
  <2> QED BY <2>1, <2>2, <1>a DEF InMemory
<1>23. CASE (\E crash \in Ends : EndBegin(crash)) \/ EndSaved \/ EndExit
  BY <1>k, <1>23 DEF EndBegin, EndSaved, EndExit, mem, pipe, disk
<1>24. CASE UNCHANGED vars
  BY <1>k, <1>24 DEF vars, mem, pipe, disk
<1>w. "async" \in Writers /\ "disconnect" \in Writers /\ "all" \in Writers
  BY DEF Writers
<1>25. ASSUME NEW p \in Peers, MainStep(p) \/ ConsoleStep(p) PROVE Safe(e)'
  BY <1>3, <1>4, <1>5, <1>6, <1>7, <1>25
<1> QED
  BY <1>w, <1>8, <1>14, <1>15, <1>16, <1>17, <1>18, <1>19, <1>20, <1>21, <1>22, <1>23,
     <1>24, <1>25
  DEF Next, AsyncStep, DisconnectStep, AllStep, FileStep, EndStep

\* A Player that is not saved any more has nothing but what was given up, and
\* the disconnect thread swaps only when its copy is empty.
LEMMA ThreadStep ==
    ASSUME IndInv, SafetyInv, [Next]_vars
    PROVE  IdleInv' /\ SnapInv'
<1> USE PSAssumption
<1>t. /\ state \in [Peers -> {"free", "connected", "leaving"}]
      /\ player \in [Peers -> Player \cup {NoData}]
      /\ login \in Login
  BY DEF IndInv, TypeOK
<1>h. dropped \subseteq dropped'
  BY HistoryGrows
<1>v. ASSUME NEW p \in Peers, player[p] # NoData, player[p].phase \in {"fresh", "loading"}
      PROVE  player[p] \in Player /\ player[p].ver = {}
  BY <1>v, SessionSaves DEF PlayerOK
\* The other slots stay as they are.
<1>k. ASSUME NEW p \in Peers,
             \A q \in Peers : q # p => /\ player'[q] = player[q]
                                       /\ state'[q] = state[q] \/ state'[q] = "leaving",
             player'[p] # NoData /\ state'[p] # "leaving" =>
                \/ player'[p].ver \subseteq dropped'
                \/ state'[p] = "connected" /\ player'[p].phase = "in"
      PROVE  IdleInv'
  BY <1>h, <1>k DEF SafetyInv, IdleInv
<1>1. ASSUME NEW p \in Peers, Connect(p) PROVE IdleInv'
  <2>1. player'[p] = NewPlayer /\ NewPlayer.ver = {}
    BY <1>t, <1>1 DEF Connect, NewPlayer, Blank
  <2> QED BY <1>t, <1>1, <2>1, <1>k DEF Connect
<1>2. ASSUME NEW p \in Peers, ConnectLost(p) PROVE IdleInv'
  <2>1. player[p] # NoData => player[p].ver \subseteq dropped
    BY <1>2 DEF ConnectLost, SafetyInv, IdleInv
  <2> QED BY <1>t, <1>h, <1>2, <2>1, <1>k DEF ConnectLost
<1>3. ASSUME NEW p \in Peers, ClientLeaves(p) \/ ConsoleMaintenance(p) PROVE IdleInv'
  <2>1. state'[p] = "leaving" /\ player' = player /\ \A q \in Peers : q # p => state'[q] = state[q]
    BY <1>t, <1>3 DEF ClientLeaves, ConsoleMaintenance, Peer_Disconnect
  <2> QED BY <2>1, <1>k
<1>4. ASSUME NEW p \in Peers, Disconnect(p) \/ SpamKick(p) PROVE IdleInv'
  <2>1. /\ player'[p] = NoData
        /\ \A q \in Peers : q # p => player'[q] = player[q] /\ state'[q] = state[q]
    BY <1>t, <1>4 DEF Disconnect, SpamKick, Peer_Disconnect
  <2> QED BY <2>1, <1>k
<1>5. ASSUME NEW p \in Peers, DisconnectLost(p) \/ ConsoleKickall(p) PROVE IdleInv'
  <2>1. /\ player' = player /\ dropped' = dropped \cup InSlot(p)
        /\ \A q \in Peers : q # p => state'[q] = state[q]
    BY <1>t, <1>5 DEF DisconnectLost, ConsoleKickall
  <2> QED BY <2>1, <1>k DEF InSlot
<1>6. ASSUME NEW p \in Peers, PeerReset(p) PROVE IdleInv'
  <2>1. player[p].ver \subseteq dropped
    BY <1>6 DEF PeerReset, Receiving, bypass, SafetyInv, IdleInv
  <2> QED BY <1>t, <1>h, <1>6, <2>1, <1>k DEF PeerReset
<1>7. ASSUME NEW p \in Peers, NEW a \in Accounts, NEW good \in BOOLEAN, LoginName(p, a, good)
      PROVE  IdleInv'
  <2>1. player[p] \in Player /\ player[p].ver = {}
    BY <1>7, <1>v DEF LoginName, Receiving
  <2>2. player'[p].ver = {}
    BY <1>t, <1>7, <2>1 DEF LoginName, Player
  <2> QED BY <1>t, <1>7, <2>2, <1>k DEF LoginName
<1>8. ASSUME NEW p \in Peers, NEW a \in Accounts \cup {NoName}, NEW how \in {"token", "guest"},
             LoginUnchecked(p, a, how)
      PROVE  IdleInv'
  <2>1. player[p] \in Player /\ player[p].ver = {}
    BY <1>8, <1>v DEF LoginUnchecked, Receiving
  <2>2. player'[p].ver = {}
    BY <1>t, <1>8, <2>1 DEF LoginUnchecked, Player
  <2> QED BY <1>t, <1>8, <2>2, <1>k DEF LoginUnchecked
<1>9. ASSUME NEW p \in Peers,
             \/ \E a \in Accounts \cup {NoName}, pass \in BOOLEAN : LoginDenied(p, a, pass)
             \/ \E a \in Accounts : Register(p, a)
             \/ \E b \in Accounts : DoLogin(p, b)
             \/ Logout_MyAcc(p)
      PROVE  IdleInv'
  <2>1. state'[p] = "leaving" /\ \A q \in Peers : q # p => player'[q] = player[q] /\ state'[q] = state[q]
    BY <1>t, <1>9 DEF LoginDenied, Register, DoLogin, Logout_MyAcc, Dialog, Receiving, Peer_Disconnect
  <2> QED BY <2>1, <1>k
<1>10. ASSUME NEW p \in Peers, Change_Password(p) PROVE IdleInv'
  <2>1. player[p] \in Player /\ player[p] # NoData
    BY <1>10, SessionSaves DEF Change_Password, Dialog, Receiving
  <2>2. player'[p].ver = player[p].ver /\ player'[p].phase = player[p].phase /\ state' = state
    BY <1>t, <1>10, <2>1 DEF Change_Password, Player
  <2>3. \/ player[p].ver \subseteq dropped'
        \/ state[p] = "connected" /\ player[p].phase = "in"
    BY <1>h, <1>10 DEF Change_Password, Dialog, Receiving, SafetyInv, IdleInv
  <2> QED BY <1>t, <1>10, <2>2, <2>3, <1>k DEF Change_Password
<1>11. ASSUME NEW p \in Peers, Edit(p) PROVE IdleInv'
  <2> DEFINE v == player[p].ver \cup {<<player[p].name, clock[player[p].name] + 1>>}
  <2>1. player[p] \in Player /\ player[p].phase = "in" /\ state[p] = "connected"
    BY <1>11, SessionSaves DEF Edit, InGame, Receiving
  <2>2. player'[p] = [player[p] EXCEPT !.ver = v] /\ state' = state
    BY <1>t, <1>11 DEF Edit
  <2>3. player'[p].phase = "in"
    BY <2>1, <2>2 DEF Player
  <2> QED BY <1>t, <1>11, <2>1, <2>2, <2>3, <1>k DEF Edit
<1>12. ASSUME AuthRefuse \/ AuthThrow PROVE IdleInv'
  <2>1. login # NoLogin /\ login.peer \in Peers
    BY <1>t, <1>12, LoginTypes DEF AuthRefuse, AuthThrow
  <2>2. player[login.peer] \in Player /\ player[login.peer].ver = {}
    BY <2>1, <1>v DEF IndInv, LoginInv
  <2>3. player'[login.peer].ver \subseteq dropped'
    <3>1. CASE AuthRefuse
      BY <1>t, <2>1, <2>2, <3>1 DEF AuthRefuse, Player
    <3>2. CASE AuthThrow
      BY <1>t, <2>1, <2>2, <3>2 DEF AuthThrow, Player
    <3> QED BY <1>12, <3>1, <3>2
  <2>4. \A q \in Peers : q # login.peer => player'[q] = player[q] /\ state'[q] = state[q]
    BY <1>t, <1>12 DEF AuthRefuse, AuthThrow, Peer_Disconnect
  <2> QED BY <2>1, <2>3, <2>4, <1>k
<1>13. ASSUME AuthRead PROVE IdleInv'
  <2>1. player' = player /\ \A q \in Peers : state'[q] = state[q] \/ state'[q] = "leaving"
    BY <1>t, <1>13 DEF AuthRead, Peer_Disconnect
  <2> QED BY <1>h, <2>1 DEF SafetyInv, IdleInv
<1>14. ASSUME NEW accepted \in BOOLEAN, AuthLoad(accepted) PROVE IdleInv'
  <2> DEFINE p == login.peer
  <2>1. login # NoLogin /\ p \in Peers
    BY <1>t, <1>14, LoginTypes DEF AuthLoad
  <2>2. player[p] \in Player
    BY <1>t, <2>1 DEF IndInv, LoginInv
  <2>3. /\ player'[p] = [player[p] EXCEPT !.ver = login.json,
                                           !.phase = IF accepted THEN "in" ELSE "refused"]
        /\ \A q \in Peers : q # p => player'[q] = player[q] /\ state'[q] = state[q]
        /\ state'[p] = IF ~accepted /\ state[p] # "free" THEN "leaving" ELSE state[p]
        /\ dropped' = IF state[p] = "free" THEN dropped \cup login.json ELSE dropped
    BY <1>t, <1>14, <2>1 DEF AuthLoad, Peer_Disconnect
  <2>4. /\ player'[p].ver = login.json
        /\ player'[p].phase = IF accepted THEN "in" ELSE "refused"
    BY <2>2, <2>3 DEF Player
  <2>5. CASE state[p] = "free"
    BY <2>1, <2>3, <2>4, <2>5, <1>k
  <2>6. CASE state[p] # "free"
    <3>1. state[p] = "connected" \/ state[p] = "leaving"
      BY <1>t, <2>1, <2>6
    <3> QED BY <2>1, <2>3, <2>4, <2>6, <3>1, <1>k
  <2> QED BY <2>5, <2>6
<1>15. ASSUME UNCHANGED mem PROVE IdleInv'
  BY <1>h, <1>15 DEF mem, SafetyInv, IdleInv
<1>16. CASE \E p \in Peers : MainStep(p) \/ ConsoleStep(p)
  <2>1. IdleInv'
    <3>1. ASSUME NEW p \in Peers, SaveNow(p) PROVE UNCHANGED mem
      BY <3>1 DEF SaveNow
    <3> QED
      BY <1>1, <1>2, <1>3, <1>4, <1>5, <1>6, <1>7, <1>8, <1>9, <1>10, <1>11, <1>15, <1>16, <3>1
      DEF MainStep, ConsoleStep
  <2>2. UNCHANGED <<snap, dpc>>
    <3>1. ASSUME NEW p \in Peers, MainStep(p) PROVE UNCHANGED <<snap, dpc>>
      BY <3>1 DEF MainStep, Connect, ConnectLost, ClientLeaves, Disconnect, DisconnectLost, SpamKick,
         PeerReset, LoginName, LoginDenied, Register, LoginUnchecked, DoLogin, Logout_MyAcc,
         Change_Password, Edit, SaveNow, pipe
    <3>2. ASSUME NEW p \in Peers, ConsoleStep(p) PROVE UNCHANGED <<snap, dpc>>
      BY <3>2 DEF ConsoleStep, ConsoleMaintenance, ConsoleKickall, pipe
    <3> QED BY <1>16, <3>1, <3>2
  <2> QED BY <2>1, <2>2 DEF SafetyInv, SnapInv
<1>17. CASE AuthStep
  <2>1. UNCHANGED <<snap, dpc>>
    BY <1>17 DEF AuthStep, AuthRefuse, AuthRead, AuthThrow, AuthLoad, pipe
  <2> QED BY <1>12, <1>13, <1>14, <1>17, <2>1 DEF AuthStep, SafetyInv, SnapInv
<1>18. CASE \/ Thread(AsyncTake) \/ Thread(DisconnectSwap) \/ Thread(DisconnectTake)
            \/ Thread(DisconnectLoop(proc = "up"))
  BY <1>15, <1>18
  DEF Thread, AsyncTake, DisconnectSwap, DisconnectTake, DisconnectLoop, SafetyInv, SnapInv
<1>19. ASSUME NEW w, FileStep(w) PROVE IdleInv' /\ SnapInv'
  BY <1>15, <1>19 DEF FileStep, Thread, FileOpen, FileClose, pipe, SafetyInv, SnapInv
<1>20. CASE AllSnapshot \/ AllLoop \/ \E p \in Peers : AllSerialize(p)
  BY <1>15, <1>20 DEF AllSnapshot, AllLoop, AllSerialize, SafetyInv, SnapInv
<1>21. CASE EndStep
  BY <1>15, <1>21 DEF EndStep, EndBegin, EndSave, EndSaved, EndExit, pipe, SafetyInv, SnapInv
<1>22. CASE UNCHANGED vars
  BY <1>15, <1>22 DEF vars, pipe, SafetyInv, SnapInv
<1> QED
  BY <1>16, <1>17, <1>18, <1>19, <1>20, <1>21, <1>22
  DEF Next, AsyncStep, DisconnectStep, AllStep

\* A new edit is made in the memory of a session that lives on, and the old
\* ones stay safe.
LEMMA MadeStep ==
    ASSUME IndInv, SafetyInv, [Next]_vars
    PROVE  MadeSafe'
<1> USE PSAssumption
<1>t. /\ state \in [Peers -> {"free", "connected", "leaving"}]
      /\ player \in [Peers -> Player \cup {NoData}]
      /\ clock \in [Accounts -> 0 .. MaxEdits]
  BY DEF IndInv, TypeOK
<1>1. ASSUME NEW e, e \in Made PROVE Safe(e)'
  BY <1>1, SafeStep DEF SafetyInv, MadeSafe
<1>2. CASE UNCHANGED clock
  BY <1>1, <1>2 DEF MadeSafe, Made
<1>3. ASSUME NEW a \in Accounts, NEW p \in Peers, NEW n, n = clock[a] + 1,
             clock' = [clock EXCEPT ![a] = n],
             state'[p] # "free", player'[p] # NoData, <<a, n>> \in player'[p].ver
      PROVE  MadeSafe'
  <2>1. ASSUME NEW e \in Made' PROVE e \in Made \/ e = <<a, n>>
    <3>1. PICK b \in Accounts, k \in 1 .. MaxEdits : e = <<b, k>> /\ k <= clock'[b]
      BY DEF Made
    <3>2. CASE b = a /\ k = n
      BY <3>1, <3>2
    <3>3. CASE ~(b = a /\ k = n)
      BY <1>t, <1>3, <3>1, <3>3 DEF Made
    <3> QED BY <3>2, <3>3
  <2>2. Safe(<<a, n>>)'
    BY <1>3 DEF Safe, InMemory
  <2> QED BY <1>1, <2>1, <2>2 DEF MadeSafe
<1>4. ASSUME NEW p \in Peers, NEW a \in Accounts, Register(p, a) PROVE MadeSafe'
  <2>1. Newcomer(a) # NoData /\ <<a, clock[a] + 1>> \in Newcomer(a).ver
    <3>1. Newcomer(a) # NoData
      BY <1>4, NewcomerOK DEF Register, IndInv
    <3> QED BY <3>1 DEF Newcomer
  <2>2. player'[p] = Newcomer(a) /\ state'[p] = "leaving"
    BY <1>t, <1>4 DEF Register, Newcomer, Receiving, Peer_Disconnect
  <2> QED BY <1>3, <1>4, <2>1, <2>2 DEF Register
<1>5. ASSUME NEW p \in Peers, Edit(p) PROVE MadeSafe'
  <2> DEFINE a == player[p].name
             v == player[p].ver \cup {<<a, clock[a] + 1>>}
  <2>1. player[p] \in Player /\ a \in Accounts /\ state[p] = "connected"
    BY <1>5, SessionSaves DEF Edit, InGame, Receiving, Player
  <2>3. clock[a] + 1 \in 1 .. MaxEdits
    BY <1>t, <1>5, <2>1 DEF Edit
  <2>4. v \in Content
    BY <2>1, <2>3 DEF Player, Content
  <2>5. player'[p] = [player[p] EXCEPT !.ver = v] /\ state' = state
        /\ clock' = [clock EXCEPT ![a] = @ + 1]
    BY <1>t, <1>5 DEF Edit
  <2>6. player'[p] \in Player /\ player'[p].ver = v
    BY <2>1, <2>4, <2>5 DEF Player
  <2>7. player'[p] # NoData /\ <<a, clock[a] + 1>> \in player'[p].ver
    BY <2>6
  <2> HIDE DEF a, v
  <2> QED BY <1>3, <2>1, <2>5, <2>7
<1>6. ASSUME NEW p \in Peers, MainStep(p) \/ ConsoleStep(p), ~Edit(p),
             ~\E a \in Accounts : Register(p, a)
      PROVE  UNCHANGED clock
  BY <1>6 DEF MainStep, ConsoleStep, Connect, ConnectLost, ClientLeaves, Disconnect, DisconnectLost,
     SpamKick, PeerReset, LoginName, LoginDenied, LoginUnchecked, DoLogin, Logout_MyAcc,
     Change_Password, SaveNow, ConsoleMaintenance, ConsoleKickall, history
<1>7. ASSUME AuthStep PROVE UNCHANGED clock
  BY <1>7 DEF AuthStep, AuthRefuse, AuthRead, AuthThrow, AuthLoad, history
<1>8. ASSUME AsyncStep \/ DisconnectStep \/ AllStep \/ EndStep \/ UNCHANGED vars
      PROVE  UNCHANGED clock
  BY <1>8 DEF AsyncStep, DisconnectStep, AllStep, FileStep, Thread, AllSnapshot, AllSerialize, AllLoop,
     EndStep, EndBegin, EndSave, EndSaved, EndExit, vars, history
<1>9. ASSUME NEW p \in Peers, MainStep(p) \/ ConsoleStep(p) PROVE MadeSafe'
  BY <1>2, <1>4, <1>5, <1>6, <1>9
<1> QED BY <1>2, <1>7, <1>8, <1>9 DEF Next

\* What AsyncWriter has been given stays with it until it is on disk, or a
\* mixture with another stream is.
LEMMA PushedStep ==
    ASSUME IndInv, SafetyInv, [Next]_vars, NEW e, Pushed(e)
    PROVE  Pushed(e)'
<1> USE PSAssumption DEF Pushed
<1>t. aq \in Seq(Save) /\ job \in [Writers -> Save \cup {NoJob}] /\ "async" \in Writers
  BY DEF IndInv, TypeOK, Writers
<1>h. covered \subseteq covered' /\ torn \subseteq torn'
  BY HistoryGrows
<1>k. ASSUME UNCHANGED aq, job'["async"] = job["async"] PROVE Pushed(e)'
  BY <1>h, <1>k DEF InSaves
<1>c. ASSUME NEW s \in Seq(Save), aq' = aq \o s, UNCHANGED job PROVE Pushed(e)'
  <2>1. InSaves(e, aq) => InSaves(e, aq')
    BY <1>t, <1>c, InSavesConcat
  <2> QED BY <1>h, <1>c, <2>1 DEF InSaves
<1>1. ASSUME NEW p \in Peers, SpamKick(p) \/ SaveNow(p) PROVE Pushed(e)'
  <2>1. player[p] # NoData /\ aq' = aq \o Saves(player[p]) /\ UNCHANGED job
    BY <1>1 DEF SpamKick, SaveNow, InGame, Receiving, disk
  <2> QED BY <2>1, <1>c, SessionSaves
<1>2. ASSUME NEW p \in Peers, NEW a \in Accounts, Register(p, a) PROVE Pushed(e)'
  <2>1. player'[p] = Newcomer(a) /\ aq' = aq \o Saves(player'[p]) /\ UNCHANGED job
    BY <1>2 DEF Register, Newcomer, disk, IndInv, TypeOK
  <2>2. Saves(Newcomer(a)) \in Seq(Save)
    BY <1>2, NewcomerOK DEF Register, IndInv
  <2> QED BY <1>c, <2>1, <2>2
<1>3. ASSUME NEW p \in Peers, MainStep(p) \/ ConsoleStep(p), ~SpamKick(p), ~SaveNow(p),
             ~\E a \in Accounts : Register(p, a)
      PROVE  Pushed(e)'
  <2>1. UNCHANGED <<aq, job>>
    BY <1>3 DEF MainStep, ConsoleStep, Connect, ConnectLost, ClientLeaves, Disconnect, DisconnectLost,
       PeerReset, LoginName, LoginDenied, LoginUnchecked, DoLogin, Logout_MyAcc,
       Change_Password, Edit, ConsoleMaintenance, ConsoleKickall, pipe, disk
  <2> QED BY <1>k, <2>1
<1>4. CASE AuthStep
  BY <1>4, <1>k DEF AuthStep, AuthRefuse, AuthRead, AuthThrow, AuthLoad, pipe, disk
<1>5. CASE Thread(AsyncTake)
  <2>1. /\ job["async"] = NoJob /\ job' = [job EXCEPT !["async"] = Head(aq)]
        /\ aq # <<>> /\ aq' = Tail(aq)
    BY <1>5 DEF Thread, AsyncTake
  <2>2. job'["async"] # NoJob /\ job'["async"] = Head(aq)
    BY <1>t, <2>1
  <2>3. InSaves(e, aq) => e \in job'["async"].data \/ InSaves(e, aq')
    BY <1>t, <2>1, <2>2, InSavesTake
  <2> QED BY <1>h, <2>1, <2>2, <2>3 DEF InSaves
<1>6. CASE \/ Thread(DisconnectSwap) \/ Thread(DisconnectTake) \/ Thread(DisconnectLoop(proc = "up"))
           \/ AllSnapshot \/ AllLoop \/ \E p \in Peers : AllSerialize(p)
  BY <1>t, <1>6, <1>k DEF Thread, DisconnectSwap, DisconnectTake, DisconnectLoop, AllSnapshot, AllLoop,
     AllSerialize, disk
<1>7. ASSUME NEW w \in Writers, Thread(FileOpen(w)) PROVE Pushed(e)'
  BY <1>7, <1>k DEF Thread, FileOpen, pipe
<1>8. ASSUME NEW w \in Writers, NEW mixed \in BOOLEAN, Thread(FileClose(w, mixed)) PROVE Pushed(e)'
  <2>1. /\ job[w].data \subseteq covered' \cup torn' /\ aq' = aq
        /\ \A v \in Writers : v # w => job'[v] = job[v]
    BY <1>t, <1>8 DEF Thread, FileClose, pipe
  <2> QED BY <1>t, <1>h, <2>1 DEF InSaves
<1>9. ASSUME NEW p \in Peers, EndSave(p) PROVE Pushed(e)'
  <2> DEFINE s == IF state[p] = "connected" /\ player[p] # NoData
                  THEN Saves(player[p]) ELSE <<>>
  <2>1. aq' = aq \o s /\ UNCHANGED job
    BY <1>9 DEF EndSave, disk
  <2>2. s \in Seq(Save)
    BY SessionSaves
  <2> HIDE DEF s
  <2> QED BY <1>c, <2>1, <2>2
<1>10. CASE (\E crash \in Ends : EndBegin(crash)) \/ EndSaved \/ EndExit \/ UNCHANGED vars
  BY <1>10, <1>k DEF EndBegin, EndSaved, EndExit, vars, pipe, disk
<1>w. "async" \in Writers /\ "disconnect" \in Writers /\ "all" \in Writers
  BY DEF Writers
<1> HIDE DEF Pushed
<1>11. ASSUME NEW p \in Peers, MainStep(p) \/ ConsoleStep(p) PROVE Pushed(e)'
  BY <1>1, <1>2, <1>3, <1>11
<1> QED
  BY <1>w, <1>4, <1>5, <1>6, <1>7, <1>8, <1>9, <1>10, <1>11
  DEF Next, AsyncStep, DisconnectStep, AllStep, FileStep, EndStep

\* The final save hands over what it notes as due, and exit() returns when
\* AsyncWriter has nothing left; after that no thread runs.
LEMMA DueStep ==
    ASSUME IndInv, SafetyInv, [Next]_vars
    PROVE  DueInv'
<1> USE PSAssumption
<1>1. ASSUME NEW e \in due PROVE Pushed(e)'
  BY PushedStep DEF SafetyInv, DueInv
<1>2. ASSUME UNCHANGED due, proc' # "down" \/ UNCHANGED <<proc, sig, aq, job>> PROVE DueInv'
  BY <1>1, <1>2 DEF DueInv, SafetyInv
<1>3. ASSUME UNCHANGED ending, proc # "down" PROVE DueInv'
  BY <1>2, <1>3 DEF ending
<1>4. ASSUME NEW p \in Peers, MainStep(p) \/ ConsoleStep(p) PROVE DueInv'
  <2>1. UNCHANGED ending
    BY <1>4 DEF MainStep, ConsoleStep, Connect, ConnectLost, ClientLeaves, Disconnect, DisconnectLost,
       SpamKick, PeerReset, LoginName, LoginDenied, Register, LoginUnchecked, DoLogin, Logout_MyAcc,
       Change_Password, Edit, SaveNow, ConsoleMaintenance, ConsoleKickall
  <2>2. proc # "down"
    BY <1>4 DEF MainStep, ConsoleStep, Connect, ConnectLost, ClientLeaves, Disconnect, DisconnectLost,
       SpamKick, PeerReset, LoginName, LoginDenied, Register, LoginUnchecked, DoLogin, Logout_MyAcc,
       Change_Password, Edit, SaveNow, ConsoleMaintenance, ConsoleKickall, InGame, Dialog, Receiving
  <2> QED BY <1>3, <2>1, <2>2
<1>5. CASE AuthStep
  BY <1>3, <1>5 DEF AuthStep, AuthRefuse, AuthRead, AuthThrow, AuthLoad
<1>6. CASE AsyncStep \/ DisconnectStep \/ AllStep
  BY <1>3, <1>6 DEF AsyncStep, DisconnectStep, AllStep, FileStep, Thread, AllSnapshot, AllSerialize, AllLoop
<1>7. ASSUME NEW crash \in Ends, EndBegin(crash) PROVE DueInv'
  BY <1>2, <1>7 DEF EndBegin
<1>8. ASSUME NEW p \in Peers, EndSave(p) PROVE DueInv'
  <2>1. CASE state[p] = "connected" /\ player[p] # NoData /\ Saves(player[p]) # <<>>
    <3>1. /\ Saves(player[p]) \in Seq(Save)
          /\ \A e \in player[p].ver : InSaves(e, Saves(player[p]))
      BY <2>1, SessionSaves
    <3>2. aq' = aq \o Saves(player[p]) /\ due' = due \cup player[p].ver /\ proc' # "down"
      BY <1>8, <2>1 DEF EndSave
    <3>3. \A e \in player[p].ver : InSaves(e, aq')
      BY <3>1, <3>2, InSavesConcat DEF IndInv, TypeOK
    <3>4. \A e \in player[p].ver : Pushed(e)'
      BY <3>3 DEF Pushed, InSaves
    <3> QED BY <1>1, <3>2, <3>4 DEF DueInv
  <2>2. CASE ~(state[p] = "connected" /\ player[p] # NoData /\ Saves(player[p]) # <<>>)
    <3>1. due' = due /\ proc' # "down"
      BY <1>8, <2>2 DEF EndSave
    <3> QED BY <1>2, <3>1
  <2> QED BY <2>1, <2>2
<1>9. CASE EndSaved
  BY <1>1, <1>9 DEF EndSaved, DueInv
<1>10. CASE EndExit
  BY <1>1, <1>10 DEF EndExit, DueInv, pipe, disk
<1>11. CASE UNCHANGED vars
  BY <1>1, <1>11 DEF vars, ending, DueInv, SafetyInv, pipe, disk
<1> QED BY <1>4, <1>5, <1>6, <1>7, <1>8, <1>9, <1>10, <1>11 DEF Next, EndStep

\* The strengthened invariant holds in every behaviour.
LEMMA SafetyInductive == Spec => [](IndInv /\ SafetyInv)
<1>1. Init => SafetyInv
  <2> SUFFICES ASSUME Init PROVE SafetyInv
    OBVIOUS
  <2>1. \A e \in Made : e \in covered
    <3> SUFFICES ASSUME NEW e \in Made PROVE e \in covered
      OBVIOUS
    <3>1. PICK a \in Accounts, k \in 1 .. MaxEdits : e = <<a, k>> /\ k <= clock[a]
      BY DEF Made
    <3>2. a \in Registered /\ k = 1
      BY <3>1, PSAssumption DEF Init
    <3> QED BY <3>1, <3>2 DEF Init
  <2>2. MadeSafe
    BY <2>1 DEF MadeSafe, Safe
  <2>3. IdleInv /\ SnapInv /\ DueInv
    BY DEF Init, PipeInit, IdleInv, SnapInv, DueInv, Writers
  <2> QED BY <2>2, <2>3 DEF SafetyInv
<1>2. IndInv /\ SafetyInv /\ [Next]_vars => SafetyInv'
  BY ThreadStep, MadeStep, DueStep DEF SafetyInv
<1> QED BY <1>1, <1>2, Inductive, PTL DEF Spec

\* A change made to a player is lost only in one of the ways that Forfeited
\* lists, whatever else ends a session and however logins, saves, the console
\* and the writer threads interleave: for any number of peers, accounts, edits
\* and rounds, with files that two streams write at a time.
THEOREM EditsSafeCorrect == Spec => []EditsSafe
<1>1. SafetyInv => EditsSafe
  BY DEF SafetyInv, MadeSafe, Safe, EditsSafe
<1> QED BY <1>1, SafetyInductive, PTL

\* Everything that Trigger's save loop has pushed has been written when exit()
\* has ended the process, whatever the other threads did meanwhile; it is
\* missing on disk only where a mixture with another stream's bytes replaced it.
THEOREM TriggerSavesCorrect == Spec => []TriggerSaves
<1>1. IndInv /\ SafetyInv => TriggerSaves
  BY DEF SafetyInv, DueInv, Pushed, InSaves, TriggerSaves
<1> QED BY <1>1, SafetyInductive, PTL
=============================================================================
