-------------------------------- MODULE Trade --------------------------------
(***************************************************************************)
(* Trades between two players: each puts items in an offer, accepts the    *)
(* offers, and confirms the deal in a dialog that shows it.  The state of  *)
(* a trade is kept twice, in the Player of each side, and a side finds     *)
(* the other one by comparing trading_with and netID in both directions.   *)
(* Players also drop and collect items, change world and disconnect.       *)
(*                                                                         *)
(* The count of an offered item may be below zero: trade_item only looks   *)
(* at what the player has.  A world clears old drops when an item is       *)
(* dropped.  Items are ordinary ones: no gems, fish or keys of worlds and  *)
(* guilds, none that Drop turns into another (W 4655-4656) or that a join  *)
(* removes from the backpack (W 21481-21486).                              *)
(*                                                                         *)
(* The client opens its trade window when a trade starts and closes it     *)
(* when the confirmation comes, which it shows over everything else: a     *)
(* player answers it before starting a trade.  Messages of the window may  *)
(* have been on their way when the confirmation was shown.                 *)
(***************************************************************************)
EXTENDS Integers, FiniteSets, FiniteSetsExt

CONSTANTS Players, Items,
          Cap,         \* items of one kind in a backpack (200)
          MaxOffered,  \* an offer of more kinds than this is full (3)
          Slots,       \* Slots[p]: the size of the backpack of p
          Initial,     \* Initial[p][i]: what p has at the start
          NoDeal,
          Typed,       \* counts that a player types in the dialog of trade_item
          MaxRare      \* bound: changes of world, disconnects, and executed deals
                       \* with a count below zero

None == -1

Counts == [Items -> 0..Cap]
NoOffer == [i \in Items |-> 0]
Kinds(o) == {i \in Items : o[i] # 0}

\* What may be offered: no more than a backpack can hold.
Offers == {o \in [Items -> Int] : \A i \in Items : o[i] <= Cap}

ASSUME TradeAssumption ==
    /\ IsFiniteSet(Players) /\ IsFiniteSet(Items)
    /\ Cap \in Nat /\ MaxOffered \in Nat /\ MaxRare \in Nat
    /\ Typed \subseteq Int
    /\ Slots \in [Players -> Nat]
    /\ Initial \in [Players -> Counts]
    /\ \A p \in Players : Cardinality(Kinds(Initial[p])) <= Slots[p]
    /\ NoDeal \notin [to : Players, give : Offers, get : Offers]

VARIABLES inside,  \* inside[p]: p is in the world (otherwise in none)
          netID,   \* netID[p]
          inv,     \* inv[p][i]: Player::inv
          ground,  \* ground[i]: drop_new of the world
          cleared, \* history: cleared[i]: what the world has cleared away
          t,       \* t[p]: the fields of Player about trades
          dialog,  \* dialog[p]: the deal of the confirmation p has not answered
          exact,   \* history: every executed deal was the one both confirmed
          odd,     \* history: executed deals with a count below zero
          moves    \* changes of world and disconnects so far

vars == <<inside, netID, inv, ground, cleared, t, dialog, exact, odd, moves>>
place == <<inside, netID, moves>>
deals == <<exact, odd>>
goods == <<inv, ground, cleared, deals>>

Deal == [to : Players, give : Offers, get : Offers]

\* with, accept, final and block are trading_with, trade_accept,
\* accept_the_offer and block_trade.  Two are not fields of Player: window
\* tells that the client shows its trade window, and agreed is history, the
\* deal p has confirmed since the fields were last reset.
Fields == [with : Int, accept : BOOLEAN, final : BOOLEAN, block : BOOLEAN,
           offer : Offers, window : BOOLEAN, agreed : Deal \cup {NoDeal}]
Fresh == [with |-> None, accept |-> FALSE, final |-> FALSE, block |-> FALSE,
          offer |-> NoOffer, window |-> FALSE, agreed |-> NoDeal]

Init ==
    /\ inside = [p \in Players |-> FALSE]
    /\ netID = [p \in Players |-> 0]
    /\ inv = Initial
    /\ ground = [i \in Items |-> 0]
    /\ cleared = [i \in Items |-> 0]
    /\ t = [p \in Players |-> Fresh]
    /\ dialog = [p \in Players |-> NoDeal]
    /\ exact = TRUE
    /\ odd = 0
    /\ moves = 0
-----------------------------------------------------------------------------
(* The backpack.                                                           *)

Get_Slots(I, p) == Slots[p] - Cardinality(Kinds(I[p]))

\* Forgets that only something can be put in a free slot.
FitsMutant(I, p, i, n) ==
    IF I[p][i] > 0 THEN I[p][i] + n \in 0..Cap ELSE n <= Cap /\ Get_Slots(I, p) > 0

\* Inventory::Modify returns 0.
Fits(I, p, i, n) ==
    IF I[p][i] > 0 THEN I[p][i] + n \in 0..Cap ELSE n \in 1..Cap /\ Get_Slots(I, p) > 0

Modify(I, p, i, n) == IF Fits(I, p, i, n) THEN [I EXCEPT ![p][i] = @ + n] ELSE I

\* Forgets that a new kind of item needs a slot.
trade_space_checkMutant(p, o) == \A i \in Kinds(o) : inv[p][i] > 0 => inv[p][i] + o[i] <= Cap

\* p has room for the offer o.
trade_space_check(p, o) ==
    /\ \A i \in Kinds(o) : inv[p][i] > 0 => inv[p][i] + o[i] <= Cap
    /\ Get_Slots(inv, p) >= Cardinality({i \in Kinds(o) : inv[p][i] = 0})

\* The offer o moves from p to q kind by kind: whether q can take what p has
\* given is not looked at.  Room has been checked, so the order of the kinds
\* matters only to a count below zero of a kind that p no longer has.
Deliver(I, p, q, o) ==
    FoldSet(LAMBDA i, J : IF Fits(J, p, i, -o[i])
                          THEN Modify(Modify(J, p, i, -o[i]), q, i, o[i]) ELSE J,
            I, Kinds(o))
-----------------------------------------------------------------------------
(* Finding the other side, and ending a trade.                             *)

\* The players that p and the fields T make each other's partner, where w
\* tells who is in the world.
Partners(w, T, p) ==
    {q \in Players : w[q] = w[p] /\ netID[q] = T[p].with /\ netID[p] = T[q].with}

Partner(p) == Partners(inside, t, p)

\* The partner keeps its trade_accept.
cancel_trade(w, T, p) ==
    [q \in Players |-> IF q = p THEN Fresh
                       ELSE IF q \in Partners(w, T, p)
                            THEN [Fresh EXCEPT !.accept = T[q].accept] ELSE T[q]]

Cancel(p) == cancel_trade(inside, t, p)

\* Action::trade_cancel, and every handler that only ends a running trade.
trade_cancel(p) ==
    /\ t' = Cancel(p)
    /\ UNCHANGED <<place, goods, dialog>>
-----------------------------------------------------------------------------
(* Starting a trade, changing the offer and accepting the offers.          *)

\* The partner must trade with nobody or with p already.
trade_started(p, q) ==
    /\ dialog[p] = NoDeal
    /\ inside[p] /\ inside[q] /\ p # q
    /\ t' = IF t[q].with \in {None, netID[p]}
            THEN [t EXCEPT ![p].with = netID[q], ![p].window = TRUE,
                           ![p].accept = FALSE, ![q].accept = FALSE]
            ELSE [t EXCEPT ![p].with = None, ![p].window = FALSE, ![p].block = FALSE]
    /\ UNCHANGED <<place, goods, dialog>>

\* A message of the trade window of p may arrive.
FromWindow(p) == t[p].window \/ dialog[p] # NoDeal

\* Forgets block_trade.
mod_tradeMutant(p, i, n, remove) ==
    /\ t[p].with # None
    /\ t' = [q \in Players |->
               [t[q] EXCEPT !.offer[i] = IF q # p THEN @ ELSE IF remove THEN 0 ELSE n,
                            !.accept = IF q \in Partner(p) \cup {p} THEN FALSE ELSE @]]

\* Item i is taken out of the offer of p, or n of it are in the offer, unless n
\* is 0.  Any change takes back the acceptance of both, and none is allowed once
\* the confirmation has been shown.
mod_trade(p, i, n, remove) ==
    /\ t[p].with # None
    /\ LET Reset(T, Q) == [q \in Players |-> IF q \in Q THEN [T[q] EXCEPT !.accept = FALSE] ELSE T[q]]
           new == [t EXCEPT ![p].offer[i] = IF remove THEN 0 ELSE n]
           fits == \/ remove
                   \/ n # 0 /\ (t[p].offer[i] # 0 \/ Cardinality(Kinds(t[p].offer)) <= MaxOffered)
       IN \/ /\ Partner(p) = {}
             /\ fits
             /\ t' = IF inside[p] THEN Reset(new, {p}) ELSE new
          \/ \E q \in Partner(p) :
                /\ inside[p]
                /\ IF t[p].block \/ t[q].block
                   THEN t' = Cancel(IF t[p].block THEN p ELSE q)
                   ELSE /\ fits
                        /\ t' = Reset(IF remove /\ t[p].offer[i] = 0 THEN Cancel(p) ELSE new, {p, q})

Rem_Trade(p, i) ==
    /\ FromWindow(p)
    /\ inv[p][i] > 0
    /\ mod_trade(p, i, inv[p][i], TRUE)
    /\ UNCHANGED <<place, goods, dialog>>

\* A single item is offered at once; for more the player is asked how many.
Mod_Trade(p, i) ==
    /\ FromWindow(p)
    /\ inv[p][i] = 1
    /\ mod_trade(p, i, 1, FALSE)
    /\ UNCHANGED <<place, goods, dialog>>

\* The answer of the player, which only has to be no more than what it has.
trade_item(p, i, n) ==
    /\ FromWindow(p)
    /\ inv[p][i] # 0 /\ n <= inv[p][i]
    /\ n >= 0 \/ moves + odd < MaxRare
    /\ mod_trade(p, i, n, FALSE)
    /\ UNCHANGED <<place, goods, dialog>>

\* Both players see the deal and can no longer change it.
Shown(p, q) == [to |-> q, give |-> t[p].offer, get |-> t[q].offer]
send_trade_confirm_dialog(p, q) ==
    /\ t' = [t EXCEPT ![p].block = TRUE, ![p].window = FALSE, ![p].accept = TRUE,
                      ![q].block = TRUE, ![q].window = FALSE]
    /\ dialog' = [dialog EXCEPT ![p] = Shown(p, q), ![q] = Shown(q, p)]

\* An offered item that its owner no longer has ends the trade.
Lacks(p) == \E i \in Kinds(t[p].offer) : inv[p][i] = 0

trade_accept(p, status) ==
    /\ FromWindow(p)
    /\ t[p].with # None
    /\ \/ /\ Partner(p) = {}
          /\ t' = [t EXCEPT ![p].accept = status]
          /\ UNCHANGED dialog
       \/ \E q \in Partner(p) :
            /\ inside[p]
            /\ IF ~(status /\ t[q].accept)
               THEN t' = [t EXCEPT ![p].accept = status] /\ UNCHANGED dialog
               ELSE IF ~(trade_space_check(p, t[q].offer) /\ trade_space_check(q, t[p].offer))
               THEN t' = [t EXCEPT ![p].accept = FALSE, ![q].accept = FALSE] /\ UNCHANGED dialog
               ELSE IF Lacks(p) \/ Lacks(q)
               THEN /\ t' = [Cancel(IF Lacks(q) THEN q ELSE p) EXCEPT ![p].accept = TRUE]
                    /\ UNCHANGED dialog
               ELSE send_trade_confirm_dialog(p, q)
    /\ UNCHANGED <<place, goods>>
-----------------------------------------------------------------------------
(* The answers to the confirmation.                                        *)

confirm_back(p) ==
    /\ dialog[p] # NoDeal
    /\ t' = Cancel(p)
    /\ dialog' = [dialog EXCEPT ![p] = NoDeal]
    /\ UNCHANGED <<place, goods>>

\* From I to J, p has given o and got r, and q the other way round.
Exchanged(I, J, p, q, o, r) ==
    \A i \in Items : /\ J[p][i] = I[p][i] - o[i] + r[i]
                     /\ J[q][i] = I[q][i] - r[i] + o[i]

\* Both offers change hands.  The deal is to be the one both have confirmed, and
\* what has moved is to be the deal, if its counts are what they should be.
Execute(T, p, q) ==
    LET o == T[p].offer
        r == T[q].offer
        sound == o \in Counts /\ r \in Counts
    IN  /\ inv' = Deliver(Deliver(inv, p, q, o), q, p, r)
        /\ exact' = (/\ exact
                     /\ T[p].agreed = Shown(p, q) /\ T[q].agreed = Shown(q, p)
                     /\ sound => Exchanged(inv, inv', p, q, o, r))
        /\ odd' = IF sound THEN odd ELSE odd + 1
        /\ t' = [T EXCEPT ![p] = Fresh, ![q] = Fresh]

\* The second confirmation executes the deal.
confirm_accept(p) ==
    /\ dialog[p] # NoDeal
    /\ dialog' = [dialog EXCEPT ![p] = NoDeal]
    /\ LET T == [t EXCEPT ![p].final = TRUE, ![p].agreed = dialog[p]]
       IN \/ /\ Partner(p) = {}
             /\ t' = [t EXCEPT ![p] = Fresh]
             /\ UNCHANGED <<inv, deals>>
          \/ \E q \in Partner(p) :
                IF ~(t[q].final /\ inside[p])
                THEN t' = T /\ UNCHANGED <<inv, deals>>
                ELSE IF trade_space_check(p, t[q].offer) /\ trade_space_check(q, t[p].offer)
                THEN Execute(T, p, q)
                ELSE t' = Cancel(p) /\ UNCHANGED <<inv, deals>>
    /\ UNCHANGED <<place, ground, cleared>>
-----------------------------------------------------------------------------
(* What else happens to players and their items.                           *)

\* What may go when item i has been dropped and g is on the ground: drops that
\* are old or too many, but not the last one.
AutoClearOldWorldDrops(g, i) ==
    {lost \in [Items -> 0..Max({g[j] : j \in Items})] :
        lost[i] < g[i] /\ \A j \in Items : lost[j] <= g[j]}

\* n of item i are dropped where g is on the ground.
Drop(g, i, n) ==
    LET new == [g EXCEPT ![i] = @ + n]
    IN  \E lost \in AutoClearOldWorldDrops(new, i) :
            /\ ground' = [j \in Items |-> new[j] - lost[j]]
            /\ cleared' = [j \in Items |-> cleared[j] + lost[j]]

\* A running trade is ended, and all of item i leaves the backpack: so for a
\* player who wants no question how many.
drop(p, i) ==
    /\ inside[p]
    /\ inv[p][i] > 0
    /\ t' = IF t[p].with # None THEN Cancel(p) ELSE t
    /\ inv' = Modify(inv, p, i, -inv[p][i])
    /\ Drop(ground, i, inv[p][i])
    /\ UNCHANGED <<place, dialog, deals>>

\* The answer to the question how many.  For a player who trades it only ends
\* the trade.
drop_item(p, i, n) ==
    /\ inside[p]
    /\ t[p].with = None
    /\ inv[p][i] >= n
    /\ inv' = Modify(inv, p, i, -n)
    /\ Drop(ground, i, n)
    /\ UNCHANGED <<place, t, dialog, deals>>

\* A stack of any size is collected, as far as it fits; the rest is dropped
\* again.  Collecting does not end a trade.
collect(p, i) ==
    /\ inside[p]
    /\ ground[i] > 0
    /\ inv[p][i] < Cap
    /\ inv[p][i] > 0 \/ Get_Slots(inv, p) > 0
    /\ \E stack \in 1..Min({ground[i], Cap}) :
           LET n == Min({stack, Cap - inv[p][i]})
               left == [ground EXCEPT ![i] = @ - stack]
           IN  /\ inv' = [inv EXCEPT ![p][i] = @ + n]
               /\ IF n = stack THEN ground' = left /\ UNCHANGED cleared
                  ELSE Drop(left, i, stack - n)
    /\ UNCHANGED <<place, t, dialog, deals>>

join_world(p) ==
    /\ ~inside[p]
    /\ inside' = [inside EXCEPT ![p] = TRUE]
    /\ netID' = [netID EXCEPT ![p] = Max({0} \cup {netID[q] : q \in {r \in Players : inside[r]}}) + 1]
    /\ UNCHANGED <<goods, t, dialog, moves>>

\* exit_ leaves the trade as it is.
exit_(p) ==
    /\ inside[p]
    /\ moves + odd < MaxRare
    /\ inside' = [inside EXCEPT ![p] = FALSE]
    /\ t' = [t EXCEPT ![p].window = FALSE]
    /\ moves' = moves + 1
    /\ UNCHANGED <<netID, goods, dialog>>

\* DISCONNECT, and the new Player of the next connection.  cancel_trade is
\* called when p is no longer in the world.
Disconnect(p) ==
    /\ moves + odd < MaxRare
    /\ inside' = [inside EXCEPT ![p] = FALSE]
    /\ netID' = [netID EXCEPT ![p] = 0]
    /\ t' = [cancel_trade(inside', t, p) EXCEPT ![p] = Fresh]
    /\ dialog' = [dialog EXCEPT ![p] = NoDeal]
    /\ moves' = moves + 1
    /\ UNCHANGED goods

Next == \E p \in Players :
    \/ trade_cancel(p) \/ confirm_back(p) \/ confirm_accept(p)
    \/ join_world(p) \/ exit_(p) \/ Disconnect(p)
    \/ \E q \in Players : trade_started(p, q)
    \/ \E status \in BOOLEAN : trade_accept(p, status)
    \/ \E i \in Items : Rem_Trade(p, i) \/ Mod_Trade(p, i) \/ drop(p, i) \/ collect(p, i)
    \/ \E i \in Items, n \in Typed : trade_item(p, i, n)
    \/ \E i \in Items, n \in 1..Cap : drop_item(p, i, n)

Spec == Init /\ [][Next]_vars
-----------------------------------------------------------------------------
(* Properties.                                                             *)

\* The variables keep their types, and no backpack holds more of an item, or more
\* kinds of items, than it can, whatever count trade_item has put in an offer.
TypeOK ==
    /\ inside \in [Players -> BOOLEAN]
    /\ netID \in [Players -> Nat]
    /\ inv \in [Players -> Counts]
    /\ ground \in [Items -> Nat]
    /\ cleared \in [Items -> Nat]
    /\ t \in [Players -> Fields]
    /\ dialog \in [Players -> Deal \cup {NoDeal}]
    /\ exact \in BOOLEAN
    /\ odd \in Nat
    /\ moves \in 0..MaxRare
    /\ \A p \in Players : Get_Slots(inv, p) >= 0

\* No trade, drop or collection makes or loses an item, as long as no deal with
\* a count below zero has been executed: trade_confirm takes an item from one
\* backpack only if the other one has room for it, and nothing but the clearing of
\* old drops takes one from the ground.
Conserved ==
    odd = 0 => \A i \in Items :
        MapThenSumSet(LAMBDA p : inv[p][i], Players) + ground[i] + cleared[i]
            = MapThenSumSet(LAMBDA p : Initial[p][i], Players)

\* For two players who stay in the world and trade with nobody else,
\* trade_confirm executes the deal that both have confirmed in the dialog that
\* showed it, and moves exactly that deal if no count of it is below zero: no
\* change of mod_trade, drop or collect gets between.
ConfirmedInWorld == Cardinality(Players) = 2 /\ moves = 0 => exact
=============================================================================
