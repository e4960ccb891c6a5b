------------------------------ MODULE Exchange ------------------------------
(***************************************************************************)
(* The exchange: a list of offers "so many of this item for so many of     *)
(* that one", some of which expire.  Editors put an offer together in      *)
(* several dialogs and add it; players look at a page of the list and take *)
(* an offer.  Everything is addressed by position: a dialog names an offer *)
(* by its index in the list, and what an editor has entered so far is kept *)
(* under the ENetPeer of its connection.  The list is kept in a file.      *)
(*                                                                         *)
(* Handlers run one after the other on the main thread.  The only one that *)
(* is split in two is the save, between truncating the file and writing    *)
(* it: the process may end there.                                          *)
(***************************************************************************)
EXTENDS Integers, FiniteSets, Vectors

CONSTANTS Peers,       \* connections (ENetPeer)
          Editors,     \* those whose players have the role for /setexchangenew
          Items,
          Cap,         \* items of one kind in a backpack (200)
          Slots,       \* kinds of items in a backpack
          PerPage,     \* offers on a page (5)
          InStacks, OutStacks,  \* what editors enter as input and as reward
          Durations,   \* in minutes; 0 for an offer that does not expire
          Customers,   \* those who take offers
          NoStack, NoPeer, Torn,
          MaxOffers, MaxPage, MaxTime, MaxCrashes  \* bounds

Stack == [id : Items, amt : Nat \ {0}]
Offer == [in : InStacks, out : OutStacks, expire : Nat]

ASSUME ExchangeAssumption ==
    /\ Editors \subseteq Peers /\ Customers \subseteq Peers
    /\ IsFiniteSet(Items)
    /\ Cap \in Nat /\ Slots \in Nat /\ PerPage \in Nat \ {0}
    /\ InStacks \subseteq Stack /\ OutStacks \subseteq Stack
    /\ Durations \subseteq Nat
    /\ {MaxOffers, MaxPage, MaxTime, MaxCrashes} \subseteq Nat
    /\ NoStack \notin InStacks \cup OutStacks
    /\ NoPeer \notin Peers
    /\ Torn \notin Seq(Offer)

VARIABLES g_exchNew,       \* the list of offers
          g_exchNewState,  \* g_exchNewState[p]: page and unfinished offer of p
          file,            \* database/json/exchangenew.json
          now,             \* exn_now()
          inv,             \* inv[p][i]: the backpack of the player at p
          dialog,          \* dialog[p]: what the client at p shows
          saving,          \* the peer whose handler is writing the file
          crashes          \* ends of the process so far

vars == <<g_exchNew, g_exchNewState, file, now, inv, dialog, saving, crashes>>

\* ExchNewEditState; the three fields of the duration are one.
EditState == [page : Nat \ {0}, in : InStacks \cup {NoStack},
              out : OutStacks \cup {NoStack}, dur : Durations \cup {0}]
NewState == [page |-> 1, in |-> NoStack, out |-> NoStack, dur |-> 0]

\* shown[i] is the offer that the button with index i stands for.  fresh is
\* history: no offer has been removed since the dialog was built.
Closed == [kind |-> "none", shown |-> <<>>, fresh |-> TRUE]
-----------------------------------------------------------------------------
(* The list and its pages.                                                 *)

Live(time) == {e \in Offer : e.expire = 0 \/ e.expire > time}

exn_prune_expired(list) == Keep(list, Live(now))

Offers == exn_prune_expired(g_exchNew)

\* A file that does not parse gives an empty list.
exn_load == IF file = Torn THEN <<>> ELSE exn_prune_expired(file)

LastPage(n) == IF n > 0 THEN (n + PerPage - 1) \div PerPage ELSE 1

\* The buttons of a page; a page behind the last one becomes the last one.
Buttons(n, page) ==
    LET pg == IF page > LastPage(n) THEN LastPage(n) ELSE page
    IN {i \in 1..n : (pg - 1) * PerPage < i /\ i <= pg * PerPage}

Init ==
    /\ g_exchNew = <<>> /\ file = <<>>
    /\ g_exchNewState = [p \in Peers |-> NewState]
    /\ now = 1
    /\ inv = [p \in Peers |-> [i \in Items |-> 0]]
    /\ dialog = [p \in Peers |-> Closed]
    /\ saving = NoPeer
    /\ crashes = 0

\* The list becomes list, and p gets a dialog with the buttons of a page of it.
\* When offers have been removed, the dialogs built before are no longer fresh.
Shows(p, kind, list, page, removed) ==
    /\ g_exchNew' = list
    /\ dialog' = [q \in Peers |->
          IF q = p THEN [kind |-> kind, fresh |-> TRUE,
                         shown |-> [i \in Buttons(Len(list), page) |-> list[i]]]
          ELSE [dialog[q] EXCEPT !.fresh = @ /\ ~removed]]

\* exn_exchange_dialog and exn_set_dialog.
ShowPage(p, kind, page) == Shows(p, kind, Offers, page, Offers # g_exchNew)

\* The next handler starts when the one before has returned.
Idle == saving = NoPeer

Sees(p, kind) == Idle /\ dialog[p].kind = kind
-----------------------------------------------------------------------------
(* Taking an offer.                                                        *)

Commands_exchangenew(p, page) ==
    /\ g_exchNewState' = [g_exchNewState EXCEPT ![p].page = page]
    /\ ShowPage(p, "get", page)

\* /exchangenew with a page number.
CMD_EXCHANGENEW(p, page) ==
    /\ Idle /\ p \in Customers
    /\ Commands_exchangenew(p, page)
    /\ UNCHANGED <<file, now, inv, saving, crashes>>

\* Prev counts down from the page asked for, which may be behind the last one.
PageBefore(p) ==
    LET pg == g_exchNewState[p].page IN IF pg > 1 THEN pg - 1 ELSE pg

PageAfter(p) ==
    LET pg == g_exchNewState[p].page + 1
    IN IF pg > LastPage(Len(Offers)) THEN LastPage(Len(Offers)) ELSE pg

exn_get_turn(p) ==
    /\ Sees(p, "get")
    /\ \E pg \in {PageBefore(p), PageAfter(p)} : Commands_exchangenew(p, pg)
    /\ UNCHANGED <<file, now, inv, saving, crashes>>

\* Looks only at a new kind of item.
FitsMutant(b, s) ==
    s.amt <= Cap /\ (b[s.id] = 0 => Cardinality({i \in Items : b[i] > 0}) < Slots)

\* Inventory::Modify(peer, id, amt) returns 0, for amt > 0.
Fits(b, s) ==
    /\ s.amt <= Cap
    /\ IF b[s.id] > 0 THEN b[s.id] + s.amt <= Cap
       ELSE Cardinality({i \in Items : b[i] > 0}) < Slots

exn_has_requirements(b, e) == b[e.in.id] >= e.in.amt

Paid(b, e) == [b EXCEPT ![e.in.id] = @ - e.in.amt]

\* The price is taken first; when the reward does not fit, it is not given back.
exn_apply_exchange(b, e) ==
    LET left == Paid(b, e)
    IN IF Fits(left, e.out) THEN [left EXCEPT ![e.out.id] = @ + e.out.amt] ELSE left

\* The button is looked up in the list as it is now.
exn_get(p, i) ==
    /\ Sees(p, "get") /\ i \in DOMAIN dialog[p].shown
    /\ inv' = IF i <= Len(Offers) /\ exn_has_requirements(inv[p], Offers[i])
              THEN [inv EXCEPT ![p] = exn_apply_exchange(@, Offers[i])] ELSE inv
    /\ Commands_exchangenew(p, g_exchNewState[p].page)
    /\ UNCHANGED <<file, now, saving, crashes>>

\* The player gets an item elsewhere.
Collect(p, i) ==
    /\ Idle /\ p \in Customers
    /\ Fits(inv[p], [id |-> i, amt |-> 1])
    /\ inv' = [inv EXCEPT ![p][i] = @ + 1]
    /\ UNCHANGED <<g_exchNew, g_exchNewState, file, now, dialog, saving, crashes>>
-----------------------------------------------------------------------------
(* Editing the list.                                                       *)

\* The state of p becomes st, and the editor's dialog shows its page.
EditorPage(p, st) ==
    /\ g_exchNewState' = [g_exchNewState EXCEPT ![p] = st]
    /\ ShowPage(p, "set", st.page)
    /\ UNCHANGED <<file, now, inv, saving, crashes>>

\* /setexchangenew with a page number; what was entered before is still there.
CMD_SETEXCHANGENEW(p, page) ==
    /\ Idle /\ p \in Editors
    /\ EditorPage(p, [g_exchNewState[p] EXCEPT !.page = page])

exn_set_turn(p) ==
    /\ Sees(p, "set")
    /\ \E pg \in {PageBefore(p), PageAfter(p)} :
          EditorPage(p, [g_exchNewState[p] EXCEPT !.page = pg])

exn_clear_in(p) ==
    /\ Sees(p, "set") /\ g_exchNewState[p].in # NoStack
    /\ EditorPage(p, [g_exchNewState[p] EXCEPT !.in = NoStack])

exn_clear_out(p) ==
    /\ Sees(p, "set") /\ g_exchNewState[p].out # NoStack
    /\ EditorPage(p, [g_exchNewState[p] EXCEPT !.out = NoStack, !.dur = 0])

\* add_excitem and add_excrwrd: the dialog in which a stack is entered.
add_exc(p, kind) ==
    /\ Sees(p, "set") /\ g_exchNewState[p][kind] = NoStack
    /\ dialog' = [dialog EXCEPT ![p] = [Closed EXCEPT !.kind = kind]]
    /\ UNCHANGED <<g_exchNew, g_exchNewState, file, now, inv, saving, crashes>>

exn_add_in_apply(p, s) ==
    /\ Sees(p, "in")
    /\ EditorPage(p, [g_exchNewState[p] EXCEPT !.in = s])

exn_add_out_apply(p, s, d) ==
    /\ Sees(p, "out")
    /\ EditorPage(p, [g_exchNewState[p] EXCEPT !.out = s, !.dur = d])

exn_add_back(p) ==
    /\ Sees(p, "in") \/ Sees(p, "out")
    /\ EditorPage(p, g_exchNewState[p])

\* The page to show after an offer has been added as the last of n.
PageAfterAddMutant(page, n) == page

PageAfterAdd(page, n) ==
    IF n - (page - 1) * PerPage > PerPage THEN LastPage(n) ELSE page

\* exn_save opens the file, which truncates it; p is its caller.
SaveBegins(p) == file' = Torn /\ saving' = p /\ UNCHANGED <<now, inv, crashes>>

\* The new offer comes first.
WithMutant(list, e) == <<e>> \o list

With(list, e) == Append(list, e)

\* An offer that is not complete is refused.
exn_add_new(p) ==
    LET st == g_exchNewState[p]
        e == [in |-> st.in, out |-> st.out,
              expire |-> IF st.dur > 0 THEN now + st.dur ELSE 0]
        list == With(Offers, e)
    IN /\ Sees(p, "set")
       /\ \/ /\ st.in = NoStack \/ st.out = NoStack
             /\ EditorPage(p, st)
          \/ /\ st.in # NoStack /\ st.out # NoStack
             /\ Len(Offers) < MaxOffers
             /\ g_exchNewState' = [g_exchNewState EXCEPT
                   ![p] = [NewState EXCEPT !.page = PageAfterAdd(st.page, Len(list))]]
             /\ Shows(p, "added", list, 1, Offers # g_exchNew)
             /\ SaveBegins(p)

\* Only the list in memory changes.
exn_delMutant(p, i) ==
    /\ Sees(p, "set") /\ i \in DOMAIN dialog[p].shown /\ i <= Len(Offers)
    /\ Shows(p, "set", SubSeq(Offers, 1, i - 1) \o SubSeq(Offers, i + 1, Len(Offers)),
             g_exchNewState[p].page, TRUE)
    /\ UNCHANGED <<g_exchNewState, file, now, inv, saving, crashes>>

\* Erases the offer that has the button's index now.
exn_del(p, i) ==
    LET list == SubSeq(Offers, 1, i - 1) \o SubSeq(Offers, i + 1, Len(Offers))
    IN /\ Sees(p, "set") /\ i \in DOMAIN dialog[p].shown
       /\ Shows(p, "deleted", IF i <= Len(Offers) THEN list ELSE Offers, 1,
                i <= Len(Offers) \/ Offers # g_exchNew)
       /\ SaveBegins(p)
       /\ UNCHANGED g_exchNewState

\* The file is written, and the handler ends with the editor's dialog.
exn_save(p) ==
    /\ saving = p
    /\ file' = g_exchNew
    /\ saving' = NoPeer
    /\ ShowPage(p, "set", g_exchNewState[p].page)
    /\ UNCHANGED <<g_exchNewState, now, inv, crashes>>
-----------------------------------------------------------------------------
(* Time, connections and the process.                                      *)

Tick ==
    /\ Idle /\ now < MaxTime
    /\ now' = now + 1
    /\ UNCHANGED <<g_exchNew, g_exchNewState, file, inv, dialog, saving, crashes>>

\* Somebody else connects at p.  g_exchNewState keeps what it has for p.
Reconnect(p) ==
    /\ Idle
    /\ dialog' = [dialog EXCEPT ![p] = Closed]
    /\ inv' = [inv EXCEPT ![p] = [i \in Items |-> 0]]
    /\ UNCHANGED <<g_exchNew, g_exchNewState, file, now, saving, crashes>>

\* The process ends, at any moment, and is started again.
Crash ==
    /\ crashes < MaxCrashes
    /\ crashes' = crashes + 1
    /\ g_exchNew' = exn_load
    /\ g_exchNewState' = [p \in Peers |-> NewState]
    /\ dialog' = [p \in Peers |-> Closed]
    /\ saving' = NoPeer
    /\ UNCHANGED <<file, now, inv>>

Next ==
    \/ \E p \in Peers, pg \in 1..MaxPage : CMD_EXCHANGENEW(p, pg) \/ CMD_SETEXCHANGENEW(p, pg)
    \/ \E p \in Peers :
          \/ exn_get_turn(p)
          \/ \E i \in 1..MaxOffers : exn_get(p, i) \/ exn_del(p, i)
          \/ \E i \in Items : Collect(p, i)
          \/ exn_set_turn(p) \/ exn_clear_in(p) \/ exn_clear_out(p)
          \/ \E kind \in {"in", "out"} : add_exc(p, kind)
          \/ \E s \in InStacks : exn_add_in_apply(p, s)
          \/ \E s \in OutStacks, d \in Durations : exn_add_out_apply(p, s, d)
          \/ exn_add_back(p) \/ exn_add_new(p) \/ exn_save(p)
          \/ Reconnect(p)
    \/ Tick
    \/ Crash

Spec == Init /\ [][Next]_vars
-----------------------------------------------------------------------------
(* Properties.                                                             *)

\* Types of the variables; no backpack holds more of a kind, or more kinds,
\* than Inventory::Modify admits.
TypeOK ==
    /\ g_exchNew \in Seq(Offer)
    /\ file \in Seq(Offer) \cup {Torn}
    /\ g_exchNewState \in [Peers -> EditState]
    /\ now \in Nat /\ crashes \in Nat
    /\ inv \in [Peers -> [Items -> 0..Cap]]
    /\ \A p \in Peers : Cardinality({i \in Items : inv[p][i] > 0}) <= Slots
    /\ saving \in Peers \cup {NoPeer}
    /\ \A p \in Peers :
          /\ dialog[p].kind \in {"none", "get", "set", "in", "out", "added", "deleted"}
          /\ \A i \in DOMAIN dialog[p].shown : dialog[p].shown[i] \in Offer

\* Between two handlers, a restart would bring back exactly the offers that
\* can be taken now, in their order: every handler that changes the list
\* saves it, and those that have expired need not be saved.
OffersOnDisk == Idle => exn_load = Offers

\* The page that exn_add_new answers with shows the offer that was added,
\* whatever page the editor was on and whatever expired meanwhile.
AddedIsShown ==
    [][\A p \in Peers : exn_save(p) /\ dialog[p].kind = "added" =>
          \E i \in DOMAIN dialog'[p].shown :
              i = Len(g_exchNew') /\ dialog'[p].shown[i] = g_exchNew'[i]]_vars

\* As long as no offer has been removed or has expired since a page was built,
\* exn_get exchanges what the button showed, although it sends only an index
\* and other editors may have added offers.
FreshDeal ==
    [][\A p \in Peers : \A i \in DOMAIN dialog[p].shown :
          exn_get(p, i) /\ dialog[p].fresh /\ Offers = g_exchNew =>
              inv'[p] = IF exn_has_requirements(inv[p], dialog[p].shown[i])
                        THEN exn_apply_exchange(inv[p], dialog[p].shown[i]) ELSE inv[p]]_vars
=============================================================================
