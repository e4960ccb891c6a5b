--------------------------- MODULE ExchangeProofs ---------------------------
(***************************************************************************)
(* The exchange: what is on disk is what can be taken, a button that is    *)
(* fresh stands for the offer it showed, and an offer just added is on the *)
(* page that the editor is shown.                                          *)
(***************************************************************************)
EXTENDS Exchange, FiniteSetTheorems, SequenceTheorems, Lemmas

Kinds == {"none", "get", "set", "in", "out", "added", "deleted"}

\* The kinds of items in a backpack, and the backpacks that Modify admits.
Held(b) == {i \in Items : b[i] > 0}
Backpack(b) == b \in [Items -> 0..Cap] /\ Cardinality(Held(b)) <= Slots

\* A dialog is a record with these three fields.
DialogOK(d) ==
    /\ d = [kind |-> d.kind, shown |-> d.shown, fresh |-> d.fresh]
    /\ d.kind \in Kinds /\ d.fresh \in BOOLEAN
    /\ \A i \in DOMAIN d.shown : d.shown[i] \in Offer

ListTypes ==
    /\ g_exchNew \in Seq(Offer)
    /\ file \in Seq(Offer) \cup {Torn}
    /\ now \in Nat /\ crashes \in Nat
    /\ saving \in Peers \cup {NoPeer}
EditTypes == g_exchNewState \in [Peers -> EditState]
BackpackTypes == inv = [p \in Peers |-> inv[p]] /\ \A p \in Peers : Backpack(inv[p])
DialogTypes == dialog = [p \in Peers |-> dialog[p]] /\ \A p \in Peers : DialogOK(dialog[p])

\* Every button of the dialog stands for the offer that has its index now.
Stands(d, list) ==
    d.fresh => \A i \in DOMAIN d.shown : i \in 1..Len(list) /\ d.shown[i] = list[i]
FreshInv == \A p \in Peers : Stands(dialog[p], g_exchNew)

\* While exn_add_new saves, nothing in the list has expired, and the editor's
\* page has a button for the last offer.
AddedInv ==
    \A p \in Peers : saving = p /\ dialog[p].kind = "added" =>
        /\ Offers = g_exchNew
        /\ Len(g_exchNew) \in Buttons(Len(g_exchNew), g_exchNewState[p].page)

IndInv ==
    /\ ListTypes /\ EditTypes /\ BackpackTypes /\ DialogTypes
    /\ OffersOnDisk /\ FreshInv /\ AddedInv
-----------------------------------------------------------------------------
(* Pages.                                                                  *)

\* The last of n offers is on the last page.
LEMMA LastPageHoldsLast ==
    ASSUME NEW n \in Nat \ {0}
    PROVE  /\ LastPage(n) \in Nat \ {0}
           /\ (LastPage(n) - 1) * PerPage < n
           /\ n <= LastPage(n) * PerPage
<1> DEFINE m == n + PerPage - 1
           q == m \div PerPage
<1>1. PerPage \in Nat \ {0} /\ m \in Nat
  BY ExchangeAssumption
<1>2. ASSUME NEW k \in Nat, NEW c \in Nat \ {0}
      PROVE  k \div c \in Nat /\ (k \div c) * c <= k /\ k < (k \div c) * c + c
  BY SMT
<1>3. q \in Nat /\ q * PerPage <= m /\ m < q * PerPage + PerPage
  BY <1>1, <1>2
<1>4. LastPage(n) = q
  BY DEF LastPage
<1> HIDE DEF q
<1>5. (q - 1) * PerPage = q * PerPage - PerPage
  BY <1>1, <1>3, SMT
<1>6. q # 0
  <2>1. ASSUME q = 0 PROVE q * PerPage = 0
    BY <1>1, <2>1
  <2> QED BY <1>1, <1>3, <2>1
<1> QED BY <1>1, <1>3, <1>4, <1>5, <1>6

\* There is always a last page.
LEMMA LastPageType ==
    ASSUME NEW n \in Nat
    PROVE  LastPage(n) \in Nat \ {0}
<1>1. CASE n = 0
  BY <1>1 DEF LastPage
<1>2. CASE n # 0
  BY <1>2, LastPageHoldsLast
<1> QED BY <1>1, <1>2

\* The page that follows an addition has a button for the offer added.
LEMMA AddedPage ==
    ASSUME NEW n \in Nat \ {0}, NEW page \in Nat \ {0}
    PROVE  /\ PageAfterAdd(page, n) \in Nat \ {0}
           /\ n \in Buttons(n, PageAfterAdd(page, n))
<1> DEFINE last == LastPage(n)
           pg == PageAfterAdd(page, n)
<1>1. PerPage \in Nat \ {0}
  BY ExchangeAssumption
<1>2. last \in Nat \ {0} /\ (last - 1) * PerPage < n /\ n <= last * PerPage
  BY LastPageHoldsLast
<1>3. pg = IF n - (page - 1) * PerPage > PerPage THEN last ELSE page
  BY DEF PageAfterAdd
<1> HIDE DEF last, pg
<1>4. pg \in Nat \ {0}
  BY <1>2, <1>3
<1>5. Buttons(n, pg) = LET c == IF pg > last THEN last ELSE pg
                       IN {i \in 1..n : (c - 1) * PerPage < i /\ i <= c * PerPage}
  BY DEF Buttons, last
<1>6. n \in 1..n
  OBVIOUS
<1>7. ASSUME pg >= last PROVE n \in Buttons(n, pg)
  BY <1>2, <1>4, <1>5, <1>6, <1>7
<1>8. ASSUME pg < last PROVE n \in Buttons(n, pg)
  <2>1. pg = page /\ ~(n - (page - 1) * PerPage > PerPage)
    BY <1>2, <1>3, <1>8
  <2>2. ASSUME NEW a \in Int, NEW b \in Int, a <= b, NEW c \in Nat PROVE a * c <= b * c
    BY <2>2, SMT
  <2>3. (pg - 1) * PerPage <= (last - 1) * PerPage
    BY <1>1, <1>2, <1>4, <1>8, <2>2
  <2>4. pg * PerPage = (pg - 1) * PerPage + PerPage
    BY <1>1, <1>4, SMT
  <2> DEFINE x == (pg - 1) * PerPage
             y == pg * PerPage
             z == (last - 1) * PerPage
  <2>5. x \in Int /\ y \in Int /\ z \in Int
    BY <1>1, <1>2, <1>4
  <2>6. x < n /\ n <= y
    <3>1. x <= z /\ y = x + PerPage /\ z < n /\ ~(n - x > PerPage)
      BY <1>2, <2>1, <2>3, <2>4
    <3> HIDE DEF x, y, z
    <3> QED BY <1>1, <2>5, <3>1
  <2> QED BY <1>2, <1>4, <1>5, <1>6, <1>8, <2>6
<1> QED BY <1>2, <1>4, <1>7, <1>8 DEF pg
-----------------------------------------------------------------------------
(* Backpacks.                                                              *)

\* A stack that fits can be added to a backpack.
LEMMA AddStack ==
    ASSUME NEW b, Backpack(b), NEW s \in Stack, Fits(b, s)
    PROVE  Backpack([b EXCEPT ![s.id] = @ + s.amt])
<1> DEFINE c == [b EXCEPT ![s.id] = @ + s.amt]
<1>1. Cap \in Nat /\ Slots \in Nat /\ IsFiniteSet(Items)
  BY ExchangeAssumption
<1>2. s.id \in Items /\ s.amt \in Nat \ {0}
  BY DEF Stack
<1>3. b \in [Items -> 0..Cap] /\ Cardinality(Held(b)) <= Slots
  BY DEF Backpack
<1>4. c \in [Items -> 0..Cap]
  <2>1. b[s.id] \in 0..Cap /\ b[s.id] + s.amt \in 0..Cap
    BY <1>1, <1>2, <1>3 DEF Fits
  <2> QED BY <1>2, <1>3, <2>1
<1>5. Held(c) = Held(b) \cup {s.id}
  BY <1>1, <1>2, <1>3 DEF Held
<1>6. IsFiniteSet(Held(b)) /\ Cardinality(Held(b)) \in Nat
  BY <1>1, FS_Subset, FS_CardinalityType DEF Held
<1>7. CASE s.id \in Held(b)
  <2>1. Held(c) = Held(b)
    BY <1>5, <1>7
  <2> QED BY <1>3, <1>4, <2>1 DEF Backpack
<1>8. CASE s.id \notin Held(b)
  <2>1. Cardinality(Held(b)) < Slots
    BY <1>1, <1>2, <1>3, <1>8 DEF Fits, Held
  <2>2. Cardinality(Held(c)) = Cardinality(Held(b)) + 1
    BY <1>5, <1>6, <1>8, FS_AddElement
  <2>3. Cardinality(Held(c)) <= Slots
    BY <1>1, <1>6, <2>1, <2>2
  <2> QED BY <1>4, <2>3 DEF Backpack
<1> QED BY <1>7, <1>8

\* An exchange leaves a backpack that Modify admits.
LEMMA ExchangeBackpack ==
    ASSUME NEW b, Backpack(b), NEW e \in Offer, exn_has_requirements(b, e)
    PROVE  Backpack(exn_apply_exchange(b, e))
<1> DEFINE left == Paid(b, e)
<1>1. Cap \in Nat /\ Slots \in Nat /\ IsFiniteSet(Items)
  BY ExchangeAssumption
<1>2. e.in \in Stack /\ e.out \in Stack
  BY ExchangeAssumption DEF Offer
<1>3. e.in.id \in Items /\ e.in.amt \in Nat \ {0}
  BY <1>2 DEF Stack
<1>4. b \in [Items -> 0..Cap] /\ Cardinality(Held(b)) <= Slots
  BY DEF Backpack
<1>5. left \in [Items -> 0..Cap]
  <2>1. b[e.in.id] \in 0..Cap /\ b[e.in.id] - e.in.amt \in 0..Cap
    BY <1>1, <1>3, <1>4 DEF exn_has_requirements
  <2> QED BY <1>3, <1>4, <2>1 DEF Paid
<1>6. Held(left) \subseteq Held(b)
  BY <1>1, <1>3, <1>4 DEF Held, Paid
<1>7. IsFiniteSet(Held(b)) /\ Cardinality(Held(b)) \in Nat
  BY <1>1, FS_Subset, FS_CardinalityType DEF Held
<1>8. Cardinality(Held(left)) \in Nat /\ Cardinality(Held(left)) <= Cardinality(Held(b))
  BY <1>6, <1>7, FS_Subset, FS_CardinalityType
<1>9. Backpack(left)
  BY <1>1, <1>4, <1>5, <1>7, <1>8 DEF Backpack
<1>10. exn_apply_exchange(b, e)
         = IF Fits(left, e.out) THEN [left EXCEPT ![e.out.id] = @ + e.out.amt] ELSE left
  BY DEF exn_apply_exchange
<1> HIDE DEF left
<1>11. CASE Fits(left, e.out)
  <2>1. Backpack([left EXCEPT ![e.out.id] = @ + e.out.amt])
    BY <1>2, <1>9, <1>11, AddStack
  <2> QED BY <1>10, <1>11, <2>1
<1>12. CASE ~Fits(left, e.out)
  BY <1>9, <1>10, <1>12
<1> QED BY <1>11, <1>12
-----------------------------------------------------------------------------
(* The list.                                                               *)

\* What the list of offers keeps has its type.
LEMMA PruneType ==
    ASSUME NEW list \in Seq(Offer)
    PROVE  exn_prune_expired(list) \in Seq(Offer)
BY KeepType DEF exn_prune_expired

\* Removing what has expired twice is removing it once.
LEMMA PruneTwice ==
    ASSUME NEW list \in Seq(Offer)
    PROVE  exn_prune_expired(exn_prune_expired(list)) = exn_prune_expired(list)
BY KeepKeep DEF exn_prune_expired

\* Nothing expires from an empty list.
LEMMA PruneEmpty == exn_prune_expired(<<>>) = <<>>
BY KeepEmpty DEF exn_prune_expired

\* list continues old: the offers of old have their indices in list.
Continues(list, old) == Len(old) <= Len(list) /\ \A i \in 1..Len(old) : list[i] = old[i]

\* A dialog that stands for the offers of a list stands for those of a list
\* that continues it.
LEMMA StandsOn ==
    ASSUME NEW old \in Seq(Offer), NEW list \in Seq(Offer), Continues(list, old),
           NEW d, Stands(d, old)
    PROVE  Stands(d, list)
<1>1. \A i \in 1..Len(old) : i \in 1..Len(list)
  BY DEF Continues
<1> QED BY <1>1 DEF Continues, Stands

\* A handler that puts a list in place and answers p with a page of it; the
\* other dialogs stay fresh only when the list continues the one before.
Answers(p, kind, list, page) ==
    \E removed \in BOOLEAN :
        /\ Shows(p, kind, list, page, removed)
        /\ ~removed => Continues(list, g_exchNew)

\* p has the dialog of the page.
Answered(p, kind, list, page) ==
    /\ g_exchNew' = list
    /\ dialog'[p].kind = kind
    /\ dialog'[p].shown = [i \in Buttons(Len(list), page) |-> list[i]]

\* Then the dialogs that are fresh stand for offers of the new list.
LEMMA ShowsSummary ==
    ASSUME ListTypes, DialogTypes, FreshInv, NEW p \in Peers, NEW kind \in Kinds,
           NEW list \in Seq(Offer), NEW page \in Nat \ {0},
           Answers(p, kind, list, page)
    PROVE  Answered(p, kind, list, page) /\ DialogTypes' /\ FreshInv'
<1> PICK removed \in BOOLEAN :
        /\ Shows(p, kind, list, page, removed)
        /\ ~removed => Continues(list, g_exchNew)
  BY DEF Answers
<1> DEFINE shown == [i \in Buttons(Len(list), page) |-> list[i]]
           d == [kind |-> kind, fresh |-> TRUE, shown |-> shown]
<1>1. g_exchNew' = list /\ g_exchNew \in Seq(Offer)
  BY DEF Shows, ListTypes
<1>2. DOMAIN shown = Buttons(Len(list), page) /\ Buttons(Len(list), page) \subseteq 1..Len(list)
  BY DEF Buttons
<1>3. \A i \in DOMAIN shown : shown[i] \in Offer /\ i \in 1..Len(list) /\ shown[i] = list[i]
  BY <1>2
<1>4. dialog' = [q \in Peers |-> IF q = p THEN d
                                ELSE [dialog[q] EXCEPT !.fresh = @ /\ ~removed]]
  BY DEF Shows
<1> HIDE DEF shown
<1>5. d.kind = kind /\ d.fresh = TRUE /\ d.shown = shown
      /\ d = [kind |-> d.kind, shown |-> d.shown, fresh |-> d.fresh]
  OBVIOUS
<1> HIDE DEF d
<1>6. dialog'[p] = d
  BY <1>4
<1>7. DialogOK(d) /\ Stands(d, list)
  BY <1>3, <1>5 DEF DialogOK, Stands
<1>8. ASSUME NEW q \in Peers, q # p PROVE DialogOK(dialog'[q]) /\ Stands(dialog'[q], list)
  <2> DEFINE o == dialog[q]
             n == dialog'[q]
  <2>1. DialogOK(o) /\ Stands(o, g_exchNew)
    BY DEF DialogTypes, FreshInv
  <2>2. n = [o EXCEPT !.fresh = @ /\ ~removed]
    BY <1>4, <1>8
  <2>3. o = [kind |-> o.kind, shown |-> o.shown, fresh |-> o.fresh] /\ o.fresh \in BOOLEAN
    BY <2>1 DEF DialogOK
  <2> HIDE DEF o, n
  <2>4. n = [kind |-> o.kind, shown |-> o.shown, fresh |-> (o.fresh /\ ~removed)]
    BY <2>2, <2>3
  <2>5. n.kind = o.kind /\ n.shown = o.shown /\ n.fresh = (o.fresh /\ ~removed)
    BY <2>4
  <2>6. n = [kind |-> n.kind, shown |-> n.shown, fresh |-> n.fresh] /\ n.fresh \in BOOLEAN
    BY <2>4, <2>5
  <2>7. DialogOK(n)
    BY <2>1, <2>5, <2>6 DEF DialogOK
  <2>8. Stands(n, list)
    <3>1. CASE removed
      BY <2>5, <3>1 DEF Stands
    <3>2. CASE ~removed
      <4>1. Stands(o, list)
        BY <1>1, <2>1, <3>2, StandsOn
      <4> QED BY <2>5, <4>1 DEF Stands
    <3> QED BY <3>1, <3>2
  <2> QED BY <2>7, <2>8 DEF n
<1>9. dialog' = [q \in Peers |-> dialog'[q]]
  BY <1>4
<1>10. ASSUME NEW q \in Peers PROVE DialogOK(dialog'[q]) /\ Stands(dialog'[q], g_exchNew')
  BY <1>1, <1>6, <1>7, <1>8
<1>11. DialogTypes' /\ FreshInv'
  BY <1>9, <1>10 DEF DialogTypes, FreshInv, DialogOK, Stands
<1> QED BY <1>1, <1>5, <1>6, <1>11 DEF shown, Answered
-----------------------------------------------------------------------------
(* The invariant.                                                          *)

\* What a handler may disturb, apart from the editors' states and backpacks.
ListInv == ListTypes /\ DialogTypes /\ OffersOnDisk /\ FreshInv /\ AddedInv

\* Removing the expired offers leaves the list, or makes dialogs stale.
LEMMA PageAnswers ==
    ASSUME g_exchNew \in Seq(Offer), NEW p \in Peers, NEW kind, NEW page,
           ShowPage(p, kind, page)
    PROVE  Answers(p, kind, Offers, page)
<1>1. PICK removed \in BOOLEAN : removed = (Offers # g_exchNew)
  OBVIOUS
<1>2. Shows(p, kind, Offers, page, removed)
  BY <1>1 DEF ShowPage
<1>3. ~removed => Offers = g_exchNew
  BY <1>1, Zenon
<1>4. Continues(g_exchNew, g_exchNew)
  BY DEF Continues
<1> QED BY <1>2, <1>3, <1>4 DEF Answers

\* exn_exchange_dialog and exn_set_dialog remove the expired offers from the
\* list and show a page: the offers that can be taken stay the same.
LEMMA PageStep ==
    ASSUME ListInv, Idle, NEW p \in Peers, NEW kind \in {"get", "set"},
           NEW page \in Nat \ {0}, ShowPage(p, kind, page),
           UNCHANGED <<file, now, saving, crashes>>
    PROVE  ListInv'
<1>1. ListTypes /\ DialogTypes /\ FreshInv /\ OffersOnDisk
  BY DEF ListInv
<1>2. g_exchNew \in Seq(Offer) /\ Offers \in Seq(Offer)
  BY <1>1, PruneType DEF ListTypes, Offers
<1>5. kind \in Kinds
  BY DEF Kinds
<1>6. Answers(p, kind, Offers, page)
  BY <1>2, PageAnswers
<1>7. g_exchNew' = Offers /\ DialogTypes' /\ FreshInv'
  BY <1>1, <1>2, <1>5, <1>6, ShowsSummary DEF Answered
<1>8. ListTypes'
  BY <1>1, <1>2, <1>7 DEF ListTypes
<1>9. OffersOnDisk'
  <2>1. exn_prune_expired(Offers) = Offers
    BY <1>2, PruneTwice DEF Offers
  <2>2. Offers' = exn_prune_expired(Offers)
    BY <1>7 DEF Offers, exn_prune_expired
  <2>3. exn_load' = exn_load
    BY DEF exn_load, exn_prune_expired
  <2> QED BY <1>1, <2>1, <2>2, <2>3 DEF OffersOnDisk, Idle
<1>10. AddedInv'
  BY ExchangeAssumption DEF AddedInv, Idle
<1> QED BY <1>7, <1>8, <1>9, <1>10 DEF ListInv

\* While a handler saves, the file need not agree with the list.
LEMMA SaveBeginsStep ==
    ASSUME ListInv, Idle, NEW p \in Peers, NEW kind \in {"added", "deleted"},
           NEW list \in Seq(Offer), Answers(p, kind, list, 1), SaveBegins(p)
    PROVE  /\ ListTypes' /\ DialogTypes' /\ OffersOnDisk' /\ FreshInv'
           /\ g_exchNew' = list /\ dialog'[p].kind = kind
<1>1. ListTypes /\ DialogTypes /\ FreshInv
  BY DEF ListInv
<1>2. kind \in Kinds /\ 1 \in Nat \ {0}
  BY DEF Kinds
<1>3. g_exchNew' = list /\ DialogTypes' /\ FreshInv' /\ dialog'[p].kind = kind
  BY <1>1, <1>2, ShowsSummary DEF Answered
<1>4. ListTypes'
  BY <1>1, <1>3 DEF ListTypes, SaveBegins
<1>5. OffersOnDisk'
  BY ExchangeAssumption DEF OffersOnDisk, Idle, SaveBegins
<1> QED BY <1>3, <1>4, <1>5

\* The list is written, and the page shown after it has no expired offer.
LEMMA SaveStep ==
    ASSUME ListInv, EditTypes, NEW p \in Peers, exn_save(p)
    PROVE  /\ ListInv' /\ g_exchNew' = Offers
           /\ dialog'[p].shown
                = [i \in Buttons(Len(Offers), g_exchNewState[p].page) |-> Offers[i]]
<1> DEFINE page == g_exchNewState[p].page
<1>1. ListTypes /\ DialogTypes /\ FreshInv
  BY DEF ListInv
<1>2. g_exchNew \in Seq(Offer) /\ Offers \in Seq(Offer)
  BY <1>1, PruneType DEF ListTypes, Offers
<1>5. "set" \in Kinds /\ page \in Nat \ {0} /\ ShowPage(p, "set", page)
  BY DEF Kinds, EditTypes, EditState, exn_save
<1> HIDE DEF page
<1>6. Answers(p, "set", Offers, page)
  BY <1>2, <1>5, PageAnswers
<1>7. /\ g_exchNew' = Offers /\ DialogTypes' /\ FreshInv'
      /\ dialog'[p].shown = [i \in Buttons(Len(Offers), page) |-> Offers[i]]
  <2>1. Answered(p, "set", Offers, page) /\ DialogTypes' /\ FreshInv'
    BY <1>1, <1>2, <1>5, <1>6, ShowsSummary
  <2> QED BY <2>1, Zenon DEF Answered
<1>8. file' = g_exchNew /\ saving' = NoPeer /\ UNCHANGED <<now, crashes>>
  BY DEF exn_save
<1>9. ListTypes'
  BY <1>1, <1>2, <1>7, <1>8 DEF ListTypes
<1>10. OffersOnDisk'
  <2>1. exn_prune_expired(Offers) = Offers
    BY <1>2, PruneTwice DEF Offers
  <2>2. Offers' = exn_prune_expired(Offers)
    BY <1>7, <1>8 DEF Offers, exn_prune_expired
  <2>3. file' # Torn
    BY <1>2, <1>8, ExchangeAssumption
  <2>4. exn_load' = Offers
    BY <1>8, <2>3 DEF exn_load, exn_prune_expired, Offers
  <2> QED BY <2>1, <2>2, <2>4 DEF OffersOnDisk
<1>11. AddedInv'
  BY <1>8, ExchangeAssumption DEF AddedInv
<1> QED BY <1>7, <1>9, <1>10, <1>11 DEF ListInv, page

\* Time passes: the same offers expire in memory and on disk.
LEMMA TickStep ==
    ASSUME ListInv, Tick
    PROVE  ListInv'
<1>1. ListTypes /\ DialogTypes /\ FreshInv /\ OffersOnDisk
  BY DEF ListInv
<1>2. /\ Idle /\ now' = now + 1 /\ now \in Nat
      /\ UNCHANGED <<g_exchNew, g_exchNewState, file, inv, dialog, saving, crashes>>
  BY <1>1 DEF Tick, ListTypes
<1>3. ListTypes' /\ DialogTypes' /\ FreshInv'
  BY <1>1, <1>2 DEF ListTypes, DialogTypes, FreshInv
<1>4. AddedInv'
  BY <1>2, ExchangeAssumption DEF AddedInv, Idle
<1>5. Live(now + 1) \subseteq Live(now)
  BY <1>2 DEF Live, Offer
<1>6. ASSUME NEW list \in Seq(Offer)
      PROVE  Keep(Keep(list, Live(now)), Live(now + 1)) = Keep(list, Live(now + 1))
  BY <1>5, KeepKeep
<1>7. exn_load = Offers
  BY <1>1, <1>2 DEF OffersOnDisk
<1>8. Offers' = Keep(Offers, Live(now + 1))
  BY <1>1, <1>2, <1>6 DEF Offers, exn_prune_expired, ListTypes
<1>9. exn_load' = Keep(exn_load, Live(now + 1))
  <2>1. CASE file = Torn
    <3>1. Keep(<<>>, Live(now + 1)) = <<>>
      BY KeepEmpty
    <3> QED BY <1>2, <2>1, <3>1 DEF exn_load
  <2>2. CASE file # Torn
    <3>1. file \in Seq(Offer)
      BY <1>1, <2>2 DEF ListTypes
    <3> QED BY <1>2, <1>6, <2>2, <3>1 DEF exn_load, exn_prune_expired
  <2> QED BY <2>1, <2>2
<1>10. OffersOnDisk'
  BY <1>7, <1>8, <1>9 DEF OffersOnDisk
<1> QED BY <1>3, <1>4, <1>10 DEF ListInv

\* A restart takes the list from the file, torn or not.
LEMMA CrashStep ==
    ASSUME ListInv, Crash
    PROVE  ListInv'
<1>1. ListTypes /\ DialogTypes
  BY DEF ListInv
<1>2. /\ crashes' = crashes + 1 /\ g_exchNew' = exn_load /\ saving' = NoPeer
      /\ dialog' = [p \in Peers |-> Closed] /\ UNCHANGED <<file, now, inv>>
  BY DEF Crash
<1>3. exn_load \in Seq(Offer) /\ exn_prune_expired(exn_load) = exn_load
  <2>1. CASE file = Torn
    BY <2>1, PruneEmpty DEF exn_load
  <2>2. CASE file # Torn
    <3>1. file \in Seq(Offer)
      BY <1>1, <2>2 DEF ListTypes
    <3> QED BY <2>2, <3>1, PruneType, PruneTwice DEF exn_load
  <2> QED BY <2>1, <2>2
<1>4. ListTypes'
  BY <1>1, <1>2, <1>3 DEF ListTypes
<1>5. DialogOK(Closed) /\ DOMAIN Closed.shown = {}
  BY DEF DialogOK, Closed, Kinds
<1>6. DialogTypes' /\ FreshInv'
  BY <1>2, <1>5 DEF DialogTypes, FreshInv, Stands
<1>7. OffersOnDisk'
  BY <1>2, <1>3 DEF OffersOnDisk, exn_load, exn_prune_expired, Offers
<1>8. AddedInv'
  BY <1>2, ExchangeAssumption DEF AddedInv
<1> QED BY <1>4, <1>6, <1>7, <1>8 DEF ListInv

\* The dialogs in which a stack is entered have no buttons.
LEMMA EntryDialog ==
    ASSUME NEW kind \in Kinds
    PROVE  /\ DialogOK(Closed) /\ DOMAIN Closed.shown = {}
           /\ DialogOK([Closed EXCEPT !.kind = kind])
           /\ DOMAIN [Closed EXCEPT !.kind = kind].shown = {}
<1> DEFINE d == [Closed EXCEPT !.kind = kind]
<1>1. DialogOK(Closed) /\ DOMAIN Closed.shown = {}
  BY DEF DialogOK, Closed, Kinds
<1>2. ASSUME NEW e, DialogOK(e), NEW k
      PROVE  [e EXCEPT !.kind = k] = [kind |-> k, shown |-> e.shown, fresh |-> e.fresh]
  BY <1>2 DEF DialogOK
<1>3. d = [kind |-> kind, shown |-> Closed.shown, fresh |-> Closed.fresh]
  BY <1>1, <1>2
<1> HIDE DEF d
<1>4. d.kind = kind /\ d.shown = Closed.shown /\ d.fresh = Closed.fresh
  BY <1>3
<1>5. DialogOK(d) /\ DOMAIN d.shown = {}
  BY <1>1, <1>3, <1>4 DEF DialogOK
<1> QED BY <1>1, <1>5 DEF d

\* A dialog without buttons replaces another.
LEMMA DialogStep ==
    ASSUME ListInv, Idle, NEW p \in Peers, NEW d, DialogOK(d), DOMAIN d.shown = {},
           dialog' = [dialog EXCEPT ![p] = d],
           UNCHANGED <<g_exchNew, file, now, saving, crashes>>
    PROVE  ListInv'
<1>1. ListTypes /\ DialogTypes /\ FreshInv /\ OffersOnDisk
  BY DEF ListInv
<1>2. dialog' = [q \in Peers |-> dialog'[q]]
      /\ \A q \in Peers : dialog'[q] = IF q = p THEN d ELSE dialog[q]
  BY <1>1 DEF DialogTypes
<1>3. DialogTypes' /\ FreshInv'
  BY <1>1, <1>2 DEF DialogTypes, FreshInv, Stands
<1>4. ListTypes' /\ OffersOnDisk'
  BY <1>1 DEF ListTypes, OffersOnDisk, Idle, exn_load, exn_prune_expired, Offers
<1>5. AddedInv'
  BY ExchangeAssumption DEF AddedInv, Idle
<1> QED BY <1>3, <1>4, <1>5 DEF ListInv

\* The editor's states as records.
LEMMA EditStates ==
    ASSUME EditTypes, NEW p \in Peers
    PROVE  /\ g_exchNewState[p] \in EditState
           /\ g_exchNewState[p].page \in Nat \ {0}
           /\ g_exchNewState[p].in \in InStacks \cup {NoStack}
           /\ g_exchNewState[p].out \in OutStacks \cup {NoStack}
           /\ g_exchNewState[p].dur \in Nat
<1>1. g_exchNewState[p] \in EditState
  BY DEF EditTypes
<1>2. Durations \subseteq Nat
  BY ExchangeAssumption
<1>3. ASSUME NEW st \in EditState
      PROVE  /\ st.page \in Nat \ {0} /\ st.in \in InStacks \cup {NoStack}
             /\ st.out \in OutStacks \cup {NoStack} /\ st.dur \in Durations \cup {0}
  BY DEF EditState
<1>4. Durations \cup {0} \subseteq Nat
  BY <1>2
<1> QED BY <1>1, <1>3, <1>4, Zenon

\* An offer is added: it is live, and the list continues the one before.
LEMMA AddStep ==
    ASSUME ListInv, EditTypes, NEW p \in Peers, exn_add_new(p),
           g_exchNewState[p].in # NoStack, g_exchNewState[p].out # NoStack
    PROVE  ListInv' /\ EditTypes' /\ UNCHANGED inv
<1> DEFINE st == g_exchNewState[p]
           e == [in |-> st.in, out |-> st.out,
                 expire |-> IF st.dur > 0 THEN now + st.dur ELSE 0]
           list == With(Offers, e)
           page == PageAfterAdd(st.page, Len(list))
           new == [NewState EXCEPT !.page = page]
<1>1. ListTypes /\ g_exchNew \in Seq(Offer) /\ now \in Nat
  BY DEF ListInv, ListTypes
<1>2. Offers \in Seq(Offer) /\ exn_prune_expired(Offers) = Offers
  BY <1>1, PruneType, PruneTwice DEF Offers
<1>3. st.page \in Nat \ {0} /\ st.in \in InStacks /\ st.out \in OutStacks /\ st.dur \in Nat
  BY EditStates
<1>4. e \in Offer /\ e \in Live(now)
  BY <1>1, <1>3 DEF Offer, Live
<1>5. /\ Idle
      /\ g_exchNewState' = [g_exchNewState EXCEPT ![p] = new]
      /\ Shows(p, "added", list, 1, Offers # g_exchNew)
      /\ SaveBegins(p)
  BY DEF exn_add_new, Sees, EditorPage
<1> HIDE DEF e, st
<1>6. list = Append(Offers, e) /\ list \in Seq(Offer) /\ Len(list) \in Nat \ {0}
  BY <1>2, <1>4 DEF With
<1>7. exn_prune_expired(list) = list
  <2>1. Keep(Append(Offers, e), Live(now)) = Append(Keep(Offers, Live(now)), e)
    BY <1>2, <1>4, KeepAppend
  <2> QED BY <1>2, <1>6, <2>1 DEF exn_prune_expired
<1>8. Answers(p, "added", list, 1)
  <2>1. PICK removed \in BOOLEAN : removed = (Offers # g_exchNew)
    OBVIOUS
  <2>2. Shows(p, "added", list, 1, removed)
    BY <1>5, <2>1
  <2>3. ~removed => Offers = g_exchNew
    BY <2>1, Zenon
  <2>4. Continues(list, Offers)
    BY <1>2, <1>4, <1>6 DEF Continues
  <2> HIDE DEF list
  <2> QED BY <2>2, <2>3, <2>4 DEF Answers
<1> HIDE DEF list
<1>9. page \in Nat \ {0} /\ Len(list) \in Buttons(Len(list), page)
  BY <1>3, <1>6, AddedPage
<1> HIDE DEF page
<1>10. /\ ListTypes' /\ DialogTypes' /\ OffersOnDisk' /\ FreshInv'
       /\ g_exchNew' = list /\ dialog'[p].kind = "added"
  BY <1>5, <1>6, <1>8, SaveBeginsStep
<1>11. new \in EditState /\ new.page = page
  BY <1>9 DEF NewState, EditState
<1> HIDE DEF new
<1>12. EditTypes' /\ g_exchNewState'[p].page = page
  BY <1>5, <1>11 DEF EditTypes
<1>13. Offers' = list
  BY <1>5, <1>7, <1>10 DEF Offers, exn_prune_expired, SaveBegins
<1>14. AddedInv'
  BY <1>5, <1>9, <1>10, <1>12, <1>13 DEF AddedInv, SaveBegins
<1> QED BY <1>5, <1>10, <1>12, <1>14 DEF ListInv, SaveBegins

\* An offer is erased: the dialogs built before are stale.
LEMMA DelStep ==
    ASSUME ListInv, EditTypes, NEW p \in Peers, NEW i \in 1..MaxOffers, exn_del(p, i)
    PROVE  ListInv' /\ EditTypes' /\ UNCHANGED inv
<1> DEFINE rest == SubSeq(Offers, 1, i - 1) \o SubSeq(Offers, i + 1, Len(Offers))
           list == IF i <= Len(Offers) THEN rest ELSE Offers
<1>1. ListTypes /\ g_exchNew \in Seq(Offer) /\ i \in Nat \ {0}
  BY ExchangeAssumption DEF ListInv, ListTypes
<1>2. Offers \in Seq(Offer)
  BY <1>1, PruneType DEF Offers
<1>3. /\ Idle /\ SaveBegins(p) /\ UNCHANGED g_exchNewState
      /\ Shows(p, "deleted", list, 1, i <= Len(Offers) \/ Offers # g_exchNew)
  BY DEF exn_del, Sees
<1>4. list \in Seq(Offer)
  <2>1. CASE i <= Len(Offers)
    <3>1. SubSeq(Offers, 1, i - 1) \in Seq(Offer)
      BY <1>1, <1>2, <2>1, SubSeqProperties
    <3>2. SubSeq(Offers, i + 1, Len(Offers)) \in Seq(Offer)
      BY <1>1, <1>2, <2>1, SubSeqProperties
    <3>3. rest \in Seq(Offer)
      BY <3>1, <3>2
    <3> HIDE DEF rest
    <3> QED BY <2>1, <3>3
  <2>2. CASE ~(i <= Len(Offers))
    BY <1>2, <2>2
  <2> QED BY <2>1, <2>2
<1>5. Answers(p, "deleted", list, 1)
  <2>1. PICK removed \in BOOLEAN : removed = (i <= Len(Offers) \/ Offers # g_exchNew)
    OBVIOUS
  <2>2. Shows(p, "deleted", list, 1, removed)
    BY <1>3, <2>1
  <2>3. ~removed => Offers = g_exchNew /\ ~(i <= Len(Offers))
    BY <2>1, Zenon
  <2>4. ~removed => list = g_exchNew
    BY <2>3
  <2>5. Continues(g_exchNew, g_exchNew)
    BY <1>1 DEF Continues
  <2> HIDE DEF list
  <2> QED BY <2>2, <2>4, <2>5 DEF Answers
<1> HIDE DEF list
<1>6. /\ ListTypes' /\ DialogTypes' /\ OffersOnDisk' /\ FreshInv'
      /\ dialog'[p].kind = "deleted"
  BY <1>3, <1>4, <1>5, SaveBeginsStep
<1>7. AddedInv'
  BY <1>3, <1>6 DEF AddedInv, SaveBegins
<1> QED BY <1>3, <1>6, <1>7 DEF ListInv, EditTypes, SaveBegins
-----------------------------------------------------------------------------
(* The exchange keeps it.                                                  *)

\* An editor that has entered nothing.
LEMMA FreshState == NewState \in EditState
BY DEF NewState, EditState

\* A backpack without items.
LEMMA EmptyBackpack == Backpack([i \in Items |-> 0])
<1>1. Held([i \in Items |-> 0]) = {}
  BY DEF Held
<1>2. Cardinality({}) = 0
  BY FS_EmptySet
<1>3. Cap \in Nat /\ Slots \in Nat
  BY ExchangeAssumption
<1>4. [i \in Items |-> 0] \in [Items -> 0..Cap]
  BY <1>3
<1>5. Cardinality(Held([i \in Items |-> 0])) <= Slots
  BY <1>1, <1>2, <1>3
<1> QED BY <1>4, <1>5 DEF Backpack

\* Commands::exchangenew and the editor's page: p's page number is new.
LEMMA EditorStep ==
    ASSUME IndInv, Idle, NEW p \in Peers, NEW kind \in {"get", "set"}, NEW st \in EditState,
           g_exchNewState' = [g_exchNewState EXCEPT ![p] = st],
           ShowPage(p, kind, st.page), UNCHANGED <<file, now, saving, crashes>>
    PROVE  ListInv' /\ EditTypes'
<1>1. ListInv /\ EditTypes
  BY DEF IndInv, ListInv
<1>2. st.page \in Nat \ {0}
  BY DEF EditState
<1>3. ListInv'
  BY <1>1, <1>2, PageStep
<1>4. EditTypes'
  BY <1>1 DEF EditTypes
<1> QED BY <1>3, <1>4

\* The pages that turning leads to.
LEMMA Turned ==
    ASSUME IndInv, NEW p \in Peers, NEW pg \in {PageBefore(p), PageAfter(p)}
    PROVE  pg \in Nat \ {0}
<1> DEFINE old == g_exchNewState[p].page
           last == LastPage(Len(Offers))
<1>1. old \in Nat \ {0}
  BY EditStates DEF IndInv
<1>2. last \in Nat \ {0}
  <2>1. Offers \in Seq(Offer)
    BY PruneType DEF IndInv, ListTypes, Offers
  <2> QED BY <2>1, LastPageType
<1>3. PageBefore(p) = (IF old > 1 THEN old - 1 ELSE old)
      /\ PageAfter(p) = (IF old + 1 > last THEN last ELSE old + 1)
  BY DEF PageBefore, PageAfter
<1> HIDE DEF old, last
<1> QED BY <1>1, <1>2, <1>3

\* The state of an editor with another page, or with another stack, is one.
LEMMA EditWith ==
    ASSUME NEW st \in EditState
    PROVE  /\ \A pg \in Nat \ {0} : [st EXCEPT !.page = pg] \in EditState
                                    /\ [st EXCEPT !.page = pg].page = pg
           /\ \A s \in InStacks \cup {NoStack} : [st EXCEPT !.in = s] \in EditState
           /\ \A s \in OutStacks \cup {NoStack}, d \in Durations \cup {0} :
                [st EXCEPT !.out = s, !.dur = d] \in EditState
BY DEF EditState

\* An editor or a customer is shown a page; backpacks are left alone.
LEMMA PagesInductive ==
    ASSUME IndInv, NEW p \in Peers,
           \/ \E pg \in 1..MaxPage : CMD_EXCHANGENEW(p, pg) \/ CMD_SETEXCHANGENEW(p, pg)
           \/ exn_get_turn(p) \/ exn_set_turn(p) \/ exn_clear_in(p) \/ exn_clear_out(p)
           \/ \E s \in InStacks : exn_add_in_apply(p, s)
           \/ \E s \in OutStacks, d \in Durations : exn_add_out_apply(p, s, d)
           \/ exn_add_back(p)
           \/ exn_add_new(p) /\ (g_exchNewState[p].in = NoStack \/ g_exchNewState[p].out = NoStack)
    PROVE  ListInv' /\ EditTypes' /\ UNCHANGED inv
<1> DEFINE st == g_exchNewState[p]
<1>1. st \in EditState
  BY EditStates DEF IndInv
<1>2. ASSUME NEW kind \in {"get", "set"}, NEW t \in EditState, Idle,
             g_exchNewState' = [g_exchNewState EXCEPT ![p] = t],
             ShowPage(p, kind, t.page), UNCHANGED <<file, now, inv, saving, crashes>>
      PROVE  ListInv' /\ EditTypes' /\ UNCHANGED inv
  BY <1>2, EditorStep
<1>3. ASSUME NEW t \in EditState, Idle, EditorPage(p, t)
      PROVE  ListInv' /\ EditTypes' /\ UNCHANGED inv
  <2>1. /\ g_exchNewState' = [g_exchNewState EXCEPT ![p] = t]
        /\ ShowPage(p, "set", t.page) /\ UNCHANGED <<file, now, inv, saving, crashes>>
    BY <1>3 DEF EditorPage
  <2> QED BY <1>2, <1>3, <2>1
<1>4. ASSUME NEW pg \in Nat \ {0}
      PROVE  [st EXCEPT !.page = pg] \in EditState /\ [st EXCEPT !.page = pg].page = pg
  BY <1>1, EditWith
<1>5. ASSUME NEW pg \in Nat \ {0}, Idle, Commands_exchangenew(p, pg),
             UNCHANGED <<file, now, inv, saving, crashes>>
      PROVE  ListInv' /\ EditTypes' /\ UNCHANGED inv
  <2> DEFINE t == [st EXCEPT !.page = pg]
  <2>1. g_exchNewState' = [g_exchNewState EXCEPT ![p] = t] /\ ShowPage(p, "get", pg)
    BY <1>5 DEF Commands_exchangenew
  <2>2. t \in EditState /\ t.page = pg
    BY <1>4
  <2> HIDE DEF t
  <2> QED BY <1>2, <1>5, <2>1, <2>2
<1>6. ASSUME NEW pg \in 1..MaxPage PROVE pg \in Nat \ {0}
  BY ExchangeAssumption
<1>7. ASSUME NEW pg \in 1..MaxPage, CMD_EXCHANGENEW(p, pg)
      PROVE  ListInv' /\ EditTypes' /\ UNCHANGED inv
  BY <1>5, <1>6, <1>7 DEF CMD_EXCHANGENEW
<1>8. ASSUME NEW pg \in 1..MaxPage, CMD_SETEXCHANGENEW(p, pg)
      PROVE  ListInv' /\ EditTypes' /\ UNCHANGED inv
  <2>1. Idle /\ EditorPage(p, [st EXCEPT !.page = pg])
    BY <1>8 DEF CMD_SETEXCHANGENEW
  <2>2. [st EXCEPT !.page = pg] \in EditState
    BY <1>4, <1>6
  <2> QED BY <1>3, <2>1, <2>2
<1>9. CASE exn_get_turn(p)
  <2>1. PICK pg \in {PageBefore(p), PageAfter(p)} : Commands_exchangenew(p, pg)
    BY <1>9 DEF exn_get_turn
  <2>2. pg \in Nat \ {0}
    BY Turned
  <2>3. Idle /\ UNCHANGED <<file, now, inv, saving, crashes>>
    BY <1>9 DEF exn_get_turn, Sees
  <2> QED BY <1>5, <2>1, <2>2, <2>3
<1>10. CASE exn_set_turn(p)
  <2>1. PICK pg \in {PageBefore(p), PageAfter(p)} : EditorPage(p, [st EXCEPT !.page = pg])
    BY <1>10 DEF exn_set_turn
  <2>2. pg \in Nat \ {0}
    BY Turned
  <2>3. [st EXCEPT !.page = pg] \in EditState
    BY <1>4, <2>2
  <2>4. Idle
    BY <1>10 DEF exn_set_turn, Sees
  <2> QED BY <1>3, <2>1, <2>3, <2>4
<1>11. CASE exn_clear_in(p)
  <2>1. Idle /\ EditorPage(p, [st EXCEPT !.in = NoStack])
    BY <1>11 DEF exn_clear_in, Sees
  <2>2. [st EXCEPT !.in = NoStack] \in EditState
    BY <1>1, EditWith
  <2> QED BY <1>3, <2>1, <2>2
<1>12. CASE exn_clear_out(p)
  <2>1. Idle /\ EditorPage(p, [st EXCEPT !.out = NoStack, !.dur = 0])
    BY <1>12 DEF exn_clear_out, Sees
  <2>2. [st EXCEPT !.out = NoStack, !.dur = 0] \in EditState
    BY <1>1, EditWith
  <2> QED BY <1>3, <2>1, <2>2
<1>13. ASSUME NEW s \in InStacks, exn_add_in_apply(p, s)
       PROVE  ListInv' /\ EditTypes' /\ UNCHANGED inv
  <2>1. Idle /\ EditorPage(p, [st EXCEPT !.in = s])
    BY <1>13 DEF exn_add_in_apply, Sees
  <2>2. [st EXCEPT !.in = s] \in EditState
    BY <1>1, EditWith
  <2> QED BY <1>3, <2>1, <2>2
<1>14. ASSUME NEW s \in OutStacks, NEW d \in Durations, exn_add_out_apply(p, s, d)
       PROVE  ListInv' /\ EditTypes' /\ UNCHANGED inv
  <2>1. Idle /\ EditorPage(p, [st EXCEPT !.out = s, !.dur = d])
    BY <1>14 DEF exn_add_out_apply, Sees
  <2>2. [st EXCEPT !.out = s, !.dur = d] \in EditState
    BY <1>1, EditWith
  <2> QED BY <1>3, <2>1, <2>2
<1>15. CASE exn_add_back(p)
  BY <1>1, <1>3, <1>15 DEF exn_add_back, Sees
<1>16. CASE exn_add_new(p) /\ (st.in = NoStack \/ st.out = NoStack)
  <2>1. Idle /\ EditorPage(p, st)
    BY <1>16 DEF exn_add_new, Sees
  <2> QED BY <1>1, <1>3, <2>1
<1> QED BY <1>7, <1>8, <1>9, <1>10, <1>11, <1>12, <1>13, <1>14, <1>15, <1>16

\* The backpack of p changes to one that Modify admits.
LEMMA BackpackStep ==
    ASSUME BackpackTypes, NEW p \in Peers, NEW b, Backpack(b),
           inv' = [inv EXCEPT ![p] = b]
    PROVE  BackpackTypes'
<1>1. inv' = [q \in Peers |-> inv'[q]]
      /\ \A q \in Peers : inv'[q] = IF q = p THEN b ELSE inv[q]
  BY DEF BackpackTypes
<1> QED BY <1>1 DEF BackpackTypes

\* A customer takes the offer that has the button's index.
LEMMA GetStep ==
    ASSUME IndInv, NEW p \in Peers, NEW i \in 1..MaxOffers, exn_get(p, i)
    PROVE  IndInv'
<1> DEFINE st == g_exchNewState[p]
           t == [st EXCEPT !.page = st.page]
<1>1. ListInv /\ EditTypes /\ BackpackTypes /\ ListTypes
  BY DEF IndInv, ListInv
<1>2. Offers \in Seq(Offer) /\ i \in Nat \ {0}
  BY <1>1, PruneType, ExchangeAssumption DEF ListTypes, Offers
<1>3. st \in EditState /\ st.page \in Nat \ {0}
  BY <1>1, EditStates
<1>4. Idle /\ UNCHANGED <<file, now, saving, crashes>>
  BY DEF exn_get, Sees
<1>5. g_exchNewState' = [g_exchNewState EXCEPT ![p] = t] /\ ShowPage(p, "get", st.page)
  BY DEF exn_get, Commands_exchangenew
<1>6. t \in EditState /\ t.page = st.page
  BY <1>3, EditWith
<1> HIDE DEF t
<1>7. ListInv' /\ EditTypes'
  BY <1>4, <1>5, <1>6, EditorStep
<1>8. BackpackTypes'
  <2>1. CASE i <= Len(Offers) /\ exn_has_requirements(inv[p], Offers[i])
    <3>1. Offers[i] \in Offer /\ Backpack(inv[p])
      BY <1>1, <1>2, <2>1 DEF BackpackTypes
    <3>2. Backpack(exn_apply_exchange(inv[p], Offers[i]))
      BY <2>1, <3>1, ExchangeBackpack
    <3>3. inv' = [inv EXCEPT ![p] = exn_apply_exchange(inv[p], Offers[i])]
      BY <2>1 DEF exn_get
    <3> QED BY <1>1, <3>2, <3>3, BackpackStep
  <2>2. CASE ~(i <= Len(Offers) /\ exn_has_requirements(inv[p], Offers[i]))
    <3>1. inv' = inv
      BY <2>2 DEF exn_get
    <3> QED BY <1>1, <3>1 DEF BackpackTypes
  <2> QED BY <2>1, <2>2
<1> QED BY <1>7, <1>8 DEF IndInv, ListInv

\* The invariant is inductive.
LEMMA ExchangeInductive ==
    ASSUME IndInv, [Next]_vars
    PROVE  IndInv'
<1>t. ListInv /\ EditTypes /\ BackpackTypes
  BY DEF IndInv, ListInv
<1>f. ASSUME ListInv', EditTypes', UNCHANGED inv PROVE IndInv'
  <2>1. BackpackTypes'
    BY <1>t, <1>f DEF BackpackTypes
  <2> QED BY <1>f, <2>1 DEF IndInv, ListInv
<1>1. ASSUME NEW p \in Peers, NEW pg \in 1..MaxPage,
             CMD_EXCHANGENEW(p, pg) \/ CMD_SETEXCHANGENEW(p, pg)
      PROVE  IndInv'
  BY <1>1, <1>f, PagesInductive
<1>2. ASSUME NEW p \in Peers,
             \/ exn_get_turn(p) \/ exn_set_turn(p) \/ exn_clear_in(p) \/ exn_clear_out(p)
             \/ \E s \in InStacks : exn_add_in_apply(p, s)
             \/ \E s \in OutStacks, d \in Durations : exn_add_out_apply(p, s, d)
             \/ exn_add_back(p)
      PROVE  IndInv'
  BY <1>2, <1>f, PagesInductive
<1>3. ASSUME NEW p \in Peers, NEW i \in 1..MaxOffers, exn_get(p, i) PROVE IndInv'
  BY <1>3, GetStep
<1>4. ASSUME NEW p \in Peers, NEW i \in 1..MaxOffers, exn_del(p, i) PROVE IndInv'
  BY <1>4, <1>t, <1>f, DelStep
<1>5. ASSUME NEW p \in Peers, NEW i \in Items, Collect(p, i) PROVE IndInv'
  <2> DEFINE s == [id |-> i, amt |-> 1]
  <2>1. /\ Idle /\ Fits(inv[p], s) /\ inv' = [inv EXCEPT ![p][i] = @ + 1]
        /\ UNCHANGED <<g_exchNew, g_exchNewState, file, now, dialog, saving, crashes>>
    BY <1>5 DEF Collect
  <2>2. s \in Stack /\ s.id = i /\ s.amt = 1
    BY DEF Stack
  <2>3. inv' = [inv EXCEPT ![p] = [inv[p] EXCEPT ![s.id] = @ + s.amt]]
    BY <2>1, <2>2
  <2> HIDE DEF s
  <2>4. Backpack([inv[p] EXCEPT ![s.id] = @ + s.amt])
    BY <1>t, <2>1, <2>2, AddStack DEF BackpackTypes
  <2>5. BackpackTypes'
    BY <1>t, <2>3, <2>4, BackpackStep
  <2>6. ListInv' /\ EditTypes'
    BY <1>t, <2>1 DEF ListInv, EditTypes, ListTypes, DialogTypes, OffersOnDisk, Idle, exn_load,
          exn_prune_expired, Offers, FreshInv, AddedInv
  <2> QED BY <2>5, <2>6 DEF IndInv, ListInv
<1>6. ASSUME NEW p \in Peers, NEW kind \in {"in", "out"}, add_exc(p, kind) PROVE IndInv'
  <2> DEFINE d == [Closed EXCEPT !.kind = kind]
  <2>1. /\ Idle /\ dialog' = [dialog EXCEPT ![p] = d]
        /\ UNCHANGED <<g_exchNew, g_exchNewState, file, now, inv, saving, crashes>>
    BY <1>6 DEF add_exc, Sees
  <2>2. DialogOK(d) /\ DOMAIN d.shown = {}
    <3>1. kind \in Kinds
      BY DEF Kinds
    <3> QED BY <3>1, EntryDialog
  <2> HIDE DEF d
  <2>3. ListInv'
    BY <1>t, <2>1, <2>2, DialogStep
  <2>4. EditTypes'
    BY <1>t, <2>1 DEF EditTypes
  <2> QED BY <1>f, <2>1, <2>3, <2>4
<1>7. ASSUME NEW p \in Peers, exn_add_new(p) PROVE IndInv'
  <2>1. CASE g_exchNewState[p].in = NoStack \/ g_exchNewState[p].out = NoStack
    BY <1>7, <1>f, <2>1, PagesInductive
  <2>2. CASE ~(g_exchNewState[p].in = NoStack \/ g_exchNewState[p].out = NoStack)
    BY <1>7, <1>t, <1>f, <2>2, AddStep
  <2> QED BY <2>1, <2>2
<1>8. ASSUME NEW p \in Peers, exn_save(p) PROVE IndInv'
  <2>1. ListInv'
    BY <1>8, <1>t, SaveStep
  <2>2. EditTypes' /\ UNCHANGED inv
    BY <1>8, <1>t DEF exn_save, EditTypes
  <2> QED BY <1>f, <2>1, <2>2
<1>9. ASSUME NEW p \in Peers, Reconnect(p) PROVE IndInv'
  <2> DEFINE b == [i \in Items |-> 0]
  <2>1. /\ Idle /\ dialog' = [dialog EXCEPT ![p] = Closed] /\ inv' = [inv EXCEPT ![p] = b]
        /\ UNCHANGED <<g_exchNew, g_exchNewState, file, now, saving, crashes>>
    BY <1>9 DEF Reconnect
  <2>2. Backpack(b)
    BY EmptyBackpack
  <2> HIDE DEF b
  <2>3. BackpackTypes'
    BY <1>t, <2>1, <2>2, BackpackStep
  <2>4. DialogOK(Closed) /\ DOMAIN Closed.shown = {}
    BY EntryDialog DEF Kinds
  <2>5. ListInv'
    BY <1>t, <2>1, <2>4, DialogStep
  <2>6. EditTypes'
    BY <1>t, <2>1 DEF EditTypes
  <2> QED BY <2>3, <2>5, <2>6 DEF IndInv, ListInv
<1>10. CASE Tick
  <2>1. ListInv'
    BY <1>t, <1>10, TickStep
  <2>2. EditTypes' /\ UNCHANGED inv
    BY <1>t, <1>10 DEF Tick, EditTypes
  <2> QED BY <1>f, <2>1, <2>2
<1>11. CASE Crash
  <2>1. ListInv'
    BY <1>t, <1>11, CrashStep
  <2>2. g_exchNewState' = [p \in Peers |-> NewState] /\ UNCHANGED inv
    BY <1>11 DEF Crash
  <2>3. EditTypes'
    BY <2>2, FreshState DEF EditTypes
  <2> QED BY <1>f, <2>1, <2>2, <2>3
<1>12. CASE UNCHANGED vars
  BY <1>t, <1>f, <1>12 DEF vars, ListInv, EditTypes, ListTypes, DialogTypes, OffersOnDisk, Idle,
        exn_load, exn_prune_expired, Offers, FreshInv, AddedInv
<1> QED
  BY <1>1, <1>2, <1>3, <1>4, <1>5, <1>6, <1>7, <1>8, <1>9, <1>10, <1>11, <1>12 DEF Next

\* The inductive invariant holds in every reachable state.
THEOREM ExchangeInvariant == Spec => []IndInv
<1>1. Init => IndInv
  <2> SUFFICES ASSUME Init PROVE IndInv
    OBVIOUS
  <2>1. ListTypes
    BY DEF Init, ListTypes
  <2>2. EditTypes
    BY FreshState DEF Init, EditTypes
  <2>3. BackpackTypes
    BY EmptyBackpack DEF Init, BackpackTypes
  <2>4. DialogOK(Closed) /\ DOMAIN Closed.shown = {}
    BY EntryDialog DEF Kinds
  <2>5. DialogTypes /\ FreshInv
    BY <2>4 DEF Init, DialogTypes, FreshInv, Stands
  <2>6. OffersOnDisk
    BY PruneEmpty DEF Init, OffersOnDisk, exn_load, Offers
  <2>7. AddedInv
    BY ExchangeAssumption DEF Init, AddedInv
  <2> QED BY <2>1, <2>2, <2>3, <2>5, <2>6, <2>7 DEF IndInv
<1>2. IndInv /\ [Next]_vars => IndInv'
  BY ExchangeInductive
<1> QED BY <1>1, <1>2, PTL DEF Spec

\* The variables have their types and no backpack holds more than Modify
\* admits, although exn_apply_exchange pays before it looks whether the reward
\* fits.
THEOREM ExchangeTypes == Spec => []TypeOK
<1>1. IndInv => TypeOK
  <2> SUFFICES ASSUME IndInv PROVE TypeOK
    OBVIOUS
  <2>1. inv \in [Peers -> [Items -> 0..Cap]]
    <3>1. inv = [p \in Peers |-> inv[p]] /\ \A p \in Peers : inv[p] \in [Items -> 0..Cap]
      BY DEF IndInv, BackpackTypes, Backpack
    <3> QED BY <3>1
  <2>2. \A p \in Peers : Cardinality({i \in Items : inv[p][i] > 0}) <= Slots
    BY DEF IndInv, BackpackTypes, Backpack, Held
  <2>3. \A p \in Peers :
          /\ dialog[p].kind \in Kinds
          /\ \A i \in DOMAIN dialog[p].shown : dialog[p].shown[i] \in Offer
    BY DEF IndInv, DialogTypes, DialogOK
  <2>4. ListTypes /\ EditTypes
    BY DEF IndInv
  <2> QED BY <2>1, <2>2, <2>3, <2>4 DEF TypeOK, ListTypes, EditTypes, Kinds
<1> QED BY <1>1, ExchangeInvariant, PTL

\* Between two handlers a restart would bring back exactly the offers that can
\* be taken, whatever was added, erased or expired and wherever the process
\* ended before.
THEOREM OffersOnDiskCorrect == Spec => []OffersOnDisk
<1>1. IndInv => OffersOnDisk
  BY DEF IndInv
<1> QED BY <1>1, ExchangeInvariant, PTL

\* A button of a page from which nothing has been removed since it was built
\* exchanges what it showed, although it sends only an index.
THEOREM FreshDealCorrect == Spec => FreshDeal
<1> DEFINE Deal == \A p \in Peers : \A i \in DOMAIN dialog[p].shown :
          exn_get(p, i) /\ dialog[p].fresh /\ Offers = g_exchNew =>
              inv'[p] = IF exn_has_requirements(inv[p], dialog[p].shown[i])
                        THEN exn_apply_exchange(inv[p], dialog[p].shown[i]) ELSE inv[p]
<1>1. IndInv /\ [Next]_vars => [Deal]_vars
  <2> SUFFICES ASSUME IndInv, NEW p \in Peers, NEW i \in DOMAIN dialog[p].shown,
                      exn_get(p, i), dialog[p].fresh, Offers = g_exchNew
               PROVE  inv'[p] = IF exn_has_requirements(inv[p], dialog[p].shown[i])
                                THEN exn_apply_exchange(inv[p], dialog[p].shown[i]) ELSE inv[p]
    OBVIOUS
  <2>1. Stands(dialog[p], g_exchNew) /\ g_exchNew \in Seq(Offer)
    BY DEF IndInv, FreshInv, ListTypes
  <2>2. i \in 1..Len(Offers) /\ dialog[p].shown[i] = Offers[i]
    BY <2>1 DEF Stands
  <2>3. i <= Len(Offers)
    BY <2>1, <2>2
  <2>4. inv' = IF exn_has_requirements(inv[p], Offers[i])
               THEN [inv EXCEPT ![p] = exn_apply_exchange(@, Offers[i])] ELSE inv
    BY <2>3 DEF exn_get
  <2>5. inv = [q \in Peers |-> inv[q]]
    BY DEF IndInv, BackpackTypes
  <2> QED BY <2>2, <2>4, <2>5
<1> QED BY <1>1, ExchangeInvariant, PTL DEF Spec, FreshDeal

\* The page that answers exn_add_new shows the offer that was added.
THEOREM AddedIsShownCorrect == Spec => AddedIsShown
<1> DEFINE Shown == \A p \in Peers : exn_save(p) /\ dialog[p].kind = "added" =>
          \E i \in DOMAIN dialog'[p].shown :
              i = Len(g_exchNew') /\ dialog'[p].shown[i] = g_exchNew'[i]
<1>1. IndInv /\ [Next]_vars => [Shown]_vars
  <2> SUFFICES ASSUME IndInv, NEW p \in Peers, exn_save(p), dialog[p].kind = "added"
               PROVE  \E i \in DOMAIN dialog'[p].shown :
                          i = Len(g_exchNew') /\ dialog'[p].shown[i] = g_exchNew'[i]
    OBVIOUS
  <2> DEFINE B == Buttons(Len(Offers), g_exchNewState[p].page)
  <2>1. Offers = g_exchNew /\ Len(Offers) \in B
    BY DEF IndInv, AddedInv, exn_save
  <2>2. g_exchNew' = Offers /\ dialog'[p].shown = [i \in B |-> Offers[i]]
    BY SaveStep DEF IndInv, ListInv
  <2> HIDE DEF B
  <2>3. DOMAIN dialog'[p].shown = B /\ dialog'[p].shown[Len(Offers)] = Offers[Len(Offers)]
    BY <2>1, <2>2
  <2> QED BY <2>1, <2>2, <2>3
<1> QED BY <1>1, ExchangeInvariant, PTL DEF Spec, AddedIsShown
=============================================================================
