----------------------------- MODULE TradeProofs -----------------------------
(***************************************************************************)
(* Trades: types, no item is made or lost, and what two players who stay   *)
(* in the world have confirmed is what is executed.                        *)
(***************************************************************************)
EXTENDS Trade, Lemmas

Backpacks == {I \in [Players -> Counts] : \A p \in Players : Get_Slots(I, p) >= 0}

\* Room for all the kinds of o, whatever else is in the backpack of q.
Room(I, q, o) ==
    /\ Cardinality(Kinds(I[q]) \cup Kinds(o)) <= Slots[q]
    /\ \A i \in Kinds(o) : I[q][i] + o[i] <= Cap
-----------------------------------------------------------------------------
(* The backpack.                                                           *)

\* The kinds of items in a backpack are finitely many.
LEMMA KindsFinite ==
    ASSUME NEW o
    PROVE  IsFiniteSet(Kinds(o)) /\ Cardinality(Kinds(o)) \in Nat
BY TradeAssumption, FS_Subset, FS_CardinalityType DEF Kinds

\* An offer without counts below zero is one.
LEMMA CountsAreOffers == Counts \subseteq Offers
BY TradeAssumption DEF Counts, Offers

\* Inventory::Modify keeps within the limits on counts and slots.
LEMMA ModifyType ==
    ASSUME NEW I \in Backpacks, NEW p \in Players, NEW i \in Items, NEW n \in Int
    PROVE  Modify(I, p, i, n) \in Backpacks
<1>1. CASE ~Fits(I, p, i, n)
  BY <1>1 DEF Modify
<1>2. CASE Fits(I, p, i, n)
  <2> DEFINE J == [I EXCEPT ![p][i] = @ + n]
             c == [I[p] EXCEPT ![i] = @ + n]
  <2>1. Cap \in Nat /\ Slots[p] \in Nat /\ I \in [Players -> Counts] /\ I[p] \in [Items -> 0..Cap]
    BY TradeAssumption DEF Backpacks, Counts
  <2>2. I[p][i] + n \in 0..Cap
    BY <1>2, <2>1 DEF Fits
  <2>3. c \in Counts
    BY <2>1, <2>2 DEF Counts
  <2>4. J = [I EXCEPT ![p] = c]
    BY <2>1
  <2> DEFINE a == Cardinality(Kinds(I[p]))
             b == Cardinality(Kinds(c))
  <2>5. a \in Nat /\ b \in Nat /\ IsFiniteSet(Kinds(I[p]))
    BY KindsFinite
  <2>6. Slots[p] - a >= 0
    BY DEF Backpacks, Get_Slots
  <2>7. Slots[p] - b >= 0
    <3>1. CASE I[p][i] > 0
      <4>1. Kinds(c) \subseteq Kinds(I[p])
        BY <2>1, <3>1 DEF Kinds
      <4>2. b <= a
        BY <2>5, <4>1, FS_Subset
      <4> QED BY <2>1, <2>5, <2>6, <4>2
    <3>2. CASE ~(I[p][i] > 0)
      <4>1. Slots[p] - a > 0 /\ n > 0
        BY <1>2, <3>2 DEF Fits, Get_Slots
      <4>2. Kinds(c) = Kinds(I[p]) \cup {i}
        BY <2>1, <2>2, <3>2, <4>1 DEF Kinds
      <4>3. i \notin Kinds(I[p])
        BY <2>1, <3>2 DEF Kinds
      <4>4. b = a + 1
        BY <2>5, <4>2, <4>3, FS_AddElement
      <4> QED BY <2>1, <2>5, <4>1, <4>4
    <3> QED BY <3>1, <3>2
  <2> HIDE DEF c
  <2>8. J \in [Players -> Counts] /\ J[p] = c /\ \A q \in Players \ {p} : J[q] = I[q]
    BY <2>1, <2>3, <2>4
  <2> HIDE DEF J
  <2>9. ASSUME NEW q \in Players PROVE Get_Slots(J, q) >= 0
    BY <2>7, <2>8 DEF Backpacks, Get_Slots
  <2>10. J \in Backpacks
    BY <2>8, <2>9 DEF Backpacks
  <2> QED BY <1>2, <2>10 DEF Modify, J
<1> QED BY <1>1, <1>2

\* trade_space_check looks for a slot for every kind that is not yet there,
\* and so makes room for the offer as a whole.
LEMMA SpaceIsRoom ==
    ASSUME inv \in Backpacks, NEW p \in Players, NEW o \in Counts, trade_space_check(p, o)
    PROVE  Room(inv, p, o)
<1> DEFINE K == Kinds(inv[p])
           N == {i \in Kinds(o) : inv[p][i] = 0}
<1>1. Cap \in Nat /\ Slots[p] \in Nat /\ inv[p] \in [Items -> 0..Cap] /\ o \in [Items -> 0..Cap]
  BY TradeAssumption DEF Backpacks, Counts
<1>2. IsFiniteSet(K) /\ Cardinality(K) \in Nat
  BY KindsFinite
<1>3. IsFiniteSet(N) /\ Cardinality(N) \in Nat
  <2>1. N \in SUBSET Kinds(o)
    OBVIOUS
  <2> QED BY <2>1, KindsFinite, FS_Subset, FS_CardinalityType
<1>4. Slots[p] - Cardinality(K) >= Cardinality(N)
  BY DEF trade_space_check, Get_Slots
<1>5. K \cup Kinds(o) = K \cup N
  BY <1>1 DEF Kinds
<1>6. K \cap N = {}
  BY <1>1 DEF Kinds
<1>7. Cardinality(K \cup N) = Cardinality(K) + Cardinality(N) - Cardinality(K \cap N)
  BY <1>2, <1>3, FS_Union
<1>8. Cardinality(K \cap N) = 0
  BY <1>6, FS_EmptySet
<1>9. Cardinality(K \cup Kinds(o)) <= Slots[p]
  <2>1. Cardinality(K \cup Kinds(o)) = Cardinality(K) + Cardinality(N) - 0
    BY <1>5, <1>7, <1>8
  <2> HIDE DEF K, N
  <2> QED BY <1>1, <1>2, <1>3, <1>4, <2>1
<1>10. ASSUME NEW i \in Kinds(o) PROVE inv[p][i] + o[i] <= Cap
  <2>1. i \in Items /\ inv[p][i] \in 0..Cap /\ o[i] \in 0..Cap
    BY <1>1 DEF Kinds
  <2>2. inv[p][i] > 0 => inv[p][i] + o[i] <= Cap
    BY DEF trade_space_check
  <2> QED BY <1>1, <2>1, <2>2
<1> QED BY <1>9, <1>10 DEF Room
-----------------------------------------------------------------------------
(* The delivery of an offer.                                               *)

\* One kind of the offer moves from p to q.
Move(J, p, q, o, i) ==
    IF Fits(J, p, i, -o[i]) THEN Modify(Modify(J, p, i, -o[i]), q, i, o[i]) ELSE J

\* F[s] are the backpacks when the kinds in s have moved.
Moves(F, I, p, q, o) ==
    /\ F \in [SUBSET Kinds(o) -> Backpacks]
    /\ F[{}] = I
    /\ \A s \in SUBSET Kinds(o) :
          s # {} => F[s] = Move(F[s \ {Picked(s)}], p, q, o, Picked(s))

\* A move keeps within the limits.
LEMMA MoveType ==
    ASSUME NEW J \in Backpacks, NEW p \in Players, NEW q \in Players, NEW o \in Offers,
           NEW i \in Items
    PROVE  Move(J, p, q, o, i) \in Backpacks
<1>1. o[i] \in Int /\ -o[i] \in Int
  BY DEF Offers
<1>2. Modify(J, p, i, -o[i]) \in Backpacks
  BY <1>1, ModifyType
<1>3. Modify(Modify(J, p, i, -o[i]), q, i, o[i]) \in Backpacks
  BY <1>1, <1>2, ModifyType
<1> QED BY <1>3 DEF Move

\* trade_confirm delivers the offer kind by kind.
LEMMA DeliverMoves ==
    ASSUME NEW I \in Backpacks, NEW p \in Players, NEW q \in Players, NEW o \in Offers
    PROVE  \E F : Moves(F, I, p, q, o) /\ Deliver(I, p, q, o) = F[Kinds(o)]
<1> DEFINE K == Kinds(o)
           g == [e \in K \X Backpacks |-> Move(e[2], p, q, o, e[1])]
           Def(F) == [s \in SUBSET K |->
                        IF s = {} THEN I
                        ELSE Move(F[s \ {Picked(s)}], p, q, o, Picked(s))]
           D == CHOOSE F : F = Def(F)
<1>1. IsFiniteSet(K) /\ K \subseteq Items
  BY KindsFinite DEF Kinds
<1>2. Deliver(I, p, q, o) = D[K]
  BY DEF Deliver, FoldSet, MapThenFoldSet, Move, Picked
<1> HIDE DEF D
<1>3. ASSUME NEW i \in K, NEW J \in Backpacks
      PROVE  g[<<i, J>>] = Move(J, p, q, o, i)
  OBVIOUS
<1>4. g \in [K \X Backpacks -> Backpacks]
  BY <1>1, MoveType
<1> HIDE DEF g, K
<1>5. PICK F : FoldFun(F, K, Backpacks, g, I)
  BY <1>1, <1>4, FoldExists
<1>6. ASSUME NEW s \in SUBSET K, s # {}
      PROVE  /\ Picked(s) \in s /\ Picked(s) \in K /\ s \ {Picked(s)} \in SUBSET K
             /\ F[s] = Move(F[s \ {Picked(s)}], p, q, o, Picked(s))
  <2>1. Picked(s) \in s /\ Picked(s) \in K /\ s \ {Picked(s)} \in SUBSET K
    BY <1>6 DEF Picked
  <2>2. F[s \ {Picked(s)}] \in Backpacks
    BY <1>5, <2>1 DEF FoldFun
  <2>3. F[s] = g[<<Picked(s), F[s \ {Picked(s)}]>>]
    BY <1>5, <1>6 DEF FoldFun
  <2> QED BY <1>3, <2>1, <2>2, <2>3
<1>7. Moves(F, I, p, q, o)
  BY <1>5, <1>6 DEF FoldFun, Moves, K
<1>8. F = Def(F)
  <2>1. F = [s \in SUBSET K |-> F[s]] /\ F[{}] = I
    BY <1>5 DEF FoldFun
  <2> QED BY <1>6, <2>1
<1> HIDE DEF Def
<1>9. D = Def(D)
  BY <1>8 DEF D
<1> DEFINE Bad == {s \in SUBSET K : D[s] # F[s]}
<1>10. ASSUME Bad # {} PROVE FALSE
  <2>1. PICK s \in Bad : \A x \in s : s \ {x} \notin Bad
    BY <1>1, <1>10, LeastSet
  <2>2. s \in SUBSET K /\ D[s] # F[s] /\ D[s] = Def(D)[s] /\ F[s] = Def(F)[s]
    BY <1>8, <1>9, <2>1
  <2>3. s # {}
    BY <2>2 DEF Def
  <2>4. D[s \ {Picked(s)}] = F[s \ {Picked(s)}]
    BY <1>6, <2>1, <2>2, <2>3
  <2> QED BY <2>2, <2>3, <2>4 DEF Def
<1>11. D[K] = F[K]
  BY <1>10
<1> QED BY <1>2, <1>7, <1>11 DEF K

\* Whatever the counts, the backpacks keep their limits.
LEMMA DeliverType ==
    ASSUME NEW I \in Backpacks, NEW p \in Players, NEW q \in Players, NEW o \in Offers
    PROVE  Deliver(I, p, q, o) \in Backpacks
<1>1. PICK F : Moves(F, I, p, q, o) /\ Deliver(I, p, q, o) = F[Kinds(o)]
  BY DeliverMoves
<1>2. F[Kinds(o)] \in Backpacks
  BY <1>1 DEF Moves
<1> QED BY <1>1, <1>2

\* J is I except that p has n more of i.
Plus(J, I, p, i, n) ==
    /\ J[p][i] = I[p][i] + n
    /\ \A j \in Items \ {i} : J[p][j] = I[p][j]
    /\ \A r \in Players \ {p} : J[r] = I[r]

\* What Modify does when it returns 0.
LEMMA ModifyIs ==
    ASSUME NEW I \in Backpacks, NEW p \in Players, NEW i \in Items, NEW n \in Int,
           Fits(I, p, i, n)
    PROVE  Plus(Modify(I, p, i, n), I, p, i, n)
<1>1. I \in [Players -> [Items -> 0..Cap]]
  BY DEF Backpacks, Counts
<1> QED BY <1>1 DEF Modify, Plus

\* Of the offer o, the kinds in s have moved from p to q, or stayed where they
\* were because p does not have them any more.
Moved(J, I, p, q, o, s) ==
    /\ \A i \in s : o[i] <= I[p][i] => J[p][i] = I[p][i] - o[i]
    /\ \A r \in Players \ {p, q} : J[r] = I[r]
    /\ \A i \in Items \ s : J[p][i] = I[p][i] /\ J[q][i] = I[q][i]
    /\ \A i \in Items : J[p][i] <= I[p][i] /\ J[p][i] + J[q][i] = I[p][i] + I[q][i]
    /\ Kinds(J[q]) \subseteq Kinds(I[q]) \cup s

\* Moving one kind more.
LEMMA MoveOne ==
    ASSUME NEW I \in Backpacks, NEW J \in Backpacks, NEW p \in Players, NEW q \in Players, p # q,
           NEW o \in Counts, Room(I, q, o), NEW s \in SUBSET Kinds(o), NEW x \in s,
           Moved(J, I, p, q, o, s \ {x})
    PROVE  Moved(Move(J, p, q, o, x), I, p, q, o, s)
<1>1. /\ Cap \in Nat /\ Slots[q] \in Nat /\ x \in Items /\ x \in Kinds(o)
      /\ I \in [Players -> [Items -> 0..Cap]] /\ J \in [Players -> [Items -> 0..Cap]]
      /\ o[x] \in 1..Cap
  BY TradeAssumption DEF Backpacks, Counts, Kinds
<1>2. J[p][x] = I[p][x] /\ J[q][x] = I[q][x]
  BY <1>1 DEF Moved
<1>3. CASE ~Fits(J, p, x, -o[x])
  <2>1. Move(J, p, q, o, x) = J
    BY <1>3 DEF Move
  <2>2. ~(o[x] <= I[p][x])
    BY <1>1, <1>2, <1>3 DEF Fits
  <2>3. Moved(J, I, p, q, o, s)
    BY <2>2 DEF Moved
  <2> QED BY <2>1, <2>3
<1>4. CASE Fits(J, p, x, -o[x])
  <2> DEFINE H == Modify(J, p, x, -o[x])
             G == Modify(H, q, x, o[x])
  <2>1. -o[x] \in Int /\ o[x] \in Int
    BY <1>1
  <2>2. H \in Backpacks /\ Plus(H, J, p, x, -o[x])
    BY <1>1, <1>4, <2>1, ModifyType, ModifyIs
  <2>3. Move(J, p, q, o, x) = G
    BY <1>4 DEF Move
  <2> HIDE DEF H
  <2>4. H[q] = J[q] /\ H[q][x] = I[q][x]
    BY <1>2, <2>2 DEF Plus
  <2>5. I[q][x] + o[x] <= Cap
    BY <1>1 DEF Room
  <2>6. Fits(H, q, x, o[x])
    <3>1. CASE H[q][x] > 0
      BY <1>1, <2>4, <2>5, <3>1 DEF Fits
    <3>2. CASE ~(H[q][x] > 0)
      <4> DEFINE K == Kinds(J[q])
                 U == Kinds(I[q]) \cup Kinds(o)
      <4>1. x \notin K
        BY <1>1, <2>4, <3>2 DEF Kinds
      <4>2. K \cup {x} \in SUBSET U
        BY <1>1 DEF Moved
      <4>3. IsFiniteSet(K) /\ Cardinality(K) \in Nat
        BY KindsFinite
      <4>4. IsFiniteSet(U) /\ Cardinality(U) \in Nat
        BY KindsFinite, FS_Union, FS_CardinalityType
      <4>5. Cardinality(K \cup {x}) = Cardinality(K) + 1
        BY <4>1, <4>3, FS_AddElement
      <4>6. Cardinality(K \cup {x}) <= Cardinality(U)
        BY <4>2, <4>4, FS_Subset
      <4>7. Cardinality(U) <= Slots[q]
        BY DEF Room
      <4>8. Get_Slots(H, q) = Slots[q] - Cardinality(K)
        BY <2>4 DEF Get_Slots
      <4> HIDE DEF K, U
      <4>9. Get_Slots(H, q) > 0
        BY <1>1, <4>3, <4>4, <4>5, <4>6, <4>7, <4>8
      <4> QED BY <1>1, <3>2, <4>9 DEF Fits
    <3> QED BY <3>1, <3>2
  <2>7. G \in Backpacks /\ Plus(G, H, q, x, o[x])
    BY <1>1, <2>1, <2>2, <2>6, ModifyType, ModifyIs
  <2> HIDE DEF G
  <2>8. /\ G[p] = H[p] /\ \A r \in Players \ {p, q} : G[r] = J[r]
        /\ G[p][x] = J[p][x] - o[x] /\ G[q][x] = J[q][x] + o[x]
        /\ \A j \in Items \ {x} : G[p][j] = J[p][j] /\ G[q][j] = J[q][j]
    <3>1. G[p] = H[p] /\ \A r \in Players \ {p, q} : G[r] = H[r] /\ H[r] = J[r]
      BY <2>2, <2>7 DEF Plus
    <3>2. H[p][x] = J[p][x] + (-o[x]) /\ G[q][x] = H[q][x] + o[x]
      BY <2>2, <2>7 DEF Plus
    <3>3. \A j \in Items \ {x} : H[p][j] = J[p][j] /\ G[q][j] = H[q][j]
      BY <2>2, <2>7 DEF Plus
    <3>4. J[p][x] + (-o[x]) = J[p][x] - o[x]
      BY <1>1
    <3> QED BY <2>4, <3>1, <3>2, <3>3, <3>4
  <2>9. \A r \in Players \ {p, q} : G[r] = I[r]
    BY <2>8 DEF Moved
  <2>10. \A i \in Items \ s : G[p][i] = I[p][i] /\ G[q][i] = I[q][i]
    BY <2>8 DEF Moved
  <2>11. ASSUME NEW i \in Items
         PROVE  G[p][i] <= I[p][i] /\ G[p][i] + G[q][i] = I[p][i] + I[q][i]
    <3>1. CASE i = x
      BY <1>1, <1>2, <2>8, <3>1
    <3>2. CASE i # x
      BY <2>8, <3>2 DEF Moved
    <3> QED BY <3>1, <3>2
  <2>12. Kinds(G[q]) \subseteq Kinds(I[q]) \cup s
    <3>1. Kinds(G[q]) \subseteq Kinds(J[q]) \cup {x}
      BY <2>8 DEF Kinds
    <3> QED BY <3>1 DEF Moved
  <2>13. \A i \in s : o[i] <= I[p][i] => G[p][i] = I[p][i] - o[i]
    <3> SUFFICES ASSUME NEW i \in s, o[i] <= I[p][i] PROVE G[p][i] = I[p][i] - o[i]
      OBVIOUS
    <3>1. CASE i = x
      BY <1>2, <2>8, <3>1
    <3>2. CASE i # x
      <4>1. i \in Items
        BY DEF Kinds
      <4> QED BY <2>8, <3>2, <4>1 DEF Moved
    <3> QED BY <3>1, <3>2
  <2> QED BY <2>3, <2>9, <2>10, <2>11, <2>12, <2>13 DEF Moved
<1> QED BY <1>3, <1>4

\* An offer for which there is room moves without loss.
LEMMA Delivered ==
    ASSUME NEW I \in Backpacks, NEW p \in Players, NEW q \in Players, p # q,
           NEW o \in Counts, Room(I, q, o)
    PROVE  /\ Deliver(I, p, q, o) \in Backpacks
           /\ Moved(Deliver(I, p, q, o), I, p, q, o, Kinds(o))
<1>1. PICK F : Moves(F, I, p, q, o) /\ Deliver(I, p, q, o) = F[Kinds(o)]
  BY CountsAreOffers, DeliverMoves
<1> DEFINE Bad == {s \in SUBSET Kinds(o) : ~Moved(F[s], I, p, q, o, s)}
<1>2. ASSUME Bad # {} PROVE FALSE
  <2>1. PICK s \in Bad : \A x \in s : s \ {x} \notin Bad
    BY <1>2, KindsFinite, LeastSet
  <2>2. s \in SUBSET Kinds(o) /\ ~Moved(F[s], I, p, q, o, s)
    BY <2>1
  <2>3. s # {}
    <3>1. Moved(I, I, p, q, o, {})
      BY TradeAssumption DEF Moved, Backpacks, Counts
    <3> QED BY <1>1, <2>2, <3>1 DEF Moves
  <2> DEFINE x == Picked(s)
  <2>4. x \in s /\ s \ {x} \in SUBSET Kinds(o)
    BY <2>2, <2>3 DEF Picked
  <2>5. Moved(F[s \ {x}], I, p, q, o, s \ {x}) /\ F[s \ {x}] \in Backpacks
    BY <1>1, <2>1, <2>4 DEF Moves
  <2>6. F[s] = Move(F[s \ {x}], p, q, o, x)
    BY <1>1, <2>2, <2>3 DEF Moves
  <2> HIDE DEF x
  <2>7. Moved(F[s], I, p, q, o, s)
    BY <2>2, <2>4, <2>5, <2>6, MoveOne
  <2> QED BY <2>2, <2>7
<1>3. Moved(F[Kinds(o)], I, p, q, o, Kinds(o)) /\ F[Kinds(o)] \in Backpacks
  BY <1>1, <1>2 DEF Moves
<1> QED BY <1>1, <1>3

\* A player that finds itself as its partner gives itself what it has.
LEMMA DeliveredToSelf ==
    ASSUME NEW I \in Backpacks, NEW p \in Players, NEW o \in Counts
    PROVE  Deliver(I, p, p, o) = I
<1>1. PICK F : Moves(F, I, p, p, o) /\ Deliver(I, p, p, o) = F[Kinds(o)]
  BY CountsAreOffers, DeliverMoves
<1>2. ASSUME NEW x \in Kinds(o) PROVE Move(I, p, p, o, x) = I
  <2>1. CASE ~Fits(I, p, x, -o[x])
    BY <2>1 DEF Move
  <2>2. CASE Fits(I, p, x, -o[x])
    <3> DEFINE H == Modify(I, p, x, -o[x])
               G == Modify(H, p, x, o[x])
    <3>1. /\ Cap \in Nat /\ Slots[p] \in Nat /\ x \in Items /\ o[x] \in 1..Cap
          /\ I \in [Players -> [Items -> 0..Cap]] /\ -o[x] \in Int /\ o[x] \in Int
      BY TradeAssumption DEF Backpacks, Counts, Kinds
    <3>2. H \in Backpacks /\ Plus(H, I, p, x, -o[x])
      BY <2>2, <3>1, ModifyType, ModifyIs
    <3>3. Move(I, p, p, o, x) = G
      BY <2>2 DEF Move
    <3> HIDE DEF H
    <3>4. H[p][x] = I[p][x] + (-o[x]) /\ I[p][x] > 0
      BY <2>2, <3>1, <3>2 DEF Plus, Fits
    <3>5. H[p][x] + o[x] = I[p][x]
      BY <3>1, <3>4
    <3>6. Fits(H, p, x, o[x])
      <4>1. CASE H[p][x] > 0
        BY <3>1, <3>5, <4>1 DEF Fits
      <4>2. CASE ~(H[p][x] > 0)
        <5>0. H[p][x] \in 0..Cap /\ \A j \in Items \ {x} : H[p][j] = I[p][j]
          BY <3>1, <3>2 DEF Backpacks, Counts, Plus
        <5>1. Kinds(I[p]) = Kinds(H[p]) \cup {x} /\ x \notin Kinds(H[p])
          BY <3>1, <3>4, <4>2, <5>0 DEF Kinds
        <5>2. Cardinality(Kinds(H[p])) \in Nat /\ IsFiniteSet(Kinds(H[p]))
          BY KindsFinite
        <5>3. Cardinality(Kinds(I[p])) = Cardinality(Kinds(H[p])) + 1
          BY <5>1, <5>2, FS_AddElement
        <5>4. Slots[p] - Cardinality(Kinds(I[p])) >= 0
          BY DEF Backpacks, Get_Slots
        <5>5. Get_Slots(H, p) > 0
          BY <3>1, <5>2, <5>3, <5>4 DEF Get_Slots
        <5> QED BY <3>1, <4>2, <5>5 DEF Fits
      <4> QED BY <4>1, <4>2
    <3>7. G \in Backpacks /\ Plus(G, H, p, x, o[x])
      BY <3>1, <3>2, <3>6, ModifyType, ModifyIs
    <3> HIDE DEF G
    <3>8. \A r \in Players \ {p} : G[r] = I[r]
      BY <3>2, <3>7 DEF Plus
    <3>9. \A j \in Items : G[p][j] = I[p][j]
      BY <3>2, <3>5, <3>7 DEF Plus
    <3>10. G \in [Players -> [Items -> 0..Cap]]
      BY <3>7 DEF Backpacks, Counts
    <3>11. G[p] = I[p]
      BY <3>1, <3>9, <3>10
    <3>12. G = I
      BY <3>1, <3>8, <3>10, <3>11
    <3> QED BY <3>3, <3>12
  <2> QED BY <2>1, <2>2
<1> DEFINE Bad == {s \in SUBSET Kinds(o) : F[s] # I}
<1>3. ASSUME Bad # {} PROVE FALSE
  <2>1. PICK s \in Bad : \A x \in s : s \ {x} \notin Bad
    BY <1>3, KindsFinite, LeastSet
  <2>2. s \in SUBSET Kinds(o) /\ F[s] # I /\ s # {}
    BY <1>1, <2>1 DEF Moves
  <2>3. Picked(s) \in s /\ s \ {Picked(s)} \in SUBSET Kinds(o)
    BY <2>2 DEF Picked
  <2>4. F[s \ {Picked(s)}] = I
    BY <2>1, <2>3
  <2>5. F[s] = Move(I, p, p, o, Picked(s))
    BY <1>1, <2>2, <2>4 DEF Moves
  <2> QED BY <1>2, <2>2, <2>3, <2>5
<1> QED BY <1>1, <1>3
-----------------------------------------------------------------------------
(* How many items there are.                                               *)

Owned(I, i) == MapThenSumSet(LAMBDA p : I[p][i], Players)
Column(I, i) == [p \in Players |-> I[p][i]]

\* The backpacks' counts of an item, and their sum.
LEMMA SumIs ==
    ASSUME NEW I \in Backpacks, NEW i \in Items
    PROVE  /\ Column(I, i) \in [Players -> Int]
           /\ \E F : SumFun(F, Players, Column(I, i)) /\ Owned(I, i) = F[Players]
<1> DEFINE f == Column(I, i)
           Def(F) == [s \in SUBSET Players |->
                        IF s = {} THEN 0 ELSE I[Picked(s)][i] + F[s \ {Picked(s)}]]
           D == CHOOSE F : F = Def(F)
<1>1. Owned(I, i) = D[Players]
  BY DEF Owned, MapThenSumSet, MapThenFoldSet, Picked
<1> HIDE DEF D
<1>2. f \in [Players -> Int] /\ \A p \in Players : f[p] = I[p][i]
  BY TradeAssumption DEF Backpacks, Counts, Column
<1>3. IsFiniteSet(Players)
  BY TradeAssumption
<1> HIDE DEF f
<1>4. PICK F : SumFun(F, Players, f)
  BY <1>2, <1>3, SumExists
<1>5. ASSUME NEW s \in SUBSET Players, s # {}
      PROVE  /\ Picked(s) \in s /\ s \ {Picked(s)} \in SUBSET Players
             /\ F[s] = I[Picked(s)][i] + F[s \ {Picked(s)}]
  <2>1. Picked(s) \in s /\ Picked(s) \in Players /\ s \ {Picked(s)} \in SUBSET Players
    BY <1>5 DEF Picked
  <2>2. F[s] = f[Picked(s)] + F[s \ {Picked(s)}]
    BY <1>4, <1>5 DEF SumFun
  <2> QED BY <1>2, <2>1, <2>2
<1>6. F = Def(F)
  <2>1. F = [s \in SUBSET Players |-> F[s]] /\ F[{}] = 0
    BY <1>4 DEF SumFun
  <2> QED BY <1>5, <2>1
<1> HIDE DEF Def
<1>7. D = Def(D)
  BY <1>6 DEF D
<1> DEFINE Bad == {s \in SUBSET Players : D[s] # F[s]}
<1>8. ASSUME Bad # {} PROVE FALSE
  <2>1. PICK s \in Bad : \A x \in s : s \ {x} \notin Bad
    BY <1>3, <1>8, LeastSet
  <2>2. s \in SUBSET Players /\ D[s] # F[s] /\ D[s] = Def(D)[s] /\ F[s] = Def(F)[s]
    BY <1>6, <1>7, <2>1
  <2>3. s # {}
    BY <2>2 DEF Def
  <2>4. D[s \ {Picked(s)}] = F[s \ {Picked(s)}]
    BY <1>5, <2>1, <2>2, <2>3
  <2> QED BY <2>2, <2>3, <2>4 DEF Def
<1>9. Owned(I, i) = F[Players]
  BY <1>1, <1>8
<1> QED BY <1>2, <1>4, <1>9 DEF f

\* One player gets n of an item.
LEMMA SumPlus ==
    ASSUME NEW I \in Backpacks, NEW J \in Backpacks, NEW p \in Players, NEW j \in Items,
           NEW n \in Int, Plus(J, I, p, j, n), NEW i \in Items
    PROVE  /\ Owned(I, i) \in Int
           /\ Owned(J, i) = Owned(I, i) + (IF i = j THEN n ELSE 0)
<1> DEFINE f == Column(I, i)
           h == Column(J, i)
<1>1. PICK F : SumFun(F, Players, f) /\ Owned(I, i) = F[Players]
  BY SumIs
<1>2. PICK H : SumFun(H, Players, h) /\ Owned(J, i) = H[Players]
  BY SumIs
<1>3. f \in [Players -> Int] /\ h \in [Players -> Int]
  BY SumIs
<1>4. (\A x \in Players \ {p} : f[x] = h[x]) /\ f[p] = I[p][i] /\ h[p] = J[p][i]
  BY DEF Plus, Column
<1> HIDE DEF f, h
<1>5. H[Players] = F[Players] - f[p] + h[p] /\ F[Players] \in Int
  BY <1>1, <1>2, <1>3, <1>4, TradeAssumption, SumChange
<1>6. h[p] = f[p] + (IF i = j THEN n ELSE 0) /\ f[p] \in Int
  <2>1. CASE i = j
    BY <1>3, <1>4, <2>1 DEF Plus
  <2>2. CASE i # j
    <3>1. h[p] = f[p]
      BY <1>4, <2>2 DEF Plus
    <3> QED BY <1>3, <2>2, <3>1
  <2> QED BY <2>1, <2>2
<1> QED BY <1>1, <1>2, <1>5, <1>6

\* Items change hands between p and q.
LEMMA SumMoved ==
    ASSUME NEW I \in Backpacks, NEW J \in Backpacks, NEW p \in Players, NEW q \in Players, p # q,
           NEW o, NEW s, Moved(J, I, p, q, o, s), NEW i \in Items
    PROVE  Owned(J, i) = Owned(I, i)
<1> DEFINE f == Column(I, i)
           h == Column(J, i)
           m == [f EXCEPT ![p] = h[p]]
<1>1. PICK F : SumFun(F, Players, f) /\ Owned(I, i) = F[Players]
  BY SumIs
<1>2. PICK H : SumFun(H, Players, h) /\ Owned(J, i) = H[Players]
  BY SumIs
<1>3. f \in [Players -> Int] /\ h \in [Players -> Int]
  BY SumIs
<1>4. /\ \A x \in Players \ {p, q} : f[x] = h[x]
      /\ f[p] + f[q] = h[p] + h[q]
  BY DEF Moved, Column
<1> HIDE DEF f, h
<1>5. m \in [Players -> Int] /\ m[p] = h[p] /\ m[q] = f[q] /\ \A x \in Players \ {p} : m[x] = f[x]
  BY <1>3
<1> HIDE DEF m
<1>6. IsFiniteSet(Players)
  BY TradeAssumption
<1>7. PICK M : SumFun(M, Players, m)
  BY <1>5, <1>6, SumExists
<1>8. M[Players] = F[Players] - f[p] + m[p] /\ F[Players] \in Int
  <2>1. \A x \in Players \ {p} : f[x] = m[x]
    BY <1>5
  <2> QED BY <1>1, <1>3, <1>5, <1>6, <1>7, <2>1, SumChange
<1>9. H[Players] = M[Players] - m[q] + h[q] /\ M[Players] \in Int
  <2>1. ASSUME NEW x \in Players \ {q} PROVE m[x] = h[x]
    BY <1>4, <1>5
  <2> QED BY <1>2, <1>3, <1>5, <1>6, <1>7, <2>1, SumChange
<1>10. f[p] \in Int /\ f[q] \in Int /\ h[p] \in Int /\ h[q] \in Int
  BY <1>3
<1>11. H[Players] = F[Players]
  BY <1>4, <1>5, <1>8, <1>9, <1>10
<1> QED BY <1>1, <1>2, <1>11

\* The second confirmation of a deal for which both have room, and without
\* counts below zero: no item is made or lost, and a deal that two players can
\* afford changes hands.
LEMMA ExecuteGoods ==
    ASSUME inv \in Backpacks, NEW p \in Players, NEW q \in Players,
           NEW o \in Counts, NEW r \in Counts,
           trade_space_check(p, r), trade_space_check(q, o),
           NEW J, J = Deliver(Deliver(inv, p, q, o), q, p, r)
    PROVE  /\ \A i \in Items : Owned(J, i) = Owned(inv, i)
           /\ /\ p # q
              /\ \A i \in Items : o[i] <= inv[p][i] /\ r[i] <= inv[q][i]
              => Exchanged(inv, J, p, q, o, r)
<1>1. CASE p = q
  <2>1. J = inv
    BY <1>1, DeliveredToSelf
  <2> QED BY <1>1, <2>1
<1>2. CASE p # q
  <2> DEFINE H == Deliver(inv, p, q, o)
  <2>1. Room(inv, p, r) /\ Room(inv, q, o)
    BY SpaceIsRoom
  <2>2. H \in Backpacks /\ Moved(H, inv, p, q, o, Kinds(o))
    BY <1>2, <2>1, Delivered
  <2> HIDE DEF H
  <2>3. Room(H, p, r)
    <3>1. /\ Cap \in Nat /\ Slots[p] \in Nat /\ r \in [Items -> 0..Cap]
          /\ H \in [Players -> [Items -> 0..Cap]] /\ inv \in [Players -> [Items -> 0..Cap]]
      BY <2>2, TradeAssumption DEF Backpacks, Counts
    <3>2. \A i \in Items : H[p][i] <= inv[p][i]
      BY <2>2 DEF Moved
    <3>3. Kinds(H[p]) \subseteq Kinds(inv[p])
      BY <3>1, <3>2 DEF Kinds
    <3> DEFINE A == Kinds(H[p]) \cup Kinds(r)
               B == Kinds(inv[p]) \cup Kinds(r)
    <3>4. IsFiniteSet(B) /\ Cardinality(B) \in Nat /\ A \in SUBSET B
      BY <3>3, KindsFinite, FS_Union, FS_CardinalityType
    <3>5. Cardinality(A) <= Cardinality(B) /\ Cardinality(A) \in Nat
      BY <3>4, FS_Subset, FS_CardinalityType
    <3>6. Cardinality(B) <= Slots[p]
      BY <2>1 DEF Room
    <3> HIDE DEF A, B
    <3>7. Cardinality(A) <= Slots[p]
      BY <3>1, <3>4, <3>5, <3>6
    <3>8. ASSUME NEW i \in Kinds(r) PROVE H[p][i] + r[i] <= Cap
      <4>1. i \in Items /\ inv[p][i] + r[i] <= Cap
        BY <2>1 DEF Room, Kinds
      <4>2. H[p][i] <= inv[p][i] /\ H[p][i] \in Int /\ inv[p][i] \in Int /\ r[i] \in Int
        BY <3>1, <3>2, <4>1
      <4> QED BY <3>1, <4>1, <4>2
    <3> QED BY <3>7, <3>8 DEF Room, A
  <2>4. J \in Backpacks /\ Moved(J, H, q, p, r, Kinds(r))
    BY <1>2, <2>2, <2>3, Delivered DEF H
  <2>5. ASSUME NEW i \in Items PROVE Owned(J, i) = Owned(inv, i)
    <3>1. Owned(H, i) = Owned(inv, i)
      BY <1>2, <2>2, SumMoved
    <3>2. Owned(J, i) = Owned(H, i)
      BY <1>2, <2>2, <2>4, SumMoved
    <3> QED BY <3>1, <3>2
  <2>6. ASSUME NEW i \in Items, o[i] <= inv[p][i], r[i] <= inv[q][i]
        PROVE  J[p][i] = inv[p][i] - o[i] + r[i] /\ J[q][i] = inv[q][i] - r[i] + o[i]
    <3>1. /\ inv[p][i] \in Nat /\ inv[q][i] \in Nat /\ H[p][i] \in Nat /\ H[q][i] \in Nat
          /\ J[p][i] \in Nat /\ J[q][i] \in Nat /\ o[i] \in Nat /\ r[i] \in Nat
      BY <2>2, <2>4, TradeAssumption DEF Backpacks, Counts
    <3>2. H[p][i] = inv[p][i] - o[i] /\ H[p][i] + H[q][i] = inv[p][i] + inv[q][i]
      <4>1. CASE i \in Kinds(o)
        BY <2>2, <2>6, <4>1 DEF Moved
      <4>2. CASE i \notin Kinds(o)
        <5>1. o[i] = 0 /\ H[p][i] = inv[p][i] /\ H[q][i] = inv[q][i]
          BY <2>2, <4>2 DEF Moved, Kinds
        <5> QED BY <3>1, <5>1
      <4> QED BY <4>1, <4>2
    <3>3. r[i] <= H[q][i]
      BY <2>6, <3>1, <3>2
    <3>4. J[q][i] = H[q][i] - r[i] /\ J[q][i] + J[p][i] = H[q][i] + H[p][i]
      <4>1. CASE i \in Kinds(r)
        BY <2>4, <3>3, <4>1 DEF Moved
      <4>2. CASE i \notin Kinds(r)
        <5>1. r[i] = 0 /\ J[p][i] = H[p][i] /\ J[q][i] = H[q][i]
          BY <2>4, <4>2 DEF Moved, Kinds
        <5> QED BY <3>1, <5>1
      <4> QED BY <4>1, <4>2
    <3> QED BY <3>1, <3>2, <3>4
  <2> QED BY <2>5, <2>6 DEF Exchanged
<1> QED BY <1>1, <1>2
-----------------------------------------------------------------------------
(* Types, and the items there are.                                         *)

\* join_world gives a number that is above those of the players in the world.
LEMMA NewNetID ==
    ASSUME TypeOK
    PROVE  LET top == Max({0} \cup {netID[q] : q \in {r \in Players : inside[r]}})
           IN  top \in Nat /\ \A q \in Players : inside[q] => netID[q] <= top
<1> DEFINE D == {r \in Players : inside[r]}
           f == [q \in D |-> netID[q]]
           R == {netID[q] : q \in D}
           S == {0} \cup R
<1>1. netID \in [Players -> Nat]
  BY DEF TypeOK
<1>2. IsFiniteSet(D)
  BY TradeAssumption, FS_Subset
<1>3. f \in Surjection(D, R)
  BY DEF Surjection
<1>4. IsFiniteSet(R)
  BY <1>2, <1>3, FS_Surjection
<1>5. R \in SUBSET Nat
  BY <1>1
<1> HIDE DEF R
<1>6. S = R \cup {0}
  OBVIOUS
<1>7. IsFiniteSet(S) /\ S \in SUBSET Nat /\ S # {}
  BY <1>4, <1>5, <1>6, FS_AddElement
<1> HIDE DEF S
<1>8. Max(S) \in S /\ \A x \in S : Max(S) >= x
  BY <1>7, Greatest
<1>9. Max(S) \in Nat
  BY <1>7, <1>8
<1>10. ASSUME NEW q \in Players, inside[q] PROVE netID[q] <= Max(S)
  <2>1. netID[q] \in S /\ netID[q] \in Nat
    BY <1>1, <1>6, <1>10 DEF R
  <2> QED BY <1>8, <1>9, <2>1
<1> QED BY <1>9, <1>10 DEF S, R

\* The fields of a Player after login.
LEMMA FreshType == Fresh \in Fields /\ NoOffer \in Offers
BY TradeAssumption DEF Fresh, Fields, None, NoOffer, Offers

\* cancel_trade, from whatever state.
LEMMA CancelType ==
    ASSUME NEW w, NEW T \in [Players -> Fields], NEW p \in Players
    PROVE  cancel_trade(w, T, p) \in [Players -> Fields]
<1>1. ASSUME NEW q \in Players PROVE [Fresh EXCEPT !.accept = T[q].accept] \in Fields
  <2>1. T[q].accept \in BOOLEAN
    BY DEF Fields
  <2> QED BY <2>1, FreshType DEF Fields
<1> QED BY <1>1, FreshType DEF cancel_trade

\* What p offers and what q offers make a deal.
LEMMA ShownType ==
    ASSUME t \in [Players -> Fields], NEW p \in Players, NEW q \in Players
    PROVE  Shown(p, q) \in Deal /\ t[p].offer \in Offers /\ t[q].offer \in Offers
<1>1. t[p].offer \in Offers /\ t[q].offer \in Offers
  BY DEF Fields
<1> QED BY <1>1 DEF Shown, Deal

\* Messages of the trade window change the fields within their types.
LEMMA WindowType ==
    ASSUME t \in [Players -> Fields], NEW p \in Players, NEW i \in Items, NEW n \in Int, n <= Cap,
           NEW remove \in BOOLEAN, mod_trade(p, i, n, remove)
    PROVE  t' \in [Players -> Fields]
<1> DEFINE Reset(T, Q) == [q \in Players |-> IF q \in Q THEN [T[q] EXCEPT !.accept = FALSE] ELSE T[q]]
           m == IF remove THEN 0 ELSE n
           new == [t EXCEPT ![p].offer[i] = m]
<1>1. ASSUME NEW T \in [Players -> Fields], NEW Q PROVE Reset(T, Q) \in [Players -> Fields]
  <2>1. ASSUME NEW r \in Fields PROVE [r EXCEPT !.accept = FALSE] \in Fields
    BY DEF Fields
  <2> QED BY <2>1
<1>2. new \in [Players -> Fields]
  <2>0. m \in Int /\ m <= Cap
    BY TradeAssumption
  <2> HIDE DEF m
  <2>1. t[p].offer \in Offers /\ [t[p].offer EXCEPT ![i] = m] \in Offers
    BY <2>0 DEF Fields, Offers
  <2>2. ASSUME NEW r \in Fields, NEW o \in Offers PROVE [r EXCEPT !.offer = o] \in Fields
    BY DEF Fields
  <2>3. [t[p] EXCEPT !.offer = [t[p].offer EXCEPT ![i] = m]] \in Fields
    BY <2>1, <2>2
  <2>4. new = [t EXCEPT ![p] = [t[p] EXCEPT !.offer = [t[p].offer EXCEPT ![i] = m]]]
    OBVIOUS
  <2> QED BY <2>3, <2>4
<1>3. \A q \in Players : Cancel(q) \in [Players -> Fields]
  BY CancelType DEF Cancel
<1>4. \/ \E T \in {new, Cancel(p)} : \E Q : t' = Reset(T, Q)
      \/ t' = new
      \/ \E q \in Players : t' = Cancel(q)
  <2>1. CASE Partner(p) = {} /\ t' = IF inside[p] THEN Reset(new, {p}) ELSE new
    <3> HIDE DEF new, Reset
    <3> QED BY <2>1
  <2>2. ASSUME NEW q \in Partner(p), t[p].block \/ t[q].block,
               t' = Cancel(IF t[p].block THEN p ELSE q)
        PROVE  \E r \in Players : t' = Cancel(r)
    <3>1. q \in Players
      BY DEF Partner, Partners
    <3> QED BY <2>2, <3>1
  <2>3. ASSUME NEW q \in Partner(p),
               t' = Reset(IF remove /\ t[p].offer[i] = 0 THEN Cancel(p) ELSE new, {p, q})
        PROVE  \E T \in {new, Cancel(p)} : \E Q : t' = Reset(T, Q)
    <3> HIDE DEF new, Reset
    <3> QED BY <2>3
  <2> QED BY <2>1, <2>2, <2>3 DEF mod_trade
<1> HIDE DEF new, Reset
<1> QED BY <1>1, <1>2, <1>3, <1>4

\* TypeOK is about backpacks within their limits.
LEMMA TypesAre ==
    ASSUME TypeOK
    PROVE  /\ inv \in Backpacks /\ ground \in [Items -> Nat]
           /\ t \in [Players -> Fields] /\ dialog \in [Players -> Deal \cup {NoDeal}]
           /\ inside \in [Players -> BOOLEAN] /\ netID \in [Players -> Nat]
           /\ exact \in BOOLEAN /\ odd \in Nat /\ moves \in 0..MaxRare
           /\ cleared \in [Items -> Nat]
BY DEF TypeOK, Backpacks

\* What a message of the trade window asks of mod_trade: a count that p has.
LEMMA WindowMessage ==
    ASSUME TypeOK, NEW p \in Players, NEW i \in Items,
           Rem_Trade(p, i) \/ Mod_Trade(p, i) \/ \E n \in Typed : trade_item(p, i, n)
    PROVE  /\ UNCHANGED <<place, goods, dialog>>
           /\ \E n \in Int, remove \in BOOLEAN :
                 n <= inv[p][i] /\ mod_trade(p, i, n, remove) /\ dialog' = dialog
<1>1. inv[p][i] \in Int /\ inv[p][i] <= inv[p][i] /\ Typed \subseteq Int
  BY TypesAre, TradeAssumption DEF Backpacks, Counts
<1>2. CASE Rem_Trade(p, i)
  <2>1. mod_trade(p, i, inv[p][i], TRUE) /\ UNCHANGED <<place, goods, dialog>>
    BY <1>2 DEF Rem_Trade
  <2> QED BY <1>1, <2>1
<1>3. CASE Mod_Trade(p, i)
  <2>1. mod_trade(p, i, 1, FALSE) /\ inv[p][i] = 1 /\ UNCHANGED <<place, goods, dialog>>
    BY <1>3 DEF Mod_Trade
  <2> QED BY <1>1, <2>1
<1>4. ASSUME NEW n \in Typed, trade_item(p, i, n)
      PROVE  mod_trade(p, i, n, FALSE) /\ n <= inv[p][i] /\ UNCHANGED <<place, goods, dialog>>
  BY <1>4 DEF trade_item
<1> QED BY <1>1, <1>2, <1>3, <1>4

\* The fields of Player, and the dialogs, keep their types.
LEMMA FieldsStep ==
    ASSUME TypeOK, NEW p \in Players,
           \/ trade_cancel(p) \/ confirm_back(p) \/ confirm_accept(p)
           \/ join_world(p) \/ exit_(p) \/ Disconnect(p)
           \/ \E q \in Players : trade_started(p, q)
           \/ \E status \in BOOLEAN : trade_accept(p, status)
           \/ \E i \in Items : Rem_Trade(p, i) \/ Mod_Trade(p, i) \/ drop(p, i) \/ collect(p, i)
           \/ \E i \in Items, n \in Typed : trade_item(p, i, n)
           \/ \E i \in Items, n \in 1..Cap : drop_item(p, i, n)
    PROVE  t' \in [Players -> Fields] /\ dialog' \in [Players -> Deal \cup {NoDeal}]
<1> DEFINE Goal == t' \in [Players -> Fields] /\ dialog' \in [Players -> Deal \cup {NoDeal}]
<1>t. t \in [Players -> Fields] /\ dialog \in [Players -> Deal \cup {NoDeal}]
  BY TypesAre
<1>c. \A q \in Players : Cancel(q) \in [Players -> Fields]
  BY <1>t, CancelType DEF Cancel
<1>k. Cap \in Nat
  BY TradeAssumption
<1>1. CASE trade_cancel(p)
  BY <1>t, <1>c, <1>1 DEF trade_cancel
<1>2. CASE confirm_back(p)
  BY <1>t, <1>c, <1>2 DEF confirm_back
<1>3. CASE confirm_accept(p)
  <2> DEFINE T == [t EXCEPT ![p].final = TRUE, ![p].agreed = dialog[p]]
  <2>1. T \in [Players -> Fields]
    <3>1. [t[p] EXCEPT !.final = TRUE, !.agreed = dialog[p]] \in Fields
      BY <1>t DEF Fields
    <3>2. T = [t EXCEPT ![p] = [t[p] EXCEPT !.final = TRUE, !.agreed = dialog[p]]]
      BY <1>t
    <3> QED BY <1>t, <3>1, <3>2
  <2>2. dialog' = [dialog EXCEPT ![p] = NoDeal]
    BY <1>3 DEF confirm_accept
  <2>3. \/ t' = [t EXCEPT ![p] = Fresh]
        \/ t' = T
        \/ t' = Cancel(p)
        \/ \E q \in Players : t' = [T EXCEPT ![p] = Fresh, ![q] = Fresh]
    BY <1>3 DEF confirm_accept, Execute, Partner, Partners
  <2> HIDE DEF T
  <2>4. t' \in [Players -> Fields]
    BY <1>t, <1>c, <2>1, <2>3, FreshType
  <2> QED BY <1>t, <2>2, <2>4
<1>4. CASE join_world(p)
  BY <1>t, <1>4 DEF join_world
<1>5. CASE exit_(p)
  <2>1. t' = [t EXCEPT ![p] = [t[p] EXCEPT !.window = FALSE]] /\ dialog' = dialog
    BY <1>5 DEF exit_
  <2>2. [t[p] EXCEPT !.window = FALSE] \in Fields
    BY <1>t DEF Fields
  <2> QED BY <1>t, <2>1, <2>2
<1>6. CASE Disconnect(p)
  <2>1. cancel_trade(inside', t, p) \in [Players -> Fields]
    <3>1. ASSUME NEW w PROVE cancel_trade(w, t, p) \in [Players -> Fields]
      BY <1>t, CancelType
    <3>2. PICK w : w = inside'
      OBVIOUS
    <3> QED BY <3>1
  <2>2. t' = [cancel_trade(inside', t, p) EXCEPT ![p] = Fresh]
        /\ dialog' = [dialog EXCEPT ![p] = NoDeal]
    BY <1>6 DEF Disconnect
  <2> QED BY <1>t, <2>1, <2>2, FreshType
<1>7. ASSUME NEW q \in Players, trade_started(p, q) PROVE Goal
  <2>1. /\ p # q /\ dialog' = dialog
        /\ t' = IF t[q].with \in {None, netID[p]}
                THEN [t EXCEPT ![p].with = netID[q], ![p].window = TRUE,
                               ![p].accept = FALSE, ![q].accept = FALSE]
                ELSE [t EXCEPT ![p].with = None, ![p].window = FALSE, ![p].block = FALSE]
    BY <1>7 DEF trade_started
  <2>2. netID[q] \in Int /\ None \in Int
    BY TypesAre DEF None
  <2>3. ASSUME NEW r \in Fields, NEW id \in Int
        PROVE  /\ [r EXCEPT !.with = id, !.window = TRUE, !.accept = FALSE] \in Fields
               /\ [r EXCEPT !.with = id, !.window = FALSE, !.block = FALSE] \in Fields
               /\ [r EXCEPT !.accept = FALSE] \in Fields
    BY DEF Fields
  <2>4. CASE t[q].with \in {None, netID[p]}
    <3>1. t' = [t EXCEPT ![p] = [t[p] EXCEPT !.with = netID[q], !.window = TRUE, !.accept = FALSE],
                         ![q] = [t[q] EXCEPT !.accept = FALSE]]
      BY <1>t, <2>1, <2>4
    <3> DEFINE a == [t[p] EXCEPT !.with = netID[q], !.window = TRUE, !.accept = FALSE]
               b == [t[q] EXCEPT !.accept = FALSE]
    <3>2. a \in Fields /\ b \in Fields
      <4>1. t[p] \in Fields /\ t[q] \in Fields
        BY <1>t
      <4> QED BY <2>2, <2>3, <4>1
    <3>3. t' = [t EXCEPT ![p] = a, ![q] = b]
      BY <3>1
    <3> HIDE DEF a, b
    <3> QED BY <1>t, <2>1, <3>2, <3>3
  <2>5. CASE ~(t[q].with \in {None, netID[p]})
    <3>1. t' = [t EXCEPT ![p] = [t[p] EXCEPT !.with = None, !.window = FALSE, !.block = FALSE]]
      BY <1>t, <2>1, <2>5
    <3> DEFINE a == [t[p] EXCEPT !.with = None, !.window = FALSE, !.block = FALSE]
    <3>2. a \in Fields
      <4>1. t[p] \in Fields
        BY <1>t
      <4> QED BY <2>2, <2>3, <4>1
    <3>3. t' = [t EXCEPT ![p] = a]
      BY <3>1
    <3> HIDE DEF a
    <3> QED BY <1>t, <2>1, <3>2, <3>3
  <2> QED BY <2>4, <2>5
<1>8. ASSUME NEW status \in BOOLEAN, trade_accept(p, status) PROVE Goal
  <2>1. ASSUME NEW T \in [Players -> Fields], NEW r \in Players, NEW a \in BOOLEAN
        PROVE  [T EXCEPT ![r].accept = a] \in [Players -> Fields]
    <3>1. [T[r] EXCEPT !.accept = a] \in Fields
      BY DEF Fields
    <3>2. [T EXCEPT ![r].accept = a] = [T EXCEPT ![r] = [T[r] EXCEPT !.accept = a]]
      OBVIOUS
    <3> QED BY <3>1, <3>2
  <2>2. CASE t' = [t EXCEPT ![p].accept = status] /\ UNCHANGED dialog
    BY <1>t, <2>1, <2>2
  <2>3. ASSUME NEW q \in Players,
               t' = [t EXCEPT ![p].accept = FALSE, ![q].accept = FALSE] /\ UNCHANGED dialog
        PROVE  Goal
    <3>1. [[t EXCEPT ![p].accept = FALSE] EXCEPT ![q].accept = FALSE] \in [Players -> Fields]
      BY <1>t, <2>1
    <3>2. t' \in [Players -> Fields]
      BY <2>3, <3>1
    <3> QED BY <1>t, <2>3, <3>2
  <2>4. ASSUME NEW q \in Players, t' = [Cancel(q) EXCEPT ![p].accept = TRUE] /\ UNCHANGED dialog
        PROVE  Goal
    BY <1>t, <1>c, <2>1, <2>4
  <2>5. ASSUME NEW q \in Players, send_trade_confirm_dialog(p, q) PROVE Goal
    <3> DEFINE A == [t EXCEPT ![p] = [t[p] EXCEPT !.block = TRUE, !.window = FALSE, !.accept = TRUE]]
               B == [A EXCEPT ![q] = [A[q] EXCEPT !.block = TRUE, !.window = FALSE]]
    <3>1. t' = B
      BY <1>t, <2>5 DEF send_trade_confirm_dialog
    <3>2. A \in [Players -> Fields]
      <4>1. [t[p] EXCEPT !.block = TRUE, !.window = FALSE, !.accept = TRUE] \in Fields
        BY <1>t DEF Fields
      <4> QED BY <1>t, <4>1
    <3> HIDE DEF A
    <3>3. B \in [Players -> Fields]
      <4>1. [A[q] EXCEPT !.block = TRUE, !.window = FALSE] \in Fields
        BY <3>2 DEF Fields
      <4> QED BY <3>2, <4>1
    <3>4. Shown(p, q) \in Deal /\ Shown(q, p) \in Deal
      BY <1>t, ShownType
    <3>5. dialog' = [dialog EXCEPT ![p] = Shown(p, q), ![q] = Shown(q, p)]
      BY <2>5 DEF send_trade_confirm_dialog
    <3> HIDE DEF B
    <3> QED BY <1>t, <3>1, <3>3, <3>4, <3>5
  <2>6. \A q \in Partner(p) : q \in Players
    BY DEF Partner, Partners
  <2> HIDE DEF Goal
  <2> QED BY <1>8, <2>2, <2>3, <2>4, <2>5, <2>6 DEF trade_accept
<1>9. ASSUME NEW i \in Items, NEW n \in Int, n <= inv[p][i], NEW remove \in BOOLEAN,
             mod_trade(p, i, n, remove), dialog' = dialog
      PROVE  Goal
  <2>1. n <= Cap
    <3>1. inv[p][i] \in 0..Cap
      BY TypesAre DEF Backpacks, Counts
    <3> QED BY <1>k, <1>9, <3>1
  <2> QED BY <1>t, <1>9, <2>1, WindowType
<1>10. ASSUME NEW i \in Items, collect(p, i) \/ \E n \in 1..Cap : drop_item(p, i, n) PROVE Goal
  BY <1>t, <1>10 DEF collect, drop_item
<1>11. ASSUME NEW i \in Items,
              Rem_Trade(p, i) \/ Mod_Trade(p, i) \/ \E n \in Typed : trade_item(p, i, n)
       PROVE  \E n \in Int, remove \in BOOLEAN :
                 n <= inv[p][i] /\ mod_trade(p, i, n, remove) /\ dialog' = dialog
  BY <1>11, WindowMessage
<1>12. ASSUME NEW i \in Items, drop(p, i) PROVE Goal
  <2>1. (t' = Cancel(p) \/ t' = t) /\ dialog' = dialog
    BY <1>12 DEF drop
  <2> QED BY <1>t, <1>c, <2>1
<1> HIDE DEF Goal
<1>13. Goal
  BY <1>1, <1>2, <1>3, <1>4, <1>5, <1>6, <1>7, <1>8, <1>9, <1>10, <1>11, <1>12 DEF Goal
<1> QED BY <1>13 DEF Goal

\* Where players are, and the numbers they get, keep their types.
LEMMA PlaceStep ==
    ASSUME TypeOK, NEW p \in Players,
           \/ trade_cancel(p) \/ confirm_back(p) \/ confirm_accept(p)
           \/ join_world(p) \/ exit_(p) \/ Disconnect(p)
           \/ \E q \in Players : trade_started(p, q)
           \/ \E status \in BOOLEAN : trade_accept(p, status)
           \/ \E i \in Items : Rem_Trade(p, i) \/ Mod_Trade(p, i) \/ drop(p, i) \/ collect(p, i)
           \/ \E i \in Items, n \in Typed : trade_item(p, i, n)
           \/ \E i \in Items, n \in 1..Cap : drop_item(p, i, n)
    PROVE  /\ inside' \in [Players -> BOOLEAN] /\ netID' \in [Players -> Nat]
           /\ exact' \in BOOLEAN /\ odd' \in Nat /\ moves' \in 0..MaxRare
<1>t. /\ inside \in [Players -> BOOLEAN] /\ netID \in [Players -> Nat]
      /\ exact \in BOOLEAN /\ odd \in Nat /\ moves \in 0..MaxRare /\ MaxRare \in Nat
  BY TypesAre, TradeAssumption
<1>1. CASE UNCHANGED place /\ UNCHANGED deals
  BY <1>t, <1>1 DEF place, deals
<1>2. CASE confirm_accept(p)
  <2>1. UNCHANGED place /\ exact' \in BOOLEAN /\ odd' \in Nat
    <3>1. UNCHANGED deals \/ \E T, q : Execute(T, p, q)
      BY <1>2 DEF confirm_accept
    <3>2. (exact' = exact \/ exact' \in BOOLEAN) /\ (odd' = odd \/ odd' = odd + 1)
      BY <3>1 DEF Execute, deals
    <3> QED BY <1>2, <1>t, <3>2 DEF confirm_accept
  <2> QED BY <1>t, <2>1 DEF place
<1>3. CASE join_world(p)
  <2> DEFINE top == Max({0} \cup {netID[q] : q \in {r \in Players : inside[r]}})
  <2>1. top \in Nat
    BY NewNetID
  <2>2. /\ inside' = [inside EXCEPT ![p] = TRUE] /\ netID' = [netID EXCEPT ![p] = top + 1]
        /\ exact' = exact /\ odd' = odd /\ moves' = moves
    BY <1>3 DEF join_world, goods, deals
  <2> HIDE DEF top
  <2> QED BY <1>t, <2>1, <2>2
<1>4. CASE exit_(p)
  <2>1. /\ inside' = [inside EXCEPT ![p] = FALSE] /\ netID' = netID
        /\ exact' = exact /\ odd' = odd /\ moves' = moves + 1 /\ moves + odd < MaxRare
    BY <1>4 DEF exit_, goods, deals
  <2> QED BY <1>t, <2>1
<1>5. CASE Disconnect(p)
  <2>1. /\ inside' = [inside EXCEPT ![p] = FALSE] /\ netID' = [netID EXCEPT ![p] = 0]
        /\ exact' = exact /\ odd' = odd /\ moves' = moves + 1 /\ moves + odd < MaxRare
    BY <1>5 DEF Disconnect, goods, deals
  <2> QED BY <1>t, <2>1
<1>6. ASSUME \/ trade_cancel(p) \/ confirm_back(p)
             \/ \E q \in Players : trade_started(p, q)
             \/ \E status \in BOOLEAN : trade_accept(p, status)
             \/ \E i \in Items : Rem_Trade(p, i) \/ Mod_Trade(p, i) \/ drop(p, i) \/ collect(p, i)
             \/ \E i \in Items, n \in Typed : trade_item(p, i, n)
             \/ \E i \in Items, n \in 1..Cap : drop_item(p, i, n)
      PROVE  UNCHANGED place /\ UNCHANGED deals
  BY <1>6 DEF trade_cancel, confirm_back, trade_started, trade_accept, Rem_Trade, collect,
              Mod_Trade, trade_item, drop, drop_item, goods
<1> QED BY <1>1, <1>2, <1>3, <1>4, <1>5, <1>6

\* What is in the backpacks and on the ground, and what has been cleared away.
Stock(i) == Owned(inv, i) + ground[i] + cleared[i]

\* VisualHandle::Drop, with g on the ground: what is cleared is what is missing.
LEMMA DropIs ==
    ASSUME NEW g \in [Items -> Nat], NEW i \in Items, NEW n \in Nat \ {0},
           cleared \in [Items -> Nat], Drop(g, i, n)
    PROVE  /\ ground' \in [Items -> Nat] /\ cleared' \in [Items -> Nat]
           /\ \A j \in Items : ground'[j] + cleared'[j]
                               = g[j] + (IF j = i THEN n ELSE 0) + cleared[j]
<1> DEFINE new == [g EXCEPT ![i] = @ + n]
           R == {new[j] : j \in Items}
<1>1. new \in [Items -> Nat] /\ \A j \in Items : new[j] = g[j] + (IF j = i THEN n ELSE 0)
  OBVIOUS
<1>2. PICK lost \in AutoClearOldWorldDrops(new, i) :
          /\ ground' = [j \in Items |-> new[j] - lost[j]]
          /\ cleared' = [j \in Items |-> cleared[j] + lost[j]]
  BY DEF Drop
<1> HIDE DEF new
<1>3. Max(R) \in Nat
  <2>1. new \in Surjection(Items, R)
    BY <1>1 DEF Surjection
  <2>2. IsFiniteSet(R)
    BY <2>1, TradeAssumption, FS_Surjection
  <2>3. R \in SUBSET Nat /\ R # {}
    BY <1>1
  <2> QED BY <2>2, <2>3, Greatest
<1>4. lost \in [Items -> 0..Max(R)] /\ \A j \in Items : lost[j] <= new[j]
  BY <1>2 DEF AutoClearOldWorldDrops
<1> HIDE DEF R
<1>5. ASSUME NEW j \in Items
      PROVE  /\ new[j] \in Nat /\ lost[j] \in Nat /\ lost[j] <= new[j] /\ cleared[j] \in Nat
             /\ ground'[j] = new[j] - lost[j] /\ cleared'[j] = cleared[j] + lost[j]
  BY <1>1, <1>2, <1>3, <1>4
<1>6. ground' \in [Items -> Nat] /\ cleared' \in [Items -> Nat]
  <2>1. /\ ground' = [j \in Items |-> ground'[j]] /\ cleared' = [j \in Items |-> cleared'[j]]
    BY <1>2
  <2>2. \A j \in Items : ground'[j] \in Nat /\ cleared'[j] \in Nat
    BY <1>5
  <2> QED BY <2>1, <2>2
<1>7. ASSUME NEW j \in Items
      PROVE  ground'[j] + cleared'[j] = g[j] + (IF j = i THEN n ELSE 0) + cleared[j]
  <2>1. ground'[j] + cleared'[j] = new[j] + cleared[j]
    BY <1>5
  <2> QED BY <1>1, <2>1
<1> QED BY <1>6, <1>7

\* Trades, drops and collections keep within the limits of the backpacks and
\* keep all items, unless a deal has a count below zero.
LEMMA GoodsStep ==
    ASSUME TypeOK, NEW p \in Players,
           \/ trade_cancel(p) \/ confirm_back(p) \/ confirm_accept(p)
           \/ join_world(p) \/ exit_(p) \/ Disconnect(p)
           \/ \E q \in Players : trade_started(p, q)
           \/ \E status \in BOOLEAN : trade_accept(p, status)
           \/ \E i \in Items : Rem_Trade(p, i) \/ Mod_Trade(p, i) \/ drop(p, i) \/ collect(p, i)
           \/ \E i \in Items, n \in Typed : trade_item(p, i, n)
           \/ \E i \in Items, n \in 1..Cap : drop_item(p, i, n)
    PROVE  /\ inv' \in Backpacks /\ ground' \in [Items -> Nat] /\ cleared' \in [Items -> Nat]
           /\ odd' = 0 => odd = 0 /\ \A i \in Items : Stock(i)' = Stock(i)
<1> DEFINE Goal == /\ inv' \in Backpacks /\ ground' \in [Items -> Nat] /\ cleared' \in [Items -> Nat]
                   /\ odd' = 0 => odd = 0 /\ \A i \in Items : Stock(i)' = Stock(i)
<1>t. /\ inv \in Backpacks /\ ground \in [Items -> Nat] /\ t \in [Players -> Fields]
      /\ cleared \in [Items -> Nat] /\ odd \in Nat
      /\ Cap \in Nat /\ inv \in [Players -> [Items -> 0..Cap]]
  BY TypesAre, TradeAssumption DEF Backpacks, Counts
<1>u. ASSUME UNCHANGED <<inv, ground, cleared, odd>> PROVE Goal
  BY <1>t, <1>u DEF Stock
<1>j. ASSUME NEW J \in Backpacks, inv' = J, ground' \in [Items -> Nat],
             cleared' \in [Items -> Nat], odd' = odd,
             \A i \in Items : Owned(J, i) + ground'[i] + cleared'[i]
                                = Owned(inv, i) + ground[i] + cleared[i]
      PROVE  Goal
  BY <1>j DEF Stock
<1> HIDE DEF Goal
<1>1. ASSUME confirm_accept(p) PROVE Goal
  <2>1. UNCHANGED <<ground, cleared>>
    BY <1>1 DEF confirm_accept
  <2>2. ASSUME UNCHANGED <<inv, deals>> PROVE Goal
    BY <1>u, <2>1, <2>2 DEF deals
  <2>3. ASSUME NEW q \in Players, trade_space_check(p, t[q].offer),
               trade_space_check(q, t[p].offer),
               Execute([t EXCEPT ![p].final = TRUE, ![p].agreed = dialog[p]], p, q)
        PROVE  Goal
    <3> DEFINE T == [t EXCEPT ![p].final = TRUE, ![p].agreed = dialog[p]]
    <3>1. T[p].offer = t[p].offer /\ T[q].offer = t[q].offer
      <4>1. ASSUME NEW r \in Fields, NEW d
            PROVE  [r EXCEPT !.final = TRUE, !.agreed = d].offer = r.offer
        BY DEF Fields
      <4>2. T[p] = [t[p] EXCEPT !.final = TRUE, !.agreed = dialog[p]] /\ (q # p => T[q] = t[q])
        BY <1>t
      <4> QED BY <1>t, <4>1, <4>2
    <3>2. t[p].offer \in Offers /\ t[q].offer \in Offers
      BY <1>t, ShownType
    <3> DEFINE J == Deliver(Deliver(inv, p, q, t[p].offer), q, p, t[q].offer)
               sound == t[p].offer \in Counts /\ t[q].offer \in Counts
    <3>3. inv' = J /\ odd' = IF sound THEN odd ELSE odd + 1
      BY <2>3, <3>1 DEF Execute
    <3>4. J \in Backpacks
      BY <1>t, <3>2, DeliverType
    <3>5. ASSUME sound PROVE \A i \in Items : Owned(J, i) = Owned(inv, i)
      BY <1>t, <2>3, <3>5, ExecuteGoods
    <3> HIDE DEF J, sound
    <3>6. CASE sound
      BY <1>t, <1>j, <2>1, <3>3, <3>4, <3>5, <3>6
    <3>7. CASE ~sound
      <4>1. odd' # 0
        BY <1>t, <3>3, <3>7
      <4> QED BY <1>t, <2>1, <3>3, <3>4, <4>1 DEF Goal
    <3> QED BY <3>6, <3>7
  <2>4. \A q \in Partner(p) : q \in Players
    BY DEF Partner, Partners
  <2> QED BY <1>1, <2>2, <2>3, <2>4 DEF confirm_accept
<1>2. ASSUME NEW i \in Items, NEW n \in Nat \ {0}, inv[p][i] >= n,
             inv' = Modify(inv, p, i, -n), Drop(ground, i, n), odd' = odd
      PROVE  Goal
  <2> DEFINE J == Modify(inv, p, i, -n)
  <2>1. -n \in Int /\ inv[p][i] \in 0..Cap
    BY <1>t
  <2>2. Fits(inv, p, i, -n)
    BY <1>t, <1>2, <2>1 DEF Fits
  <2>3. J \in Backpacks /\ Plus(J, inv, p, i, -n)
    BY <1>t, <2>1, <2>2, ModifyType, ModifyIs
  <2>4. inv' = J
    BY <1>2
  <2> HIDE DEF J
  <2>5. /\ ground' \in [Items -> Nat] /\ cleared' \in [Items -> Nat]
        /\ \A j \in Items : ground'[j] + cleared'[j]
                            = ground[j] + (IF j = i THEN n ELSE 0) + cleared[j]
    BY <1>t, <1>2, DropIs
  <2>6. ASSUME NEW j \in Items
        PROVE  Owned(J, j) + ground'[j] + cleared'[j] = Owned(inv, j) + ground[j] + cleared[j]
    <3>1. Owned(inv, j) \in Int /\ Owned(J, j) = Owned(inv, j) + (IF j = i THEN -n ELSE 0)
      BY <1>t, <2>1, <2>3, SumPlus
    <3>2. /\ ground'[j] + cleared'[j] = ground[j] + (IF j = i THEN n ELSE 0) + cleared[j]
          /\ ground[j] \in Nat /\ cleared[j] \in Nat /\ ground'[j] \in Nat /\ cleared'[j] \in Nat
      BY <1>t, <2>5
    <3> QED BY <3>1, <3>2
  <2> QED BY <1>j, <1>2, <2>3, <2>4, <2>5, <2>6
<1>3. ASSUME NEW i \in Items, collect(p, i) PROVE Goal
  <2>1. PICK stack \in 1..Min({ground[i], Cap}) :
          LET n == Min({stack, Cap - inv[p][i]})
              left == [ground EXCEPT ![i] = @ - stack]
          IN  /\ inv' = [inv EXCEPT ![p][i] = @ + n]
              /\ IF n = stack THEN ground' = left /\ UNCHANGED cleared
                 ELSE Drop(left, i, stack - n)
    BY <1>3 DEF collect
  <2> DEFINE n == Min({stack, Cap - inv[p][i]})
             left == [ground EXCEPT ![i] = @ - stack]
             J == Modify(inv, p, i, n)
  <2>2. /\ ground[i] \in Nat /\ inv[p][i] \in 0..Cap /\ inv[p][i] < Cap
        /\ inv[p][i] > 0 \/ Get_Slots(inv, p) > 0
        /\ odd' = odd
    BY <1>3, <1>t DEF collect, deals
  <2>3. ASSUME NEW a \in Int, NEW b \in Int
        PROVE  Min({a, b}) \in {a, b} /\ Min({a, b}) <= a /\ Min({a, b}) <= b
    <3>1. \E c \in {a, b} : \A d \in {a, b} : c <= d
      OBVIOUS
    <3> QED BY <3>1 DEF Min
  <2>4. stack \in Nat \ {0} /\ stack <= ground[i]
    <3>1. Min({ground[i], Cap}) <= ground[i] /\ Min({ground[i], Cap}) \in Int
      <4>1. ground[i] \in Int /\ Cap \in Int
        BY <1>t, <2>2
      <4>2. Min({ground[i], Cap}) \in {ground[i], Cap} /\ Min({ground[i], Cap}) <= ground[i]
        BY <4>1, <2>3
      <4> QED BY <4>1, <4>2
    <3> QED BY <2>1, <2>2, <3>1
  <2>5. n \in Nat \ {0} /\ n <= stack /\ inv[p][i] + n <= Cap
    <3>1. Cap - inv[p][i] \in Int
      BY <1>t, <2>2
    <3>2. n \in {stack, Cap - inv[p][i]} /\ n <= stack /\ n <= Cap - inv[p][i]
      <4>1. stack \in Int
        BY <2>4
      <4> QED BY <2>3, <3>1, <4>1
    <3> HIDE DEF n
    <3> QED BY <1>t, <2>2, <2>4, <3>1, <3>2
  <2>6. /\ inv' = [inv EXCEPT ![p][i] = @ + n]
        /\ IF n = stack THEN ground' = left /\ UNCHANGED cleared ELSE Drop(left, i, stack - n)
    BY <2>1
  <2> HIDE DEF n
  <2>7. Fits(inv, p, i, n)
    BY <1>t, <2>2, <2>5 DEF Fits
  <2>8. J \in Backpacks /\ Plus(J, inv, p, i, n)
    BY <1>t, <2>5, <2>7, ModifyType, ModifyIs
  <2>9. inv' = J
    BY <2>6, <2>7 DEF Modify
  <2> HIDE DEF J
  <2>10. left \in [Items -> Nat] /\ \A j \in Items : left[j] = ground[j] - (IF j = i THEN stack ELSE 0)
    BY <1>t, <2>4
  <2> HIDE DEF left
  <2>11. /\ ground' \in [Items -> Nat] /\ cleared' \in [Items -> Nat]
         /\ \A j \in Items : ground'[j] + cleared'[j]
                             = left[j] + (IF j = i THEN stack - n ELSE 0) + cleared[j]
    <3>1. CASE n = stack
      BY <1>t, <2>4, <2>6, <2>10, <3>1
    <3>2. CASE n # stack
      <4>1. stack - n \in Nat \ {0}
        BY <2>4, <2>5, <3>2
      <4>2. Drop(left, i, stack - n) /\ left \in [Items -> Nat] /\ cleared \in [Items -> Nat]
        BY <1>t, <2>6, <2>10, <3>2
      <4> HIDE DEF left, n
      <4> QED BY ONLY <4>1, <4>2, DropIs
    <3> QED BY <3>1, <3>2
  <2>12. ASSUME NEW j \in Items
         PROVE  Owned(J, j) + ground'[j] + cleared'[j] = Owned(inv, j) + ground[j] + cleared[j]
    <3>1. Owned(inv, j) \in Int /\ Owned(J, j) = Owned(inv, j) + (IF j = i THEN n ELSE 0)
      BY <1>t, <2>5, <2>8, SumPlus
    <3>2. /\ ground'[j] + cleared'[j] = left[j] + (IF j = i THEN stack - n ELSE 0) + cleared[j]
          /\ left[j] = ground[j] - (IF j = i THEN stack ELSE 0)
          /\ ground[j] \in Nat /\ cleared[j] \in Nat /\ ground'[j] \in Nat /\ cleared'[j] \in Nat
      BY <1>t, <2>10, <2>11
    <3> QED BY <2>4, <2>5, <3>1, <3>2
  <2> QED BY <1>j, <2>2, <2>8, <2>9, <2>11, <2>12
<1>4. ASSUME \/ trade_cancel(p) \/ confirm_back(p)
             \/ join_world(p) \/ exit_(p) \/ Disconnect(p)
             \/ \E q \in Players : trade_started(p, q)
             \/ \E status \in BOOLEAN : trade_accept(p, status)
             \/ \E i \in Items : Rem_Trade(p, i) \/ Mod_Trade(p, i)
             \/ \E i \in Items, n \in Typed : trade_item(p, i, n)
      PROVE  UNCHANGED <<inv, ground, cleared, odd>>
  BY <1>4 DEF trade_cancel, confirm_back, join_world, exit_, Disconnect, trade_started,
              trade_accept, Rem_Trade, Mod_Trade, trade_item, goods, deals
<1>5. ASSUME NEW i \in Items, drop(p, i) PROVE Goal
  <2>1. /\ inv[p][i] \in Nat \ {0} /\ inv[p][i] >= inv[p][i]
        /\ inv' = Modify(inv, p, i, -inv[p][i]) /\ Drop(ground, i, inv[p][i]) /\ odd' = odd
    BY <1>t, <1>5 DEF drop, deals
  <2> QED BY <1>2, <2>1
<1>6. ASSUME NEW i \in Items, NEW n \in 1..Cap, drop_item(p, i, n) PROVE Goal
  <2>1. /\ n \in Nat \ {0} /\ inv[p][i] >= n
        /\ inv' = Modify(inv, p, i, -n) /\ Drop(ground, i, n) /\ odd' = odd
    BY <1>t, <1>6 DEF drop_item, deals
  <2> QED BY <1>2, <2>1
<1>7. Goal
  BY <1>1, <1>3, <1>4, <1>5, <1>6, <1>u
<1> QED BY <1>7 DEF Goal

\* Types and stock together are inductive.
LEMMA StockInductive ==
    ASSUME TypeOK, [Next]_vars
    PROVE  TypeOK' /\ (odd' = 0 => odd = 0 /\ \A i \in Items : Stock(i)' = Stock(i))
<1>1. CASE UNCHANGED vars
  BY <1>1 DEF vars, TypeOK, Get_Slots, Stock
<1>2. CASE Next
  <2>1. PICK p \in Players :
           \/ trade_cancel(p) \/ confirm_back(p) \/ confirm_accept(p)
           \/ join_world(p) \/ exit_(p) \/ Disconnect(p)
           \/ \E q \in Players : trade_started(p, q)
           \/ \E status \in BOOLEAN : trade_accept(p, status)
           \/ \E i \in Items : Rem_Trade(p, i) \/ Mod_Trade(p, i) \/ drop(p, i) \/ collect(p, i)
           \/ \E i \in Items, n \in Typed : trade_item(p, i, n)
           \/ \E i \in Items, n \in 1..Cap : drop_item(p, i, n)
    BY <1>2 DEF Next
  <2>2. t' \in [Players -> Fields] /\ dialog' \in [Players -> Deal \cup {NoDeal}]
    BY <2>1, FieldsStep
  <2>3. /\ inside' \in [Players -> BOOLEAN] /\ netID' \in [Players -> Nat]
        /\ exact' \in BOOLEAN /\ odd' \in Nat /\ moves' \in 0..MaxRare
    BY <2>1, PlaceStep
  <2>4. /\ inv' \in Backpacks /\ ground' \in [Items -> Nat] /\ cleared' \in [Items -> Nat]
        /\ odd' = 0 => odd = 0 /\ \A i \in Items : Stock(i)' = Stock(i)
    BY <2>1, GoodsStep
  <2>5. inv' \in [Players -> Counts] /\ \A q \in Players : Get_Slots(inv', q) >= 0
    BY <2>4 DEF Backpacks
  <2>6. TypeOK'
    BY <2>2, <2>3, <2>4, <2>5 DEF TypeOK
  <2> QED BY <2>4, <2>6
<1> QED BY <1>1, <1>2

\* The initial backpacks.
LEMMA InitialTypes ==
    ASSUME Init
    PROVE  TypeOK /\ Initial \in Backpacks
<1>1. Initial \in Backpacks
  <2>1. ASSUME NEW p \in Players PROVE Get_Slots(Initial, p) >= 0
    <3>1. Cardinality(Kinds(Initial[p])) <= Slots[p] /\ Slots[p] \in Nat
      BY TradeAssumption
    <3>2. Cardinality(Kinds(Initial[p])) \in Nat
      BY KindsFinite
    <3> QED BY <3>1, <3>2 DEF Get_Slots
  <2> QED BY <2>1, TradeAssumption DEF Backpacks
<1>2. TypeOK
  <2>1. inv \in [Players -> Counts] /\ \A p \in Players : Get_Slots(inv, p) >= 0
    BY <1>1 DEF Init, Backpacks
  <2> QED BY <2>1, FreshType, TradeAssumption DEF Init, TypeOK
<1> QED BY <1>1, <1>2

\* The variables keep their types, and no backpack more than it can hold,
\* although an offer is delivered kind by kind and its counts may be below zero.
THEOREM TradeTypes == Spec => []TypeOK
<1>1. Init => TypeOK
  BY InitialTypes
<1>2. TypeOK /\ [Next]_vars => TypeOK'
  BY StockInductive
<1> QED BY <1>1, <1>2, PTL DEF Spec

\* Without a deal that has a count below zero, no trade, drop or collection makes
\* or loses an item, for any number of players, wherever they go and whoever they
\* take for their partner: what is missing has been cleared from the ground.
THEOREM ConservedCorrect == Spec => []Conserved
<1> DEFINE AllThere == odd = 0 => \A i \in Items : Stock(i) = Owned(Initial, i)
<1>1. AllThere => Conserved
  BY DEF Conserved, Owned, Stock
<1>2. Init => AllThere
  <2> SUFFICES ASSUME Init, NEW i \in Items PROVE Stock(i) = Owned(Initial, i)
    OBVIOUS
  <2>1. Initial \in Backpacks
    BY InitialTypes
  <2>2. PICK F : SumFun(F, Players, Column(Initial, i)) /\ Owned(Initial, i) = F[Players]
    BY <2>1, SumIs
  <2>3. Owned(Initial, i) \in Int
    BY <2>2 DEF SumFun
  <2>4. inv = Initial /\ ground[i] = 0 /\ cleared[i] = 0
    BY DEF Init
  <2> QED BY <2>3, <2>4 DEF Stock
<1>3. TypeOK /\ AllThere /\ [Next]_vars => AllThere'
  <2> SUFFICES ASSUME TypeOK, AllThere, [Next]_vars, odd' = 0, NEW i \in Items
               PROVE  Stock(i)' = Owned(Initial, i)
    OBVIOUS
  <2> QED BY StockInductive
<1> HIDE DEF AllThere
<1> QED BY <1>1, <1>2, <1>3, TradeTypes, PTL DEF Spec
-----------------------------------------------------------------------------
(***************************************************************************)
(* Two players who stay in the world.                                      *)
(*                                                                         *)
(* trading_with is only ever the other player's netID.  block_trade is set *)
(* on both sides or on none, and while it is, each side trades with the    *)
(* other, so that mod_trade finds the partner and ends the trade instead   *)
(* of changing an offer: what a dialog shows and what a side has confirmed *)
(* are the offers as they are.                                             *)
(***************************************************************************)
\* What holds of p, whose only possible partner is q.
Half(p, q) ==
    /\ IF inside[p] THEN netID[p] > 0 ELSE netID[p] = 0
    /\ inside[p] /\ inside[q] => netID[p] # netID[q]
    /\ t[p].with # None => t[p].with = netID[q] /\ inside[p] /\ inside[q]
    /\ t[p].block => t[p].with # None /\ t[q].with # None /\ t[q].block
    /\ dialog[p] # NoDeal => t[p].with = None \/ (t[p].block /\ dialog[p] = Shown(p, q))
    /\ t[p].final => t[p].block /\ t[p].agreed = Shown(p, q)
    /\ t[p].with = None => t[p].offer = NoOffer
    /\ \A i \in Items : t[p].offer[i] <= inv[p][i]

PairInv ==
    Cardinality(Players) = 2 /\ moves = 0 =>
        exact /\ \A p, q \in Players : p # q => Half(p, q)

\* The state of two players, before either has left.
Couple(p, q) ==
    /\ Players = {p, q} /\ p # q
    /\ TypeOK /\ exact
    /\ Half(p, q) /\ Half(q, p)

Mutual(p, q) == t[p].with # None /\ t[q].with # None

\* f agrees with g in what the deal depends on.
SameCore(f, g) ==
    /\ f.with = g.with /\ f.block = g.block /\ f.final = g.final
    /\ f.agreed = g.agreed /\ f.offer = g.offer

\* Fields of a Player who trades with nobody.
Blank(f) == f.with = None /\ ~f.block /\ ~f.final /\ f.offer = NoOffer

\* The other player is the partner if each trades with somebody.
LEMMA PartnerIs ==
    ASSUME NEW p \in Players, NEW q \in Players, Couple(p, q)
    PROVE  /\ Partner(p) = IF Mutual(p, q) THEN {q} ELSE {}
           /\ Mutual(p, q) => inside[p] /\ inside[q]
<1>1. /\ Players = {p, q} /\ p # q /\ netID \in [Players -> Nat]
      /\ inside \in [Players -> BOOLEAN] /\ t \in [Players -> Fields]
  BY TypesAre DEF Couple
<1>2. netID[p] \in Nat /\ netID[q] \in Nat /\ None \notin Nat
  BY <1>1 DEF None
<1>3. /\ t[p].with # None => t[p].with = netID[q] /\ inside[p] /\ inside[q]
      /\ t[q].with # None => t[q].with = netID[p] /\ inside[p] /\ inside[q]
      /\ inside[p] /\ inside[q] => netID[p] # netID[q]
  BY DEF Couple, Half
<1>4. p \notin Partner(p)
  BY <1>2, <1>3 DEF Partner, Partners
<1>5. q \in Partner(p) <=> Mutual(p, q)
  BY <1>1, <1>2, <1>3 DEF Partner, Partners, Mutual
<1>6. Partner(p) \subseteq {p, q}
  BY <1>1 DEF Partner, Partners
<1> QED BY <1>3, <1>4, <1>5, <1>6 DEF Mutual

\* What holds of p holds on when p ends its trade, or keeps it while q keeps
\* its own or nothing has been shown.
LEMMA HalfKept ==
    ASSUME NEW p \in Players, NEW q \in Players, Couple(p, q),
           UNCHANGED <<inside, netID>>, dialog'[p] \in {dialog[p], NoDeal},
           \A i \in Items : t'[p].offer[i] <= inv'[p][i],
           \/ Blank(t'[p])
           \/ SameCore(t'[p], t[p]) /\ (SameCore(t'[q], t[q]) \/ ~t[p].block)
    PROVE  Half(p, q)'
<1>1. Half(p, q) /\ Half(q, p)
  BY DEF Couple
<1>2. /\ IF inside'[p] THEN netID'[p] > 0 ELSE netID'[p] = 0
      /\ inside'[p] /\ inside'[q] => netID'[p] # netID'[q]
  BY <1>1 DEF Half
<1>3. CASE Blank(t'[p])
  BY <1>2, <1>3 DEF Half, Blank
<1>4. CASE SameCore(t'[p], t[p]) /\ ~t[p].block
  <2>1. t'[p].with # None => t'[p].with = netID'[q] /\ inside'[p] /\ inside'[q]
    BY <1>1, <1>4 DEF Half, SameCore
  <2>2. ~t'[p].block /\ ~t'[p].final
    BY <1>1, <1>4 DEF Half, SameCore
  <2>3. dialog'[p] # NoDeal => t'[p].with = None
    BY <1>1, <1>4 DEF Half, SameCore
  <2>4. t'[p].with = None => t'[p].offer = NoOffer
    BY <1>1, <1>4 DEF Half, SameCore
  <2> QED BY <1>2, <2>1, <2>2, <2>3, <2>4 DEF Half
<1>5. CASE SameCore(t'[p], t[p]) /\ SameCore(t'[q], t[q])
  <2>1. Shown(p, q)' = Shown(p, q)
    BY <1>5 DEF Shown, SameCore
  <2>2. t'[p].with # None => t'[p].with = netID'[q] /\ inside'[p] /\ inside'[q]
    BY <1>1, <1>5 DEF Half, SameCore
  <2>3. t'[p].block => t'[p].with # None /\ t'[q].with # None /\ t'[q].block
    BY <1>1, <1>5 DEF Half, SameCore
  <2>4. dialog'[p] # NoDeal => t'[p].with = None \/ (t'[p].block /\ dialog'[p] = Shown(p, q)')
    BY <1>1, <1>5, <2>1 DEF Half, SameCore
  <2>5. t'[p].final => t'[p].block /\ t'[p].agreed = Shown(p, q)'
    BY <1>1, <1>5, <2>1 DEF Half, SameCore
  <2>6. t'[p].with = None => t'[p].offer = NoOffer
    BY <1>1, <1>5 DEF Half, SameCore
  <2> QED BY <1>2, <2>2, <2>3, <2>4, <2>5, <2>6 DEF Half
<1> QED BY <1>3, <1>4, <1>5

\* cancel_trade by either of them.
LEMMA CancelIs ==
    ASSUME NEW p \in Players, NEW q \in Players, Couple(p, q)
    PROVE  /\ Cancel(p)[p] = Fresh /\ Blank(Fresh)
           /\ Blank(Cancel(p)[q]) \/ (Cancel(p)[q] = t[q] /\ ~t[q].block)
<1>1. Partner(p) = IF Mutual(p, q) THEN {q} ELSE {}
  BY PartnerIs
<1>2. p # q
  BY DEF Couple
<1>3. Blank(Fresh)
  BY DEF Blank, Fresh
<1>4. Cancel(p)[p] = Fresh
  BY DEF Cancel, cancel_trade
<1>5. CASE Mutual(p, q)
  <2>1. Cancel(p)[q] = [Fresh EXCEPT !.accept = t[q].accept]
    BY <1>1, <1>2, <1>5 DEF Cancel, cancel_trade, Partner
  <2>2. Blank([Fresh EXCEPT !.accept = t[q].accept])
    BY DEF Blank, Fresh
  <2> QED BY <1>3, <1>4, <2>1, <2>2
<1>6. CASE ~Mutual(p, q)
  <2>1. Cancel(p)[q] = t[q]
    BY <1>1, <1>2, <1>6 DEF Cancel, cancel_trade, Partner
  <2>2. ~t[q].block
    BY <1>6 DEF Couple, Half, Mutual
  <2> QED BY <1>3, <1>4, <2>1, <2>2
<1> QED BY <1>5, <1>6

\* The fields T leave each of p and q its trade or end it, and a trade that
\* has been shown is kept by both or by none.
Quiet(T, p, q) ==
    \/ Blank(T[p]) /\ Blank(T[q])
    \/ Blank(T[p]) /\ SameCore(T[q], t[q]) /\ ~t[q].block
    \/ SameCore(T[p], t[p]) /\ ~t[p].block /\ Blank(T[q])
    \/ SameCore(T[p], t[p]) /\ SameCore(T[q], t[q])

\* A quiet step, which takes nothing from the backpack of a player that keeps
\* its offer.
LEMMA QuietStep ==
    ASSUME NEW p \in Players, NEW q \in Players, Couple(p, q), TypeOK',
           UNCHANGED <<inside, netID>>,
           dialog'[p] \in {dialog[p], NoDeal}, dialog'[q] \in {dialog[q], NoDeal},
           Quiet(t', p, q),
           Blank(t'[p]) \/ \A i \in Items : inv[p][i] <= inv'[p][i],
           Blank(t'[q]) \/ \A i \in Items : inv[q][i] <= inv'[q][i]
    PROVE  Half(p, q)' /\ Half(q, p)'
<1>1. Couple(q, p)
  BY DEF Couple
<1>2. ASSUME NEW r \in Players, NEW s \in Players, Half(r, s),
             Blank(t'[r]) \/ SameCore(t'[r], t[r]),
             Blank(t'[r]) \/ \A i \in Items : inv[r][i] <= inv'[r][i]
      PROVE  \A i \in Items : t'[r].offer[i] <= inv'[r][i]
  <2> SUFFICES ASSUME NEW i \in Items PROVE t'[r].offer[i] <= inv'[r][i]
    OBVIOUS
  <2>1. /\ inv'[r][i] \in Nat /\ inv[r][i] \in Nat
        /\ t[r].offer[i] \in Int
    <3>1. inv \in [Players -> Counts] /\ inv' \in [Players -> Counts] /\ t[r].offer \in Offers
      BY TypesAre DEF Couple, TypeOK, Fields
    <3>2. inv[r] \in Counts /\ inv'[r] \in Counts
      BY <3>1
    <3> QED BY <3>1, <3>2, TradeAssumption DEF Counts, Offers
  <2>2. CASE Blank(t'[r])
    BY <2>1, <2>2 DEF Blank, NoOffer
  <2>3. CASE SameCore(t'[r], t[r]) /\ inv[r][i] <= inv'[r][i]
    <3>1. t[r].offer[i] <= inv[r][i]
      BY <1>2 DEF Half
    <3>2. t'[r].offer = t[r].offer
      BY <2>3 DEF SameCore
    <3> QED BY <2>1, <2>3, <3>1, <3>2
  <2> QED BY <1>2, <2>2, <2>3
<1>3. /\ Blank(t'[p]) \/ SameCore(t'[p], t[p])
      /\ Blank(t'[q]) \/ SameCore(t'[q], t[q])
  BY DEF Quiet
<1>4. Half(p, q) /\ Half(q, p)
  BY DEF Couple
<1>5. /\ \A i \in Items : t'[p].offer[i] <= inv'[p][i]
      /\ \A i \in Items : t'[q].offer[i] <= inv'[q][i]
  BY <1>2, <1>3, <1>4
<1>6. Half(p, q)'
  BY <1>5, HalfKept DEF Quiet
<1>7. Half(q, p)'
  BY <1>1, <1>5, HalfKept DEF Quiet
<1> QED BY <1>6, <1>7

\* cancel_trade by either of them is quiet, and so is resetting what the deal
\* does not depend on.
LEMMA CancelQuiet ==
    ASSUME NEW p \in Players, NEW q \in Players, Couple(p, q)
    PROVE  /\ Quiet(t, p, q)
           /\ Quiet(Cancel(p), p, q) /\ Quiet(Cancel(q), p, q)
           /\ Blank(Cancel(p)[p])
           /\ \A T, U : /\ Quiet(T, p, q)
                        /\ SameCore(U[p], T[p]) /\ SameCore(U[q], T[q])
                        => Quiet(U, p, q)
<1>1. Couple(q, p)
  BY DEF Couple
<1>2. \A r \in Players : SameCore(t[r], t[r])
  BY DEF SameCore
<1>3. Quiet(t, p, q)
  BY <1>2 DEF Quiet
<1>4. Quiet(Cancel(p), p, q) /\ Blank(Cancel(p)[p])
  BY <1>2, CancelIs DEF Quiet
<1>5. Quiet(Cancel(q), p, q)
  BY <1>1, <1>2, CancelIs DEF Quiet
<1>6. ASSUME NEW T, NEW U, Quiet(T, p, q), SameCore(U[p], T[p]), SameCore(U[q], T[q])
      PROVE  Quiet(U, p, q)
  <2>1. \A f, g : SameCore(f, g) /\ Blank(g) => Blank(f)
    BY DEF SameCore, Blank
  <2>2. \A f, g, h : SameCore(f, g) /\ SameCore(g, h) => SameCore(f, h)
    BY DEF SameCore
  <2> QED BY <1>6, <2>1, <2>2 DEF Quiet
<1> QED BY <1>3, <1>4, <1>5, <1>6

\* A player enters: until then neither trades with anybody.
LEMMA JoinPair ==
    ASSUME NEW p \in Players, NEW q \in Players, Couple(p, q), join_world(p)
    PROVE  Half(p, q)' /\ Half(q, p)'
<1> DEFINE top == Max({0} \cup {netID[r] : r \in {s \in Players : inside[s]}})
<1>1. TypeOK /\ p # q /\ Half(p, q) /\ Half(q, p)
  BY DEF Couple
<1>2. top \in Nat /\ (inside[q] => netID[q] <= top)
  BY <1>1, NewNetID
<1>3. inside \in [Players -> BOOLEAN] /\ netID \in [Players -> Nat]
  BY <1>1, TypesAre
<1>4. inside' = [inside EXCEPT ![p] = TRUE] /\ netID' = [netID EXCEPT ![p] = top + 1]
  BY DEF join_world
<1>5. UNCHANGED <<inv, t, dialog>> /\ ~inside[p]
  BY DEF join_world, goods
<1> HIDE DEF top
<1>6. inside'[p] /\ inside'[q] = inside[q] /\ netID'[p] = top + 1 /\ netID'[q] = netID[q]
  BY <1>1, <1>3, <1>4
<1>7. t[p].with = None /\ t[q].with = None
  BY <1>1, <1>5 DEF Half
<1>8. ~t[p].block /\ ~t[q].block /\ ~t[p].final /\ ~t[q].final
  BY <1>1, <1>7 DEF Half
<1>9. /\ IF inside'[q] THEN netID'[q] > 0 ELSE netID'[q] = 0
      /\ netID'[p] > 0
      /\ inside'[q] => netID'[p] # netID'[q]
  <2>1. netID[q] \in Nat
    BY <1>3
  <2>2. IF inside[q] THEN netID[q] > 0 ELSE netID[q] = 0
    BY <1>1 DEF Half
  <2> QED BY <1>2, <1>6, <2>1, <2>2
<1>10. /\ t[p].offer = NoOffer /\ t[q].offer = NoOffer
       /\ \A i \in Items : t[p].offer[i] <= inv[p][i] /\ t[q].offer[i] <= inv[q][i]
  BY <1>1, <1>7 DEF Half
<1> QED BY <1>5, <1>6, <1>7, <1>8, <1>9, <1>10 DEF Half

\* A trade is started, or its window opened again.
LEMMA StartPair ==
    ASSUME NEW p \in Players, NEW q \in Players, Couple(p, q), TypeOK', trade_started(p, q)
    PROVE  Half(p, q)' /\ Half(q, p)'
<1>1. /\ TypeOK /\ p # q /\ Half(p, q) /\ Half(q, p)
      /\ t \in [Players -> Fields] /\ netID \in [Players -> Nat]
  BY TypesAre DEF Couple
<1>2. /\ dialog[p] = NoDeal /\ inside[p] /\ inside[q]
      /\ UNCHANGED <<inside, netID, inv, dialog>>
  BY DEF trade_started, place, goods
<1>3. t[q].with \in {None, netID[p]}
  BY <1>1 DEF Half
<1>4. t' = [t EXCEPT ![p].with = netID[q], ![p].window = TRUE,
                     ![p].accept = FALSE, ![q].accept = FALSE]
  BY <1>3 DEF trade_started
<1>5. /\ t'[p].with = netID[q] /\ t'[p].block = t[p].block /\ t'[p].final = t[p].final
      /\ t'[p].agreed = t[p].agreed /\ t'[p].offer = t[p].offer
  BY <1>1, <1>4 DEF Fields
<1>6. SameCore(t'[q], t[q])
  BY <1>1, <1>4 DEF Fields, SameCore
<1>7. CASE t[p].with # None
  <2>1. SameCore(t'[p], t[p])
    BY <1>1, <1>5, <1>7 DEF Half, SameCore
  <2>2. Quiet(t', p, q)
    BY <1>6, <2>1 DEF Quiet
  <2>3. inv \in [Players -> Counts]
    BY <1>1 DEF TypeOK
  <2>4. \A r \in Players, i \in Items : inv[r][i] <= inv'[r][i]
    BY <1>2, <2>3, TradeAssumption DEF Counts
  <2> QED BY <1>2, <2>2, <2>4, QuietStep
<1>8. CASE t[p].with = None
  <2>1. ~t[p].block /\ ~t[q].block /\ ~t[p].final /\ ~t[q].final
    BY <1>1, <1>8 DEF Half
  <2>2. Couple(q, p)
    BY DEF Couple
  <2>3. \A i \in Items : t'[q].offer[i] <= inv'[q][i]
    BY <1>1, <1>2, <1>6 DEF Half, SameCore
  <2>4. Half(q, p)'
    BY <1>2, <1>6, <2>1, <2>2, <2>3, HalfKept
  <2>5. netID[q] \in Nat /\ None \notin Nat
    BY <1>1 DEF None
  <2>6. \A i \in Items : t'[p].offer[i] <= inv'[p][i]
    BY <1>1, <1>2, <1>5 DEF Half
  <2>7. Half(p, q)'
    BY <1>1, <1>2, <1>5, <2>1, <2>5, <2>6 DEF Half
  <2> QED BY <2>4, <2>7
<1> QED BY <1>7, <1>8

\* An offer is changed only while nothing has been shown.
LEMMA ModPair ==
    ASSUME NEW p \in Players, NEW q \in Players, Couple(p, q), TypeOK',
           NEW i \in Items, NEW n \in Int, n <= inv[p][i],
           NEW remove \in BOOLEAN, mod_trade(p, i, n, remove),
           UNCHANGED <<inside, netID, inv, dialog>>
    PROVE  Half(p, q)' /\ Half(q, p)'
<1> DEFINE Reset(T, Q) == [r \in Players |-> IF r \in Q THEN [T[r] EXCEPT !.accept = FALSE] ELSE T[r]]
           m == IF remove THEN 0 ELSE n
           new == [t EXCEPT ![p].offer[i] = m]
           Edited == /\ ~t[p].block /\ ~t[q].block
                     /\ SameCore(t'[q], t[q])
                     /\ SameCore(t'[p], new[p])
<1>1. /\ TypeOK /\ p # q /\ Half(p, q) /\ Half(q, p) /\ Players = {p, q}
      /\ t \in [Players -> Fields] /\ inv \in [Players -> Counts]
  BY TypesAre DEF Couple, TypeOK
<1>2. t[p].with # None
  BY DEF mod_trade
<1>3. Partner(p) = IF Mutual(p, q) THEN {q} ELSE {}
  BY PartnerIs
<1>4. Cap \in Nat /\ \A r \in Players, j \in Items : inv[r][j] \in 0..Cap /\ inv[r][j] <= inv[r][j]
  BY <1>1, TradeAssumption DEF Counts
<1>m. m \in Int /\ m <= Cap /\ m <= inv[p][i]
  BY <1>4
<1>5. ASSUME NEW T \in [Players -> Fields], NEW Q
      PROVE  SameCore(Reset(T, Q)[p], T[p]) /\ SameCore(Reset(T, Q)[q], T[q])
  <2>1. \A f \in Fields : SameCore([f EXCEPT !.accept = FALSE], f)
    BY DEF Fields, SameCore
  <2>2. \A f : SameCore(f, f)
    BY DEF SameCore
  <2> QED BY <2>1, <2>2
<1>6. /\ new \in [Players -> Fields] /\ new[q] = t[q]
      /\ new[p].with = t[p].with /\ new[p].block = t[p].block /\ new[p].final = t[p].final
      /\ new[p].offer = [t[p].offer EXCEPT ![i] = m]
  <2> HIDE DEF m
  <2>1. t[p].offer \in Offers /\ [t[p].offer EXCEPT ![i] = m] \in Offers
    BY <1>1, <1>m DEF Fields, Offers
  <2>2. \A f \in Fields, o \in Offers :
            LET g == [f EXCEPT !.offer = o]
            IN  /\ g \in Fields /\ g.with = f.with /\ g.block = f.block
                /\ g.final = f.final /\ g.offer = o
    BY DEF Fields
  <2>3. new = [t EXCEPT ![p] = [t[p] EXCEPT !.offer = [t[p].offer EXCEPT ![i] = m]]]
    OBVIOUS
  <2>4. new[p] = [t[p] EXCEPT !.offer = [t[p].offer EXCEPT ![i] = m]] /\ new[q] = t[q]
    BY <1>1, <2>3
  <2>5. t[p] \in Fields
    BY <1>1
  <2>6. [t[p] EXCEPT !.offer = [t[p].offer EXCEPT ![i] = m]] \in Fields
    BY <2>1, <2>2, <2>5
  <2>7. new \in [Players -> Fields]
    BY <1>1, <2>3, <2>6
  <2> QED BY <2>1, <2>2, <2>4, <2>5, <2>7
<1>7. ASSUME Quiet(t', p, q) PROVE Half(p, q)' /\ Half(q, p)'
  BY <1>4, <1>7, QuietStep
<1>8. ASSUME Edited PROVE Half(p, q)' /\ Half(q, p)'
  <2>1. ~t[p].final /\ ~t[q].final /\ dialog[p] = NoDeal
    BY <1>1, <1>2, <1>8 DEF Half
  <2>2. Couple(q, p)
    BY DEF Couple
  <2>3. \A j \in Items : t'[q].offer[j] <= inv'[q][j]
    BY <1>1, <1>8 DEF Half, SameCore
  <2>4. Half(q, p)'
    BY <1>8, <2>2, <2>3, HalfKept
  <2>5. /\ t'[p].with = t[p].with /\ ~t'[p].block /\ ~t'[p].final
        /\ t'[p].offer = [t[p].offer EXCEPT ![i] = m]
    BY <1>6, <1>8, <2>1 DEF SameCore
  <2>6. \A j \in Items : t'[p].offer[j] <= inv'[p][j]
    <3>1. t[p].offer \in Offers /\ \A j \in Items : t[p].offer[j] <= inv[p][j]
      BY <1>1 DEF Fields, Half
    <3> HIDE DEF m
    <3> QED BY <1>m, <2>5, <3>1 DEF Offers
  <2>7. Half(p, q)'
    BY <1>1, <1>2, <2>1, <2>5, <2>6 DEF Half
  <2> QED BY <2>4, <2>7
<1> HIDE DEF Reset, new
<1>9. CASE Partner(p) = {} /\ t' = IF inside[p] THEN Reset(new, {p}) ELSE new
  <2>1. ~t[p].block /\ ~t[q].block
    BY <1>1, <1>2, <1>3, <1>9 DEF Half, Mutual
  <2>2. \A f : SameCore(f, f)
    BY DEF SameCore
  <2>3. SameCore(t'[p], new[p]) /\ SameCore(t'[q], new[q])
    BY <1>5, <1>6, <1>9, <2>2
  <2> QED BY <1>6, <1>8, <2>1, <2>3
<1>10. ASSUME t[p].block \/ t[q].block, t' = Cancel(IF t[p].block THEN p ELSE q)
       PROVE  Half(p, q)' /\ Half(q, p)'
  <2>1. t' = Cancel(p) \/ t' = Cancel(q)
    BY <1>10
  <2>2. Quiet(Cancel(p), p, q) /\ Quiet(Cancel(q), p, q)
    BY CancelQuiet
  <2> QED BY <1>7, <2>1, <2>2
<1>11. ASSUME ~t[p].block, ~t[q].block,
              t' = Reset(IF remove /\ t[p].offer[i] = 0 THEN Cancel(p) ELSE new, {p, q})
       PROVE  Half(p, q)' /\ Half(q, p)'
  <2>1. CASE t' = Reset(Cancel(p), {p, q})
    <3>1. Cancel(p) \in [Players -> Fields]
      BY <1>1, CancelType DEF Cancel
    <3>2. SameCore(t'[p], Cancel(p)[p]) /\ SameCore(t'[q], Cancel(p)[q])
      BY <1>5, <2>1, <3>1
    <3>3. Quiet(t', p, q)
      BY <3>2, CancelQuiet
    <3> QED BY <1>7, <3>3
  <2>2. CASE t' = Reset(new, {p, q})
    <3>1. SameCore(t'[p], new[p]) /\ SameCore(t'[q], new[q])
      BY <1>5, <1>6, <2>2
    <3> QED BY <1>6, <1>8, <1>11, <3>1
  <2> QED BY <1>11, <2>1, <2>2
<1>12. \A r \in Partner(p) : r = q
  BY <1>3
<1> QED BY <1>9, <1>10, <1>11, <1>12 DEF mod_trade, new, Reset

\* The second acceptance shows both players the same deal.
LEMMA AcceptPair ==
    ASSUME NEW p \in Players, NEW q \in Players, Couple(p, q), TypeOK',
           NEW status \in BOOLEAN, trade_accept(p, status)
    PROVE  Half(p, q)' /\ Half(q, p)'
<1>1. /\ TypeOK /\ p # q /\ Half(p, q) /\ Half(q, p)
      /\ t \in [Players -> Fields] /\ inv \in [Players -> Counts]
      /\ dialog \in [Players -> Deal \cup {NoDeal}]
  BY TypesAre DEF Couple, TypeOK
<1>2. UNCHANGED <<inside, netID, inv>>
  BY DEF trade_accept, place, goods
<1>3. Partner(p) = IF Mutual(p, q) THEN {q} ELSE {}
  BY PartnerIs
<1>4. \A r \in Players, i \in Items : inv[r][i] <= inv'[r][i]
  BY <1>1, <1>2, TradeAssumption DEF Counts
<1>5. ASSUME Quiet(t', p, q), UNCHANGED dialog PROVE Half(p, q)' /\ Half(q, p)'
  BY <1>2, <1>4, <1>5, QuietStep
<1>6. \A f : SameCore(f, f)
  BY DEF SameCore
<1>7. ASSUME NEW b, t' = [t EXCEPT ![p].accept = b] PROVE Quiet(t', p, q)
  <2>1. SameCore(t'[p], t[p]) /\ SameCore(t'[q], t[q])
    BY <1>1, <1>7 DEF Fields, SameCore
  <2> QED BY <2>1 DEF Quiet
<1>8. ASSUME t' = [t EXCEPT ![p].accept = FALSE, ![q].accept = FALSE] PROVE Quiet(t', p, q)
  <2>1. SameCore(t'[p], t[p]) /\ SameCore(t'[q], t[q])
    BY <1>1, <1>8 DEF Fields, SameCore
  <2> QED BY <2>1 DEF Quiet
<1>9. ASSUME t' = [Cancel(IF Lacks(q) THEN q ELSE p) EXCEPT ![p].accept = TRUE]
      PROVE  Quiet(t', p, q)
  <2>1. PICK T \in {Cancel(p), Cancel(q)} : t' = [T EXCEPT ![p].accept = TRUE]
    BY <1>9
  <2>2. T \in [Players -> Fields]
    BY <1>1, CancelType DEF Cancel
  <2>3. SameCore(t'[p], T[p]) /\ SameCore(t'[q], T[q])
    BY <1>1, <2>1, <2>2 DEF Fields, SameCore
  <2>4. Quiet(T, p, q)
    BY CancelQuiet
  <2> QED BY <2>3, <2>4, CancelQuiet
<1>10. ASSUME Mutual(p, q), send_trade_confirm_dialog(p, q)
       PROVE  Half(p, q)' /\ Half(q, p)'
  <2>1. /\ t'[p].with = t[p].with /\ t'[p].block /\ t'[p].final = t[p].final
        /\ t'[p].agreed = t[p].agreed /\ t'[p].offer = t[p].offer
    BY <1>1, <1>10 DEF send_trade_confirm_dialog, Fields
  <2>2. /\ t'[q].with = t[q].with /\ t'[q].block /\ t'[q].final = t[q].final
        /\ t'[q].agreed = t[q].agreed /\ t'[q].offer = t[q].offer
    BY <1>1, <1>10 DEF send_trade_confirm_dialog, Fields
  <2>3. Shown(p, q)' = Shown(p, q) /\ Shown(q, p)' = Shown(q, p)
    BY <2>1, <2>2 DEF Shown
  <2>4. dialog'[p] = Shown(p, q) /\ dialog'[q] = Shown(q, p)
    BY <1>1, <1>10 DEF send_trade_confirm_dialog
  <2>5. /\ t[p].final => t[p].agreed = Shown(p, q)
        /\ t[q].final => t[q].agreed = Shown(q, p)
    BY <1>1 DEF Half
  <2>6. Half(p, q)'
    BY <1>1, <1>2, <1>10, <2>1, <2>2, <2>3, <2>4, <2>5 DEF Half, Mutual
  <2>7. Half(q, p)'
    BY <1>1, <1>2, <1>10, <2>1, <2>2, <2>3, <2>4, <2>5 DEF Half, Mutual
  <2> QED BY <2>6, <2>7
<1>11. \A r \in Partner(p) : r = q /\ Mutual(p, q)
  BY <1>3
<1> QED BY <1>5, <1>7, <1>8, <1>9, <1>10, <1>11 DEF trade_accept

\* The second confirmation executes the deal both have seen.
LEMMA ConfirmPair ==
    ASSUME NEW p \in Players, NEW q \in Players, Couple(p, q), TypeOK', confirm_accept(p)
    PROVE  exact' /\ Half(p, q)' /\ Half(q, p)'
<1> DEFINE T == [t EXCEPT ![p].final = TRUE, ![p].agreed = dialog[p]]
<1>1. /\ TypeOK /\ exact /\ p # q /\ Half(p, q) /\ Half(q, p)
      /\ t \in [Players -> Fields] /\ inv \in [Players -> Counts]
      /\ dialog \in [Players -> Deal \cup {NoDeal}]
  BY TypesAre DEF Couple, TypeOK
<1>2. /\ UNCHANGED <<inside, netID>> /\ dialog[p] # NoDeal
      /\ dialog' = [dialog EXCEPT ![p] = NoDeal]
  BY DEF confirm_accept, place
<1>3. Partner(p) = IF Mutual(p, q) THEN {q} ELSE {}
  BY PartnerIs
<1>4. dialog'[p] = NoDeal /\ dialog'[q] = dialog[q]
  BY <1>1, <1>2
<1>5. ASSUME Quiet(t', p, q), UNCHANGED <<inv, deals>>
      PROVE  exact' /\ Half(p, q)' /\ Half(q, p)'
  <2>1. \A r \in Players, i \in Items : inv[r][i] <= inv'[r][i]
    BY <1>1, <1>5, TradeAssumption DEF Counts
  <2> QED BY <1>1, <1>2, <1>4, <1>5, <2>1, QuietStep DEF deals
<1>6. Blank(Fresh) /\ \A f : SameCore(f, f)
  BY DEF Blank, Fresh, SameCore
<1>7. CASE Partner(p) = {} /\ t' = [t EXCEPT ![p] = Fresh] /\ UNCHANGED <<inv, deals>>
  <2>1. ~t[q].block
    BY <1>1, <1>3, <1>7 DEF Half, Mutual
  <2>2. t'[p] = Fresh /\ t'[q] = t[q]
    BY <1>1, <1>7
  <2>3. Quiet(t', p, q)
    BY <1>6, <2>1, <2>2 DEF Quiet
  <2> QED BY <1>5, <1>7, <2>3
<1>8. ASSUME Mutual(p, q) PROVE t[p].block /\ dialog[p] = Shown(p, q)
  BY <1>1, <1>2, <1>8 DEF Half, Mutual
<1>9. /\ T[p].with = t[p].with /\ T[p].block = t[p].block /\ T[p].final
      /\ T[p].agreed = dialog[p] /\ T[p].offer = t[p].offer
      /\ T[q] = t[q] /\ T \in [Players -> Fields]
  BY <1>1 DEF Fields
<1> HIDE DEF T
<1>10. ASSUME Mutual(p, q), t' = T, UNCHANGED <<inv, deals>>
       PROVE  exact' /\ Half(p, q)' /\ Half(q, p)'
  <2>1. Shown(p, q)' = Shown(p, q) /\ Shown(q, p)' = Shown(q, p)
    BY <1>9, <1>10 DEF Shown
  <2>2. Half(p, q)'
    BY <1>1, <1>2, <1>4, <1>8, <1>9, <1>10, <2>1 DEF Half
  <2>3. Half(q, p)'
    BY <1>1, <1>2, <1>4, <1>8, <1>9, <1>10, <2>1 DEF Half
  <2> QED BY <1>1, <1>10, <2>2, <2>3 DEF deals
<1>11. ASSUME Mutual(p, q), t[q].final, Execute(T, p, q),
              trade_space_check(p, t[q].offer), trade_space_check(q, t[p].offer)
       PROVE  exact' /\ Half(p, q)' /\ Half(q, p)'
  <2>1. T[p].agreed = Shown(p, q) /\ T[q].agreed = Shown(q, p)
    BY <1>1, <1>8, <1>9, <1>11 DEF Half
  <2> DEFINE o == t[p].offer
             r == t[q].offer
             J == Deliver(Deliver(inv, p, q, o), q, p, r)
  <2>2. inv \in Backpacks /\ inv' = J /\ T[p].offer = o /\ T[q].offer = r
    BY <1>1, <1>9, <1>11, TypesAre DEF Execute
  <2>o. \A i \in Items : o[i] <= inv[p][i] /\ r[i] <= inv[q][i]
    BY <1>1 DEF Half
  <2>x. o \in Counts /\ r \in Counts => Exchanged(inv, J, p, q, o, r)
    BY <1>1, <1>11, <2>2, <2>o, ExecuteGoods
  <2> HIDE DEF J, o, r
  <2>3. exact'
    BY <1>1, <1>11, <2>1, <2>2, <2>x DEF Execute
  <2>4. t'[p] = Fresh /\ t'[q] = Fresh
    BY <1>9, <1>11 DEF Execute
  <2>5. Quiet(t', p, q)
    BY <1>6, <2>4 DEF Quiet
  <2> QED BY <1>2, <1>4, <1>6, <2>3, <2>4, <2>5, QuietStep
<1>12. ASSUME t' = Cancel(p), UNCHANGED <<inv, deals>>
       PROVE  exact' /\ Half(p, q)' /\ Half(q, p)'
  BY <1>5, <1>12, CancelQuiet
<1>13. \A r \in Partner(p) : r = q /\ Mutual(p, q)
  BY <1>3
<1> QED BY <1>7, <1>10, <1>11, <1>12, <1>13 DEF confirm_accept, T

\* Nothing of an offer is dropped: a player who trades stops trading.
LEMMA DropPair ==
    ASSUME NEW p \in Players, NEW q \in Players, Couple(p, q), TypeOK',
           NEW i \in Items, drop(p, i) \/ \E n \in 1..Cap : drop_item(p, i, n)
    PROVE  Half(p, q)' /\ Half(q, p)'
<1>1. /\ TypeOK /\ p # q /\ Half(p, q) /\ Half(q, p) /\ inv \in [Players -> Counts]
  BY TypesAre DEF Couple, TypeOK
<1>2. UNCHANGED <<inside, netID, dialog>>
  BY DEF drop, drop_item, place
<1>3. inv'[q] = inv[q]
  <2>1. \E n : inv' = Modify(inv, p, i, n)
    BY DEF drop, drop_item
  <2> QED BY <1>1, <2>1 DEF Modify
<1>4. \A j \in Items : inv[q][j] <= inv'[q][j]
  BY <1>1, <1>3, TradeAssumption DEF Counts
<1>5. Blank(t'[p]) /\ Quiet(t', p, q)
  <2>1. CASE t[p].with # None
    BY <2>1, CancelQuiet DEF drop, drop_item
  <2>2. CASE t[p].with = None
    <3>1. t' = t
      BY <2>2 DEF drop, drop_item
    <3>2. Blank(t[p]) /\ ~t[q].block
      BY <1>1, <2>2 DEF Half, Blank
    <3>3. SameCore(t[q], t[q])
      BY DEF SameCore
    <3> QED BY <3>1, <3>2, <3>3 DEF Quiet
  <2> QED BY <2>1, <2>2
<1> QED BY <1>2, <1>4, <1>5, QuietStep

\* What is collected is no part of an offer, and the trade goes on.
LEMMA CollectPair ==
    ASSUME NEW p \in Players, NEW q \in Players, Couple(p, q), TypeOK',
           NEW i \in Items, collect(p, i)
    PROVE  Half(p, q)' /\ Half(q, p)'
<1>1. /\ TypeOK /\ inv \in [Players -> Counts] /\ ground \in [Items -> Nat] /\ Cap \in Nat
  BY TypesAre, TradeAssumption DEF Couple, TypeOK
<1>2. UNCHANGED <<inside, netID, dialog, t>>
  BY DEF collect, place
<1>3. PICK stack \in 1..Min({ground[i], Cap}) :
          inv' = [inv EXCEPT ![p][i] = @ + Min({stack, Cap - inv[p][i]})]
  BY DEF collect
<1> DEFINE n == Min({stack, Cap - inv[p][i]})
<1>4. n \in Nat
  <2>1. inv[p][i] \in 0..Cap /\ stack \in Nat /\ Cap - inv[p][i] \in Nat
    BY <1>1, <1>3 DEF Counts
  <2>2. \E c \in {stack, Cap - inv[p][i]} : \A d \in {stack, Cap - inv[p][i]} : c <= d
    BY <2>1
  <2> QED BY <2>1, <2>2 DEF Min
<1> HIDE DEF n
<1>5. \A r \in Players, j \in Items : inv[r][j] <= inv'[r][j]
  <2>1. inv' = [inv EXCEPT ![p][i] = @ + n]
    BY <1>3 DEF n
  <2> QED BY <1>1, <1>4, <2>1 DEF Counts
<1>6. Quiet(t', p, q)
  BY <1>2, CancelQuiet
<1> QED BY <1>2, <1>5, <1>6, QuietStep

\* Every step of p, with the other player q.
LEMMA PairStep ==
    ASSUME NEW p \in Players, NEW q \in Players, Couple(p, q), TypeOK', moves = 0, moves' = 0,
           \/ trade_cancel(p) \/ confirm_back(p) \/ confirm_accept(p)
           \/ join_world(p) \/ exit_(p) \/ Disconnect(p)
           \/ \E r \in Players : trade_started(p, r)
           \/ \E status \in BOOLEAN : trade_accept(p, status)
           \/ \E i \in Items : Rem_Trade(p, i) \/ Mod_Trade(p, i) \/ drop(p, i) \/ collect(p, i)
           \/ \E i \in Items, n \in Typed : trade_item(p, i, n)
           \/ \E i \in Items, n \in 1..Cap : drop_item(p, i, n)
    PROVE  exact' /\ Half(p, q)' /\ Half(q, p)'
<1> DEFINE Goal == exact' /\ Half(p, q)' /\ Half(q, p)'
<1>1. /\ exact /\ p # q /\ Players = {p, q} /\ Cap \in Nat
      /\ inv \in [Players -> Counts] /\ dialog \in [Players -> Deal \cup {NoDeal}]
  BY TradeAssumption DEF Couple, TypeOK
<1>2. Quiet(Cancel(p), p, q) /\ Blank(Cancel(p)[p])
  BY CancelQuiet
<1>3. \A r \in Players, i \in Items : inv[r][i] \in 0..Cap /\ inv[r][i] <= inv[r][i]
  BY <1>1 DEF Counts
<1> HIDE DEF Goal
<1>4. ASSUME trade_cancel(p) PROVE Goal
  <2>1. t' = Cancel(p) /\ UNCHANGED <<inside, netID, inv, exact, dialog>>
    BY <1>4 DEF trade_cancel, place, goods, deals
  <2> QED BY <1>1, <1>2, <1>3, <2>1, QuietStep DEF Goal
<1>5. ASSUME confirm_back(p) PROVE Goal
  <2>1. t' = Cancel(p) /\ UNCHANGED <<inside, netID, inv, exact>>
    BY <1>5 DEF confirm_back, place, goods, deals
  <2>2. dialog'[p] = NoDeal /\ dialog'[q] = dialog[q]
    BY <1>1, <1>5 DEF confirm_back
  <2> QED BY <1>1, <1>2, <1>3, <2>1, <2>2, QuietStep DEF Goal
<1>6. ASSUME confirm_accept(p) PROVE Goal
  BY <1>6, ConfirmPair DEF Goal
<1>7. ASSUME join_world(p) PROVE Goal
  BY <1>1, <1>7, JoinPair DEF Goal, join_world, goods, deals
<1>8. ~exit_(p) /\ ~Disconnect(p)
  BY DEF exit_, Disconnect
<1>9. ASSUME NEW r \in Players, trade_started(p, r) PROVE Goal
  <2>1. r = q
    BY <1>1, <1>9 DEF trade_started
  <2> QED BY <1>1, <1>9, <2>1, StartPair DEF Goal, trade_started, goods, deals
<1>10. ASSUME NEW status \in BOOLEAN, trade_accept(p, status) PROVE Goal
  BY <1>1, <1>10, AcceptPair DEF Goal, trade_accept, goods, deals
<1>11. ASSUME NEW i \in Items,
              Rem_Trade(p, i) \/ Mod_Trade(p, i) \/ \E n \in Typed : trade_item(p, i, n)
       PROVE  Goal
  <2>1. TypeOK
    BY DEF Couple
  <2>2. PICK n \in Int, remove \in BOOLEAN : n <= inv[p][i] /\ mod_trade(p, i, n, remove)
    BY <1>11, <2>1, WindowMessage
  <2>3. UNCHANGED <<inside, netID, inv, dialog, exact>>
    BY <1>11, <2>1, WindowMessage DEF place, goods, deals
  <2> QED BY <1>1, <2>2, <2>3, ModPair DEF Goal
<1>12. ASSUME NEW i \in Items, drop(p, i) \/ \E n \in 1..Cap : drop_item(p, i, n) PROVE Goal
  <2>1. UNCHANGED exact
    BY <1>12 DEF drop, drop_item, deals
  <2> QED BY <1>1, <1>12, <2>1, DropPair DEF Goal
<1>13. ASSUME NEW i \in Items, collect(p, i) PROVE Goal
  BY <1>1, <1>13, CollectPair DEF Goal, collect, deals
<1>14. Goal
  BY <1>4, <1>5, <1>6, <1>7, <1>8, <1>9, <1>10, <1>11, <1>12, <1>13
<1> QED BY <1>14 DEF Goal

\* Two players: each is the other's only possible partner.
LEMMA TwoPlayers ==
    ASSUME Cardinality(Players) = 2, NEW p \in Players
    PROVE  \E q \in Players : p # q /\ Players = {p, q}
<1>1. IsFiniteSet(Players) /\ IsFiniteSet(Players \ {p})
  BY TradeAssumption, FS_RemoveElement
<1>2. Cardinality(Players \ {p}) = 1
  BY <1>1, FS_RemoveElement
<1>3. PICK q : Players \ {p} = {q}
  BY <1>1, <1>2, FS_Singleton
<1> QED BY <1>3

\* PairInv is kept by every step.
LEMMA PairInductive == TypeOK /\ TypeOK' /\ PairInv /\ [Next]_vars => PairInv'
<1> SUFFICES ASSUME TypeOK, TypeOK', PairInv, [Next]_vars,
                    Cardinality(Players) = 2, moves' = 0
             PROVE  exact' /\ \A p, q \in Players : p # q => Half(p, q)'
  BY DEF PairInv
<1>1. CASE UNCHANGED vars
  <2>1. moves = 0 /\ UNCHANGED <<inside, netID, inv, t, dialog, exact>>
    BY <1>1 DEF vars
  <2>2. exact /\ \A p, q \in Players : p # q => Half(p, q)
    BY <2>1 DEF PairInv
  <2>3. \A p, q \in Players : Half(p, q)' = Half(p, q)
    BY <2>1 DEF Half, Shown
  <2> QED BY <2>1, <2>2, <2>3
<1>2. CASE Next
  <2>1. PICK p \in Players :
            \/ trade_cancel(p) \/ confirm_back(p) \/ confirm_accept(p)
            \/ join_world(p) \/ exit_(p) \/ Disconnect(p)
            \/ \E r \in Players : trade_started(p, r)
            \/ \E status \in BOOLEAN : trade_accept(p, status)
            \/ \E i \in Items : Rem_Trade(p, i) \/ Mod_Trade(p, i) \/ drop(p, i) \/ collect(p, i)
            \/ \E i \in Items, n \in Typed : trade_item(p, i, n)
            \/ \E i \in Items, n \in 1..Cap : drop_item(p, i, n)
    BY <1>2 DEF Next
  <2>2. moves = 0
    <3>1. moves \in Nat
      BY TradeAssumption DEF TypeOK
    <3>2. moves' = moves \/ moves' = moves + 1
      BY <2>1 DEF trade_cancel, confirm_back, confirm_accept, join_world, exit_, Disconnect,
                  trade_started, trade_accept, Rem_Trade, collect, Mod_Trade, trade_item,
                  drop, drop_item, place
    <3> QED BY <3>1, <3>2
  <2>3. PICK q \in Players : p # q /\ Players = {p, q}
    BY TwoPlayers
  <2>4. Couple(p, q)
    BY <2>2, <2>3 DEF PairInv, Couple
  <2>5. exact' /\ Half(p, q)' /\ Half(q, p)'
    BY <2>1, <2>2, <2>4, PairStep
  <2> QED BY <2>3, <2>5
<1> QED BY <1>1, <1>2

\* For two players who stay in the world, and any items, offers and backpacks,
\* trade_confirm executes the deal that both have confirmed, and moves exactly it
\* if no count of it is below zero.
THEOREM ConfirmedInWorldCorrect == Spec => []ConfirmedInWorld
<1>1. Init => PairInv
  <2> SUFFICES ASSUME Init, NEW p \in Players, NEW q \in Players, p # q PROVE exact /\ Half(p, q)
    BY DEF PairInv, Init
  <2>1. /\ ~inside[p] /\ netID[p] = 0 /\ t[p] = Fresh /\ dialog[p] = NoDeal
        /\ inv[p] = Initial[p] /\ exact
    BY DEF Init
  <2>2. \A i \in Items : Fresh.offer[i] <= Initial[p][i]
    BY TradeAssumption DEF Fresh, NoOffer, Counts
  <2> QED BY <2>1, <2>2 DEF Half, Fresh
<1>2. TypeOK /\ TypeOK' /\ PairInv /\ [Next]_vars => PairInv'
  BY PairInductive
<1>3. PairInv => ConfirmedInWorld
  BY DEF PairInv, ConfirmedInWorld
<1> QED BY <1>1, <1>2, <1>3, TradeTypes, PTL DEF Spec
=============================================================================
