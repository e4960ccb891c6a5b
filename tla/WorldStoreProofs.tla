-------------------------- MODULE WorldStoreProofs --------------------------
(***************************************************************************)
(* Proofs about WorldStore for any peers, worlds and bounds.               *)
(***************************************************************************)
EXTENDS WorldStore, FiniteSetTheorems, Lemmas

\* Worlds and saves whose content is that of the name they carry.
OwnWorld == {x \in World : \A e \in x.ver : e[1] = x.name}
OwnSave == {s \in Save : \A e \in s.data : e[1] = s.name}

Loaded(ws, w) == \E i \in 1 .. Len(ws) : ws[i].name = w

\* The worlds other than w that are in the vector ws are in vs.
OthersStay(ws, vs, w) == \A v : v # w /\ Loaded(ws, v) => Loaded(vs, v)

\* The vector vs has the worlds of ws at their positions.
InPlace(ws, vs) == /\ Len(vs) = Len(ws)
                   /\ \A i \in 1 .. Len(ws) : vs[i].name = ws[i].name

\* A world of the vector ws has change e and is marked for saving.
DirtyIn(ws, e) == \E i \in 1 .. Len(ws) : ws[i].fresh_world /\ e \in ws[i].ver

\* What ws has to save is still to be saved in vs, or is in the saves of json.
NoneLost(ws, vs, json) == \A e : DirtyIn(ws, e) => DirtyIn(vs, e) \/ InSaves(e, json)

\* The worlds of vs have the marks and all the changes of those of ws.
Grown(ws, vs) == \A i \in 1 .. Len(ws) : /\ vs[i].fresh_world = ws[i].fresh_world
                                         /\ ws[i].ver \subseteq vs[i].ver

\* The scan of the vector finds a world of the name, if there is one.
LEMMA FindIf ==
    ASSUME NEW ws \in Seq(World), NEW w
    PROVE  LET i == find_if(ws, w)
           IN  \/ i = 0 /\ ~Loaded(ws, w)
               \/ i \in 1 .. Len(ws) /\ ws[i].name = w
<1> DEFINE S == {i \in 1 .. Len(ws) : ws[i].name = w}
<1>d. DOMAIN ws = 1 .. Len(ws) /\ Len(ws) \in Nat
  OBVIOUS
<1>1. CASE S = {}
  BY <1>d, <1>1 DEF find_if, Loaded
<1>2. CASE S # {}
  <2>1. S \in SUBSET Nat
    BY <1>d
  <2>2. PICK n \in S : \A m \in S : n <= m
    BY <1>2, <2>1, Least
  <2>3. n \in 1 .. Len(ws) /\ ws[n].name = w
    BY <2>2
  <2>4. ASSUME NEW j \in 1 .. n - 1 PROVE ws[j].name # w
    <3>1. j \in 1 .. Len(ws) /\ ~(n <= j)
      BY <1>d, <2>3
    <3> QED BY <2>2, <3>1
  <2> DEFINE P(i) == ws[i].name = w /\ \A j \in 1 .. i - 1 : ws[j].name # w
  <2>5. \E i \in DOMAIN ws : P(i)
    BY <1>d, <2>3, <2>4
  <2>6. find_if(ws, w) = CHOOSE i \in DOMAIN ws : P(i)
    BY <1>d, <2>3 DEF find_if
  <2> HIDE DEF P
  <2>7. find_if(ws, w) \in DOMAIN ws /\ P(find_if(ws, w))
    BY <2>5, <2>6
  <2> QED BY <1>d, <2>7 DEF P
<1> QED BY <1>1, <1>2

\* The same for the lookup through worlds_idx, whatever the index guesses.
LEMMA FindWorld ==
    ASSUME NEW ws \in Seq(World), NEW idx \in [Worlds -> Nat], NEW w \in Worlds
    PROVE  LET i == find_world(ws, idx, w)
           IN  /\ i \in Nat
               /\ \/ i = 0 /\ ~Loaded(ws, w)
                  \/ i \in 1 .. Len(ws) /\ ws[i].name = w
<1>d. DOMAIN ws = 1 .. Len(ws) /\ Len(ws) \in Nat
  OBVIOUS
<1>1. CASE idx[w] \in DOMAIN ws /\ ws[idx[w]].name = w
  BY <1>d, <1>1 DEF find_world
<1>2. CASE ~(idx[w] \in DOMAIN ws /\ ws[idx[w]].name = w)
  <2>1. find_world(ws, idx, w) = find_if(ws, w)
    BY <1>2 DEF find_world
  <2> HIDE DEF find_world
  <2> QED BY <1>d, <2>1, FindIf
<1> QED BY <1>1, <1>2

\* The types of worlds and saves contain the ones with their own content.
LEMMA OwnTypes ==
    /\ OwnWorld \subseteq World
    /\ OwnSave \subseteq Save
    /\ Seq(OwnWorld) \subseteq Seq(World)
    /\ Seq(OwnSave) \subseteq Seq(Save)
<1>1. OwnWorld \subseteq World /\ OwnSave \subseteq Save
  BY DEF OwnWorld, OwnSave
<1>2. ASSUME NEW q \in Seq(OwnWorld) PROVE q \in Seq(World)
  BY <1>1
<1>3. ASSUME NEW q \in Seq(OwnSave) PROVE q \in Seq(Save)
  BY <1>1
<1> QED BY <1>1, <1>2, <1>3

\* Clearing fresh_world of one world keeps its name and content.
LEMMA MarkWorld ==
    ASSUME NEW ws \in Seq(OwnWorld), NEW k \in 1 .. Len(ws), NEW b \in BOOLEAN
    PROVE  LET vs == [ws EXCEPT ![k].fresh_world = b]
           IN  /\ vs \in Seq(OwnWorld) /\ Len(vs) = Len(ws)
               /\ \A i \in 1 .. Len(ws) : /\ vs[i].name = ws[i].name
                                          /\ vs[i].ver = ws[i].ver
                                          /\ i # k => vs[i] = ws[i]
               /\ vs[k].fresh_world = b
<1> DEFINE x == [ws[k] EXCEPT !.fresh_world = b]
           vs == [ws EXCEPT ![k] = x]
<1>1. ws[k] \in OwnWorld
  OBVIOUS
<1>2. x \in OwnWorld /\ x.name = ws[k].name /\ x.ver = ws[k].ver /\ x.fresh_world = b
  BY <1>1 DEF OwnWorld, World
<1>3. vs = [ws EXCEPT ![k].fresh_world = b]
  OBVIOUS
<1> HIDE DEF x
<1>4. /\ vs \in Seq(OwnWorld) /\ Len(vs) = Len(ws)
      /\ \A i \in 1 .. Len(ws) : i # k => vs[i] = ws[i]
      /\ vs[k] = x
  BY <1>2
<1> HIDE DEF vs
<1> QED BY <1>2, <1>3, <1>4

\* What save_world does: it gives out at most one save, of the world it was
\* called for; it keeps the positions unless it unloads; it keeps the other
\* worlds; and a change marked for saving stays marked or is in the save.
LEMMA SaveWorld ==
    ASSUME NEW ws \in Seq(OwnWorld), NEW idx \in [Worlds -> Nat], NEW w \in Worlds,
           NEW erase \in BOOLEAN, NEW r, r = save_world(ws, idx, w, erase)
    PROVE  /\ r.worlds \in Seq(OwnWorld)
           /\ r.idx \in [Worlds -> Nat]
           /\ r.json \in Seq(OwnSave)
           /\ r.json = <<>> \/ (Len(r.json) = 1 /\ r.json[1] \in OwnSave)
           /\ erase \/ InPlace(ws, r.worlds)
           /\ OthersStay(ws, r.worlds, w)
           /\ NoneLost(ws, r.worlds, r.json)
<1> DEFINE i == find_world(ws, idx, w)
           unload == erase /\ w \notin Pinned
           writes == i # 0 /\ (ws[i].fresh_world \/ (erase /\ ~unload))
           s == [name |-> w, data |-> ws[i].ver]
<1>r. /\ r.json = IF writes THEN <<s>> ELSE <<>>
      /\ r.worlds = IF i = 0 THEN ws
                    ELSE IF unload THEN RemoveAt(ws, i)
                    ELSE [ws EXCEPT ![i].fresh_world = FALSE]
      /\ r.idx = [idx EXCEPT ![w] = IF unload THEN 0 ELSE i]
  BY DEF save_world
<1>i. /\ i \in Nat
      /\ \/ i = 0 /\ ~Loaded(ws, w)
         \/ i \in 1 .. Len(ws) /\ ws[i].name = w
  BY FindWorld, OwnTypes
<1>s. i # 0 => s \in OwnSave
  BY <1>i DEF OwnSave, Save, OwnWorld, World
<1>w. writes \in BOOLEAN /\ unload \in BOOLEAN /\ (writes => i # 0)
      /\ (i # 0 /\ ws[i].fresh_world => writes) /\ (unload => erase)
  <2>1. i # 0 => ws[i].fresh_world \in BOOLEAN
    BY <1>i DEF OwnWorld, World
  <2> QED BY <2>1
<1> HIDE DEF i, unload, writes
<1>x. s.data = ws[i].ver
  OBVIOUS
<1> HIDE DEF s
<1>1. /\ r.json \in Seq(OwnSave)
      /\ r.json = <<>> \/ (Len(r.json) = 1 /\ r.json[1] \in OwnSave)
  <2>1. CASE writes
    BY <1>r, <1>s, <1>w, <2>1
  <2>2. CASE ~writes
    BY <1>r, <2>2
  <2> QED BY <2>1, <2>2
<1>2. r.idx \in [Worlds -> Nat]
  BY <1>r, <1>i
<1>e. ASSUME i # 0, NEW e, ws[i].fresh_world, e \in ws[i].ver PROVE InSaves(e, r.json)
  <2>1. r.json = <<s>> /\ e \in s.data
    BY <1>r, <1>w, <1>x, <1>e
  <2>2. Len(r.json) = 1 /\ r.json[1] = s
    BY <2>1
  <2> QED BY <2>1, <2>2 DEF InSaves
<1>3. CASE i = 0
  BY <1>r, <1>1, <1>2, <1>3 DEF OthersStay, InPlace, NoneLost
<1>4. CASE i # 0 /\ unload
  <2> DEFINE vs == RemoveAt(ws, i)
  <2>1. /\ vs \in Seq(OwnWorld)
        /\ \A j \in 1 .. Len(ws) : j # i => \E k \in 1 .. Len(vs) : vs[k] = ws[j]
    BY <1>i, <1>4, EraseElements
  <2> HIDE DEF vs
  <2>2. r.worlds = vs
    BY <1>r, <1>4 DEF vs
  <2>3. ASSUME NEW v, v # w, Loaded(ws, v) PROVE Loaded(vs, v)
    <3>1. PICK j \in 1 .. Len(ws) : ws[j].name = v
      BY <2>3 DEF Loaded
    <3>2. j # i
      BY <1>i, <1>4, <2>3, <3>1
    <3> QED BY <2>1, <3>1, <3>2 DEF Loaded
  <2>4. ASSUME NEW e, DirtyIn(ws, e) PROVE DirtyIn(vs, e) \/ InSaves(e, r.json)
    <3>1. PICK j \in 1 .. Len(ws) : ws[j].fresh_world /\ e \in ws[j].ver
      BY <2>4 DEF DirtyIn
    <3>2. CASE j = i
      BY <1>4, <1>e, <3>1, <3>2
    <3>3. CASE j # i
      BY <2>1, <3>1, <3>3 DEF DirtyIn
    <3> QED BY <3>2, <3>3
  <2> QED BY <1>1, <1>2, <1>4, <1>w, <2>1, <2>2, <2>3, <2>4 DEF OthersStay, InPlace, NoneLost
<1>5. CASE i # 0 /\ ~unload
  <2> DEFINE vs == [ws EXCEPT ![i].fresh_world = FALSE]
  <2>1. /\ vs \in Seq(OwnWorld) /\ Len(vs) = Len(ws)
        /\ \A j \in 1 .. Len(ws) : vs[j].name = ws[j].name /\ (j # i => vs[j] = ws[j])
    <3>1. i \in 1 .. Len(ws) /\ FALSE \in BOOLEAN
      BY <1>i, <1>5
    <3> HIDE DEF vs
    <3>2. /\ vs \in Seq(OwnWorld) /\ Len(vs) = Len(ws)
          /\ \A j \in 1 .. Len(ws) : /\ vs[j].name = ws[j].name
                                     /\ vs[j].ver = ws[j].ver
                                     /\ j # i => vs[j] = ws[j]
          /\ vs[i].fresh_world = FALSE
      BY <3>1, MarkWorld, Zenon DEF vs
    <3> QED BY <3>2, Zenon
  <2> HIDE DEF vs
  <2>2. r.worlds = vs
    BY <1>r, <1>5 DEF vs
  <2>3. ASSUME NEW v, Loaded(ws, v) PROVE Loaded(vs, v)
    BY <2>1, <2>3 DEF Loaded
  <2>4. ASSUME NEW e, DirtyIn(ws, e) PROVE DirtyIn(vs, e) \/ InSaves(e, r.json)
    <3>1. PICK j \in 1 .. Len(ws) : ws[j].fresh_world /\ e \in ws[j].ver
      BY <2>4 DEF DirtyIn
    <3>2. CASE j = i
      BY <1>5, <1>e, <3>1, <3>2
    <3>3. CASE j # i
      BY <2>1, <3>1, <3>3 DEF DirtyIn
    <3> QED BY <3>2, <3>3
  <2> QED BY <1>1, <1>2, <1>5, <2>1, <2>2, <2>3, <2>4 DEF OthersStay, InPlace, NoneLost
<1> QED BY <1>3, <1>4, <1>5

\* save_world(name, false) keeps every world at its position.
LEMMA SaveInPlace ==
    ASSUME NEW ws \in Seq(OwnWorld), NEW idx \in [Worlds -> Nat], NEW w \in Worlds,
           NEW r, r = save_world(ws, idx, w, FALSE)
    PROVE  /\ r.worlds \in Seq(OwnWorld) /\ r.idx \in [Worlds -> Nat]
           /\ r.json \in Seq(OwnSave)
           /\ r.json = <<>> \/ (Len(r.json) = 1 /\ r.json[1] \in OwnSave)
           /\ InPlace(ws, r.worlds)
           /\ NoneLost(ws, r.worlds, r.json)
<1>1. FALSE \in BOOLEAN
  OBVIOUS
<1> QED BY <1>1, SaveWorld, Zenon

\* A change to one world keeps the names, the marks and the other changes.
LEMMA AddChange ==
    ASSUME NEW ws \in Seq(OwnWorld), NEW k \in 1 .. Len(ws), NEW n \in 1 .. MaxEdits,
           NEW w, w = ws[k].name
    PROVE  LET vs == [ws EXCEPT ![k].ver = @ \cup {<<w, n>>}]
           IN  /\ vs \in Seq(OwnWorld) /\ InPlace(ws, vs) /\ Grown(ws, vs)
               /\ <<w, n>> \in vs[k].ver
<1> DEFINE x == [ws[k] EXCEPT !.ver = @ \cup {<<w, n>>}]
           vs == [ws EXCEPT ![k] = x]
<1>1. ws[k] \in World /\ \A e \in ws[k].ver : e[1] = w
  BY DEF OwnWorld
<1>2. ws[k].ver \in Content /\ w \in Worlds
  BY <1>1 DEF World
<1>3. ws[k].ver \cup {<<w, n>>} \in Content
  BY <1>2 DEF Content
<1>4. /\ x \in World /\ x.name = w /\ x.ver = ws[k].ver \cup {<<w, n>>}
      /\ x.fresh_world = ws[k].fresh_world
  BY <1>1, <1>3 DEF World
<1>6. vs = [ws EXCEPT ![k].ver = @ \cup {<<w, n>>}]
  OBVIOUS
<1> HIDE DEF x
<1>5. x \in OwnWorld
  <2>1. ASSUME NEW e \in x.ver PROVE e[1] = x.name
    <3>1. CASE e \in ws[k].ver
      BY <1>1, <1>4, <3>1
    <3>2. CASE e = <<w, n>>
      BY <1>4, <3>2
    <3> QED BY <1>4, <2>1, <3>1, <3>2
  <2> QED BY <1>4, <2>1 DEF OwnWorld
<1>7. /\ vs \in Seq(OwnWorld) /\ Len(vs) = Len(ws)
      /\ \A i \in 1 .. Len(ws) : i # k => vs[i] = ws[i]
      /\ vs[k] = x
  BY <1>5
<1> HIDE DEF vs
<1> QED BY <1>4, <1>6, <1>7 DEF InPlace, Grown

\* Appending worlds to the vector keeps what is there.
LEMMA AppendWorlds ==
    ASSUME NEW ws \in Seq(OwnWorld), NEW new \in Seq(OwnWorld)
    PROVE  /\ ws \o new \in Seq(OwnWorld)
           /\ \A v : Loaded(ws, v) \/ Loaded(new, v) => Loaded(ws \o new, v)
           /\ \A e : DirtyIn(ws, e) => DirtyIn(ws \o new, e)
<1> DEFINE vs == ws \o new
<1>1. /\ vs \in Seq(OwnWorld)
      /\ \A i \in 1 .. Len(ws) : i \in 1 .. Len(vs) /\ vs[i] = ws[i]
      /\ \A i \in 1 .. Len(new) : Len(ws) + i \in 1 .. Len(vs) /\ vs[Len(ws) + i] = new[i]
  BY ConcatElements
<1> HIDE DEF vs
<1>2. ASSUME NEW v, Loaded(ws, v) PROVE Loaded(vs, v)
  BY <1>1, <1>2 DEF Loaded
<1>3. ASSUME NEW v, Loaded(new, v) PROVE Loaded(vs, v)
  BY <1>1, <1>3 DEF Loaded
<1>4. ASSUME NEW e, DirtyIn(ws, e) PROVE DirtyIn(vs, e)
  BY <1>1, <1>4 DEF DirtyIn
<1> QED BY <1>1, <1>2, <1>3, <1>4 DEF vs

\* Appending saves to a queue keeps what is there.
LEMMA AppendSaves ==
    ASSUME NEW q \in Seq(OwnSave), NEW r \in Seq(OwnSave)
    PROVE  /\ q \o r \in Seq(OwnSave)
           /\ \A e : InSaves(e, q) \/ InSaves(e, r) => InSaves(e, q \o r)
<1> DEFINE s == q \o r
<1>1. /\ s \in Seq(OwnSave)
      /\ \A i \in 1 .. Len(q) : i \in 1 .. Len(s) /\ s[i] = q[i]
      /\ \A i \in 1 .. Len(r) : Len(q) + i \in 1 .. Len(s) /\ s[Len(q) + i] = r[i]
  BY ConcatElements
<1> HIDE DEF s
<1>2. ASSUME NEW e, InSaves(e, q) PROVE InSaves(e, s)
  BY <1>1, <1>2 DEF InSaves
<1>3. ASSUME NEW e, InSaves(e, r) PROVE InSaves(e, s)
  BY <1>1, <1>3 DEF InSaves
<1> QED BY <1>1, <1>2, <1>3 DEF s

\* Taking the head of a queue of saves.
LEMMA TakeSave ==
    ASSUME NEW q \in Seq(OwnSave), q # <<>>
    PROVE  /\ Head(q) \in OwnSave /\ Tail(q) \in Seq(OwnSave)
           /\ \A e : InSaves(e, q) => e \in Head(q).data \/ InSaves(e, Tail(q))
<1> DEFINE t == Tail(q)
<1>1. /\ Head(q) \in OwnSave /\ Head(q) = q[1] /\ t \in Seq(OwnSave)
      /\ \A i \in 1 .. Len(q) : i # 1 => i - 1 \in 1 .. Len(t) /\ t[i - 1] = q[i]
  BY TailElements
<1> HIDE DEF t
<1>2. ASSUME NEW e, InSaves(e, q) PROVE e \in Head(q).data \/ InSaves(e, t)
  <2>1. PICK i \in 1 .. Len(q) : e \in q[i].data
    BY <1>2 DEF InSaves
  <2>2. CASE i = 1
    BY <1>1, <2>1, <2>2
  <2>3. CASE i # 1
    BY <1>1, <2>1, <2>3 DEF InSaves
  <2> QED BY <2>2, <2>3
<1> QED BY <1>1, <1>2 DEF t

\* Worlds, queues, writers and files keep the content of the worlds apart.
ContentInv ==
    /\ worlds \in Seq(OwnWorld)
    /\ aq \in Seq(OwnSave) /\ dq \in Seq(OwnSave) /\ snap \in Seq(OwnSave)
    /\ job \in [Writers -> OwnSave \cup {NoJob}]
    /\ OwnWorldOnly

\* A writer with an open file has a save in hand.
StreamInv == \A w \in Writers : opened[w] => job[w] # NoJob

\* The handler in progress has a valid World*, and its change is still to
\* come; the loop of SAVE_WORLD is inside the vector.
HandlerInv == /\ edit # NoEdit => /\ edit.pos \in 1 .. Len(worlds)
                                  /\ worlds[edit.pos].name = edit.name
                                  /\ clock[edit.name] < MaxEdits
              /\ sweep # 0 => sweep \in 1 .. Len(worlds)

\* A player who can act and has a name is in a loaded world, and a free slot
\* is in none.
OccupiedInv == \A p \in Peers :
    /\ p \notin Nameless /\ state[p] = "connected" /\ world[p] # NoWorld => Loaded(worlds, world[p])
    /\ state[p] = "free" => world[p] = NoWorld

IndInv == TypeOK /\ ContentInv /\ StreamInv /\ HandlerInv /\ OccupiedInv

\* get_world appends worlds of the name asked for, and the world is loaded.
LEMMA GetWorld ==
    ASSUME IndInv, NEW w \in Worlds
    PROVE  /\ get_world(w) \in Seq(OwnWorld)
           /\ Loaded(worlds \o get_world(w), w)
<1>t. worlds \in Seq(OwnWorld) /\ worlds \in Seq(World)
  BY OwnTypes DEF IndInv, ContentInv
<1>i. find_if(worlds, w) # 0 => Loaded(worlds, w)
  BY <1>t, FindIf DEF Loaded
<1>c. create_world(w) \in OwnWorld /\ create_world(w).name = w
  BY DEF create_world, OwnWorld, World, Content
<1> DEFINE x == [name |-> w, ver |-> file[w], fresh_world |-> FALSE]
<1>f. file[w] \notin {NoFile, Torn} => x \in OwnWorld /\ x.name = w
  <2>1. SUFFICES ASSUME file[w] \notin {NoFile, Torn} PROVE x \in OwnWorld /\ x.name = w
    OBVIOUS
  <2>2. file[w] \in Content /\ \A e \in file[w] : e[1] = w
    BY <2>1 DEF IndInv, TypeOK, ContentInv, OwnWorldOnly
  <2> QED BY <2>2 DEF OwnWorld, World
<1> HIDE DEF x
<1>1. CASE find_if(worlds, w) # 0
  <2>1. get_world(w) = <<>>
    BY <1>1 DEF get_world
  <2>2. <<>> \in Seq(OwnWorld)
    OBVIOUS
  <2> QED BY <1>t, <1>i, <1>1, <2>1, <2>2, AppendWorlds
<1>2. ASSUME NEW y \in OwnWorld, y.name = w, get_world(w) = <<y>> \/ get_world(w) = <<y, y>>
      PROVE  get_world(w) \in Seq(OwnWorld) /\ Loaded(worlds \o get_world(w), w)
  <2>1. get_world(w) \in Seq(OwnWorld) /\ 1 \in 1 .. Len(get_world(w)) /\ get_world(w)[1] = y
    <3>1. /\ <<y>> \in Seq(OwnWorld) /\ Len(<<y>>) = 1 /\ <<y>>[1] = y
          /\ <<y, y>> \in Seq(OwnWorld) /\ Len(<<y, y>>) = 2 /\ <<y, y>>[1] = y
      OBVIOUS
    <3>2. CASE get_world(w) = <<y>>
      BY <3>1, <3>2
    <3>3. CASE get_world(w) = <<y, y>>
      BY <3>1, <3>3
    <3> QED BY <1>2, <3>2, <3>3
  <2>2. Loaded(get_world(w), w)
    BY <1>2, <2>1 DEF Loaded
  <2> QED BY <1>t, <2>1, <2>2, AppendWorlds
<1>3. CASE find_if(worlds, w) = 0 /\ file[w] \in {NoFile, Torn}
  BY <1>c, <1>2, <1>3 DEF get_world
<1>4. CASE find_if(worlds, w) = 0 /\ file[w] \notin {NoFile, Torn}
  <2>1. get_world(w) = <<x>>
    BY <1>4 DEF get_world, x
  <2> QED BY <1>4, <1>f, <1>2, <2>1
<1> QED BY <1>1, <1>3, <1>4

\* PlayerCountWorld is zero only if nobody who is connected and has a
\* name is in the world.
LEMMA CountZero ==
    ASSUME NEW where, NEW w, NEW n \in Nat, PlayerCountWorld(where, w) = n
    PROVE  n = 0 <=> \A p \in Peers \ Nameless : ~(state[p] = "connected" /\ where[p] = w)
<1> DEFINE S == {p \in Peers \ Nameless : state[p] = "connected" /\ where[p] = w}
<1>1. IsFiniteSet(S)
  BY WSAssumption, FS_Subset
<1>2. Cardinality(S) = 0 <=> S = {}
  BY <1>1, FS_EmptySet
<1>3. Cardinality(S) = n
  BY DEF PlayerCountWorld
<1> QED BY <1>2, <1>3

\* PlayerCountWorld is a number.
LEMMA CountType ==
    ASSUME NEW where, NEW w
    PROVE  PlayerCountWorld(where, w) \in Nat
<1> DEFINE S == {p \in Peers \ Nameless : state[p] = "connected" /\ where[p] = w}
<1>1. IsFiniteSet(S)
  BY WSAssumption, FS_Subset
<1> QED BY <1>1, FS_CardinalityType DEF PlayerCountWorld

\* exit_ saves what it unloads, and unloads no world that a player with a
\* name is in.
LEMMA ExitSummary ==
    ASSUME IndInv, NEW p \in Peers, world[p] # NoWorld, exit_(p)
    PROVE  /\ worlds' \in Seq(OwnWorld) /\ worlds_idx' \in [Worlds -> Nat]
           /\ dq' \in Seq(OwnSave)
           /\ world' = [world EXCEPT ![p] = NoWorld]
           /\ \A q \in Peers \ Nameless : q # p /\ state[q] = "connected" /\ world[q] # NoWorld
                               => Loaded(worlds', world[q])
           /\ \A e : DirtyIn(worlds, e) => DirtyIn(worlds', e) \/ InSaves(e, dq')
           /\ \A e : InSaves(e, dq) => InSaves(e, dq')
<1>t. /\ worlds \in Seq(OwnWorld) /\ worlds_idx \in [Worlds -> Nat] /\ dq \in Seq(OwnSave)
      /\ world \in [Peers -> Worlds \cup {NoWorld}]
  BY DEF IndInv, TypeOK, ContentInv
<1> DEFINE w == world[p]
           empty == PlayerCountWorld(world', w) = 0
           r == IF empty THEN save_world(worlds, worlds_idx, w, TRUE)
                ELSE [json |-> <<>>, worlds |-> worlds, idx |-> worlds_idx]
<1>w. w \in Worlds
  BY <1>t
<1>x. /\ world' = [world EXCEPT ![p] = NoWorld]
      /\ worlds' = r.worlds
      /\ worlds_idx' = Indexed(r.worlds, r.idx, w)
      /\ dq' = dq \o r.json
  BY DEF exit_
<1>1. /\ r.worlds \in Seq(OwnWorld) /\ r.idx \in [Worlds -> Nat] /\ r.json \in Seq(OwnSave)
      /\ OthersStay(worlds, r.worlds, w)
      /\ ~empty => r.worlds = worlds
      /\ NoneLost(worlds, r.worlds, r.json)
  <2>1. CASE empty
    <3>1. r = save_world(worlds, worlds_idx, w, TRUE)
      BY <2>1
    <3> HIDE DEF r
    <3> QED BY <1>t, <1>w, <2>1, <3>1, SaveWorld
  <2>2. CASE ~empty
    <3>1. r.json = <<>> /\ r.worlds = worlds /\ r.idx = worlds_idx
      BY <2>2
    <3> HIDE DEF r, empty
    <3> QED BY <1>t, <2>2, <3>1 DEF OthersStay, NoneLost
  <2> QED BY <2>1, <2>2
<1> HIDE DEF r
<1>2. Indexed(r.worlds, r.idx, w) \in [Worlds -> Nat]
  <2>1. r.worlds \in Seq(World)
    BY <1>1, OwnTypes
  <2>2. find_world(r.worlds, r.idx, w) \in Nat
    BY <1>1, <1>w, <2>1, FindWorld
  <2> QED BY <1>1, <2>2 DEF Indexed
<1>3. ASSUME NEW q \in Peers \ Nameless, q # p, state[q] = "connected", world[q] # NoWorld
      PROVE  Loaded(r.worlds, world[q])
  <2>1. Loaded(worlds, world[q])
    BY <1>3 DEF IndInv, OccupiedInv
  <2>2. CASE world[q] # w
    BY <1>1, <2>1, <2>2 DEF OthersStay
  <2>3. CASE world[q] = w
    <3>1. world'[q] = w
      BY <1>t, <1>x, <1>3, <2>3
    <3>2. ~empty
      BY <1>3, <3>1, CountZero
    <3> QED BY <1>1, <2>1, <3>2
  <2> QED BY <2>2, <2>3
<1>4. dq' \in Seq(OwnSave) /\ \A e : InSaves(e, dq) \/ InSaves(e, r.json) => InSaves(e, dq')
  BY <1>t, <1>x, <1>1, AppendSaves
<1> QED BY <1>x, <1>1, <1>2, <1>3, <1>4 DEF NoneLost

\* join_world loads the world it admits to, and a refused player's
\* memory_clean_world unloads no world that a player with a name is in.
LEMMA JoinSummary ==
    ASSUME IndInv, NEW p \in Peers, NEW w \in Worlds, NEW admitted \in BOOLEAN,
           join_world(p, w, admitted)
    PROVE  /\ worlds' \in Seq(OwnWorld) /\ worlds_idx' \in [Worlds -> Nat]
           /\ aq' \in Seq(OwnSave)
           /\ \A q \in Peers \ Nameless : state[q] = "connected" /\ world[q] # NoWorld
                               => Loaded(worlds', world[q])
           /\ admitted => Loaded(worlds', w)
           /\ \A e : DirtyIn(worlds, e) => DirtyIn(worlds', e) \/ InSaves(e, aq')
           /\ \A e : InSaves(e, aq) => InSaves(e, aq')
<1>t. /\ worlds \in Seq(OwnWorld) /\ worlds_idx \in [Worlds -> Nat] /\ aq \in Seq(OwnSave)
      /\ world \in [Peers -> Worlds \cup {NoWorld}]
  BY DEF IndInv, TypeOK, ContentInv
<1> DEFINE new == get_world(w)
           vs == worlds \o new
           k == IF new = <<>> THEN find_world(vs, worlds_idx, w) ELSE Len(vs)
           ix == [worlds_idx EXCEPT ![w] = k]
           clean == ~admitted /\ PlayerCountWorld(world, w) < 1
           r == IF clean THEN save_world(vs, ix, w, TRUE)
                ELSE [json |-> <<>>, worlds |-> vs, idx |-> ix]
<1>x. worlds' = r.worlds /\ worlds_idx' = r.idx /\ aq' = aq \o r.json
  BY DEF join_world
<1>1. /\ vs \in Seq(OwnWorld)
      /\ Loaded(vs, w)
      /\ \A v : Loaded(worlds, v) => Loaded(vs, v)
      /\ \A e : DirtyIn(worlds, e) => DirtyIn(vs, e)
  BY <1>t, GetWorld, AppendWorlds
<1> HIDE DEF vs
<1>2. ix \in [Worlds -> Nat]
  <2>1. vs \in Seq(World)
    BY <1>1, OwnTypes
  <2>2. find_world(vs, worlds_idx, w) \in Nat /\ Len(vs) \in Nat
    BY <1>t, <2>1, FindWorld
  <2>3. k \in Nat
    BY <2>2
  <2> HIDE DEF k
  <2> QED BY <1>t, <2>3
<1> HIDE DEF ix
<1>s. ASSUME NEW y, y = save_world(vs, ix, w, TRUE)
      PROVE  /\ y.worlds \in Seq(OwnWorld) /\ y.idx \in [Worlds -> Nat] /\ y.json \in Seq(OwnSave)
             /\ OthersStay(vs, y.worlds, w)
             /\ NoneLost(vs, y.worlds, y.json)
  BY <1>1, <1>2, <1>s, SaveWorld
<1>3. /\ r.worlds \in Seq(OwnWorld) /\ r.idx \in [Worlds -> Nat] /\ r.json \in Seq(OwnSave)
      /\ OthersStay(vs, r.worlds, w)
      /\ ~clean => r.worlds = vs
      /\ NoneLost(vs, r.worlds, r.json)
  <2>1. CASE clean
    <3>1. r = save_world(vs, ix, w, TRUE)
      BY <2>1
    <3> HIDE DEF r, clean
    <3> QED BY <1>s, <2>1, <3>1
  <2>2. CASE ~clean
    <3>1. r.json = <<>> /\ r.worlds = vs /\ r.idx = ix
      BY <2>2
    <3> HIDE DEF r, clean
    <3> QED BY <1>1, <1>2, <2>2, <3>1 DEF OthersStay, NoneLost
  <2> QED BY <2>1, <2>2
<1> HIDE DEF r
<1>4. ASSUME NEW q \in Peers \ Nameless, state[q] = "connected", world[q] # NoWorld
      PROVE  Loaded(r.worlds, world[q])
  <2>1. Loaded(vs, world[q])
    BY <1>1, <1>4 DEF IndInv, OccupiedInv
  <2>2. CASE world[q] # w
    BY <1>3, <2>1, <2>2 DEF OthersStay
  <2>3. CASE world[q] = w
    <3>1. PlayerCountWorld(world, w) # 0 /\ PlayerCountWorld(world, w) \in Nat
      BY <1>4, <2>3, CountZero, CountType
    <3>2. ~clean
      <4>1. \A n \in Nat : n # 0 => ~(n < 1)
        OBVIOUS
      <4> QED BY <3>1, <4>1
    <3> HIDE DEF clean
    <3> QED BY <1>3, <2>1, <3>2
  <2> QED BY <2>2, <2>3
<1>5. admitted => Loaded(r.worlds, w)
  BY <1>1, <1>3
<1>6. aq' \in Seq(OwnSave) /\ \A e : InSaves(e, aq) \/ InSaves(e, r.json) => InSaves(e, aq')
  BY <1>t, <1>x, <1>3, AppendSaves
<1> HIDE DEF clean
<1> QED BY <1>x, <1>1, <1>3, <1>4, <1>5, <1>6 DEF NoneLost

\* A handler that finds its player's world has a position of that world.
LEMMA FoundWorld ==
    ASSUME IndInv, NEW p \in Peers, world[p] # NoWorld, NEW i \in Found(p)
    PROVE  /\ i \in 1 .. Len(worlds) /\ worlds[i].name = world[p] /\ world[p] \in Worlds
<1>1. world[p] \in Worlds /\ worlds \in Seq(World) /\ worlds_idx \in [Worlds -> Nat]
  BY OwnTypes DEF IndInv, TypeOK, ContentInv
<1>2. i # 0 /\ (i = find_if(worlds, world[p]) \/ i = find_world(worlds, worlds_idx, world[p]))
  BY DEF Found
<1>3. CASE i = find_if(worlds, world[p])
  BY <1>1, <1>2, <1>3, FindIf
<1>4. CASE i = find_world(worlds, worlds_idx, world[p])
  BY <1>1, <1>2, <1>4, FindWorld
<1> QED BY <1>1, <1>2, <1>3, <1>4

\* One round of SAVE_WORLD keeps the vector, with the names at their positions.
LEMMA SaveNextSummary ==
    ASSUME IndInv, SaveNext
    PROVE  /\ worlds' \in Seq(OwnWorld) /\ worlds_idx' \in [Worlds -> Nat]
           /\ aq' \in Seq(OwnSave)
           /\ Len(worlds') = Len(worlds)
           /\ \A i \in 1 .. Len(worlds) : worlds'[i].name = worlds[i].name
           /\ \A e : DirtyIn(worlds, e) => DirtyIn(worlds', e) \/ InSaves(e, aq')
           /\ \A e : InSaves(e, aq) => InSaves(e, aq')
<1>t. /\ worlds \in Seq(OwnWorld) /\ worlds_idx \in [Worlds -> Nat] /\ aq \in Seq(OwnSave)
  BY DEF IndInv, TypeOK, ContentInv
<1> DEFINE w == worlds[sweep].name
           r == save_world(worlds, worlds_idx, w, FALSE)
<1>w. w \in Worlds
  <2>1. sweep \in 1 .. Len(worlds)
    BY DEF IndInv, HandlerInv, SaveNext
  <2> QED BY <1>t, <2>1 DEF OwnWorld, World
<1>x. worlds' = r.worlds /\ worlds_idx' = r.idx /\ aq' = aq \o r.json
  BY DEF SaveNext
<1>1. r = save_world(worlds, worlds_idx, w, FALSE)
  OBVIOUS
<1> HIDE DEF w, r
<1>2. /\ r.worlds \in Seq(OwnWorld) /\ r.idx \in [Worlds -> Nat] /\ r.json \in Seq(OwnSave)
      /\ InPlace(worlds, r.worlds)
      /\ NoneLost(worlds, r.worlds, r.json)
  BY <1>t, <1>w, <1>1, SaveInPlace
<1>3. aq' \in Seq(OwnSave) /\ \A e : InSaves(e, aq) \/ InSaves(e, r.json) => InSaves(e, aq')
  BY <1>t, <1>x, <1>2, AppendSaves
<1> QED BY <1>x, <1>2, <1>3 DEF InPlace, NoneLost

\* SaveDatabase::All saves a world without moving any other.
LEMMA AllSaveSummary ==
    ASSUME IndInv, AllSave
    PROVE  /\ worlds' \in Seq(OwnWorld) /\ worlds_idx' \in [Worlds -> Nat]
           /\ job' \in [Writers -> OwnSave \cup {NoJob}]
           /\ Len(worlds') = Len(worlds)
           /\ \A i \in 1 .. Len(worlds) : worlds'[i].name = worlds[i].name
           /\ \A v \in Writers : v # "all" => job'[v] = job[v]
           /\ todo' \in Seq(Worlds)
           /\ \A e : DirtyIn(worlds, e) => \/ DirtyIn(worlds', e)
                                           \/ job'["all"] # NoJob /\ e \in job'["all"].data
<1>t. /\ worlds \in Seq(OwnWorld) /\ worlds_idx \in [Worlds -> Nat]
      /\ job \in [Writers -> OwnSave \cup {NoJob}] /\ todo \in Seq(Worlds)
  BY DEF IndInv, TypeOK, ContentInv
<1>w. Head(todo) \in Worlds /\ todo' \in Seq(Worlds)
  BY <1>t DEF AllSave
<1> DEFINE w == Head(todo)
           r == save_world(worlds, worlds_idx, w, FALSE)
<1>x. \/ UNCHANGED <<worlds, worlds_idx, job>>
      \/ /\ worlds' = r.worlds
         /\ worlds_idx' = r.idx
         /\ job' = [job EXCEPT !["all"] = IF r.json = <<>> THEN NoJob ELSE r.json[1]]
  BY DEF AllSave
<1>1. r = save_world(worlds, worlds_idx, w, FALSE) /\ w \in Worlds
  BY <1>w
<1> HIDE DEF w, r
<1>2. /\ r.worlds \in Seq(OwnWorld) /\ r.idx \in [Worlds -> Nat]
      /\ r.json = <<>> \/ (Len(r.json) = 1 /\ r.json[1] \in OwnSave)
      /\ InPlace(worlds, r.worlds) /\ NoneLost(worlds, r.worlds, r.json)
  BY <1>t, <1>1, SaveInPlace
<1>3. CASE UNCHANGED <<worlds, worlds_idx, job>>
  BY <1>t, <1>w, <1>3 DEF DirtyIn
<1> DEFINE j == IF r.json = <<>> THEN NoJob ELSE r.json[1]
<1>j. j \in OwnSave \cup {NoJob}
  BY <1>2
<1>4. CASE /\ worlds' = r.worlds
           /\ worlds_idx' = r.idx
           /\ job' = [job EXCEPT !["all"] = j]
  <2> HIDE DEF j
  <2>1. job' \in [Writers -> OwnSave \cup {NoJob}] /\ \A v \in Writers : v # "all" => job'[v] = job[v]
    BY <1>t, <1>j, <1>4
  <2>2. ASSUME NEW e, InSaves(e, r.json) PROVE job'["all"] # NoJob /\ e \in job'["all"].data
    <3>1. PICK k \in 1 .. Len(r.json) : e \in r.json[k].data
      BY <2>2 DEF InSaves
    <3>2. r.json # <<>> /\ Len(r.json) = 1 /\ r.json[1] \in OwnSave
      BY <1>2, <3>1
    <3>3. j = r.json[1] /\ k = 1
      BY <3>1, <3>2 DEF j
    <3>4. job'["all"] = j
      BY <1>t, <1>4 DEF Writers
    <3> QED BY <3>1, <3>2, <3>3, <3>4, OwnTypes, WSAssumption
  <2>3. \A e : DirtyIn(worlds, e) => \/ DirtyIn(worlds', e)
                                     \/ job'["all"] # NoJob /\ e \in job'["all"].data
    BY <1>2, <1>4, <2>2 DEF NoneLost
  <2> QED BY <1>w, <1>2, <1>4, <2>1, <2>3 DEF InPlace
<1> QED BY <1>x, <1>3, <1>4

\* A command that forgets fresh_world keeps the vector as well.
LEMMA SilentSummary ==
    ASSUME IndInv, NEW p \in Peers, NEW i, SilentCommand(p, i)
    PROVE  /\ worlds' \in Seq(OwnWorld) /\ worlds_idx' \in [Worlds -> Nat]
           /\ aq' \in Seq(OwnSave)
           /\ Len(worlds') = Len(worlds)
           /\ \A j \in 1 .. Len(worlds) : worlds'[j].name = worlds[j].name
           /\ clock' \in [Worlds -> 0 .. MaxEdits] /\ unmarked' \in Content
           /\ \A e : DirtyIn(worlds, e) => DirtyIn(worlds', e) \/ InSaves(e, aq')
           /\ \A e : InSaves(e, aq) => InSaves(e, aq')
           /\ unmarked \subseteq unmarked'
           /\ \E w \in Worlds, n \in 1 .. MaxEdits :
                 /\ n = clock[w] + 1
                 /\ clock' = [clock EXCEPT ![w] = n]
                 /\ \/ DirtyIn(worlds', <<w, n>>) \/ InSaves(<<w, n>>, aq')
                    \/ <<w, n>> \in unmarked'
<1>t. /\ worlds \in Seq(OwnWorld) /\ worlds_idx \in [Worlds -> Nat] /\ aq \in Seq(OwnSave)
      /\ clock \in [Worlds -> 0 .. MaxEdits] /\ MaxEdits \in Nat /\ unmarked \in Content
  BY WSAssumption DEF IndInv, TypeOK, ContentInv
<1>f. /\ i \in 1 .. Len(worlds) /\ worlds[i].name = world[p] /\ world[p] \in Worlds
      /\ clock[world[p]] < MaxEdits
  BY FoundWorld DEF SilentCommand
<1> DEFINE w == world[p]
           n == clock[w] + 1
           vs == [worlds EXCEPT ![i].ver = @ \cup {<<w, n>>}]
           r == save_world(vs, worlds_idx, w, FALSE)
<1>n. n \in 1 .. MaxEdits
  BY <1>t, <1>f
<1>x. worlds' = r.worlds /\ worlds_idx' = r.idx /\ aq' = aq \o r.json
      /\ clock' = [clock EXCEPT ![w] = n]
      /\ unmarked' = Unmarked(i, <<w, n>>)
  BY DEF SilentCommand
<1>1. r = save_world(vs, worlds_idx, w, FALSE)
  OBVIOUS
<1> HIDE DEF n
<1>o. n = clock[w] + 1
  BY DEF n
<1>2. /\ vs \in Seq(OwnWorld) /\ InPlace(worlds, vs) /\ Grown(worlds, vs)
      /\ <<w, n>> \in vs[i].ver
  <2>1. worlds \in Seq(OwnWorld) /\ i \in 1 .. Len(worlds) /\ w = worlds[i].name
    BY <1>t, <1>f
  <2> HIDE DEF w
  <2> QED BY <2>1, <1>n, AddChange
<1> HIDE DEF vs, r
<1>3. /\ r.worlds \in Seq(OwnWorld) /\ r.idx \in [Worlds -> Nat] /\ r.json \in Seq(OwnSave)
      /\ InPlace(vs, r.worlds) /\ NoneLost(vs, r.worlds, r.json)
  BY <1>t, <1>f, <1>1, <1>2, SaveInPlace
<1>4. aq' \in Seq(OwnSave) /\ \A e : InSaves(e, aq) \/ InSaves(e, r.json) => InSaves(e, aq')
  BY <1>t, <1>x, <1>3, AppendSaves
<1>5. clock' \in [Worlds -> 0 .. MaxEdits]
  BY <1>t, <1>f, <1>n, <1>x
<1>6. unmarked' \in Content /\ unmarked \subseteq unmarked'
  BY <1>t, <1>f, <1>n, <1>x DEF Unmarked, Content
<1>7. ASSUME NEW e, DirtyIn(vs, e) PROVE DirtyIn(worlds', e) \/ InSaves(e, aq')
  BY <1>x, <1>3, <1>4, <1>7 DEF NoneLost
<1>8. ASSUME NEW e, DirtyIn(worlds, e) PROVE DirtyIn(vs, e)
  BY <1>2, <1>8 DEF DirtyIn, InPlace, Grown
<1>9. DirtyIn(vs, <<w, n>>) \/ <<w, n>> \in unmarked'
  BY <1>f, <1>x, <1>2 DEF Unmarked, DirtyIn, InPlace, Grown
<1>10. DirtyIn(worlds', <<w, n>>) \/ InSaves(<<w, n>>, aq') \/ <<w, n>> \in unmarked'
  BY <1>7, <1>9
<1>11. w \in Worlds
  BY <1>f
<1> HIDE DEF w
<1>12. \E v \in Worlds, k \in 1 .. MaxEdits :
          /\ k = clock[v] + 1
          /\ clock' = [clock EXCEPT ![v] = k]
          /\ DirtyIn(worlds', <<v, k>>) \/ InSaves(<<v, k>>, aq') \/ <<v, k>> \in unmarked'
  BY <1>n, <1>o, <1>x, <1>10, <1>11
<1> QED BY <1>x, <1>2, <1>3, <1>4, <1>5, <1>6, <1>7, <1>8, <1>12 DEF InPlace

\* A handler marks its world first.
LEMMA EditBeginSummary ==
    ASSUME IndInv, NEW p \in Peers, NEW i, EditBegin(p, i)
    PROVE  /\ worlds' \in Seq(OwnWorld) /\ InPlace(worlds, worlds')
           /\ i \in 1 .. Len(worlds) /\ worlds[i].name = world[p] /\ world[p] \in Worlds
           /\ worlds'[i].fresh_world = TRUE
           /\ NoneLost(worlds, worlds', <<>>)
           /\ unmarked' = unmarked \ worlds[i].ver
           /\ \A e \in worlds[i].ver : DirtyIn(worlds', e)
<1>t. worlds \in Seq(OwnWorld)
  BY DEF IndInv, ContentInv
<1>f. /\ i \in 1 .. Len(worlds) /\ worlds[i].name = world[p] /\ world[p] \in Worlds
  BY FoundWorld DEF EditBegin
<1> DEFINE vs == [worlds EXCEPT ![i].fresh_world = TRUE]
<1>x. worlds' = vs
  BY DEF EditBegin
<1>1. TRUE \in BOOLEAN
  OBVIOUS
<1>2. /\ vs \in Seq(OwnWorld) /\ Len(vs) = Len(worlds)
      /\ \A j \in 1 .. Len(worlds) : /\ vs[j].name = worlds[j].name
                                     /\ vs[j].ver = worlds[j].ver
                                     /\ j # i => vs[j] = worlds[j]
      /\ vs[i].fresh_world = TRUE
  <2> HIDE DEF vs
  <2> QED BY <1>t, <1>f, <1>1, MarkWorld, Zenon DEF vs
<1> HIDE DEF vs
<1>3. ASSUME NEW e, DirtyIn(worlds, e) PROVE DirtyIn(vs, e)
  <2>1. PICK j \in 1 .. Len(worlds) : worlds[j].fresh_world /\ e \in worlds[j].ver
    BY <1>3 DEF DirtyIn
  <2>2. vs[j].fresh_world /\ e \in vs[j].ver
    BY <1>2, <2>1
  <2> QED BY <1>2, <2>2 DEF DirtyIn
<1>4. \A e \in worlds[i].ver : DirtyIn(vs, e)
  BY <1>f, <1>2 DEF DirtyIn
<1>5. unmarked' = unmarked \ worlds[i].ver
  BY DEF EditBegin
<1> QED BY <1>f, <1>x, <1>2, <1>3, <1>4, <1>5 DEF InPlace, NoneLost

\* Then it changes the world that it has marked.
LEMMA EditApplySummary ==
    ASSUME IndInv, EditApply
    PROVE  /\ worlds' \in Seq(OwnWorld) /\ InPlace(worlds, worlds') /\ Grown(worlds, worlds')
           /\ clock' \in [Worlds -> 0 .. MaxEdits]
           /\ unmarked' \in Content /\ unmarked \subseteq unmarked'
           /\ \E w \in Worlds, n \in 1 .. MaxEdits :
                 /\ n = clock[w] + 1
                 /\ clock' = [clock EXCEPT ![w] = n]
                 /\ edit.pos \in 1 .. Len(worlds)
                 /\ <<w, n>> \in worlds'[edit.pos].ver
                 /\ worlds[edit.pos].fresh_world \/ <<w, n>> \in unmarked'
<1>t. /\ worlds \in Seq(OwnWorld) /\ clock \in [Worlds -> 0 .. MaxEdits] /\ MaxEdits \in Nat
      /\ unmarked \in Content
  BY WSAssumption DEF IndInv, ContentInv, TypeOK
<1> DEFINE i == edit.pos
           w == worlds[i].name
           n == clock[w] + 1
           vs == [worlds EXCEPT ![i].ver = @ \cup {<<w, n>>}]
<1>f. i \in 1 .. Len(worlds) /\ w \in Worlds /\ clock[w] < MaxEdits
  <2>1. i \in 1 .. Len(worlds) /\ w = edit.name /\ clock[edit.name] < MaxEdits
    BY DEF EditApply, IndInv, HandlerInv
  <2> QED BY <1>t, <2>1 DEF OwnWorld, World
<1>n. n \in 1 .. MaxEdits
  BY <1>t, <1>f
<1>x. worlds' = vs /\ clock' = [clock EXCEPT ![w] = n] /\ unmarked' = Unmarked(i, <<w, n>>)
  BY DEF EditApply
<1>m. w = worlds[i].name /\ n = clock[w] + 1
  OBVIOUS
<1> HIDE DEF n, w, i
<1>1. /\ vs \in Seq(OwnWorld) /\ InPlace(worlds, vs) /\ Grown(worlds, vs)
      /\ <<w, n>> \in vs[i].ver
  BY <1>t, <1>f, <1>n, <1>m, AddChange
<1>2. clock' \in [Worlds -> 0 .. MaxEdits]
  BY <1>t, <1>f, <1>n, <1>x
<1>3. /\ unmarked' \in Content /\ unmarked \subseteq unmarked'
      /\ worlds[i].fresh_world \/ <<w, n>> \in unmarked'
  BY <1>t, <1>f, <1>n, <1>x DEF Unmarked, Content
<1> HIDE DEF vs
<1> QED BY <1>f, <1>n, <1>m, <1>x, <1>1, <1>2, <1>3 DEF i

\* Every step keeps the variables within their types and the contents of the
\* worlds apart.
LEMMA ContentStep ==
    ASSUME IndInv, [Next]_vars
    PROVE  TypeOK' /\ ContentInv' /\ StreamInv'
<1> DEFINE Goal == TypeOK /\ ContentInv /\ StreamInv
<1> SUFFICES Goal'
  OBVIOUS
<1> USE WSAssumption
<1>t. /\ state \in [Peers -> {"free", "connected", "leaving"}]
      /\ world \in [Peers -> Worlds \cup {NoWorld}]
      /\ worlds \in Seq(OwnWorld) /\ worlds_idx \in [Worlds -> Nat]
      /\ edit = NoEdit \/ (edit.pos \in Nat /\ edit.name \in Worlds)
      /\ sweep \in Nat /\ joins \in 0 .. MaxJoins
      /\ todo \in Seq(Worlds) /\ apc \in {"sleep", "save"} /\ rounds \in 0 .. MaxRounds
      /\ aq \in Seq(OwnSave) /\ dq \in Seq(OwnSave) /\ snap \in Seq(OwnSave)
      /\ dpc \in {"swap", "write"}
      /\ job \in [Writers -> OwnSave \cup {NoJob}]
      /\ opened \in [Writers -> BOOLEAN] /\ clash \in [Writers -> BOOLEAN]
      /\ file \in [Worlds -> Content \cup {NoFile, Torn}] /\ covered \in Content
      /\ torn \in Content /\ unmarked \in Content
      /\ clock \in [Worlds -> 0 .. MaxEdits]
      /\ OwnWorldOnly /\ StreamInv
  BY DEF IndInv, TypeOK, ContentInv
<1>s. ASSUME NEW f, f \in [Writers -> OwnSave \cup {NoJob}]
      PROVE  f \in [Writers -> Save \cup {NoJob}]
  BY <1>s, OwnTypes
<1>m. ASSUME UNCHANGED <<all, snap, dpc, disk>>,
             state' \in [Peers -> {"free", "connected", "leaving"}],
             world' \in [Peers -> Worlds \cup {NoWorld}],
             worlds' \in Seq(OwnWorld), worlds_idx' \in [Worlds -> Nat],
             edit' = NoEdit \/ (edit'.pos \in Nat /\ edit'.name \in Worlds),
             sweep' \in Nat, joins' \in 0 .. MaxJoins,
             aq' \in Seq(OwnSave), dq' \in Seq(OwnSave),
             clock' \in [Worlds -> 0 .. MaxEdits], unmarked' \in Content
      PROVE  Goal'
  <2>1. /\ worlds' \in Seq(World)
        /\ aq' \in Seq(Save) /\ dq' \in Seq(Save) /\ snap' \in Seq(Save)
        /\ job' \in [Writers -> Save \cup {NoJob}]
    BY <1>t, <1>m, <1>s, OwnTypes DEF disk
  <2>2. TypeOK'
    BY <1>t, <1>m, <2>1 DEF TypeOK, all, disk
  <2>3. ContentInv' /\ StreamInv'
    BY <1>t, <1>m DEF ContentInv, OwnWorldOnly, StreamInv, disk
  <2> QED BY <2>2, <2>3
<1>p. ASSUME UNCHANGED <<mem, all, clock, unmarked>>,
             aq' \in Seq(OwnSave), dq' \in Seq(OwnSave), snap' \in Seq(OwnSave),
             dpc' \in {"swap", "write"},
             job' \in [Writers -> OwnSave \cup {NoJob}],
             opened' \in [Writers -> BOOLEAN], clash' \in [Writers -> BOOLEAN],
             file' \in [Worlds -> Content \cup {NoFile, Torn}], covered' \in Content,
             torn' \in Content, OwnWorldOnly', StreamInv'
      PROVE  Goal'
  <2>1. /\ worlds' \in Seq(World)
        /\ aq' \in Seq(Save) /\ dq' \in Seq(Save) /\ snap' \in Seq(Save)
        /\ job' \in [Writers -> Save \cup {NoJob}]
    BY <1>t, <1>p, <1>s, OwnTypes DEF mem
  <2>2. TypeOK'
    BY <1>t, <1>p, <2>1 DEF TypeOK, all, mem
  <2>3. ContentInv'
    BY <1>t, <1>p DEF ContentInv, mem
  <2> QED BY <1>p, <2>2, <2>3
<1>1. ASSUME NEW p \in Peers, Connect(p) \/ ClientLeaves(p) \/ SpamKick(p) PROVE Goal'
  BY <1>t, <1>m, <1>1 DEF Connect, ClientLeaves, SpamKick, pipe
<1>2. ASSUME NEW p \in Peers, Leave(p) PROVE Goal'
  <2>1. exit_(p) /\ world[p] # NoWorld /\ UNCHANGED state
    BY <1>2 DEF Leave
  <2>2. UNCHANGED <<edit, sweep, joins, all, aq, snap, dpc, disk, clock, unmarked>>
    BY <2>1 DEF exit_
  <2>3. world' \in [Peers -> Worlds \cup {NoWorld}]
    BY <1>t, <2>1, ExitSummary
  <2> QED BY <1>t, <1>m, <2>1, <2>2, <2>3, ExitSummary
<1>3. ASSUME NEW p \in Peers, Disconnect(p) PROVE Goal'
  <2>0. state' \in [Peers -> {"free", "connected", "leaving"}]
    BY <1>t, <1>3 DEF Disconnect
  <2>1. CASE world[p] # NoWorld
    <3>1. exit_(p)
      BY <1>3, <2>1 DEF Disconnect
    <3>2. UNCHANGED <<edit, sweep, joins, all, aq, snap, dpc, disk, clock, unmarked>>
      BY <3>1 DEF exit_
    <3>3. world' \in [Peers -> Worlds \cup {NoWorld}]
      BY <1>t, <2>1, <3>1, ExitSummary
    <3> QED BY <1>t, <1>m, <2>0, <2>1, <3>1, <3>2, <3>3, ExitSummary
  <2>2. CASE world[p] = NoWorld
    BY <1>t, <1>m, <1>3, <2>0, <2>2 DEF Disconnect, pipe
  <2> QED BY <2>1, <2>2
<1>4. ASSUME NEW p \in Peers, NEW w \in Worlds, NEW admitted \in BOOLEAN,
             join_world(p, w, admitted)
      PROVE  Goal'
  <2>1. /\ UNCHANGED <<state, edit, sweep, all, dq, snap, dpc, disk, clock, unmarked>>
        /\ joins' \in 0 .. MaxJoins
        /\ world' \in [Peers -> Worlds \cup {NoWorld}]
    BY <1>t, <1>4 DEF join_world
  <2> QED BY <1>t, <1>m, <1>4, <2>1, JoinSummary
<1>5. ASSUME NEW p \in Peers, NEW i, EditBegin(p, i) PROVE Goal'
  <2>1. UNCHANGED <<state, world, worlds_idx, sweep, joins, all, pipe, disk, clock>>
        /\ unmarked' \in Content /\ edit' = [pos |-> i, name |-> world[p]]
    BY <1>t, <1>5 DEF EditBegin, Content
  <2>2. edit'.pos \in Nat /\ edit'.name \in Worlds /\ worlds' \in Seq(OwnWorld)
    <3>1. i \in 1 .. Len(worlds) /\ world[p] \in Worlds /\ worlds' \in Seq(OwnWorld)
      BY <1>5, EditBeginSummary
    <3>2. i \in Nat
      BY <1>t, <3>1
    <3> QED BY <2>1, <3>1, <3>2
  <2> QED BY <1>t, <1>m, <2>1, <2>2 DEF pipe
<1>6. CASE EditApply
  <2>1. UNCHANGED <<state, world, worlds_idx, sweep, joins, all, pipe, disk>> /\ edit' = NoEdit
    BY <1>6 DEF EditApply
  <2> QED BY <1>t, <1>m, <1>6, <2>1, EditApplySummary DEF pipe
<1>7. ASSUME NEW p \in Peers, NEW i, SilentCommand(p, i) PROVE Goal'
  <2>1. UNCHANGED <<state, world, edit, sweep, joins, all, dq, snap, dpc, disk>>
    BY <1>7 DEF SilentCommand
  <2> QED BY <1>t, <1>m, <1>7, <2>1, SilentSummary
<1>8. ASSUME NEW p \in Peers, SaveCommand(p) PROVE Goal'
  BY <1>t, <1>m, <1>8 DEF SaveCommand, pipe
<1>9. CASE SaveNext
  <2>1. UNCHANGED <<state, world, edit, joins, all, dq, snap, dpc, disk, clock, unmarked>> /\ sweep' \in Nat
    BY <1>t, <1>9 DEF SaveNext
  <2> QED BY <1>t, <1>m, <1>9, <2>1, SaveNextSummary
<1>10. CASE Thread(AsyncTake)
  <2>1. /\ UNCHANGED <<mem, all, clock, unmarked, dq, snap, dpc, opened, clash, file, covered, torn>>
        /\ aq # <<>> /\ aq' = Tail(aq) /\ job' = [job EXCEPT !["async"] = Head(aq)]
    BY <1>10 DEF Thread, AsyncTake
  <2>2. Head(aq) \in OwnSave /\ aq' \in Seq(OwnSave)
    BY <1>t, <2>1, TakeSave
  <2>3. Head(aq) # NoJob
    BY <2>2, OwnTypes
  <2>4. job' \in [Writers -> OwnSave \cup {NoJob}] /\ OwnWorldOnly' /\ StreamInv'
    BY <1>t, <2>1, <2>2, <2>3 DEF OwnWorldOnly, StreamInv
  <2> QED BY <1>t, <1>p, <2>1, <2>2, <2>4
<1>11. CASE Thread(DisconnectSwap) \/ Thread(DisconnectLoop(TRUE))
  <2>1. /\ UNCHANGED <<mem, all, clock, unmarked, aq, disk>>
        /\ dq' \in Seq(OwnSave) /\ snap' \in Seq(OwnSave) /\ dpc' \in {"swap", "write"}
    <3>1. CASE Thread(DisconnectSwap)
      BY <1>t, <3>1 DEF Thread, DisconnectSwap
    <3>2. CASE Thread(DisconnectLoop(TRUE))
      BY <1>t, <3>2 DEF Thread, DisconnectLoop
    <3> QED BY <1>11, <3>1, <3>2
  <2>2. OwnWorldOnly' /\ StreamInv'
    BY <1>t, <2>1 DEF OwnWorldOnly, StreamInv, disk
  <2> QED BY <1>t, <1>p, <2>1, <2>2 DEF disk
<1>12. CASE Thread(DisconnectTake)
  <2>1. /\ UNCHANGED <<mem, all, clock, unmarked, aq, dq, dpc, opened, clash, file, covered, torn>>
        /\ snap # <<>> /\ snap' = Tail(snap) /\ job' = [job EXCEPT !["disconnect"] = Head(snap)]
    BY <1>12 DEF Thread, DisconnectTake
  <2>2. Head(snap) \in OwnSave /\ snap' \in Seq(OwnSave)
    BY <1>t, <2>1, TakeSave
  <2>3. Head(snap) # NoJob
    BY <2>2, OwnTypes
  <2>4. job' \in [Writers -> OwnSave \cup {NoJob}] /\ OwnWorldOnly' /\ StreamInv'
    BY <1>t, <2>1, <2>2, <2>3 DEF OwnWorldOnly, StreamInv
  <2> QED BY <1>t, <1>p, <2>1, <2>2, <2>4
<1>13. ASSUME NEW w \in Writers, Thread(FileOpen(w)) PROVE Goal'
  <2>1. /\ UNCHANGED <<mem, all, clock, unmarked, pipe, job, covered, torn>>
        /\ job[w] # NoJob
        /\ opened' = [opened EXCEPT ![w] = TRUE]
        /\ clash' \in [Writers -> BOOLEAN]
        /\ file' = [file EXCEPT ![job[w].name] = Torn]
    BY <1>t, <1>13 DEF Thread, FileOpen
  <2>2. file' \in [Worlds -> Content \cup {NoFile, Torn}] /\ OwnWorldOnly' /\ StreamInv'
    BY <1>t, <2>1 DEF OwnWorldOnly, StreamInv
  <2> QED BY <1>t, <1>p, <2>1, <2>2 DEF pipe
<1>14. ASSUME NEW w \in Writers, NEW mixed \in BOOLEAN, Thread(FileClose(w, mixed)) PROVE Goal'
  <2> DEFINE d == IF mixed THEN Torn ELSE job[w].data
  <2>1. /\ UNCHANGED <<mem, all, clock, unmarked, pipe>>
        /\ opened[w]
        /\ file' = [file EXCEPT ![job[w].name] = d]
        /\ covered' = IF mixed THEN covered ELSE covered \cup job[w].data
        /\ torn' = IF mixed THEN torn \cup job[w].data ELSE torn
        /\ job' = [job EXCEPT ![w] = NoJob]
        /\ opened' = [opened EXCEPT ![w] = FALSE]
        /\ clash' = [clash EXCEPT ![w] = FALSE]
    BY <1>14 DEF Thread, FileClose
  <2>2. job[w] \in OwnSave
    BY <1>t, <2>1 DEF StreamInv
  <2>3. job[w].name \in Worlds /\ job[w].data \in Content /\ \A e \in job[w].data : e[1] = job[w].name
    BY <2>2 DEF OwnSave, Save
  <2>4. /\ d \in Content \cup {NoFile, Torn}
        /\ d \in {NoFile, Torn} \/ \A e \in d : e[1] = job[w].name
    BY <2>3
  <2> HIDE DEF d
  <2>5. file' \in [Worlds -> Content \cup {NoFile, Torn}] /\ OwnWorldOnly'
    BY <1>t, <2>1, <2>3, <2>4 DEF OwnWorldOnly
  <2>6. covered' \in Content /\ torn' \in Content
    BY <1>t, <2>1, <2>3 DEF Content
  <2>7. job' \in [Writers -> OwnSave \cup {NoJob}] /\ opened' \in [Writers -> BOOLEAN]
        /\ clash' \in [Writers -> BOOLEAN] /\ StreamInv'
    BY <1>t, <2>1 DEF StreamInv
  <2> QED BY <1>t, <1>p, <2>1, <2>5, <2>6, <2>7 DEF pipe
<1>a. ASSUME UNCHANGED <<state, world, edit, sweep, joins, pipe, opened, clash, file, covered, torn, clock, unmarked>>,
             worlds' \in Seq(OwnWorld), worlds_idx' \in [Worlds -> Nat],
             job' \in [Writers -> OwnSave \cup {NoJob}],
             todo' \in Seq(Worlds), apc' \in {"sleep", "save"}, rounds' \in 0 .. MaxRounds,
             StreamInv'
      PROVE  Goal'
  <2>1. /\ worlds' \in Seq(World)
        /\ aq' \in Seq(Save) /\ dq' \in Seq(Save) /\ snap' \in Seq(Save)
        /\ job' \in [Writers -> Save \cup {NoJob}]
    BY <1>t, <1>a, <1>s, OwnTypes DEF pipe
  <2>2. TypeOK'
    BY <1>t, <1>a, <2>1 DEF TypeOK, pipe
  <2>3. ContentInv'
    BY <1>t, <1>a DEF ContentInv, OwnWorldOnly, pipe
  <2> QED BY <1>a, <2>2, <2>3
<1>15. CASE AllSnapshot
  <2>1. /\ UNCHANGED <<mem, pipe, disk, clock, unmarked>>
        /\ rounds' \in 0 .. MaxRounds /\ apc' = "save"
        /\ todo' = [i \in DOMAIN worlds |-> worlds[i].name]
    BY <1>t, <1>15 DEF AllSnapshot
  <2>2. \A i \in 1 .. Len(worlds) : worlds[i].name \in Worlds
    BY <1>t DEF OwnWorld, World
  <2>3. todo' \in Seq(Worlds)
    <3> DEFINE q == [i \in 1 .. Len(worlds) |-> worlds[i].name]
    <3>1. Len(worlds) \in Nat /\ DOMAIN worlds = 1 .. Len(worlds)
      BY <1>t
    <3>2. q \in [1 .. Len(worlds) -> Worlds]
      BY <2>2
    <3>3. todo' = q
      BY <2>1, <3>1
    <3> HIDE DEF q
    <3>4. q \in Seq(Worlds)
      BY <3>1, <3>2
    <3> QED BY <3>3, <3>4
  <2>4. StreamInv'
    BY <1>t, <2>1 DEF StreamInv, disk
  <2> QED BY <1>t, <1>a, <2>1, <2>3, <2>4 DEF mem, disk
<1>16. CASE AllSave
  <2>1. /\ UNCHANGED <<state, world, edit, sweep, joins, apc, rounds, pipe,
                       opened, clash, file, covered, torn, clock, unmarked>>
        /\ job["all"] = NoJob
    BY <1>16 DEF AllSave
  <2>2. StreamInv'
    BY <1>t, <1>16, <2>1, AllSaveSummary DEF StreamInv
  <2> QED BY <1>t, <1>a, <1>16, <2>1, <2>2, AllSaveSummary
<1>17. CASE AllLoop
  <2>1. UNCHANGED <<mem, todo, rounds, pipe, disk, clock, unmarked>> /\ apc' = "sleep"
    BY <1>17 DEF AllLoop
  <2>2. StreamInv'
    BY <1>t, <2>1 DEF StreamInv, disk
  <2> QED BY <1>t, <1>a, <2>1, <2>2 DEF mem, disk
<1>18. CASE UNCHANGED vars
  <2>1. StreamInv'
    BY <1>t, <1>18 DEF StreamInv, vars, disk
  <2> QED BY <1>t, <1>a, <1>18, <2>1 DEF vars, all, mem, disk
<1>w. "async" \in Writers /\ "disconnect" \in Writers /\ "all" \in Writers
  BY DEF Writers
<1> HIDE DEF Goal
<1> QED
  BY <1>w, <1>1, <1>2, <1>3, <1>4, <1>5, <1>6, <1>7, <1>8, <1>9, <1>10, <1>11, <1>12,
     <1>13, <1>14, <1>15, <1>16, <1>17, <1>18
  DEF Next, MainStep, AsyncStep, DisconnectStep, AllStep, FileStep

\* Nothing moves the world that a handler without the lock points to.
LEMMA HandlerStep ==
    ASSUME IndInv, [Next]_vars
    PROVE  HandlerInv'
<1> USE WSAssumption
<1>t. /\ worlds \in Seq(OwnWorld) /\ sweep \in Nat /\ HandlerInv
      /\ Len(worlds) \in Nat
  BY DEF IndInv, TypeOK, ContentInv
<1>k. ASSUME UNCHANGED <<edit, sweep, clock>>, InPlace(worlds, worlds') PROVE HandlerInv'
  BY <1>t, <1>k DEF HandlerInv, InPlace
<1>i. ASSUME Idle, UNCHANGED <<edit, sweep>> PROVE HandlerInv'
  BY <1>i DEF HandlerInv, Idle
<1>u. UNCHANGED worlds => InPlace(worlds, worlds')
  BY DEF InPlace
<1>1. ASSUME NEW p \in Peers,
             Connect(p) \/ ClientLeaves(p) \/ SpamKick(p) \/ Leave(p) \/ Disconnect(p)
      PROVE  HandlerInv'
  BY <1>1, <1>i DEF Connect, ClientLeaves, SpamKick, Leave, Disconnect, exit_
<1>2. ASSUME NEW p \in Peers, NEW w \in Worlds, NEW admitted \in BOOLEAN,
             join_world(p, w, admitted)
      PROVE  HandlerInv'
  BY <1>2, <1>i DEF join_world
<1>3. ASSUME NEW p \in Peers, NEW i, EditBegin(p, i) PROVE HandlerInv'
  <2>1. /\ sweep' = 0 /\ edit' = [pos |-> i, name |-> world[p]]
        /\ clock' = clock /\ clock[world[p]] < MaxEdits
    BY <1>3 DEF EditBegin, Idle
  <2>2. edit'.pos = i /\ edit'.name = world[p]
    BY <2>1
  <2>3. i \in 1 .. Len(worlds') /\ worlds'[i].name = world[p]
    BY <1>3, EditBeginSummary DEF InPlace
  <2> QED BY <2>1, <2>2, <2>3 DEF HandlerInv
<1>4. CASE EditApply
  <2>1. edit' = NoEdit /\ UNCHANGED sweep
    BY <1>4 DEF EditApply
  <2>2. InPlace(worlds, worlds')
    BY <1>4, EditApplySummary
  <2> QED BY <1>t, <2>1, <2>2 DEF HandlerInv, InPlace
<1>5. ASSUME NEW p \in Peers, NEW i, SilentCommand(p, i) PROVE HandlerInv'
  BY <1>5, <1>i DEF SilentCommand
<1>6. ASSUME NEW p \in Peers, SaveCommand(p) PROVE HandlerInv'
  <2>1. edit' = NoEdit /\ sweep' = 1 /\ worlds # <<>> /\ UNCHANGED worlds
    BY <1>6 DEF SaveCommand, Idle
  <2>2. 1 \in 1 .. Len(worlds')
    BY <1>t, <2>1
  <2> QED BY <2>1, <2>2 DEF HandlerInv
<1>7. CASE SaveNext
  <2>1. /\ UNCHANGED <<edit, clock>> /\ sweep # 0
        /\ sweep' = IF sweep < Len(worlds) THEN sweep + 1 ELSE 0
    BY <1>7 DEF SaveNext
  <2>2. InPlace(worlds, worlds')
    BY <1>7, SaveNextSummary DEF InPlace
  <2>3. sweep' # 0 => sweep' \in 1 .. Len(worlds)
    BY <1>t, <2>1
  <2> QED BY <1>t, <2>1, <2>2, <2>3 DEF HandlerInv, InPlace
<1>8. CASE AllSave
  <2>1. UNCHANGED <<edit, sweep, clock>>
    BY <1>8 DEF AllSave
  <2>2. InPlace(worlds, worlds')
    BY <1>8, AllSaveSummary DEF InPlace
  <2> QED BY <1>k, <2>1, <2>2
<1>9. CASE AllSnapshot \/ AllLoop
  BY <1>k, <1>u, <1>9 DEF AllSnapshot, AllLoop, mem
<1>10. ASSUME UNCHANGED <<mem, all, clock, unmarked>> PROVE HandlerInv'
  BY <1>k, <1>u, <1>10 DEF mem
<1>11. CASE AsyncStep \/ DisconnectStep \/ FileStep("all")
  BY <1>10, <1>11 DEF AsyncStep, DisconnectStep, FileStep, Thread
<1>12. CASE UNCHANGED vars
  BY <1>k, <1>u, <1>12 DEF vars, mem
<1> QED
  BY <1>1, <1>2, <1>3, <1>4, <1>5, <1>6, <1>7, <1>8, <1>9, <1>11, <1>12
  DEF Next, MainStep, AllStep

\* No step unloads a world that a connected player with a name is in, and a
\* slot is freed without a world.
LEMMA OccupiedStep ==
    ASSUME IndInv, [Next]_vars
    PROVE  OccupiedInv'
<1> USE WSAssumption
<1>t. /\ state \in [Peers -> {"free", "connected", "leaving"}]
      /\ world \in [Peers -> Worlds \cup {NoWorld}]
      /\ OccupiedInv
  BY DEF IndInv, TypeOK
<1>k. ASSUME UNCHANGED <<state, world>>, InPlace(worlds, worlds') PROVE OccupiedInv'
  <2>1. ASSUME NEW w, Loaded(worlds, w) PROVE Loaded(worlds', w)
    BY <1>k, <2>1 DEF Loaded, InPlace
  <2> QED BY <1>t, <1>k, <2>1 DEF OccupiedInv
<1>u. UNCHANGED worlds => InPlace(worlds, worlds')
  BY DEF InPlace
<1>1. ASSUME NEW p \in Peers, Connect(p) \/ ClientLeaves(p) \/ SpamKick(p)
      PROVE  OccupiedInv'
  BY <1>t, <1>1 DEF Connect, ClientLeaves, SpamKick, OccupiedInv
<1>2. ASSUME NEW p \in Peers, Leave(p) PROVE OccupiedInv'
  <2>1. exit_(p) /\ world[p] # NoWorld /\ UNCHANGED state
    BY <1>2 DEF Leave
  <2>2. world' = [world EXCEPT ![p] = NoWorld]
    BY <2>1, ExitSummary
  <2>3. \A q \in Peers \ Nameless : q # p /\ state[q] = "connected" /\ world[q] # NoWorld
                         => Loaded(worlds', world[q])
    BY <2>1, ExitSummary
  <2> QED BY <1>t, <2>1, <2>2, <2>3 DEF OccupiedInv
<1>3. ASSUME NEW p \in Peers, Disconnect(p) PROVE OccupiedInv'
  <2>0. state' = [state EXCEPT ![p] = "free"]
    BY <1>3 DEF Disconnect
  <2>1. CASE world[p] # NoWorld
    <3>1. exit_(p)
      BY <1>3, <2>1 DEF Disconnect
    <3>2. world' = [world EXCEPT ![p] = NoWorld]
      BY <2>1, <3>1, ExitSummary
    <3>3. \A q \in Peers \ Nameless : q # p /\ state[q] = "connected" /\ world[q] # NoWorld
                           => Loaded(worlds', world[q])
      BY <2>1, <3>1, ExitSummary
    <3> QED BY <1>t, <2>0, <3>2, <3>3 DEF OccupiedInv
  <2>2. CASE world[p] = NoWorld
    BY <1>t, <1>3, <2>0, <2>2 DEF Disconnect, OccupiedInv
  <2> QED BY <2>1, <2>2
<1>4. ASSUME NEW p \in Peers, NEW w \in Worlds, NEW admitted \in BOOLEAN,
             join_world(p, w, admitted)
      PROVE  OccupiedInv'
  <2>1. /\ UNCHANGED state /\ state[p] = "connected"
        /\ world' = IF admitted THEN [world EXCEPT ![p] = w] ELSE world
    BY <1>4 DEF join_world
  <2>2. \A q \in Peers \ Nameless : state[q] = "connected" /\ world[q] # NoWorld
                         => Loaded(worlds', world[q])
    BY <1>4, JoinSummary
  <2>3. admitted => Loaded(worlds', w)
    BY <1>4, JoinSummary
  <2> QED BY <1>t, <2>1, <2>2, <2>3 DEF OccupiedInv
<1>5. ASSUME NEW p \in Peers, NEW i, EditBegin(p, i) PROVE OccupiedInv'
  <2>1. UNCHANGED <<state, world>>
    BY <1>5 DEF EditBegin
  <2>2. InPlace(worlds, worlds')
    BY <1>5, EditBeginSummary
  <2> QED BY <1>k, <2>1, <2>2
<1>6. CASE EditApply
  <2>1. UNCHANGED <<state, world>>
    BY <1>6 DEF EditApply
  <2>2. InPlace(worlds, worlds')
    BY <1>6, EditApplySummary
  <2> QED BY <1>k, <2>1, <2>2
<1>7. ASSUME NEW p \in Peers, NEW i, SilentCommand(p, i) PROVE OccupiedInv'
  <2>1. UNCHANGED <<state, world>>
    BY <1>7 DEF SilentCommand
  <2>2. InPlace(worlds, worlds')
    BY <1>7, SilentSummary DEF InPlace
  <2> QED BY <1>k, <2>1, <2>2
<1>8. CASE SaveNext
  <2>1. UNCHANGED <<state, world>>
    BY <1>8 DEF SaveNext
  <2>2. InPlace(worlds, worlds')
    BY <1>8, SaveNextSummary DEF InPlace
  <2> QED BY <1>k, <2>1, <2>2
<1>9. CASE AllSave
  <2>1. UNCHANGED <<state, world>>
    BY <1>9 DEF AllSave
  <2>2. InPlace(worlds, worlds')
    BY <1>9, AllSaveSummary DEF InPlace
  <2> QED BY <1>k, <2>1, <2>2
<1>10. CASE AllSnapshot \/ AllLoop \/ \E p \in Peers : SaveCommand(p)
  BY <1>k, <1>u, <1>10 DEF AllSnapshot, AllLoop, SaveCommand, mem
<1>11. CASE AsyncStep \/ DisconnectStep \/ FileStep("all")
  <2>1. UNCHANGED mem
    BY <1>11 DEF AsyncStep, DisconnectStep, FileStep, Thread
  <2> QED BY <1>k, <1>u, <2>1 DEF mem
<1>12. CASE UNCHANGED vars
  BY <1>k, <1>u, <1>12 DEF vars, mem
<1> QED
  BY <1>1, <1>2, <1>3, <1>4, <1>5, <1>6, <1>7, <1>8, <1>9, <1>10, <1>11, <1>12
  DEF Next, MainStep, AllStep

\* The invariant is inductive: it holds at start, and every step preserves it.
THEOREM WorldIndInvariant == Spec => []IndInv
<1>1. Init => IndInv
  <2> SUFFICES ASSUME Init PROVE IndInv
    OBVIOUS
  <2> USE WSAssumption
  <2>1. <<>> \in Seq(OwnWorld) /\ <<>> \in Seq(World) /\ <<>> \in Seq(OwnSave) /\ <<>> \in Seq(Save)
        /\ <<>> \in Seq(Worlds) /\ Len(<<>>) = 0
    OBVIOUS
  <2>2. file \in [Worlds -> Content \cup {NoFile, Torn}] /\ OwnWorldOnly /\ covered \in Content
        /\ torn \in Content /\ unmarked \in Content
    BY DEF Init, PipeInit, Content, OwnWorldOnly
  <2>3. TypeOK
    BY <2>1, <2>2 DEF TypeOK, Init, PipeInit
  <2>4. ContentInv
    BY <2>1, <2>2 DEF ContentInv, Init, PipeInit
  <2>5. StreamInv /\ HandlerInv /\ OccupiedInv
    BY DEF StreamInv, HandlerInv, OccupiedInv, Init, PipeInit
  <2> QED BY <2>3, <2>4, <2>5 DEF IndInv
<1>2. IndInv /\ [Next]_vars => IndInv'
  BY ContentStep, HandlerStep, OccupiedStep DEF IndInv
<1> QED BY <1>1, <1>2, PTL DEF Spec

\* Every variable keeps its type, whatever players, handlers and the three
\* writers do.
THEOREM WorldTypes == Spec => []TypeOK
<1>1. IndInv => TypeOK
  BY DEF IndInv
<1> QED BY <1>1, WorldIndInvariant, PTL

\* A handler's World* stays that of its world, although All saves worlds
\* between its two steps: nothing but the main thread erases from the vector.
THEOREM HandlerPointerCorrect == Spec => []HandlerPointerValid
<1>1. IndInv => HandlerPointerValid
  <2> SUFFICES ASSUME IndInv, edit # NoEdit
               PROVE  edit.pos \in DOMAIN worlds /\ worlds[edit.pos].name = edit.name
    BY DEF HandlerPointerValid
  <2>1. worlds \in Seq(OwnWorld) /\ edit.pos \in 1 .. Len(worlds)
        /\ worlds[edit.pos].name = edit.name
    BY DEF IndInv, ContentInv, HandlerInv
  <2> QED BY <2>1
<1> QED BY <1>1, WorldIndInvariant, PTL

\* No world file ever holds another world's content, even when streams
\* overlap and files are torn.
THEOREM OwnWorldOnlyCorrect == Spec => []OwnWorldOnly
<1>1. IndInv => OwnWorldOnly
  BY DEF IndInv, ContentInv
<1> QED BY <1>1, WorldIndInvariant, PTL

\* The world of a connected player who has a name is loaded: exit_,
\* memory_clean_world and the writers unload only worlds in which
\* PlayerCountWorld counts nobody.
THEOREM OccupiedCorrect == Spec => []OccupiedIsLoaded
<1>1. IndInv => OccupiedIsLoaded
  <2> SUFFICES ASSUME IndInv, NEW p \in Peers \ Nameless, state[p] = "connected",
                      world[p] # NoWorld
               PROVE  find_if(worlds, world[p]) # 0
    BY DEF OccupiedIsLoaded
  <2>1. worlds \in Seq(World) /\ Loaded(worlds, world[p])
    BY OwnTypes DEF IndInv, ContentInv, OccupiedInv
  <2>2. 0 \notin 1 .. Len(worlds)
    OBVIOUS
  <2> QED BY <2>1, <2>2, FindIf
<1> QED BY <1>1, WorldIndInvariant, PTL

-----------------------------------------------------------------------------
(***************************************************************************)
(* What is lost: with SaveDatabase::All between the two steps of a         *)
(* handler, commands that mark nothing and streams that share a file, only *)
(* changes made without the mark and saves that a mixture replaced.        *)
(***************************************************************************)
\* Change e is in a world marked for saving, on its way, or has been on disk.
Safe(e) == DirtyIn(worlds, e) \/ InPipeline(e) \/ e \in covered

\* The thread swaps the queue only when it has written its copy.
SnapInv == dpc = "swap" => snap = <<>>

MadeSafe == \A e \in Made \ (unmarked \cup torn) : Safe(e)

SafetyInv == SnapInv /\ MadeSafe

\* A change stays in the pipeline or on disk if the queues only grow.
LEMMA PipelineKept ==
    ASSUME NEW e, InPipeline(e) \/ e \in covered,
           InSaves(e, aq) => InSaves(e, aq'), InSaves(e, dq) => InSaves(e, dq'),
           UNCHANGED <<snap, disk>>
    PROVE  Safe(e)'
  BY DEF Safe, InPipeline, InSaves, disk

\* No step takes a change out of the marked worlds, the pipeline and the disk
\* at once, but a stream that ends in a mixture.
LEMMA SafeStep ==
    ASSUME IndInv, SnapInv, [Next]_vars, NEW e, Safe(e), e \notin torn'
    PROVE  Safe(e)'
<1> USE WSAssumption
<1>t. /\ worlds \in Seq(OwnWorld)
      /\ aq \in Seq(OwnSave) /\ dq \in Seq(OwnSave) /\ snap \in Seq(OwnSave)
      /\ job \in [Writers -> OwnSave \cup {NoJob}]
  BY DEF IndInv, TypeOK, ContentInv
<1>c. DirtyIn(worlds, e) \/ (InPipeline(e) \/ e \in covered)
  BY DEF Safe
<1>q. InSaves(e, aq') \/ InSaves(e, dq') => Safe(e)'
  BY DEF Safe, InPipeline, InSaves
<1>d. DirtyIn(worlds', e) => Safe(e)'
  BY DEF Safe, DirtyIn
<1>m. ASSUME UNCHANGED <<snap, disk>>,
             DirtyIn(worlds, e) => DirtyIn(worlds', e) \/ InSaves(e, aq') \/ InSaves(e, dq'),
             InSaves(e, aq) => InSaves(e, aq'), InSaves(e, dq) => InSaves(e, dq')
      PROVE  Safe(e)'
  BY <1>m, <1>c, <1>q, <1>d, PipelineKept
<1>u. ASSUME UNCHANGED <<worlds, pipe, disk>> PROVE Safe(e)'
  BY <1>u, <1>m DEF pipe
<1>1. ASSUME NEW p \in Peers,
             Connect(p) \/ ClientLeaves(p) \/ SpamKick(p) \/ SaveCommand(p)
      PROVE  Safe(e)'
  BY <1>u, <1>1 DEF Connect, ClientLeaves, SpamKick, SaveCommand
<1>2. ASSUME NEW p \in Peers, world[p] # NoWorld, exit_(p) PROVE Safe(e)'
  <2>1. UNCHANGED <<snap, disk, aq>>
    BY <1>2 DEF exit_
  <2>2. (DirtyIn(worlds, e) => DirtyIn(worlds', e) \/ InSaves(e, dq'))
        /\ (InSaves(e, dq) => InSaves(e, dq'))
    BY <1>2, ExitSummary
  <2> QED BY <1>m, <2>1, <2>2
<1>3. ASSUME NEW p \in Peers, Leave(p) \/ Disconnect(p) PROVE Safe(e)'
  BY <1>2, <1>3, <1>u DEF Leave, Disconnect
<1>4. ASSUME NEW p \in Peers, NEW w \in Worlds, NEW admitted \in BOOLEAN,
             join_world(p, w, admitted)
      PROVE  Safe(e)'
  <2>1. UNCHANGED <<snap, disk, dq>>
    BY <1>4 DEF join_world
  <2>2. (DirtyIn(worlds, e) => DirtyIn(worlds', e) \/ InSaves(e, aq'))
        /\ (InSaves(e, aq) => InSaves(e, aq'))
    BY <1>4, JoinSummary
  <2> QED BY <1>m, <2>1, <2>2
<1>5. ASSUME NEW p \in Peers, NEW i, EditBegin(p, i) PROVE Safe(e)'
  <2>1. UNCHANGED <<pipe, disk>>
    BY <1>5 DEF EditBegin
  <2>2. NoneLost(worlds, worlds', <<>>)
    BY <1>5, EditBeginSummary
  <2>3. DirtyIn(worlds, e) => DirtyIn(worlds', e)
    BY <2>2 DEF NoneLost, InSaves
  <2> QED BY <1>m, <2>1, <2>3 DEF pipe
<1>6. CASE EditApply
  <2>1. UNCHANGED <<pipe, disk>>
    BY <1>6 DEF EditApply
  <2>2. InPlace(worlds, worlds') /\ Grown(worlds, worlds')
    BY <1>6, EditApplySummary
  <2>3. DirtyIn(worlds, e) => DirtyIn(worlds', e)
    BY <2>2 DEF DirtyIn, InPlace, Grown
  <2> QED BY <1>m, <2>1, <2>3 DEF pipe
<1>7. CASE SaveNext
  <2>1. UNCHANGED <<snap, disk, dq>>
    BY <1>7 DEF SaveNext
  <2>2. (DirtyIn(worlds, e) => DirtyIn(worlds', e) \/ InSaves(e, aq'))
        /\ (InSaves(e, aq) => InSaves(e, aq'))
    BY <1>7, SaveNextSummary
  <2> QED BY <1>m, <2>1, <2>2
<1>8. ASSUME NEW p \in Peers, NEW i, SilentCommand(p, i) PROVE Safe(e)'
  <2>1. UNCHANGED <<snap, disk, dq>>
    BY <1>8 DEF SilentCommand
  <2>2. (DirtyIn(worlds, e) => DirtyIn(worlds', e) \/ InSaves(e, aq'))
        /\ (InSaves(e, aq) => InSaves(e, aq'))
    BY <1>8, SilentSummary
  <2> QED BY <1>m, <2>1, <2>2
<1>j. ASSUME NEW w \in Writers, NEW s \in OwnSave, job[w] = NoJob,
             job' = [job EXCEPT ![w] = s]
      PROVE  /\ e \in s.data => Safe(e)'
             /\ \A v \in Writers : job[v] # NoJob => job'[v] = job[v]
  <2>1. s # NoJob
    BY OwnTypes
  <2>2. job'[w] = s /\ \A v \in Writers : v # w => job'[v] = job[v]
    BY <1>t, <1>j
  <2> QED BY <1>j, <2>1, <2>2 DEF Safe, InPipeline
<1>9. CASE Thread(AsyncTake)
  <2>1. /\ job["async"] = NoJob /\ job' = [job EXCEPT !["async"] = Head(aq)]
        /\ aq # <<>> /\ aq' = Tail(aq)
        /\ UNCHANGED <<worlds, dq, snap, covered>>
    BY <1>9 DEF Thread, AsyncTake, mem
  <2>2. "async" \in Writers /\ Head(aq) \in OwnSave
        /\ (InSaves(e, aq) => e \in Head(aq).data \/ InSaves(e, aq'))
    BY <1>t, <2>1, TakeSave DEF Writers
  <2>3. /\ e \in Head(aq).data => Safe(e)'
        /\ \A v \in Writers : job[v] # NoJob => job'[v] = job[v]
    BY <1>j, <2>1, <2>2
  <2> QED BY <2>1, <2>2, <2>3 DEF Safe, DirtyIn, InPipeline, InSaves
<1>10. CASE Thread(DisconnectSwap)
  <2>1. /\ dpc = "swap" /\ snap' = dq /\ dq' = <<>>
        /\ UNCHANGED <<worlds, aq, job, covered>>
    BY <1>10 DEF Thread, DisconnectSwap, mem, disk
  <2>2. snap = <<>>
    BY <2>1 DEF SnapInv
  <2> QED BY <2>1, <2>2 DEF Safe, DirtyIn, InPipeline, InSaves
<1>11. CASE Thread(DisconnectTake)
  <2>1. /\ job["disconnect"] = NoJob /\ job' = [job EXCEPT !["disconnect"] = Head(snap)]
        /\ snap # <<>> /\ snap' = Tail(snap)
        /\ UNCHANGED <<worlds, aq, dq, covered>>
    BY <1>11 DEF Thread, DisconnectTake, mem
  <2>2. "disconnect" \in Writers /\ Head(snap) \in OwnSave
        /\ (InSaves(e, snap) => e \in Head(snap).data \/ InSaves(e, snap'))
    BY <1>t, <2>1, TakeSave DEF Writers
  <2>3. /\ e \in Head(snap).data => Safe(e)'
        /\ \A v \in Writers : job[v] # NoJob => job'[v] = job[v]
    BY <1>j, <2>1, <2>2
  <2> QED BY <2>1, <2>2, <2>3 DEF Safe, DirtyIn, InPipeline, InSaves
<1>12. CASE Thread(DisconnectLoop(TRUE))
  BY <1>m, <1>12 DEF Thread, DisconnectLoop, mem
<1>13. ASSUME NEW w \in Writers, Thread(FileOpen(w)) PROVE Safe(e)'
  <2>1. UNCHANGED <<worlds, aq, dq, snap, job, covered>>
    BY <1>13 DEF Thread, FileOpen, mem, pipe
  <2> QED BY <2>1 DEF Safe, DirtyIn, InPipeline, InSaves
<1>14. ASSUME NEW w \in Writers, NEW mixed \in BOOLEAN, Thread(FileClose(w, mixed))
       PROVE  Safe(e)'
  <2>1. /\ covered' = IF mixed THEN covered ELSE covered \cup job[w].data
        /\ torn' = IF mixed THEN torn \cup job[w].data ELSE torn
        /\ \A v \in Writers : v # w => job'[v] = job[v]
        /\ UNCHANGED <<worlds, aq, dq, snap>>
    BY <1>t, <1>14 DEF Thread, FileClose, mem, pipe
  <2>2. e \in job[w].data => e \in covered'
    BY <2>1
  <2>3. covered \subseteq covered'
    BY <2>1
  <2> QED BY <2>1, <2>2, <2>3 DEF Safe, DirtyIn, InPipeline, InSaves
<1>a. CASE AllSave
  <2>1. UNCHANGED <<pipe, covered>> /\ job["all"] = NoJob
    BY <1>a DEF AllSave
  <2>2. /\ \A v \in Writers : v # "all" => job'[v] = job[v]
        /\ DirtyIn(worlds, e) => \/ DirtyIn(worlds', e)
                                 \/ job'["all"] # NoJob /\ e \in job'["all"].data
    BY <1>a, AllSaveSummary
  <2>3. "all" \in Writers
    BY DEF Writers
  <2> QED BY <2>1, <2>2, <2>3 DEF Safe, DirtyIn, InPipeline, InSaves, pipe
<1>15. CASE AllSnapshot \/ AllLoop
  BY <1>u, <1>15 DEF AllSnapshot, AllLoop, mem
<1>16. CASE UNCHANGED vars
  BY <1>u, <1>16 DEF vars, mem
<1>w. "async" \in Writers /\ "disconnect" \in Writers /\ "all" \in Writers
  BY DEF Writers
<1> QED
  BY <1>w, <1>1, <1>3, <1>4, <1>5, <1>6, <1>7, <1>8, <1>9, <1>10, <1>11, <1>12, <1>13,
     <1>14, <1>a, <1>15, <1>16
  DEF Next, MainStep, AsyncStep, DisconnectStep, AllStep, FileStep

\* The disconnect thread swaps only when its copy is empty.
LEMMA SnapStep ==
    ASSUME SnapInv, [Next]_vars
    PROVE  SnapInv'
<1>u. ASSUME UNCHANGED <<snap, dpc>> PROVE SnapInv'
  BY <1>u DEF SnapInv
<1>1. ASSUME NEW p \in Peers, MainStep(p) PROVE UNCHANGED <<snap, dpc>>
  BY <1>1 DEF MainStep, Connect, ClientLeaves, SpamKick, Leave, Disconnect, exit_,
     join_world, EditBegin, SilentCommand, SaveCommand, pipe
<1>2. CASE EditApply \/ SaveNext \/ AllSnapshot \/ AllSave \/ AllLoop \/ UNCHANGED vars
  BY <1>2, <1>u DEF EditApply, SaveNext, AllSnapshot, AllSave, AllLoop, vars, pipe
<1>3. ASSUME NEW w \in Writers, FileStep(w) PROVE SnapInv'
  BY <1>3, <1>u DEF FileStep, Thread, FileOpen, FileClose, pipe
<1>4. CASE Thread(AsyncTake)
  BY <1>4, <1>u DEF Thread, AsyncTake
<1>5. CASE Thread(DisconnectSwap) \/ Thread(DisconnectTake) \/ Thread(DisconnectLoop(TRUE))
  BY <1>5 DEF Thread, DisconnectSwap, DisconnectTake, DisconnectLoop, SnapInv
<1>w. "async" \in Writers /\ "disconnect" \in Writers /\ "all" \in Writers
  BY DEF Writers
<1> QED
  BY <1>w, <1>u, <1>1, <1>2, <1>3, <1>4, <1>5 DEF Next, AsyncStep, DisconnectStep, AllStep

\* A change is new only when a handler or a silent command makes it; then its
\* world is marked, or the change is on record as unmarked.
LEMMA NewChange ==
    ASSUME IndInv, [Next]_vars, NEW e \in Made', e \notin Made
    PROVE  e \in unmarked' \/ Safe(e)'
<1> USE WSAssumption
<1>1. e \in Worlds \X (1 .. MaxEdits) /\ e[2] <= clock'[e[1]] /\ ~(e[2] <= clock[e[1]])
  BY DEF Made
<1>2. clock' # clock
  BY <1>1
<1>3. clock \in [Worlds -> 0 .. MaxEdits]
  BY DEF IndInv, TypeOK
<1>e. ASSUME NEW w \in Worlds, NEW n \in 1 .. MaxEdits,
             n = clock[w] + 1, clock' = [clock EXCEPT ![w] = n]
      PROVE  e = <<w, n>>
  <2>1. e[1] = w /\ e[2] = n
    BY <1>1, <1>3, <1>e
  <2> QED BY <1>1, <2>1
<1>4. CASE EditApply
  <2>1. PICK w \in Worlds, n \in 1 .. MaxEdits :
                 /\ n = clock[w] + 1
                 /\ clock' = [clock EXCEPT ![w] = n]
                 /\ edit.pos \in 1 .. Len(worlds)
                 /\ <<w, n>> \in worlds'[edit.pos].ver
                 /\ worlds[edit.pos].fresh_world \/ <<w, n>> \in unmarked'
    BY <1>4, EditApplySummary
  <2>2. e = <<w, n>>
    BY <1>e, <2>1
  <2>3. /\ edit.pos \in 1 .. Len(worlds')
        /\ worlds'[edit.pos].fresh_world = worlds[edit.pos].fresh_world
    BY <1>4, <2>1, EditApplySummary DEF InPlace, Grown
  <2> QED BY <2>1, <2>2, <2>3 DEF Safe, DirtyIn
<1>5. ASSUME NEW p \in Peers, NEW i, SilentCommand(p, i) PROVE e \in unmarked' \/ Safe(e)'
  <2>1. PICK w \in Worlds, n \in 1 .. MaxEdits :
                 /\ n = clock[w] + 1
                 /\ clock' = [clock EXCEPT ![w] = n]
                 /\ \/ DirtyIn(worlds', <<w, n>>) \/ InSaves(<<w, n>>, aq')
                    \/ <<w, n>> \in unmarked'
    BY <1>5, SilentSummary
  <2>2. e = <<w, n>>
    BY <1>e, <2>1
  <2> QED BY <2>1, <2>2 DEF Safe, DirtyIn, InPipeline, InSaves
<1>6. ASSUME NEW p \in Peers, MainStep(p), clock' # clock
      PROVE  \E i \in DOMAIN worlds : SilentCommand(p, i)
  BY <1>6 DEF MainStep, Connect, ClientLeaves, SpamKick, Leave, Disconnect, exit_,
     join_world, EditBegin, SaveCommand
<1>7. AsyncStep \/ DisconnectStep \/ AllStep => clock' = clock
  BY DEF AsyncStep, DisconnectStep, AllStep, FileStep, Thread, AllSnapshot, AllSave, AllLoop
<1>8. SaveNext \/ UNCHANGED vars => clock' = clock
  BY DEF SaveNext, vars
<1> QED BY <1>2, <1>4, <1>5, <1>6, <1>7, <1>8 DEF Next

\* A change leaves the record of unmarked changes only when a handler marks
\* the world that has it, and a torn save stays on record.
LEMMA RecordStep ==
    ASSUME IndInv, [Next]_vars, NEW e
    PROVE  /\ e \in unmarked => e \in unmarked' \/ Safe(e)'
           /\ e \in torn => e \in torn'
<1> DEFINE Goal == /\ e \in unmarked => e \in unmarked' \/ Safe(e)'
                   /\ e \in torn => e \in torn'
<1> SUFFICES Goal
  OBVIOUS
<1>u. ASSUME UNCHANGED <<torn, unmarked>> PROVE Goal
  BY <1>u
<1>1. ASSUME NEW p \in Peers, NEW i, EditBegin(p, i) PROVE Goal
  <2>1. UNCHANGED torn
    BY <1>1 DEF EditBegin, disk
  <2>2. e \in unmarked => e \in unmarked' \/ DirtyIn(worlds', e)
    BY <1>1, EditBeginSummary
  <2> QED BY <2>1, <2>2 DEF Safe, DirtyIn
<1>2. ASSUME NEW p \in Peers, NEW i, SilentCommand(p, i) PROVE Goal
  <2>1. UNCHANGED torn
    BY <1>2 DEF SilentCommand, disk
  <2> QED BY <1>2, <2>1, SilentSummary
<1>3. CASE EditApply
  <2>1. UNCHANGED torn
    BY <1>3 DEF EditApply, disk
  <2> QED BY <1>3, <2>1, EditApplySummary
<1>4. ASSUME NEW p \in Peers,
             \/ Connect(p) \/ ClientLeaves(p) \/ SpamKick(p) \/ Leave(p) \/ Disconnect(p)
             \/ SaveCommand(p)
             \/ \E w \in Worlds, admitted \in BOOLEAN : join_world(p, w, admitted)
      PROVE  Goal
  <2>1. UNCHANGED <<torn, unmarked>>
    BY <1>4 DEF Connect, ClientLeaves, SpamKick, Leave, Disconnect, exit_, SaveCommand,
       join_world, disk
  <2> QED BY <1>u, <2>1
<1>5. CASE SaveNext \/ AllSnapshot \/ AllSave \/ AllLoop \/ UNCHANGED vars
  <2>1. UNCHANGED <<torn, unmarked>>
    BY <1>5 DEF SaveNext, AllSnapshot, AllSave, AllLoop, vars, disk
  <2> QED BY <1>u, <2>1
<1>6. CASE \/ Thread(AsyncTake) \/ Thread(DisconnectSwap) \/ Thread(DisconnectTake)
           \/ Thread(DisconnectLoop(TRUE))
  <2>1. UNCHANGED <<torn, unmarked>>
    BY <1>6 DEF Thread, AsyncTake, DisconnectSwap, DisconnectTake, DisconnectLoop, disk
  <2> QED BY <1>u, <2>1
<1>7. ASSUME NEW w, FileStep(w) PROVE Goal
  <2>1. unmarked' = unmarked /\ torn \subseteq torn'
    BY <1>7 DEF FileStep, Thread, FileOpen, FileClose
  <2> QED BY <2>1
<1> HIDE DEF Goal
<1> QED BY <1>1, <1>2, <1>3, <1>4, <1>5, <1>6, <1>7
        DEF Next, MainStep, AsyncStep, DisconnectStep, AllStep

\* Every step keeps the changes safe that were made under the mark.
LEMMA MadeStep ==
    ASSUME IndInv, SafetyInv, [Next]_vars
    PROVE  MadeSafe'
<1> SUFFICES ASSUME NEW e \in Made', e \notin unmarked', e \notin torn' PROVE Safe(e)'
  BY DEF MadeSafe
<1>1. CASE e \in Made
  <2>1. CASE e \in unmarked
    BY <2>1, RecordStep
  <2>2. CASE e \notin unmarked
    <3>1. e \notin torn
      BY RecordStep
    <3>2. Safe(e) /\ SnapInv
      BY <1>1, <2>2, <3>1 DEF SafetyInv, MadeSafe
    <3> QED BY <3>2, SafeStep
  <2> QED BY <2>1, <2>2
<1>2. CASE e \notin Made
  BY <1>2, NewChange
<1> QED BY <1>1, <1>2

\* The changes made are safe at start, and every step keeps them so.
LEMMA SafetyInductive == Spec => []SafetyInv
<1>1. Init => SafetyInv
  <2> SUFFICES ASSUME Init PROVE SafetyInv
    OBVIOUS
  <2> USE WSAssumption
  <2>1. SnapInv
    BY DEF Init, PipeInit, SnapInv
  <2>2. ASSUME NEW e \in Made PROVE e \in covered
    <3>1. PICK w \in Worlds, n \in 1 .. MaxEdits : e = <<w, n>>
      BY DEF Made
    <3>2. n <= clock[w]
      BY <3>1 DEF Made
    <3>3. clock[w] = IF w \in Stored THEN 1 ELSE 0
      BY DEF Init
    <3>4. w \in Stored /\ n = 1
      BY <3>2, <3>3
    <3> QED BY <3>1, <3>4 DEF Init
  <2> QED BY <2>1, <2>2 DEF SafetyInv, MadeSafe, Safe
<1>2. IndInv /\ SafetyInv /\ [Next]_vars => SafetyInv'
  BY SnapStep, MadeStep DEF SafetyInv
<1> QED BY <1>1, <1>2, WorldIndInvariant, PTL DEF Spec

\* A change made to a world that was marked, or marked later, is in a marked
\* world, on its way to the disk, or has been there, unless a mixture of two
\* streams replaced its save: exit_, memory_clean_world, SAVE_WORLD and All
\* drop nothing else, whatever the interleaving.
THEOREM MarkedEditsSafeCorrect == Spec => []MarkedEditsSafe
<1>1. IndInv /\ SafetyInv => MarkedEditsSafe
  <2> SUFFICES ASSUME IndInv, SafetyInv, NEW e \in Made \ (unmarked \cup torn)
               PROVE  Dirty(e) \/ InPipeline(e) \/ e \in covered
    BY DEF MarkedEditsSafe
  <2>1. DOMAIN worlds = 1 .. Len(worlds)
    BY DEF IndInv, ContentInv
  <2> QED BY <2>1 DEF SafetyInv, MadeSafe, Safe, DirtyIn, Dirty
<1> QED BY <1>1, SafetyInductive, WorldIndInvariant, PTL
=============================================================================
