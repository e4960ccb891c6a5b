-------------------------- MODULE RateLimitsProofs --------------------------
(***************************************************************************)
(* What the limits of RateLimits guarantee, for windows and limits of any  *)
(* size: HandledBound and KickIsSpam.                                      *)
(***************************************************************************)
EXTENDS RateLimits, Lemmas

\* The variables have their types, and no count begins in the future.
RateTypes ==
    /\ traffic \in Kinds
    /\ now \in Window + 1..MaxTime
    /\ start \in 0..now
    /\ count \in Nat
    /\ arrived \in [Times -> Nat] /\ handled \in [Times -> Nat]

\* A message at time t would begin a new count.
Over(t) == IF traffic = "packet" THEN start + Window < t ELSE t - start >= Window

\* What one count lets through, altogether and after the time it began.  The
\* first game packet begins a count, a connection from another IP may.
Most == CASE traffic = "login" -> LoginLimit
          [] traffic = "packet" -> PacketLimit
          [] traffic = "unknown" -> 1
Later == CASE traffic = "login" -> LoginLimit
           [] traffic = "packet" -> PacketLimit - 1
           [] traffic = "unknown" -> 0

Since == Total(handled, start, MaxTime)
After == Total(handled, start + 1, MaxTime)

\* Counts begin at least a window apart: a time as long as the window meets the
\* present count and the end of the one before, which has let through only
\* what came after its beginning.
HandledInv ==
    traffic # "text" =>
        /\ \A t \in Times : t > now \/ Over(t) => handled[t] = 0
        /\ Since <= Most /\ After <= Later
        /\ Total(handled, start - Window + 1, start - 1) <= Later
        /\ traffic = "login" => Since <= count
        /\ traffic = "packet" => Since <= count + 1 /\ After <= count

\* What is counted has come since the count began, and lastPacketTime is that
\* of a message which was handled.
ArrivedInv ==
    /\ traffic = "login" => count <= Total(arrived, start, now)
    /\ traffic = "packet" => Over(now) \/ count + 1 <= Total(arrived, start, now)
    /\ traffic = "unknown" => Over(now) \/ 1 <= Total(handled, start, now)
    /\ traffic = "text" => start = 0

RateInv == RateTypes /\ HandledInv /\ ArrivedInv /\ HandledBound
-----------------------------------------------------------------------------
(* The number of messages in a span of time.                               *)

Span(first, last) == {t \in Times : first <= t /\ t <= last}

\* There are finitely many times.
LEMMA TimesFinite == IsFiniteSet(Times)
BY RateLimitsAssumption, FS_Interval DEF Times

\* Total is the sum over a span.
LEMMA TotalIs ==
    ASSUME NEW f \in [Times -> Nat], NEW F, SumFun(F, Times, f), NEW a \in Int, NEW b \in Int
    PROVE  Total(f, a, b) = F[Span(a, b)]
<1> DEFINE S == Span(a, b)
           Def(G) == [s \in SUBSET S |->
                        IF s = {} THEN 0 ELSE G[s \ {Picked(s)}] + f[Picked(s)]]
           D == CHOOSE G : G = Def(G)
           G == [s \in SUBSET S |-> F[s]]
<1>1. Total(f, a, b) = D[S]
  BY DEF Total, FoldSet, MapThenFoldSet, Picked, Span
<1>2. S \in SUBSET Times /\ IsFiniteSet(S)
  BY TimesFinite, FS_Subset DEF Span
<1> HIDE DEF D, S
<1>3. ASSUME NEW s \in SUBSET S, s # {}
      PROVE  /\ Picked(s) \in s /\ s \ {Picked(s)} \in SUBSET S
             /\ F[s] = F[s \ {Picked(s)}] + f[Picked(s)]
  <2>1. Picked(s) \in s /\ Picked(s) \in Times /\ s \ {Picked(s)} \in SUBSET S
    BY <1>2, <1>3 DEF Picked
  <2>2. s \in SUBSET Times /\ s \ {Picked(s)} \in SUBSET Times
    BY <1>2
  <2>3. F[s] = f[Picked(s)] + F[s \ {Picked(s)}]
    BY <1>3, <2>2 DEF SumFun
  <2>4. F[s \ {Picked(s)}] \in Int /\ f[Picked(s)] \in Nat
    BY <2>1, <2>2 DEF SumFun
  <2> QED BY <2>1, <2>3, <2>4
<1>4. G = Def(G)
  <2>1. F[{}] = 0
    BY DEF SumFun
  <2>2. ASSUME NEW s \in SUBSET S PROVE G[s] = Def(G)[s]
    BY <1>3, <2>1
  <2> QED BY <2>2
<1>5. \A s \in SUBSET S : G[s] = F[s]
  OBVIOUS
<1> HIDE DEF Def, G
<1>6. D = Def(D)
  BY <1>4 DEF D
<1> DEFINE Bad == {s \in SUBSET S : D[s] # G[s]}
<1>7. ASSUME Bad # {} PROVE FALSE
  <2>1. PICK s \in Bad : \A x \in s : s \ {x} \notin Bad
    BY <1>2, <1>7, LeastSet
  <2>2. s \in SUBSET S /\ D[s] # G[s] /\ D[s] = Def(D)[s] /\ G[s] = Def(G)[s]
    BY <1>4, <1>6, <2>1
  <2>3. s # {}
    BY <2>2 DEF Def
  <2>4. D[s \ {Picked(s)}] = G[s \ {Picked(s)}]
    BY <1>3, <2>1, <2>2, <2>3
  <2> QED BY <2>2, <2>3, <2>4 DEF Def
<1>8. D[S] = F[S]
  BY <1>5, <1>7
<1> QED BY <1>1, <1>8 DEF S

\* Totals are natural numbers, and 0 where nothing came.
LEMMA TotalNat ==
    ASSUME NEW f \in [Times -> Nat], NEW a \in Int, NEW b \in Int
    PROVE  /\ Total(f, a, b) \in Nat
           /\ (\A t \in Times : a <= t /\ t <= b => f[t] = 0) => Total(f, a, b) = 0
<1>1. PICK F : SumFun(F, Times, f)
  BY TimesFinite, SumExists
<1>2. Span(a, b) \in SUBSET Times
  BY DEF Span
<1>3. F[Span(a, b)] \in Nat /\ ((\A t \in Span(a, b) : f[t] = 0) => F[Span(a, b)] = 0)
  BY <1>1, <1>2, TimesFinite, SumNat
<1>4. (\A t \in Times : a <= t /\ t <= b => f[t] = 0) => \A t \in Span(a, b) : f[t] = 0
  BY DEF Span
<1> QED BY <1>1, <1>3, <1>4, TotalIs

\* A longer span has no smaller total.
LEMMA TotalGrows ==
    ASSUME NEW f \in [Times -> Nat], NEW a \in Int, NEW b \in Int,
           NEW c \in Int, NEW d \in Int, c <= a, b <= d \/ MaxTime <= d
    PROVE  Total(f, a, b) <= Total(f, c, d)
<1>1. PICK F : SumFun(F, Times, f)
  BY TimesFinite, SumExists
<1>2. Span(a, b) \in SUBSET Span(c, d) /\ Span(c, d) \in SUBSET Times
  <2>1. MaxTime \in Nat
    BY RateLimitsAssumption
  <2>2. ASSUME NEW t \in Times, a <= t, t <= b PROVE c <= t /\ t <= d
    BY <2>1, <2>2 DEF Times
  <2> QED BY <2>2 DEF Span
<1>3. F[Span(a, b)] <= F[Span(c, d)]
  BY <1>1, <1>2, TimesFinite, SumNat
<1> QED BY <1>1, <1>3, TotalIs

\* A span can be cut.
LEMMA TotalCut ==
    ASSUME NEW f \in [Times -> Nat], NEW a \in Int, NEW b \in Int, NEW e \in Int, NEW m \in Int,
           m = e + 1, a <= m, e <= b
    PROVE  Total(f, a, b) = Total(f, a, e) + Total(f, m, b)
<1>1. PICK F : SumFun(F, Times, f)
  BY TimesFinite, SumExists
<1>2. /\ Span(a, e) \in SUBSET Times /\ Span(m, b) \in SUBSET Times
      /\ Span(a, e) \cap Span(m, b) = {}
      /\ Span(a, e) \cup Span(m, b) = Span(a, b)
  BY RateLimitsAssumption DEF Span, Times
<1>3. F[Span(a, e) \cup Span(m, b)] = F[Span(a, e)] + F[Span(m, b)]
  BY <1>1, <1>2, TimesFinite, SumDisjoint
<1>4. /\ Total(f, a, e) = F[Span(a, e)] /\ Total(f, a, b) = F[Span(a, b)]
      /\ Total(f, m, b) = F[Span(m, b)]
  BY <1>1, TotalIs
<1>5. F[Span(a, b)] = F[Span(a, e)] + F[Span(m, b)]
  BY <1>2, <1>3, Zenon
<1> QED BY <1>4, <1>5, Zenon

\* h has d messages more at time x than f.
Adds(h, f, x, d) ==
    /\ f \in [Times -> Nat] /\ h \in [Times -> Nat]
    /\ x \in Times /\ d \in Nat
    /\ h[x] = f[x] + d
    /\ \A t \in Times \ {x} : h[t] = f[t]

\* d more messages at time x.
LEMMA TotalPlus ==
    ASSUME NEW f, NEW h, NEW x, NEW d, Adds(h, f, x, d), NEW a \in Int, NEW b \in Int
    PROVE  /\ Total(f, a, b) \in Nat
           /\ a <= x /\ x <= b => Total(h, a, b) = Total(f, a, b) + d
           /\ ~(a <= x /\ x <= b) => Total(h, a, b) = Total(f, a, b)
<1> DEFINE s == Span(a, b)
           r == s \ {x}
<1>1. /\ f \in [Times -> Nat] /\ h \in [Times -> Nat] /\ x \in Times /\ d \in Nat
      /\ h[x] = f[x] + d /\ \A t \in Times \ {x} : h[t] = f[t]
  BY DEF Adds
<1>2. f \in [Times -> Int] /\ h \in [Times -> Int]
  BY <1>1
<1>3. PICK F : SumFun(F, Times, f)
  BY <1>2, TimesFinite, SumExists
<1>4. PICK H : SumFun(H, Times, h)
  BY <1>2, TimesFinite, SumExists
<1>5. s \in SUBSET Times /\ r \in SUBSET Times /\ x \notin r /\ (x \notin s => s = r)
      /\ (x \in s <=> a <= x /\ x <= b)
  BY <1>1 DEF Span
<1>6. Total(f, a, b) = F[s] /\ Total(h, a, b) = H[s]
  BY <1>1, <1>3, <1>4, TotalIs
<1> HIDE DEF s
<1>7. \A t \in r : f[t] = h[t]
  BY <1>1, <1>5
<1>8. F[r] = H[r] /\ F[r] \in Int
  <2> HIDE DEF r
  <2>1. F[r] = H[r]
    BY <1>2, <1>3, <1>4, <1>5, <1>7, TimesFinite, SumSame
  <2> QED BY <1>3, <1>5, <2>1 DEF SumFun
<1>9. CASE x \in s
  <2>1. F[s] = f[x] + F[r] /\ H[s] = h[x] + H[r]
    BY <1>2, <1>3, <1>4, <1>5, <1>9, TimesFinite, SumRemove
  <2>2. f[x] \in Int
    BY <1>1
  <2> HIDE DEF r
  <2>3. H[s] = F[s] + d
    BY <1>1, <1>8, <2>1, <2>2
  <2>4. F[s] \in Nat
    BY <1>1, <1>3, <1>5, TimesFinite, SumNat
  <2> QED BY <1>5, <1>6, <1>9, <2>3, <2>4
<1>10. CASE x \notin s
  <2>1. H[s] = F[s]
    BY <1>5, <1>8, <1>10
  <2>2. F[s] \in Nat
    BY <1>1, <1>3, <1>5, TimesFinite, SumNat
  <2> QED BY <1>5, <1>6, <1>10, <2>1, <2>2
<1> QED BY <1>9, <1>10
-----------------------------------------------------------------------------
(* What is handled.                                                        *)

\* The limits, and the times there are.
LEMMA Limits ==
    ASSUME RateTypes
    PROVE  /\ Window \in Nat /\ 0 < Window /\ MaxTime \in Nat
           /\ LoginLimit \in Nat /\ PacketLimit \in Nat /\ 0 < PacketLimit
           /\ now \in Times /\ now \in Nat /\ Window + 1 <= now /\ now <= MaxTime
           /\ start \in Nat /\ start <= now
           /\ traffic # "text" => Most \in Nat /\ Later \in Nat
<1>1. /\ Window \in Nat /\ 0 < Window /\ MaxTime \in Nat
      /\ LoginLimit \in Nat /\ PacketLimit \in Nat /\ 0 < PacketLimit
  BY RateLimitsAssumption
<1>2. /\ now \in Times /\ now \in Nat /\ Window + 1 <= now /\ now <= MaxTime
      /\ start \in Nat /\ start <= now
  BY <1>1 DEF RateTypes, Times
<1>3. traffic # "text" => Most \in Nat /\ Later \in Nat
  BY <1>1 DEF RateTypes, Kinds, Most, Later
<1> QED BY <1>1, <1>2, <1>3

\* A message that is counted where the others are.
LEMMA Counting ==
    ASSUME RateTypes, HandledInv, traffic # "text", UNCHANGED <<traffic, now, start>>, ~Over(now),
           NEW d \in {0, 1}, handled' = [handled EXCEPT ![now] = @ + d],
           arrived' = [arrived EXCEPT ![now] = @ + 1]
    PROVE  /\ Since \in Nat /\ After \in Nat /\ After <= Since
           /\ Since' = Since + d /\ After' \in {After, After + d}
           /\ Total(handled', start' - Window + 1, start' - 1) <= Later
           /\ \A t \in Times : t > now' \/ Over(t)' => handled'[t] = 0
           /\ Total(arrived, start, now) \in Nat
           /\ Total(arrived', start', now') = Total(arrived, start, now) + 1
<1> DEFINE prev == start - Window + 1
           end == start - 1
           next == start + 1
<1>1. /\ handled \in [Times -> Nat] /\ arrived \in [Times -> Nat]
      /\ now \in Times /\ now \in Int /\ now <= MaxTime /\ MaxTime \in Int
      /\ start \in Int /\ next \in Int /\ end \in Int /\ prev \in Int
      /\ start <= now /\ ~(now <= end) /\ 1 \in Nat /\ d \in Nat
  BY Limits DEF RateTypes
<1>2. /\ Since = Total(handled, start, MaxTime) /\ Since' = Total(handled', start, MaxTime)
      /\ After = Total(handled, next, MaxTime) /\ After' = Total(handled', next, MaxTime)
      /\ Total(handled, prev, end) <= Later
  BY DEF Since, After, HandledInv
<1>a. Adds(handled', handled, now, d) /\ Adds(arrived', arrived, now, 1)
  BY <1>1 DEF Adds
<1> HIDE DEF prev, end, next
<1>3. Since \in Nat /\ Since' = Since + d
  BY <1>1, <1>2, <1>a, TotalPlus
<1>4. After \in Nat /\ (After' = After + d \/ After' = After)
  BY <1>1, <1>2, <1>a, TotalPlus
<1>5. Total(handled', prev, end) = Total(handled, prev, end)
  BY <1>1, <1>a, TotalPlus
<1>6. ASSUME NEW t \in Times, t > now' \/ Over(t)' PROVE handled'[t] = 0
  <2>1. t > now \/ Over(t)
    BY <1>6 DEF Over
  <2>2. handled[t] = 0
    BY <2>1 DEF HandledInv
  <2>3. t # now
    BY <1>1, <2>1
  <2> QED BY <1>1, <2>2, <2>3
<1>7. /\ Total(arrived, start, now) \in Nat
      /\ Total(arrived', start, now) = Total(arrived, start, now) + 1
  <2>1. now <= now
    BY <1>1
  <2> QED BY <1>1, <2>1, <1>a, TotalPlus
<1>8. After <= Since
  <2>1. start <= next /\ MaxTime <= MaxTime
    BY <1>1 DEF next
  <2> QED BY <1>1, <1>2, <2>1, TotalGrows
<1> QED BY <1>2, <1>3, <1>4, <1>5, <1>6, <1>7, <1>8 DEF prev, end

\* A count that begins now.  What was handled in the window before came after
\* the beginning of the last count.
LEMMA Beginning ==
    ASSUME RateTypes, HandledInv, traffic # "text", UNCHANGED <<traffic, now>>, Over(now),
           start' = now, NEW d \in {0, 1}, handled' = [handled EXCEPT ![now] = @ + d]
    PROVE  /\ Since' = d /\ After' = 0
           /\ Total(handled', start' - Window + 1, start' - 1) <= Later
           /\ \A t \in Times : t > now' \/ Over(t)' => handled'[t] = 0
<1> DEFINE prev == now - Window + 1
           end == now - 1
           next == now + 1
           later == start + 1
<1>1. /\ handled \in [Times -> Nat] /\ Window \in Nat /\ 0 < Window /\ start \in Nat
      /\ now \in Times /\ now \in Nat /\ now \in Int /\ now <= MaxTime /\ MaxTime \in Int
      /\ MaxTime <= MaxTime /\ now <= now
      /\ prev \in Int /\ end \in Int /\ next \in Int /\ later \in Int
      /\ ~(now <= end) /\ ~(next <= now) /\ d \in Nat
  BY Limits DEF RateTypes
<1>2. later <= prev
  BY <1>1 DEF Over
<1>3. /\ Since' = Total(handled', now, MaxTime) /\ After' = Total(handled', next, MaxTime)
      /\ Total(handled, later, MaxTime) <= Later /\ Later \in Nat
  BY Limits DEF Since, After, HandledInv
<1>4. ASSUME NEW t \in Times, now <= t PROVE handled[t] = 0
  <2>1. t \in Int
    BY DEF Times
  <2>2. Over(t)
    BY <1>1, <1>4, <2>1 DEF Over
  <2> QED BY <2>2 DEF HandledInv
<1>5. \A t \in Times : next <= t => now <= t
  BY <1>1 DEF Times
<1>6. ASSUME NEW t \in Times, t > now' \/ Over(t)' PROVE handled'[t] = 0
  <2>1. t \in Int
    BY DEF Times
  <2>2. now < t
    BY <1>1, <1>6, <2>1 DEF Over
  <2> QED BY <1>1, <1>4, <2>1, <2>2
<1>a. Adds(handled', handled, now, d)
  BY <1>1 DEF Adds
<1> HIDE DEF prev, end, next, later
<1>7. Since' = d
  <2>1. Total(handled, now, MaxTime) = 0
    BY <1>1, <1>4, TotalNat
  <2>2. Total(handled', now, MaxTime) = Total(handled, now, MaxTime) + d
    BY <1>1, <1>a, TotalPlus
  <2> QED BY <1>1, <1>3, <2>1, <2>2
<1>8. After' = 0
  <2>1. Total(handled, next, MaxTime) = 0
    BY <1>1, <1>4, <1>5, TotalNat
  <2>2. Total(handled', next, MaxTime) = Total(handled, next, MaxTime)
    BY <1>1, <1>a, TotalPlus
  <2> QED BY <1>3, <2>1, <2>2
<1>9. Total(handled', prev, end) <= Later
  <2>1. Total(handled, prev, end) <= Total(handled, later, MaxTime)
    BY <1>1, <1>2, TotalGrows
  <2>2. Total(handled', prev, end) = Total(handled, prev, end)
    BY <1>1, <1>a, TotalPlus
  <2>3. Total(handled, later, MaxTime) \in Nat /\ Total(handled, prev, end) \in Nat
    BY <1>1, TotalNat
  <2> QED BY <1>3, <2>1, <2>2, <2>3
<1> QED BY <1>6, <1>7, <1>8, <1>9 DEF prev, end

\* A time as long as the window that ends no earlier than the present count
\* began meets this count, of m messages, and l of the window before it.
LEMMA TwoCounts ==
    ASSUME NEW h \in [Times -> Nat], NEW s \in Int, NEW x \in Int, NEW t \in Int,
           s <= x, x <= t + Window - 1, NEW m \in Nat, NEW l \in Nat,
           Total(h, s, MaxTime) <= m, Total(h, s - Window + 1, s - 1) <= l
    PROVE  Total(h, t, t + Window - 1) <= m + l
<1> DEFINE last == t + Window - 1
           prev == s - Window + 1
           end == s - 1
<1>1. Window \in Nat /\ MaxTime \in Int /\ MaxTime <= MaxTime
  BY RateLimitsAssumption
<1>2. /\ last \in Int /\ prev \in Int /\ end \in Int /\ s = end + 1 /\ end <= end /\ s <= s
      /\ prev <= t /\ end <= last
  BY <1>1
<1>3. Total(h, s, MaxTime) <= m /\ Total(h, prev, end) <= l
  OBVIOUS
<1> HIDE DEF last, prev, end
<1>4. /\ Total(h, t, last) \in Nat /\ Total(h, s, MaxTime) \in Nat
      /\ Total(h, t, end) \in Nat /\ Total(h, s, last) \in Nat /\ Total(h, prev, end) \in Nat
  BY <1>1, <1>2, TotalNat
<1>5. CASE s <= t
  <2>1. Total(h, t, last) <= Total(h, s, MaxTime)
    BY <1>1, <1>2, <1>5, TotalGrows
  <2>2. Total(h, t, last) <= m + l
    BY <1>3, <1>4, <2>1
  <2> QED BY <2>2 DEF last
<1>6. CASE t <= s
  <2>1. Total(h, t, last) = Total(h, t, end) + Total(h, s, last)
    BY <1>2, <1>6, TotalCut
  <2>2. Total(h, t, end) <= Total(h, prev, end)
    BY <1>2, TotalGrows
  <2>3. Total(h, s, last) <= Total(h, s, MaxTime)
    BY <1>1, <1>2, TotalGrows
  <2>4. Total(h, t, last) <= m + l
    BY <1>3, <1>4, <2>1, <2>2, <2>3
  <2> QED BY <2>4 DEF last
<1> QED BY <1>5, <1>6

\* A message that the count admits keeps the bound.
LEMMA BoundKept ==
    ASSUME RateTypes, RateTypes', HandledInv', HandledBound, UNCHANGED <<traffic, now>>,
           NEW d \in {0, 1}, handled' = [handled EXCEPT ![now] = @ + d]
    PROVE  HandledBound'
<1> SUFFICES ASSUME NEW t \in Times, traffic # "text"
             PROVE  Total(handled', t, t + Window - 1) <= Most + Later
  <2>1. traffic # "text" =>
           Most + Later = CASE traffic = "login" -> 2 * LoginLimit
                            [] traffic = "packet" -> 2 * PacketLimit - 1
                            [] traffic = "unknown" -> 1
    BY Limits DEF RateTypes, Kinds, Most, Later
  <2> QED BY <2>1 DEF HandledBound
<1> DEFINE last == t + Window - 1
<1>1. handled \in [Times -> Nat] /\ handled' \in [Times -> Nat]
  BY DEF RateTypes
<1>2. t \in Int
  BY DEF Times
<1>3. /\ now \in Times /\ now \in Int /\ last \in Int /\ d \in Nat
      /\ Most \in Nat /\ Later \in Nat
  BY <1>2, Limits
<1>4. start' \in Int /\ start' <= now
  <2>1. start' \in 0..now
    BY DEF RateTypes
  <2> QED BY <1>3, <2>1
<1>5. Total(handled, t, last) <= Most + Later
  BY Limits DEF HandledBound, RateTypes, Kinds, Most, Later
<1>6. Total(handled', start', MaxTime) <= Most /\ Total(handled', start' - Window + 1, start' - 1) <= Later
  BY DEF HandledInv, Since, Most, Later
<1>7. Adds(handled', handled, now, d)
  BY <1>1, <1>3 DEF Adds
<1>8. CASE now <= last
  BY <1>1, <1>2, <1>3, <1>4, <1>6, <1>8, TwoCounts
<1>9. CASE ~(now <= last)
  <2> HIDE DEF last
  <2>1. Total(handled', t, last) = Total(handled, t, last)
    BY <1>2, <1>3, <1>7, <1>9, TotalPlus
  <2> QED BY <1>5, <2>1 DEF last
<1> QED BY <1>8, <1>9
-----------------------------------------------------------------------------
(* The steps.                                                              *)

\* What every message does to the history.
LEMMA MessageIs ==
    ASSUME RateTypes, NEW kind, NEW v, Message(kind, v)
    PROVE  /\ traffic = kind /\ UNCHANGED <<traffic, now>> /\ verdict' = v
           /\ handled' \in [Times -> Nat] /\ arrived' \in [Times -> Nat]
           /\ arrived' = [arrived EXCEPT ![now] = @ + 1]
           /\ v = "handle" => handled' = [handled EXCEPT ![now] = @ + 1]
           /\ v # "handle" => handled' = [handled EXCEPT ![now] = @ + 0]
<1>1. now \in Times /\ handled \in [Times -> Nat] /\ arrived \in [Times -> Nat]
  BY Limits DEF RateTypes
<1>2. traffic = kind /\ UNCHANGED <<traffic, now>> /\ verdict' = v
  BY DEF Message
<1>3. arrived' = [arrived EXCEPT ![now] = @ + 1] /\ arrived' \in [Times -> Nat]
  BY <1>1 DEF Message
<1>4. ASSUME v = "handle"
      PROVE  handled' = [handled EXCEPT ![now] = @ + 1] /\ handled' \in [Times -> Nat]
  BY <1>1, <1>4 DEF Message
<1>5. ASSUME v # "handle"
      PROVE  handled' = [handled EXCEPT ![now] = @ + 0] /\ handled' \in [Times -> Nat]
  <2>1. handled' = [handled EXCEPT ![now] = handled[now]]
    BY <1>5 DEF Message
  <2>2. handled[now] + 0 = handled[now]
    BY <1>1
  <2> QED BY <1>1, <2>1, <2>2
<1> QED BY <1>2, <1>3, <1>4, <1>5

\* A message is among those of its time.
LEMMA Arriving ==
    ASSUME RateTypes, arrived' = [arrived EXCEPT ![now] = @ + 1], arrived' \in [Times -> Nat]
    PROVE  Total(arrived', now, now) \in Nat /\ 1 <= Total(arrived', now, now)
<1>1. now \in Times /\ now \in Int /\ now <= now /\ arrived \in [Times -> Nat] /\ 1 \in Nat
  BY Limits DEF RateTypes
<1>2. Adds(arrived', arrived, now, 1)
  BY <1>1 DEF Adds
<1>3. Total(arrived, now, now) \in Nat /\ Total(arrived', now, now) = Total(arrived, now, now) + 1
  BY <1>1, <1>2, TotalPlus
<1> QED BY <1>3

\* So is a message that was handled.
LEMMA Handling ==
    ASSUME RateTypes, handled' = [handled EXCEPT ![now] = @ + 1], handled' \in [Times -> Nat]
    PROVE  Total(handled', now, now) \in Nat /\ 1 <= Total(handled', now, now)
<1>1. now \in Times /\ now \in Int /\ now <= now /\ handled \in [Times -> Nat] /\ 1 \in Nat
  BY Limits DEF RateTypes
<1>2. Adds(handled', handled, now, 1)
  BY <1>1 DEF Adds
<1>3. Total(handled, now, now) \in Nat /\ Total(handled', now, now) = Total(handled, now, now) + 1
  BY <1>1, <1>2, TotalPlus
<1> QED BY <1>3

\* Login_Detect, for a connection from the IP.
LEMMA LoginStep ==
    ASSUME RateTypes, HandledInv, ArrivedInv, LoginAttempt
    PROVE  /\ RateTypes' /\ HandledInv' /\ ArrivedInv'
           /\ \E d \in {0, 1} : handled' = [handled EXCEPT ![now] = @ + d]
<1> DEFINE n == IF Elapsed THEN 1 ELSE count + 1
           v == IF n > LoginLimit THEN "refuse" ELSE "handle"
<1>1. Message("login", v) /\ count' = n /\ start' = IF Elapsed THEN now ELSE start
  BY DEF LoginAttempt
<1>2. LoginLimit \in Nat /\ count \in Nat /\ now \in Nat /\ start \in Nat /\ start <= now
  BY Limits DEF RateTypes
<1>3. n \in Nat /\ (v = "handle" <=> n <= LoginLimit)
  BY <1>2
<1> HIDE DEF v
<1>4. /\ traffic = "login" /\ UNCHANGED <<traffic, now>>
      /\ handled' \in [Times -> Nat] /\ arrived' \in [Times -> Nat]
      /\ arrived' = [arrived EXCEPT ![now] = @ + 1]
  BY <1>1, MessageIs
<1>5. PICK d \in {0, 1} : (d = 1 <=> n <= LoginLimit) /\ handled' = [handled EXCEPT ![now] = @ + d]
  BY <1>1, <1>3, MessageIs
<1>6. Elapsed <=> Over(now)
  BY <1>4 DEF Elapsed, Over
<1>7. RateTypes'
  BY <1>1, <1>2, <1>3, <1>4 DEF RateTypes
<1>8. /\ traffic' = "login" /\ Most' = LoginLimit /\ Later' = LoginLimit /\ Later = LoginLimit
  BY <1>4 DEF Most, Later
<1>9. CASE ~Over(now)
  <2>1. n = count + 1 /\ count' = count + 1 /\ start' = start
    BY <1>1, <1>6, <1>9
  <2>2. /\ Since \in Nat /\ After \in Nat /\ After <= Since
        /\ Since' = Since + d /\ After' \in {After, After + d}
        /\ Total(handled', start' - Window + 1, start' - 1) <= Later
        /\ \A t \in Times : t > now' \/ Over(t)' => handled'[t] = 0
        /\ Total(arrived, start, now) \in Nat
        /\ Total(arrived', start', now') = Total(arrived, start, now) + 1
    BY <1>4, <1>5, <1>9, <2>1, Counting
  <2>3. Since <= count /\ Since <= LoginLimit
    BY <1>4 DEF HandledInv, Most
  <2>4. Since' <= count' /\ Since' <= LoginLimit /\ After' <= LoginLimit
    BY <1>2, <1>5, <2>1, <2>2, <2>3
  <2>5. HandledInv'
    BY <1>8, <2>2, <2>4 DEF HandledInv
  <2>6. count' <= Total(arrived', start', now')
    BY <1>2, <1>4, <2>1, <2>2 DEF ArrivedInv
  <2> QED BY <1>5, <1>7, <1>8, <2>5, <2>6 DEF ArrivedInv
<1>10. CASE Over(now)
  <2>1. n = 1 /\ count' = 1 /\ start' = now
    BY <1>1, <1>6, <1>10
  <2>2. /\ Since' = d /\ After' = 0
        /\ Total(handled', start' - Window + 1, start' - 1) <= Later
        /\ \A t \in Times : t > now' \/ Over(t)' => handled'[t] = 0
    BY <1>4, <1>5, <1>10, <2>1, Beginning
  <2>3. Since' <= count' /\ Since' <= LoginLimit /\ After' <= LoginLimit
    BY <1>2, <1>5, <2>1, <2>2
  <2>4. HandledInv'
    BY <1>8, <2>2, <2>3 DEF HandledInv
  <2>5. count' <= Total(arrived', start', now')
    BY <1>4, <2>1, Arriving
  <2> QED BY <1>5, <1>7, <1>8, <2>4, <2>5 DEF ArrivedInv
<1> QED BY <1>9, <1>10

\* Login_Detect, for a connection from another IP.
LEMMA OtherStep ==
    ASSUME RateTypes, HandledInv, ArrivedInv, LoginAttemptOther
    PROVE  RateTypes' /\ HandledInv' /\ ArrivedInv'
<1>1. /\ traffic = "login" /\ Elapsed /\ count' = 0 /\ start' = now
      /\ UNCHANGED <<traffic, now, verdict, arrived, handled>>
  BY DEF LoginAttemptOther
<1>2. /\ LoginLimit \in Nat /\ now \in Nat /\ now \in Int /\ now \in Times
      /\ arrived \in [Times -> Nat] /\ handled \in [Times -> Nat]
  BY Limits DEF RateTypes
<1>3. handled' = [handled EXCEPT ![now] = @ + 0]
  BY <1>1, <1>2
<1>4. Over(now)
  BY <1>1 DEF Elapsed, Over
<1>5. /\ traffic' = "login" /\ Most' = LoginLimit /\ Later' = LoginLimit /\ Later = LoginLimit
  BY <1>1 DEF Most, Later
<1>6. /\ Since' = 0 /\ After' = 0
      /\ Total(handled', start' - Window + 1, start' - 1) <= Later
      /\ \A t \in Times : t > now' \/ Over(t)' => handled'[t] = 0
  BY <1>1, <1>3, <1>4, Beginning
<1>7. HandledInv'
  BY <1>1, <1>2, <1>5, <1>6 DEF HandledInv
<1>8. RateTypes'
  BY <1>1, <1>2 DEF RateTypes
<1>9. count' <= Total(arrived', start', now')
  <2>1. Total(arrived, now, now) \in Nat
    BY <1>2, TotalNat
  <2> QED BY <1>1, <2>1
<1> QED BY <1>5, <1>7, <1>8, <1>9 DEF ArrivedInv

\* pps24, the game packets.
LEMMA PacketStep ==
    ASSUME RateTypes, HandledInv, ArrivedInv, NEW movement \in BOOLEAN, GamePacket(movement)
    PROVE  /\ RateTypes' /\ HandledInv' /\ ArrivedInv'
           /\ \E d \in {0, 1} : handled' = [handled EXCEPT ![now] = @ + d]
<1> DEFINE n == IF start + Window < now THEN 0 ELSE count + 1
           v == IF n < PacketLimit THEN "handle"
                ELSE IF movement /\ n < MoveLimit THEN "drop" ELSE "kick"
<1>1. /\ Message("packet", v) /\ count' = n
      /\ start' = IF start + Window < now THEN now ELSE start
  BY DEF GamePacket
<1>2. /\ PacketLimit \in Nat /\ 0 < PacketLimit /\ count \in Nat
      /\ now \in Nat /\ start \in Nat /\ start <= now
  BY Limits DEF RateTypes
<1>3. n \in Nat /\ (v = "handle" <=> n < PacketLimit)
  BY <1>2
<1> HIDE DEF v
<1>4. /\ traffic = "packet" /\ UNCHANGED <<traffic, now>>
      /\ handled' \in [Times -> Nat] /\ arrived' \in [Times -> Nat]
      /\ arrived' = [arrived EXCEPT ![now] = @ + 1]
  BY <1>1, MessageIs
<1>5. PICK d \in {0, 1} : (d = 1 <=> n < PacketLimit) /\ handled' = [handled EXCEPT ![now] = @ + d]
  BY <1>1, <1>3, MessageIs
<1>6. start + Window < now <=> Over(now)
  BY <1>4 DEF Over
<1>7. RateTypes'
  BY <1>1, <1>2, <1>3, <1>4 DEF RateTypes
<1>8. /\ traffic' = "packet" /\ Most' = PacketLimit
      /\ Later' = PacketLimit - 1 /\ Later = PacketLimit - 1
  BY <1>4 DEF Most, Later
<1>9. CASE ~Over(now)
  <2>1. n = count + 1 /\ count' = count + 1 /\ start' = start
    BY <1>1, <1>6, <1>9
  <2>2. /\ Since \in Nat /\ After \in Nat /\ After <= Since
        /\ Since' = Since + d /\ After' \in {After, After + d}
        /\ Total(handled', start' - Window + 1, start' - 1) <= Later
        /\ \A t \in Times : t > now' \/ Over(t)' => handled'[t] = 0
        /\ Total(arrived, start, now) \in Nat
        /\ Total(arrived', start', now') = Total(arrived, start, now) + 1
    BY <1>4, <1>5, <1>9, <2>1, Counting
  <2>3. /\ Since <= count + 1 /\ Since <= PacketLimit
        /\ After <= count /\ After <= PacketLimit - 1
    BY <1>4 DEF HandledInv, Most, Later
  <2>4. /\ Since' <= count' + 1 /\ Since' <= PacketLimit
        /\ After' <= count' /\ After' <= PacketLimit - 1
    BY <1>2, <1>5, <2>1, <2>2, <2>3
  <2>5. HandledInv'
    BY <1>8, <2>2, <2>4 DEF HandledInv
  <2>6. count' + 1 <= Total(arrived', start', now')
    BY <1>2, <1>4, <1>9, <2>1, <2>2 DEF ArrivedInv
  <2> QED BY <1>5, <1>7, <1>8, <2>5, <2>6 DEF ArrivedInv
<1>10. CASE Over(now)
  <2>1. n = 0 /\ count' = 0 /\ start' = now
    BY <1>1, <1>6, <1>10
  <2>2. /\ Since' = d /\ After' = 0
        /\ Total(handled', start' - Window + 1, start' - 1) <= Later
        /\ \A t \in Times : t > now' \/ Over(t)' => handled'[t] = 0
    BY <1>4, <1>5, <1>10, <2>1, Beginning
  <2>3. /\ Since' <= count' + 1 /\ Since' <= PacketLimit
        /\ After' <= count' /\ After' <= PacketLimit - 1
    BY <1>2, <1>5, <2>1, <2>2
  <2>4. HandledInv'
    BY <1>8, <2>2, <2>3 DEF HandledInv
  <2>5. count' + 1 <= Total(arrived', start', now')
    BY <1>4, <2>1, Arriving
  <2> QED BY <1>5, <1>7, <1>8, <2>4, <2>5 DEF ArrivedInv
<1> QED BY <1>9, <1>10

\* Unknown packets and private messages, which share lastPacketTime.
LEMMA UnknownStep ==
    ASSUME RateTypes, HandledInv, ArrivedInv, UnknownPacket \/ Send_Message
    PROVE  /\ RateTypes' /\ HandledInv' /\ ArrivedInv'
           /\ \E d \in {0, 1} : handled' = [handled EXCEPT ![now] = @ + d]
<1>0. PICK r \in {"kick", "drop"} :
          /\ Message("unknown", IF now - start < Window THEN r ELSE "handle") /\ count' = 0
          /\ start' = IF now - start < Window THEN start ELSE now
  BY DEF UnknownPacket, Send_Message
<1> DEFINE v == IF now - start < Window THEN r ELSE "handle"
<1>1. /\ Message("unknown", v) /\ count' = 0
      /\ start' = IF now - start < Window THEN start ELSE now
  BY <1>0
<1>2. now \in Nat /\ start \in Nat /\ start <= now /\ Window \in Nat
  BY Limits DEF RateTypes
<1>3. v = "handle" <=> ~(now - start < Window)
  OBVIOUS
<1> HIDE DEF v
<1>4. /\ traffic = "unknown" /\ UNCHANGED <<traffic, now>>
      /\ handled' \in [Times -> Nat] /\ arrived' \in [Times -> Nat]
      /\ arrived' = [arrived EXCEPT ![now] = @ + 1]
  BY <1>1, MessageIs
<1>5. now - start < Window <=> ~Over(now)
  BY <1>2, <1>4 DEF Over
<1>6. RateTypes'
  BY <1>1, <1>2, <1>4 DEF RateTypes
<1>7. traffic' = "unknown" /\ Most' = 1 /\ Later' = 0 /\ Later = 0
  BY <1>4 DEF Most, Later
<1>8. CASE ~Over(now)
  <2>1. start' = start
    BY <1>1, <1>5, <1>8
  <2>2. handled' = [handled EXCEPT ![now] = @ + 0]
    BY <1>1, <1>3, <1>5, <1>8, MessageIs
  <2>3. /\ Since \in Nat /\ After \in Nat
        /\ Since' = Since + 0 /\ After' \in {After, After + 0}
        /\ Total(handled', start' - Window + 1, start' - 1) <= Later
        /\ \A t \in Times : t > now' \/ Over(t)' => handled'[t] = 0
    BY <1>4, <1>8, <2>1, <2>2, Counting
  <2>4. Since <= 1 /\ After <= 0
    BY <1>4 DEF HandledInv, Most, Later
  <2>5. Since' <= 1 /\ After' <= 0
    BY <2>3, <2>4
  <2>6. HandledInv'
    BY <1>7, <2>3, <2>5 DEF HandledInv
  <2>7. 1 <= Total(handled', start', now')
    <3>1. handled \in [Times -> Nat] /\ now \in Times
      BY Limits DEF RateTypes
    <3>2. handled' = handled
      BY <2>2, <3>1
    <3>3. 1 <= Total(handled, start, now)
      BY <1>4, <1>8 DEF ArrivedInv
    <3> QED BY <1>4, <2>1, <3>2, <3>3
  <2> QED BY <1>6, <1>7, <2>2, <2>6, <2>7 DEF ArrivedInv
<1>9. CASE Over(now)
  <2>1. start' = now
    BY <1>1, <1>5, <1>9
  <2>2. handled' = [handled EXCEPT ![now] = @ + 1]
    BY <1>1, <1>3, <1>5, <1>9, MessageIs
  <2>3. /\ Since' = 1 /\ After' = 0
        /\ Total(handled', start' - Window + 1, start' - 1) <= Later
        /\ \A t \in Times : t > now' \/ Over(t)' => handled'[t] = 0
    BY <1>4, <1>9, <2>1, <2>2, Beginning
  <2>4. HandledInv'
    BY <1>7, <2>3 DEF HandledInv
  <2>5. 1 <= Total(handled', start', now')
    BY <1>4, <2>1, <2>2, Handling
  <2> QED BY <1>6, <1>7, <2>2, <2>4, <2>5 DEF ArrivedInv
<1> QED BY <1>8, <1>9

\* No time since 1970 is left in lastActionSent: the window of the text messages
\* is over before it begins.
LEMMA TextIs ==
    ASSUME RateTypes, ArrivedInv, TextMessage
    PROVE  /\ Message("text", "handle") /\ count' = 0 /\ start' = 0
<1> DEFINE H == IntSize \div 2
           x == now + Window + H
           until == ToInt(now + Window)
<1>1. /\ IntSize \in Nat /\ 0 < IntSize /\ IntSize % 2 = 0 /\ H <= Window + 1
      /\ TextLimit \in Nat /\ 1 < TextLimit
  BY RateLimitsAssumption
<1>2. H \in Nat /\ IntSize = 2 * H
  BY <1>1
<1>3. x \in Nat /\ now \in Nat /\ Window \in Nat /\ Window + 1 <= now
  BY <1>2, Limits
<1>4. until = (x % IntSize) - H
  BY DEF ToInt
<1> HIDE DEF H, x
<1>5. x % IntSize \in Nat /\ x % IntSize < IntSize
  BY <1>1, <1>3
<1>6. ~(until >= now)
  <2> HIDE DEF until
  <2> DEFINE y == x % IntSize
  <2> HIDE DEF y
  <2>1. y \in Nat /\ y < IntSize /\ until = y - H
    BY <1>4, <1>5 DEF y
  <2> QED BY <1>1, <1>2, <1>3, <2>1
<1>7. traffic = "text" /\ start = 0
  BY DEF TextMessage, Message, ArrivedInv
<1>8. ~(0 >= TextLimit)
  BY <1>1
<1> QED BY <1>6, <1>7, <1>8 DEF TextMessage

\* Time passes: everything that was counted still came since the count began.
LEMMA TickStep ==
    ASSUME RateTypes, HandledInv, ArrivedInv, Tick
    PROVE  RateTypes' /\ HandledInv' /\ ArrivedInv'
<1>1. now < MaxTime /\ now' = now + 1 /\ UNCHANGED <<traffic, start, count, arrived, handled>>
  BY DEF Tick
<1>2. /\ now \in Nat /\ now \in Int /\ start \in Nat /\ start \in Int /\ start <= start
      /\ start <= now /\ MaxTime \in Nat /\ Window \in Nat /\ count \in Nat
      /\ arrived \in [Times -> Nat] /\ handled \in [Times -> Nat]
  BY Limits DEF RateTypes
<1>3. RateTypes'
  BY <1>1, <1>2 DEF RateTypes
<1>4. HandledInv'
  <2>1. ASSUME NEW t \in Times, t > now' \/ Over(t)' PROVE t > now \/ Over(t)
    <3>1. t \in Int
      BY DEF Times
    <3> QED BY <1>1, <1>2, <2>1, <3>1 DEF Over
  <2> QED BY <1>1, <2>1 DEF HandledInv, Since, After, Most, Later
<1>5. Over(now) => Over(now)'
  BY <1>1, <1>2 DEF Over
<1>6. ASSUME NEW k \in Nat, k <= Total(arrived, start, now)
      PROVE  k <= Total(arrived', start', now')
  <2>1. now' \in Int /\ now <= now'
    BY <1>1, <1>2
  <2>2. Total(arrived, start, now) <= Total(arrived, start, now')
    BY <1>2, <2>1, TotalGrows
  <2>3. Total(arrived, start, now) \in Nat /\ Total(arrived, start, now') \in Nat
    BY <1>2, <2>1, TotalNat
  <2> QED BY <1>1, <1>6, <2>2, <2>3
<1>7. 1 <= Total(handled, start, now) => 1 <= Total(handled', start', now')
  <2>1. now' \in Int /\ now <= now'
    BY <1>1, <1>2
  <2>2. Total(handled, start, now) <= Total(handled, start, now')
    BY <1>2, <2>1, TotalGrows
  <2>3. Total(handled, start, now) \in Nat /\ Total(handled, start, now') \in Nat
    BY <1>2, <2>1, TotalNat
  <2> QED BY <1>1, <2>2, <2>3
<1>8. ArrivedInv'
  <2>1. count \in Nat /\ count + 1 \in Nat
    BY <1>2
  <2> QED BY <1>1, <1>5, <1>6, <1>7, <2>1 DEF ArrivedInv
<1> QED BY <1>3, <1>4, <1>8

\* Every step keeps the invariant.
LEMMA RateInductive == RateInv /\ [Next]_vars => RateInv'
<1> SUFFICES ASSUME RateInv, [Next]_vars PROVE RateInv'
  OBVIOUS
<1>1. RateTypes /\ HandledInv /\ ArrivedInv /\ HandledBound
  BY DEF RateInv
<1>2. ASSUME RateTypes', HandledInv', UNCHANGED <<traffic, now>>,
             \E d \in {0, 1} : handled' = [handled EXCEPT ![now] = @ + d]
      PROVE  HandledBound'
  BY <1>1, <1>2, BoundKept
<1>3. ASSUME UNCHANGED <<traffic, handled>> PROVE HandledBound'
  BY <1>1, <1>3 DEF HandledBound
<1>4. CASE LoginAttempt
  <2>1. UNCHANGED <<traffic, now>>
    BY <1>4 DEF LoginAttempt, Message
  <2> QED BY <1>1, <1>2, <1>4, <2>1, LoginStep DEF RateInv
<1>5. CASE LoginAttemptOther
  <2>1. UNCHANGED <<traffic, handled>>
    BY <1>5 DEF LoginAttemptOther
  <2> QED BY <1>1, <1>3, <1>5, <2>1, OtherStep DEF RateInv
<1>6. CASE TextMessage
  <2>1. Message("text", "handle") /\ count' = 0 /\ start' = 0
    BY <1>1, <1>6, TextIs
  <2>2. /\ traffic = "text" /\ UNCHANGED <<traffic, now>>
        /\ handled' \in [Times -> Nat] /\ arrived' \in [Times -> Nat]
    BY <1>1, <2>1, MessageIs
  <2>3. now \in Nat
    BY <1>1, Limits
  <2>4. RateTypes'
    BY <1>1, <2>1, <2>2, <2>3 DEF RateTypes
  <2> QED BY <2>1, <2>2, <2>4 DEF RateInv, HandledInv, ArrivedInv, HandledBound
<1>7. ASSUME NEW movement \in BOOLEAN, GamePacket(movement) PROVE RateInv'
  <2>1. UNCHANGED <<traffic, now>>
    BY <1>7 DEF GamePacket, Message
  <2> QED BY <1>1, <1>2, <1>7, <2>1, PacketStep DEF RateInv
<1>8. CASE UnknownPacket \/ Send_Message
  <2>1. UNCHANGED <<traffic, now>>
    BY <1>8 DEF UnknownPacket, Send_Message, Message
  <2> QED BY <1>1, <1>2, <1>8, <2>1, UnknownStep DEF RateInv
<1>9. CASE Tick
  <2>1. UNCHANGED <<traffic, handled>>
    BY <1>9 DEF Tick
  <2> QED BY <1>1, <1>3, <1>9, <2>1, TickStep DEF RateInv
<1>10. CASE UNCHANGED vars
  BY <1>1, <1>10 DEF vars, RateInv, RateTypes, HandledInv, ArrivedInv, HandledBound,
                     Since, After, Most, Later, Over
<1> QED BY <1>4, <1>5, <1>6, <1>7, <1>8, <1>9, <1>10 DEF Next

\* Nothing has come when the server starts to count.
LEMMA RateInitial == Init => RateInv
<1> SUFFICES ASSUME Init PROVE RateInv
  OBVIOUS
<1> DEFINE zero == [t \in Times |-> 0]
<1>1. /\ Window \in Nat /\ 0 < Window /\ MaxTime \in Nat /\ Window < MaxTime
      /\ LoginLimit \in Nat /\ PacketLimit \in Nat /\ 0 < PacketLimit
  BY RateLimitsAssumption
<1>2. /\ traffic \in Kinds /\ now = Window + 1 /\ start = 0 /\ count = 0
      /\ handled = zero /\ arrived = zero
  BY DEF Init
<1>3. zero \in [Times -> Nat] /\ \A t \in Times : zero[t] = 0
  OBVIOUS
<1> HIDE DEF zero
<1>4. RateTypes
  BY <1>1, <1>2, <1>3 DEF RateTypes
<1>5. \A a, b \in Int : Total(zero, a, b) = 0
  BY <1>3, TotalNat
<1>6. HandledInv
  <2> DEFINE prev == start - Window + 1
             end == start - 1
             next == start + 1
  <2>1. start \in Int /\ MaxTime \in Int /\ prev \in Int /\ end \in Int /\ next \in Int
    BY <1>1, <1>2
  <2>2. Since = 0 /\ After = 0 /\ Total(handled, prev, end) = 0
    <3>1. After = Total(handled, next, MaxTime)
      BY DEF After
    <3> HIDE DEF prev, end, next
    <3> QED BY <1>2, <1>5, <2>1, <3>1 DEF Since
  <2>3. traffic # "text" => 0 <= Most /\ 0 <= Later
    BY <1>1, <1>2 DEF Most, Later, Kinds
  <2> QED BY <1>2, <1>3, <2>2, <2>3 DEF HandledInv
<1>7. ArrivedInv
  <2>1. Total(arrived, start, now) = 0
    BY <1>1, <1>2, <1>5
  <2>2. traffic \in {"packet", "unknown"} => Over(now)
    BY <1>1, <1>2 DEF Over
  <2> QED BY <1>2, <2>1, <2>2 DEF ArrivedInv
<1>8. HandledBound
  <2> SUFFICES ASSUME NEW t \in Times, traffic # "text"
               PROVE  Total(handled, t, t + Window - 1) <= Most + Later
    <3>1. traffic # "text" =>
             Most + Later = CASE traffic = "login" -> 2 * LoginLimit
                              [] traffic = "packet" -> 2 * PacketLimit - 1
                              [] traffic = "unknown" -> 1
      BY <1>1, <1>2 DEF Kinds, Most, Later
    <3> QED BY <3>1 DEF HandledBound
  <2> DEFINE last == t + Window - 1
  <2>1. t \in Int /\ last \in Int
    BY <1>1 DEF Times
  <2>2. 0 <= Most + Later
    BY <1>1, <1>2 DEF Most, Later, Kinds
  <2> HIDE DEF last
  <2>3. Total(handled, t, last) = 0
    BY <1>2, <1>5, <2>1
  <2> QED BY <2>2, <2>3 DEF last
<1> QED BY <1>4, <1>6, <1>7, <1>8 DEF RateInv

\* For any window and limits, however a client times its messages, at most
\* about twice the limit is handled in a time as long as the window.
THEOREM HandledBoundCorrect == Spec => []HandledBound
<1>1. RateInv => HandledBound
  BY DEF RateInv
<1> QED BY <1>1, RateInitial, RateInductive, PTL DEF Spec

\* What a refusal or the end of a session rests on.
Spammed ==
    CASE traffic = "login" -> Total(arrived', now - Window + 1, now) > LoginLimit
      [] traffic = "text" -> Total(arrived', now - Window, now) >= TextLimit
      [] traffic = "packet" -> Total(arrived', now - Window, now) > PacketLimit
      [] traffic = "unknown" -> Total(handled, now - Window + 1, now) >= 1

\* A count that reached its limit lies within the window just before.
LEMMA SpamStep ==
    ASSUME RateInv, [Next]_vars, arrived' # arrived, verdict' \in {"refuse", "kick"}
    PROVE  Spammed
<1>1. RateTypes /\ HandledInv /\ ArrivedInv
  BY DEF RateInv
<1>2. /\ Window \in Nat /\ LoginLimit \in Nat /\ PacketLimit \in Nat /\ count \in Nat
      /\ now \in Nat /\ start \in Nat /\ now \in Int /\ start \in Int /\ now <= now
      /\ arrived \in [Times -> Nat] /\ handled \in [Times -> Nat] /\ PacketLimit < MoveLimit
      /\ MoveLimit \in Nat /\ now \in Times
  BY <1>1, Limits, RateLimitsAssumption DEF RateTypes
<1>3. ASSUME NEW a \in Int, NEW s \in Int, a <= s, arrived' \in [Times -> Nat]
      PROVE  /\ Total(arrived', s, now) <= Total(arrived', a, now)
             /\ Total(arrived', s, now) \in Nat /\ Total(arrived', a, now) \in Nat
  BY <1>2, <1>3, TotalGrows, TotalNat
<1>4. ASSUME arrived' = [arrived EXCEPT ![now] = @ + 1], arrived' \in [Times -> Nat], start <= now
      PROVE  /\ Total(arrived, start, now) \in Nat
             /\ Total(arrived', start, now) = Total(arrived, start, now) + 1
  <2>1. Adds(arrived', arrived, now, 1)
    BY <1>2, <1>4 DEF Adds
  <2> QED BY <1>2, <1>4, <2>1, TotalPlus
<1>5. start <= now
  BY <1>1, Limits
<1>6. CASE LoginAttempt
  <2> DEFINE n == IF Elapsed THEN 1 ELSE count + 1
             a == now - Window + 1
  <2>1. Message("login", IF n > LoginLimit THEN "refuse" ELSE "handle")
    BY <1>6 DEF LoginAttempt
  <2>2. /\ traffic = "login" /\ arrived' = [arrived EXCEPT ![now] = @ + 1]
        /\ arrived' \in [Times -> Nat] /\ n > LoginLimit
    BY <1>1, <2>1, MessageIs
  <2>3. a \in Int /\ (~Elapsed => a <= start) /\ a <= now
    BY <1>2, RateLimitsAssumption DEF Elapsed
  <2> HIDE DEF a
  <2>4. CASE Elapsed
    <3>1. Total(arrived', now, now) <= Total(arrived', a, now) /\ Total(arrived', a, now) \in Nat
      BY <1>2, <1>3, <2>2, <2>3
    <3>2. Total(arrived', now, now) \in Nat /\ 1 <= Total(arrived', now, now)
      BY <1>1, <2>2, Arriving
    <3>3. Total(arrived', a, now) > LoginLimit
      BY <1>2, <2>2, <2>4, <3>1, <3>2
    <3> QED BY <2>2, <3>3 DEF Spammed, a
  <2>5. CASE ~Elapsed
    <3>1. /\ Total(arrived', start, now) <= Total(arrived', a, now)
          /\ Total(arrived', start, now) \in Nat /\ Total(arrived', a, now) \in Nat
      BY <1>2, <1>3, <2>2, <2>3, <2>5
    <3>2. /\ Total(arrived, start, now) \in Nat
          /\ Total(arrived', start, now) = Total(arrived, start, now) + 1
      BY <1>4, <1>5, <2>2
    <3>3. count <= Total(arrived, start, now)
      BY <1>1, <2>2 DEF ArrivedInv
    <3>4. Total(arrived', a, now) > LoginLimit
      BY <1>2, <2>2, <2>5, <3>1, <3>2, <3>3
    <3> QED BY <2>2, <3>4 DEF Spammed, a
  <2> QED BY <2>4, <2>5
<1>7. CASE TextMessage
  <2>1. Message("text", "handle")
    BY <1>1, <1>7, TextIs
  <2> QED BY <2>1 DEF Message
<1>8. ASSUME NEW movement \in BOOLEAN, GamePacket(movement) PROVE Spammed
  <2> DEFINE n == IF start + Window < now THEN 0 ELSE count + 1
             v == IF n < PacketLimit THEN "handle"
                  ELSE IF movement /\ n < MoveLimit THEN "drop" ELSE "kick"
             a == now - Window
  <2>1. Message("packet", v)
    BY <1>8 DEF GamePacket
  <2>2. /\ traffic = "packet" /\ arrived' = [arrived EXCEPT ![now] = @ + 1]
        /\ arrived' \in [Times -> Nat] /\ verdict' = v
    <3> HIDE DEF v
    <3> QED BY <1>1, <2>1, MessageIs
  <2>3. ~(start + Window < now) /\ count + 1 >= PacketLimit
    BY <1>2, <2>2, RateLimitsAssumption
  <2>4. a \in Int /\ a <= start /\ ~Over(now)
    BY <1>2, <2>2, <2>3 DEF Over
  <2> HIDE DEF a, v
  <2>5. /\ Total(arrived', start, now) <= Total(arrived', a, now)
        /\ Total(arrived', start, now) \in Nat /\ Total(arrived', a, now) \in Nat
    BY <1>2, <1>3, <2>2, <2>4
  <2>6. /\ Total(arrived, start, now) \in Nat
        /\ Total(arrived', start, now) = Total(arrived, start, now) + 1
    BY <1>4, <1>5, <2>2
  <2>7. count + 1 <= Total(arrived, start, now)
    BY <1>1, <2>2, <2>4 DEF ArrivedInv
  <2>8. Total(arrived', a, now) > PacketLimit
    BY <1>2, <2>3, <2>5, <2>6, <2>7
  <2> QED BY <2>2, <2>8 DEF Spammed, a
<1>9. CASE UnknownPacket
  <2> DEFINE a == now - Window + 1
  <2>1. Message("unknown", IF now - start < Window THEN "kick" ELSE "handle")
    BY <1>9 DEF UnknownPacket
  <2>2. /\ traffic = "unknown" /\ arrived' = [arrived EXCEPT ![now] = @ + 1]
        /\ arrived' \in [Times -> Nat] /\ now - start < Window
    BY <1>1, <2>1, MessageIs
  <2>3. a \in Int /\ a <= start /\ ~Over(now)
    BY <1>2, <2>2 DEF Over
  <2> HIDE DEF a
  <2>4. Total(handled, start, now) <= Total(handled, a, now)
    BY <1>2, <2>3, TotalGrows
  <2>5. Total(handled, start, now) \in Nat /\ Total(handled, a, now) \in Nat
    BY <1>2, <2>3, TotalNat
  <2>6. 1 <= Total(handled, start, now)
    BY <1>1, <2>2, <2>3 DEF ArrivedInv
  <2>7. Total(handled, a, now) >= 1
    BY <2>4, <2>5, <2>6
  <2> QED BY <2>2, <2>7 DEF Spammed, a
<1>s. CASE Send_Message
  <2>1. verdict' \in {"drop", "handle"}
    BY <1>s DEF Send_Message, Message
  <2> QED BY <2>1
<1>10. ~(LoginAttemptOther \/ Tick \/ UNCHANGED vars)
  BY DEF LoginAttemptOther, Tick, vars
<1> QED BY <1>6, <1>7, <1>8, <1>9, <1>s, <1>10 DEF Next

\* Whatever the window and the limits, nobody is refused or thrown out unless
\* as many messages as the limit says came within one window just before.
THEOREM KickIsSpamCorrect == Spec => KickIsSpam
<1>1. RateInv /\ [Next]_vars => [(arrived' # arrived /\ verdict' \in {"refuse", "kick"}) => Spammed]_vars
  BY SpamStep
<1> QED BY <1>1, RateInitial, RateInductive, PTL DEF Spec, KickIsSpam, Spammed
=============================================================================
