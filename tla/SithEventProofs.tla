--------------------------- MODULE SithEventProofs ---------------------------
(***************************************************************************)
(* Proofs about SithEvent, for any number of slots, names, delays, frames  *)
(* and saved events.                                                       *)
(***************************************************************************)
EXTENDS SithEvent, FiniteSetTheorems, SequenceTheorems, WellFoundedInduction, TLAPS

-----------------------------------------------------------------------------
(* Numbers and sequences.                                                  *)

\* A non-empty set of naturals has a least element, which Min chooses.
LEMMA MinExists ==
  ASSUME NEW S \in SUBSET Nat, S # {}
  PROVE  Min(S) \in S /\ \A k \in S : Min(S) <= k
<1>1. PICK k \in S : \A l \in S : ~ (<<l, k>> \in OpToRel(<, Nat))
  BY NatLessThanWellFounded, WFMin
<1>2. \A l \in S : ~ (l < k)
  BY <1>1 DEF OpToRel
<1>3. \A l \in S : k <= l
  <2>1. \A l \in S : l \in Nat /\ k \in Nat
    OBVIOUS
  <2> QED BY <1>2, <2>1
<1> QED BY <1>3 DEF Min

\* A set with 0 and, with every number below n, the next one, has all the numbers to n.
LEMMA Climb ==
  ASSUME NEW n \in Nat, NEW S, 0 \in S, \A k \in 0 .. n - 1 : k \in S => k + 1 \in S
  PROVE  0 .. n \subseteq S
<1> DEFINE M == {k \in 0 .. n : k \notin S}
<1> SUFFICES ASSUME M # {} PROVE FALSE
  OBVIOUS
<1>1. M \in SUBSET Nat
  OBVIOUS
<1>2. Min(M) \in M /\ \A k \in M : Min(M) <= k
  BY <1>1, MinExists
<1> HIDE DEF M
<1>3. PICK m \in M : \A k \in M : m <= k
  BY <1>2
<1>4. m \in 0 .. n /\ m \notin S /\ m # 0
  BY <1>3 DEF M
<1>5. m - 1 \in 0 .. n - 1 /\ m - 1 \notin M /\ (m - 1) + 1 = m
  BY <1>3, <1>4
<1>6. m - 1 \in S
  BY <1>5 DEF M
<1> QED BY <1>4, <1>5, <1>6

\* A function on the first numbers is a sequence.
LEMMA FunctionIsSeq ==
  ASSUME NEW S, NEW n \in Nat, NEW f \in [1 .. n -> S]
  PROVE  f \in Seq(S) /\ Len(f) = n /\ DOMAIN f = 1 .. n
  OBVIOUS

LEMMA SeqFacts ==
  ASSUME NEW S, NEW c \in Seq(S)
  PROVE  Len(c) \in Nat /\ DOMAIN c = 1 .. Len(c) /\ c \in [1 .. Len(c) -> S]
  OBVIOUS

\* Sequences that agree in length and elements are one.
LEMMA SameSeq ==
  ASSUME NEW S, NEW c \in Seq(S), NEW d \in Seq(S), Len(c) = Len(d),
         \A k \in 1 .. Len(c) : c[k] = d[k]
  PROVE  c = d
  OBVIOUS

\* f is the recursion on the numbers to n that starts with a and goes on with F.
Solves(f, n, a, F) == f[0] = a /\ \A k \in 1 .. n : f[k] = F[<<k, f[k - 1]>>]

\* There is one.
LEMMA Iterates ==
  ASSUME NEW n \in Nat, NEW T, NEW a \in T, NEW F \in [(1 .. n) \X T -> T]
  PROVE  \E f \in [0 .. n -> T] : Solves(f, n, a, F)
<1> DEFINE Is(m, f) == Solves(f, m, a, F)
           S == {m \in 0 .. n : \E f \in [0 .. m -> T] : Is(m, f)}
<1>1. 0 \in S
  <2> DEFINE g == [k \in 0 .. 0 |-> a]
  <2>1. g \in [0 .. 0 -> T] /\ g[0] = a
    OBVIOUS
  <2> HIDE DEF g
  <2>2. Is(0, g)
    BY <2>1 DEF Solves
  <2>3. \E f \in [0 .. 0 -> T] : Is(0, f)
    BY <2>1, <2>2
  <2> QED BY <2>3
<1>2. ASSUME NEW m \in 0 .. n - 1, m \in S PROVE m + 1 \in S
  <2>1. PICK f \in [0 .. m -> T] : Is(m, f)
    BY <1>2
  <2> DEFINE g == [k \in 0 .. m + 1 |-> IF k = m + 1 THEN F[<<m + 1, f[m]>>] ELSE f[k]]
  <2>2. F[<<m + 1, f[m]>>] \in T
    <3>1. f[m] \in T /\ m + 1 \in 1 .. n
      OBVIOUS
    <3> QED BY <3>1
  <2>3. g \in [0 .. m + 1 -> T]
    BY <2>2
  <2>4. \A k \in 0 .. m : g[k] = f[k]
    OBVIOUS
  <2>5. g[m + 1] = F[<<m + 1, g[m]>>]
    <3>1. g[m + 1] = F[<<m + 1, f[m]>>] /\ g[m] = f[m]
      OBVIOUS
    <3> HIDE DEF g
    <3> QED BY <3>1
  <2> HIDE DEF g
  <2>6. g[0] = a
    BY <2>1, <2>4 DEF Solves
  <2>7. ASSUME NEW k \in 1 .. m + 1 PROVE g[k] = F[<<k, g[k - 1]>>]
    <3>1. CASE k = m + 1
      <4>1. k - 1 = m
        BY <3>1
      <4> QED BY <2>5, <3>1, <4>1
    <3>2. CASE k # m + 1
      <4>1. k \in 1 .. m /\ k \in 0 .. m /\ k - 1 \in 0 .. m
        BY <3>2
      <4>2. f[k] = F[<<k, f[k - 1]>>]
        BY <2>1, <4>1 DEF Solves
      <4> QED BY <2>4, <4>1, <4>2
    <3> QED BY <3>1, <3>2
  <2>8. Is(m + 1, g)
    BY <2>6, <2>7 DEF Solves
  <2> HIDE DEF Is
  <2> QED BY <2>3, <2>8
<1> HIDE DEF S
<1>3. 0 .. n \subseteq S
  BY <1>1, <1>2, Climb
<1>4. n \in S
  BY <1>3
<1> QED BY <1>4 DEF S

-----------------------------------------------------------------------------
(* The pool, and the list as a sequence of slots.                          *)

LEMMA EventsFacts == NumEvents \in Nat /\ NumEvents > 0 /\ Nil \notin Slots /\ NoName \notin Names
  BY EventsAssumption DEF Slots, Nil

Ends == Slots \cup {Nil}

Event == [due : Int, name : Names \cup {NoName}, next : Ends]

PoolType == [events : [Slots -> Event], list : Ends, lut : [Slots -> Slots],
             numFree : 0 .. NumEvents]

\* The slot at a place of the list, and Nil ahead of it and behind it.
At(c, k) == IF k \in 1 .. Len(c) THEN c[k] ELSE Nil

\* c is the list of the pool.
IsChain(p, c) ==
  /\ c \in Seq(Slots) /\ p.list = At(c, 1)
  /\ \A k \in 1 .. Len(c) : p.events[c[k]].next = At(c, k + 1)
  /\ \A j, k \in 1 .. Len(c) : c[j] = c[k] => j = k

\* One element, then a sequence.
LEMMA Led ==
  ASSUME NEW S, NEW a \in S, NEW q \in Seq(S)
  PROVE  /\ <<a>> \o q \in Seq(S) /\ Len(<<a>> \o q) = Len(q) + 1
         /\ \A k \in 1 .. Len(q) + 1 : (<<a>> \o q)[k] = IF k = 1 THEN a ELSE q[k - 1]
<1>1. <<a>> \in Seq(S) /\ Len(<<a>>) = 1 /\ <<a>>[1] = a
  OBVIOUS
<1>2. /\ <<a>> \o q \in Seq(S) /\ Len(<<a>> \o q) = Len(<<a>>) + Len(q)
      /\ \A k \in 1 .. Len(<<a>>) + Len(q) :
           (<<a>> \o q)[k] = IF k <= Len(<<a>>) THEN <<a>>[k] ELSE q[k - Len(<<a>>)]
  BY <1>1, ConcatProperties
<1>3. Len(q) \in Nat
  OBVIOUS
<1> QED BY <1>1, <1>2, <1>3

\* The recursion behind From has a solution, so From is one.
LEMMA FromIs ==
  ASSUME NEW p \in PoolType
  PROVE  From(p) = [w \in Ends \X (0 .. NumEvents) |->
                      IF w[1] = Nil \/ w[2] = 0 THEN <<>>
                      ELSE <<w[1]>> \o From(p)[<<p.events[w[1]].next, w[2] - 1>>]]
<1> DEFINE T == [Ends -> Seq(Slots)]
           a == [s \in Ends |-> <<>>]
           F == [z \in (1 .. NumEvents) \X T |->
                   [s \in Ends |-> IF s = Nil THEN <<>> ELSE <<s>> \o z[2][p.events[s].next]]]
           W == Ends \X (0 .. NumEvents)
<1>1. NumEvents \in Nat
  BY EventsFacts
<1>2. a \in T
  OBVIOUS
<1>3. \A s \in Slots : p.events[s].next \in Ends
  BY DEF PoolType, Event
<1>4. ASSUME NEW k \in 1 .. NumEvents, NEW h \in T
      PROVE  /\ F[<<k, h>>] \in T
             /\ \A s \in Ends : F[<<k, h>>][s] =
                  IF s = Nil THEN <<>> ELSE <<s>> \o h[p.events[s].next]
  <2>1. <<k, h>> \in (1 .. NumEvents) \X T /\ <<k, h>>[2] = h
    OBVIOUS
  <2> HIDE DEF T
  <2>2. F[<<k, h>>] = [s \in Ends |-> IF s = Nil THEN <<>> ELSE <<s>> \o h[p.events[s].next]]
    BY <2>1
  <2> HIDE DEF F
  <2>3. ASSUME NEW s \in Ends
        PROVE  (IF s = Nil THEN <<>> ELSE <<s>> \o h[p.events[s].next]) \in Seq(Slots)
    <3>1. CASE s = Nil
      BY <3>1
    <3>2. CASE s # Nil
      <4>1. s \in Slots /\ h[p.events[s].next] \in Seq(Slots)
        BY <3>2, <1>3 DEF Ends, T
      <4>2. <<s>> \o h[p.events[s].next] \in Seq(Slots)
        BY <4>1, Led
      <4> QED BY <3>2, <4>2
    <3> QED BY <3>1, <3>2
  <2> QED BY <2>2, <2>3 DEF T
<1>5. F \in [(1 .. NumEvents) \X T -> T]
  <2>1. \A z \in (1 .. NumEvents) \X T : z[1] \in 1 .. NumEvents /\ z[2] \in T /\ z = <<z[1], z[2]>>
    OBVIOUS
  <2>2. \A z \in (1 .. NumEvents) \X T : F[z] \in T
    <3> HIDE DEF F, T
    <3> QED BY <2>1, <1>4
  <2>3. F = [z \in (1 .. NumEvents) \X T |-> F[z]]
    OBVIOUS
  <2> HIDE DEF F, T
  <2> QED BY <2>2, <2>3
<1> HIDE DEF F, T, a
<1>6. PICK f \in [0 .. NumEvents -> T] :
        f[0] = a /\ \A k \in 1 .. NumEvents : f[k] = F[<<k, f[k - 1]>>]
  <2>1. \E f \in [0 .. NumEvents -> T] : Solves(f, NumEvents, a, F)
    BY <1>1, <1>2, <1>5, Iterates
  <2> QED BY <2>1 DEF Solves
<1> DEFINE g == [w \in W |-> f[w[2]][w[1]]]
<1>7. ASSUME NEW s \in Ends, NEW k \in 0 .. NumEvents
      PROVE  g[<<s, k>>] = f[k][s]
  <2>1. <<s, k>> \in W /\ <<s, k>>[1] = s /\ <<s, k>>[2] = k
    OBVIOUS
  <2> HIDE DEF W
  <2> QED BY <2>1
<1> DEFINE b(w) == IF w[1] = Nil \/ w[2] = 0 THEN <<>>
                   ELSE <<w[1]>> \o g[<<p.events[w[1]].next, w[2] - 1>>]
<1>8. ASSUME NEW w \in W PROVE f[w[2]][w[1]] = b(w)
  <2>1. w[1] \in Ends /\ w[2] \in 0 .. NumEvents
    OBVIOUS
  <2> DEFINE s == w[1]
             k == w[2]
  <2> HIDE DEF g
  <2>2. CASE k = 0
    <3>1. f[k][s] = <<>>
      BY <1>6, <2>1, <2>2 DEF a
    <3> QED BY <2>2, <3>1
  <2>3. CASE k # 0
    <3>1. k \in 1 .. NumEvents /\ k - 1 \in 0 .. NumEvents
      BY <2>1, <2>3, <1>1
    <3>2. f[k - 1] \in T /\ f[k] = F[<<k, f[k - 1]>>]
      BY <3>1, <1>6
    <3>3. f[k][s] = IF s = Nil THEN <<>> ELSE <<s>> \o f[k - 1][p.events[s].next]
      BY <2>1, <3>1, <3>2, <1>4
    <3>4. CASE s = Nil
      BY <3>3, <3>4
    <3>5. CASE s # Nil
      <4>1. p.events[s].next \in Ends
        BY <2>1, <3>5, <1>3 DEF Ends
      <4>2. g[<<p.events[s].next, k - 1>>] = f[k - 1][p.events[s].next]
        BY <4>1, <3>1, <1>7
      <4> QED BY <3>3, <3>5, <4>2, <2>3
    <3> QED BY <3>4, <3>5
  <2> QED BY <2>2, <2>3
<1>9. g = [w \in W |-> b(w)]
  <2>1. [w \in W |-> f[w[2]][w[1]]] = [w \in W |-> b(w)]
    <3> HIDE DEF b, W
    <3> QED BY <1>8
  <2> QED BY <2>1
<1> HIDE DEF g
<1>10. g = [w \in W |-> IF w[1] = Nil \/ w[2] = 0 THEN <<>>
                        ELSE <<w[1]>> \o g[<<p.events[w[1]].next, w[2] - 1>>]]
  BY <1>9
<1>11. \E h : h = [w \in W |-> IF w[1] = Nil \/ w[2] = 0 THEN <<>>
                              ELSE <<w[1]>> \o h[<<p.events[w[1]].next, w[2] - 1>>]]
  BY <1>10
<1> QED BY <1>11 DEF From, Ends

\* One step of From.
LEMMA FromStep ==
  ASSUME NEW p \in PoolType, NEW s \in Ends, NEW k \in 0 .. NumEvents
  PROVE  From(p)[<<s, k>>] = IF s = Nil \/ k = 0 THEN <<>>
                             ELSE <<s>> \o From(p)[<<p.events[s].next, k - 1>>]
<1> DEFINE G == From(p)
<1>1. G = [w \in Ends \X (0 .. NumEvents) |->
             IF w[1] = Nil \/ w[2] = 0 THEN <<>>
             ELSE <<w[1]>> \o G[<<p.events[w[1]].next, w[2] - 1>>]]
  BY FromIs
<1>2. <<s, k>> \in Ends \X (0 .. NumEvents) /\ <<s, k>>[1] = s /\ <<s, k>>[2] = k
  OBVIOUS
<1> HIDE DEF G
<1> DEFINE w == <<s, k>>
<1>3. G[w] = IF w[1] = Nil \/ w[2] = 0 THEN <<>>
             ELSE <<w[1]>> \o G[<<p.events[w[1]].next, w[2] - 1>>]
  <2> HIDE DEF w
  <2>1. w \in Ends \X (0 .. NumEvents)
    BY <1>2 DEF w
  <2> QED BY <1>1, <2>1
<1>4. G[w] = IF s = Nil \/ k = 0 THEN <<>> ELSE <<s>> \o G[<<p.events[s].next, k - 1>>]
  <2> HIDE DEF w
  <2>1. w[1] = s /\ w[2] = k
    BY <1>2 DEF w
  <2> QED BY <1>3, <2>1
<1> QED BY <1>4 DEF G

\* Chain finds the list there is.
LEMMA ChainIs ==
  ASSUME NEW p \in PoolType, NEW c, IsChain(p, c), Len(c) <= NumEvents
  PROVE  Chain(p) = c
<1> DEFINE n == Len(c)
           Rest(j) == [k \in 1 .. n - j |-> c[j + k]]
           G == From(p)
           S == {m \in 0 .. n : G[<<At(c, n - m + 1), NumEvents - (n - m)>>] = Rest(n - m)}
<1>1. /\ NumEvents \in Nat /\ Nil \notin Slots /\ n \in Nat /\ n <= NumEvents
      /\ \A k \in 1 .. n : c[k] \in Slots
  BY EventsFacts, SeqFacts DEF IsChain
<1>2. \A k \in Int : At(c, k) \in Ends
  BY <1>1 DEF At, Ends
<1>3. ASSUME NEW j \in 0 .. n
      PROVE  Rest(j) \in Seq(Slots) /\ Len(Rest(j)) = n - j /\ \A k \in 1 .. n - j : Rest(j)[k] = c[j + k]
  <2>1. n - j \in Nat /\ \A k \in 1 .. n - j : j + k \in 1 .. n
    BY <1>1
  <2>2. Rest(j) \in [1 .. n - j -> Slots]
    BY <2>1, <1>1
  <2>3. \A k \in 1 .. n - j : Rest(j)[k] = c[j + k]
    OBVIOUS
  <2> DEFINE r == Rest(j)
             l == n - j
  <2>4. r \in [1 .. l -> Slots] /\ l \in Nat
    BY <2>1, <2>2
  <2> HIDE DEF r, l
  <2>5. r \in Seq(Slots) /\ Len(r) = l
    BY <2>4
  <2> HIDE DEF Rest
  <2> QED BY <2>3, <2>5 DEF r, l
<1>4. 0 \in S
  <2>1. At(c, n + 1) = Nil /\ n - 0 + 1 = n + 1 /\ NumEvents - (n - 0) \in 0 .. NumEvents /\ n - 0 = n
    BY <1>1 DEF At
  <2>2. G[<<Nil, NumEvents - (n - 0)>>] = <<>>
    BY <2>1, <1>2, FromStep DEF Ends
  <2>3. Rest(n) = <<>>
    BY <1>1
  <2> HIDE DEF Rest, G
  <2> QED BY <2>1, <2>2, <2>3, <1>1
<1>5. ASSUME NEW m \in 0 .. n - 1, m \in S PROVE m + 1 \in S
  <2> DEFINE j == n - (m + 1)
             s == c[j + 1]
  <2>1. /\ j \in 0 .. n - 1 /\ j + 1 \in 1 .. n /\ n - m = j + 1 /\ n - m + 1 = j + 2
        /\ NumEvents - j \in 1 .. NumEvents /\ NumEvents - j \in 0 .. NumEvents
        /\ (NumEvents - j) - 1 = NumEvents - (n - m)
    BY <1>1
  <2>2. G[<<At(c, j + 2), (NumEvents - j) - 1>>] = Rest(j + 1)
    <3> HIDE DEF G, Rest, j
    <3> QED BY <1>5, <2>1
  <2>3. s \in Slots /\ s # Nil /\ At(c, j + 1) = s /\ p.events[s].next = At(c, j + 2) /\ s \in Ends
    <3>1. p.events[c[j + 1]].next = At(c, (j + 1) + 1)
      <4> HIDE DEF j
      <4> QED BY <2>1 DEF IsChain
    <3>2. (j + 1) + 1 = j + 2
      BY <2>1
    <3> QED BY <3>1, <3>2, <1>1, <2>1 DEF At, Ends
  <2> HIDE DEF j, s
  <2>4. G[<<s, NumEvents - j>>] = <<s>> \o G[<<p.events[s].next, (NumEvents - j) - 1>>]
    <3>1. NumEvents - j # 0
      BY <2>1, <1>1
    <3> QED BY <3>1, <2>1, <2>3, FromStep
  <2>5. G[<<s, NumEvents - j>>] = <<s>> \o Rest(j + 1)
    <3> HIDE DEF G, Rest
    <3> QED BY <2>2, <2>3, <2>4
  <2>6. <<s>> \o Rest(j + 1) = Rest(j)
    <3>1. j \in 0 .. n /\ j + 1 \in 0 .. n /\ n \in Nat
      BY <2>1, <1>1
    <3>2. /\ Rest(j + 1) \in Seq(Slots) /\ Len(Rest(j + 1)) = n - (j + 1)
          /\ \A k \in 1 .. n - (j + 1) : Rest(j + 1)[k] = c[(j + 1) + k]
      BY <3>1, <1>3
    <3>3. /\ Rest(j) \in Seq(Slots) /\ Len(Rest(j)) = n - j
          /\ \A k \in 1 .. n - j : Rest(j)[k] = c[j + k]
      BY <3>1, <1>3
    <3> HIDE DEF Rest
    <3> DEFINE q == Rest(j + 1)
    <3>4. /\ <<s>> \o q \in Seq(Slots) /\ Len(<<s>> \o q) = Len(q) + 1
          /\ \A k \in 1 .. Len(q) + 1 : (<<s>> \o q)[k] = IF k = 1 THEN s ELSE q[k - 1]
      BY <2>3, <3>2, Led
    <3>5. Len(q) = n - (j + 1) /\ Len(q) + 1 = n - j
      BY <3>1, <3>2
    <3> HIDE DEF q
    <3>6. ASSUME NEW k \in 1 .. n - j PROVE (<<s>> \o q)[k] = Rest(j)[k]
      <4>1. (<<s>> \o q)[k] = IF k = 1 THEN s ELSE q[k - 1]
        BY <3>4, <3>5
      <4>2. CASE k = 1
        BY <4>1, <4>2, <3>3 DEF s
      <4>3. CASE k # 1
        <5>1. k - 1 \in 1 .. n - (j + 1) /\ (j + 1) + (k - 1) = j + k
          BY <4>3, <3>1
        <5>2. q[k - 1] = c[(j + 1) + (k - 1)]
          BY <5>1, <3>2 DEF q
        <5> QED BY <4>1, <4>3, <5>1, <5>2, <3>3
      <4> QED BY <4>2, <4>3
    <3>7. <<s>> \o q = Rest(j)
      <4> DEFINE a == <<s>> \o q
                 b == Rest(j)
      <4>1. a \in Seq(Slots) /\ b \in Seq(Slots) /\ Len(a) = Len(b) /\ Len(a) = n - j
        BY <3>3, <3>4, <3>5
      <4>2. \A k \in 1 .. n - j : a[k] = b[k]
        BY <3>6
      <4> HIDE DEF a, b
      <4>3. \A k \in 1 .. Len(a) : a[k] = b[k]
        BY <4>1, <4>2
      <4>4. a = b
        BY <4>1, <4>3, SameSeq
      <4> QED BY <4>4 DEF a, b
    <3> QED BY <3>7 DEF q
  <2>7. G[<<At(c, j + 1), NumEvents - j>>] = Rest(j)
    BY <2>3, <2>5, <2>6
  <2>8. m + 1 \in 0 .. n /\ n - (m + 1) = j
    BY <1>1, <2>1 DEF j
  <2> HIDE DEF G, Rest
  <2> QED BY <2>7, <2>8
<1> HIDE DEF S
<1>6. 0 .. n \subseteq S
  BY <1>1, <1>4, <1>5, Climb
<1>7. n \in S
  BY <1>1, <1>6
<1>8. G[<<At(c, 1), NumEvents>>] = Rest(0)
  <2>1. n - n + 1 = 1 /\ NumEvents - (n - n) = NumEvents /\ n - n = 0
    BY <1>1
  <2> HIDE DEF G, Rest, n
  <2> QED BY <1>7, <2>1 DEF S
<1>9. Rest(0) = c
  <2>1. c \in Seq(Slots) /\ 0 \in 0 .. n /\ n - 0 = n /\ \A k \in 1 .. n : 0 + k = k
    BY <1>1 DEF IsChain
  <2>2. /\ Rest(0) \in Seq(Slots) /\ Len(Rest(0)) = n - 0
        /\ \A k \in 1 .. n - 0 : Rest(0)[k] = c[0 + k]
    BY <2>1, <1>3
  <2> HIDE DEF Rest
  <2> QED BY <2>1, <2>2, SameSeq
<1>10. p.list = At(c, 1)
  BY DEF IsChain
<1> QED BY <1>8, <1>9, <1>10 DEF Chain

-----------------------------------------------------------------------------
(* A sound pool: every slot is free, in the list c or in X.                *)

InFree(p, s) == \E k \in 0 .. p.numFree - 1 : p.lut[k] = s

InList(c, s) == \E k \in 1 .. Len(c) : c[k] = s

\* Every slot is in one of the three places.
Placed(p, c, X) ==
  \A s \in Slots : /\ InFree(p, s) \/ InList(c, s) \/ s \in X
                   /\ ~(InFree(p, s) /\ InList(c, s))
                   /\ s \in X => ~InFree(p, s) /\ ~InList(c, s)

StackOnce(p) == \A j, k \in 0 .. p.numFree - 1 : p.lut[j] = p.lut[k] => j = k

Counted(p, c, X) == p.numFree + Len(c) + Cardinality(X) = NumEvents

Sound(p, c, X) ==
  /\ p \in PoolType /\ IsChain(p, c) /\ X \in SUBSET Slots
  /\ Placed(p, c, X) /\ StackOnce(p) /\ Counted(p, c, X)

\* What does not change when slots change places.
SameShown(p, q) == \A s \in Slots : Shown(q.events[s]) = Shown(p.events[s])

LEMMA SlotsFinite == \A X \in SUBSET Slots : IsFiniteSet(X) /\ Cardinality(X) \in Nat
<1>1. 0 \in Int /\ NumEvents - 1 \in Int
  BY EventsFacts
<1>2. IsFiniteSet(Slots)
  BY <1>1, FS_Interval DEF Slots
<1> QED BY <1>2, FS_Subset, FS_CardinalityType

\* The parts of a pool.
LEMMA PoolFacts ==
  ASSUME NEW p \in PoolType
  PROVE  /\ p.events \in [Slots -> Event] /\ p.list \in Ends /\ p.lut \in [Slots -> Slots]
         /\ p.numFree \in 0 .. NumEvents /\ p.numFree \in Nat
         /\ \A s \in Slots : /\ p.events[s].due \in Int /\ p.events[s].next \in Ends
                             /\ p.events[s].name \in Names \cup {NoName}
         /\ \A k \in 0 .. p.numFree - 1 : k \in Slots /\ p.lut[k] \in Slots
<1>1. /\ p.events \in [Slots -> Event] /\ p.list \in Ends /\ p.lut \in [Slots -> Slots]
      /\ p.numFree \in 0 .. NumEvents
  BY DEF PoolType
<1>2. p.numFree \in Nat /\ \A k \in 0 .. p.numFree - 1 : k \in Slots
  BY <1>1, EventsFacts DEF Slots
<1> QED BY <1>1, <1>2 DEF Event

LEMMA ChainFacts ==
  ASSUME NEW p, NEW c, IsChain(p, c)
  PROVE  /\ Len(c) \in Nat /\ c \in Seq(Slots) /\ DOMAIN c = 1 .. Len(c)
         /\ \A k \in 1 .. Len(c) : c[k] \in Slots /\ c[k] # Nil
         /\ \A k \in Int : At(c, k) \in Ends
<1>1. /\ Len(c) \in Nat /\ c \in Seq(Slots) /\ DOMAIN c = 1 .. Len(c)
      /\ \A k \in 1 .. Len(c) : c[k] \in Slots
  BY DEF IsChain
<1> QED BY <1>1, EventsFacts DEF At, Ends

\* sithEvent_Kill: a slot that is in none of the two goes back on the stack.
LEMMA KilledSound ==
  ASSUME NEW p, NEW c, NEW X, Sound(p, c, X), NEW s \in X
  PROVE  /\ Sound(Killed(p, s), c, X \ {s})
         /\ \A t \in Slots : t # s => Killed(p, s).events[t] = p.events[t]
<1> DEFINE q == Killed(p, s)
<1>1. /\ p \in PoolType /\ IsChain(p, c) /\ X \in SUBSET Slots /\ s \in Slots
      /\ Placed(p, c, X) /\ StackOnce(p) /\ Counted(p, c, X)
  BY DEF Sound
<1>2. /\ Cardinality(X) \in Nat /\ Cardinality(X \ {s}) \in Nat
      /\ Cardinality(X \ {s}) = Cardinality(X) - 1
  BY <1>1, SlotsFinite, FS_RemoveElement
<1>3. /\ p.events \in [Slots -> Event] /\ p.list \in Ends /\ p.lut \in [Slots -> Slots]
      /\ p.numFree \in Nat /\ Len(c) \in Nat /\ NumEvents \in Nat
  BY <1>1, PoolFacts, ChainFacts, EventsFacts
<1>4. p.numFree \in 0 .. NumEvents - 1 /\ p.numFree \in Slots /\ p.numFree + 1 \in 0 .. NumEvents
  <2> DEFINE x == Cardinality(X)
             f == p.numFree
             l == Len(c)
  <2>1. f + l + x = NumEvents /\ x \in Nat /\ x - 1 \in Nat
    BY <1>1, <1>2 DEF Counted
  <2>2. f \in Nat /\ l \in Nat /\ NumEvents \in Nat
    BY <1>3
  <2> HIDE DEF x, f, l
  <2>3. f \in 0 .. NumEvents - 1 /\ f + 1 \in 0 .. NumEvents
    BY <2>1, <2>2
  <2> QED BY <2>3 DEF f, Slots
<1>5. Wiped \in Event
  BY DEF Wiped, Event, Ends
<1>6. q = [events |-> [p.events EXCEPT ![s] = Wiped], list |-> p.list,
           lut |-> [p.lut EXCEPT ![p.numFree] = s], numFree |-> p.numFree + 1]
  <2>1. p = [events |-> p.events, list |-> p.list, lut |-> p.lut, numFree |-> p.numFree]
    BY <1>1 DEF PoolType
  <2>2. q = [p EXCEPT !.events = [p.events EXCEPT ![s] = Wiped],
                      !.lut = [p.lut EXCEPT ![p.numFree] = s], !.numFree = p.numFree + 1]
    BY DEF Killed
  <2> HIDE DEF q
  <2> QED BY <2>1, <2>2
<1> HIDE DEF q
<1>7. /\ q.events = [p.events EXCEPT ![s] = Wiped] /\ q.list = p.list
      /\ q.lut = [p.lut EXCEPT ![p.numFree] = s] /\ q.numFree = p.numFree + 1
  BY <1>6
<1>8. q \in PoolType
  <2>1. [p.events EXCEPT ![s] = Wiped] \in [Slots -> Event]
    BY <1>3, <1>5
  <2>2. [p.lut EXCEPT ![p.numFree] = s] \in [Slots -> Slots]
    BY <1>1, <1>3
  <2> QED BY <1>3, <1>4, <1>6, <2>1, <2>2 DEF PoolType
<1>9. ~InList(c, s) /\ ~InFree(p, s)
  BY <1>1 DEF Placed
<1>10. \A t \in Slots : t # s => q.events[t] = p.events[t]
  BY <1>3, <1>7
<1>11. IsChain(q, c)
  <2>1. \A k \in 1 .. Len(c) : c[k] \in Slots /\ c[k] # s
    BY <1>1, <1>9, ChainFacts DEF InList
  <2> QED BY <1>1, <1>7, <1>10, <2>1 DEF IsChain
<1>12. /\ q.lut[p.numFree] = s
       /\ \A k \in 0 .. p.numFree - 1 : k \in Slots /\ q.lut[k] = p.lut[k]
  <2>1. \A k \in 0 .. p.numFree - 1 : k \in Slots /\ k # p.numFree
    BY <1>3, <1>4 DEF Slots
  <2> QED BY <1>3, <1>4, <1>7, <2>1
<1>13. \A k \in 0 .. q.numFree - 1 : k \in 0 .. p.numFree - 1 \/ k = p.numFree
  BY <1>3, <1>7
<1>14. \A k \in 0 .. p.numFree - 1 : k \in 0 .. q.numFree - 1 /\ p.numFree \in 0 .. q.numFree - 1
  BY <1>3, <1>7
<1>15. p.numFree \in 0 .. q.numFree - 1
  BY <1>3, <1>7
<1>16. \A t \in Slots : InFree(q, t) <=> InFree(p, t) \/ t = s
  BY <1>12, <1>13, <1>14, <1>15 DEF InFree
<1>17. StackOnce(q)
  BY <1>1, <1>9, <1>12, <1>13 DEF StackOnce, InFree
<1>18. Placed(q, c, X \ {s})
  BY <1>1, <1>9, <1>16 DEF Placed
<1>19. Counted(q, c, X \ {s})
  BY <1>1, <1>2, <1>3, <1>7 DEF Counted
<1>20. X \ {s} \in SUBSET Slots
  BY <1>1
<1>21. Sound(q, c, X \ {s})
  BY <1>8, <1>11, <1>17, <1>18, <1>19, <1>20 DEF Sound
<1> QED BY <1>10, <1>21 DEF q

\* A list without its m-th slot.
Without(c, m) == [k \in 1 .. Len(c) - 1 |-> IF k < m THEN c[k] ELSE c[k + 1]]

LEMMA WithoutFacts ==
  ASSUME NEW S, NEW c \in Seq(S), NEW m \in 1 .. Len(c)
  PROVE  /\ Without(c, m) \in Seq(S) /\ Len(Without(c, m)) = Len(c) - 1
         /\ \A k \in 1 .. Len(c) - 1 :
              Without(c, m)[k] = IF k < m THEN c[k] ELSE c[k + 1]
<1>1. Len(c) \in Nat /\ Len(c) - 1 \in Nat /\ \A k \in 1 .. Len(c) : c[k] \in S
  BY SeqFacts
<1>2. \A k \in 1 .. Len(c) - 1 : k \in 1 .. Len(c) /\ k + 1 \in 1 .. Len(c)
  BY <1>1
<1>3. Without(c, m) \in [1 .. Len(c) - 1 -> S]
  BY <1>1, <1>2 DEF Without
<1>4. \A k \in 1 .. Len(c) - 1 : Without(c, m)[k] = IF k < m THEN c[k] ELSE c[k + 1]
  BY DEF Without
<1> DEFINE d == Without(c, m)
           l == Len(c) - 1
<1>5. d \in [1 .. l -> S] /\ l \in Nat
  BY <1>1, <1>3
<1> HIDE DEF d, l
<1>6. d \in Seq(S) /\ Len(d) = l
  BY <1>5
<1> QED BY <1>4, <1>6 DEF d, l

\* The m-th slot of the list is taken out of it, as sithCogFunction_KillTimerEx does.
LEMMA UnlinkedSound ==
  ASSUME NEW p, NEW c, NEW X, Sound(p, c, X), NEW m \in 1 .. Len(c)
  PROVE  LET q == Unlinked(p, At(c, m - 1), At(c, m + 1))
         IN  Sound(q, Without(c, m), X \cup {c[m]}) /\ SameShown(p, q)
<1> DEFINE b == At(c, m - 1)
           v == At(c, m + 1)
           q == Unlinked(p, b, v)
           d == Without(c, m)
           n == Len(c)
<1>1. /\ p \in PoolType /\ IsChain(p, c) /\ X \in SUBSET Slots
      /\ Placed(p, c, X) /\ StackOnce(p) /\ Counted(p, c, X)
  BY DEF Sound
<1>2. /\ p.events \in [Slots -> Event] /\ p.list \in Ends /\ p.lut \in [Slots -> Slots]
      /\ p.numFree \in 0 .. NumEvents /\ p.numFree \in Nat
      /\ p = [events |-> p.events, list |-> p.list, lut |-> p.lut, numFree |-> p.numFree]
  BY <1>1, PoolFacts DEF PoolType
<1>3. /\ n \in Nat /\ c \in Seq(Slots) /\ m \in Nat /\ m >= 1 /\ m <= n
      /\ \A k \in 1 .. n : c[k] \in Slots /\ c[k] # Nil
      /\ b \in Ends /\ v \in Ends
  BY <1>1, ChainFacts
<1>4. /\ d \in Seq(Slots) /\ Len(d) = n - 1 /\ n - 1 \in Nat
      /\ \A k \in 1 .. n - 1 : d[k] = IF k < m THEN c[k] ELSE c[k + 1]
  <2>1. c \in Seq(Slots)
    BY <1>3
  <2>2. /\ d \in Seq(Slots) /\ Len(d) = n - 1
        /\ \A k \in 1 .. n - 1 : d[k] = IF k < m THEN c[k] ELSE c[k + 1]
    BY <2>1, WithoutFacts
  <2>3. n - 1 \in Nat
    BY <1>3
  <2> QED BY <2>2, <2>3
<1>5. /\ b = Nil <=> m = 1
      /\ m # 1 => b = c[m - 1] /\ m - 1 \in 1 .. n /\ b \in Slots
  BY <1>3 DEF At
<1>6. /\ q.lut = p.lut /\ q.numFree = p.numFree
      /\ m = 1 => q.list = v /\ q.events = p.events
      /\ m # 1 => q.list = p.list /\ q.events = [p.events EXCEPT ![b] = [p.events[b] EXCEPT !.next = v]]
      /\ q = [events |-> q.events, list |-> q.list, lut |-> q.lut, numFree |-> q.numFree]
  <2>1. CASE m = 1
    <3>1. q = [p EXCEPT !.list = v]
      BY <1>5, <2>1 DEF Unlinked
    <3> HIDE DEF q
    <3> QED BY <1>2, <2>1, <3>1
  <2>2. CASE m # 1
    <3>1. q = [p EXCEPT !.events = [p.events EXCEPT ![b] = [p.events[b] EXCEPT !.next = v]]]
      BY <1>5, <2>2 DEF Unlinked
    <3> HIDE DEF q
    <3> QED BY <1>2, <2>2, <3>1
  <2> QED BY <2>1, <2>2
<1> HIDE DEF q, d, b, v
<1>7. \A s \in Slots : /\ q.events[s].due = p.events[s].due /\ q.events[s].name = p.events[s].name
                       /\ q.events[s].next = IF m # 1 /\ s = b THEN v ELSE p.events[s].next
                       /\ q.events[s] \in Event
  <2>1. \A s \in Slots : p.events[s] \in Event
    BY <1>2
  <2>2. CASE m = 1
    BY <1>6, <2>1, <2>2
  <2>3. CASE m # 1
    <3> TAKE s \in Slots
    <3>1. q.events[s] = IF s = b THEN [p.events[b] EXCEPT !.next = v] ELSE p.events[s]
      BY <1>2, <1>5, <1>6, <2>3
    <3>2. [p.events[b] EXCEPT !.next = v] =
            [due |-> p.events[b].due, name |-> p.events[b].name, next |-> v]
      BY <1>5, <2>1, <2>3 DEF Event
    <3>3. /\ p.events[b].due \in Int /\ p.events[b].name \in Names \cup {NoName}
      BY <1>5, <2>1, <2>3 DEF Event
    <3>4. CASE s = b
      BY <1>3, <2>3, <3>1, <3>2, <3>3, <3>4 DEF Event
    <3>5. CASE s # b
      BY <2>1, <2>3, <3>1, <3>5
    <3> QED BY <3>4, <3>5
  <2> QED BY <2>2, <2>3
<1>8. q \in PoolType
  <2>1. q.events \in [Slots -> Event]
    <3>1. CASE m = 1
      BY <1>2, <1>6, <3>1
    <3>2. CASE m # 1
      <4>1. [p.events[b] EXCEPT !.next = v] \in Event
        BY <1>2, <1>3, <1>5, <3>2 DEF Event
      <4> QED BY <1>2, <1>6, <3>2, <4>1
    <3> QED BY <3>1, <3>2
  <2>2. q.list \in Ends
    BY <1>2, <1>3, <1>6
  <2> QED BY <1>2, <1>6, <2>1, <2>2 DEF PoolType
<1>9. \A k \in Int : k >= 1 => At(d, k) = IF k < m THEN At(c, k) ELSE At(c, k + 1)
  <2> TAKE k \in Int
  <2>1. CASE k \in 1 .. n - 1
    <3>1. At(d, k) = d[k] /\ d[k] = IF k < m THEN c[k] ELSE c[k + 1]
      BY <2>1, <1>4 DEF At
    <3>2. k \in 1 .. n /\ k + 1 \in 1 .. n
      BY <2>1, <1>3
    <3> QED BY <3>1, <3>2 DEF At
  <2>2. CASE k \notin 1 .. n - 1 /\ k >= 1
    <3>1. ~(k < m) /\ k + 1 \notin 1 .. n
      BY <2>2, <1>3
    <3>2. k \notin 1 .. Len(d)
      BY <2>2, <1>4
    <3> QED BY <3>1, <3>2 DEF At
  <2> QED BY <2>1, <2>2
<1>10. q.list = At(d, 1)
  <2>1. p.list = At(c, 1)
    BY <1>1 DEF IsChain
  <2>2. m = 1 => m + 1 = 1 + 1
    OBVIOUS
  <2> QED BY <1>3, <1>6, <1>9, <2>1, <2>2 DEF v
<1>11. ASSUME NEW j \in 1 .. n, NEW k \in 1 .. n, c[j] = c[k] PROVE j = k
  BY <1>1, <1>11 DEF IsChain
<1>12. ASSUME NEW k \in 1 .. n - 1 PROVE q.events[d[k]].next = At(d, k + 1)
  <2>1. /\ k \in 1 .. n /\ k + 1 \in 1 .. n /\ k + 1 >= 1 /\ k + 1 \in Int /\ k \in Int
        /\ m \in Int /\ m - 1 \in Int
    BY <1>3
  <2>2. At(d, k + 1) = IF k + 1 < m THEN At(c, k + 1) ELSE At(c, (k + 1) + 1)
    BY <2>1, <1>9
  <2>3. \A j \in 1 .. n : p.events[c[j]].next = At(c, j + 1)
    BY <1>1 DEF IsChain
  <2>4. CASE k + 1 < m
    <3>1. k < m /\ k # m - 1 /\ m # 1 /\ m - 1 \in 1 .. n
      BY <2>4, <2>1, <1>3
    <3>2. d[k] = c[k] /\ c[k] # b /\ c[k] \in Slots
      BY <3>1, <2>1, <1>3, <1>4, <1>5, <1>11
    <3> QED BY <3>1, <3>2, <2>1, <2>2, <2>3, <2>4, <1>7
  <2>5. CASE k + 1 = m
    <3>1. k < m /\ k = m - 1 /\ m # 1 /\ ~(k + 1 < m) /\ (k + 1) + 1 = m + 1
      BY <2>5, <2>1, <1>3
    <3>2. d[k] = b /\ b \in Slots
      BY <3>1, <1>4, <1>5
    <3> QED BY <3>1, <3>2, <2>2, <1>7 DEF v
  <2>6. CASE k + 1 > m
    <3>1. ~(k < m) /\ ~(k + 1 < m) /\ k + 1 # m - 1
      BY <2>6, <2>1
    <3>2. d[k] = c[k + 1] /\ c[k + 1] \in Slots
      BY <3>1, <2>1, <1>3, <1>4
    <3>3. m # 1 => c[k + 1] # b
      BY <3>1, <2>1, <1>5, <1>11
    <3>4. p.events[c[k + 1]].next = At(c, (k + 1) + 1)
      BY <2>1, <2>3
    <3> QED BY <3>1, <3>2, <3>3, <3>4, <2>2, <1>7
  <2> QED BY <2>1, <2>4, <2>5, <2>6
<1>13. ASSUME NEW j \in 1 .. n - 1, NEW k \in 1 .. n - 1, d[j] = d[k] PROVE j = k
  <2>1. j \in 1 .. n /\ j + 1 \in 1 .. n /\ k \in 1 .. n /\ k + 1 \in 1 .. n
    BY <1>3
  <2> DEFINE u == IF j < m THEN j ELSE j + 1
             w == IF k < m THEN k ELSE k + 1
  <2>2. d[j] = c[u] /\ d[k] = c[w] /\ u \in 1 .. n /\ w \in 1 .. n
    BY <2>1, <1>4
  <2>3. u = w
    <3> HIDE DEF u, w
    <3> QED BY <2>2, <1>11, <1>13
  <2> QED BY <2>1, <2>3, <1>3
<1>14. IsChain(q, d)
  BY <1>4, <1>10, <1>12, <1>13 DEF IsChain
<1>15. ASSUME NEW s \in Slots PROVE InList(d, s) <=> InList(c, s) /\ s # c[m]
  <2>1. ASSUME InList(d, s) PROVE InList(c, s) /\ s # c[m]
    <3>1. PICK k \in 1 .. n - 1 : d[k] = s
      BY <2>1, <1>4 DEF InList
    <3>2. k \in 1 .. n /\ k + 1 \in 1 .. n /\ k + 1 # k
      BY <1>3
    <3>3. CASE k < m
      <4>1. c[k] = s /\ k # m
        BY <3>1, <3>3, <1>3, <1>4
      <4> QED BY <4>1, <3>2, <1>11 DEF InList
    <3>4. CASE ~(k < m)
      <4>1. c[k + 1] = s /\ k + 1 # m
        BY <3>1, <3>4, <1>3, <1>4
      <4> QED BY <4>1, <3>2, <1>11 DEF InList
    <3> QED BY <3>3, <3>4
  <2>2. ASSUME InList(c, s), s # c[m] PROVE InList(d, s)
    <3>1. PICK k \in 1 .. n : c[k] = s
      BY <2>2 DEF InList
    <3>2. k # m
      BY <3>1, <2>2
    <3>3. CASE k < m
      <4>1. k \in 1 .. n - 1 /\ d[k] = s
        BY <3>1, <3>3, <1>3, <1>4
      <4> QED BY <4>1, <1>4 DEF InList
    <3>4. CASE k > m
      <4>1. k - 1 \in 1 .. n - 1 /\ ~(k - 1 < m) /\ (k - 1) + 1 = k
        BY <3>4, <1>3
      <4>2. d[k - 1] = s
        BY <3>1, <4>1, <1>4
      <4> QED BY <4>1, <4>2, <1>4 DEF InList
    <3> QED BY <3>2, <3>3, <3>4, <1>3
  <2> QED BY <2>1, <2>2
<1>16. \A s \in Slots : InFree(q, s) <=> InFree(p, s)
  BY <1>6 DEF InFree
<1>17. c[m] \in Slots /\ InList(c, c[m]) /\ c[m] \notin X /\ ~InFree(p, c[m])
  <2>1. c[m] \in Slots /\ InList(c, c[m])
    BY <1>3 DEF InList
  <2> QED BY <2>1, <1>1 DEF Placed
<1>18. Placed(q, d, X \cup {c[m]})
  BY <1>1, <1>15, <1>16, <1>17 DEF Placed
<1>19. StackOnce(q)
  BY <1>1, <1>6 DEF StackOnce
<1>20. Counted(q, d, X \cup {c[m]})
  <2>1. Cardinality(X \cup {c[m]}) = Cardinality(X) + 1 /\ Cardinality(X) \in Nat
    BY <1>1, <1>17, SlotsFinite, FS_AddElement
  <2> QED BY <2>1, <1>1, <1>2, <1>3, <1>4, <1>6 DEF Counted
<1>21. X \cup {c[m]} \in SUBSET Slots
  BY <1>1, <1>17
<1>22. Sound(q, d, X \cup {c[m]})
  BY <1>8, <1>14, <1>18, <1>19, <1>20, <1>21 DEF Sound
<1>23. SameShown(p, q)
  BY <1>7 DEF SameShown, Shown
<1> QED BY <1>22, <1>23 DEF q, d, b, v

\* Taken out of the list and killed, the m-th slot is free.
LEMMA RemovedSound ==
  ASSUME NEW p, NEW c, NEW X, Sound(p, c, X), NEW m \in 1 .. Len(c)
  PROVE  LET q == Killed(Unlinked(p, At(c, m - 1), At(c, m + 1)), c[m])
         IN  /\ Sound(q, Without(c, m), X)
             /\ \A t \in Slots : t # c[m] => Shown(q.events[t]) = Shown(p.events[t])
<1> DEFINE u == Unlinked(p, At(c, m - 1), At(c, m + 1))
           s == c[m]
           d == Without(c, m)
           Y == X \cup {s}
<1>1. Sound(u, d, Y) /\ SameShown(p, u)
  BY UnlinkedSound
<1>2. s \in Y /\ s \notin X /\ Y \ {s} = X
  <2>1. IsChain(p, c) /\ Placed(p, c, X)
    BY DEF Sound
  <2>2. s \in Slots /\ InList(c, s)
    BY <2>1, ChainFacts DEF InList
  <2>3. s \notin X
    BY <2>1, <2>2 DEF Placed
  <2> QED BY <2>3
<1> HIDE DEF u, s, d, Y
<1>3. /\ Sound(Killed(u, s), d, Y \ {s})
      /\ \A t \in Slots : t # s => Killed(u, s).events[t] = u.events[t]
  BY <1>1, <1>2, KilledSound
<1>4. \A t \in Slots : t # s => Shown(Killed(u, s).events[t]) = Shown(p.events[t])
  BY <1>1, <1>3 DEF SameShown
<1> QED BY <1>2, <1>3, <1>4 DEF u, s, d

\* A list with a slot behind its k-th.
With(c, k, s) ==
  [j \in 1 .. Len(c) + 1 |-> IF j <= k THEN c[j] ELSE IF j = k + 1 THEN s ELSE c[j - 1]]

LEMMA WithFacts ==
  ASSUME NEW S, NEW c \in Seq(S), NEW k \in 0 .. Len(c), NEW s \in S
  PROVE  /\ With(c, k, s) \in Seq(S) /\ Len(With(c, k, s)) = Len(c) + 1
         /\ \A j \in 1 .. Len(c) + 1 :
              With(c, k, s)[j] = IF j <= k THEN c[j] ELSE IF j = k + 1 THEN s ELSE c[j - 1]
<1>1. Len(c) \in Nat /\ Len(c) + 1 \in Nat /\ \A j \in 1 .. Len(c) : c[j] \in S
  BY SeqFacts
<1>2. \A j \in 1 .. Len(c) + 1 : /\ j <= k => j \in 1 .. Len(c)
                                 /\ ~(j <= k) /\ j # k + 1 => j - 1 \in 1 .. Len(c)
  BY <1>1
<1>3. With(c, k, s) \in [1 .. Len(c) + 1 -> S]
  BY <1>1, <1>2 DEF With
<1>4. \A j \in 1 .. Len(c) + 1 :
        With(c, k, s)[j] = IF j <= k THEN c[j] ELSE IF j = k + 1 THEN s ELSE c[j - 1]
  BY DEF With
<1> DEFINE d == With(c, k, s)
           l == Len(c) + 1
<1>5. d \in [1 .. l -> S] /\ l \in Nat
  BY <1>1, <1>3
<1> HIDE DEF d, l
<1>6. d \in Seq(S) /\ Len(d) = l
  BY <1>5
<1> QED BY <1>4, <1>6 DEF d, l

\* sithEvent_Set once the place is found: an event in the slot on top of the stack, behind
\* the k-th of the list.
Linked(p, c, k, n, w) ==
  LET s == p.lut[p.numFree - 1]
      new(v) == [due |-> w, name |-> n, next |-> v]
  IN  IF k = 0
        THEN [p EXCEPT !.numFree = @ - 1, !.events[s] = new(p.list), !.list = s]
        ELSE [p EXCEPT !.numFree = @ - 1, !.events[s] = new(p.events[c[k]].next),
                       !.events[c[k]].next = s]

\* The pool q has s behind the k-th of the list, and the rest as p has it.
HasBehind(p, c, X, k, s, n, w, q) ==
  /\ Sound(q, With(c, k, s), X)
  /\ s \in Slots /\ ~InList(c, s) /\ Shown(q.events[s]) = [due |-> w, name |-> n]
  /\ \A t \in Slots : t # s => Shown(q.events[t]) = Shown(p.events[t])

LEMMA LinkedSound ==
  ASSUME NEW p, NEW c, NEW X, Sound(p, c, X), p.numFree # 0, NEW k \in 0 .. Len(c),
         NEW n \in Names \cup {NoName}, NEW w \in Int
  PROVE  HasBehind(p, c, X, k, p.lut[p.numFree - 1], n, w, Linked(p, c, k, n, w))
<1> DEFINE s == p.lut[p.numFree - 1]
           q == Linked(p, c, k, n, w)
           d == With(c, k, s)
           m == Len(c)
           b == c[k]
           v == At(c, k + 1)
           new == [due |-> w, name |-> n, next |-> v]
<1>1. /\ p \in PoolType /\ IsChain(p, c) /\ X \in SUBSET Slots
      /\ Placed(p, c, X) /\ StackOnce(p) /\ Counted(p, c, X)
  BY DEF Sound
<1>2. /\ p.events \in [Slots -> Event] /\ p.list \in Ends /\ p.lut \in [Slots -> Slots]
      /\ p.numFree \in 0 .. NumEvents /\ p.numFree \in Nat
      /\ p = [events |-> p.events, list |-> p.list, lut |-> p.lut, numFree |-> p.numFree]
      /\ \A j \in 0 .. p.numFree - 1 : j \in Slots
  BY <1>1, PoolFacts DEF PoolType
<1>3. p.numFree - 1 \in 0 .. p.numFree - 1 /\ p.numFree - 1 \in 0 .. NumEvents
  BY <1>2, EventsFacts
<1>4. s \in Slots /\ InFree(p, s) /\ s # Nil /\ s \in Ends
  <2>1. s \in Slots
    BY <1>2, <1>3
  <2>2. InFree(p, s)
    BY <1>3 DEF InFree
  <2> HIDE DEF s
  <2> QED BY <2>1, <2>2, EventsFacts DEF Ends
<1>5. ~InList(c, s) /\ s \notin X
  BY <1>1, <1>4 DEF Placed
<1>6. /\ m \in Nat /\ c \in Seq(Slots)
      /\ \A j \in 1 .. m : c[j] \in Slots /\ c[j] # Nil
      /\ v \in Ends
  BY <1>1, ChainFacts
<1>7. \A j \in 1 .. m : c[j] # s
  BY <1>5 DEF InList
<1>8. k # 0 => k \in 1 .. m /\ b \in Slots /\ b # s
  BY <1>6, <1>7
<1>9. v = IF k = 0 THEN p.list ELSE p.events[b].next
  <2>1. CASE k = 0
    BY <1>1, <2>1 DEF IsChain
  <2>2. CASE k # 0
    BY <1>1, <1>8, <2>2 DEF IsChain
  <2> QED BY <2>1, <2>2
<1>10. /\ q.lut = p.lut /\ q.numFree = p.numFree - 1
       /\ k = 0 => q.list = s /\ q.events = [p.events EXCEPT ![s] = new]
       /\ k # 0 => /\ q.list = p.list
                   /\ q.events = [[p.events EXCEPT ![s] = new]
                                    EXCEPT ![b] = [[p.events EXCEPT ![s] = new][b] EXCEPT !.next = s]]
       /\ q = [events |-> q.events, list |-> q.list, lut |-> q.lut, numFree |-> q.numFree]
  <2>1. CASE k = 0
    <3>1. q = [p EXCEPT !.numFree = p.numFree - 1, !.events = [p.events EXCEPT ![s] = new],
                        !.list = s]
      BY <1>9, <2>1 DEF Linked
    <3> HIDE DEF q, s, new
    <3> QED BY <1>2, <2>1, <3>1
  <2>2. CASE k # 0
    <3> DEFINE es == [p.events EXCEPT ![s] = new]
    <3>1. q = [p EXCEPT !.numFree = p.numFree - 1,
                        !.events = [es EXCEPT ![b] = [es[b] EXCEPT !.next = s]]]
      BY <1>9, <2>2 DEF Linked
    <3> HIDE DEF q, s, new, es, b
    <3>2. q.lut = p.lut /\ q.numFree = p.numFree - 1 /\ q.list = p.list
          /\ q.events = [es EXCEPT ![b] = [es[b] EXCEPT !.next = s]]
          /\ q = [events |-> q.events, list |-> q.list, lut |-> q.lut, numFree |-> q.numFree]
      BY <1>2, <3>1
    <3> QED BY <2>2, <3>2 DEF es
  <2> QED BY <2>1, <2>2
<1> HIDE DEF q, d, s, b, v
<1>11. new \in Event /\ new.due = w /\ new.name = n /\ new.next = v
  BY <1>6 DEF Event
<1> HIDE DEF new
<1>12. \A t \in Slots :
         q.events[t] = IF t = s THEN new
                       ELSE IF k # 0 /\ t = b
                         THEN [due |-> p.events[b].due, name |-> p.events[b].name, next |-> s]
                       ELSE p.events[t]
  <2>1. CASE k = 0
    BY <1>2, <1>4, <1>10, <2>1
  <2>2. CASE k # 0
    <3> DEFINE es == [p.events EXCEPT ![s] = new]
    <3>1. es \in [Slots -> Event] /\ es[s] = new /\ \A t \in Slots : t # s => es[t] = p.events[t]
      BY <1>2, <1>4, <1>11
    <3>2. q.events = [es EXCEPT ![b] = [es[b] EXCEPT !.next = s]]
      BY <1>10, <2>2
    <3> HIDE DEF es
    <3>3. es[b] = p.events[b] /\ p.events[b] \in Event /\ b \in Slots /\ b # s
      BY <1>2, <1>8, <2>2, <3>1
    <3>4. [es[b] EXCEPT !.next = s] =
            [due |-> p.events[b].due, name |-> p.events[b].name, next |-> s]
      BY <3>3 DEF Event
    <3> QED BY <2>2, <3>1, <3>2, <3>3, <3>4
  <2> QED BY <2>1, <2>2
<1>13. \A t \in Slots : p.events[t] \in Event
  BY <1>2
<1>14. k # 0 => [due |-> p.events[b].due, name |-> p.events[b].name, next |-> s] \in Event
  BY <1>4, <1>8, <1>13 DEF Event
<1>15. q.events \in [Slots -> Event]
  <2>1. \A t \in Slots : q.events[t] \in Event
    BY <1>11, <1>12, <1>13, <1>14
  <2>2. q.events = [t \in Slots |-> q.events[t]]
    <3>1. CASE k = 0
      BY <1>2, <1>10, <3>1
    <3>2. CASE k # 0
      BY <1>2, <1>10, <3>2
    <3> QED BY <3>1, <3>2
  <2> QED BY <2>1, <2>2
<1>16. q \in PoolType
  <2>1. q.list \in Ends
    BY <1>2, <1>4, <1>10
  <2> QED BY <1>2, <1>3, <1>10, <1>15, <2>1 DEF PoolType
<1>17. /\ d \in Seq(Slots) /\ Len(d) = m + 1 /\ m + 1 \in Nat
       /\ \A j \in 1 .. m + 1 : d[j] = IF j <= k THEN c[j] ELSE IF j = k + 1 THEN s ELSE c[j - 1]
  <2>1. c \in Seq(Slots) /\ s \in Slots
    BY <1>4, <1>6
  <2>2. /\ d \in Seq(Slots) /\ Len(d) = m + 1
        /\ \A j \in 1 .. m + 1 : d[j] = IF j <= k THEN c[j] ELSE IF j = k + 1 THEN s ELSE c[j - 1]
    BY <2>1, WithFacts DEF d
  <2>3. m + 1 \in Nat
    BY <1>6
  <2> QED BY <2>2, <2>3
<1>18. \A j \in Int : j >= 1 =>
         At(d, j) = IF j <= k THEN At(c, j) ELSE IF j = k + 1 THEN s ELSE At(c, j - 1)
  <2> TAKE j \in Int
  <2>1. CASE j \in 1 .. m + 1
    <3>1. At(d, j) = IF j <= k THEN c[j] ELSE IF j = k + 1 THEN s ELSE c[j - 1]
      BY <2>1, <1>17 DEF At
    <3>2. (j <= k => j \in 1 .. m) /\ (~(j <= k) /\ j # k + 1 => j - 1 \in 1 .. m)
      BY <2>1, <1>6
    <3> QED BY <3>1, <3>2 DEF At
  <2>2. CASE j \notin 1 .. m + 1 /\ j >= 1
    <3>1. ~(j <= k) /\ j # k + 1 /\ j - 1 \notin 1 .. m
      BY <2>2, <1>6
    <3>2. j \notin 1 .. Len(d)
      BY <2>2, <1>17
    <3> QED BY <3>1, <3>2 DEF At
  <2> QED BY <2>1, <2>2
<1>19. q.list = At(d, 1)
  <2>1. p.list = At(c, 1)
    BY <1>1 DEF IsChain
  <2>2. At(d, 1) = IF 1 <= k THEN At(c, 1) ELSE IF 1 = k + 1 THEN s ELSE At(c, 1 - 1)
    BY <1>18
  <2>3. IF k = 0 THEN ~(1 <= k) /\ 1 = k + 1 ELSE 1 <= k
    OBVIOUS
  <2> QED BY <1>10, <2>1, <2>2, <2>3
<1>20. ASSUME NEW i1 \in 1 .. m, NEW j1 \in 1 .. m, c[i1] = c[j1] PROVE i1 = j1
  BY <1>1, <1>20 DEF IsChain
<1>21. ASSUME NEW j \in 1 .. m + 1 PROVE q.events[d[j]].next = At(d, j + 1)
  <2>1. /\ j \in Int /\ j >= 1 /\ j + 1 \in Int /\ j + 1 >= 1 /\ k \in Int /\ k >= 0
        /\ (j + 1) - 1 = j
    BY <1>6
  <2>2. At(d, j + 1) = IF j + 1 <= k THEN At(c, j + 1) ELSE IF j + 1 = k + 1 THEN s
                       ELSE At(c, (j + 1) - 1)
    BY <2>1, <1>18
  <2>3. \A l \in 1 .. m : p.events[c[l]].next = At(c, l + 1)
    BY <1>1 DEF IsChain
  <2>4. CASE j + 1 <= k
    <3>1. j <= k /\ j # k /\ j \in 1 .. m /\ k # 0
      BY <2>4, <2>1
    <3>2. d[j] = c[j] /\ c[j] \in Slots /\ c[j] # s /\ c[j] # b
      BY <3>1, <1>6, <1>7, <1>8, <1>17, <1>20 DEF b
    <3> QED BY <3>1, <3>2, <2>2, <2>3, <2>4, <1>12
  <2>5. CASE j = k
    <3>1. j <= k /\ k # 0 /\ ~(j + 1 <= k) /\ j + 1 = k + 1
      BY <2>5, <2>1
    <3>2. d[j] = b /\ b \in Slots /\ b # s
      BY <3>1, <2>5, <1>8, <1>17 DEF b
    <3>3. q.events[b] = [due |-> p.events[b].due, name |-> p.events[b].name, next |-> s]
      BY <3>1, <3>2, <1>12
    <3> QED BY <3>1, <3>2, <3>3, <2>2
  <2>6. CASE j = k + 1
    <3>1. ~(j <= k) /\ ~(j + 1 <= k) /\ j + 1 # k + 1
      BY <2>6, <2>1
    <3>2. d[j] = s
      BY <3>1, <2>6, <1>17
    <3>3. At(d, j + 1) = v
      BY <3>1, <2>1, <2>2, <2>6 DEF v
    <3> QED BY <3>2, <3>3, <1>4, <1>11, <1>12
  <2>7. CASE j > k + 1
    <3>1. ~(j <= k) /\ j # k + 1 /\ ~(j + 1 <= k) /\ j + 1 # k + 1 /\ j - 1 \in 1 .. m
          /\ (j - 1) + 1 = j /\ j - 1 # k
      BY <2>7, <2>1, <1>6
    <3>2. d[j] = c[j - 1] /\ c[j - 1] \in Slots /\ c[j - 1] # s
      BY <3>1, <1>6, <1>7, <1>17
    <3>3. k # 0 => c[j - 1] # b
      BY <3>1, <1>8, <1>20 DEF b
    <3>4. p.events[c[j - 1]].next = At(c, j)
      BY <3>1, <2>3
    <3> QED BY <3>1, <3>2, <3>3, <3>4, <2>1, <2>2, <1>12
  <2> QED BY <2>1, <2>4, <2>5, <2>6, <2>7
<1>22. ASSUME NEW i1 \in 1 .. m + 1, NEW j1 \in 1 .. m + 1, d[i1] = d[j1] PROVE i1 = j1
  <2> DEFINE I(j) == IF j <= k THEN j ELSE j - 1
  <2>1. ASSUME NEW j \in 1 .. m + 1, j # k + 1 PROVE I(j) \in 1 .. m /\ d[j] = c[I(j)] /\ d[j] # s
    <3>1. I(j) \in 1 .. m
      BY <2>1, <1>6
    <3>2. d[j] = c[I(j)]
      BY <2>1, <1>17
    <3> HIDE DEF I
    <3> QED BY <3>1, <3>2, <1>7
  <2>2. d[k + 1] = s /\ k + 1 \in 1 .. m + 1
    <3>1. k + 1 \in 1 .. m + 1 /\ ~(k + 1 <= k)
      BY <1>6
    <3> QED BY <3>1, <1>17
  <2>3. CASE i1 # k + 1 /\ j1 # k + 1
    <3>1. I(i1) = I(j1)
      <4> HIDE DEF I
      <4>1. /\ I(i1) \in 1 .. m /\ d[i1] = c[I(i1)] /\ I(j1) \in 1 .. m /\ d[j1] = c[I(j1)]
        BY <2>1, <2>3
      <4> QED BY <4>1, <1>20, <1>22
    <3> QED BY <3>1, <2>3, <1>6
  <2>4. CASE i1 = k + 1 /\ j1 # k + 1
    <3> HIDE DEF I
    <3> QED BY <2>1, <2>2, <2>4, <1>22
  <2>5. CASE i1 # k + 1 /\ j1 = k + 1
    <3> HIDE DEF I
    <3> QED BY <2>1, <2>2, <2>5, <1>22
  <2>6. CASE i1 = k + 1 /\ j1 = k + 1
    BY <2>6
  <2> QED BY <2>3, <2>4, <2>5, <2>6
<1>23. IsChain(q, d)
  BY <1>17, <1>19, <1>21, <1>22 DEF IsChain
<1>24. ASSUME NEW t \in Slots PROVE InList(d, t) <=> InList(c, t) \/ t = s
  <2>1. ASSUME InList(d, t) PROVE InList(c, t) \/ t = s
    <3>1. PICK j \in 1 .. m + 1 : d[j] = t
      BY <2>1, <1>17 DEF InList
    <3>2. (j <= k => j \in 1 .. m) /\ (~(j <= k) /\ j # k + 1 => j - 1 \in 1 .. m)
      BY <1>6
    <3>3. d[j] = IF j <= k THEN c[j] ELSE IF j = k + 1 THEN s ELSE c[j - 1]
      BY <1>17
    <3> QED BY <3>1, <3>2, <3>3 DEF InList
  <2>2. ASSUME InList(c, t) PROVE InList(d, t)
    <3>1. PICK j \in 1 .. m : c[j] = t
      BY <2>2 DEF InList
    <3>2. CASE j <= k
      <4>1. j \in 1 .. m + 1 /\ d[j] = t
        BY <3>1, <3>2, <1>6, <1>17
      <4> QED BY <4>1, <1>17 DEF InList
    <3>3. CASE j > k
      <4>1. j + 1 \in 1 .. m + 1 /\ ~(j + 1 <= k) /\ j + 1 # k + 1 /\ (j + 1) - 1 = j
        BY <3>3, <1>6
      <4>2. d[j + 1] = t
        BY <3>1, <4>1, <1>17
      <4> QED BY <4>1, <4>2, <1>17 DEF InList
    <3> QED BY <3>2, <3>3
  <2>3. InList(d, s)
    <3>1. k + 1 \in 1 .. m + 1 /\ ~(k + 1 <= k)
      BY <1>6
    <3>2. d[k + 1] = s
      BY <3>1, <1>17
    <3> QED BY <3>1, <3>2, <1>17 DEF InList
  <2> QED BY <2>1, <2>2, <2>3
<1>25. ASSUME NEW t \in Slots PROVE InFree(q, t) <=> InFree(p, t) /\ t # s
  <2>1. \A j \in 0 .. p.numFree - 1 : j \in 0 .. q.numFree - 1 <=> j # p.numFree - 1
    BY <1>2, <1>10
  <2>2. \A j \in 0 .. q.numFree - 1 : j \in 0 .. p.numFree - 1
    BY <1>2, <1>10
  <2>3. \A j \in 0 .. p.numFree - 1 : p.lut[j] = s <=> j = p.numFree - 1
    BY <1>1, <1>3 DEF StackOnce, s
  <2>4. q.lut = p.lut
    BY <1>10
  <2> QED BY <2>1, <2>2, <2>3, <2>4 DEF InFree
<1>26. Placed(q, d, X)
  BY <1>1, <1>4, <1>5, <1>24, <1>25 DEF Placed
<1>27. StackOnce(q)
  <2>1. \A j \in 0 .. q.numFree - 1 : j \in 0 .. p.numFree - 1
    BY <1>2, <1>10
  <2> QED BY <2>1, <1>1, <1>10 DEF StackOnce
<1>28. Counted(q, d, X)
  <2>1. Cardinality(X) \in Nat
    BY <1>1, SlotsFinite
  <2> QED BY <2>1, <1>1, <1>2, <1>6, <1>10, <1>17 DEF Counted
<1>29. Sound(q, d, X)
  BY <1>1, <1>16, <1>23, <1>26, <1>27, <1>28 DEF Sound
<1>30. Shown(q.events[s]) = [due |-> w, name |-> n]
  BY <1>4, <1>11, <1>12 DEF Shown
<1>31. \A t \in Slots : t # s => Shown(q.events[t]) = Shown(p.events[t])
  BY <1>12 DEF Shown
<1> QED BY <1>4, <1>5, <1>29, <1>30, <1>31 DEF q, d, s, HasBehind

-----------------------------------------------------------------------------
(* Setting an event.                                                       *)

\* The list is in the order of the due times.
Sorted(p, c) ==
  \A j, k \in 1 .. Len(c) : j <= k => p.events[c[j]].due <= p.events[c[k]].due

LEMMA ChainOfSound ==
  ASSUME NEW p, NEW c, NEW X, Sound(p, c, X)
  PROVE  Chain(p) = c /\ Len(c) <= NumEvents
<1> DEFINE x == Cardinality(X)
           f == p.numFree
           l == Len(c)
<1>1. p \in PoolType /\ IsChain(p, c) /\ X \in SUBSET Slots /\ f + l + x = NumEvents
  BY DEF Sound, Counted
<1>2. x \in Nat /\ f \in Nat /\ l \in Nat /\ NumEvents \in Nat
  BY <1>1, SlotsFinite, PoolFacts, ChainFacts, EventsFacts
<1>3. l <= NumEvents
  <2> HIDE DEF x, f, l
  <2> QED BY <1>1, <1>2
<1> QED BY <1>1, <1>3, ChainIs

\* The place of a new event: those ahead are due no later, the one behind is due later.
LEMMA NotLaterFacts ==
  ASSUME NEW p \in PoolType, NEW c \in Seq(Slots), NEW w \in Int
  PROVE  LET k == NotLater(p, c, w)
         IN  /\ k \in 0 .. Len(c)
             /\ \A j \in 1 .. k : p.events[c[j]].due <= w
             /\ k < Len(c) => p.events[c[k + 1]].due > w
<1> DEFINE I == {j \in 1 .. Len(c) : p.events[c[j]].due > w}
           f == IF I # {} THEN Min(I) ELSE 0
           k == IF f = 0 THEN Len(c) ELSE f - 1
<1>1. NotLater(p, c, w) = k
  BY DEF NotLater, SelectInSeq
<1>2. Len(c) \in Nat /\ \A j \in 1 .. Len(c) : p.events[c[j]].due \in Int
  <2>1. \A j \in 1 .. Len(c) : c[j] \in Slots
    BY SeqFacts
  <2> QED BY <2>1, SeqFacts, PoolFacts
<1>3. I \in SUBSET Nat /\ 0 \notin I
  OBVIOUS
<1>4. I # {} => Min(I) \in I /\ \A j \in I : Min(I) <= j
  BY <1>3, MinExists
<1>5. CASE I = {}
  <2>1. k = Len(c)
    BY <1>5
  <2>2. \A j \in 1 .. Len(c) : p.events[c[j]].due <= w
    BY <1>2, <1>5
  <2> HIDE DEF k
  <2>3. k \in 0 .. Len(c) /\ ~(k < Len(c))
    BY <1>2, <2>1
  <2> QED BY <1>1, <2>1, <2>2, <2>3
<1>6. CASE I # {}
  <2> HIDE DEF I
  <2>1. f \in I /\ f # 0 /\ \A j \in I : f <= j
    BY <1>3, <1>4, <1>6
  <2>2. k = f - 1
    BY <2>1
  <2> HIDE DEF f, k
  <2>3. f \in 1 .. Len(c) /\ p.events[c[f]].due > w
    BY <2>1 DEF I
  <2>4. k \in 0 .. Len(c) /\ k + 1 = f
    BY <1>2, <2>2, <2>3
  <2>5. ASSUME NEW j \in 1 .. k PROVE p.events[c[j]].due <= w
    <3>1. j \in 1 .. Len(c) /\ ~(f <= j)
      BY <1>2, <2>2, <2>3
    <3>2. j \notin I
      BY <2>1, <3>1
    <3> QED BY <1>2, <3>1, <3>2 DEF I
  <2> QED BY <1>1, <2>3, <2>4, <2>5
<1> QED BY <1>5, <1>6

\* sithEvent_Set: nothing without a free slot; else the event is linked behind those due no
\* later and ahead of those due later, and the list stays sorted.
LEMMA WithEventFacts ==
  ASSUME NEW p, NEW c, NEW X, Sound(p, c, X), Sorted(p, c),
         NEW n \in Names \cup {NoName}, NEW w \in Int
  PROVE  IF p.numFree = 0 THEN WithEvent(p, n, w) = p
         ELSE \E k \in 0 .. Len(c) :
                /\ WithEvent(p, n, w) = Linked(p, c, k, n, w)
                /\ \A j \in 1 .. k : p.events[c[j]].due <= w
                /\ \A j \in k + 1 .. Len(c) : p.events[c[j]].due > w
                /\ Sorted(WithEvent(p, n, w), With(c, k, p.lut[p.numFree - 1]))
<1>1. CASE p.numFree = 0
  BY <1>1 DEF WithEvent
<1>2. CASE p.numFree # 0
  <2> DEFINE k == NotLater(p, c, w)
             s == p.lut[p.numFree - 1]
             d == With(c, k, s)
             q == Linked(p, c, k, n, w)
  <2>1. p \in PoolType /\ c \in Seq(Slots) /\ Len(c) \in Nat /\ IsChain(p, c)
    BY ChainFacts DEF Sound
  <2>2. /\ k \in 0 .. Len(c) /\ \A j \in 1 .. k : p.events[c[j]].due <= w
        /\ k < Len(c) => p.events[c[k + 1]].due > w
    BY <2>1, NotLaterFacts
  <2>3. WithEvent(p, n, w) = q
    <3>1. Chain(p) = c
      BY ChainOfSound
    <3> QED BY <1>2, <3>1 DEF WithEvent, Linked
  <2> HIDE DEF k
  <2>4. \A j \in 1 .. Len(c) : c[j] \in Slots /\ p.events[c[j]].due \in Int
    BY <2>1, ChainFacts, PoolFacts
  <2>5. ASSUME NEW j \in k + 1 .. Len(c) PROVE p.events[c[j]].due > w
    <3>1. k + 1 \in 1 .. Len(c) /\ j \in 1 .. Len(c) /\ k + 1 <= j /\ k < Len(c)
      BY <2>1, <2>2
    <3>2. p.events[c[k + 1]].due <= p.events[c[j]].due
      BY <3>1 DEF Sorted
    <3> QED BY <2>2, <2>4, <3>1, <3>2
  <2>6. /\ Sound(q, d, X)
        /\ s \in Slots /\ ~InList(c, s) /\ Shown(q.events[s]) = [due |-> w, name |-> n]
        /\ \A t \in Slots : t # s => Shown(q.events[t]) = Shown(p.events[t])
    BY <1>2, <2>2, LinkedSound DEF HasBehind
  <2>7. q.events[s].due = w /\ \A t \in Slots : t # s => q.events[t].due = p.events[t].due
    <3> HIDE DEF q, s
    <3> QED BY <2>6 DEF Shown
  <2>8. /\ Len(d) = Len(c) + 1
        /\ \A j \in 1 .. Len(c) + 1 : d[j] = IF j <= k THEN c[j] ELSE IF j = k + 1 THEN s ELSE c[j - 1]
    BY <2>1, <2>2, <2>6, WithFacts
  <2> HIDE DEF d, s, q
  <2>9. \A j \in 1 .. Len(c) : c[j] # s
    BY <2>6 DEF InList
  <2>10. ASSUME NEW j \in 1 .. Len(c) + 1
         PROVE  /\ j <= k => j \in 1 .. Len(c) /\ q.events[d[j]].due = p.events[c[j]].due
                /\ j = k + 1 => q.events[d[j]].due = w
                /\ j > k + 1 => /\ j - 1 \in k + 1 .. Len(c) /\ j - 1 \in 1 .. Len(c)
                                /\ q.events[d[j]].due = p.events[c[j - 1]].due
    <3>1. CASE j <= k
      <4>1. j \in 1 .. Len(c) /\ ~(j = k + 1) /\ ~(j > k + 1)
        BY <3>1, <2>1, <2>2
      <4> QED BY <3>1, <4>1, <2>4, <2>7, <2>8, <2>9
    <3>2. CASE j = k + 1
      <4>1. ~(j <= k) /\ ~(j > k + 1)
        BY <3>2, <2>2
      <4> QED BY <3>2, <4>1, <2>7, <2>8
    <3>3. CASE j > k + 1
      <4>1. ~(j <= k) /\ j # k + 1 /\ j - 1 \in k + 1 .. Len(c) /\ j - 1 \in 1 .. Len(c)
        BY <3>3, <2>1, <2>2
      <4>2. d[j] = c[j - 1] /\ c[j - 1] \in Slots /\ c[j - 1] # s
        BY <4>1, <2>4, <2>8, <2>9
      <4> QED BY <4>1, <4>2, <2>7
    <3> QED BY <3>1, <3>2, <3>3, <2>2
  <2>11. ASSUME NEW j \in 1 .. Len(c) + 1, NEW l \in 1 .. Len(c) + 1, j <= l
         PROVE  q.events[d[j]].due <= q.events[d[l]].due
    <3> DEFINE u(a) == p.events[c[a]].due
               v(a) == q.events[d[a]].due
    <3>1. \A a, b \in 1 .. Len(c) : a <= b => u(a) <= u(b)
      BY DEF Sorted
    <3>2. \A a \in 1 .. Len(c) : u(a) \in Int
      BY <2>4
    <3>3. (\A a \in 1 .. k : u(a) <= w) /\ \A a \in k + 1 .. Len(c) : u(a) > w
      BY <2>2, <2>5
    <3>4. \A a \in 1 .. Len(c) + 1 :
            /\ a <= k => a \in 1 .. Len(c) /\ v(a) = u(a)
            /\ a = k + 1 => v(a) = w
            /\ a > k + 1 => a - 1 \in k + 1 .. Len(c) /\ a - 1 \in 1 .. Len(c) /\ v(a) = u(a - 1)
      BY <2>10
    <3> SUFFICES v(j) <= v(l)
      OBVIOUS
    <3> HIDE DEF u, v
    <3>5. CASE j <= k /\ l <= k
      BY <3>5, <3>1, <3>4, <2>11
    <3>6. CASE j <= k /\ l = k + 1
      BY <3>6, <3>3, <3>4
    <3>7. CASE j <= k /\ l > k + 1
      <4>1. u(j) <= w /\ u(l - 1) > w /\ v(j) = u(j) /\ v(l) = u(l - 1)
            /\ u(j) \in Int /\ u(l - 1) \in Int
        BY <3>7, <3>2, <3>3, <3>4
      <4> QED BY <4>1
    <3>8. CASE j = k + 1 /\ l = k + 1
      BY <3>8, <3>4
    <3>9. CASE j = k + 1 /\ l > k + 1
      <4>1. v(j) = w /\ u(l - 1) > w /\ v(l) = u(l - 1) /\ u(l - 1) \in Int
        BY <3>9, <3>2, <3>3, <3>4
      <4> QED BY <4>1
    <3>10. CASE j > k + 1 /\ l > k + 1
      <4>1. j - 1 \in 1 .. Len(c) /\ l - 1 \in 1 .. Len(c) /\ j - 1 <= l - 1
            /\ v(j) = u(j - 1) /\ v(l) = u(l - 1)
        BY <3>10, <3>4, <2>11
      <4> QED BY <4>1, <3>1
    <3> QED BY <3>5, <3>6, <3>7, <3>8, <3>9, <3>10, <2>1, <2>2, <2>11
  <2>12. Sorted(q, d)
    BY <2>8, <2>11 DEF Sorted
  <2> QED BY <1>2, <2>2, <2>3, <2>5, <2>12 DEF q, d, s
<1> QED BY <1>1, <1>2

-----------------------------------------------------------------------------
(* Killing events: the loop of sithCogFunction_KillTimerEx.                *)

\* The loop runs: Turns is the recursion it is defined by.
LEMMA TurnsAre ==
  ASSUME NEW p, NEW n
  PROVE  /\ Turns(p, n)[0] = [pool |-> p, b |-> Nil, s |-> p.list]
         /\ \A k \in 1 .. NumEvents : Turns(p, n)[k] = Passed(n, Turns(p, n)[k - 1])
<1> DEFINE a == [pool |-> p, b |-> Nil, s |-> p.list]
           P(t) == Passed(n, t)
           Is(m, f) == f = [k \in 0 .. m |-> IF k = 0 THEN a ELSE P(f[k - 1])]
           S == {m \in 0 .. NumEvents : \E f : Is(m, f)}
<1>1. NumEvents \in Nat
  BY EventsFacts
<1> HIDE DEF a, P
<1>2. 0 \in S
  <2> DEFINE g == [k \in 0 .. 0 |-> a]
  <2>1. g = [k \in 0 .. 0 |-> IF k = 0 THEN a ELSE P(g[k - 1])]
    OBVIOUS
  <2> HIDE DEF g
  <2>2. Is(0, g)
    BY <2>1
  <2> HIDE DEF Is
  <2> QED BY <1>1, <2>2
<1>3. ASSUME NEW m \in 0 .. NumEvents - 1, m \in S PROVE m + 1 \in S
  <2>1. PICK f : Is(m, f)
    BY <1>3
  <2> DEFINE g == [k \in 0 .. m + 1 |-> IF k = m + 1 THEN P(f[m]) ELSE f[k]]
             h == [k \in 0 .. m + 1 |-> IF k = 0 THEN a ELSE P(g[k - 1])]
  <2>2. ASSUME NEW k \in 0 .. m + 1 PROVE g[k] = IF k = 0 THEN a ELSE P(g[k - 1])
    <3>1. CASE k = m + 1
      <4>1. k - 1 = m /\ m \in 0 .. m + 1 /\ m # m + 1 /\ k # 0
        BY <3>1
      <4>2. g[m] = f[m] /\ g[k] = P(f[m])
        BY <3>1, <4>1
      <4> HIDE DEF g
      <4> QED BY <4>1, <4>2
    <3>2. CASE k # m + 1 /\ k # 0
      <4>1. k \in 0 .. m /\ k - 1 \in 0 .. m + 1 /\ k - 1 # m + 1
        BY <3>2
      <4>2. f[k] = P(f[k - 1])
        BY <2>1, <3>2, <4>1
      <4>3. g[k] = f[k] /\ g[k - 1] = f[k - 1]
        BY <3>2, <4>1
      <4> HIDE DEF g
      <4> QED BY <3>2, <4>2, <4>3
    <3>3. CASE k # m + 1 /\ k = 0
      <4>1. f[0] = a
        BY <2>1
      <4>2. g[k] = f[0]
        BY <3>3
      <4> QED BY <3>3, <4>1, <4>2
    <3> QED BY <3>1, <3>2, <3>3
  <2>3. g = [k \in 0 .. m + 1 |-> g[k]]
    OBVIOUS
  <2> HIDE DEF g
  <2>4. Is(m + 1, g)
    BY <2>2, <2>3
  <2> HIDE DEF Is
  <2> QED BY <1>1, <2>4
<1> HIDE DEF S
<1>4. 0 .. NumEvents \subseteq S
  BY <1>1, <1>2, <1>3, Climb
<1>5. NumEvents \in S
  BY <1>1, <1>4
<1>6. \E f : f = [k \in 0 .. NumEvents |-> IF k = 0 THEN a ELSE P(f[k - 1])]
  BY <1>5 DEF S
<1> DEFINE G == Turns(p, n)
<1>7. G = [k \in 0 .. NumEvents |-> IF k = 0 THEN a ELSE P(G[k - 1])]
  BY <1>6 DEF Turns, a, P
<1> HIDE DEF G
<1>8. G[0] = a
  BY <1>1, <1>7
<1>9. ASSUME NEW k \in 1 .. NumEvents PROVE G[k] = P(G[k - 1])
  <2>1. k \in 0 .. NumEvents /\ k # 0
    BY <1>1
  <2> QED BY <1>7, <2>1
<1> QED BY <1>8, <1>9 DEF G, a, P

\* What is left of c are the l of its places that f counts up.
Increasing(f, l) == \A j, k \in 1 .. l : j < k => f[j] < f[k]

Counts(f, l, a) == \E k \in 1 .. l : f[k] = a

\* If f counts up every place behind j, and its next one is j + 1, the one after is j + 2.
LEMMA NextKept ==
  ASSUME NEW l \in Nat, NEW n \in Nat, NEW f \in [1 .. l -> 1 .. n], Increasing(f, l),
         NEW j \in Nat, \A a \in 1 .. n : a > j => Counts(f, l, a),
         NEW m \in 0 .. l - 1, f[m + 1] = j + 1
  PROVE  /\ m + 2 <= l => f[m + 2] = j + 2
         /\ m + 1 = l => j + 1 >= n
<1>1. m + 1 \in 1 .. l /\ f[m + 1] \in 1 .. n
  OBVIOUS
<1>2. ASSUME j + 2 \in 1 .. n
      PROVE  \E k \in 1 .. l : f[k] = j + 2 /\ k > m + 1
  <2>1. PICK k \in 1 .. l : f[k] = j + 2
    <3>1. j + 2 > j
      OBVIOUS
    <3> QED BY <3>1, <1>2 DEF Counts
  <2>2. k # m + 1
    BY <2>1
  <2>3. ~(k < m + 1)
    <3>1. SUFFICES ASSUME k < m + 1 PROVE FALSE
      OBVIOUS
    <3>2. f[k] < f[m + 1]
      BY <3>1, <1>1 DEF Increasing
    <3> QED BY <3>2, <2>1
  <2> QED BY <2>1, <2>2, <2>3
<1>3. ASSUME m + 2 <= l PROVE f[m + 2] = j + 2
  <2>1. m + 2 \in 1 .. l /\ m + 1 < m + 2 /\ f[m + 2] \in 1 .. n
    BY <1>3
  <2>2. f[m + 1] < f[m + 2]
    BY <1>1, <2>1 DEF Increasing
  <2>3. j + 2 \in 1 .. n /\ f[m + 2] >= j + 2
    BY <2>1, <2>2
  <2>4. PICK k \in 1 .. l : f[k] = j + 2 /\ k > m + 1
    BY <1>2, <2>3
  <2>5. ~(m + 2 < k)
    <3>1. SUFFICES ASSUME m + 2 < k PROVE FALSE
      OBVIOUS
    <3>2. f[m + 2] < f[k]
      BY <3>1, <2>1 DEF Increasing
    <3> QED BY <3>2, <2>1, <2>3, <2>4
  <2>6. k = m + 2
    BY <2>4, <2>5
  <2> QED BY <2>4, <2>6
<1>4. ASSUME m + 1 = l PROVE j + 1 >= n
  <2>1. SUFFICES ASSUME j + 1 < n PROVE FALSE
    OBVIOUS
  <2>2. j + 2 \in 1 .. n
    BY <2>1
  <2>3. PICK k \in 1 .. l : f[k] = j + 2 /\ k > m + 1
    BY <1>2, <2>2
  <2> QED BY <1>4, <2>3
<1> QED BY <1>3, <1>4

\* After j turns: d is left of the list c, at the places f; m of the first j are in it, and
\* the loop is at the next.
TurnAt(p, c, X, n, j, t, d, f, m) ==
  /\ t = [pool |-> t.pool, b |-> t.b, s |-> t.s]
  /\ Sound(t.pool, d, X) /\ t.b = At(d, m) /\ t.s = At(d, m + 1)
  /\ Increasing(f, Len(d))
  /\ \A k \in 1 .. Len(d) :
       d[k] = c[f[k]] /\ Shown(t.pool.events[d[k]]) = Shown(p.events[c[f[k]]])
  /\ \A a \in 1 .. Len(c) : Counts(f, Len(d), a) <=> a > j \/ p.events[c[a]].name # n
  /\ m + 1 <= Len(d) => f[m + 1] = j + 1
  /\ m = Len(d) => j >= Len(c)

TurnOK(p, c, X, n, j, t) ==
  \E d \in Seq(Slots) : \E f \in [1 .. Len(d) -> 1 .. Len(c)], m \in 0 .. Len(d) :
     TurnAt(p, c, X, n, j, t, d, f, m)

\* One turn of the loop.
LEMMA TurnStep ==
  ASSUME NEW p, NEW c \in Seq(Slots), NEW X, NEW n, NEW j \in Nat, NEW t, TurnOK(p, c, X, n, j, t)
  PROVE  TurnOK(p, c, X, n, j + 1, Passed(n, t))
<1>1. PICK d \in Seq(Slots) : \E f \in [1 .. Len(d) -> 1 .. Len(c)], m \in 0 .. Len(d) :
        TurnAt(p, c, X, n, j, t, d, f, m)
  BY DEF TurnOK
<1>2. PICK f \in [1 .. Len(d) -> 1 .. Len(c)], m \in 0 .. Len(d) :
        TurnAt(p, c, X, n, j, t, d, f, m)
  BY <1>1
<1> DEFINE l == Len(d)
<1>3. /\ t = [pool |-> t.pool, b |-> t.b, s |-> t.s]
      /\ Sound(t.pool, d, X) /\ t.b = At(d, m) /\ t.s = At(d, m + 1)
      /\ Increasing(f, l)
      /\ \A k \in 1 .. l : d[k] = c[f[k]] /\ Shown(t.pool.events[d[k]]) = Shown(p.events[c[f[k]]])
      /\ \A a \in 1 .. Len(c) : Counts(f, l, a) <=> a > j \/ p.events[c[a]].name # n
      /\ m + 1 <= l => f[m + 1] = j + 1
      /\ m = l => j >= Len(c)
  BY <1>2 DEF TurnAt
<1>4. /\ l \in Nat /\ Len(c) \in Nat /\ m \in Nat /\ j + 1 \in Nat
      /\ t.pool \in PoolType /\ IsChain(t.pool, d) /\ X \in SUBSET Slots
      /\ \A k \in 1 .. l : d[k] \in Slots /\ d[k] # Nil
      /\ \A k \in 1 .. l : f[k] \in 1 .. Len(c)
  <2>1. t.pool \in PoolType /\ IsChain(t.pool, d) /\ X \in SUBSET Slots
    BY <1>3 DEF Sound
  <2>2. l \in Nat /\ \A k \in 1 .. l : d[k] \in Slots /\ d[k] # Nil
    BY <2>1, ChainFacts
  <2>3. /\ Len(c) \in Nat /\ m \in Nat /\ j + 1 \in Nat
        /\ \A k \in 1 .. l : f[k] \in 1 .. Len(c)
    BY <2>2
  <2> QED BY <2>1, <2>2, <2>3
<1>5. ASSUME NEW q, NEW e \in Seq(Slots), NEW g \in [1 .. Len(e) -> 1 .. Len(c)], NEW k \in 0 .. Len(e),
             TurnAt(p, c, X, n, j + 1, q, e, g, k)
      PROVE  TurnOK(p, c, X, n, j + 1, q)
  BY <1>5 DEF TurnOK
<1>6. CASE m = l
  <2>1. t.s = Nil
    <3>1. m + 1 \notin 1 .. l
      BY <1>4, <1>6
    <3> QED BY <3>1, <1>3 DEF At
  <2>2. Passed(n, t) = t
    BY <2>1 DEF Passed
  <2>3. j + 1 >= Len(c) /\ ~(m + 1 <= l)
    BY <1>3, <1>4, <1>6
  <2>4. \A a \in 1 .. Len(c) : a > j <=> a > j + 1
    BY <1>3, <1>4, <1>6
  <2>5. TurnAt(p, c, X, n, j + 1, t, d, f, m)
    <3> HIDE DEF l
    <3>1. \A a \in 1 .. Len(c) : Counts(f, l, a) <=> a > j + 1 \/ p.events[c[a]].name # n
      BY <1>3, <2>4
    <3> QED BY <3>1, <1>3, <2>3 DEF TurnAt, l
  <2> QED BY <2>2, <2>5, <1>5
<1>7. CASE m # l
  <2> DEFINE s == d[m + 1]
             v == At(d, m + 2)
             r == t.pool
  <2>1. /\ m + 1 \in 1 .. l /\ m \in 0 .. l - 1 /\ s \in Slots /\ s # Nil /\ t.s = s
        /\ f[m + 1] = j + 1 /\ j + 1 \in 1 .. Len(c) /\ s = c[j + 1]
    <3>1. m + 1 \in 1 .. l /\ m \in 0 .. l - 1
      BY <1>4, <1>7
    <3>2. f[m + 1] = j + 1 /\ f[m + 1] \in 1 .. Len(c)
      BY <3>1, <1>3, <1>4
    <3> QED BY <3>1, <3>2, <1>3, <1>4 DEF At
  <2>2. r.events[s].next = v /\ r.events[s].name = p.events[s].name
    <3>1. r.events[d[m + 1]].next = At(d, (m + 1) + 1) /\ (m + 1) + 1 = m + 2
      BY <1>4, <2>1 DEF IsChain
    <3>2. Shown(r.events[s]) = Shown(p.events[s])
      BY <1>3, <2>1
    <3> HIDE DEF s, v
    <3>3. r.events[s].name = p.events[s].name
      BY <3>2 DEF Shown
    <3> QED BY <3>1, <3>3 DEF s, v
  <2>3. /\ m + 2 <= l => f[m + 2] = j + 2
        /\ m + 1 = l => j + 1 >= Len(c)
    <3>1. \A a \in 1 .. Len(c) : a > j => Counts(f, l, a)
      BY <1>3
    <3>2. f \in [1 .. l -> 1 .. Len(c)]
      OBVIOUS
    <3> HIDE DEF l
    <3> QED BY <3>1, <3>2, <1>3, <1>4, <2>1, NextKept
  <2> HIDE DEF v, r
  <2>4. CASE r.events[s].name # n
    <3> DEFINE q == [pool |-> t.pool, b |-> s, s |-> v]
    <3>1. Passed(n, t) = q
      BY <2>1, <2>2, <2>4 DEF Passed, r
    <3>2. q.pool = t.pool /\ q.b = s /\ q.s = v /\ q = [pool |-> q.pool, b |-> q.b, s |-> q.s]
      OBVIOUS
    <3> HIDE DEF q
    <3>3. q.b = At(d, m + 1) /\ q.s = At(d, (m + 1) + 1)
      <4>1. (m + 1) + 1 = m + 2
        BY <1>4
      <4> QED BY <3>2, <4>1, <2>1 DEF At, v
    <3>4. ASSUME NEW a \in 1 .. Len(c)
          PROVE  Counts(f, l, a) <=> a > j + 1 \/ p.events[c[a]].name # n
      <4>1. CASE a = j + 1
        <5>1. p.events[c[a]].name # n
          BY <2>1, <2>2, <2>4, <4>1
        <5> QED BY <5>1, <1>3
      <4>2. CASE a # j + 1
        <5>1. a > j <=> a > j + 1
          BY <4>2
        <5> QED BY <5>1, <1>3
      <4> QED BY <4>1, <4>2
    <3>5. m + 1 \in 0 .. l
      BY <1>4, <2>1
    <3>6. (m + 1) + 1 <= l => f[(m + 1) + 1] = (j + 1) + 1
      BY <1>4, <2>3
    <3>7. TurnAt(p, c, X, n, j + 1, q, d, f, m + 1)
      BY <1>3, <2>3, <3>2, <3>3, <3>4, <3>6 DEF TurnAt
    <3> QED BY <3>1, <3>5, <3>7, <1>5
  <2>5. CASE r.events[s].name = n
    <3> DEFINE u == Unlinked(r, t.b, v)
               z == Killed(u, s)
               q == [pool |-> z, b |-> t.b, s |-> v]
               e == Without(d, m + 1)
               g == Without(f, m + 1)
    <3>1. Passed(n, t) = q
      BY <2>1, <2>2, <2>5 DEF Passed, r
    <3>2. q.pool = z /\ q.b = t.b /\ q.s = v /\ q = [pool |-> q.pool, b |-> q.b, s |-> q.s]
      OBVIOUS
    <3>3. (m + 1) - 1 = m /\ (m + 1) + 1 = m + 2 /\ Sound(r, d, X)
      BY <1>3, <1>4 DEF r
    <3>4. LET y == Killed(Unlinked(r, At(d, (m + 1) - 1), At(d, (m + 1) + 1)), d[m + 1])
          IN  /\ Sound(y, Without(d, m + 1), X)
              /\ \A o \in Slots : o # d[m + 1] => Shown(y.events[o]) = Shown(r.events[o])
      BY <3>3, <2>1, RemovedSound
    <3>5. Sound(z, e, X) /\ \A y \in Slots : y # s => Shown(z.events[y]) = Shown(r.events[y])
      BY <3>3, <3>4, <1>3 DEF v
    <3>6. /\ e \in Seq(Slots) /\ Len(e) = l - 1 /\ l - 1 \in Nat
          /\ \A k \in 1 .. l - 1 : e[k] = IF k < m + 1 THEN d[k] ELSE d[k + 1]
      <4>1. /\ e \in Seq(Slots) /\ Len(e) = l - 1
            /\ \A k \in 1 .. l - 1 : e[k] = IF k < m + 1 THEN d[k] ELSE d[k + 1]
        BY <2>1, WithoutFacts
      <4>2. l - 1 \in Nat
        BY <1>4, <2>1
      <4> QED BY <4>1, <4>2
    <3>7. /\ g \in [1 .. Len(e) -> 1 .. Len(c)]
          /\ \A k \in 1 .. l - 1 : g[k] = IF k < m + 1 THEN f[k] ELSE f[k + 1]
      <4>1. f \in Seq(1 .. Len(c)) /\ Len(f) = l
        BY <1>4
      <4>2. /\ g \in Seq(1 .. Len(c)) /\ Len(g) = l - 1
            /\ \A k \in 1 .. l - 1 : g[k] = IF k < m + 1 THEN f[k] ELSE f[k + 1]
        <5>1. m + 1 \in 1 .. Len(f)
          BY <2>1, <4>1
        <5>2. /\ g \in Seq(1 .. Len(c)) /\ Len(g) = Len(f) - 1
              /\ \A k \in 1 .. Len(f) - 1 : g[k] = IF k < m + 1 THEN f[k] ELSE f[k + 1]
          BY <4>1, <5>1, WithoutFacts
        <5> HIDE DEF g, l
        <5> QED BY <4>1, <5>2
      <4> HIDE DEF g, e
      <4> QED BY <3>6, <4>2
    <3> HIDE DEF e, g, z, q
    <3>8. \A k \in 1 .. l - 1 : k \in 1 .. l /\ k + 1 \in 1 .. l
      BY <1>4
    <3>9. \A k \in 1 .. Len(e) :
            e[k] = c[g[k]] /\ Shown(z.events[e[k]]) = Shown(p.events[c[g[k]]])
      <4> TAKE k \in 1 .. Len(e)
      <4> DEFINE i1 == IF k < m + 1 THEN k ELSE k + 1
      <4>1. k \in 1 .. l - 1 /\ i1 \in 1 .. l /\ i1 # m + 1
        BY <3>6, <3>8, <1>4
      <4>2. e[k] = d[i1] /\ g[k] = f[i1]
        BY <4>1, <3>6, <3>7
      <4> HIDE DEF i1
      <4>3. d[i1] # s /\ d[i1] \in Slots
        BY <4>1, <2>1, <1>4 DEF IsChain
      <4>4. Shown(z.events[d[i1]]) = Shown(r.events[d[i1]])
        BY <4>3, <3>5
      <4>5. d[i1] = c[f[i1]] /\ Shown(r.events[d[i1]]) = Shown(p.events[c[f[i1]]])
        BY <4>1, <1>3 DEF r
      <4> QED BY <4>2, <4>4, <4>5
    <3>10. Increasing(g, Len(e))
      <4> SUFFICES ASSUME NEW a \in 1 .. Len(e), NEW b \in 1 .. Len(e), a < b
                   PROVE  g[a] < g[b]
        BY DEF Increasing
      <4> DEFINE I(k) == IF k < m + 1 THEN k ELSE k + 1
      <4>1. a \in 1 .. l - 1 /\ b \in 1 .. l - 1 /\ I(a) \in 1 .. l /\ I(b) \in 1 .. l /\ I(a) < I(b)
        BY <3>6, <3>8, <1>4
      <4>2. g[a] = f[I(a)] /\ g[b] = f[I(b)]
        BY <4>1, <3>7
      <4> HIDE DEF I
      <4> QED BY <4>1, <4>2, <1>3 DEF Increasing
    <3>11. ASSUME NEW a \in 1 .. Len(c)
           PROVE  Counts(g, Len(e), a) <=> Counts(f, l, a) /\ a # j + 1
      <4>1. ASSUME Counts(g, Len(e), a) PROVE Counts(f, l, a) /\ a # j + 1
        <5>1. PICK k \in 1 .. l - 1 : g[k] = a
          BY <4>1, <3>6 DEF Counts
        <5> DEFINE i1 == IF k < m + 1 THEN k ELSE k + 1
        <5>2. i1 \in 1 .. l /\ (i1 < m + 1 \/ m + 1 < i1) /\ g[k] = f[i1]
          BY <3>7, <3>8, <1>4
        <5> HIDE DEF i1
        <5>3. f[i1] < f[m + 1] \/ f[m + 1] < f[i1]
          BY <5>2, <2>1, <1>3 DEF Increasing
        <5>4. f[i1] # j + 1
          BY <5>2, <5>3, <2>1, <1>4
        <5> QED BY <5>1, <5>2, <5>4 DEF Counts
      <4>2. ASSUME Counts(f, l, a), a # j + 1 PROVE Counts(g, Len(e), a)
        <5>1. PICK k \in 1 .. l : f[k] = a
          BY <4>2 DEF Counts
        <5>2. k # m + 1
          BY <5>1, <4>2, <2>1
        <5>3. CASE k < m + 1
          <6>1. k \in 1 .. l - 1 /\ g[k] = a
            BY <5>1, <5>3, <2>1, <1>4, <3>7
          <6> QED BY <6>1, <3>6 DEF Counts
        <5>4. CASE k > m + 1
          <6>1. k - 1 \in 1 .. l - 1 /\ ~(k - 1 < m + 1) /\ (k - 1) + 1 = k
            BY <5>4, <2>1, <1>4
          <6>2. g[k - 1] = a
            BY <5>1, <6>1, <3>7
          <6> QED BY <6>1, <6>2, <3>6 DEF Counts
        <5> QED BY <5>2, <5>3, <5>4, <1>4
      <4> QED BY <4>1, <4>2
    <3>12. ASSUME NEW a \in 1 .. Len(c)
           PROVE  Counts(g, Len(e), a) <=> a > j + 1 \/ p.events[c[a]].name # n
      <4>1. CASE a = j + 1
        <5>1. p.events[c[a]].name = n
          BY <2>1, <2>2, <2>5, <4>1
        <5>2. ~(a > j + 1)
          BY <4>1
        <5> QED BY <5>1, <5>2, <3>11, <4>1
      <4>2. CASE a # j + 1
        <5>1. a > j <=> a > j + 1
          BY <4>2
        <5> QED BY <5>1, <3>11, <4>2, <1>3
      <4> QED BY <4>1, <4>2
    <3>13. q.b = At(e, m) /\ q.s = At(e, m + 1)
      <4>1. At(e, m) = At(d, m)
        <5>1. m \in 1 .. l - 1 <=> m \in 1 .. l
          BY <1>4, <2>1
        <5>2. m \in 1 .. l - 1 => e[m] = d[m]
          BY <1>4, <3>6
        <5> QED BY <5>1, <5>2, <3>6 DEF At
      <4>2. At(e, m + 1) = At(d, m + 2)
        <5>1. m + 1 \in 1 .. l - 1 <=> m + 2 \in 1 .. l
          BY <1>4, <2>1
        <5>2. m + 1 \in 1 .. l - 1 => e[m + 1] = d[(m + 1) + 1]
          BY <1>4, <3>6
        <5>3. (m + 1) + 1 = m + 2
          BY <1>4
        <5> QED BY <5>1, <5>2, <5>3, <3>6 DEF At
      <4> QED BY <4>1, <4>2, <3>2, <1>3 DEF v
    <3>14. m + 1 <= Len(e) => g[m + 1] = (j + 1) + 1
      <4>1. SUFFICES ASSUME m + 1 <= Len(e) PROVE g[m + 1] = (j + 1) + 1
        OBVIOUS
      <4>2. m + 1 \in 1 .. l - 1 /\ m + 2 <= l /\ (m + 1) + 1 = m + 2 /\ ~(m + 1 < m + 1)
        BY <4>1, <3>6, <1>4
      <4> QED BY <4>2, <3>7, <2>3
    <3>15. m = Len(e) => j + 1 >= Len(c)
      BY <3>6, <2>3, <1>4
    <3>16. m \in 0 .. Len(e)
      BY <3>6, <2>1, <1>4
    <3>17. TurnAt(p, c, X, n, j + 1, q, e, g, m)
      BY <3>2, <3>5, <3>9, <3>10, <3>12, <3>13, <3>14, <3>15 DEF TurnAt
    <3> QED BY <3>1, <3>6, <3>7, <3>16, <3>17, <1>5
  <2> QED BY <2>4, <2>5
<1> QED BY <1>6, <1>7

\* The list of the pool q is what the list c of p has of other names than n, as it was.
KeepsOthers(p, c, X, n, q) ==
  \E d \in Seq(Slots) : \E f \in [1 .. Len(d) -> 1 .. Len(c)] :
     /\ Sound(q, d, X) /\ Sorted(q, d) /\ Increasing(f, Len(d))
     /\ \A k \in 1 .. Len(d) :
          d[k] = c[f[k]] /\ Shown(q.events[d[k]]) = Shown(p.events[c[f[k]]])
     /\ \A a \in 1 .. Len(c) : Counts(f, Len(d), a) <=> p.events[c[a]].name # n

\* The events of that name are gone, the others are as they were.
LEMMA KillFacts ==
  ASSUME NEW p, NEW c, NEW X, Sound(p, c, X), Sorted(p, c), NEW n
  PROVE  KeepsOthers(p, c, X, n, WithoutEvents(p, n))
<1> DEFINE t(k) == Turns(p, n)[k]
           S == {k \in 0 .. NumEvents : TurnOK(p, c, X, n, k, t(k))}
<1>1. /\ NumEvents \in Nat /\ c \in Seq(Slots) /\ Len(c) \in Nat /\ Len(c) <= NumEvents
      /\ IsChain(p, c) /\ Placed(p, c, X)
  BY EventsFacts, ChainFacts, ChainOfSound DEF Sound
<1>2. 0 \in S
  <2> DEFINE f == [k \in 1 .. Len(c) |-> k]
             u == [pool |-> p, b |-> Nil, s |-> p.list]
  <2>1. t(0) = u
    BY TurnsAre
  <2>2. u.pool = p /\ u.b = Nil /\ u.s = p.list /\ u = [pool |-> u.pool, b |-> u.b, s |-> u.s]
    OBVIOUS
  <2>3. f \in [1 .. Len(c) -> 1 .. Len(c)] /\ \A k \in 1 .. Len(c) : f[k] = k
    OBVIOUS
  <2> HIDE DEF u, f, t
  <2>4. u.b = At(c, 0) /\ u.s = At(c, 0 + 1)
    BY <2>2, <1>1 DEF IsChain, At
  <2>5. Increasing(f, Len(c))
    BY <2>3 DEF Increasing
  <2>6. \A a \in 1 .. Len(c) : Counts(f, Len(c), a) <=> a > 0 \/ p.events[c[a]].name # n
    BY <2>3 DEF Counts
  <2>7. /\ 0 + 1 <= Len(c) => f[0 + 1] = 0 + 1
        /\ 0 = Len(c) => 0 >= Len(c)
        /\ 0 \in 0 .. Len(c)
    BY <2>3, <1>1
  <2>8. TurnAt(p, c, X, n, 0, u, c, f, 0)
    BY <2>2, <2>3, <2>4, <2>5, <2>6, <2>7 DEF TurnAt
  <2>9. TurnOK(p, c, X, n, 0, u)
    BY <2>3, <2>7, <2>8, <1>1 DEF TurnOK
  <2>10. 0 \in 0 .. NumEvents
    BY <1>1
  <2> QED BY <2>1, <2>9, <2>10
<1>3. ASSUME NEW k \in 0 .. NumEvents - 1, k \in S PROVE k + 1 \in S
  <2>1. k + 1 \in 1 .. NumEvents /\ k \in Nat /\ (k + 1) - 1 = k /\ k + 1 \in 0 .. NumEvents
    BY <1>1
  <2>2. t(k + 1) = Passed(n, t(k))
    <3>1. Turns(p, n)[k + 1] = Passed(n, Turns(p, n)[(k + 1) - 1])
      BY <2>1, TurnsAre
    <3> QED BY <3>1, <2>1
  <2> HIDE DEF t
  <2>3. TurnOK(p, c, X, n, k, t(k))
    BY <1>3
  <2>4. TurnOK(p, c, X, n, k + 1, Passed(n, t(k)))
    BY <1>1, <2>1, <2>3, TurnStep
  <2> QED BY <2>1, <2>2, <2>4
<1>4. NumEvents \in S
  <2> HIDE DEF S
  <2>1. 0 .. NumEvents \subseteq S
    BY <1>1, <1>2, <1>3, Climb
  <2> QED BY <1>1, <2>1
<1> DEFINE e == t(NumEvents)
<1>5. WithoutEvents(p, n) = e.pool
  BY DEF WithoutEvents
<1>6. TurnOK(p, c, X, n, NumEvents, e)
  BY <1>4
<1> HIDE DEF e
<1>7. PICK d \in Seq(Slots) : \E f \in [1 .. Len(d) -> 1 .. Len(c)], m \in 0 .. Len(d) :
        TurnAt(p, c, X, n, NumEvents, e, d, f, m)
  BY <1>6 DEF TurnOK
<1>8. PICK f \in [1 .. Len(d) -> 1 .. Len(c)], m \in 0 .. Len(d) :
        TurnAt(p, c, X, n, NumEvents, e, d, f, m)
  BY <1>7
<1>9. /\ Sound(e.pool, d, X) /\ Increasing(f, Len(d))
      /\ \A k \in 1 .. Len(d) :
           d[k] = c[f[k]] /\ Shown(e.pool.events[d[k]]) = Shown(p.events[c[f[k]]])
      /\ \A a \in 1 .. Len(c) : Counts(f, Len(d), a) <=> a > NumEvents \/ p.events[c[a]].name # n
  BY <1>8 DEF TurnAt
<1>10. \A a \in 1 .. Len(c) : ~(a > NumEvents)
  BY <1>1
<1>11. Sorted(e.pool, d)
  <2>1. \A k \in 1 .. Len(d) : e.pool.events[d[k]].due = p.events[c[f[k]]].due /\ f[k] \in 1 .. Len(c)
    BY <1>9 DEF Shown
  <2>2. \A j, k \in 1 .. Len(d) : j <= k => f[j] <= f[k]
    <3> TAKE j \in 1 .. Len(d), k \in 1 .. Len(d)
    <3>1. j < k => f[j] < f[k]
      BY <1>9 DEF Increasing
    <3>2. f[j] \in 1 .. Len(c) /\ f[k] \in 1 .. Len(c)
      BY <2>1
    <3>3. j \in Int /\ k \in Int
      OBVIOUS
    <3> QED BY <3>1, <3>2, <3>3
  <2>3. ASSUME NEW j \in 1 .. Len(d), NEW k \in 1 .. Len(d), j <= k
        PROVE  e.pool.events[d[j]].due <= e.pool.events[d[k]].due
    <3>1. p.events[c[f[j]]].due <= p.events[c[f[k]]].due
      BY <2>1, <2>2, <2>3 DEF Sorted
    <3> QED BY <2>1, <3>1
  <2> QED BY <2>3 DEF Sorted
<1>12. \A a \in 1 .. Len(c) : Counts(f, Len(d), a) <=> p.events[c[a]].name # n
  BY <1>9, <1>10
<1>13. KeepsOthers(p, c, X, n, e.pool)
  <2>1. \E g \in [1 .. Len(d) -> 1 .. Len(c)] :
           /\ Sound(e.pool, d, X) /\ Sorted(e.pool, d) /\ Increasing(g, Len(d))
           /\ \A k \in 1 .. Len(d) :
                d[k] = c[g[k]] /\ Shown(e.pool.events[d[k]]) = Shown(p.events[c[g[k]]])
           /\ \A a \in 1 .. Len(c) : Counts(g, Len(d), a) <=> p.events[c[a]].name # n
    BY <1>9, <1>11, <1>12
  <2> QED BY <2>1 DEF KeepsOthers
<1> QED BY <1>5, <1>13

-----------------------------------------------------------------------------
(* A saved game is loaded.                                                 *)

SavedEvent == [due : Int, name : Names \cup {NoName}]

InOrder(es) == \A j, k \in 1 .. Len(es) : j <= k => es[j].due <= es[k].due

\* Restored is the recursion it is defined by.
LEMMA RestoredAre ==
  ASSUME NEW es \in Seq(SavedEvent)
  PROVE  /\ Restored(es)[0] = EmptyPool
         /\ \A k \in 1 .. Len(es) :
              Restored(es)[k] = WithEvent(Restored(es)[k - 1], es[k].name, es[k].due)
<1> DEFINE a == EmptyPool
           l == Len(es)
           P(t, k) == WithEvent(t, es[k].name, es[k].due)
           Is(m, f) == f = [k \in 0 .. m |-> IF k = 0 THEN a ELSE P(f[k - 1], k)]
           S == {m \in 0 .. l : \E f : Is(m, f)}
<1>1. l \in Nat
  OBVIOUS
<1> HIDE DEF a, P, l
<1>2. 0 \in S
  <2> DEFINE g == [k \in 0 .. 0 |-> a]
  <2>1. g = [k \in 0 .. 0 |-> IF k = 0 THEN a ELSE P(g[k - 1], k)]
    OBVIOUS
  <2> HIDE DEF g
  <2>2. Is(0, g)
    BY <2>1
  <2> HIDE DEF Is
  <2> QED BY <1>1, <2>2
<1>3. ASSUME NEW m \in 0 .. l - 1, m \in S PROVE m + 1 \in S
  <2>1. PICK f : Is(m, f)
    BY <1>3
  <2> DEFINE g == [k \in 0 .. m + 1 |-> IF k = m + 1 THEN P(f[m], m + 1) ELSE f[k]]
  <2>2. ASSUME NEW k \in 0 .. m + 1 PROVE g[k] = IF k = 0 THEN a ELSE P(g[k - 1], k)
    <3>1. CASE k = m + 1
      <4>1. k - 1 = m /\ m \in 0 .. m + 1 /\ m # m + 1 /\ k # 0
        BY <3>1
      <4>2. g[m] = f[m] /\ g[k] = P(f[m], m + 1)
        BY <3>1, <4>1
      <4> HIDE DEF g
      <4> QED BY <3>1, <4>1, <4>2
    <3>2. CASE k # m + 1 /\ k # 0
      <4>1. k \in 0 .. m /\ k - 1 \in 0 .. m + 1 /\ k - 1 # m + 1
        BY <3>2
      <4>2. f[k] = P(f[k - 1], k)
        BY <2>1, <3>2, <4>1
      <4>3. g[k] = f[k] /\ g[k - 1] = f[k - 1]
        BY <3>2, <4>1
      <4> HIDE DEF g
      <4> QED BY <3>2, <4>2, <4>3
    <3>3. CASE k # m + 1 /\ k = 0
      <4>1. f[0] = a
        BY <2>1
      <4>2. g[k] = f[0]
        BY <3>3
      <4> QED BY <3>3, <4>1, <4>2
    <3> QED BY <3>1, <3>2, <3>3
  <2>3. g = [k \in 0 .. m + 1 |-> g[k]]
    OBVIOUS
  <2> HIDE DEF g
  <2>4. Is(m + 1, g)
    BY <2>2, <2>3
  <2> HIDE DEF Is
  <2> QED BY <1>1, <2>4
<1> HIDE DEF S
<1>4. 0 .. l \subseteq S
  BY <1>1, <1>2, <1>3, Climb
<1>5. l \in S
  BY <1>1, <1>4
<1>6. \E f : f = [k \in 0 .. l |-> IF k = 0 THEN a ELSE P(f[k - 1], k)]
  BY <1>5 DEF S
<1> DEFINE G == Restored(es)
<1>7. G = [k \in 0 .. l |-> IF k = 0 THEN a ELSE P(G[k - 1], k)]
  BY <1>6 DEF Restored, a, P, l
<1> HIDE DEF G
<1>8. G[0] = a
  BY <1>1, <1>7
<1>9. ASSUME NEW k \in 1 .. l PROVE G[k] = P(G[k - 1], k)
  <2>1. k \in 0 .. l /\ k # 0
    BY <1>1
  <2> QED BY <1>7, <2>1
<1> QED BY <1>8, <1>9 DEF G, a, P, l

\* sithEvent_Reset leaves a sound pool.
LEMMA EmptySound == Sound(EmptyPool, <<>>, {}) /\ Sorted(EmptyPool, <<>>)
<1> DEFINE p == EmptyPool
<1>1. /\ p.events = [s \in Slots |-> Wiped] /\ p.list = Nil /\ p.numFree = NumEvents
      /\ p.lut = [k \in Slots |-> NumEvents - 1 - k]
      /\ p = [events |-> p.events, list |-> p.list, lut |-> p.lut, numFree |-> p.numFree]
  BY DEF EmptyPool
<1> HIDE DEF p
<1>2. NumEvents \in Nat /\ NumEvents > 0
  BY EventsFacts
<1>3. Wiped \in Event
  BY DEF Wiped, Event, Ends
<1>4. \A k \in Slots : k \in 0 .. p.numFree - 1 /\ NumEvents - 1 - k \in Slots
  BY <1>1, <1>2 DEF Slots
<1>5. p \in PoolType
  <2>1. p.events \in [Slots -> Event]
    BY <1>1, <1>3
  <2>2. p.lut \in [Slots -> Slots]
    BY <1>1, <1>4
  <2>3. p.list \in Ends /\ p.numFree \in 0 .. NumEvents
    BY <1>1, <1>2 DEF Ends
  <2> QED BY <1>1, <2>1, <2>2, <2>3 DEF PoolType
<1>6. Len(<<>>) = 0 /\ <<>> \in Seq(Slots) /\ \A k : k \notin 1 .. Len(<<>>)
  OBVIOUS
<1>7. IsChain(p, <<>>)
  BY <1>1, <1>6 DEF IsChain, At
<1>8. \A k \in 0 .. p.numFree - 1 : k \in Slots /\ p.lut[k] = NumEvents - 1 - k
  BY <1>1, <1>2 DEF Slots
<1>9. StackOnce(p)
  BY <1>2, <1>8 DEF StackOnce, Slots
<1>10. ASSUME NEW s \in Slots PROVE InFree(p, s)
  <2>1. /\ NumEvents - 1 - s \in Slots /\ NumEvents - 1 - s \in 0 .. p.numFree - 1
        /\ NumEvents - 1 - (NumEvents - 1 - s) = s
    BY <1>1, <1>2 DEF Slots
  <2>2. p.lut[NumEvents - 1 - s] = s
    BY <1>8, <2>1
  <2> QED BY <2>1, <2>2 DEF InFree
<1>11. Placed(p, <<>>, {})
  BY <1>6, <1>10 DEF Placed, InList
<1>12. Counted(p, <<>>, {})
  BY <1>1, <1>2, <1>6, FS_EmptySet DEF Counted
<1>13. Sorted(p, <<>>)
  BY <1>6 DEF Sorted
<1>14. {} \in SUBSET Slots
  OBVIOUS
<1> QED BY <1>5, <1>7, <1>9, <1>11, <1>12, <1>13, <1>14 DEF Sound, p

\* The events of a saved game, in order and no more than there are slots, are all set.
LEMMA RestoredFacts ==
  ASSUME NEW es \in Seq(SavedEvent), InOrder(es), Len(es) <= NumEvents
  PROVE  LET q == Restored(es)[Len(es)]
         IN  \E d \in Seq(Slots) :
                /\ Sound(q, d, {}) /\ Sorted(q, d) /\ Len(d) = Len(es)
                /\ \A k \in 1 .. Len(es) : Shown(q.events[d[k]]) = es[k]
<1> DEFINE l == Len(es)
           r(k) == Restored(es)[k]
           OK(k, q, d) == /\ Sound(q, d, {}) /\ Sorted(q, d) /\ Len(d) = k
                          /\ \A j \in 1 .. k : Shown(q.events[d[j]]) = es[j]
           S == {k \in 0 .. l : \E d \in Seq(Slots) : OK(k, r(k), d)}
<1>1. /\ l \in Nat /\ NumEvents \in Nat /\ l <= NumEvents
      /\ \A k \in 1 .. l : /\ es[k] \in SavedEvent /\ es[k].due \in Int
                           /\ es[k].name \in Names \cup {NoName}
                           /\ es[k] = [due |-> es[k].due, name |-> es[k].name]
  <2>1. \A k \in 1 .. l : es[k] \in SavedEvent
    OBVIOUS
  <2> QED BY <2>1, EventsFacts DEF SavedEvent
<1>2. 0 \in S
  <2>1. r(0) = EmptyPool
    BY RestoredAre
  <2>2. OK(0, EmptyPool, <<>>)
    BY EmptySound
  <2>3. <<>> \in Seq(Slots)
    OBVIOUS
  <2> HIDE DEF OK, r
  <2>4. \E d \in Seq(Slots) : OK(0, r(0), d)
    BY <2>1, <2>2, <2>3
  <2>5. 0 \in 0 .. l
    BY <1>1
  <2> QED BY <2>4, <2>5
<1>3. ASSUME NEW k \in 0 .. l - 1, k \in S PROVE k + 1 \in S
  <2> DEFINE p == r(k)
             n == es[k + 1].name
             w == es[k + 1].due
             q == WithEvent(p, n, w)
  <2>1. PICK c \in Seq(Slots) : OK(k, p, c)
    BY <1>3
  <2>2. /\ k + 1 \in 1 .. l /\ (k + 1) - 1 = k /\ k + 1 \in 0 .. l /\ k \in Nat
        /\ n \in Names \cup {NoName} /\ w \in Int /\ es[k + 1] = [due |-> w, name |-> n]
    BY <1>1
  <2>3. r(k + 1) = q
    <3>1. Restored(es)[k + 1] =
            WithEvent(Restored(es)[(k + 1) - 1], es[k + 1].name, es[k + 1].due)
      BY <2>2, RestoredAre
    <3> QED BY <3>1, <2>2
  <2>4. /\ Sound(p, c, {}) /\ Sorted(p, c) /\ Len(c) = k
        /\ \A j \in 1 .. k : Shown(p.events[c[j]]) = es[j]
    BY <2>1
  <2> HIDE DEF p, n, w, r
  <2>5. p.numFree # 0
    <3>1. p.numFree + Len(c) + Cardinality({}) = NumEvents /\ p \in PoolType
      BY <2>4 DEF Sound, Counted
    <3>2. p.numFree \in Nat /\ Cardinality({}) = 0
      BY <3>1, PoolFacts, FS_EmptySet
    <3> QED BY <3>1, <3>2, <2>2, <2>4, <1>1
  <2>6. PICK m \in 0 .. Len(c) :
          /\ q = Linked(p, c, m, n, w)
          /\ \A j \in 1 .. m : p.events[c[j]].due <= w
          /\ \A j \in m + 1 .. Len(c) : p.events[c[j]].due > w
          /\ Sorted(q, With(c, m, p.lut[p.numFree - 1]))
    BY <2>2, <2>4, <2>5, WithEventFacts
  <2>7. m = k
    <3>1. SUFFICES ASSUME m # k PROVE FALSE
      OBVIOUS
    <3>2. m + 1 \in m + 1 .. Len(c) /\ m + 1 \in 1 .. k /\ m + 1 \in 1 .. l /\ m + 1 <= k + 1
      BY <3>1, <2>2, <2>4, <1>1
    <3>3. p.events[c[m + 1]].due > w /\ p.events[c[m + 1]].due = es[m + 1].due
      <4> DEFINE x == p.events[c[m + 1]]
      <4>1. x.due > w
        BY <3>2, <2>6
      <4>2. Shown(x) = es[m + 1]
        BY <3>2, <2>4
      <4>3. Shown(x).due = x.due
        BY DEF Shown
      <4> HIDE DEF x
      <4>4. x.due = es[m + 1].due
        BY <4>2, <4>3
      <4> QED BY <4>1, <4>4 DEF x
    <3>4. es[m + 1].due <= es[k + 1].due
      BY <3>2, <2>2 DEF InOrder
    <3>5. es[m + 1].due \in Int /\ w \in Int /\ es[k + 1].due = w
      BY <3>2, <2>2, <1>1 DEF w
    <3>6. es[m + 1].due > w /\ es[m + 1].due <= w
      BY <3>3, <3>4, <3>5
    <3> QED BY <3>5, <3>6
  <2> DEFINE s == p.lut[p.numFree - 1]
             d == With(c, k, s)
  <2>8. /\ Sound(q, d, {})
        /\ s \in Slots /\ ~InList(c, s) /\ Shown(q.events[s]) = [due |-> w, name |-> n]
        /\ \A t \in Slots : t # s => Shown(q.events[t]) = Shown(p.events[t])
    <3>1. k \in 0 .. Len(c)
      BY <2>2, <2>4
    <3>2. Sound(p, c, {}) /\ p.numFree # 0 /\ q = Linked(p, c, k, n, w)
      BY <2>4, <2>5, <2>6, <2>7
    <3>3. n \in Names \cup {NoName} /\ w \in Int
      BY <2>2
    <3> DEFINE u == Linked(p, c, k, n, w)
    <3>4. u = q /\ s = p.lut[p.numFree - 1] /\ d = With(c, k, s)
      BY <3>2
    <3>5. /\ Sound(p, c, {}) /\ p.numFree # 0 /\ k \in 0 .. Len(c)
          /\ n \in Names \cup {NoName} /\ w \in Int
      BY <3>1, <3>2, <3>3
    <3> HIDE DEF u, q, d, s
    <3>6. HasBehind(p, c, {}, k, p.lut[p.numFree - 1], n, w, Linked(p, c, k, n, w))
      BY ONLY <3>5, LinkedSound
    <3>7. HasBehind(p, c, {}, k, s, n, w, q)
      BY ONLY <3>4, <3>6 DEF u
    <3> QED BY ONLY <3>4, <3>7 DEF HasBehind
  <2>9. /\ d \in Seq(Slots) /\ Len(d) = k + 1
        /\ \A j \in 1 .. k + 1 : d[j] = IF j <= k THEN c[j] ELSE IF j = k + 1 THEN s ELSE c[j - 1]
    <3>1. k \in 0 .. Len(c) /\ s \in Slots
      BY <2>2, <2>4, <2>8
    <3>2. /\ d \in Seq(Slots) /\ Len(d) = Len(c) + 1
          /\ \A j \in 1 .. Len(c) + 1 :
               d[j] = IF j <= k THEN c[j] ELSE IF j = k + 1 THEN s ELSE c[j - 1]
      <4> HIDE DEF s
      <4>1. c \in Seq(Slots) /\ k \in 0 .. Len(c) /\ s \in Slots
        BY <3>1
      <4> QED BY ONLY <4>1, WithFacts
    <3> HIDE DEF d, s
    <3> QED BY <3>2, <2>4
  <2>10. Sorted(q, d)
    BY <2>6, <2>7
  <2> HIDE DEF q, d, s
  <2>11. ASSUME NEW j \in 1 .. k + 1 PROVE Shown(q.events[d[j]]) = es[j]
    <3>1. CASE j <= k
      <4>1. j \in 1 .. k /\ j \in 1 .. Len(c)
        BY <3>1, <2>4
      <4>2. d[j] = c[j] /\ c[j] # s /\ c[j] \in Slots
        BY <3>1, <4>1, <2>8, <2>9 DEF InList
      <4> QED BY <4>1, <4>2, <2>4, <2>8
    <3>2. CASE j = k + 1
      <4>1. ~(j <= k)
        BY <3>2, <2>2
      <4>2. d[j] = s
        BY <3>2, <4>1, <2>9
      <4> QED BY <3>2, <4>2, <2>2, <2>8
    <3> QED BY <3>1, <3>2, <2>2
  <2>12. OK(k + 1, r(k + 1), d)
    BY <2>3, <2>8, <2>9, <2>10, <2>11
  <2> HIDE DEF OK
  <2> QED BY <2>2, <2>9, <2>12
<1> HIDE DEF S
<1>4. 0 .. l \subseteq S
  BY <1>1, <1>2, <1>3, Climb
<1>5. l \in S
  BY <1>1, <1>4
<1>6. \E d \in Seq(Slots) : OK(l, r(l), d)
  BY <1>5 DEF S
<1> QED BY <1>6

-----------------------------------------------------------------------------
(* What the list shows, and what Timers says of it.                        *)

LEMMA ListedFacts ==
  ASSUME NEW p, NEW c, NEW X, Sound(p, c, X)
  PROVE  /\ Listed(p) \in Seq(SavedEvent) /\ Len(Listed(p)) = Len(c) /\ DOMAIN Listed(p) = 1 .. Len(c)
         /\ \A k \in 1 .. Len(c) : /\ Listed(p)[k] = Shown(p.events[c[k]])
                                   /\ Listed(p)[k].due = p.events[c[k]].due
                                   /\ Listed(p)[k].name = p.events[c[k]].name
<1>1. /\ Chain(p) = c /\ p \in PoolType /\ c \in Seq(Slots) /\ Len(c) \in Nat /\ DOMAIN c = 1 .. Len(c)
      /\ \A k \in 1 .. Len(c) : c[k] \in Slots
  BY ChainOfSound, ChainFacts DEF Sound
<1>2. Listed(p) = [k \in 1 .. Len(c) |-> Shown(p.events[c[k]])]
  BY <1>1 DEF Listed
<1>3. \A k \in 1 .. Len(c) : Shown(p.events[c[k]]) \in SavedEvent
  BY <1>1, PoolFacts DEF Shown, SavedEvent
<1> DEFINE q == Listed(p)
           l == Len(c)
<1>4. q \in [1 .. l -> SavedEvent] /\ l \in Nat
  BY <1>1, <1>2, <1>3
<1>5. \A k \in 1 .. Len(c) : Listed(p)[k] = Shown(p.events[c[k]])
  BY <1>2
<1> HIDE DEF q, l
<1>6. q \in Seq(SavedEvent) /\ Len(q) = l /\ DOMAIN q = 1 .. l
  BY <1>4
<1>7. \A e : Shown(e).due = e.due /\ Shown(e).name = e.name
  BY DEF Shown
<1> QED BY <1>5, <1>6, <1>7 DEF q, l

\* InsertAt, place by place.
LEMMA InsertAtIs ==
  ASSUME NEW S, NEW c \in Seq(S), NEW k \in 0 .. Len(c), NEW e \in S
  PROVE  InsertAt(c, k + 1, e) = With(c, k, e)
<1> DEFINE a == SubSeq(c, 1, k)
           b == SubSeq(c, k + 1, Len(c))
           n == Len(c)
           w == With(c, k, e)
<1>1. n \in Nat /\ k \in 0 .. n /\ k \in Nat /\ (k + 1) - 1 = k
  OBVIOUS
<1>2. a \in Seq(S) /\ Len(a) = k /\ \A j \in 1 .. k : a[j] = c[j]
  BY <1>1
<1>3. b \in Seq(S) /\ Len(b) = n - k /\ \A j \in 1 .. n - k : b[j] = c[j + k]
  BY <1>1
<1>4. InsertAt(c, k + 1, e) = (a \o <<e>>) \o b
  BY <1>1 DEF InsertAt
<1>5. w \in Seq(S) /\ Len(w) = n + 1
      /\ \A j \in 1 .. n + 1 : w[j] = IF j <= k THEN c[j] ELSE IF j = k + 1 THEN e ELSE c[j - 1]
  <2>1. c \in Seq(S) /\ k \in 0 .. Len(c) /\ e \in S
    BY <1>1
  <2>2. /\ With(c, k, e) \in Seq(S) /\ Len(With(c, k, e)) = Len(c) + 1
        /\ \A j \in 1 .. Len(c) + 1 :
             With(c, k, e)[j] = IF j <= k THEN c[j] ELSE IF j = k + 1 THEN e ELSE c[j - 1]
    BY ONLY <2>1, WithFacts
  <2> QED BY ONLY <2>2
<1> HIDE DEF a, b, w
<1>6. <<e>> \in Seq(S) /\ Len(<<e>>) = 1 /\ <<e>>[1] = e
  OBVIOUS
<1> DEFINE x == a \o <<e>>
<1>7. /\ x \in Seq(S) /\ Len(x) = k + 1
      /\ \A j \in 1 .. k + 1 : x[j] = IF j <= k THEN c[j] ELSE e
  <2>1. /\ Len(x) = Len(a) + Len(<<e>>) /\ x \in Seq(S)
        /\ \A j \in 1 .. Len(a) + Len(<<e>>) :
             x[j] = IF j <= Len(a) THEN a[j] ELSE <<e>>[j - Len(a)]
    BY <1>2, <1>6, ConcatProperties
  <2> HIDE DEF x
  <2>2. ASSUME NEW j \in 1 .. k + 1 PROVE x[j] = IF j <= k THEN c[j] ELSE e
    <3>1. CASE j <= k
      <4>1. j \in 1 .. k
        BY <3>1, <1>1
      <4> QED BY <2>1, <1>1, <1>2, <1>6, <3>1, <4>1
    <3>2. CASE ~(j <= k)
      <4>1. j - k = 1
        BY <3>2, <1>1
      <4> QED BY <2>1, <1>1, <1>2, <1>6, <3>2, <4>1
    <3> QED BY <3>1, <3>2
  <2> QED BY <2>1, <2>2, <1>1, <1>2, <1>6
<1> HIDE DEF x
<1> DEFINE y == x \o b
<1>8. /\ y \in Seq(S) /\ Len(y) = n + 1
      /\ \A j \in 1 .. n + 1 : y[j] = IF j <= k + 1 THEN x[j] ELSE b[j - (k + 1)]
  <2>1. /\ Len(y) = Len(x) + Len(b) /\ y \in Seq(S)
        /\ \A j \in 1 .. Len(x) + Len(b) : y[j] = IF j <= Len(x) THEN x[j] ELSE b[j - Len(x)]
    BY <1>3, <1>7, ConcatProperties
  <2> HIDE DEF y
  <2>2. Len(x) = k + 1 /\ Len(x) + Len(b) = n + 1
    BY <1>1, <1>3, <1>7
  <2> QED BY <2>1, <2>2
<1> HIDE DEF y
<1>9. ASSUME NEW j \in 1 .. n + 1 PROVE y[j] = w[j]
  <2>1. CASE j <= k + 1
    <3>1. j \in 1 .. k + 1 /\ (j <= k \/ j = k + 1) /\ (j = k + 1 => ~(j <= k))
      BY <2>1, <1>1
    <3> QED BY <2>1, <3>1, <1>5, <1>7, <1>8
  <2>2. CASE j > k + 1
    <3>1. /\ ~(j <= k + 1) /\ ~(j <= k) /\ j # k + 1 /\ j - (k + 1) \in 1 .. n - k
          /\ (j - (k + 1)) + k = j - 1
      BY <2>2, <1>1
    <3>2. b[j - (k + 1)] = c[(j - (k + 1)) + k]
      BY <3>1, <1>3
    <3> QED BY <3>1, <3>2, <1>5, <1>8
  <2> QED BY <2>1, <2>2, <1>1
<1>10. y = w
  <2>1. y \in Seq(S) /\ w \in Seq(S) /\ Len(y) = Len(w) /\ \A j \in 1 .. Len(y) : y[j] = w[j]
    BY <1>5, <1>8, <1>9
  <2> QED BY ONLY <2>1, SameSeq
<1> QED BY <1>4, <1>10 DEF x, y, w

\* Setting an event is what Timers says of it, and leaves nothing overdue.
LEMMA SetListed ==
  ASSUME NEW p, NEW c, NEW X, Sound(p, c, X), Sorted(p, c),
         NEW n \in Names \cup {NoName}, NEW w \in Int
  PROVE  LET q == WithEvent(p, n, w)
         IN  \E d \in Seq(Slots) :
               /\ Sound(q, d, X) /\ Sorted(q, d)
               /\ (w >= 0 /\ \A k \in 1 .. Len(c) : p.events[c[k]].due >= 0)
                    => \A k \in 1 .. Len(d) : q.events[d[k]].due >= 0
               /\ IF p.numFree = 0 THEN Listed(q) = Listed(p)
                  ELSE Promise!Inserted(Listed(p), Listed(q), [due |-> w, name |-> n])
<1> DEFINE q == WithEvent(p, n, w)
           e == [due |-> w, name |-> n]
<1>1. p \in PoolType /\ c \in Seq(Slots) /\ Len(c) \in Nat
  BY ChainFacts DEF Sound
<1>2. CASE p.numFree = 0
  <2>1. q = p
    BY <1>2, WithEventFacts
  <2> QED BY <1>1, <1>2, <2>1
<1>3. CASE p.numFree # 0
  <2> DEFINE s == p.lut[p.numFree - 1]
  <2>1. PICK k \in 0 .. Len(c) :
          /\ q = Linked(p, c, k, n, w)
          /\ \A j \in 1 .. k : p.events[c[j]].due <= w
          /\ \A j \in k + 1 .. Len(c) : p.events[c[j]].due > w
          /\ Sorted(q, With(c, k, s))
    BY <1>3, WithEventFacts
  <2> DEFINE d == With(c, k, s)
             u == Linked(p, c, k, n, w)
  <2>2. /\ Sound(u, d, X)
        /\ s \in Slots /\ ~InList(c, s) /\ Shown(u.events[s]) = [due |-> w, name |-> n]
        /\ \A t \in Slots : t # s => Shown(u.events[t]) = Shown(p.events[t])
    BY <1>3, LinkedSound DEF HasBehind
  <2>3. q = u
    BY <2>1
  <2> HIDE DEF q, u, s
  <2>4. /\ Sound(q, d, X) /\ Sorted(q, d)
        /\ s \in Slots /\ ~InList(c, s) /\ Shown(q.events[s]) = e
        /\ \A t \in Slots : t # s => Shown(q.events[t]) = Shown(p.events[t])
    BY <2>1, <2>2, <2>3
  <2>5. /\ d \in Seq(Slots) /\ Len(d) = Len(c) + 1
        /\ \A j \in 1 .. Len(c) + 1 : d[j] = IF j <= k THEN c[j] ELSE IF j = k + 1 THEN s ELSE c[j - 1]
    <3>1. c \in Seq(Slots) /\ k \in 0 .. Len(c) /\ s \in Slots
      BY <1>1, <2>4
    <3>2. \A j \in 1 .. Len(c) + 1 : d[j] = IF j <= k THEN c[j] ELSE IF j = k + 1 THEN s ELSE c[j - 1]
      BY ONLY DEF With
    <3>3. d \in Seq(Slots) /\ Len(d) = Len(c) + 1
      BY ONLY <3>1, WithFacts
    <3> QED BY ONLY <3>2, <3>3
  <2> HIDE DEF d
  <2>6. /\ Listed(p) \in Seq(SavedEvent) /\ Len(Listed(p)) = Len(c)
        /\ \A j \in 1 .. Len(c) : /\ Listed(p)[j] = Shown(p.events[c[j]])
                                  /\ Listed(p)[j].due = p.events[c[j]].due
    BY ListedFacts
  <2>7. /\ Listed(q) \in Seq(SavedEvent) /\ Len(Listed(q)) = Len(d)
        /\ \A j \in 1 .. Len(d) : /\ Listed(q)[j] = Shown(q.events[d[j]])
                                  /\ Listed(q)[j].due = q.events[d[j]].due
    BY <2>4, ListedFacts
  <2>8. e \in SavedEvent /\ e.due = w
    BY DEF SavedEvent
  <2> DEFINE v == With(Listed(p), k, e)
  <2>9. /\ v \in Seq(SavedEvent) /\ Len(v) = Len(c) + 1
        /\ \A j \in 1 .. Len(c) + 1 :
             v[j] = IF j <= k THEN Listed(p)[j] ELSE IF j = k + 1 THEN e ELSE Listed(p)[j - 1]
    <3>1. Listed(p) \in Seq(SavedEvent) /\ k \in 0 .. Len(Listed(p)) /\ e \in SavedEvent
      BY <2>6, <2>8
    <3>2. /\ v \in Seq(SavedEvent) /\ Len(v) = Len(Listed(p)) + 1
          /\ \A j \in 1 .. Len(Listed(p)) + 1 :
               v[j] = IF j <= k THEN Listed(p)[j] ELSE IF j = k + 1 THEN e ELSE Listed(p)[j - 1]
      <4> HIDE DEF e
      <4> QED BY ONLY <3>1, WithFacts
    <3> HIDE DEF v, e
    <3> QED BY <3>2, <2>6
  <2> HIDE DEF v, e
  <2>10. ASSUME NEW j \in 1 .. Len(c) + 1 PROVE Listed(q)[j] = v[j]
    <3>1. Listed(q)[j] = Shown(q.events[d[j]])
      BY <2>5, <2>7
    <3>2. CASE j <= k
      <4>1. j \in 1 .. Len(c)
        BY <3>2, <1>1
      <4>2. d[j] = c[j] /\ c[j] \in Slots /\ c[j] # s
        BY <3>2, <4>1, <1>1, <2>4, <2>5 DEF InList
      <4> QED BY <3>1, <3>2, <4>1, <4>2, <2>4, <2>6, <2>9
    <3>3. CASE j = k + 1
      <4>1. ~(j <= k)
        BY <3>3
      <4> QED BY <3>1, <3>3, <4>1, <2>4, <2>5, <2>9
    <3>4. CASE j > k + 1
      <4>1. ~(j <= k) /\ j # k + 1 /\ j - 1 \in 1 .. Len(c)
        BY <3>4, <1>1
      <4>2. d[j] = c[j - 1] /\ c[j - 1] \in Slots /\ c[j - 1] # s
        BY <4>1, <1>1, <2>4, <2>5 DEF InList
      <4> QED BY <3>1, <4>1, <4>2, <2>4, <2>6, <2>9
    <3> QED BY <3>2, <3>3, <3>4
  <2>11. Listed(q) = InsertAt(Listed(p), k + 1, e)
    <3>1. InsertAt(Listed(p), k + 1, e) = v
      <4>1. Listed(p) \in Seq(SavedEvent) /\ k \in 0 .. Len(Listed(p)) /\ e \in SavedEvent
        BY <2>6, <2>8
      <4> QED BY ONLY <4>1, InsertAtIs DEF v
    <3>2. Listed(q) \in Seq(SavedEvent) /\ v \in Seq(SavedEvent) /\ Len(Listed(q)) = Len(v)
          /\ \A j \in 1 .. Len(Listed(q)) : Listed(q)[j] = v[j]
      BY <2>5, <2>7, <2>9, <2>10
    <3>3. Listed(q) = v
      BY ONLY <3>2, SameSeq
    <3> QED BY <3>1, <3>3
  <2>12. Promise!Inserted(Listed(p), Listed(q), e)
    <3>1. /\ k \in 0 .. Len(Listed(p))
          /\ \A j \in 1 .. k : Listed(p)[j].due <= e.due
          /\ \A j \in k + 1 .. Len(Listed(p)) : Listed(p)[j].due > e.due
      <4>1. \A j \in 1 .. k : j \in 1 .. Len(c)
        BY <1>1
      <4>2. \A j \in k + 1 .. Len(c) : j \in 1 .. Len(c)
        BY <1>1
      <4> QED BY <4>1, <4>2, <2>1, <2>6, <2>8
    <3> QED BY <3>1, <2>11 DEF Promise!Inserted, Promise!InsertAt, InsertAt
  <2>13. ASSUME w >= 0, \A j \in 1 .. Len(c) : p.events[c[j]].due >= 0, NEW j \in 1 .. Len(d)
         PROVE  q.events[d[j]].due >= 0
    <3>1. j \in 1 .. Len(c) + 1 /\ q.events[d[j]].due = v[j].due
      BY <2>5, <2>7, <2>10
    <3>2. v[j] = e \/ \E o \in 1 .. Len(c) : v[j] = Listed(p)[o]
      <4>1. CASE j <= k
        <5>1. j \in 1 .. Len(c)
          BY <4>1, <1>1
        <5> QED BY <5>1, <4>1, <3>1, <2>9
      <4>2. CASE j = k + 1
        BY <4>2, <3>1, <2>9
      <4>3. CASE j > k + 1
        <5>1. j - 1 \in 1 .. Len(c) /\ ~(j <= k) /\ j # k + 1
          BY <4>3, <3>1, <1>1
        <5> QED BY <5>1, <3>1, <2>9
      <4> QED BY <4>1, <4>2, <4>3, <3>1
    <3> QED BY <3>1, <3>2, <2>6, <2>8, <2>13
  <2> QED BY <1>3, <2>4, <2>5, <2>12, <2>13 DEF e, q
<1> QED BY <1>2, <1>3

\* Killing events is what Timers says of it.
LEMMA KillListed ==
  ASSUME NEW p, NEW c, NEW X, Sound(p, c, X), Sorted(p, c), NEW n
  PROVE  LET q == WithoutEvents(p, n)
         IN  \E d \in Seq(Slots) :
               /\ Sound(q, d, X) /\ Sorted(q, d)
               /\ (\A k \in 1 .. Len(c) : p.events[c[k]].due >= 0)
                    => \A k \in 1 .. Len(d) : q.events[d[k]].due >= 0
               /\ Promise!Picked(Listed(p), Listed(q),
                                 {k \in DOMAIN Listed(p) : Listed(p)[k].name # n})
<1> DEFINE q == WithoutEvents(p, n)
           S == {k \in DOMAIN Listed(p) : Listed(p)[k].name # n}
<1>0. KeepsOthers(p, c, X, n, q)
  BY KillFacts
<1> HIDE DEF q
<1>1. \E d \in Seq(Slots) : \E f \in [1 .. Len(d) -> 1 .. Len(c)] :
        /\ Sound(q, d, X) /\ Sorted(q, d) /\ Increasing(f, Len(d))
        /\ \A k \in 1 .. Len(d) :
             d[k] = c[f[k]] /\ Shown(q.events[d[k]]) = Shown(p.events[c[f[k]]])
        /\ \A a \in 1 .. Len(c) : Counts(f, Len(d), a) <=> p.events[c[a]].name # n
  BY <1>0 DEF KeepsOthers
<1>2. PICK d \in Seq(Slots) : \E f \in [1 .. Len(d) -> 1 .. Len(c)] :
        /\ Sound(q, d, X) /\ Sorted(q, d) /\ Increasing(f, Len(d))
        /\ \A k \in 1 .. Len(d) :
             d[k] = c[f[k]] /\ Shown(q.events[d[k]]) = Shown(p.events[c[f[k]]])
        /\ \A a \in 1 .. Len(c) : Counts(f, Len(d), a) <=> p.events[c[a]].name # n
  BY <1>1
<1>3. PICK f \in [1 .. Len(d) -> 1 .. Len(c)] :
        /\ Sound(q, d, X) /\ Sorted(q, d) /\ Increasing(f, Len(d))
        /\ \A k \in 1 .. Len(d) :
             d[k] = c[f[k]] /\ Shown(q.events[d[k]]) = Shown(p.events[c[f[k]]])
        /\ \A a \in 1 .. Len(c) : Counts(f, Len(d), a) <=> p.events[c[a]].name # n
  BY <1>2
<1>4. /\ DOMAIN Listed(p) = 1 .. Len(c)
      /\ \A j \in 1 .. Len(c) : /\ Listed(p)[j] = Shown(p.events[c[j]])
                                /\ Listed(p)[j].due = p.events[c[j]].due
                                /\ Listed(p)[j].name = p.events[c[j]].name
  BY ListedFacts
<1>5. /\ DOMAIN Listed(q) = 1 .. Len(d)
      /\ \A j \in 1 .. Len(d) : /\ Listed(q)[j] = Shown(q.events[d[j]])
                                /\ Listed(q)[j].due = q.events[d[j]].due
  BY <1>3, ListedFacts
<1>6. \A k \in 1 .. Len(d) : f[k] \in 1 .. Len(c) /\ Listed(q)[k] = Listed(p)[f[k]]
  BY <1>3, <1>4, <1>5
<1>7. {f[k] : k \in DOMAIN f} = S
  <2>1. DOMAIN f = 1 .. Len(d)
    OBVIOUS
  <2>2. \A a \in 1 .. Len(c) : a \in S <=> Counts(f, Len(d), a)
    BY <1>3, <1>4
  <2>3. S \subseteq 1 .. Len(c)
    BY <1>4
  <2> HIDE DEF S
  <2>4. ASSUME NEW k \in 1 .. Len(d) PROVE f[k] \in S
    <3>1. Counts(f, Len(d), f[k])
      BY DEF Counts
    <3> QED BY <3>1, <2>2, <1>6
  <2>5. ASSUME NEW a \in S PROVE \E k \in 1 .. Len(d) : f[k] = a
    BY <2>2, <2>3 DEF Counts
  <2> QED BY <2>1, <2>4, <2>5
<1>8. Promise!Picked(Listed(p), Listed(q), S)
  <2>1. f \in [DOMAIN Listed(q) -> DOMAIN Listed(p)]
    BY <1>4, <1>5
  <2>2. \A j, k \in DOMAIN Listed(q) : j < k => f[j] < f[k]
    BY <1>3, <1>5 DEF Increasing
  <2>3. \A k \in DOMAIN Listed(q) : Listed(q)[k] = Listed(p)[f[k]]
    BY <1>5, <1>6
  <2> HIDE DEF S
  <2> QED BY <2>1, <2>2, <2>3, <1>7 DEF Promise!Picked, Promise!Range
<1>9. ASSUME \A k \in 1 .. Len(c) : p.events[c[k]].due >= 0, NEW j \in 1 .. Len(d)
      PROVE  q.events[d[j]].due >= 0
  BY <1>4, <1>5, <1>6, <1>9
<1> QED BY <1>3, <1>8, <1>9 DEF q


-----------------------------------------------------------------------------
(* The inductive invariant.                                                *)

\* The pool is sound, and its list sorted; when the events are done, none is overdue.
Kept(p, X, done) ==
  \E c \in Seq(Slots) :
     /\ Sound(p, c, X) /\ Sorted(p, c)
     /\ done => \A k \in 1 .. Len(c) : p.events[c[k]].due >= 0

\* A saved game is the list of a pool when the events are done.
SavedOK(es) ==
  /\ es \in Seq(SavedEvent) /\ InOrder(es) /\ Len(es) <= NumEvents
  /\ \A k \in 1 .. Len(es) : es[k].due >= 0

\* What is in neither place is the slot of the event that is handled.
EventsInv ==
  /\ pc \in {"out", "tasks", "loop", "handler"}
  /\ i \in Ends /\ (i # Nil <=> pc = "handler")
  /\ Kept(Pool, {i} \ {Nil}, pc = "out")
  /\ SavedOK(saved)

LEMMA Becoming ==
  ASSUME NEW p \in PoolType, Becomes(p)
  PROVE  Pool' = p
BY DEF Becomes, Pool, PoolType

LEMMA InitEventsInv == Init => EventsInv
<1> SUFFICES ASSUME Init PROVE EventsInv
  OBVIOUS
<1>1. Pool = EmptyPool
  BY DEF Init, Pool, EmptyPool
<1>2. i = Nil /\ {i} \ {Nil} = {} /\ pc = "out" /\ saved = <<>>
  BY DEF Init
<1>3. Kept(EmptyPool, {}, TRUE)
  <2>1. <<>> \in Seq(Slots) /\ \A k \in 1 .. Len(<<>>) : EmptyPool.events[<<>>[k]].due >= 0
    OBVIOUS
  <2> QED BY <2>1, EmptySound DEF Kept
<1>4. SavedOK(<<>>)
  BY EventsFacts DEF SavedOK, InOrder
<1> QED BY <1>1, <1>2, <1>3, <1>4 DEF EventsInv, Ends

\* The list of a pool that is kept, and that the count of the free slots tells whether an
\* event may be set.
LEMMA KeptFacts ==
  ASSUME EventsInv
  PROVE  \E c \in Seq(Slots) :
            /\ Sound(Pool, c, {i} \ {Nil}) /\ Sorted(Pool, c) /\ Chain(Pool) = c
            /\ pc = "out" => \A k \in 1 .. Len(c) : events[c[k]].due >= 0
            /\ numFree + Len(c) + (IF pc = "handler" THEN 1 ELSE 0) = NumEvents
            /\ numFree \in Nat /\ Len(c) \in Nat
            /\ Listed(Pool) \in Seq(SavedEvent) /\ Len(Listed(Pool)) = Len(c)
            /\ \A k \in 1 .. Len(c) : /\ Listed(Pool)[k] = Shown(events[c[k]])
                                      /\ Listed(Pool)[k].due = events[c[k]].due
<1>1. PICK c \in Seq(Slots) :
        /\ Sound(Pool, c, {i} \ {Nil}) /\ Sorted(Pool, c)
        /\ pc = "out" => \A k \in 1 .. Len(c) : Pool.events[c[k]].due >= 0
  BY DEF EventsInv, Kept
<1>2. Pool.events = events /\ Pool.numFree = numFree
  BY DEF Pool
<1>3. Cardinality({i} \ {Nil}) = IF pc = "handler" THEN 1 ELSE 0
  <2>1. CASE pc = "handler"
    <3>1. {i} \ {Nil} = {i}
      BY <2>1 DEF EventsInv
    <3> QED BY <2>1, <3>1, FS_Singleton
  <2>2. CASE pc # "handler"
    <3>1. {i} \ {Nil} = {}
      BY <2>2 DEF EventsInv
    <3> QED BY <2>2, <3>1, FS_EmptySet
  <2> QED BY <2>1, <2>2
<1>4. Chain(Pool) = c
  BY <1>1, ChainOfSound
<1>5. Pool \in PoolType /\ numFree + Len(c) + Cardinality({i} \ {Nil}) = NumEvents
  BY <1>1, <1>2 DEF Sound, Counted
<1>6. numFree \in Nat /\ Len(c) \in Nat
  BY <1>2, <1>5, PoolFacts
<1>7. /\ Listed(Pool) \in Seq(SavedEvent) /\ Len(Listed(Pool)) = Len(c)
      /\ \A k \in 1 .. Len(c) : /\ Listed(Pool)[k] = Shown(Pool.events[c[k]])
                                /\ Listed(Pool)[k].due = Pool.events[c[k]].due
  BY <1>1, ListedFacts
<1> QED BY <1>1, <1>2, <1>3, <1>4, <1>5, <1>6, <1>7

-----------------------------------------------------------------------------
(* Every step keeps it, and is a step of Timers.                           *)

\* A verb changes the pool alone.
LEMMA VerbKeeps ==
  ASSUME EventsInv, UNCHANGED <<pc, i, saved>>, NEW p, Pool' = p,
         Kept(p, {i} \ {Nil}, pc = "out")
  PROVE  EventsInv'
<1>1. pc' = pc /\ i' = i /\ saved' = saved
  OBVIOUS
<1>2. Kept(Pool', {i'} \ {Nil}, pc' = "out")
  BY <1>1
<1>3. SavedOK(saved')
  BY <1>1 DEF EventsInv
<1>4. pc' \in {"out", "tasks", "loop", "handler"} /\ i' \in Ends /\ (i' # Nil <=> pc' = "handler")
  BY <1>1 DEF EventsInv
<1> QED BY <1>2, <1>3, <1>4 DEF EventsInv

LEMMA SetStep ==
  ASSUME EventsInv, NEW n \in Names, NEW w \in Delays, SetTimerEx(n, w)
  PROVE  EventsInv' /\ Promise!Set(n, w)
<1> DEFINE q == WithEvent(Pool, n, w)
           X == {i} \ {Nil}
           e == [due |-> w, name |-> n]
<1>1. Becomes(q) /\ pc' = pc /\ i' = i /\ saved' = saved
  BY DEF SetTimerEx
<1>2. w \in Int /\ w >= 0 /\ n \in Names \cup {NoName}
  BY TimesAssumption DEF Delays
<1>3. PICK c \in Seq(Slots) :
        /\ Sound(Pool, c, X) /\ Sorted(Pool, c)
        /\ pc = "out" => \A k \in 1 .. Len(c) : events[c[k]].due >= 0
        /\ numFree + Len(c) + (IF pc = "handler" THEN 1 ELSE 0) = NumEvents
        /\ numFree \in Nat /\ Len(c) \in Nat /\ Len(Listed(Pool)) = Len(c)
  BY KeptFacts
<1>4. Pool.events = events /\ Pool.numFree = numFree
  BY DEF Pool
<1>5. Sound(Pool, c, X) /\ Sorted(Pool, c) /\ n \in Names \cup {NoName} /\ w \in Int
  BY <1>2, <1>3
<1> HIDE DEF q, X
<1>6. PICK d \in Seq(Slots) :
        /\ Sound(q, d, X) /\ Sorted(q, d)
        /\ (w >= 0 /\ \A k \in 1 .. Len(c) : Pool.events[c[k]].due >= 0)
             => \A k \in 1 .. Len(d) : q.events[d[k]].due >= 0
        /\ IF Pool.numFree = 0 THEN Listed(q) = Listed(Pool)
           ELSE Promise!Inserted(Listed(Pool), Listed(q), e)
  BY <1>5, SetListed DEF q
<1>7. Pool' = q
  BY <1>1, <1>6, Becoming DEF Sound
<1>8. Kept(q, X, pc = "out")
  BY <1>2, <1>3, <1>4, <1>6 DEF Kept
<1>9. EventsInv'
  BY <1>1, <1>7, <1>8, VerbKeeps DEF X
<1>10. Listed(Pool)' = Listed(q)
  BY <1>7
<1>11. numFree = 0 <=> ~(Len(Listed(Pool)) + (IF pc = "handler" THEN 1 ELSE 0) < NumEvents)
  BY <1>3, EventsFacts
<1>12. Promise!Set(n, w)
  BY <1>1, <1>4, <1>6, <1>10, <1>11 DEF Promise!Set
<1> QED BY <1>9, <1>12

LEMMA KillStep ==
  ASSUME EventsInv, NEW n \in Names, KillTimerEx(n)
  PROVE  EventsInv' /\ Promise!Kill(n)
<1> DEFINE q == WithoutEvents(Pool, n)
           X == {i} \ {Nil}
           S == {k \in DOMAIN Listed(Pool) : Listed(Pool)[k].name # n}
<1>1. Becomes(q) /\ pc' = pc /\ i' = i /\ saved' = saved
  BY DEF KillTimerEx
<1>2. PICK c \in Seq(Slots) :
        /\ Sound(Pool, c, X) /\ Sorted(Pool, c)
        /\ pc = "out" => \A k \in 1 .. Len(c) : events[c[k]].due >= 0
  BY KeptFacts
<1>3. Pool.events = events
  BY DEF Pool
<1> HIDE DEF q, X
<1>4. PICK d \in Seq(Slots) :
        /\ Sound(q, d, X) /\ Sorted(q, d)
        /\ (\A k \in 1 .. Len(c) : Pool.events[c[k]].due >= 0)
             => \A k \in 1 .. Len(d) : q.events[d[k]].due >= 0
        /\ Promise!Picked(Listed(Pool), Listed(q), S)
  BY <1>2, KillListed DEF q
<1>5. Pool' = q
  BY <1>1, <1>4, Becoming DEF Sound
<1>6. Kept(q, X, pc = "out")
  BY <1>2, <1>3, <1>4 DEF Kept
<1>7. EventsInv'
  BY <1>1, <1>5, <1>6, VerbKeeps DEF X
<1>8. Listed(Pool)' = Listed(q)
  BY <1>5
<1>9. Promise!Kill(n)
  BY <1>1, <1>4, <1>8 DEF Promise!Kill
<1> QED BY <1>7, <1>9

\* The pool when time has gone on: the events of the list are due sooner.
Aged(p, c, d) ==
  [events |-> [s \in Slots |->
                 IF InList(c, s)
                   THEN [due |-> p.events[s].due - d, name |-> p.events[s].name,
                         next |-> p.events[s].next]
                   ELSE p.events[s]],
   list |-> p.list, lut |-> p.lut, numFree |-> p.numFree]

LEMMA AgedSound ==
  ASSUME NEW p, NEW c, NEW X, Sound(p, c, X), Sorted(p, c), NEW d \in Int
  PROVE  /\ Sound(Aged(p, c, d), c, X) /\ Sorted(Aged(p, c, d), c)
         /\ \A k \in 1 .. Len(c) :
              Shown(Aged(p, c, d).events[c[k]])
                = [due |-> p.events[c[k]].due - d, name |-> p.events[c[k]].name]
<1> DEFINE q == Aged(p, c, d)
<1>1. /\ p \in PoolType /\ IsChain(p, c) /\ X \in SUBSET Slots
      /\ Placed(p, c, X) /\ StackOnce(p) /\ Counted(p, c, X)
  BY DEF Sound
<1>2. /\ p.events \in [Slots -> Event] /\ p.list \in Ends /\ p.lut \in [Slots -> Slots]
      /\ p.numFree \in 0 .. NumEvents
      /\ \A s \in Slots : /\ p.events[s].due \in Int /\ p.events[s].next \in Ends
                          /\ p.events[s].name \in Names \cup {NoName}
                          /\ p.events[s] \in Event
  BY <1>1, PoolFacts
<1>3. /\ q.list = p.list /\ q.lut = p.lut /\ q.numFree = p.numFree
      /\ \A s \in Slots : q.events[s] = IF InList(c, s)
                            THEN [due |-> p.events[s].due - d, name |-> p.events[s].name,
                                  next |-> p.events[s].next]
                            ELSE p.events[s]
  BY DEF Aged
<1>4. q \in PoolType
  <2>1. \A s \in Slots :
          [due |-> p.events[s].due - d, name |-> p.events[s].name,
           next |-> p.events[s].next] \in Event
    BY <1>2 DEF Event
  <2> QED BY <1>2, <2>1 DEF Aged, PoolType
<1>5. \A k \in 1 .. Len(c) :
        /\ c[k] \in Slots /\ p.events[c[k]].due \in Int
        /\ q.events[c[k]] = [due |-> p.events[c[k]].due - d, name |-> p.events[c[k]].name,
                             next |-> p.events[c[k]].next]
  <2>1. \A k \in 1 .. Len(c) : c[k] \in Slots /\ InList(c, c[k])
    BY <1>1, ChainFacts DEF InList
  <2> QED BY <2>1, <1>2, <1>3
<1>11. \A k \in 1 .. Len(c) : /\ q.events[c[k]].due = p.events[c[k]].due - d
                              /\ q.events[c[k]].name = p.events[c[k]].name
                              /\ q.events[c[k]].next = p.events[c[k]].next
  <2> TAKE k \in 1 .. Len(c)
  <2> DEFINE e == q.events[c[k]]
             a == p.events[c[k]].due - d
             n == p.events[c[k]].name
             v == p.events[c[k]].next
  <2>1. e = [due |-> a, name |-> n, next |-> v]
    BY <1>5
  <2> HIDE DEF e, a, n, v
  <2>2. e.due = a /\ e.name = n /\ e.next = v
    BY <2>1
  <2> QED BY <2>2 DEF e, a, n, v
<1> HIDE DEF q
<1>6. IsChain(q, c)
  BY <1>1, <1>3, <1>11 DEF IsChain
<1>7. Placed(q, c, X) /\ StackOnce(q) /\ Counted(q, c, X)
  <2>1. \A s : InFree(q, s) <=> InFree(p, s)
    BY <1>3 DEF InFree
  <2> QED BY <1>1, <1>3, <2>1 DEF Placed, StackOnce, Counted
<1>8. Sorted(q, c)
  <2> SUFFICES ASSUME NEW j \in 1 .. Len(c), NEW k \in 1 .. Len(c), j <= k
               PROVE  q.events[c[j]].due <= q.events[c[k]].due
    BY DEF Sorted
  <2>1. p.events[c[j]].due <= p.events[c[k]].due
    BY DEF Sorted
  <2>2. p.events[c[j]].due \in Int /\ p.events[c[k]].due \in Int
    BY <1>5
  <2> QED BY <2>1, <2>2, <1>11
<1>9. \A k \in 1 .. Len(c) : Shown(q.events[c[k]])
         = [due |-> p.events[c[k]].due - d, name |-> p.events[c[k]].name]
  BY <1>11 DEF Shown
<1>10. Sound(q, c, X)
  BY <1>1, <1>4, <1>6, <1>7 DEF Sound
<1> QED BY <1>8, <1>9, <1>10 DEF q

LEMMA TickStep ==
  ASSUME EventsInv, Tick
  PROVE  EventsInv' /\ \E d \in Steps : Promise!Tick(d)
<1>1. /\ pc = "out" /\ pc' = "tasks" /\ list' = list /\ lut' = lut /\ numFree' = numFree
      /\ i' = i /\ saved' = saved
  BY DEF Tick
<1>2. PICK d \in Steps :
        events' = [s \in Slots |-> IF s \in Range(Chain(Pool))
                                      THEN [events[s] EXCEPT !.due = @ - d] ELSE events[s]]
  BY DEF Tick
<1>3. PICK c \in Seq(Slots) :
        /\ Sound(Pool, c, {i} \ {Nil}) /\ Sorted(Pool, c) /\ Chain(Pool) = c
        /\ pc = "out" => \A k \in 1 .. Len(c) : events[c[k]].due >= 0
        /\ Len(c) \in Nat
        /\ Listed(Pool) \in Seq(SavedEvent) /\ Len(Listed(Pool)) = Len(c)
        /\ \A k \in 1 .. Len(c) : /\ Listed(Pool)[k] = Shown(events[c[k]])
                                  /\ Listed(Pool)[k].due = events[c[k]].due
  BY KeptFacts
<1>4. /\ Pool.events = events /\ Pool.list = list /\ Pool.lut = lut /\ Pool.numFree = numFree
      /\ Pool' = [events |-> events', list |-> list', lut |-> lut', numFree |-> numFree']
  BY DEF Pool
<1>5. \A s : s \in Range(c) <=> InList(c, s)
  BY <1>3 DEF Range, InList
<1>6. \A s \in Slots : events[s] \in Event
  BY <1>3, <1>4, PoolFacts DEF Sound
<1>7. \A s \in Slots : [events[s] EXCEPT !.due = @ - d]
                        = [due |-> events[s].due - d, name |-> events[s].name,
                           next |-> events[s].next]
  BY <1>6 DEF Event
<1>8. Pool' = Aged(Pool, c, d)
  <2>1. events' = Aged(Pool, c, d).events
    BY <1>2, <1>3, <1>4, <1>5, <1>7 DEF Aged
  <2> QED BY <2>1, <1>1, <1>4 DEF Aged
<1>9. d \in Int
  BY TimesAssumption DEF Steps
<1>10. /\ Sound(Pool', c, {i} \ {Nil}) /\ Sorted(Pool', c)
       /\ \A k \in 1 .. Len(c) : Shown(Pool'.events[c[k]])
            = [due |-> events[c[k]].due - d, name |-> events[c[k]].name]
  <2> DEFINE p == Pool
             X == {i} \ {Nil}
  <2>1. Sound(p, c, X) /\ Sorted(p, c) /\ d \in Int
    BY <1>3, <1>9
  <2> HIDE DEF p, X
  <2>2. /\ Sound(Aged(p, c, d), c, X) /\ Sorted(Aged(p, c, d), c)
        /\ \A k \in 1 .. Len(c) :
             Shown(Aged(p, c, d).events[c[k]])
               = [due |-> p.events[c[k]].due - d, name |-> p.events[c[k]].name]
    BY ONLY <2>1, AgedSound
  <2>3. Pool' = Aged(p, c, d) /\ p.events = events
    BY <1>4, <1>8 DEF p
  <2> QED BY <2>2, <2>3 DEF X
<1>11. EventsInv'
  <2>1. Kept(Pool', {i'} \ {Nil}, pc' = "out")
    BY <1>1, <1>10 DEF Kept
  <2>2. SavedOK(saved')
    BY <1>1 DEF EventsInv
  <2>3. pc' \in {"out", "tasks", "loop", "handler"} /\ i' \in Ends /\ (i' # Nil <=> pc' = "handler")
    BY <1>1 DEF EventsInv
  <2> QED BY <2>1, <2>2, <2>3 DEF EventsInv
<1>12. Promise!Tick(d)
  <2>1. \A k \in DOMAIN Listed(Pool) : Listed(Pool)[k].due >= 0
    BY <1>1, <1>3
  <2>2. Listed(Pool') \in Seq(SavedEvent) /\ DOMAIN Listed(Pool') = 1 .. Len(c)
        /\ \A k \in 1 .. Len(c) : Listed(Pool')[k] = Shown(Pool'.events[c[k]])
    BY <1>10, ListedFacts
  <2>3. \A k \in 1 .. Len(c) : Listed(Pool')[k] = [Listed(Pool)[k] EXCEPT !.due = @ - d]
    <3> TAKE k \in 1 .. Len(c)
    <3>1. Listed(Pool)[k] = [due |-> events[c[k]].due, name |-> events[c[k]].name]
      BY <1>3 DEF Shown
    <3>2. Listed(Pool')[k] = [due |-> events[c[k]].due - d, name |-> events[c[k]].name]
      BY <1>10, <2>2
    <3> QED BY <3>1, <3>2
  <2>4. DOMAIN Listed(Pool) = 1 .. Len(c)
    BY <1>3
  <2>5. Listed(Pool') = [k \in DOMAIN Listed(Pool) |-> [Listed(Pool)[k] EXCEPT !.due = @ - d]]
    <3> DEFINE q == Listed(Pool')
               l == Len(c)
    <3>1. q = [k \in 1 .. l |-> q[k]]
      BY <2>2
    <3> QED BY <3>1, <2>3, <2>4
  <2> QED BY <1>1, <2>1, <2>5 DEF Promise!Tick
<1> QED BY <1>11, <1>12

\* The tasks are run: nothing that Timers speaks of.
LEMMA TasksStep ==
  ASSUME EventsInv, RunTasks
  PROVE  EventsInv' /\ UNCHANGED Promise!vars
<1>1. /\ pc = "tasks" /\ pc' = "loop" /\ events' = events /\ list' = list /\ lut' = lut
      /\ numFree' = numFree /\ i' = i /\ saved' = saved
  BY DEF RunTasks, poolVars
<1>2. Pool' = Pool
  BY <1>1 DEF Pool
<1>3. Kept(Pool', {i'} \ {Nil}, pc' = "out")
  BY <1>1, <1>2 DEF EventsInv, Kept
<1>4. EventsInv'
  <2>1. pc' \in {"out", "tasks", "loop", "handler"} /\ i' \in Ends /\ (i' # Nil <=> pc' = "handler")
    BY <1>1 DEF EventsInv
  <2> QED BY <2>1, <1>1, <1>3 DEF EventsInv
<1>5. UNCHANGED Promise!vars
  BY <1>1, <1>2 DEF Promise!vars
<1> QED BY <1>4, <1>5

\* When the first event of the sorted list is not overdue, none is.
LEMMA NoneDueStep ==
  ASSUME EventsInv, NoneDue
  PROVE  EventsInv' /\ UNCHANGED Promise!vars
<1>1. /\ pc = "loop" /\ pc' = "out" /\ events' = events /\ list' = list /\ lut' = lut
      /\ numFree' = numFree /\ i' = i /\ saved' = saved
      /\ list # Nil => events[list].due >= 0
  BY DEF NoneDue, poolVars
<1>2. Pool' = Pool /\ Pool.events = events /\ Pool.list = list
  BY <1>1 DEF Pool
<1>3. PICK c \in Seq(Slots) :
        Sound(Pool, c, {i} \ {Nil}) /\ Sorted(Pool, c) /\ Len(c) \in Nat
  BY KeptFacts
<1>4. \A k \in 1 .. Len(c) : Pool.events[c[k]].due >= 0
  <2> TAKE k \in 1 .. Len(c)
  <2>1. 1 \in 1 .. Len(c) /\ 1 <= k
    BY <1>3
  <2>2. list = c[1] /\ c[1] \in Slots /\ c[k] \in Slots /\ c[1] # Nil
    BY <1>2, <1>3, <2>1, EventsFacts DEF Sound, IsChain, At
  <2>3. Pool.events[c[1]].due <= Pool.events[c[k]].due
    BY <1>3, <2>1 DEF Sorted
  <2>4. Pool.events[c[1]].due \in Int /\ Pool.events[c[k]].due \in Int
    BY <1>3, <2>2, PoolFacts DEF Sound
  <2> QED BY <1>1, <1>2, <2>2, <2>3, <2>4
<1>5. Kept(Pool', {i'} \ {Nil}, pc' = "out")
  BY <1>1, <1>2, <1>3, <1>4 DEF Kept
<1>6. EventsInv'
  <2>1. pc' \in {"out", "tasks", "loop", "handler"} /\ i' \in Ends /\ (i' # Nil <=> pc' = "handler")
    BY <1>1 DEF EventsInv
  <2>2. SavedOK(saved')
    BY <1>1 DEF EventsInv
  <2> QED BY <2>1, <2>2, <1>5 DEF EventsInv
<1>7. UNCHANGED Promise!vars
  BY <1>1, <1>2 DEF Promise!vars
<1> QED BY <1>6, <1>7

\* The list of a pool, and that of another which shows the same but for the first event.
LEMMA FirstTaken ==
  ASSUME NEW p, NEW c, NEW X, Sound(p, c, X), Sorted(p, c), 1 \in 1 .. Len(c)
  PROVE  LET q == Unlinked(p, Nil, p.events[c[1]].next)
         IN  /\ Sound(q, Without(c, 1), X \cup {c[1]}) /\ Sorted(q, Without(c, 1))
             /\ Listed(q) = Tail(Listed(p))
<1> DEFINE q == Unlinked(p, Nil, p.events[c[1]].next)
           d == Without(c, 1)
           n == Len(c)
           Y == X \cup {c[1]}
<1>1. p \in PoolType /\ IsChain(p, c) /\ c \in Seq(Slots) /\ n \in Nat
  BY ChainFacts DEF Sound
<1>2. At(c, 1 - 1) = Nil /\ At(c, 1 + 1) = p.events[c[1]].next
  BY <1>1 DEF At, IsChain
<1>3. Sound(q, d, Y) /\ SameShown(p, q)
  <2>1. Sound(p, c, X) /\ 1 \in 1 .. Len(c)
    OBVIOUS
  <2>2. LET u == Unlinked(p, At(c, 1 - 1), At(c, 1 + 1))
        IN  Sound(u, Without(c, 1), X \cup {c[1]}) /\ SameShown(p, u)
    BY ONLY <2>1, UnlinkedSound
  <2> QED BY <2>2, <1>2
<1>4. /\ d \in Seq(Slots) /\ Len(d) = n - 1 /\ n >= 1
      /\ \A k \in 1 .. n - 1 : d[k] = c[k + 1]
  <2>1. c \in Seq(Slots) /\ 1 \in 1 .. Len(c)
    BY <1>1
  <2>2. /\ d \in Seq(Slots) /\ Len(d) = n - 1
        /\ \A k \in 1 .. n - 1 : d[k] = IF k < 1 THEN c[k] ELSE c[k + 1]
    BY ONLY <2>1, WithoutFacts
  <2>3. \A k \in 1 .. n - 1 : ~(k < 1)
    BY <1>1
  <2>4. n >= 1
    BY <1>1
  <2> HIDE DEF d, n
  <2> QED BY <2>2, <2>3, <2>4
<1>5. \A k \in 1 .. n : c[k] \in Slots
  BY <1>1
<1> HIDE DEF q, d, Y
<1>6. \A k \in 1 .. n - 1 : /\ k + 1 \in 1 .. n /\ Shown(q.events[d[k]]) = Shown(p.events[c[k + 1]])
  BY <1>1, <1>3, <1>4, <1>5 DEF SameShown
<1>7. Sorted(q, d)
  <2> SUFFICES ASSUME NEW j \in 1 .. Len(d), NEW k \in 1 .. Len(d), j <= k
               PROVE  q.events[d[j]].due <= q.events[d[k]].due
    BY DEF Sorted
  <2>1. j \in 1 .. n - 1 /\ k \in 1 .. n - 1 /\ j + 1 \in 1 .. n /\ k + 1 \in 1 .. n /\ j + 1 <= k + 1
    BY <1>1, <1>4
  <2>2. p.events[c[j + 1]].due <= p.events[c[k + 1]].due
    BY <2>1 DEF Sorted
  <2>3. \A m \in 1 .. n - 1 : q.events[d[m]].due = p.events[c[m + 1]].due
    BY <1>6 DEF Shown
  <2> QED BY <2>1, <2>2, <2>3
<1>8. /\ Listed(p) \in Seq(SavedEvent) /\ Len(Listed(p)) = n
      /\ \A k \in 1 .. n : Listed(p)[k] = Shown(p.events[c[k]])
  BY ListedFacts
<1>9. /\ Listed(q) \in Seq(SavedEvent) /\ Len(Listed(q)) = Len(d)
      /\ \A k \in 1 .. Len(d) : Listed(q)[k] = Shown(q.events[d[k]])
  BY <1>3, ListedFacts
<1>10. Listed(q) = Tail(Listed(p))
  <2> DEFINE a == Listed(p)
             t == Tail(a)
             b == Listed(q)
  <2>1. a \in Seq(SavedEvent) /\ Len(a) = n /\ n \in Nat /\ n >= 1
    BY <1>1, <1>4, <1>8
  <2> HIDE DEF a
  <2>2. /\ t \in Seq(SavedEvent) /\ Len(t) = n - 1
        /\ \A k \in 1 .. n - 1 : t[k] = a[k + 1]
    BY <2>1
  <2>3. /\ b \in Seq(SavedEvent) /\ t \in Seq(SavedEvent) /\ Len(b) = Len(t)
        /\ \A k \in 1 .. Len(b) : b[k] = t[k]
    BY <2>2, <1>4, <1>6, <1>8, <1>9 DEF a
  <2> HIDE DEF t, b
  <2>4. b = t
    BY ONLY <2>3, SameSeq
  <2> QED BY <2>4 DEF a, b, t
<1> QED BY <1>3, <1>7, <1>10 DEF q, d, Y

LEMMA FireStep ==
  ASSUME EventsInv, FireFirst
  PROVE  EventsInv' /\ Promise!Fire
<1> DEFINE p == Pool
           X == {i} \ {Nil}
<1>1. /\ pc = "loop" /\ pc' = "handler" /\ list # Nil /\ events[list].due < 0
      /\ list' = events[list].next /\ i' = list
      /\ events' = events /\ lut' = lut /\ numFree' = numFree /\ saved' = saved
  BY DEF FireFirst
<1>2. PICK c \in Seq(Slots) :
        /\ Sound(p, c, X) /\ Sorted(p, c) /\ Len(c) \in Nat
        /\ Listed(p) \in Seq(SavedEvent) /\ Len(Listed(p)) = Len(c)
        /\ \A k \in 1 .. Len(c) : Listed(p)[k].due = events[c[k]].due
  BY KeptFacts
<1>3. /\ p.events = events /\ p.list = list
      /\ p = [events |-> events, list |-> list, lut |-> lut, numFree |-> numFree]
      /\ Pool' = [events |-> events', list |-> list', lut |-> lut', numFree |-> numFree']
  BY DEF Pool
<1>4. X = {}
  BY <1>1 DEF EventsInv
<1>5. 1 \in 1 .. Len(c) /\ c[1] = list /\ list \in Slots
  <2>1. p.list = At(c, 1) /\ \A k \in 1 .. Len(c) : c[k] \in Slots
    BY <1>2, ChainFacts DEF Sound, IsChain
  <2> QED BY <2>1, <1>1, <1>2, <1>3 DEF At
<1>6. Pool' = Unlinked(p, Nil, p.events[c[1]].next)
  BY <1>1, <1>3, <1>5 DEF Unlinked
<1> HIDE DEF p, X
<1>7. Sound(p, c, X) /\ Sorted(p, c) /\ 1 \in 1 .. Len(c)
  BY <1>2, <1>5
<1>8. /\ Sound(Unlinked(p, Nil, p.events[c[1]].next), Without(c, 1), X \cup {c[1]})
      /\ Sorted(Unlinked(p, Nil, p.events[c[1]].next), Without(c, 1))
      /\ Listed(Unlinked(p, Nil, p.events[c[1]].next)) = Tail(Listed(p))
  BY ONLY <1>7, FirstTaken
<1>9. X \cup {c[1]} = {i'} \ {Nil}
  BY <1>1, <1>4, <1>5
<1>10. EventsInv'
  <2>1. Kept(Pool', {i'} \ {Nil}, pc' = "out")
    <3>1. Without(c, 1) \in Seq(Slots)
      BY <1>2, <1>5, WithoutFacts
    <3> QED BY <3>1, <1>1, <1>6, <1>8, <1>9 DEF Kept
  <2>2. SavedOK(saved')
    BY <1>1 DEF EventsInv
  <2>3. pc' \in {"out", "tasks", "loop", "handler"} /\ i' \in Ends /\ (i' # Nil <=> pc' = "handler")
    BY <1>1, <1>5 DEF Ends
  <2> QED BY <2>1, <2>2, <2>3 DEF EventsInv
<1>11. Promise!Fire
  <2>1. Listed(p) # <<>> /\ Head(Listed(p)).due < 0
    BY <1>1, <1>2, <1>5
  <2>2. Listed(Pool') = Tail(Listed(p))
    BY <1>6, <1>8
  <2> QED BY <2>1, <2>2, <1>1 DEF Promise!Fire, p
<1> QED BY <1>10, <1>11

\* The handler returns: its slot is free, and the list is as it was.
LEMMA ReturnStep ==
  ASSUME EventsInv, HandlerReturns
  PROVE  EventsInv' /\ Promise!Fired
<1> DEFINE p == Pool
           X == {i} \ {Nil}
           q == Killed(p, i)
<1>1. pc = "handler" /\ pc' = "loop" /\ Becomes(q) /\ i' = Nil /\ saved' = saved
  BY DEF HandlerReturns
<1>2. PICK c \in Seq(Slots) : Sound(p, c, X) /\ Sorted(p, c) /\ Len(c) \in Nat
  BY KeptFacts
<1>3. i \in X /\ X \ {i} = {} /\ {i'} \ {Nil} = {}
  BY <1>1 DEF EventsInv
<1>4. \A k \in 1 .. Len(c) : c[k] \in Slots /\ c[k] # i
  <2>1. Placed(p, c, X) /\ i \in Slots
    BY <1>2, <1>3 DEF Sound
  <2>2. \A k \in 1 .. Len(c) : c[k] \in Slots
    BY <1>2
  <2> QED BY <2>1, <2>2, <1>3 DEF Placed, InList
<1> HIDE DEF p, X, q
<1>6. /\ Sound(q, c, {}) /\ \A t \in Slots : t # i => q.events[t] = p.events[t]
  <2> DEFINE s == i
  <2>1. Sound(p, c, X) /\ s \in X
    BY <1>2, <1>3
  <2>2. s = i /\ q = Killed(p, s)
    BY DEF q
  <2> HIDE DEF s
  <2>3. Sound(Killed(p, s), c, X \ {s})
    BY <2>1, KilledSound, Zenon
  <2>4. \A t \in Slots : t # s => Killed(p, s).events[t] = p.events[t]
    <3>1. p \in PoolType
      BY <2>1 DEF Sound
    <3>2. p.events \in [Slots -> Event]
      BY <3>1, PoolFacts
    <3>3. Killed(p, s).events = [p.events EXCEPT ![s] = Wiped]
      BY <3>1 DEF Killed, PoolType
    <3> QED BY <3>2, <3>3
  <2> QED BY <2>2, <2>3, <2>4, <1>3
<1>7. Pool' = q
  BY <1>1, <1>6, Becoming DEF Sound
<1>8. \A k \in 1 .. Len(c) : q.events[c[k]] = p.events[c[k]]
  BY <1>4, <1>6
<1>9. Sorted(q, c)
  BY <1>2, <1>8 DEF Sorted
<1>10. EventsInv'
  <2>1. Kept(Pool', {i'} \ {Nil}, pc' = "out")
    BY <1>1, <1>2, <1>3, <1>6, <1>7, <1>9 DEF Kept
  <2>2. SavedOK(saved')
    BY <1>1 DEF EventsInv
  <2>3. pc' \in {"out", "tasks", "loop", "handler"} /\ i' \in Ends /\ (i' # Nil <=> pc' = "handler")
    BY <1>1 DEF Ends
  <2> QED BY <2>1, <2>2, <2>3 DEF EventsInv
<1>11. Listed(q) = Listed(p)
  <2>1. /\ Listed(p) \in Seq(SavedEvent) /\ Len(Listed(p)) = Len(c)
        /\ \A k \in 1 .. Len(c) : Listed(p)[k] = Shown(p.events[c[k]])
    BY <1>2, ListedFacts
  <2>2. /\ Listed(q) \in Seq(SavedEvent) /\ Len(Listed(q)) = Len(c)
        /\ \A k \in 1 .. Len(c) : Listed(q)[k] = Shown(q.events[c[k]])
    BY <1>6, ListedFacts
  <2>3. \A k \in 1 .. Len(Listed(q)) : Listed(q)[k] = Listed(p)[k]
    BY <2>1, <2>2, <1>8
  <2> QED BY <2>1, <2>2, <2>3, SameSeq
<1>12. Promise!Fired
  <2>1. Listed(Pool') = Listed(Pool)
    BY <1>7, <1>11 DEF p
  <2> QED BY <2>1, <1>1 DEF Promise!Fired
<1> QED BY <1>10, <1>12

LEMMA SaveStep ==
  ASSUME EventsInv, Save
  PROVE  EventsInv' /\ Promise!Save
<1> DEFINE es == Listed(Pool)
<1>1. /\ pc = "out" /\ pc' = pc /\ i' = i /\ saved' = es
      /\ events' = events /\ list' = list /\ lut' = lut /\ numFree' = numFree
  BY DEF Save, poolVars
<1>2. Pool' = Pool
  BY <1>1 DEF Pool
<1>3. PICK c \in Seq(Slots) :
        /\ Sound(Pool, c, {i} \ {Nil}) /\ Sorted(Pool, c)
        /\ \A k \in 1 .. Len(c) : events[c[k]].due >= 0
        /\ es \in Seq(SavedEvent) /\ Len(es) = Len(c)
        /\ \A k \in 1 .. Len(c) : es[k].due = events[c[k]].due
  BY <1>1, KeptFacts
<1> HIDE DEF es
<1>4. SavedOK(es)
  <2>1. InOrder(es)
    <3>1. Pool.events = events
      BY DEF Pool
    <3> QED BY <1>3, <3>1 DEF InOrder, Sorted
  <2>2. Len(es) <= NumEvents
    BY <1>3, ChainOfSound
  <2> QED BY <2>1, <2>2, <1>3 DEF SavedOK
<1>5. EventsInv'
  <2>1. Kept(Pool', {i'} \ {Nil}, pc' = "out")
    BY <1>1, <1>2 DEF EventsInv
  <2>2. pc' \in {"out", "tasks", "loop", "handler"} /\ i' \in Ends /\ (i' # Nil <=> pc' = "handler")
    BY <1>1 DEF EventsInv
  <2> QED BY <2>1, <2>2, <1>1, <1>4 DEF EventsInv
<1>6. Promise!Save
  BY <1>1, <1>2 DEF Promise!Save, es
<1> QED BY <1>5, <1>6

LEMMA LoadStep ==
  ASSUME EventsInv, Load
  PROVE  EventsInv' /\ Promise!Load
<1> DEFINE es == saved
           q == Restored(es)[Len(es)]
<1>1. pc = "out" /\ Becomes(q) /\ pc' = pc /\ i' = i /\ saved' = es
  BY DEF Load
<1>2. es \in Seq(SavedEvent) /\ InOrder(es) /\ Len(es) <= NumEvents
      /\ \A k \in 1 .. Len(es) : es[k].due >= 0
  BY DEF EventsInv, SavedOK
<1>3. {i} \ {Nil} = {}
  BY <1>1 DEF EventsInv
<1> HIDE DEF es
<1>4. PICK d \in Seq(Slots) :
        /\ Sound(q, d, {}) /\ Sorted(q, d) /\ Len(d) = Len(es)
        /\ \A k \in 1 .. Len(es) : Shown(q.events[d[k]]) = es[k]
  BY <1>2, RestoredFacts
<1> HIDE DEF q
<1>5. Pool' = q
  BY <1>1, <1>4, Becoming DEF Sound
<1>6. Kept(q, {i} \ {Nil}, pc = "out")
  <2>1. \A k \in 1 .. Len(d) : q.events[d[k]].due >= 0
    <3>1. \A e : Shown(e).due = e.due
      BY DEF Shown
    <3> TAKE k \in 1 .. Len(d)
    <3>2. k \in 1 .. Len(es) /\ Shown(q.events[d[k]]) = es[k]
      BY <1>4
    <3>3. q.events[d[k]].due = es[k].due
      BY <3>1, <3>2
    <3> QED BY <3>2, <3>3, <1>2
  <2> QED BY <2>1, <1>3, <1>4 DEF Kept
<1>7. EventsInv'
  BY <1>1, <1>5, <1>6, VerbKeeps DEF es
<1>8. Listed(q) = es
  <2>1. /\ Listed(q) \in Seq(SavedEvent) /\ Len(Listed(q)) = Len(d)
        /\ \A k \in 1 .. Len(d) : Listed(q)[k] = Shown(q.events[d[k]])
    BY <1>4, ListedFacts
  <2> QED BY <2>1, <1>2, <1>4, SameSeq
<1>9. Promise!Load
  BY <1>1, <1>5, <1>8 DEF Promise!Load, es
<1> QED BY <1>7, <1>9

LEMMA CloseStep ==
  ASSUME EventsInv, Close
  PROVE  EventsInv' /\ Promise!Clear
<1>1. pc = "out" /\ Becomes(EmptyPool) /\ pc' = pc /\ i' = i /\ saved' = saved
  BY DEF Close
<1>2. {i} \ {Nil} = {}
  BY <1>1 DEF EventsInv
<1>3. Pool' = EmptyPool
  BY <1>1, EmptySound, Becoming DEF Sound
<1>4. Kept(EmptyPool, {i} \ {Nil}, pc = "out")
  <2>1. <<>> \in Seq(Slots) /\ \A k \in 1 .. Len(<<>>) : EmptyPool.events[<<>>[k]].due >= 0
    OBVIOUS
  <2> QED BY <2>1, <1>2, EmptySound DEF Kept
<1>5. EventsInv'
  BY <1>1, <1>3, <1>4, VerbKeeps
<1>6. Listed(EmptyPool) = <<>>
  <2>1. Listed(EmptyPool) \in Seq(SavedEvent) /\ Len(Listed(EmptyPool)) = Len(<<>>)
    BY EmptySound, ListedFacts
  <2> QED BY <2>1
<1>7. Promise!Clear
  BY <1>1, <1>3, <1>6 DEF Promise!Clear
<1> QED BY <1>5, <1>7

-----------------------------------------------------------------------------
(* Theorems.                                                               *)

\* A step keeps the invariant, and is a step of Timers or changes nothing Timers speaks of.
LEMMA NextStep ==
  ASSUME EventsInv, [Next]_vars
  PROVE  EventsInv' /\ [Promise!Next]_(Promise!vars)
<1>1. ASSUME NEW n \in Names, KillTimerEx(n) PROVE EventsInv' /\ Promise!Next
  BY <1>1, KillStep DEF Promise!Next
<1>2. ASSUME NEW n \in Names, NEW w \in Delays, SetTimerEx(n, w) PROVE EventsInv' /\ Promise!Next
  BY <1>2, SetStep DEF Promise!Next
<1>3. CASE Tick
  BY <1>3, TickStep DEF Promise!Next
<1>4. CASE RunTasks
  BY <1>4, TasksStep
<1>5. CASE FireFirst
  BY <1>5, FireStep DEF Promise!Next
<1>6. CASE HandlerReturns
  BY <1>6, ReturnStep DEF Promise!Next
<1>7. CASE NoneDue
  BY <1>7, NoneDueStep
<1>8. CASE Save
  BY <1>8, SaveStep DEF Promise!Next
<1>9. CASE Load
  BY <1>9, LoadStep DEF Promise!Next
<1>10. CASE Close
  BY <1>10, CloseStep DEF Promise!Next
<1>11. CASE UNCHANGED vars
  <2>1. pc' = pc /\ i' = i /\ saved' = saved /\ Pool' = Pool
    BY <1>11 DEF vars, poolVars, Pool
  <2>2. EventsInv'
    BY <2>1 DEF EventsInv, Kept, SavedOK
  <2>3. UNCHANGED Promise!vars
    BY <2>1 DEF Promise!vars
  <2> QED BY <2>2, <2>3
<1> QED
  BY <1>1, <1>2, <1>3, <1>4, <1>5, <1>6, <1>7, <1>8, <1>9, <1>10, <1>11 DEF Next

\* The inductive invariant holds in every reachable state.
THEOREM EventsInvariance == Spec => []EventsInv
<1>1. EventsInv /\ [Next]_vars => EventsInv'
  BY NextStep
<1> QED BY InitEventsInv, <1>1, PTL DEF Spec

\* Pool and list, from inside whose loop scripts set and kill events, do what Timers
\* promises, whatever the number of slots, the delays and the frames.
THEOREM PromiseKept == Spec => KeepsThePromise
<1>1. Init => Promise!Init
  <2> SUFFICES ASSUME Init PROVE Promise!Init
    OBVIOUS
  <2>1. Pool = EmptyPool /\ pc = "out" /\ saved = <<>>
    BY DEF Init, Pool, EmptyPool
  <2>2. Listed(EmptyPool) \in Seq(SavedEvent) /\ Len(Listed(EmptyPool)) = Len(<<>>)
    BY EmptySound, ListedFacts
  <2>3. Listed(Pool) = <<>>
    BY <2>1, <2>2
  <2> QED BY <2>1, <2>3 DEF Promise!Init
<1>2. EventsInv /\ [Next]_vars => [Promise!Next]_(Promise!vars)
  BY NextStep
<1> QED BY <1>1, <1>2, EventsInvariance, PTL DEF Spec, KeepsThePromise, Promise!Spec

\* As many elements as an injective function has arguments.
LEMMA Counting ==
  ASSUME NEW S, IsFiniteSet(S), NEW f, NEW T,
         \A k \in S : f[k] \in T, \A t \in T : \E k \in S : f[k] = t,
         \A j, k \in S : f[j] = f[k] => j = k
  PROVE  Cardinality(T) = Cardinality(S)
<1> DEFINE g == [k \in S |-> f[k]]
<1>1. g \in Surjection(S, T) /\ g \in Injection(S, T)
  BY DEF Surjection, Injection, IsInjective
<1> HIDE DEF g
<1> QED BY <1>1, FS_Surjection

\* Every slot is in one place, so that none is lost and the list has no circle.
THEOREM EverySlotOnceHolds == Spec => []EverySlotOnce
<1>1. ASSUME EventsInv PROVE EverySlotOnce
  <2> DEFINE free == {lut[k] : k \in 0 .. numFree - 1}
             X == {i} \ {Nil}
  <2>1. PICK c \in Seq(Slots) : Sound(Pool, c, X) /\ Chain(Pool) = c /\ numFree \in Nat
    BY <1>1, KeptFacts
  <2>2. Pool.lut = lut /\ Pool.numFree = numFree
    BY DEF Pool
  <2>3. \A s : s \in free <=> InFree(Pool, s)
    BY <2>2 DEF InFree
  <2>4. \A s : s \in Range(c) <=> InList(c, s)
    BY DEF Range, InList
  <2>5. Placed(Pool, c, X) /\ StackOnce(Pool) /\ IsChain(Pool, c) /\ X \in SUBSET Slots
    BY <2>1 DEF Sound
  <2>6. free \subseteq Slots /\ Range(c) \subseteq Slots
    <3>1. \A k \in 0 .. numFree - 1 : lut[k] \in Slots
      BY <2>1, <2>2, PoolFacts DEF Sound
    <3> QED BY <3>1 DEF Range
  <2> HIDE DEF free, X
  <2>7. free \cap (Range(c) \cup X) = {} /\ free \cup (Range(c) \cup X) = Slots
    BY <2>3, <2>4, <2>5, <2>6 DEF Placed
  <2>8. i \notin Range(c)
    <3>1. CASE i = Nil
      BY <3>1, <2>6, EventsFacts
    <3>2. CASE i # Nil
      <4>1. i \in X /\ i \in Slots
        BY <3>2, <2>5 DEF X
      <4> QED BY <4>1, <2>4, <2>5 DEF Placed
    <3> QED BY <3>1, <3>2
  <2>9. Cardinality(free) = numFree
    <3> DEFINE S == 0 .. numFree - 1
    <3>1. IsFiniteSet(S) /\ Cardinality(S) = numFree
      <4>1. 0 \in Int /\ numFree - 1 \in Int
        BY <2>1
      <4>2. IsFiniteSet(S) /\ Cardinality(S) = IF 0 > numFree - 1 THEN 0 ELSE numFree - 1 - 0 + 1
        BY <4>1, FS_Interval
      <4> QED BY <4>2, <2>1
    <3>2. /\ \A k \in 0 .. numFree - 1 : lut[k] \in free
          /\ \A s \in free : \E k \in 0 .. numFree - 1 : lut[k] = s
      BY DEF free
    <3>3. \A j, k \in 0 .. numFree - 1 : lut[j] = lut[k] => j = k
      BY <2>2, <2>5 DEF StackOnce
    <3> DEFINE f == lut
    <3>4. /\ IsFiniteSet(S)
          /\ \A k \in S : f[k] \in free
          /\ \A t \in free : \E k \in S : f[k] = t
          /\ \A j, k \in S : f[j] = f[k] => j = k
      BY <3>1, <3>2, <3>3
    <3> HIDE DEF S, f
    <3>5. Cardinality(free) = Cardinality(S)
      BY ONLY <3>4, Counting
    <3> QED BY <3>1, <3>5
  <2>10. Len(c) = Cardinality(Range(c))
    <3> DEFINE S == 1 .. Len(c)
    <3>1. IsFiniteSet(S) /\ Cardinality(S) = Len(c)
      <4>1. 1 \in Int /\ Len(c) \in Int /\ Len(c) \in Nat
        OBVIOUS
      <4>2. IsFiniteSet(S) /\ Cardinality(S) = IF 1 > Len(c) THEN 0 ELSE Len(c) - 1 + 1
        BY <4>1, FS_Interval
      <4> QED BY <4>1, <4>2
    <3>2. /\ \A k \in 1 .. Len(c) : c[k] \in Range(c)
          /\ \A s \in Range(c) : \E k \in 1 .. Len(c) : c[k] = s
      BY <2>4 DEF InList
    <3>3. \A j, k \in 1 .. Len(c) : c[j] = c[k] => j = k
      BY <2>5 DEF IsChain
    <3> HIDE DEF S
    <3>4. Cardinality(Range(c)) = Cardinality(S)
      BY <3>1, <3>2, <3>3, Counting DEF S
    <3> QED BY <3>1, <3>4
  <2> QED BY <2>1, <2>7, <2>8, <2>9, <2>10 DEF EverySlotOnce, free, X
<1>2. EventsInv => EverySlotOnce
  BY <1>1
<1> QED BY <1>2, EventsInvariance, PTL
=============================================================================
