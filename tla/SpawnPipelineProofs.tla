------------------------- MODULE SpawnPipelineProofs -------------------------
(***************************************************************************)
(* Proofs about SpawnPipeline, for any level, models, keys and bounds.     *)
(* Whatever situations come up: the types, that the table of things has    *)
(* each once and none that is gone, that host and core mean one preview    *)
(* (Rooted).  With room, templates, nothing left over and no preview       *)
(* removed: objects and standing things belong together, and the rows come *)
(* back (Sound).  The second is inductive with the first.                  *)
(***************************************************************************)
EXTENDS SpawnPipeline, FiniteSetTheorems, SequenceTheorems, WellFoundedInduction, TLAPS

-----------------------------------------------------------------------------
(* Sequences: the first match, and one element less.                       *)

\* A non-empty set of naturals has a least element, which Min chooses.
LEMMA MinExists ==
  ASSUME NEW S \in SUBSET Nat, S # {}
  PROVE  Min(S) \in S
<1>1. PICK k \in S : \A l \in S : ~ (<<l, k>> \in OpToRel(<, Nat))
  BY NatLessThanWellFounded, WFMin
<1>2. \A l \in S : ~ (l < k)
  BY <1>1 DEF OpToRel
<1>3. \A l \in S : k <= l
  <2>1. \A l \in S : l \in Nat /\ k \in Nat
    OBVIOUS
  <2> QED BY <1>2, <2>1
<1> QED BY <1>3 DEF Min

HasObject(os, t) == \E j \in DOMAIN os : os[j].thing = t

Distinct(os) == \A j, k \in DOMAIN os : os[j].thing = os[k].thing => j = k

\* A lookup finds an object of the thing if there is one.
LEMMA FindFacts ==
  ASSUME NEW os \in Seq(Object), NEW t
  PROVE  /\ Find(os, t) # 0 => Find(os, t) \in DOMAIN os /\ os[Find(os, t)].thing = t
         /\ Find(os, t) = 0 <=> ~HasObject(os, t)
<1> DEFINE I == {i \in 1 .. Len(os) : os[i].thing = t}
<1>1. Find(os, t) = IF I # {} THEN Min(I) ELSE 0
  BY DEF Find, SelectInSeq
<1>2. I \in SUBSET Nat /\ 0 \notin I /\ DOMAIN os = 1 .. Len(os)
  OBVIOUS
<1>3. I # {} => Min(I) \in I
  BY <1>2, MinExists
<1> QED BY <1>1, <1>2, <1>3 DEF HasObject

\* The first move request for a registered thing is one.
LEMMA FirstFacts ==
  ASSUME NEW q \in Seq(Slots), NEW h, FirstRegistered(q, h) # 0
  PROVE  q[FirstRegistered(q, h)] \in Slots /\ h.registered[q[FirstRegistered(q, h)]] > 0
<1> DEFINE I == {i \in 1 .. Len(q) : h.registered[q[i]] > 0}
<1>1. FirstRegistered(q, h) = IF I # {} THEN Min(I) ELSE 0
  BY DEF FirstRegistered, SelectInSeq
<1>2. I \in SUBSET Nat /\ 0 \notin I /\ DOMAIN q = 1 .. Len(q)
  OBVIOUS
<1>3. I # {} => Min(I) \in I
  BY <1>2, MinExists
<1>4. FirstRegistered(q, h) \in I
  BY <1>1, <1>3
<1> QED BY <1>2, <1>4

\* Without one element, those behind it move up.
LEMMA Erased ==
  ASSUME NEW os \in Seq(Object), NEW k \in DOMAIN os
  PROVE  /\ RemoveAt(os, k) \in Seq(Object) /\ DOMAIN RemoveAt(os, k) = 1 .. Len(os) - 1
         /\ \A j \in 1 .. Len(os) - 1 : RemoveAt(os, k)[j] = IF j < k THEN os[j] ELSE os[j + 1]
<1> DEFINE a == SubSeq(os, 1, k - 1)
           b == SubSeq(os, k + 1, Len(os))
<1>1. k \in 1 .. Len(os) /\ Len(os) \in Nat
  OBVIOUS
<1>2. a \in Seq(Object) /\ Len(a) = k - 1 /\ \A j \in 1 .. k - 1 : a[j] = os[j]
  BY <1>1
<1>3. b \in Seq(Object) /\ Len(b) = Len(os) - k /\ \A j \in 1 .. Len(os) - k : b[j] = os[j + k]
  BY <1>1
<1>4. RemoveAt(os, k) = a \o b
  BY DEF RemoveAt
<1> HIDE DEF a, b
<1>5. /\ Len(a \o b) = (k - 1) + (Len(os) - k) /\ a \o b \in Seq(Object)
      /\ \A j \in 1 .. (k - 1) + (Len(os) - k) :
           (a \o b)[j] = IF j <= k - 1 THEN a[j] ELSE b[j - (k - 1)]
  <2>1. a \in Seq(Object) /\ b \in Seq(Object) /\ Len(a) = k - 1 /\ Len(b) = Len(os) - k
    BY <1>2, <1>3
  <2>2. /\ Len(a \o b) = Len(a) + Len(b) /\ a \o b \in Seq(Object)
        /\ \A j \in 1 .. Len(a) + Len(b) : (a \o b)[j] = IF j <= Len(a) THEN a[j] ELSE b[j - Len(a)]
    BY <2>1, ConcatProperties
  <2> QED BY <2>1, <2>2
<1>6. ASSUME NEW j \in 1 .. Len(os) - 1
      PROVE  (a \o b)[j] = IF j < k THEN os[j] ELSE os[j + 1]
  <2>1. CASE j < k
    <3>1. j \in 1 .. k - 1 /\ j \in 1 .. (k - 1) + (Len(os) - k) /\ j <= k - 1
      BY <2>1, <1>1
    <3> QED BY <2>1, <3>1, <1>2, <1>5
  <2>2. CASE ~(j < k)
    <3> DEFINE l == j - (k - 1)
    <3>1. /\ l \in 1 .. Len(os) - k /\ l + k = j + 1
          /\ j \in 1 .. (k - 1) + (Len(os) - k) /\ ~(j <= k - 1)
      BY <2>2, <1>1
    <3>2. (a \o b)[j] = b[l]
      BY <3>1, <1>5
    <3> HIDE DEF l
    <3>3. b[l] = os[l + k]
      BY <3>1, <1>3
    <3> QED BY <2>2, <3>1, <3>2, <3>3
  <2> QED BY <2>1, <2>2
<1>7. DOMAIN (a \o b) = 1 .. Len(os) - 1
  <2>1. (k - 1) + (Len(os) - k) = Len(os) - 1 /\ Len(os) - 1 \in Nat
    BY <1>1
  <2> QED BY <2>1, <1>5
<1> QED BY <1>4, <1>5, <1>6, <1>7

\* What is left of the objects when one is taken out.
LEMMA ErasedObjects ==
  ASSUME NEW os \in Seq(Object), NEW k \in DOMAIN os
  PROVE  LET e == RemoveAt(os, k)
         IN  /\ \A j \in DOMAIN e : \E i \in DOMAIN os \ {k} : e[j] = os[i]
             /\ \A i \in DOMAIN os \ {k} : \E j \in DOMAIN e : e[j] = os[i]
             /\ Distinct(os) => Distinct(e)
<1> DEFINE e == RemoveAt(os, k)
           At(j) == IF j < k THEN j ELSE j + 1
<1>1. k \in 1 .. Len(os) /\ DOMAIN os = 1 .. Len(os) /\ Len(os) \in Nat
  OBVIOUS
<1>2. DOMAIN e = 1 .. Len(os) - 1 /\ \A j \in 1 .. Len(os) - 1 : e[j] = os[At(j)]
  BY Erased
<1> HIDE DEF e
<1>3. \A j \in DOMAIN e : At(j) \in DOMAIN os \ {k} /\ e[j] = os[At(j)]
  BY <1>1, <1>2
<1>4. ASSUME NEW i \in DOMAIN os \ {k} PROVE \E j \in DOMAIN e : e[j] = os[i]
  <2>1. CASE i < k
    BY <2>1, <1>1, <1>2
  <2>2. CASE i > k
    <3>1. i - 1 \in DOMAIN e /\ At(i - 1) = i
      BY <2>2, <1>1, <1>2
    <3> QED BY <3>1, <1>3
  <2> QED BY <2>1, <2>2, <1>1
<1>5. ASSUME Distinct(os), NEW i \in DOMAIN e, NEW j \in DOMAIN e, e[i].thing = e[j].thing
      PROVE  i = j
  <2>1. At(i) = At(j)
    BY <1>3, <1>5 DEF Distinct
  <2> QED BY <2>1, <1>1, <1>2
<1> QED BY <1>3, <1>4, <1>5 DEF Distinct, e

-----------------------------------------------------------------------------
(* Slots of things.                                                        *)

StandingIn(w, t) == w[t].state = "live" /\ w[t].model # Engine

\* A new thing takes a slot where nothing stands, and what stands elsewhere stays.
LEMMA CreateFacts ==
  ASSUME NEW w \in World, NEW m \in Models \cup {Engine}, NEW c \in Create(w, m)
  PROVE  /\ c.world \in World /\ c.thing \in Slots \cup {NoThing}
         /\ \A u \in Slots : StandingIn(w, u) => c.world[u] = w[u] /\ u # c.thing
         /\ \A u \in Slots : StandingIn(c.world, u) => u = c.thing \/ StandingIn(w, u)
         /\ c.thing \in Slots => c.world[c.thing] = [state |-> "live", model |-> m, solid |-> TRUE]
         /\ Free(w) # {} => c.thing \in Free(w) /\ Free(c.world) = Free(w) \ {c.thing}
<1> DEFINE w1 == IF Free(w) = {} THEN Freed(w, Going(w) \cap Swept) ELSE w
           n  == [state |-> "live", model |-> m, solid |-> TRUE]
<1>1. n \in Thing /\ Vacant \in Thing
  BY DEF Thing, Vacant
<1>2. w1 \in World
  BY <1>1 DEF World, Freed
<1>3. \A u \in Slots : StandingIn(w, u) => w1[u] = w[u] /\ u \notin Free(w1)
  BY DEF StandingIn, Freed, Free, Going
<1>4. \A u \in Slots : StandingIn(w1, u) => StandingIn(w, u)
  BY DEF StandingIn, Freed, Vacant
<1>5. \/ Free(w1) = {} /\ c = [world |-> w1, thing |-> NoThing]
      \/ \E t \in Free(w1) : c = [world |-> [w1 EXCEPT ![t] = n], thing |-> t]
  BY DEF Create
<1>6. Free(w) # {} => w1 = w
  OBVIOUS
<1> HIDE DEF w1, n
<1>7. CASE Free(w1) = {} /\ c = [world |-> w1, thing |-> NoThing]
  BY <1>2, <1>3, <1>4, <1>6, <1>7, SizesAssumption
<1>8. ASSUME NEW t \in Free(w1), c = [world |-> [w1 EXCEPT ![t] = n], thing |-> t]
      PROVE  /\ c.world \in World /\ c.thing \in Slots
             /\ \A u \in Slots : StandingIn(w, u) => c.world[u] = w[u] /\ u # c.thing
             /\ \A u \in Slots : StandingIn(c.world, u) => u = c.thing \/ StandingIn(w, u)
             /\ c.world[c.thing] = n
             /\ Free(w) # {} => c.thing \in Free(w) /\ Free(c.world) = Free(w) \ {c.thing}
  <2>1. t \in Slots /\ c.thing = t /\ c.world = [w1 EXCEPT ![t] = n]
    BY <1>8 DEF Free
  <2>2. c.world[t] = n /\ \A u \in Slots \ {t} : c.world[u] = w1[u]
    BY <2>1, <1>2 DEF World
  <2>3. c.world \in World
    BY <2>1, <1>1, <1>2 DEF World
  <2>4. \A u \in Slots : StandingIn(w, u) => c.world[u] = w[u] /\ u # t
    BY <2>2, <1>3
  <2>5. \A u \in Slots : StandingIn(c.world, u) => u = t \/ StandingIn(w, u)
    BY <2>2, <1>4 DEF StandingIn
  <2>6. n.state = "live"
    BY DEF n
  <2>7. Free(c.world) = Free(w1) \ {t}
    BY <2>2, <2>6 DEF Free
  <2> QED BY <2>1, <2>2, <2>3, <2>4, <2>5, <2>7, <1>6
<1> QED BY <1>5, <1>7, <1>8 DEF n

LEMMA DestroyedFacts ==
  ASSUME NEW w \in World, NEW S
  PROVE  /\ Destroyed(w, S) \in World /\ Free(Destroyed(w, S)) = Free(w)
         /\ \A u \in Slots \ S : Destroyed(w, S)[u] = w[u]
         /\ \A u \in Slots : StandingIn(Destroyed(w, S), u) <=> StandingIn(w, u) /\ u \notin S
<1> DEFINE d == Destroyed(w, S)
<1>1. \A u \in Slots : d[u] = IF u \in S /\ w[u].state # "free" THEN [w[u] EXCEPT !.state = "going"]
                              ELSE w[u]
  BY DEF Destroyed
<1>2. \A u \in Slots : w[u] \in Thing
  BY DEF World
<1>3. d \in World
  <2>1. \A u \in Slots : d[u] \in Thing
    BY <1>1, <1>2 DEF Thing
  <2> QED BY <2>1 DEF World, Destroyed
<1> HIDE DEF d
<1>4. \A u \in Slots : d[u].state = "free" <=> w[u].state = "free"
  BY <1>1, <1>2 DEF Thing
<1>5. \A u \in Slots : StandingIn(d, u) <=> StandingIn(w, u) /\ u \notin S
  BY <1>1, <1>2 DEF Thing, StandingIn
<1> QED BY <1>1, <1>3, <1>4, <1>5 DEF d, Free

LEMMA SolidFacts ==
  ASSUME NEW w \in World, NEW t \in Slots, NEW b \in BOOLEAN
  PROVE  /\ WithSolid(w, t, b) \in World /\ Free(WithSolid(w, t, b)) = Free(w)
         /\ \A u \in Slots : /\ StandingIn(WithSolid(w, t, b), u) <=> StandingIn(w, u)
                             /\ WithSolid(w, t, b)[u].solid = IF u = t THEN b ELSE w[u].solid
<1> DEFINE d == WithSolid(w, t, b)
<1>1. \A u \in Slots : w[u] \in Thing
  BY DEF World
<1>2. \A u \in Slots : d[u] = IF u = t THEN [w[u] EXCEPT !.solid = b] ELSE w[u]
  BY DEF WithSolid, World
<1>3. d \in World
  <2>1. \A u \in Slots : d[u] \in Thing
    BY <1>1, <1>2 DEF Thing
  <2> QED BY <2>1 DEF World, WithSolid
<1> HIDE DEF d
<1>4. \A u \in Slots : /\ d[u].state = w[u].state /\ d[u].model = w[u].model
                       /\ d[u].solid = IF u = t THEN b ELSE w[u].solid
  BY <1>1, <1>2 DEF Thing
<1> QED BY <1>3, <1>4 DEF d, Free, StandingIn

\* Whether a thing can be run into has nothing to do with which things stand.
LEMMA SolidStanding ==
  ASSUME NEW w \in World, NEW t \in Slots, NEW v \in Slots
  PROVE  /\ StandingIn(WithSolid(w, t, FALSE), v) <=> StandingIn(w, v)
         /\ StandingIn(WithSolid(w, t, TRUE), v) <=> StandingIn(w, v)
BY SolidFacts, FALSE \in BOOLEAN, TRUE \in BOOLEAN

\* A thing made again stands in a slot where nothing stood or where it was itself.
LEMMA RemadeFacts ==
  ASSUME NEW s, s.world \in World, NEW old, NEW m \in Models, NEW c \in Remade(s, old, m)
  PROVE  /\ c.world \in World /\ c.thing \in Slots \cup {NoThing}
         /\ \A u \in Slots \ {old} : StandingIn(s.world, u) => u # c.thing /\ c.world[u] = s.world[u]
         /\ \A u \in Slots : StandingIn(c.world, u) => u = c.thing \/ (StandingIn(s.world, u) /\ u # old)
         /\ c.thing \in Slots => c.world[c.thing] = [state |-> "live", model |-> m, solid |-> TRUE]
         /\ c.thing \in Slots => StandingIn(c.world, c.thing)
         /\ Free(s.world) # {} /\ "noTemplate" \notin Occurs =>
              c.thing \in Free(s.world) /\ Free(c.world) = Free(s.world) \ {c.thing}
<1> DEFINE d == Destroyed(s.world, {old})
<1>1. /\ d \in World /\ Free(d) = Free(s.world) /\ \A u \in Slots \ {old} : d[u] = s.world[u]
      /\ \A u \in Slots : StandingIn(d, u) <=> StandingIn(s.world, u) /\ u # old
  BY DestroyedFacts
<1>2. c \in Create(d, m) \/ ("noTemplate" \in Occurs /\ c = [world |-> d, thing |-> NoThing])
  BY DEF Remade
<1> HIDE DEF d
<1>3. CASE c \in Create(d, m)
  <2>1. /\ c.world \in World /\ c.thing \in Slots \cup {NoThing}
        /\ \A u \in Slots : StandingIn(d, u) => c.world[u] = d[u] /\ u # c.thing
        /\ \A u \in Slots : StandingIn(c.world, u) => u = c.thing \/ StandingIn(d, u)
        /\ c.thing \in Slots => c.world[c.thing] = [state |-> "live", model |-> m, solid |-> TRUE]
        /\ Free(d) # {} => c.thing \in Free(d) /\ Free(c.world) = Free(d) \ {c.thing}
    BY <1>1, <1>3, CreateFacts
  <2>2. c.thing \in Slots => StandingIn(c.world, c.thing)
    BY <2>1, ModelsAssumption DEF StandingIn
  <2> QED BY <1>1, <2>1, <2>2
<1>4. CASE "noTemplate" \in Occurs /\ c = [world |-> d, thing |-> NoThing]
  <2>1. c.world = d /\ c.thing = NoThing /\ NoThing \notin Slots
    BY <1>4, SizesAssumption
  <2> QED BY <1>1, <1>4, <2>1
<1> QED BY <1>2, <1>3, <1>4

-----------------------------------------------------------------------------
(* Objects, the table of things, and the parts of a frame: types, and what *)
(* each leaves alone.                                                      *)

LEMMA WithThingFacts ==
  ASSUME NEW os \in Seq(Object), NEW t, NEW new \in Slots
  PROVE  LET w == WithThing(os, t, new)
         IN  /\ w \in Seq(Object) /\ DOMAIN w = DOMAIN os
             /\ \A j \in DOMAIN os : w[j].key = os[j].key
             /\ Distinct(os) => \A j \in DOMAIN os :
                  w[j].thing = IF os[j].thing = t THEN new ELSE os[j].thing
<1> DEFINE w == WithThing(os, t, new)
           f == Find(os, t)
<1>1. \A j \in DOMAIN os : os[j] \in Object
  OBVIOUS
<1>2. CASE f = 0
  <2>1. w = os
    BY <1>2 DEF WithThing
  <2>2. \A j \in DOMAIN os : os[j].thing # t
    BY <1>2, FindFacts DEF HasObject
  <2> QED BY <2>1, <2>2
<1>3. CASE f # 0
  <2>1. f \in DOMAIN os /\ os[f].thing = t
    BY <1>3, FindFacts
  <2>2. w = [os EXCEPT ![f] = [os[f] EXCEPT !.thing = new]]
    BY <1>3, <2>1 DEF WithThing
  <2> HIDE DEF w, f
  <2>3. [os[f] EXCEPT !.thing = new] \in Object /\ [os[f] EXCEPT !.thing = new].thing = new
        /\ [os[f] EXCEPT !.thing = new].key = os[f].key
    BY <1>1, <2>1 DEF Object
  <2>4. w \in Seq(Object) /\ DOMAIN w = DOMAIN os
    BY <2>1, <2>2, <2>3
  <2>5. \A j \in DOMAIN os : w[j] = IF j = f THEN [os[f] EXCEPT !.thing = new] ELSE os[j]
    BY <2>1, <2>2
  <2>6. \A j \in DOMAIN os : w[j].key = os[j].key
    BY <2>3, <2>5
  <2>7. ASSUME Distinct(os), NEW j \in DOMAIN os
        PROVE  w[j].thing = IF os[j].thing = t THEN new ELSE os[j].thing
    BY <2>1, <2>3, <2>5, <2>7 DEF Distinct
  <2> QED BY <2>4, <2>6, <2>7 DEF w
<1> QED BY <1>2, <1>3

LEMMA WithoutThingFacts ==
  ASSUME NEW os \in Seq(Object), NEW t
  PROVE  LET w == WithoutThing(os, t)
         IN  /\ w \in Seq(Object)
             /\ \A j \in DOMAIN w : \E i \in DOMAIN os : w[j] = os[i]
             /\ \A i \in DOMAIN os : os[i].thing # t => \E j \in DOMAIN w : w[j] = os[i]
             /\ Distinct(os) => Distinct(w) /\ ~HasObject(w, t)
<1> DEFINE f == Find(os, t)
<1>1. CASE f = 0
  <2>1. WithoutThing(os, t) = os /\ ~HasObject(os, t)
    BY <1>1, FindFacts DEF WithoutThing
  <2> QED BY <2>1
<1>2. CASE f # 0
  <2>1. f \in DOMAIN os /\ os[f].thing = t /\ WithoutThing(os, t) = RemoveAt(os, f)
    BY <1>2, FindFacts DEF WithoutThing
  <2> HIDE DEF f
  <2>2. RemoveAt(os, f) \in Seq(Object)
    BY <2>1, Erased
  <2>3. /\ \A j \in DOMAIN RemoveAt(os, f) : \E i \in DOMAIN os \ {f} : RemoveAt(os, f)[j] = os[i]
        /\ \A i \in DOMAIN os \ {f} : \E j \in DOMAIN RemoveAt(os, f) : RemoveAt(os, f)[j] = os[i]
        /\ Distinct(os) => Distinct(RemoveAt(os, f))
    BY <2>1, ErasedObjects
  <2>4. Distinct(os) => ~HasObject(RemoveAt(os, f), t)
    BY <2>1, <2>3 DEF HasObject, Distinct
  <2> QED BY <2>1, <2>2, <2>3, <2>4
<1> QED BY <1>1, <1>2

LEMMA ModelOfFacts ==
  ASSUME NEW os \in Seq(Object), NEW t
  PROVE  /\ ModelOf(os, t) \in Models \cup {NoModel}
         /\ HasObject(os, t) => ModelOf(os, t) # NoModel
<1>1. \A j \in DOMAIN os : os[j].model \in Models
  <2>1. \A j \in DOMAIN os : os[j] \in Object
    OBVIOUS
  <2> QED BY <2>1 DEF Object
<1>2. CASE Find(os, t) = 0
  <2>1. ~HasObject(os, t)
    BY <1>2, FindFacts
  <2> QED BY <1>2, <2>1 DEF ModelOf
<1>3. CASE Find(os, t) # 0
  <2>1. Find(os, t) \in DOMAIN os
    BY <1>3, FindFacts
  <2> QED BY <1>1, <1>3, <2>1, ModelsAssumption DEF ModelOf
<1> QED BY <1>2, <1>3

\* The fields of the core that the rows are judged by.
SameRows(c, d) == d.missed = c.missed /\ d.instance = c.instance

\* confirmSpawn changes the scale of one object at most.
LEMMA ConfirmedFacts ==
  ASSUME NEW c \in Core, NEW t
  PROVE  LET d == Confirmed(c, t)
         IN  /\ d \in Core /\ DOMAIN d.objects = DOMAIN c.objects
             /\ \A j \in DOMAIN c.objects :
                  d.objects[j].thing = c.objects[j].thing /\ d.objects[j].key = c.objects[j].key
             /\ d.preview = c.preview /\ SameRows(c, d)
<1> DEFINE f == Find(c.objects, t)
           n == [c.objects[f] EXCEPT !.scale = c.slider]
           d == Confirmed(c, t)
<1>1. c.objects \in Seq(Object) /\ c.slider \in Scales /\ \A j \in DOMAIN c.objects : c.objects[j] \in Object
  BY DEF Core
<1>2. CASE d = c
  BY <1>2 DEF SameRows
<1>3. CASE d # c
  <2>1. f # 0 /\ d = [c EXCEPT !.objects = [c.objects EXCEPT ![f] = n]]
    BY <1>3 DEF Confirmed
  <2>2. f \in DOMAIN c.objects
    BY <2>1, <1>1, FindFacts
  <2> HIDE DEF f
  <2>3. n \in Object /\ n.thing = c.objects[f].thing /\ n.key = c.objects[f].key
    BY <1>1, <2>2 DEF Object
  <2> HIDE DEF n, d
  <2> DEFINE os == [c.objects EXCEPT ![f] = n]
  <2>4. os \in Seq(Object) /\ DOMAIN os = DOMAIN c.objects
    BY <1>1, <2>2, <2>3
  <2>5. \A j \in DOMAIN c.objects : os[j].thing = c.objects[j].thing /\ os[j].key = c.objects[j].key
    BY <1>1, <2>2, <2>3
  <2>6. d = [c EXCEPT !.objects = os]
    BY <2>1
  <2> HIDE DEF os
  <2>7. d \in Core /\ d.objects = os /\ d.preview = c.preview /\ SameRows(c, d)
    BY <2>4, <2>6 DEF Core, SameRows
  <2> QED BY <2>4, <2>5, <2>7 DEF d
<1> QED BY <1>2, <1>3

\* The fields of the host that the table of things has nothing to do with.
SameButTable(h, g) ==
  /\ g.inMap = h.inMap /\ g.preview = h.preview /\ g.moving = h.moving /\ g.orig = h.orig
  /\ g.aimed = h.aimed

LEMMA TableFacts ==
  ASSUME NEW h \in Host, NEW w \in World, NEW t \in Slots
  PROVE  /\ Registered(h, w, t) \in Host /\ SameButTable(h, Registered(h, w, t))
         /\ \A u \in Slots \ {t} : Registered(h, w, t).registered[u] = h.registered[u]
         /\ Registered(h, w, t).registered[t] \in {h.registered[t], h.registered[t] + 1}
         /\ Unregistered(h, t) \in Host /\ SameButTable(h, Unregistered(h, t))
         /\ \A u \in Slots \ {t} : Unregistered(h, t).registered[u] = h.registered[u]
         /\ Unregistered(h, t).registered[t] = Without(h.registered[t], 1)
<1>1. h.registered \in [Slots -> Nat] /\ h.registered[t] \in Nat
  BY DEF Host
<1>2. Without(h.registered[t], 1) \in Nat
  BY <1>1 DEF Without
<1> DEFINE r == [h.registered EXCEPT ![t] = h.registered[t] + 1]
           u == [h.registered EXCEPT ![t] = Without(h.registered[t], 1)]
<1>3. r \in [Slots -> Nat] /\ u \in [Slots -> Nat]
  BY <1>1, <1>2
<1>4. Registered(h, w, t) = h \/ Registered(h, w, t) = [h EXCEPT !.registered = r, !.cached = TRUE]
  BY DEF Registered
<1>5. Unregistered(h, t) = [h EXCEPT !.registered = u]
  BY DEF Unregistered
<1>6. /\ r[t] = h.registered[t] + 1 /\ u[t] = Without(h.registered[t], 1)
      /\ \A v \in Slots \ {t} : r[v] = h.registered[v] /\ u[v] = h.registered[v]
  BY <1>1
<1> HIDE DEF r, u
<1>7. Unregistered(h, t) \in Host /\ SameButTable(h, Unregistered(h, t)) /\ Unregistered(h, t).registered = u
  BY <1>3, <1>5 DEF Host, SameButTable
<1>8. /\ Registered(h, w, t) \in Host /\ SameButTable(h, Registered(h, w, t))
      /\ Registered(h, w, t).registered \in {h.registered, r}
  BY <1>3, <1>4 DEF Host, SameButTable
<1> QED BY <1>6, <1>7, <1>8

-----------------------------------------------------------------------------
(* The parts of a frame, each as what it changes.                          *)

St == [world : World, host : Host, core : Core, queue : Queue]

LEMMA AimedFacts ==
  ASSUME NEW s \in St, NEW a \in Aimed(s)
  PROVE  /\ a \in St /\ a.world = s.world /\ a.queue = s.queue
         /\ a.host.inMap = s.host.inMap /\ a.host.preview = s.host.preview
         /\ a.host.moving = s.host.moving /\ a.host.orig = s.host.orig
         /\ a.host.registered = s.host.registered
         /\ a.core.objects = s.core.objects /\ a.core.preview = s.core.preview
         /\ SameRows(s.core, a.core)
<1>1. s.host \in Host /\ s.core \in Core /\ s.world \in World /\ s.queue \in Queue
  BY DEF St
<1>2. CASE a = s
  BY <1>2 DEF SameRows
<1>3. CASE a # s
  <2>1. PICK t \in Slots \cup {NoThing} : a = [s EXCEPT !.host.aimed = t, !.core.aimed = t]
    BY <1>3 DEF Aimed, Aimable
  <2> DEFINE h == [s.host EXCEPT !.aimed = t]
             c == [s.core EXCEPT !.aimed = t]
  <2>2. a = [world |-> s.world, host |-> h, core |-> c, queue |-> s.queue]
    BY <2>1 DEF St
  <2>3. h \in Host /\ SameButTable([h EXCEPT !.aimed = s.host.aimed], s.host) /\ h.registered = s.host.registered
    BY <1>1 DEF Host, SameButTable
  <2>4. c \in Core /\ c.objects = s.core.objects /\ c.preview = s.core.preview /\ SameRows(s.core, c)
    BY <1>1 DEF Core, SameRows
  <2>5. h.inMap = s.host.inMap /\ h.preview = s.host.preview /\ h.moving = s.host.moving /\ h.orig = s.host.orig
    BY <1>1 DEF Host
  <2> HIDE DEF h, c
  <2> QED BY <1>1, <2>2, <2>3, <2>4, <2>5 DEF St
<1> QED BY <1>2, <1>3

\* What a model change leaves alone in every case.
SameAround(s, b) ==
  /\ b.queue.spawns = s.queue.spawns /\ b.queue.destroys = s.queue.destroys
  /\ b.queue.moves = s.queue.moves
  /\ b.host.inMap = s.host.inMap /\ b.host.moving = s.host.moving /\ b.host.orig = s.host.orig
  /\ DOMAIN b.core.objects = DOMAIN s.core.objects
  /\ \A j \in DOMAIN s.core.objects : b.core.objects[j].key = s.core.objects[j].key
  /\ SameRows(s.core, b.core)

\* The preview could not be made again, or stands in another slot.
Lost(s, b, c) ==
  /\ c.thing = NoThing /\ b.world = c.world /\ b.core = s.core
  /\ b.host = Unregistered(s.host, s.host.preview)

Changed(s, b, c) ==
  /\ c.thing \in Slots /\ b.world = WithSolid(c.world, c.thing, FALSE)
  /\ b.host.preview = c.thing /\ b.core.preview = c.thing
  /\ b.host.registered =
       Registered(Unregistered(s.host, s.host.preview), c.world, c.thing).registered
  /\ b.core.objects = WithThing(s.core.objects, s.host.preview, c.thing)

LEMMA ModelChangedFacts ==
  ASSUME NEW s \in St, NEW b \in ModelChanged(s)
  PROVE  /\ b \in St /\ SameAround(s, b)
         /\ \/ b = s
            \/ /\ s.host.preview \in Slots
               /\ \E m \in Models : \E c \in Remade(s, s.host.preview, m) :
                    Lost(s, b, c) \/ Changed(s, b, c)
<1> DEFINE old == s.host.preview
           m == Head(s.queue.models)
           q == [s.queue EXCEPT !.models = Tail(s.queue.models)]
           u == Unregistered(s.host, old)
<1>1. s.host \in Host /\ s.core \in Core /\ s.world \in World /\ s.queue \in Queue
      /\ s = [world |-> s.world, host |-> s.host, core |-> s.core, queue |-> s.queue]
  BY DEF St
<1>2. CASE b = s
  BY <1>2 DEF SameAround, SameRows
<1>3. CASE b # s
  <2>1. old \in Slots /\ s.queue.models # <<>>
    BY <1>1, <1>3 DEF ModelChanged, Host
  <2>2. s.queue.models \in Seq(Models)
    BY <1>1 DEF Queue
  <2>3. m \in Models /\ Tail(s.queue.models) \in Seq(Models)
    BY <2>1, <2>2
  <2>4. q \in Queue /\ q.spawns = s.queue.spawns /\ q.destroys = s.queue.destroys /\ q.moves = s.queue.moves
    BY <1>1, <2>3 DEF Queue
  <2>5. PICK c \in Remade(s, old, m) :
          b = LET s1 == [s EXCEPT !.queue.models = Tail(@), !.world = c.world, !.host = u]
              IN  IF c.thing = NoThing THEN s1
                  ELSE [s1 EXCEPT !.world = WithSolid(@, c.thing, FALSE),
                                  !.host = [Registered(@, c.world, c.thing) EXCEPT !.preview = c.thing],
                                  !.core.objects = WithThing(@, old, c.thing),
                                  !.core.preview = c.thing]
    BY <1>3 DEF ModelChanged
  <2>6. u \in Host /\ SameButTable(s.host, u)
    BY <1>1, <2>1, TableFacts
  <2> HIDE DEF u, q, m
  <2>7. c.world \in World /\ c.thing \in Slots \cup {NoThing}
    <3>1. c \in Remade(s, old, m) /\ s.world \in World /\ m \in Models
      BY <1>1, <2>3
    <3> HIDE DEF old
    <3> QED BY ONLY <3>1, RemadeFacts
  <2>8. CASE c.thing = NoThing
    <3>1. b = [world |-> c.world, host |-> u, core |-> s.core, queue |-> q]
      BY <1>1, <2>5, <2>8 DEF q
    <3>2. b \in St /\ SameAround(s, b) /\ Lost(s, b, c)
      BY <1>1, <2>4, <2>6, <2>7, <2>8, <3>1 DEF St, SameAround, SameRows, Lost, SameButTable, u
    <3> QED BY <2>1, <2>3, <3>2
  <2>9. CASE c.thing \in Slots
    <3> DEFINE r == Registered(u, c.world, c.thing)
               h == [r EXCEPT !.preview = c.thing]
               os == WithThing(s.core.objects, old, c.thing)
               k == [s.core EXCEPT !.objects = os, !.preview = c.thing]
               w == WithSolid(c.world, c.thing, FALSE)
    <3>1. c.thing # NoThing
      BY <2>9, SizesAssumption
    <3>2. b = [world |-> w, host |-> h, core |-> k, queue |-> q]
      BY <1>1, <2>5, <3>1 DEF q
    <3>3. r \in Host /\ SameButTable(u, r)
      BY <2>6, <2>7, <2>9, TableFacts
    <3>4. os \in Seq(Object) /\ DOMAIN os = DOMAIN s.core.objects
          /\ \A j \in DOMAIN s.core.objects : os[j].key = s.core.objects[j].key
      <4>1. s.core.objects \in Seq(Object)
        BY <1>1 DEF Core
      <4> QED BY <4>1, <2>9, WithThingFacts
    <3>5. w \in World
      BY <2>7, <2>9, SolidFacts
    <3> HIDE DEF r, os, w
    <3>6. h \in Host /\ h.registered = r.registered /\ h.preview = c.thing
          /\ h.inMap = r.inMap /\ h.moving = r.moving /\ h.orig = r.orig
      BY <2>9, <3>3 DEF Host
    <3>7. k \in Core /\ k.objects = os /\ k.preview = c.thing /\ SameRows(s.core, k)
      BY <1>1, <2>9, <3>4 DEF Core, SameRows
    <3> HIDE DEF h, k
    <3>8. b \in St
      BY <2>4, <3>2, <3>5, <3>6, <3>7 DEF St
    <3>9. SameAround(s, b)
      BY <2>4, <2>6, <3>2, <3>3, <3>4, <3>6, <3>7 DEF SameAround, SameButTable
    <3>10. Changed(s, b, c)
      BY <2>9, <3>2, <3>6, <3>7 DEF Changed, r, os, w, u
    <3> QED BY <2>1, <2>3, <3>8, <3>9, <3>10
  <2> QED BY <2>7, <2>8, <2>9
<1> QED BY <1>2, <1>3

\* The queues a spawn leaves alone, and the fields of the host.
SameAroundSpawn(s, b) ==
  /\ b.queue.destroys = s.queue.destroys /\ b.queue.moves = s.queue.moves
  /\ b.queue.models = s.queue.models
  /\ b.host.inMap = s.host.inMap /\ b.host.moving = s.host.moving /\ b.host.orig = s.host.orig

\* The objects of new are those of os, and one more behind them.
Grown(os, new, t, key) ==
  /\ DOMAIN new = 1 .. Len(os) + 1
  /\ \A j \in DOMAIN os : new[j].thing = os[j].thing /\ new[j].key = os[j].key
  /\ new[Len(os) + 1].thing = t /\ new[Len(os) + 1].key = key

\* A request that led to no object: its row is missed, if it has one.
NoneMade(s, b, q) ==
  /\ b.host = s.host /\ b.core.objects = s.core.objects /\ b.core.preview = s.core.preview
  /\ b.core.instance = s.core.instance /\ b.core.missed = (s.core.missed \cup {q.key}) \ {NoKey}

Restored(s, b, q, c) ==
  /\ q.key # NoKey /\ b.world = c.world
  /\ b.host.preview = s.host.preview /\ b.core.preview = s.core.preview
  /\ Grown(s.core.objects, b.core.objects, c.thing, q.key) /\ SameRows(s.core, b.core)

Previewed(s, b, q, c) ==
  /\ q.key = NoKey /\ b.world = WithSolid(c.world, c.thing, FALSE)
  /\ b.host.preview = c.thing /\ b.core.preview = c.thing
  /\ FreshKey \in Keys \ KeysInUse
  /\ Grown(s.core.objects, b.core.objects, c.thing, FreshKey) /\ SameRows(s.core, b.core)

LEMMA DroppedFacts ==
  ASSUME NEW s \in St, NEW q \in Request
  PROVE  LET b == Dropped(s, q)
         IN  b \in St /\ b.world = s.world /\ b.queue = s.queue /\ NoneMade(s, b, q)
<1> DEFINE b == Dropped(s, q)
           n == (s.core.missed \cup {q.key}) \ {NoKey}
           k == [s.core EXCEPT !.missed = n]
<1>1. s.host \in Host /\ s.core \in Core /\ s.world \in World /\ s.queue \in Queue
      /\ s = [world |-> s.world, host |-> s.host, core |-> s.core, queue |-> s.queue]
  BY DEF St
<1>2. n \in SUBSET Keys
  BY <1>1 DEF Core, Request
<1>3. b = [s EXCEPT !.core = k]
  BY DEF Dropped
<1> HIDE DEF n, b
<1>4. k \in Core /\ k.objects = s.core.objects /\ k.preview = s.core.preview
      /\ k.instance = s.core.instance /\ k.missed = n
  BY <1>1, <1>2 DEF Core
<1> HIDE DEF k
<1>5. b = [world |-> s.world, host |-> s.host, core |-> k, queue |-> s.queue]
  BY <1>1, <1>3
<1> QED BY <1>1, <1>4, <1>5 DEF St, NoneMade, n, b

LEMMA PlacedFacts ==
  ASSUME NEW s \in St, NEW q \in Request, q.key = NoKey => FreshKey \in Keys \ KeysInUse,
         NEW c, c.world \in World, c.thing \in Slots \cup {NoThing}
  PROVE  LET b == Placed(s, q, c)
         IN  /\ b \in St /\ b.queue = s.queue /\ SameAroundSpawn(s, b)
             /\ \/ c.thing = NoThing /\ b.world = c.world /\ NoneMade(s, b, q)
                \/ /\ c.thing \in Slots
                   /\ b.host.registered = Registered(s.host, c.world, c.thing).registered
                   /\ Restored(s, b, q, c) \/ Previewed(s, b, q, c)
<1> DEFINE t == c.thing
           b == Placed(s, q, c)
           o == NewObject(q, t)
           os == Append(s.core.objects, o)
           h == Registered(s.host, c.world, t)
           k == [s.core EXCEPT !.objects = os]
<1>1. s.host \in Host /\ s.core \in Core /\ s.world \in World /\ s.queue \in Queue
      /\ s = [world |-> s.world, host |-> s.host, core |-> s.core, queue |-> s.queue]
  BY DEF St
<1>2. CASE t = NoThing
  <2> DEFINE s1 == [s EXCEPT !.world = c.world]
  <2>1. b = Dropped(s1, q)
    BY <1>2 DEF Placed
  <2>2. s1 = [world |-> c.world, host |-> s.host, core |-> s.core, queue |-> s.queue]
    BY <1>1
  <2> HIDE DEF b, s1
  <2>3. s1 \in St /\ s1.world = c.world /\ s1.host = s.host /\ s1.core = s.core /\ s1.queue = s.queue
    BY <1>1, <2>2 DEF St
  <2>4. b \in St /\ b.world = s1.world /\ b.queue = s1.queue /\ NoneMade(s1, b, q)
    BY <2>1, <2>3, DroppedFacts
  <2>5. NoneMade(s, b, q)
    BY <2>3, <2>4 DEF NoneMade
  <2>6. SameAroundSpawn(s, b)
    BY <2>3, <2>4, <2>5 DEF SameAroundSpawn, NoneMade
  <2> QED BY <1>2, <2>3, <2>4, <2>5, <2>6 DEF b
<1>3. CASE t \in Slots
  <2>1. t # NoThing
    BY <1>3, SizesAssumption
  <2>2. h \in Host /\ SameButTable(s.host, h)
    BY <1>1, <1>3, TableFacts
  <2>3. o \in Object /\ o.thing = t /\ o.key = IF q.key = NoKey THEN FreshKey ELSE q.key
    BY <1>3 DEF NewObject, Object, Request
  <2>4. s.core.objects \in Seq(Object) /\ DOMAIN s.core.objects = 1 .. Len(s.core.objects)
        /\ Len(s.core.objects) \in Nat
    BY <1>1 DEF Core
  <2> HIDE DEF h, o
  <2>5. os \in Seq(Object) /\ Grown(s.core.objects, os, t, o.key)
    <3>1. os \in Seq(Object) /\ DOMAIN os = 1 .. Len(s.core.objects) + 1 /\ os[Len(s.core.objects) + 1] = o
          /\ \A j \in DOMAIN s.core.objects : os[j] = s.core.objects[j]
      BY <2>3, <2>4
    <3> HIDE DEF os
    <3> QED BY <2>3, <3>1 DEF Grown
  <2> HIDE DEF os
  <2>6. k \in Core /\ k.objects = os /\ k.preview = s.core.preview /\ SameRows(s.core, k)
    BY <1>1, <2>5 DEF Core, SameRows
  <2> HIDE DEF k
  <2>7. CASE q.key # NoKey
    <3> DEFINE d == Confirmed(k, t)
    <3>1. b = [world |-> c.world, host |-> h, core |-> d, queue |-> s.queue]
      BY <1>1, <2>1, <2>7 DEF Placed, h, o, os, k
    <3>2. d \in Core /\ DOMAIN d.objects = DOMAIN os /\ d.preview = s.core.preview
          /\ \A j \in DOMAIN os : d.objects[j].thing = os[j].thing /\ d.objects[j].key = os[j].key
      BY <2>6, ConfirmedFacts
    <3>6. SameRows(s.core, d)
      <4>1. SameRows(k, d)
        BY <2>6, ConfirmedFacts
      <4> QED BY <2>6, <4>1 DEF SameRows
    <3>3. Grown(s.core.objects, d.objects, t, q.key)
      <4>1. DOMAIN s.core.objects \subseteq DOMAIN os /\ Len(s.core.objects) + 1 \in DOMAIN os
        BY <2>4, <2>5 DEF Grown
      <4> HIDE DEF d
      <4> QED BY <2>3, <2>5, <2>7, <3>2, <4>1 DEF Grown
    <3> HIDE DEF d, b
    <3>4. b \in St /\ b.queue = s.queue /\ SameAroundSpawn(s, b)
      BY <1>1, <2>2, <3>1, <3>2 DEF St, SameAroundSpawn, SameButTable
    <3>5. Restored(s, b, q, c) /\ b.host.registered = h.registered
      BY <2>2, <2>7, <3>1, <3>2, <3>3, <3>6 DEF Restored, SameButTable
    <3> QED BY <1>3, <3>4, <3>5 DEF b, h
  <2>8. CASE q.key = NoKey
    <3> DEFINE d == [k EXCEPT !.preview = t, !.page = TRUE]
               g == [h EXCEPT !.preview = t]
               w == WithSolid(c.world, t, FALSE)
    <3>1. b = [world |-> w, host |-> g, core |-> d, queue |-> s.queue]
      BY <1>1, <2>1, <2>8 DEF Placed, h, o, os, k
    <3>2. d \in Core /\ d.objects = os /\ d.preview = t /\ SameRows(s.core, d)
      BY <1>3, <2>6 DEF Core, SameRows
    <3>3. g \in Host /\ g.preview = t /\ g.registered = h.registered
          /\ g.inMap = h.inMap /\ g.moving = h.moving /\ g.orig = h.orig
      BY <1>3, <2>2 DEF Host
    <3>4. w \in World
      BY <1>3, SolidFacts
    <3> HIDE DEF d, b, w, g
    <3>5. b \in St /\ b.queue = s.queue /\ SameAroundSpawn(s, b)
      BY <1>1, <2>2, <3>1, <3>2, <3>3, <3>4 DEF St, SameAroundSpawn, SameButTable
    <3>6. Previewed(s, b, q, c) /\ b.host.registered = h.registered
      BY <2>3, <2>5, <2>8, <3>1, <3>2, <3>3 DEF Previewed, w
    <3> QED BY <1>3, <3>5, <3>6 DEF b, h
  <2> QED BY <2>7, <2>8
<1> QED BY <1>2, <1>3

LEMMA PoppedFacts ==
  ASSUME NEW s \in St, s.queue.spawns # <<>>, NEW q \in Request
  PROVE  LET p == Popped(s, q)
         IN  /\ p \in St /\ p.world = s.world /\ p.host = s.host
             /\ p.core.objects = s.core.objects /\ p.core.preview = s.core.preview
             /\ SameRows(s.core, p.core) /\ p.queue.spawns = Tail(s.queue.spawns)
             /\ SameAroundSpawn(s, p)
<1> DEFINE n == q.key # NoKey
           k == [s.core EXCEPT !.restored = n]
           r == [s.queue EXCEPT !.spawns = Tail(s.queue.spawns)]
           p == Popped(s, q)
<1>1. s.host \in Host /\ s.core \in Core /\ s.world \in World /\ s.queue \in Queue
      /\ s = [world |-> s.world, host |-> s.host, core |-> s.core, queue |-> s.queue]
  BY DEF St
<1>2. r \in Queue /\ r.spawns = Tail(s.queue.spawns) /\ r.destroys = s.queue.destroys
      /\ r.moves = s.queue.moves /\ r.models = s.queue.models
  <2>1. s.queue.spawns \in Seq(Request)
    BY <1>1 DEF Queue
  <2>2. Tail(s.queue.spawns) \in Seq(Request)
    BY <2>1
  <2> QED BY <1>1, <2>2 DEF Queue
<1>3. k \in Core /\ k.objects = s.core.objects /\ k.preview = s.core.preview /\ SameRows(s.core, k)
  <2>1. n \in BOOLEAN
    OBVIOUS
  <2> HIDE DEF n
  <2> QED BY <1>1, <2>1 DEF Core, SameRows
<1>4. p = [s EXCEPT !.queue.spawns = Tail(@), !.core.restored = n]
  BY DEF Popped
<1> HIDE DEF n, p
<1>5. p = [world |-> s.world, host |-> s.host, core |-> k, queue |-> r]
  BY <1>1, <1>4
<1> HIDE DEF k, r
<1> QED BY <1>1, <1>2, <1>3, <1>5 DEF St, SameAroundSpawn, p

LEMMA SpawnedFacts ==
  ASSUME NEW s \in St, NEW b \in Spawned(s)
  PROVE  /\ b \in St /\ SameAroundSpawn(s, b)
         /\ \/ b = s /\ s.queue.spawns = <<>>
            \/ /\ s.queue.spawns # <<>> /\ b.queue.spawns = Tail(s.queue.spawns)
               /\ \/ b.world = s.world /\ NoneMade(s, b, Head(s.queue.spawns))
                  \/ /\ s.host.inMap
                     /\ \E c \in Create(s.world, Head(s.queue.spawns).model) :
                          \/ c.thing = NoThing /\ b.world = c.world /\ NoneMade(s, b, Head(s.queue.spawns))
                          \/ /\ c.thing \in Slots
                             /\ b.host.registered = Registered(s.host, c.world, c.thing).registered
                             /\ \/ Restored(s, b, Head(s.queue.spawns), c)
                                \/ Previewed(s, b, Head(s.queue.spawns), c)
<1> DEFINE q  == Head(s.queue.spawns)
           p  == Popped(s, q)
<1>1. CASE s.queue.spawns = <<>>
  BY <1>1 DEF Spawned, SameAroundSpawn
<1>2. CASE s.queue.spawns # <<>>
  <2>1. q \in Request
    <3>1. s.queue.spawns \in Seq(Request)
      BY DEF St, Queue
    <3> QED BY <1>2, <3>1
  <2>2. \/ b = Dropped(p, q)
        \/ /\ s.host.inMap /\ (q.key # NoKey \/ KeyLeft)
           /\ \E c \in Create(s.world, q.model) : b = Placed(p, q, c)
    BY <1>2 DEF Spawned
  <2> HIDE DEF q, p
  <2>3. /\ p \in St /\ p.world = s.world /\ p.host = s.host
        /\ p.core.objects = s.core.objects /\ p.core.preview = s.core.preview
        /\ SameRows(s.core, p.core) /\ p.queue.spawns = Tail(s.queue.spawns)
        /\ SameAroundSpawn(s, p)
    BY <1>2, <2>1, PoppedFacts DEF p
  <2>4. CASE b = Dropped(p, q)
    <3>1. b \in St /\ b.world = p.world /\ b.queue = p.queue /\ NoneMade(p, b, q)
      BY <2>1, <2>3, <2>4, DroppedFacts
    <3>2. NoneMade(s, b, q) /\ SameAroundSpawn(s, b)
      BY <2>3, <3>1 DEF NoneMade, SameRows, SameAroundSpawn
    <3> QED BY <1>2, <2>3, <3>1, <3>2 DEF q
  <2>5. ASSUME s.host.inMap, q.key # NoKey \/ KeyLeft, NEW c \in Create(s.world, q.model), b = Placed(p, q, c)
        PROVE  /\ b \in St /\ SameAroundSpawn(s, b) /\ b.queue.spawns = Tail(s.queue.spawns)
               /\ \/ c.thing = NoThing /\ b.world = c.world /\ NoneMade(s, b, q)
                  \/ /\ c.thing \in Slots
                     /\ b.host.registered = Registered(s.host, c.world, c.thing).registered
                     /\ Restored(s, b, q, c) \/ Previewed(s, b, q, c)
    <3>1. q.model \in Models \cup {Engine} /\ s.world \in World
      BY <2>1 DEF Request, St
    <3>2. c.world \in World /\ c.thing \in Slots \cup {NoThing}
      BY <2>5, <3>1, CreateFacts
    <3>3. KeyLeft => FreshKey \in Keys \ KeysInUse
      BY DEF KeyLeft, FreshKey
    <3>4. /\ b \in St /\ b.queue = p.queue /\ SameAroundSpawn(p, b)
          /\ \/ c.thing = NoThing /\ b.world = c.world /\ NoneMade(p, b, q)
             \/ /\ c.thing \in Slots
                /\ b.host.registered = Registered(p.host, c.world, c.thing).registered
                /\ Restored(p, b, q, c) \/ Previewed(p, b, q, c)
      BY <2>1, <2>3, <2>5, <3>2, <3>3, PlacedFacts
    <3>5. b.queue.spawns = Tail(s.queue.spawns) /\ SameAroundSpawn(s, b)
      BY <2>3, <3>4 DEF SameAroundSpawn
    <3>6. /\ NoneMade(p, b, q) => NoneMade(s, b, q)
          /\ Restored(p, b, q, c) => Restored(s, b, q, c)
          /\ Previewed(p, b, q, c) => Previewed(s, b, q, c)
      BY <2>3 DEF NoneMade, Restored, Previewed, SameRows
    <3> QED BY <2>3, <3>4, <3>5, <3>6
  <2>6. CASE /\ s.host.inMap /\ (q.key # NoKey \/ KeyLeft)
             /\ \E c \in Create(s.world, q.model) : b = Placed(p, q, c)
    <3>1. PICK c \in Create(s.world, q.model) : b = Placed(p, q, c)
      BY <2>6
    <3> QED BY <1>2, <2>5, <2>6, <3>1 DEF q
  <2> QED BY <2>2, <2>4, <2>6
<1> QED BY <1>1, <1>2

\* A thing that is asked to be destroyed loses its one entry, any other one keeps what
\* it has.
LEMMA AskedFacts ==
  ASSUME NEW q \in Seq(Slots), NEW t
  PROVE  /\ Asked(q, t) \in Nat
         /\ t \in Range(q) => Asked(q, t) >= 1
         /\ t \notin Range(q) => Asked(q, t) = 0
<1> DEFINE A == {k \in DOMAIN q : q[k] = t}
<1>1. DOMAIN q = 1 .. Len(q) /\ Len(q) \in Nat
  OBVIOUS
<1>2. IsFiniteSet(A)
  <2>1. IsFiniteSet(DOMAIN q)
    BY <1>1, FS_Interval
  <2> QED BY <2>1, FS_Subset
<1>3. Cardinality(A) \in Nat /\ (Cardinality(A) = 0 <=> A = {})
  BY <1>2, FS_CardinalityType, FS_EmptySet
<1>4. t \in Range(q) <=> A # {}
  BY DEF Range
<1> HIDE DEF A
<1>5. t \in Range(q) => Cardinality(A) >= 1
  BY <1>3, <1>4
<1> QED BY <1>3, <1>4, <1>5 DEF Asked, A

SameButDestroys(s, d) ==
  /\ d.queue.spawns = s.queue.spawns /\ d.queue.moves = s.queue.moves
  /\ d.queue.models = s.queue.models /\ d.core = s.core
  /\ d.host.inMap = s.host.inMap /\ d.host.preview = s.host.preview
  /\ d.host.moving = s.host.moving /\ d.host.orig = s.host.orig

LEMMA DestroyedAllFacts ==
  ASSUME NEW s \in St
  PROVE  LET d == DestroyedAll(s)
         IN  /\ d \in St /\ SameButDestroys(s, d) /\ d.queue.destroys = <<>>
             /\ d.world = IF s.host.inMap THEN Destroyed(s.world, Range(s.queue.destroys)) ELSE s.world
             /\ \A t \in Slots :
                  /\ d.host.registered[t] <= s.host.registered[t]
                  /\ t \in Range(s.queue.destroys) /\ s.host.registered[t] <= 1 =>
                       d.host.registered[t] = 0
                  /\ t \notin Range(s.queue.destroys) => d.host.registered[t] = s.host.registered[t]
<1> DEFINE q == s.queue.destroys
           n == [t \in Slots |-> Without(s.host.registered[t], Asked(q, t))]
           h == Cleared(s.host, q)
           r == [s.queue EXCEPT !.destroys = <<>>]
           w == IF s.host.inMap THEN Destroyed(s.world, Range(q)) ELSE s.world
<1>1. s.host \in Host /\ s.core \in Core /\ s.world \in World /\ s.queue \in Queue
      /\ s = [world |-> s.world, host |-> s.host, core |-> s.core, queue |-> s.queue]
  BY DEF St
<1>2. q \in Seq(Slots) /\ s.host.registered \in [Slots -> Nat]
  BY <1>1 DEF Queue, Host
<1>3. ASSUME NEW t \in Slots
      PROVE  /\ n[t] \in Nat /\ n[t] <= s.host.registered[t]
             /\ t \in Range(q) /\ s.host.registered[t] <= 1 => n[t] = 0
             /\ t \notin Range(q) => n[t] = s.host.registered[t]
  <2>1. n[t] = Without(s.host.registered[t], Asked(q, t)) /\ s.host.registered[t] \in Nat
    BY <1>2
  <2>2. Asked(q, t) \in Nat /\ (t \in Range(q) => Asked(q, t) >= 1) /\ (t \notin Range(q) => Asked(q, t) = 0)
    BY <1>2, AskedFacts
  <2> HIDE DEF n, q
  <2> QED BY <2>1, <2>2 DEF Without
<1>4. n \in [Slots -> Nat]
  BY <1>3
<1>5. h \in Host /\ h.registered = n /\ h.inMap = s.host.inMap /\ h.preview = s.host.preview
      /\ h.moving = s.host.moving /\ h.orig = s.host.orig
  <2>1. h = [s.host EXCEPT !.registered = n,
                           !.aimed = IF s.host.aimed \in Range(q) THEN NoThing ELSE s.host.aimed]
    BY DEF Cleared
  <2> HIDE DEF n, h, q
  <2> QED BY <1>1, <1>4, <2>1 DEF Host
<1>6. r \in Queue /\ r.destroys = <<>> /\ r.spawns = s.queue.spawns /\ r.moves = s.queue.moves
      /\ r.models = s.queue.models
  <2>1. <<>> \in Seq(Slots)
    OBVIOUS
  <2> SUFFICES ASSUME NEW e \in Seq(Slots), NEW v, v = [s.queue EXCEPT !.destroys = e]
               PROVE  v \in Queue /\ v.destroys = e /\ v.spawns = s.queue.spawns /\ v.moves = s.queue.moves /\ v.models = s.queue.models
    BY <2>1
  <2> QED BY <1>1 DEF Queue
<1>7. w \in World
  BY <1>1, DestroyedFacts
<1>8. DestroyedAll(s) = [s EXCEPT !.host = h, !.queue.destroys = <<>>, !.world = w]
  BY DEF DestroyedAll
<1> HIDE DEF n, h, w
<1>9. ASSUME NEW d, d = DestroyedAll(s)
      PROVE  d = [world |-> w, host |-> h, core |-> s.core, queue |-> r]
  BY <1>1, <1>8, <1>9
<1> HIDE DEF r
<1>10. ASSUME NEW d, d = [world |-> w, host |-> h, core |-> s.core, queue |-> r]
       PROVE  /\ d \in St /\ SameButDestroys(s, d) /\ d.queue.destroys = <<>> /\ d.world = w
              /\ d.host.registered = n
  BY <1>1, <1>5, <1>6, <1>7, <1>10 DEF St, SameButDestroys
<1> QED BY <1>3, <1>9, <1>10 DEF w

SameButMoves(s, m) ==
  /\ m.queue.spawns = s.queue.spawns /\ m.queue.destroys = s.queue.destroys
  /\ m.queue.models = s.queue.models /\ m.core.objects = s.core.objects
  /\ m.host.inMap = s.host.inMap /\ m.host.registered = s.host.registered
  /\ SameRows(s.core, m.core)

LEMMA MovedFacts ==
  ASSUME NEW s \in St
  PROVE  LET m == Moved(s)
         IN  /\ m \in St /\ SameButMoves(s, m) /\ m.queue.moves = <<>>
             /\ \/ /\ m.world = s.world /\ m.host = s.host /\ m.core = s.core
                \/ /\ s.host.preview = NoThing /\ m.host.preview \in Slots
                   /\ s.queue.moves # <<>>
                   /\ s.host.registered[m.host.preview] > 0
                   /\ m.host.moving /\ m.host.orig = ModelOf(s.core.objects, m.host.preview)
                   /\ m.core.preview = m.host.preview
                   /\ m.world = WithSolid(s.world, m.host.preview, FALSE)
<1> DEFINE k == FirstRegistered(s.queue.moves, s.host)
           t == s.queue.moves[k]
           o == ModelOf(s.core.objects, t)
           h == [s.host EXCEPT !.preview = t, !.moving = TRUE, !.orig = o]
           c == [s.core EXCEPT !.preview = t, !.page = TRUE]
           r == [s.queue EXCEPT !.moves = <<>>]
           w == WithSolid(s.world, t, FALSE)
<1>1. s.host \in Host /\ s.core \in Core /\ s.world \in World /\ s.queue \in Queue
      /\ s = [world |-> s.world, host |-> s.host, core |-> s.core, queue |-> s.queue]
  BY DEF St
<1>2. r \in Queue /\ r.moves = <<>> /\ r.spawns = s.queue.spawns /\ r.destroys = s.queue.destroys
      /\ r.models = s.queue.models
  <2>1. <<>> \in Seq(Slots)
    OBVIOUS
  <2> SUFFICES ASSUME NEW e \in Seq(Slots), NEW v, v = [s.queue EXCEPT !.moves = e]
               PROVE  v \in Queue /\ v.moves = e /\ v.spawns = s.queue.spawns /\ v.destroys = s.queue.destroys /\ v.models = s.queue.models
    BY <2>1
  <2> QED BY <1>1 DEF Queue
<1>3. s.queue.moves \in Seq(Slots) /\ s.core.objects \in Seq(Object)
  BY <1>1 DEF Queue, Core
<1> SUFFICES ASSUME NEW m, m = Moved(s)
             PROVE  /\ m \in St /\ SameButMoves(s, m) /\ m.queue.moves = <<>>
                    /\ \/ /\ m.world = s.world /\ m.host = s.host /\ m.core = s.core
                       \/ /\ s.host.preview = NoThing /\ m.host.preview \in Slots
                          /\ s.queue.moves # <<>>
                          /\ s.host.registered[m.host.preview] > 0
                          /\ m.host.moving /\ m.host.orig = ModelOf(s.core.objects, m.host.preview)
                          /\ m.core.preview = m.host.preview
                          /\ m.world = WithSolid(s.world, m.host.preview, FALSE)
  OBVIOUS
<1>4. CASE k = 0 \/ s.host.preview # NoThing
  <2>1. m = [s EXCEPT !.queue.moves = <<>>]
    BY <1>4 DEF Moved
  <2>2. m = [world |-> s.world, host |-> s.host, core |-> s.core, queue |-> r]
    BY <1>1, <2>1
  <2> HIDE DEF r
  <2> QED BY <1>1, <1>2, <2>2 DEF St, SameButMoves, SameRows
<1>5. CASE k # 0 /\ s.host.preview = NoThing
  <2>1. t \in Slots /\ s.host.registered[t] > 0
    BY <1>3, <1>5, FirstFacts
  <2>2. s.queue.moves # <<>>
    <3>1. SUFFICES ASSUME s.queue.moves = <<>> PROVE k = 0
      BY <1>5
    <3> QED BY <3>1 DEF FirstRegistered, SelectInSeq
  <2>3. m = [[s EXCEPT !.queue.moves = <<>>] EXCEPT !.host = h, !.core = c, !.world = w]
    BY <1>5 DEF Moved
  <2> HIDE DEF h, c, w, k
  <2>4. m = [world |-> w, host |-> h, core |-> c, queue |-> r]
    BY <1>1, <2>3
  <2> HIDE DEF r, t
  <2>5. o \in Models \cup {NoModel}
    BY <1>3, ModelOfFacts
  <2> HIDE DEF o
  <2>6. h \in Host /\ h.preview = t /\ h.moving = TRUE /\ h.orig = o /\ h.inMap = s.host.inMap
        /\ h.registered = s.host.registered
    BY <1>1, <2>1, <2>5 DEF Host, h
  <2>7. c \in Core /\ c.preview = t /\ c.objects = s.core.objects /\ SameRows(s.core, c)
    BY <1>1, <2>1 DEF Core, SameRows, c
  <2>8. w \in World
    BY <1>1, <2>1, SolidFacts DEF w
  <2>9. m \in St /\ SameButMoves(s, m) /\ m.queue.moves = <<>>
    BY <1>2, <2>4, <2>6, <2>7, <2>8 DEF St, SameButMoves, SameRows
  <2>10. m.host.preview = t /\ m.core.preview = t /\ m.host.moving = TRUE /\ m.host.orig = o
         /\ m.world = w
    BY <2>4, <2>6, <2>7
  <2>11. o = ModelOf(s.core.objects, t) /\ w = WithSolid(s.world, t, FALSE)
    BY DEF o, w
  <2> QED BY <1>5, <2>1, <2>2, <2>9, <2>10, <2>11
<1> QED BY <1>4, <1>5

-----------------------------------------------------------------------------
(* The table of things, and one preview, through the parts of a frame.     *)

TableOnce(s) ==
  \A t \in Slots : s.host.registered[t] <= 1 /\ (s.host.registered[t] > 0 => StandingIn(s.world, t))

OnePreview(s) == s.host.preview # NoThing => s.core.preview = s.host.preview

\* Without a map there is no preview, and the table is empty.
Outside(s) ==
  ~s.host.inMap => s.host.preview = NoThing /\ \A t \in Slots : s.host.registered[t] = 0

Base(s) == TableOnce(s) /\ OnePreview(s) /\ Outside(s)

\* A thing that is made again leaves the table with its old slot, and enters it with
\* the new one at most.
LEMMA RemadeTable ==
  ASSUME NEW s \in St, TableOnce(s), NEW t \in Slots, NEW m \in Models, NEW c \in Remade(s, t, m)
  PROVE  LET u == Unregistered(s.host, t)
             r == Registered(u, c.world, c.thing)
         IN  \A v \in Slots :
               /\ u.registered[v] <= 1 /\ (u.registered[v] > 0 => StandingIn(c.world, v))
               /\ c.thing \in Slots =>
                    r.registered[v] <= 1 /\ (r.registered[v] > 0 => StandingIn(c.world, v))
<1> DEFINE u == Unregistered(s.host, t)
           r == Registered(u, c.world, c.thing)
<1>1. s.host \in Host /\ s.world \in World /\ s.host.registered \in [Slots -> Nat]
  BY DEF St, Host
<1>2. /\ c.world \in World /\ c.thing \in Slots \cup {NoThing}
      /\ \A v \in Slots \ {t} : StandingIn(s.world, v) => v # c.thing /\ c.world[v] = s.world[v]
      /\ c.thing \in Slots => StandingIn(c.world, c.thing)
  BY <1>1, RemadeFacts
<1>3. u \in Host /\ u.registered[t] = Without(s.host.registered[t], 1)
      /\ \A v \in Slots \ {t} : u.registered[v] = s.host.registered[v]
  BY <1>1, TableFacts
<1> HIDE DEF u
<1>4. u.registered \in [Slots -> Nat]
  BY <1>3 DEF Host
<1>5. u.registered[t] = 0
  <2>1. s.host.registered[t] \in Nat /\ s.host.registered[t] <= 1
    BY <1>1 DEF TableOnce
  <2> QED BY <1>3, <2>1 DEF Without
<1>6. ASSUME NEW v \in Slots
      PROVE  u.registered[v] <= 1 /\ (u.registered[v] > 0 => StandingIn(c.world, v) /\ v # c.thing)
  <2>1. CASE v = t
    BY <1>5, <2>1
  <2>2. CASE v # t
    <3>1. u.registered[v] = s.host.registered[v] /\ s.host.registered[v] <= 1
          /\ (s.host.registered[v] > 0 => StandingIn(s.world, v))
      BY <1>3, <2>2 DEF TableOnce
    <3>2. StandingIn(s.world, v) => v # c.thing /\ StandingIn(c.world, v)
      BY <1>2, <2>2 DEF StandingIn
    <3> QED BY <3>1, <3>2
  <2> QED BY <2>1, <2>2
<1>7. ASSUME NEW v \in Slots, c.thing \in Slots
      PROVE  r.registered[v] <= 1 /\ (r.registered[v] > 0 => StandingIn(c.world, v))
  <2>1. /\ \A x \in Slots \ {c.thing} : r.registered[x] = u.registered[x]
        /\ r.registered[c.thing] \in {u.registered[c.thing], u.registered[c.thing] + 1}
    BY <1>2, <1>3, <1>7, TableFacts
  <2> HIDE DEF r
  <2>2. CASE v = c.thing
    <3>1. u.registered[v] \in Nat /\ u.registered[v] = 0
      BY <1>4, <1>6, <2>2
    <3> QED BY <1>2, <1>7, <2>1, <2>2, <3>1
  <2>3. CASE v # c.thing
    BY <1>6, <2>1, <2>3
  <2> QED BY <2>2, <2>3
<1> QED BY <1>6, <1>7 DEF u

LEMMA ModelChangedBase ==
  ASSUME NEW s \in St, Base(s), NEW b \in ModelChanged(s)
  PROVE  Base(b)
<1>1. CASE b = s
  BY <1>1
<1>2. ASSUME s.host.preview \in Slots, NEW m \in Models, NEW c \in Remade(s, s.host.preview, m),
             Lost(s, b, c) \/ Changed(s, b, c)
      PROVE  Base(b)
  <2> DEFINE t == s.host.preview
             u == Unregistered(s.host, t)
             r == Registered(u, c.world, c.thing)
  <2>1. s.host \in Host /\ s.world \in World /\ t \in Slots
    BY <1>2 DEF St
  <2>7. Outside(b)
    <3>1. s.host.inMap
      BY <2>1, SizesAssumption DEF Base, Outside
    <3>2. b.host.inMap = s.host.inMap
      BY ModelChangedFacts DEF SameAround
    <3> QED BY <3>1, <3>2 DEF Outside
  <2>2. c.world \in World
    <3>1. c \in Remade(s, t, m) /\ s.world \in World /\ m \in Models
      BY <2>1
    <3> HIDE DEF t
    <3> QED BY ONLY <3>1, RemadeFacts
  <2>3. u.preview = t
    BY <2>1, TableFacts DEF SameButTable
  <2>4. \A v \in Slots :
          /\ u.registered[v] <= 1 /\ (u.registered[v] > 0 => StandingIn(c.world, v))
          /\ c.thing \in Slots => r.registered[v] <= 1 /\ (r.registered[v] > 0 => StandingIn(c.world, v))
    BY <1>2, <2>1, RemadeTable DEF Base
  <2> HIDE DEF u, r
  <2>5. CASE Lost(s, b, c)
    <3>1. b.host = u /\ b.world = c.world /\ b.core = s.core
      BY <2>5 DEF Lost, u
    <3>2. TableOnce(b)
      BY <2>4, <3>1 DEF TableOnce
    <3>3. OnePreview(b)
      BY <2>3, <3>1 DEF OnePreview, Base
    <3> QED BY <2>7, <3>2, <3>3 DEF Base
  <2>6. CASE Changed(s, b, c)
    <3>1. c.thing \in Slots /\ b.host.registered = r.registered
          /\ b.world = WithSolid(c.world, c.thing, FALSE) /\ OnePreview(b)
      BY <2>6 DEF Changed, r, u, OnePreview
    <3>2. \A v \in Slots : StandingIn(b.world, v) <=> StandingIn(c.world, v)
      <4>1. c.world \in World /\ c.thing \in Slots
        BY <2>2, <3>1
      <4>2. \A v \in Slots : StandingIn(WithSolid(c.world, c.thing, FALSE), v) <=> StandingIn(c.world, v)
        BY ONLY <4>1, SolidStanding
      <4> QED BY <3>1, <4>2
    <3> QED BY <2>4, <2>7, <3>1, <3>2 DEF Base, TableOnce
  <2> QED BY <1>2, <2>5, <2>6
<1> QED BY <1>1, <1>2, ModelChangedFacts

LEMMA SpawnedBase ==
  ASSUME NEW s \in St, Base(s), NEW b \in Spawned(s)
  PROVE  Base(b)
<1> DEFINE q == Head(s.queue.spawns)
<1>1. CASE b = s
  BY <1>1
<1>2. CASE b.world = s.world /\ NoneMade(s, b, q)
  BY <1>2 DEF Base, TableOnce, OnePreview, Outside, NoneMade
<1>3. ASSUME s.queue.spawns # <<>>, s.host.inMap, NEW c \in Create(s.world, q.model),
             \/ c.thing = NoThing /\ b.world = c.world /\ NoneMade(s, b, q)
             \/ /\ c.thing \in Slots
                /\ b.host.registered = Registered(s.host, c.world, c.thing).registered
                /\ Restored(s, b, q, c) \/ Previewed(s, b, q, c)
      PROVE  Base(b)
  <2>1. s.host \in Host /\ s.world \in World /\ s.host.registered \in [Slots -> Nat]
        /\ s.queue.spawns \in Seq(Request)
    BY DEF St, Host, Queue
  <2>2. q.model \in Models
    <3>1. q \in Request
      BY <1>3, <2>1
    <3> QED BY <3>1 DEF Request
  <2> HIDE DEF q
  <2>3. /\ c.world \in World
        /\ \A v \in Slots : StandingIn(s.world, v) => v # c.thing /\ c.world[v] = s.world[v]
        /\ c.thing \in Slots => c.world[c.thing] = [state |-> "live", model |-> q.model, solid |-> TRUE]
    BY <1>3, <2>1, <2>2, CreateFacts
  <2>4. c.thing \in Slots => StandingIn(c.world, c.thing)
    BY <2>2, <2>3, ModelsAssumption DEF StandingIn
  <2>5. \A v \in Slots : s.host.registered[v] \in Nat /\ s.host.registered[v] <= 1
          /\ (s.host.registered[v] > 0 => StandingIn(c.world, v) /\ v # c.thing)
    BY <2>1, <2>3 DEF Base, TableOnce, StandingIn
  <2>6. CASE c.thing = NoThing /\ b.world = c.world /\ NoneMade(s, b, q)
    BY <1>3, <2>5, <2>6 DEF Base, TableOnce, OnePreview, Outside, NoneMade
  <2>7. CASE /\ c.thing \in Slots
             /\ b.host.registered = Registered(s.host, c.world, c.thing).registered
             /\ Restored(s, b, q, c) \/ Previewed(s, b, q, c)
    <3> DEFINE r == Registered(s.host, c.world, c.thing)
    <3>1. /\ \A x \in Slots \ {c.thing} : r.registered[x] = s.host.registered[x]
          /\ r.registered[c.thing] \in {s.host.registered[c.thing], s.host.registered[c.thing] + 1}
      BY <2>1, <2>3, <2>7, TableFacts
    <3> HIDE DEF r
    <3>2. s.host.registered[c.thing] = 0
      BY <2>5, <2>7
    <3>3. \A v \in Slots : r.registered[v] <= 1 /\ (r.registered[v] > 0 => StandingIn(c.world, v))
      <4> TAKE v \in Slots
      <4>1. CASE v = c.thing
        BY <2>4, <2>7, <3>1, <3>2, <4>1
      <4>2. CASE v # c.thing
        BY <2>5, <3>1, <4>2
      <4> QED BY <4>1, <4>2
    <3>4. \A v \in Slots : StandingIn(b.world, v) <=> StandingIn(c.world, v)
      <4>1. b.world = c.world \/ b.world = WithSolid(c.world, c.thing, FALSE)
        BY <2>7 DEF Restored, Previewed
      <4>2. c.thing \in Slots /\ c.world \in World
        BY <2>3, <2>7
      <4>3. \A v \in Slots : StandingIn(WithSolid(c.world, c.thing, FALSE), v) <=> StandingIn(c.world, v)
        BY ONLY <4>2, SolidStanding
      <4> QED BY <4>1, <4>3
    <3>5. OnePreview(b)
      BY <2>7 DEF Base, OnePreview, Restored, Previewed
    <3>6. TableOnce(b)
      BY <2>7, <3>3, <3>4 DEF TableOnce, r
    <3>7. Outside(b)
      <4>1. b.host.inMap = s.host.inMap
        BY SpawnedFacts DEF SameAroundSpawn
      <4> QED BY <1>3, <4>1 DEF Outside
    <3> QED BY <3>5, <3>6, <3>7 DEF Base
  <2> QED BY <1>3, <2>6, <2>7 DEF q
<1> QED BY <1>1, <1>2, <1>3, SpawnedFacts

LEMMA DestroyedAllBase ==
  ASSUME NEW s \in St, Base(s)
  PROVE  Base(DestroyedAll(s))
<1> DEFINE d == DestroyedAll(s)
           S == Range(s.queue.destroys)
<1>1. /\ d \in St /\ SameButDestroys(s, d)
      /\ d.world = IF s.host.inMap THEN Destroyed(s.world, S) ELSE s.world
      /\ \A t \in Slots : /\ d.host.registered[t] <= s.host.registered[t]
                          /\ t \in S /\ s.host.registered[t] <= 1 => d.host.registered[t] = 0
                          /\ t \notin S => d.host.registered[t] = s.host.registered[t]
  BY DestroyedAllFacts
<1>2. s.world \in World
  BY DEF St
<1> HIDE DEF d, S
<1>3. \A t \in Slots : StandingIn(s.world, t) /\ t \notin S => StandingIn(d.world, t)
  BY <1>1, <1>2, DestroyedFacts
<1>4. \A t \in Slots : s.host.registered[t] <= 1 /\ (s.host.registered[t] > 0 => StandingIn(s.world, t))
  BY DEF Base, TableOnce
<1>5. ASSUME NEW t \in Slots
      PROVE  d.host.registered[t] <= 1 /\ (d.host.registered[t] > 0 => StandingIn(d.world, t))
  <2>1. CASE t \in S
    BY <1>1, <1>4, <2>1
  <2>2. CASE t \notin S
    BY <1>1, <1>3, <1>4, <2>2
  <2> QED BY <2>1, <2>2
<1>6. OnePreview(d)
  BY <1>1 DEF Base, OnePreview, SameButDestroys
<1>7. Outside(d)
  <2>1. SUFFICES ASSUME ~s.host.inMap, NEW t \in Slots PROVE d.host.registered[t] = 0
    BY <1>1 DEF Base, Outside, SameButDestroys
  <2>2. d.host.registered[t] \in Nat /\ d.host.registered[t] <= s.host.registered[t]
    BY <1>1 DEF St, Host
  <2>3. s.host.registered[t] = 0
    BY <2>1 DEF Base, Outside
  <2> QED BY <2>2, <2>3
<1>8. Base(d)
  BY <1>5, <1>6, <1>7 DEF Base, TableOnce
<1> QED BY <1>8 DEF d

LEMMA MovedBase ==
  ASSUME NEW s \in St, Base(s)
  PROVE  Base(Moved(s))
<1> DEFINE m == Moved(s)
<1>1. /\ m \in St /\ SameButMoves(s, m)
      /\ \/ m.world = s.world /\ m.host = s.host /\ m.core = s.core
         \/ /\ m.host.preview \in Slots /\ m.core.preview = m.host.preview
            /\ s.host.registered[m.host.preview] > 0
            /\ m.world = WithSolid(s.world, m.host.preview, FALSE)
  BY MovedFacts
<1>2. s.world \in World
  BY DEF St
<1> HIDE DEF m
<1>3. OnePreview(m)
  BY <1>1 DEF Base, OnePreview
<1>4. \A t \in Slots : StandingIn(m.world, t) <=> StandingIn(s.world, t)
  <2> DEFINE p == m.host.preview
  <2>1. CASE p \in Slots /\ m.world = WithSolid(s.world, p, FALSE)
    <3>1. s.world \in World /\ p \in Slots
      BY <1>2, <2>1
    <3> HIDE DEF p
    <3>2. \A t \in Slots : StandingIn(WithSolid(s.world, p, FALSE), t) <=> StandingIn(s.world, t)
      BY ONLY <3>1, SolidStanding
    <3> QED BY <2>1, <3>2
  <2>2. CASE m.world = s.world
    BY <2>2
  <2> QED BY <1>1, <2>1, <2>2
<1>5. TableOnce(m)
  BY <1>1, <1>4 DEF Base, TableOnce, SameButMoves
<1>6. Outside(m)
  <2>1. SUFFICES ASSUME ~s.host.inMap
                 PROVE  m.host.preview = NoThing /\ m.host.registered = s.host.registered
    BY <1>1 DEF Base, Outside, SameButMoves
  <2>2. s.host.preview = NoThing /\ \A t \in Slots : ~(s.host.registered[t] > 0)
    BY <2>1 DEF Base, Outside
  <2> QED BY <1>1, <2>2 DEF SameButMoves
<1>7. Base(m)
  BY <1>3, <1>5, <1>6 DEF Base
<1> QED BY <1>7 DEF m

-----------------------------------------------------------------------------
(* The invariant for every choice of Occurs, and the frame.                *)

Rooted(s, sv) == s \in St /\ sv \in [Keys -> Row] /\ Base(s)

LEMMA FrameRooted ==
  ASSUME Rooted(Now, saved), NEW a \in Aimed(Now), NEW b \in ModelChanged(a), NEW s \in Spawned(b)
  PROVE  /\ Rooted(a, saved) /\ Rooted(b, saved) /\ Rooted(s, saved)
         /\ Rooted(DestroyedAll(s), saved) /\ Rooted(Moved(DestroyedAll(s)), saved)
<1>1. Now \in St /\ saved \in [Keys -> Row] /\ Base(Now)
  BY DEF Rooted
<1>2. /\ a \in St /\ a.world = Now.world /\ a.queue = Now.queue
      /\ a.host.inMap = Now.host.inMap /\ a.host.preview = Now.host.preview /\ a.host.registered = Now.host.registered
      /\ a.core.preview = Now.core.preview
  BY <1>1, AimedFacts
<1>3. Base(a)
  BY <1>1, <1>2 DEF Base, TableOnce, OnePreview, Outside
<1>4. b \in St /\ Base(b)
  BY <1>2, <1>3, ModelChangedFacts, ModelChangedBase
<1>5. s \in St /\ Base(s)
  BY <1>4, SpawnedFacts, SpawnedBase
<1> DEFINE d == DestroyedAll(s)
           m == Moved(d)
<1>6. d \in St /\ Base(d)
  BY <1>5, DestroyedAllFacts, DestroyedAllBase
<1> HIDE DEF d
<1>7. m \in St /\ Base(m)
  BY <1>6, MovedFacts, MovedBase
<1> HIDE DEF m
<1> QED BY <1>1, <1>2, <1>3, <1>4, <1>5, <1>6, <1>7 DEF Rooted, m, d

-----------------------------------------------------------------------------
(* The end of spawn mode.                                                  *)

LEMMA BecomesFacts ==
  ASSUME NEW s \in St, Becomes(s)
  PROVE  Now' = s
BY DEF St, Now, Becomes

LEMMA LeftFacts ==
  ASSUME NEW s \in St
  PROVE  LET l == Left(s)
         IN  /\ l \in St /\ l.world = s.world /\ l.queue = s.queue /\ l.core.objects = s.core.objects
             /\ l.host.registered = s.host.registered /\ l.host.inMap = s.host.inMap
             /\ l.host.preview = NoThing /\ l.host.moving = FALSE /\ SameRows(s.core, l.core)
<1> DEFINE h == [s.host EXCEPT !.preview = NoThing, !.moving = FALSE]
           c == [s.core EXCEPT !.preview = NoThing, !.page = FALSE]
<1>1. s.host \in Host /\ s.core \in Core /\ s.world \in World /\ s.queue \in Queue
      /\ s = [world |-> s.world, host |-> s.host, core |-> s.core, queue |-> s.queue]
  BY DEF St
<1>2. h \in Host /\ h.preview = NoThing /\ h.moving = FALSE /\ h.inMap = s.host.inMap
      /\ h.registered = s.host.registered
  BY <1>1 DEF Host
<1>3. c \in Core /\ c.objects = s.core.objects /\ SameRows(s.core, c)
  BY <1>1 DEF Core, SameRows
<1>4. Left(s) = [s EXCEPT !.host = h, !.core = c]
  BY DEF Left
<1> HIDE DEF h, c
<1>5. ASSUME NEW l, l = Left(s) PROVE l = [world |-> s.world, host |-> h, core |-> c, queue |-> s.queue]
  BY <1>1, <1>4, <1>5
<1>6. ASSUME NEW l, l = [world |-> s.world, host |-> h, core |-> c, queue |-> s.queue]
      PROVE  /\ l \in St /\ l.world = s.world /\ l.queue = s.queue /\ l.core.objects = s.core.objects
             /\ l.host.registered = s.host.registered /\ l.host.inMap = s.host.inMap
             /\ l.host.preview = NoThing /\ l.host.moving = FALSE /\ SameRows(s.core, l.core)
  BY <1>1, <1>2, <1>3, <1>6 DEF St
<1> QED BY <1>5, <1>6

LEMMA LeftRooted ==
  ASSUME NEW s \in St, NEW sv \in [Keys -> Row], TableOnce(s), s.host.inMap
  PROVE  Rooted(Left(s), sv)
<1> DEFINE l == Left(s)
<1>1. /\ l \in St /\ l.world = s.world
      /\ l.host.registered = s.host.registered /\ l.host.preview = NoThing
      /\ l.host.inMap = s.host.inMap
  BY LeftFacts
<1> HIDE DEF l
<1>2. Base(l)
  BY <1>1 DEF Base, TableOnce, OnePreview, Outside
<1>3. Rooted(l, sv)
  BY <1>1, <1>2 DEF Rooted
<1> QED BY <1>3 DEF l

\* At most the row of the object of the thing is written.
LEMMA ReportedFacts ==
  ASSUME NEW os \in Seq(Object), NEW t, saved \in [Keys -> Row]
  PROVE  /\ Reported(os, t) \in [Keys -> Row]
         /\ \A k \in Keys :
              \/ Reported(os, t)[k] = saved[k]
              \/ core.instance /\ \E j \in DOMAIN os : os[j].thing = t /\ os[j].key = k
<1> DEFINE f == Find(os, t)
           o == os[f]
           r == [model |-> o.model, scale |-> o.scale]
<1>1. CASE f = 0 \/ ~core.instance
  BY <1>1 DEF Reported
<1>2. CASE f # 0 /\ core.instance
  <2>1. f \in DOMAIN os /\ o.thing = t
    BY <1>2, FindFacts
  <2> HIDE DEF f
  <2>2. o \in Object
    BY <2>1
  <2> HIDE DEF o
  <2>3. r \in Row /\ o.key \in Keys
    BY <2>2 DEF Object, Row
  <2>4. Reported(os, t) = [saved EXCEPT ![o.key] = r]
    BY <1>2 DEF Reported, f, o
  <2> HIDE DEF r
  <2>5. Reported(os, t) \in [Keys -> Row]
    BY <2>3, <2>4
  <2>6. \A k \in Keys : Reported(os, t)[k] = saved[k] \/ k = o.key
    BY <2>3, <2>4
  <2> QED BY <1>2, <2>1, <2>5, <2>6 DEF o
<1> QED BY <1>1, <1>2

\* A new object, or a moved one, is placed: what changes besides the row.
SamePlace(s) ==
  /\ s.queue = queue /\ s.host = host /\ DOMAIN s.core.objects = DOMAIN core.objects
  /\ \A j \in DOMAIN core.objects : /\ s.core.objects[j].thing = core.objects[j].thing
                                    /\ s.core.objects[j].key = core.objects[j].key
  /\ SameRows(core, s.core)

LEMMA ConfirmFacts ==
  ASSUME Now \in St, saved \in [Keys -> Row], ConfirmSpawn
  PROVE  \E s \in St : /\ SamePlace(s) /\ s.world = WithSolid(world, host.preview, TRUE)
                       /\ s.core.preview = core.preview
                       /\ Now' = Left(s) /\ saved' = Reported(s.core.objects, host.preview)
                       /\ host.preview \in Slots /\ host.inMap
<1> DEFINE t == host.preview
           c == Confirmed(core, t)
           w == WithSolid(world, t, TRUE)
           s == [Now EXCEPT !.core = c, !.world = w]
<1>1. host \in Host /\ core \in Core /\ world \in World /\ queue \in Queue
  BY DEF St, Now
<1>2. t \in Slots /\ host.inMap /\ Becomes(Left(s)) /\ saved' = Reported(s.core.objects, t)
  BY <1>1 DEF ConfirmSpawn, Host, Now
<1>3. c \in Core /\ DOMAIN c.objects = DOMAIN core.objects /\ c.preview = core.preview /\ SameRows(core, c)
      /\ \A j \in DOMAIN core.objects : c.objects[j].thing = core.objects[j].thing
                                        /\ c.objects[j].key = core.objects[j].key
  BY <1>1, ConfirmedFacts
<1>4. w \in World
  BY <1>1, <1>2, SolidFacts
<1> HIDE DEF c, w
<1>5. s = [world |-> w, host |-> host, core |-> c, queue |-> queue]
  <2>1. ASSUME NEW x, x = s PROVE x = [world |-> w, host |-> host, core |-> c, queue |-> queue]
    BY <2>1 DEF Now
  <2> QED BY <2>1
<1> HIDE DEF s
<1>6. s \in St /\ SamePlace(s) /\ s.core.preview = core.preview /\ s.world = w
  BY <1>1, <1>3, <1>4, <1>5 DEF St, SamePlace
<1>7. Now' = Left(s)
  <2>1. Left(s) \in St
    BY <1>6, LeftFacts
  <2> QED BY <1>2, <2>1, BecomesFacts
<1> QED BY <1>2, <1>6, <1>7 DEF w

LEMMA ConfirmRooted ==
  ASSUME Rooted(Now, saved), ConfirmSpawn
  PROVE  Rooted(Now, saved)'
<1>1. Now \in St /\ saved \in [Keys -> Row] /\ Base(Now)
  BY DEF Rooted
<1>2. PICK s \in St : /\ SamePlace(s) /\ s.world = WithSolid(world, host.preview, TRUE)
                      /\ s.core.preview = core.preview
                      /\ Now' = Left(s) /\ saved' = Reported(s.core.objects, host.preview)
                      /\ host.preview \in Slots /\ host.inMap
  BY <1>1, ConfirmFacts
<1>3. s.core.objects \in Seq(Object) /\ world \in World
  BY <1>1 DEF St, Core, Now
<1>4. saved' \in [Keys -> Row]
  BY <1>1, <1>2, <1>3, ReportedFacts
<1>5. \A v \in Slots : StandingIn(s.world, v) <=> StandingIn(world, v)
  <2>1. world \in World /\ host.preview \in Slots
    BY <1>2, <1>3
  <2>2. \A v \in Slots : StandingIn(WithSolid(world, host.preview, TRUE), v) <=> StandingIn(world, v)
    BY ONLY <2>1, SolidStanding
  <2> QED BY <1>2, <2>2
<1>6. TableOnce(s)
  BY <1>1, <1>2, <1>5 DEF Base, TableOnce, SamePlace, Now
<1>7. Rooted(Now', saved')
  <2>1. s.host.inMap
    BY <1>2 DEF SamePlace
  <2> QED BY <1>2, <1>4, <1>6, <2>1, LeftRooted
<1> QED BY <1>7

\* The moved thing is left where it is, put back, or made again.
PutSolid(s, b, t) == b.world = WithSolid(s.world, t, TRUE) /\ b.host = s.host /\ b.core = s.core

PutAnew(s, b, t, c) ==
  /\ c.thing \in Slots /\ b.world = c.world
  /\ b.host.registered = Registered(Unregistered(s.host, t), c.world, c.thing).registered
  /\ b.host.preview = t /\ b.core.preview = s.core.preview
  /\ b.core.objects = WithThing(s.core.objects, t, c.thing)

LEMMA PutBackFacts ==
  ASSUME NEW s \in St, NEW t \in Slots, s.host.preview = t, NEW b \in PutBack(s, t)
  PROVE  /\ b \in St /\ b.queue = s.queue /\ b.host.inMap = s.host.inMap
         /\ DOMAIN b.core.objects = DOMAIN s.core.objects
         /\ \A j \in DOMAIN s.core.objects : b.core.objects[j].key = s.core.objects[j].key
         /\ SameRows(s.core, b.core)
         /\ \/ s.host.orig = NoModel /\ b = s
            \/ PutSolid(s, b, t)
            \/ \E m \in Models : \E c \in Remade(s, t, m) :
                 /\ m = s.host.orig /\ m # ModelOf(s.core.objects, t)
                 /\ Lost(s, b, c) \/ PutAnew(s, b, t, c)
<1> DEFINE m == s.host.orig
           u == Unregistered(s.host, t)
<1>1. s.host \in Host /\ s.core \in Core /\ s.world \in World /\ s.queue \in Queue
      /\ s = [world |-> s.world, host |-> s.host, core |-> s.core, queue |-> s.queue]
  BY DEF St
<1>2. CASE m = NoModel
  BY <1>2 DEF PutBack, SameRows
<1>3. CASE m # NoModel /\ ModelOf(s.core.objects, t) = m
  <2> DEFINE w == WithSolid(s.world, t, TRUE)
  <2>1. b = [s EXCEPT !.world = w]
    BY <1>3 DEF PutBack
  <2>2. w \in World
    BY <1>1, SolidFacts
  <2> HIDE DEF w
  <2>3. b = [world |-> w, host |-> s.host, core |-> s.core, queue |-> s.queue]
    BY <1>1, <2>1
  <2>4. PutSolid(s, b, t)
    BY <2>3 DEF PutSolid, w
  <2> QED BY <1>1, <2>2, <2>3, <2>4 DEF St, SameRows
<1>4. CASE m # NoModel /\ ModelOf(s.core.objects, t) # m
  <2>1. m \in Models
    BY <1>1, <1>4 DEF Host
  <2>2. PICK c \in Remade(s, t, m) :
          b = LET s1 == [s EXCEPT !.host = u, !.world = c.world]
              IN  IF c.thing = NoThing THEN s1
                  ELSE [s1 EXCEPT !.host = Registered(@, c.world, c.thing),
                                  !.core.objects = WithThing(@, t, c.thing)]
    BY <1>4 DEF PutBack
  <2>3. u \in Host /\ SameButTable(s.host, u)
    BY <1>1, TableFacts
  <2> HIDE DEF u, m
  <2>4. c.world \in World /\ c.thing \in Slots \cup {NoThing}
    <3>1. c \in Remade(s, t, m) /\ s.world \in World /\ m \in Models
      BY <1>1, <2>1
    <3> QED BY ONLY <3>1, RemadeFacts
  <2>5. CASE c.thing = NoThing
    <3>1. b = [world |-> c.world, host |-> u, core |-> s.core, queue |-> s.queue]
      BY <1>1, <2>2, <2>5
    <3>2. b \in St /\ b.queue = s.queue /\ b.host.inMap = s.host.inMap /\ b.core = s.core
      BY <1>1, <2>3, <2>4, <3>1 DEF St, SameButTable
    <3>3. Lost(s, b, c)
      BY <2>5, <3>1 DEF Lost, u
    <3> QED BY <1>4, <2>1, <3>2, <3>3 DEF m, SameRows
  <2>6. CASE c.thing \in Slots
    <3> DEFINE r == Registered(u, c.world, c.thing)
               os == WithThing(s.core.objects, t, c.thing)
               k == [s.core EXCEPT !.objects = os]
    <3>1. c.thing # NoThing
      BY <2>6, SizesAssumption
    <3>2. b = [world |-> c.world, host |-> r, core |-> k, queue |-> s.queue]
      BY <1>1, <2>2, <3>1
    <3>3. r \in Host /\ SameButTable(u, r)
      BY <2>3, <2>4, <2>6, TableFacts
    <3>4. os \in Seq(Object) /\ DOMAIN os = DOMAIN s.core.objects
          /\ \A j \in DOMAIN s.core.objects : os[j].key = s.core.objects[j].key
      <4>1. s.core.objects \in Seq(Object)
        BY <1>1 DEF Core
      <4> QED BY <4>1, <2>6, WithThingFacts
    <3> HIDE DEF r, os
    <3>5. k \in Core /\ k.objects = os /\ k.preview = s.core.preview /\ SameRows(s.core, k)
      BY <1>1, <3>4 DEF Core, SameRows
    <3> HIDE DEF k
    <3>6. b \in St /\ b.queue = s.queue /\ b.host.inMap = s.host.inMap /\ b.core = k
      BY <1>1, <2>3, <2>4, <3>2, <3>3, <3>5 DEF St, SameButTable
    <3>7. PutAnew(s, b, t, c)
      BY <2>3, <2>6, <3>2, <3>3, <3>5 DEF PutAnew, r, os, u, SameButTable
    <3> QED BY <1>4, <2>1, <3>4, <3>5, <3>6, <3>7 DEF m
  <2> QED BY <2>4, <2>5, <2>6
<1> QED BY <1>2, <1>3, <1>4

LEMMA ForgottenFacts ==
  ASSUME NEW s \in St, NEW t \in Slots
  PROVE  LET b == Forgotten(s, t)
         IN  /\ b \in St /\ b.queue = s.queue /\ b.host = Unregistered(s.host, t)
             /\ b.host.inMap = s.host.inMap
             /\ b.world = Destroyed(s.world, {t})
             /\ b.core.objects = WithoutThing(s.core.objects, t) /\ SameRows(s.core, b.core)
<1> DEFINE u == Unregistered(s.host, t)
           w == Destroyed(s.world, {t})
           os == WithoutThing(s.core.objects, t)
           k == [s.core EXCEPT !.objects = os]
<1>1. s.host \in Host /\ s.core \in Core /\ s.world \in World /\ s.queue \in Queue
      /\ s = [world |-> s.world, host |-> s.host, core |-> s.core, queue |-> s.queue]
  BY DEF St
<1>2. u \in Host /\ u.inMap = s.host.inMap
  BY <1>1, TableFacts DEF SameButTable
<1>3. w \in World
  BY <1>1, DestroyedFacts
<1>4. os \in Seq(Object)
  BY <1>1, WithoutThingFacts DEF Core
<1> HIDE DEF u, w, os
<1>5. k \in Core /\ k.objects = os /\ SameRows(s.core, k)
  BY <1>1, <1>4 DEF Core, SameRows
<1>6. ASSUME NEW b, b = Forgotten(s, t) PROVE b = [world |-> w, host |-> u, core |-> k, queue |-> s.queue]
  <2>1. b = [s EXCEPT !.host = u, !.world = w, !.core.objects = os]
    BY <1>6 DEF Forgotten, u, w, os
  <2> QED BY <1>1, <2>1
<1> HIDE DEF k
<1>7. ASSUME NEW b, b = [world |-> w, host |-> u, core |-> k, queue |-> s.queue]
      PROVE  b \in St /\ b.queue = s.queue /\ b.host = u /\ b.world = w /\ b.core.objects = os
             /\ SameRows(s.core, b.core)
  BY <1>1, <1>2, <1>3, <1>5, <1>7 DEF St
<1> QED BY <1>2, <1>6, <1>7 DEF u, w, os

LEMMA CancelFacts ==
  ASSUME Now \in St, CancelSpawn
  PROVE  /\ host.preview \in Slots /\ host.inMap /\ Room /\ saved' = saved
         /\ \E s \in St : /\ Now' = Left(s)
                          /\ \/ host.moving /\ s \in PutBack(Now, host.preview)
                             \/ ~host.moving /\ s = Forgotten(Now, host.preview)
<1> DEFINE t == host.preview
<1>1. t \in Slots /\ Now.host.preview = t
  BY DEF CancelSpawn, St, Now, Host
<1>2. PICK s \in IF host.moving THEN PutBack(Now, t) ELSE {Forgotten(Now, t)} : Becomes(Left(s))
  BY DEF CancelSpawn
<1>3. CASE host.moving
  <2>1. s \in PutBack(Now, t)
    BY <1>2, <1>3
  <2>2. s \in St
    BY <1>1, <2>1, PutBackFacts
  <2>3. Now' = Left(s)
    BY <1>2, <2>2, LeftFacts, BecomesFacts
  <2> QED BY <1>1, <1>3, <2>1, <2>2, <2>3 DEF CancelSpawn
<1>4. CASE ~host.moving
  <2>1. s = Forgotten(Now, t)
    BY <1>2, <1>4
  <2>2. s \in St
    BY <1>1, <2>1, ForgottenFacts
  <2>3. Now' = Left(s)
    BY <1>2, <2>2, LeftFacts, BecomesFacts
  <2> QED BY <1>1, <1>4, <2>1, <2>2, <2>3 DEF CancelSpawn
<1> QED BY <1>3, <1>4

LEMMA PutBackTable ==
  ASSUME NEW s \in St, TableOnce(s), NEW t \in Slots, s.host.preview = t, NEW b \in PutBack(s, t)
  PROVE  TableOnce(b)
<1>1. CASE b = s
  BY <1>1
<1>2. CASE PutSolid(s, b, t)
  <2>1. s.world \in World /\ t \in Slots
    BY DEF St
  <2>2. \A v \in Slots : StandingIn(WithSolid(s.world, t, TRUE), v) <=> StandingIn(s.world, v)
    BY ONLY <2>1, SolidStanding
  <2> QED BY <1>2, <2>2 DEF PutSolid, TableOnce
<1>3. ASSUME NEW m \in Models, NEW c \in Remade(s, t, m), Lost(s, b, c) \/ PutAnew(s, b, t, c)
      PROVE  TableOnce(b)
  <2> DEFINE u == Unregistered(s.host, t)
             r == Registered(u, c.world, c.thing)
  <2>1. \A v \in Slots :
          /\ u.registered[v] <= 1 /\ (u.registered[v] > 0 => StandingIn(c.world, v))
          /\ c.thing \in Slots => r.registered[v] <= 1 /\ (r.registered[v] > 0 => StandingIn(c.world, v))
    BY RemadeTable
  <2> HIDE DEF u, r
  <2>2. CASE Lost(s, b, c)
    <3>1. b.host = u /\ b.world = c.world
      BY <2>2 DEF Lost, u
    <3> QED BY <2>1, <3>1 DEF TableOnce
  <2>3. CASE PutAnew(s, b, t, c)
    <3>1. c.thing \in Slots /\ b.host.registered = r.registered /\ b.world = c.world
      BY <2>3 DEF PutAnew, r, u
    <3> QED BY <2>1, <3>1 DEF TableOnce
  <2> QED BY <1>3, <2>2, <2>3
<1> QED BY <1>1, <1>2, <1>3, PutBackFacts

LEMMA ForgottenTable ==
  ASSUME NEW s \in St, TableOnce(s), NEW t \in Slots
  PROVE  TableOnce(Forgotten(s, t))
<1> DEFINE b == Forgotten(s, t)
           u == Unregistered(s.host, t)
<1>1. b.host = u /\ b.world = Destroyed(s.world, {t})
  BY ForgottenFacts
<1>2. s.host \in Host /\ s.world \in World /\ s.host.registered \in [Slots -> Nat]
  BY DEF St, Host
<1>3. /\ u.registered[t] = Without(s.host.registered[t], 1)
      /\ \A v \in Slots \ {t} : u.registered[v] = s.host.registered[v]
  BY <1>2, TableFacts
<1>4. \A v \in Slots : StandingIn(Destroyed(s.world, {t}), v) <=> StandingIn(s.world, v) /\ v # t
  BY <1>2, DestroyedFacts
<1>5. u.registered[t] = 0
  <2>1. s.host.registered[t] \in Nat /\ s.host.registered[t] <= 1
    BY <1>2 DEF TableOnce
  <2> HIDE DEF u
  <2> QED BY <1>3, <2>1 DEF Without
<1> HIDE DEF u, b
<1>6. TableOnce(b)
  BY <1>1, <1>3, <1>4, <1>5 DEF TableOnce
<1> QED BY <1>6 DEF b

LEMMA CancelRooted ==
  ASSUME Rooted(Now, saved), CancelSpawn
  PROVE  Rooted(Now, saved)'
<1> DEFINE t == host.preview
<1>1. Now \in St /\ saved \in [Keys -> Row] /\ TableOnce(Now)
  BY DEF Rooted, Base
<1>2. /\ t \in Slots /\ saved' = saved /\ Now.host.preview = t /\ Now.host.inMap
      /\ \E s \in St : /\ Now' = Left(s)
                       /\ \/ host.moving /\ s \in PutBack(Now, t)
                          \/ ~host.moving /\ s = Forgotten(Now, t)
  BY <1>1, CancelFacts DEF Now
<1>3. PICK s \in St : Now' = Left(s) /\ (s \in PutBack(Now, t) \/ s = Forgotten(Now, t))
  BY <1>2
<1> HIDE DEF t
<1>4. TableOnce(s) /\ s.host.inMap
  <2>1. s \in PutBack(Now, t) => TableOnce(s) /\ s.host.inMap
    BY <1>1, <1>2, PutBackTable, PutBackFacts
  <2>2. s = Forgotten(Now, t) => TableOnce(s) /\ s.host.inMap
    <3>1. TableOnce(Forgotten(Now, t))
      BY <1>1, <1>2, ForgottenTable
    <3>2. Forgotten(Now, t).host.inMap = Now.host.inMap
      BY <1>1, <1>2, ForgottenFacts
    <3> QED BY <1>2, <3>1, <3>2
  <2> QED BY <1>3, <2>1, <2>2
<1>5. Rooted(Left(s), saved)
  BY <1>1, <1>4, LeftRooted
<1>6. Rooted(Now', saved')
  BY <1>2, <1>3, <1>5
<1> QED BY <1>6

-----------------------------------------------------------------------------
(* Requests, the engine, and the map.                                      *)

\* A request for a new object: one entry more, with no key yet.
LEMMA RequestSpawnFacts ==
  ASSUME Now \in St, RequestSpawn
  PROVE  \E q \in Request :
           /\ q.key = NoKey /\ queue' = [queue EXCEPT !.spawns = Append(queue.spawns, q)]
           /\ queue' \in Queue /\ queue'.spawns = Append(queue.spawns, q)
           /\ queue'.moves = queue.moves /\ queue'.destroys = queue.destroys
           /\ queue'.models = queue.models
<1>1. core \in Core /\ queue \in Queue /\ core.objects \in Seq(Object)
  BY DEF St, Now, Core
<1> DEFINE o == Find(core.objects, core.aimed)
           C == {[model |-> core.objects[o].model, scale |-> core.objects[o].scale, key |-> NoKey]}
           N == {[model |-> m, scale |-> 1, key |-> NoKey] : m \in Models}
<1>2. o # 0 => C \subseteq Request
  <2>1. SUFFICES ASSUME o # 0 PROVE core.objects[o] \in Object
    BY <2>1 DEF Object, Request, NoKey
  <2>2. o \in DOMAIN core.objects
    BY <1>1, <2>1, FindFacts
  <2> QED BY <1>1, <2>2
<1>3. N \subseteq Request
  BY ModelsAssumption DEF Request
<1>4. PICK q \in N \cup (IF o = 0 THEN {} ELSE C) : queue' = [queue EXCEPT !.spawns = Append(queue.spawns, q)]
  BY DEF RequestSpawn
<1>5. q.key = NoKey
  BY <1>4
<1>6. q \in Request
  <2> HIDE DEF N, C
  <2> QED BY <1>2, <1>3, <1>4
<1> HIDE DEF N, C, o
<1>7. queue.spawns \in Seq(Request)
  BY <1>1 DEF Queue
<1> DEFINE a == Append(queue.spawns, q)
<1>8. a \in Seq(Request)
  BY <1>6, <1>7
<1> HIDE DEF a
<1>9. queue' = [queue EXCEPT !.spawns = a]
  BY <1>4 DEF a
<1>10. queue' \in Queue /\ queue'.spawns = a /\ queue'.moves = queue.moves
       /\ queue'.destroys = queue.destroys /\ queue'.models = queue.models
  BY <1>1, <1>8, <1>9 DEF Queue
<1> QED BY <1>4, <1>5, <1>6, <1>10 DEF a

LEMMA RequestMoveFacts ==
  ASSUME Now \in St, RequestMove
  PROVE  /\ queue' \in Queue /\ queue'.spawns = queue.spawns
         /\ core.aimed \in Slots /\ queue'.moves = Append(queue.moves, core.aimed)
         /\ queue'.destroys = queue.destroys /\ queue'.models = queue.models
<1>1. core \in Core /\ queue \in Queue
  BY DEF St, Now
<1>2. core.aimed \in Slots /\ queue' = [queue EXCEPT !.moves = Append(queue.moves, core.aimed)]
  BY <1>1 DEF RequestMove, Core
<1>3. queue.moves \in Seq(Slots)
  BY <1>1 DEF Queue
<1> DEFINE a == Append(queue.moves, core.aimed)
<1>4. a \in Seq(Slots) /\ queue' = [queue EXCEPT !.moves = a]
  BY <1>2, <1>3
<1> HIDE DEF a
<1>5. queue' \in Queue /\ queue'.spawns = queue.spawns /\ queue'.moves = a
      /\ queue'.destroys = queue.destroys /\ queue'.models = queue.models
  BY <1>1, <1>4 DEF Queue
<1> QED BY <1>2, <1>5 DEF a

LEMMA DestroyObjectFacts ==
  ASSUME Now \in St, saved \in [Keys -> Row], DestroyObject
  PROVE  LET k == Find(core.objects, core.aimed)
         IN  /\ queue' \in Queue /\ queue'.spawns = queue.spawns
             /\ queue'.destroys = Append(queue.destroys, core.aimed)
             /\ queue'.moves = queue.moves /\ queue'.models = queue.models
             /\ core' \in Core /\ core'.objects = RemoveAt(core.objects, k)
             /\ core'.preview = core.preview /\ SameRows(core, core')
             /\ k \in DOMAIN core.objects /\ core.objects[k].thing = core.aimed /\ core.aimed \in Slots
             /\ saved' = IF core.instance THEN [saved EXCEPT ![core.objects[k].key] = Absent] ELSE saved
             /\ saved' \in [Keys -> Row] /\ core.objects[k].key \in Keys
<1> DEFINE k == Find(core.objects, core.aimed)
           e == RemoveAt(core.objects, k)
           a == Append(queue.destroys, core.aimed)
<1>1. core \in Core /\ queue \in Queue /\ core.objects \in Seq(Object)
  BY DEF St, Now, Core
<1>2. k # 0 /\ core.aimed \in Slots
  BY <1>1 DEF DestroyObject, Core
<1>3. k \in DOMAIN core.objects /\ core.objects[k].thing = core.aimed
  BY <1>1, <1>2, FindFacts
<1>4. /\ core' = [core EXCEPT !.aimed = NoThing, !.objects = e]
      /\ queue' = [queue EXCEPT !.destroys = a]
      /\ saved' = IF core.instance THEN [saved EXCEPT ![core.objects[k].key] = Absent] ELSE saved
  BY DEF DestroyObject
<1> HIDE DEF k
<1>5. e \in Seq(Object)
  BY <1>1, <1>3, Erased
<1>6. a \in Seq(Slots)
  <2>1. queue.destroys \in Seq(Slots)
    BY <1>1 DEF Queue
  <2> QED BY <1>2, <2>1
<1>7. core.objects[k].key \in Keys
  <2>1. core.objects[k] \in Object
    BY <1>1, <1>3
  <2> QED BY <2>1 DEF Object
<1>8. Absent \in Row
  BY ModelsAssumption DEF Absent, Row
<1>9. saved' \in [Keys -> Row]
  BY <1>4, <1>8
<1> HIDE DEF e, a
<1>10. core' \in Core /\ core'.objects = e /\ core'.preview = core.preview /\ SameRows(core, core')
  BY <1>1, <1>4, <1>5 DEF Core, SameRows
<1>11. queue' \in Queue /\ queue'.spawns = queue.spawns /\ queue'.destroys = a
       /\ queue'.moves = queue.moves /\ queue'.models = queue.models
  BY <1>1, <1>4, <1>6 DEF Queue
<1> QED BY <1>2, <1>3, <1>4, <1>7, <1>9, <1>10, <1>11 DEF e, a, k

\* The page changes the model an object is remembered with, and nothing else of it.
LEMMA PageFacts ==
  ASSUME Now \in St, RequestModelChange \/ SetSlider
  PROVE  /\ queue' \in Queue /\ queue'.spawns = queue.spawns
         /\ queue'.destroys = queue.destroys /\ queue'.moves = queue.moves
         /\ core' \in Core /\ core'.preview = core.preview /\ SameRows(core, core')
         /\ DOMAIN core'.objects = DOMAIN core.objects
         /\ \A j \in DOMAIN core.objects : /\ core'.objects[j].thing = core.objects[j].thing
                                           /\ core'.objects[j].key = core.objects[j].key
<1>1. core \in Core /\ queue \in Queue /\ core.objects \in Seq(Object)
  BY DEF St, Now, Core
<1>2. CASE SetSlider
  <2>1. PICK z \in Scales : core' = [core EXCEPT !.slider = z, !.sliderSet = TRUE]
    BY <1>2 DEF SetSlider
  <2>2. core' \in Core /\ core'.preview = core.preview /\ core'.objects = core.objects /\ SameRows(core, core')
    BY <1>1, <2>1 DEF Core, SameRows
  <2>3. queue' = queue
    BY <1>2 DEF SetSlider
  <2> QED BY <1>1, <2>2, <2>3
<1>3. CASE RequestModelChange
  <2> DEFINE k == Find(core.objects, core.preview)
  <2>1. PICK m \in Models :
          /\ queue' = [queue EXCEPT !.models = Append(queue.models, m)]
          /\ core' = IF k = 0 THEN core ELSE [core EXCEPT !.objects[k].model = m]
    BY <1>3 DEF RequestModelChange
  <2>2. queue' \in Queue /\ queue'.spawns = queue.spawns /\ queue'.destroys = queue.destroys
        /\ queue'.moves = queue.moves
    <3> DEFINE a == Append(queue.models, m)
    <3>1. a \in Seq(Models)
      <4>1. queue.models \in Seq(Models)
        BY <1>1 DEF Queue
      <4> QED BY <4>1
    <3>2. queue' = [queue EXCEPT !.models = a]
      BY <2>1
    <3> HIDE DEF a
    <3> QED BY <1>1, <3>1, <3>2 DEF Queue
  <2>3. CASE k = 0
    BY <1>1, <2>1, <2>2, <2>3 DEF SameRows
  <2>4. CASE k # 0
    <3>1. k \in DOMAIN core.objects
      BY <1>1, <2>4, FindFacts
    <3> DEFINE n == [core.objects[k] EXCEPT !.model = m]
               os == [core.objects EXCEPT ![k] = n]
    <3>2. core' = [core EXCEPT !.objects = os]
      BY <2>1, <2>4
    <3> HIDE DEF k
    <3>3. n \in Object /\ n.thing = core.objects[k].thing /\ n.key = core.objects[k].key
      <4>1. core.objects[k] \in Object
        BY <1>1, <3>1
      <4> QED BY <4>1 DEF Object
    <3> HIDE DEF n
    <3>4. os \in Seq(Object) /\ DOMAIN os = DOMAIN core.objects
          /\ \A j \in DOMAIN core.objects : os[j] = IF j = k THEN n ELSE core.objects[j]
      BY <1>1, <3>1, <3>3
    <3> HIDE DEF os
    <3>5. core' \in Core /\ core'.preview = core.preview /\ core'.objects = os /\ SameRows(core, core')
      BY <1>1, <3>2, <3>4 DEF Core, SameRows
    <3> QED BY <2>2, <3>3, <3>4, <3>5
  <2> QED BY <2>3, <2>4
<1> QED BY <1>2, <1>3

\* What the engine makes and frees for itself touches no thing that stands.
LEMMA EngineFacts ==
  ASSUME Now \in St, Tick \/ EngineCreates \/ EngineRemoves
  PROVE  /\ world' \in World /\ UNCHANGED <<host, core, queue, saved>>
         /\ \A u \in Slots : /\ StandingIn(world', u) <=> StandingIn(world, u)
                             /\ StandingIn(world, u) => world'[u] = world[u]
<1>1. world \in World
  BY DEF St, Now
<1>2. CASE Tick
  <2>1. world' = Freed(world, Going(world)) /\ UNCHANGED <<host, core, queue, saved>>
    BY <1>2 DEF Tick
  <2>2. \A u \in Slots : world'[u] = IF world[u].state = "going" THEN Vacant ELSE world[u]
    BY <2>1 DEF Freed, Going
  <2>3. world' \in World
    <3>1. \A u \in Slots : world'[u] \in Thing
      <4>1. Vacant \in Thing /\ \A u \in Slots : world[u] \in Thing
        BY <1>1 DEF World, Vacant, Thing
      <4> QED BY <2>2, <4>1
    <3> QED BY <2>1, <3>1 DEF Freed, World
  <2> QED BY <2>1, <2>2, <2>3 DEF StandingIn, Vacant
<1>3. CASE EngineCreates
  <2>1. PICK c \in Create(world, Engine) : world' = c.world
    BY <1>3 DEF EngineCreates
  <2>2. /\ c.world \in World /\ c.thing \in Slots \cup {NoThing}
        /\ \A u \in Slots : StandingIn(world, u) => c.world[u] = world[u] /\ u # c.thing
        /\ \A u \in Slots : StandingIn(c.world, u) => u = c.thing \/ StandingIn(world, u)
        /\ c.thing \in Slots => c.world[c.thing] = [state |-> "live", model |-> Engine, solid |-> TRUE]
    BY <1>1, CreateFacts
  <2>3. c.thing \in Slots => ~StandingIn(c.world, c.thing)
    BY <2>2 DEF StandingIn
  <2>4. \A u \in Slots : StandingIn(world, u) => StandingIn(c.world, u)
    BY <2>2 DEF StandingIn
  <2>5. UNCHANGED <<host, core, queue, saved>>
    BY <1>3 DEF EngineCreates
  <2> QED BY <2>1, <2>2, <2>3, <2>4, <2>5
<1>4. CASE EngineRemoves
  <2>1. PICK t \in Slots : world[t].model = Engine /\ world' = Destroyed(world, {t})
    BY <1>4 DEF EngineRemoves
  <2>2. UNCHANGED <<host, core, queue, saved>>
    BY <1>4 DEF EngineRemoves
  <2>3. /\ world' \in World /\ \A u \in Slots \ {t} : world'[u] = world[u]
        /\ \A u \in Slots : StandingIn(world', u) <=> StandingIn(world, u) /\ u \notin {t}
    BY <1>1, <2>1, DestroyedFacts
  <2>4. ~StandingIn(world, t)
    BY <2>1 DEF StandingIn
  <2> QED BY <2>2, <2>3, <2>4
<1> QED BY <1>2, <1>3, <1>4

LEMMA MapUnloadFacts ==
  ASSUME Now \in St, MapUnload
  PROVE  /\ world' = EmptyWorld /\ world' \in World /\ host' = IdleHost /\ host' \in Host
         /\ core' \in Core /\ core'.objects = <<>> /\ UNCHANGED <<queue, saved>>
         /\ "leftOver" \in Occurs \/ \A f \in DOMAIN queue : queue[f] = <<>>
<1>1. core \in Core
  BY DEF St, Now
<1>2. world' = EmptyWorld /\ host' = IdleHost /\ UNCHANGED <<queue, saved>>
      /\ ("leftOver" \in Occurs \/ \A f \in DOMAIN queue : queue[f] = <<>>)
  BY DEF MapUnload
<1>3. EmptyWorld \in World
  <2>1. Vacant \in Thing
    BY DEF Vacant, Thing
  <2> QED BY <2>1 DEF EmptyWorld, World
<1>4. IdleHost \in Host
  <2>1. [t \in Slots |-> 0] \in [Slots -> Nat]
    OBVIOUS
  <2> DEFINE z == [t \in Slots |-> 0]
  <2>2. IdleHost = [inMap |-> FALSE, preview |-> NoThing, moving |-> FALSE, orig |-> NoModel,
                    registered |-> z, aimed |-> NoThing, cached |-> FALSE]
    BY DEF IdleHost
  <2> HIDE DEF z
  <2> QED BY <2>1, <2>2 DEF Host, z
<1>5. core' \in Core /\ core'.objects = <<>>
  <2>1. <<>> \in Seq(Object)
    OBVIOUS
  <2> SUFFICES ASSUME NEW e \in Seq(Object), core' = [core EXCEPT !.objects = e, !.sliderSet = FALSE, !.instance = FALSE]
               PROVE  core' \in Core /\ core'.objects = e
    BY <2>1 DEF MapUnload
  <2> QED BY <1>1 DEF Core
<1> QED BY <1>2, <1>3, <1>4, <1>5

ObjectKeys(os) == {os[k].key : k \in DOMAIN os}

\* The rows come behind the requests that wait, each with its key.
LEMMA MapLoadFacts ==
  ASSUME Now \in St, saved \in [Keys -> Row], MapLoad
  PROVE  /\ world' = EmptyWorld /\ world' \in World /\ ~host.inMap
         /\ host' \in Host /\ host'.inMap /\ host'.preview = host.preview
         /\ host'.registered = host.registered /\ host'.moving = host.moving
         /\ core' \in Core /\ core'.objects = <<>> /\ core'.preview = core.preview
         /\ queue' \in Queue /\ queue'.destroys = queue.destroys /\ queue'.moves = queue.moves
         /\ UNCHANGED saved
         /\ \A k \in SavedKeys : \/ k \in core'.missed
                                 \/ core'.instance /\ k \in ObjectKeys(queue'.spawns)
<1>1. core \in Core /\ host \in Host /\ queue \in Queue
  BY DEF St, Now
<1>2. world' = EmptyWorld /\ ~host.inMap /\ host' = [host EXCEPT !.inMap = TRUE] /\ saved' = saved
  BY DEF MapLoad
<1>3. EmptyWorld \in World
  <2>1. Vacant \in Thing
    BY DEF Vacant, Thing
  <2> QED BY <2>1 DEF EmptyWorld, World
<1>4. host' \in Host /\ host'.inMap /\ host'.preview = host.preview
      /\ host'.registered = host.registered /\ host'.moving = host.moving
  BY <1>1, <1>2 DEF Host
<1>5. PICK instance \in BOOLEAN : \E K \in IF instance THEN SUBSET SavedKeys ELSE {{}} :
        /\ core' = [core EXCEPT !.objects = <<>>, !.instance = instance, !.missed = SavedKeys \ K]
        /\ \E rows \in Rows(K) :
             queue' = [queue EXCEPT !.spawns = queue.spawns \o [r \in 1 .. Cardinality(K) |-> RowRequest(rows[r])]]
  BY DEF MapLoad
<1>6. PICK K \in IF instance THEN SUBSET SavedKeys ELSE {{}} :
        /\ core' = [core EXCEPT !.objects = <<>>, !.instance = instance, !.missed = SavedKeys \ K]
        /\ \E rows \in Rows(K) :
             queue' = [queue EXCEPT !.spawns = queue.spawns \o [r \in 1 .. Cardinality(K) |-> RowRequest(rows[r])]]
  BY <1>5
<1>7. K \subseteq SavedKeys /\ (~instance => K = {})
  BY <1>6
<1>8. core' \in Core /\ core'.objects = <<>> /\ core'.preview = core.preview
      /\ core'.instance = instance /\ core'.missed = SavedKeys \ K
  <2>1. <<>> \in Seq(Object) /\ SavedKeys \ K \in SUBSET Keys
    BY DEF SavedKeys
  <2> SUFFICES ASSUME NEW e \in Seq(Object), NEW x \in SUBSET Keys,
                      core' = [core EXCEPT !.objects = e, !.instance = instance, !.missed = x]
               PROVE  core' \in Core /\ core'.objects = e /\ core'.preview = core.preview
                      /\ core'.instance = instance /\ core'.missed = x
    BY <1>6, <2>1
  <2> QED BY <1>1 DEF Core
<1> DEFINE n == Cardinality(K)
<1>9. n \in Nat
  <2>1. IsFiniteSet(Keys) /\ K \subseteq Keys
    BY <1>7, SizesAssumption, FS_Interval DEF Keys, SavedKeys
  <2>2. IsFiniteSet(K)
    BY <2>1, FS_Subset
  <2> QED BY <2>2, FS_CardinalityType
<1>10. PICK rows \in Rows(K) :
        queue' = [queue EXCEPT !.spawns = queue.spawns \o [r \in 1 .. n |-> RowRequest(rows[r])]]
  BY <1>6
<1> HIDE DEF n
<1> DEFINE f == [r \in 1 .. n |-> RowRequest(rows[r])]
<1>11. rows \in [1 .. n -> K] /\ \A k \in K : \E r \in 1 .. n : rows[r] = k
  BY <1>10 DEF Rows, n, Range
<1>12. \A k \in K : RowRequest(k) \in Request /\ RowRequest(k).key = k
  <2>1. \A k \in K : k \in Keys /\ saved[k].model \in Models /\ saved[k].scale \in Scales
    BY <1>7 DEF SavedKeys, Row
  <2> QED BY <2>1 DEF Request, RowRequest
<1>13. f \in Seq(Request) /\ Len(f) = n /\ \A r \in 1 .. n : f[r].key = rows[r]
  <2>1. \A r \in 1 .. n : f[r] \in Request /\ f[r].key = rows[r]
    BY <1>11, <1>12
  <2> QED BY <1>9, <2>1
<1> HIDE DEF f
<1> DEFINE old == queue.spawns
           new == old \o f
<1>14. old \in Seq(Request)
  BY <1>1 DEF Queue
<1> HIDE DEF old
<1>15. /\ new \in Seq(Request) /\ DOMAIN new = 1 .. Len(old) + n /\ Len(old) \in Nat
       /\ \A j \in 1 .. Len(old) + n : new[j] = IF j <= Len(old) THEN old[j] ELSE f[j - Len(old)]
  <2>1. /\ Len(old \o f) = Len(old) + Len(f) /\ old \o f \in Seq(Request)
        /\ \A j \in 1 .. Len(old) + Len(f) :
             (old \o f)[j] = IF j <= Len(old) THEN old[j] ELSE f[j - Len(old)]
    BY <1>13, <1>14, ConcatProperties
  <2>2. Len(f) = n /\ Len(old) \in Nat
    BY <1>13, <1>14
  <2> HIDE DEF new
  <2>3. Len(new) = Len(old) + n /\ new \in Seq(Request)
    BY <2>1, <2>2 DEF new
  <2> QED BY <2>1, <2>2, <2>3 DEF new
<1> HIDE DEF new
<1>16. ASSUME NEW k \in K PROVE k \in ObjectKeys(new)
  <2>1. PICK r \in 1 .. n : rows[r] = k
    BY <1>11
  <2>2. r + Len(old) \in DOMAIN new /\ new[r + Len(old)] = f[r]
    BY <1>9, <1>15
  <2> QED BY <1>13, <2>1, <2>2 DEF ObjectKeys
<1>17. queue' = [queue EXCEPT !.spawns = new]
  BY <1>10 DEF new, old, f
<1>18. queue' \in Queue /\ queue'.spawns = new /\ queue'.destroys = queue.destroys
       /\ queue'.moves = queue.moves
  BY <1>1, <1>15, <1>17 DEF Queue
<1> QED BY <1>2, <1>3, <1>4, <1>7, <1>8, <1>16, <1>18

-----------------------------------------------------------------------------
(* Every step keeps what holds for every choice of Occurs.                 *)

\* A step that leaves the table and the previews alone.
LEMMA BaseKept ==
  ASSUME Base(Now), host'.registered = host.registered, host'.preview = host.preview,
         host'.inMap = host.inMap, core'.preview = core.preview,
         \A u \in Slots : StandingIn(world, u) => StandingIn(world', u)
  PROVE  Base(Now')
BY DEF Base, TableOnce, OnePreview, Outside, Now

LEMMA StepRooted ==
  ASSUME Rooted(Now, saved), [Next]_vars
  PROVE  Rooted(Now, saved)'
<1>1. /\ Now \in St /\ saved \in [Keys -> Row] /\ Base(Now)
      /\ world \in World /\ host \in Host /\ core \in Core /\ queue \in Queue
      /\ core.objects \in Seq(Object)
  BY DEF Rooted, St, Now, Core
<1>2. SUFFICES Rooted(Now', saved')
  OBVIOUS
<1>3. CASE HostUpdate
  <2>1. PICK a \in Aimed(Now) : \E b \in ModelChanged(a) : \E s \in Spawned(b) :
          Becomes(Moved(DestroyedAll(s)))
    BY <1>3 DEF HostUpdate
  <2>2. PICK b \in ModelChanged(a) : \E s \in Spawned(b) : Becomes(Moved(DestroyedAll(s)))
    BY <2>1
  <2>3. PICK s \in Spawned(b) : Becomes(Moved(DestroyedAll(s)))
    BY <2>2
  <2> DEFINE m == Moved(DestroyedAll(s))
  <2>4. Rooted(m, saved)
    BY FrameRooted
  <2> HIDE DEF m
  <2>5. Now' = m
    BY <2>3, <2>4, BecomesFacts DEF m, Rooted
  <2>6. saved' = saved
    BY <1>3 DEF HostUpdate
  <2> QED BY <2>4, <2>5, <2>6
<1>4. CASE ConfirmSpawn
  BY <1>4, ConfirmRooted
<1>5. CASE CancelSpawn
  BY <1>5, CancelRooted
<1>6. CASE RequestSpawn
  <2>1. UNCHANGED <<world, host, core, saved>> /\ queue' \in Queue
    BY <1>1, <1>6, RequestSpawnFacts DEF RequestSpawn
  <2>2. Base(Now')
    BY <1>1, <2>1, BaseKept
  <2> QED BY <1>1, <2>1, <2>2 DEF Rooted, St, Now
<1>7. CASE RequestMove
  <2>1. UNCHANGED <<world, host, core, saved>> /\ queue' \in Queue /\ queue'.spawns = queue.spawns
    BY <1>1, <1>7, RequestMoveFacts DEF RequestMove
  <2>2. Base(Now')
    BY <1>1, <2>1, BaseKept
  <2> QED BY <1>1, <2>1, <2>2 DEF Rooted, St, Now
<1>8. CASE DestroyObject
  <2>1. /\ queue' \in Queue /\ core' \in Core /\ core'.preview = core.preview
        /\ saved' \in [Keys -> Row]
    BY <1>1, <1>8, DestroyObjectFacts
  <2>2. UNCHANGED <<world, host>>
    BY <1>8 DEF DestroyObject
  <2>3. Base(Now')
    BY <1>1, <2>1, <2>2, BaseKept
  <2> QED BY <1>1, <2>1, <2>2, <2>3 DEF Rooted, St, Now
<1>9. CASE RequestModelChange \/ SetSlider
  <2>1. /\ queue' \in Queue /\ queue'.spawns = queue.spawns
        /\ core' \in Core /\ core'.preview = core.preview
    BY <1>1, <1>9, PageFacts
  <2>2. UNCHANGED <<world, host, saved>>
    BY <1>9 DEF RequestModelChange, SetSlider
  <2>3. Base(Now')
    BY <1>1, <2>1, <2>2, BaseKept
  <2> QED BY <1>1, <2>1, <2>2, <2>3 DEF Rooted, St, Now
<1>10. CASE Tick \/ EngineCreates \/ EngineRemoves
  <2>1. /\ world' \in World /\ UNCHANGED <<host, core, queue, saved>>
        /\ \A u \in Slots : StandingIn(world', u) <=> StandingIn(world, u)
    BY <1>1, <1>10, EngineFacts
  <2>2. Base(Now')
    BY <1>1, <2>1, BaseKept
  <2> QED BY <1>1, <2>1, <2>2 DEF Rooted, St, Now
<1>11. CASE MapUnload
  <2>1. /\ world' \in World /\ host' = IdleHost /\ host' \in Host
        /\ core' \in Core /\ core'.objects = <<>> /\ UNCHANGED <<queue, saved>>
    BY <1>1, <1>11, MapUnloadFacts
  <2>2. Base(Now')
    <3>1. host'.preview = NoThing /\ \A t \in Slots : host'.registered[t] = 0
      BY <2>1 DEF IdleHost
    <3> QED BY <3>1 DEF Base, TableOnce, OnePreview, Outside, Now
  <2> QED BY <1>1, <2>1, <2>2 DEF Rooted, St, Now
<1>12. CASE MapLoad
  <2>1. /\ world' = EmptyWorld /\ world' \in World /\ ~host.inMap
        /\ host' \in Host /\ host'.preview = host.preview /\ host'.registered = host.registered
        /\ core' \in Core /\ core'.objects = <<>> /\ core'.preview = core.preview
        /\ queue' \in Queue /\ UNCHANGED saved
    BY <1>1, <1>12, MapLoadFacts
  <2>2. Base(Now')
    <3>1. \A t \in Slots : host.registered[t] = 0
      BY <1>1, <2>1 DEF Base, Outside, Now
    <3>2. host.preview = NoThing
      BY <1>1, <2>1 DEF Base, Outside, Now
    <3> QED BY <2>1, <3>1, <3>2 DEF Base, TableOnce, OnePreview, Outside, Now
  <2> QED BY <1>1, <2>1, <2>2 DEF Rooted, St, Now
<1>13. CASE UNCHANGED vars
  BY <1>1, <1>13 DEF vars, Rooted, Now
<1> QED BY <1>3, <1>4, <1>5, <1>6, <1>7, <1>8, <1>9, <1>10, <1>11, <1>12, <1>13 DEF Next

LEMMA InitRooted ==
  ASSUME Init
  PROVE  Rooted(Now, saved)
<1>1. EmptyWorld \in World
  <2>1. Vacant \in Thing
    BY DEF Vacant, Thing
  <2> QED BY <2>1 DEF EmptyWorld, World
<1>2. IdleHost \in Host
  <2> DEFINE z == [t \in Slots |-> 0]
  <2>1. z \in [Slots -> Nat]
    OBVIOUS
  <2>2. IdleHost = [inMap |-> FALSE, preview |-> NoThing, moving |-> FALSE, orig |-> NoModel,
                    registered |-> z, aimed |-> NoThing, cached |-> FALSE]
    BY DEF IdleHost
  <2> HIDE DEF z
  <2> QED BY <2>1, <2>2 DEF Host
<1>3. core \in Core /\ core.preview = NoThing
  <2>1. \A e \in Seq(Object) :
          [objects |-> e, preview |-> NoThing, aimed |-> NoThing,
           restored |-> FALSE, page |-> FALSE, slider |-> 1, sliderSet |-> FALSE,
           instance |-> FALSE, missed |-> {}] \in Core
    BY ModelsAssumption DEF Core
  <2>2. <<>> \in Seq(Object)
    OBVIOUS
  <2> QED BY <2>1, <2>2 DEF Init
<1>4. queue \in Queue
  <2>1. \A x \in Seq(Request), y \in Seq(Slots), z \in Seq(Slots), v \in Seq(Models) :
          [spawns |-> x, destroys |-> y, moves |-> z, models |-> v] \in Queue
    BY DEF Queue
  <2>2. <<>> \in Seq(Request) /\ <<>> \in Seq(Slots) /\ <<>> \in Seq(Models)
    OBVIOUS
  <2> QED BY <2>1, <2>2 DEF Init
<1>5. saved \in [Keys -> Row]
  BY DEF Init, Row
<1>6. host.preview = NoThing /\ \A t \in Slots : host.registered[t] = 0
  BY DEF Init, IdleHost
<1>7. Base(Now)
  BY <1>6 DEF Base, TableOnce, OnePreview, Outside, Now
<1> QED BY <1>1, <1>2, <1>3, <1>4, <1>5, <1>7 DEF Rooted, St, Now, Init

LEMMA AlwaysRooted == Spec => []Rooted(Now, saved)
<1>1. Init => Rooted(Now, saved)
  BY InitRooted
<1>2. Rooted(Now, saved) /\ [Next]_vars => Rooted(Now, saved)'
  BY StepRooted
<1> QED BY <1>1, <1>2, PTL DEF Spec

\* The types, whatever comes up: the level's things running out, a template that is
\* missing, a map that changes with requests waiting, the removal of the preview.
THEOREM TypesHold == Spec => []TypeOK
<1>1. Rooted(Now, saved) => TypeOK
  BY DEF Rooted, St, Now, TypeOK
<1> QED BY <1>1, AlwaysRooted, PTL

\* AACoreManager_RegisterThingTask and its counterpart keep one entry for a thing, and
\* none for a thing that is gone, on every path by which a thing comes and goes.
THEOREM RegisteredOnceHolds == Spec => []RegisteredOnce
<1>1. Rooted(Now, saved) => RegisteredOnce
  BY DEF Rooted, Base, TableOnce, RegisteredOnce, StandingIn, Standing, Now
<1> QED BY <1>1, AlwaysRooted, PTL

\* Host and core never mean different previews.
THEOREM SamePreviewHolds == Spec => []SamePreview
<1>1. Rooted(Now, saved) => SamePreview
  BY DEF Rooted, Base, OnePreview, SamePreview, Now
<1> QED BY <1>1, AlwaysRooted, PTL

-----------------------------------------------------------------------------
(* Objects and the things that stand for them.                             *)

\* Without a map nothing waits.
AtRest(s) ==
  ~s.host.inMap =>
    /\ s.host.preview = NoThing /\ s.queue.spawns = <<>> /\ s.queue.destroys = <<>>
    /\ s.queue.moves = <<>>

\* Each object has a standing thing of its own, and each standing thing an object, but
\* those whose removal waits.
Matched(os, w, gone) ==
  /\ Distinct(os)
  /\ \A j \in DOMAIN os : StandingIn(w, os[j].thing)
  /\ \A t \in Slots : StandingIn(w, t) => HasObject(os, t) \/ t \in gone
  /\ \A t \in gone : ~HasObject(os, t) /\ StandingIn(w, t)

Linked(s) ==
  /\ Matched(s.core.objects, s.world, Range(s.queue.destroys))
  /\ s.host.preview # NoThing => HasObject(s.core.objects, s.host.preview)
  /\ AtRest(s)

\* What a new preview is called in the library has no row yet.
Unsaved(s, sv) ==
  s.host.preview # NoThing /\ ~s.host.moving =>
    \A j \in DOMAIN s.core.objects :
      s.core.objects[j].thing = s.host.preview => sv[s.core.objects[j].key] = Absent

\* Where the map has no instance, every row is one of those it did not bring back.
RowsKept(s, sv) ==
  s.host.inMap => \A k \in Keys : sv[k] # Absent =>
    \/ k \in s.core.missed
    \/ s.core.instance /\ k \in ObjectKeys(s.core.objects) \cup ObjectKeys(s.queue.spawns)

Sound(s, sv) == Linked(s) /\ Unsaved(s, sv) /\ RowsKept(s, sv)

\* What does not change which things stand, and which objects there are, keeps them
\* matched.
LEMMA MatchedSame ==
  ASSUME NEW os, NEW w, NEW gone, Matched(os, w, gone), NEW new, NEW v,
         DOMAIN new = DOMAIN os, \A j \in DOMAIN os : os[j].thing \in Slots,
         gone \subseteq Slots,
         \A j \in DOMAIN os : new[j].thing = os[j].thing,
         \A t \in Slots : StandingIn(v, t) <=> StandingIn(w, t)
  PROVE  Matched(new, v, gone) /\ \A t : HasObject(new, t) <=> HasObject(os, t)
<1>1. \A t : HasObject(new, t) <=> HasObject(os, t)
  BY DEF HasObject
<1> QED BY <1>1 DEF Matched, Distinct

LEMMA ObjectThings ==
  ASSUME NEW os \in Seq(Object)
  PROVE  \A j \in DOMAIN os : os[j].thing \in Slots /\ os[j].key \in Keys
<1>1. \A j \in DOMAIN os : os[j] \in Object
  OBVIOUS
<1> QED BY <1>1 DEF Object

\* The preview is made again: its object follows, the others are not touched.
LEMMA RemadeMatched ==
  ASSUME NEW s \in St, NEW gone \in SUBSET Slots, Matched(s.core.objects, s.world, gone),
         NEW t \in Slots, HasObject(s.core.objects, t),
         NEW m \in Models, NEW c \in Remade(s, t, m), c.thing \in Slots
  PROVE  LET os == WithThing(s.core.objects, t, c.thing)
         IN  /\ Matched(os, c.world, gone) /\ HasObject(os, c.thing)
             /\ \A j \in DOMAIN os : os[j].thing = c.thing => s.core.objects[j].thing = t
<1> DEFINE os == s.core.objects
           n == WithThing(os, t, c.thing)
           x == c.thing
<1>1. s.world \in World /\ os \in Seq(Object)
  BY DEF St, Core
<1>2. /\ \A u \in Slots \ {t} : StandingIn(s.world, u) => u # x /\ c.world[u] = s.world[u]
      /\ \A u \in Slots : StandingIn(c.world, u) => u = x \/ (StandingIn(s.world, u) /\ u # t)
      /\ StandingIn(c.world, x)
  <2>1. s.world \in World /\ m \in Models /\ c \in Remade(s, t, m) /\ c.thing \in Slots
    BY <1>1
  <2>2. \A u \in Slots \ {t} : StandingIn(s.world, u) => u # c.thing /\ c.world[u] = s.world[u]
    BY ONLY <2>1, RemadeFacts
  <2>3. \A u \in Slots : StandingIn(c.world, u) => u = c.thing \/ (StandingIn(s.world, u) /\ u # t)
    BY ONLY <2>1, RemadeFacts, ZenonT(60)
  <2>4. StandingIn(c.world, c.thing)
    BY ONLY <2>1, RemadeFacts
  <2> QED BY <2>2, <2>3, <2>4
<1>3. DOMAIN n = DOMAIN os
      /\ \A j \in DOMAIN os : n[j].thing = IF os[j].thing = t THEN x ELSE os[j].thing
  BY <1>1, WithThingFacts DEF Matched
<1>4. \A j \in DOMAIN os : os[j].thing \in Slots /\ StandingIn(s.world, os[j].thing)
  BY <1>1, ObjectThings DEF Matched
<1>5. Distinct(os)
  BY DEF Matched
<1>6. /\ \A u \in Slots : StandingIn(s.world, u) => HasObject(os, u) \/ u \in gone
      /\ \A u \in gone : ~HasObject(os, u) /\ StandingIn(s.world, u) /\ u \in Slots
  BY DEF Matched
<1> HIDE DEF os, n, x
<1>7. \A u \in Slots \ {t} : StandingIn(s.world, u) => StandingIn(c.world, u) /\ u # x
  BY <1>2 DEF StandingIn
<1>8. \A j \in DOMAIN os : n[j].thing = x => os[j].thing = t
  BY <1>3, <1>4, <1>7
<1>9. HasObject(n, x)
  BY <1>3 DEF HasObject, os
<1>10. Distinct(n)
  <2> SUFFICES ASSUME NEW i \in DOMAIN os, NEW j \in DOMAIN os, n[i].thing = n[j].thing PROVE i = j
    BY <1>3 DEF Distinct
  <2>1. os[i].thing = os[j].thing
    BY <1>3, <1>8
  <2> QED BY <1>5, <2>1 DEF Distinct
<1>11. \A j \in DOMAIN n : StandingIn(c.world, n[j].thing)
  BY <1>2, <1>3, <1>4, <1>7
<1>12. ASSUME NEW u \in Slots, StandingIn(c.world, u) PROVE HasObject(n, u) \/ u \in gone
  <2>1. CASE u = x
    BY <1>9, <2>1
  <2>2. CASE StandingIn(s.world, u) /\ u # t
    BY <1>3, <1>6, <2>2 DEF HasObject
  <2> QED BY <1>2, <1>12, <2>1, <2>2
<1>13. ASSUME NEW u \in gone PROVE ~HasObject(n, u) /\ StandingIn(c.world, u)
  <2>1. u # t /\ u \in Slots
    BY <1>6, <1>13 DEF os
  <2>2. StandingIn(c.world, u) /\ u # x
    BY <1>6, <1>7, <2>1
  <2>3. ~HasObject(n, u)
    BY <1>3, <1>6, <2>2 DEF HasObject
  <2> QED BY <2>2, <2>3
<1>14. Matched(n, c.world, gone)
  BY <1>10, <1>11, <1>12, <1>13 DEF Matched
<1> QED BY <1>3, <1>8, <1>9, <1>14 DEF n, os, x

LEMMA ModelChangedSound ==
  ASSUME NEW s \in St, NEW sv, Sound(s, sv), Free(s.world) # {}, NEW b \in ModelChanged(s),
         Cardinality(Free(s.world)) >= 2, "noTemplate" \notin Occurs
  PROVE  Sound(b, sv) /\ Free(b.world) # {}
<1>1. CASE b = s
  BY <1>1
<1>2. ASSUME s.host.preview \in Slots, NEW m \in Models, NEW c \in Remade(s, s.host.preview, m),
             Lost(s, b, c) \/ Changed(s, b, c)
      PROVE  Sound(b, sv) /\ Free(b.world) # {}
  <2> DEFINE t == s.host.preview
             x == c.thing
             gone == Range(s.queue.destroys)
             os == s.core.objects
             n == WithThing(os, t, x)
  <2>1. t \in Slots /\ s.world \in World /\ c \in Remade(s, t, m) /\ t # NoThing
    BY <1>2, SizesAssumption DEF St
  <2>2. SameAround(s, b)
    BY ModelChangedFacts
  <2>3. gone \in SUBSET Slots
    <3>1. s.queue.destroys \in Seq(Slots)
      BY DEF St, Queue
    <3> QED BY <3>1 DEF Range
  <2>4. HasObject(os, t) /\ Matched(os, s.world, gone)
    BY <2>1 DEF Sound, Linked
  <2> HIDE DEF t, gone, os
  <2>5. c.world \in World /\ x \in Free(s.world) /\ Free(c.world) = Free(s.world) \ {x}
    BY <2>1, RemadeFacts
  <2>6. x \in Slots /\ x # NoThing
    BY <2>5, SizesAssumption DEF Free
  <2>7. /\ b.world = WithSolid(c.world, x, FALSE) /\ b.host.preview = x /\ b.core.objects = n
    BY <1>2, <2>6 DEF Lost, Changed, t, os
  <2>8. Matched(n, c.world, gone) /\ HasObject(n, x) /\ \A j \in DOMAIN n : n[j].thing = x => os[j].thing = t
    BY <2>1, <2>3, <2>4, <2>6, RemadeMatched DEF os
  <2>9. n \in Seq(Object)
    BY <2>6, WithThingFacts DEF St, Core, os
  <2> HIDE DEF x, n
  <2>10. Matched(n, b.world, gone)
    <3>1. \A v \in Slots : StandingIn(WithSolid(c.world, x, FALSE), v) <=> StandingIn(c.world, v)
      BY ONLY <2>5, <2>6, SolidStanding
    <3>2. \A j \in DOMAIN n : n[j].thing \in Slots
      BY <2>9, ObjectThings
    <3>3. Matched(n, WithSolid(c.world, x, FALSE), gone)
      BY ONLY <2>3, <2>8, <3>1, <3>2, MatchedSame
    <3> QED BY <2>7, <3>3
  <2>11. Linked(b)
    <3>1. s.host.inMap /\ Range(b.queue.destroys) = gone
      BY <2>1, <2>2 DEF Sound, Linked, AtRest, SameAround, gone, t
    <3> QED BY <2>2, <2>7, <2>8, <2>10, <3>1 DEF Linked, AtRest, SameAround
  <2>12. Unsaved(b, sv)
    <3>1. DOMAIN n = DOMAIN os /\ \A j \in DOMAIN os : n[j].key = os[j].key
      BY <2>2, <2>7 DEF SameAround, os
    <3> SUFFICES ASSUME ~s.host.moving, NEW j \in DOMAIN n, n[j].thing = x
                 PROVE  sv[n[j].key] = Absent
      BY <2>2, <2>7 DEF Unsaved, SameAround
    <3>2. os[j].thing = t /\ j \in DOMAIN os
      BY <2>8, <3>1
    <3> QED BY <2>1, <3>1, <3>2 DEF Sound, Unsaved, os, t
  <2>13. RowsKept(b, sv)
    BY <2>2 DEF Sound, RowsKept, SameAround, SameRows, ObjectKeys
  <2>14. Free(b.world) # {}
    <3>1. Free(b.world) = Free(s.world) \ {x}
      <4>1. Free(WithSolid(c.world, x, FALSE)) = Free(c.world)
        BY ONLY <2>5, <2>6, FALSE \in BOOLEAN, SolidFacts
      <4> QED BY <2>5, <2>7, <4>1
    <3>2. Free(s.world) # {x}
      BY FS_Singleton
    <3> QED BY <2>5, <3>1, <3>2
  <2> QED BY <2>11, <2>12, <2>13, <2>14 DEF Sound
<1> QED BY <1>1, <1>2, ModelChangedFacts

\* An object more, with a new thing.
LEMMA GrownMatched ==
  ASSUME NEW os \in Seq(Object), NEW w \in World, NEW gone \in SUBSET Slots, Matched(os, w, gone),
         NEW t \in Slots, ~StandingIn(w, t), NEW key, NEW new, Grown(os, new, t, key),
         NEW v, StandingIn(v, t), \A u \in Slots \ {t} : StandingIn(v, u) <=> StandingIn(w, u)
  PROVE  /\ Matched(new, v, gone) /\ HasObject(new, t)
         /\ \A u : HasObject(os, u) => HasObject(new, u)
         /\ \A j \in DOMAIN new : new[j].thing # t => j \in DOMAIN os
         /\ \A j \in DOMAIN new : new[j].thing = t => new[j].key = key
         /\ ObjectKeys(new) = ObjectKeys(os) \cup {key}
<1> DEFINE l == Len(os) + 1
<1>1. DOMAIN os = 1 .. Len(os) /\ Len(os) \in Nat
  OBVIOUS
<1>2. l \in DOMAIN new /\ DOMAIN new = DOMAIN os \cup {l} /\ l \notin DOMAIN os
  BY <1>1 DEF Grown
<1>3. /\ new[l].thing = t /\ new[l].key = key
      /\ \A j \in DOMAIN os : new[j].thing = os[j].thing /\ new[j].key = os[j].key
  BY DEF Grown
<1>4. \A j \in DOMAIN os : os[j].thing \in Slots /\ StandingIn(w, os[j].thing) /\ os[j].thing # t
  BY ObjectThings DEF Matched
<1> HIDE DEF l
<1>5. Distinct(new)
  <2> SUFFICES ASSUME NEW i \in DOMAIN new, NEW j \in DOMAIN new, new[i].thing = new[j].thing PROVE i = j
    BY DEF Distinct
  <2>1. CASE i \in DOMAIN os /\ j \in DOMAIN os
    BY <1>3, <2>1 DEF Matched, Distinct
  <2>2. CASE i = l \/ j = l
    BY <1>2, <1>3, <1>4, <2>2
  <2> QED BY <1>2, <2>1, <2>2
<1>6. \A u : HasObject(new, u) <=> HasObject(os, u) \/ u = t
  BY <1>2, <1>3 DEF HasObject
<1>7. \A j \in DOMAIN new : StandingIn(v, new[j].thing)
  BY <1>2, <1>3, <1>4
<1>8. \A u \in Slots : StandingIn(v, u) => HasObject(new, u) \/ u \in gone
  <2> SUFFICES ASSUME NEW u \in Slots, StandingIn(v, u), u # t PROVE HasObject(os, u) \/ u \in gone
    BY <1>6
  <2> QED BY DEF Matched
<1>9. \A u \in gone : ~HasObject(new, u) /\ StandingIn(v, u)
  <2> SUFFICES ASSUME NEW u \in gone PROVE ~HasObject(new, u) /\ StandingIn(v, u)
    OBVIOUS
  <2>1. ~HasObject(os, u) /\ StandingIn(w, u) /\ u \in Slots
    BY DEF Matched
  <2>2. u # t
    BY <2>1
  <2> QED BY <1>6, <2>1, <2>2
<1>10. ObjectKeys(new) = ObjectKeys(os) \cup {key}
  BY <1>2, <1>3 DEF ObjectKeys
<1> QED BY <1>2, <1>3, <1>4, <1>5, <1>6, <1>7, <1>8, <1>9, <1>10 DEF Matched

\* One entry less at the front.
LEMMA TailFacts ==
  ASSUME NEW T, NEW q \in Seq(T), q # <<>>
  PROVE  /\ Head(q) = q[1] /\ 1 \in DOMAIN q
         /\ \A k \in DOMAIN q : k = 1 \/ (k - 1 \in DOMAIN Tail(q) /\ Tail(q)[k - 1] = q[k])
OBVIOUS

LEMMA SpawnedSound ==
  ASSUME NEW s \in St, NEW sv, Sound(s, sv), Free(s.world) # {}, NEW b \in Spawned(s),
         \A k \in Keys \ KeysInUse : sv[k] = Absent
  PROVE  Sound(b, sv)
<1> DEFINE q == Head(s.queue.spawns)
           qs == s.queue.spawns
           os == s.core.objects
           gone == Range(s.queue.destroys)
<1>1. CASE b = s
  BY <1>1
<1>2. CASE qs # <<>>
  <2>1. s.host.inMap /\ SameAroundSpawn(s, b)
    BY <1>2, SpawnedFacts DEF Sound, Linked, AtRest
  <2>2. /\ s.world \in World /\ os \in Seq(Object) /\ gone \in SUBSET Slots
        /\ qs \in Seq(Request)
    <3>1. s.queue.destroys \in Seq(Slots)
      BY DEF St, Queue
    <3> QED BY <3>1 DEF St, Core, Queue, Range
  <2>3. q \in Request /\ \A k \in ObjectKeys(qs) : k = q.key \/ k \in ObjectKeys(Tail(qs))
    <3>1. /\ q = qs[1] /\ 1 \in DOMAIN qs
          /\ \A k \in DOMAIN qs : k = 1 \/ (k - 1 \in DOMAIN Tail(qs) /\ Tail(qs)[k - 1] = qs[k])
      BY <1>2, <2>2, TailFacts
    <3> HIDE DEF q, qs
    <3>2. q \in Request
      BY <2>2, <3>1
    <3> QED BY <3>1, <3>2 DEF ObjectKeys
  <2>5. Matched(os, s.world, gone) /\ (s.host.preview # NoThing => HasObject(os, s.host.preview))
    BY DEF Sound, Linked
  <2>6. NoKey \notin Keys
    BY SizesAssumption DEF NoKey, Keys
  <2>7. CASE b.world = s.world /\ NoneMade(s, b, q) /\ b.queue.spawns = Tail(qs)
    <3>1. Linked(b)
      BY <2>1, <2>5, <2>7 DEF Linked, AtRest, NoneMade, SameAroundSpawn
    <3>2. Unsaved(b, sv)
      BY <2>7 DEF Sound, Unsaved, NoneMade
    <3>3. RowsKept(b, sv)
      <4> SUFFICES ASSUME NEW k \in Keys, sv[k] # Absent, k \notin b.core.missed
                   PROVE  b.core.instance /\ k \in ObjectKeys(b.core.objects) \cup ObjectKeys(b.queue.spawns)
        BY DEF RowsKept
      <4> HIDE DEF q, qs
      <4>1. k \notin s.core.missed /\ k # q.key
        BY <2>6, <2>7 DEF NoneMade
      <4>2. s.core.instance /\ k \in ObjectKeys(s.core.objects) \cup ObjectKeys(qs)
        BY <2>1, <4>1 DEF Sound, RowsKept, qs
      <4>3. b.core.instance /\ b.core.objects = s.core.objects
        BY <2>7, <4>2 DEF NoneMade
      <4> QED BY <2>3, <2>7, <4>1, <4>2, <4>3
    <3> QED BY <3>1, <3>2, <3>3 DEF Sound
  <2>8. ASSUME NEW c \in Create(s.world, q.model), b.queue.spawns = Tail(qs), c.thing \in Slots,
               Restored(s, b, q, c) \/ Previewed(s, b, q, c)
        PROVE  Sound(b, sv)
    <3> DEFINE t == c.thing
               key == IF q.key = NoKey THEN FreshKey ELSE q.key
               n == b.core.objects
    <3>1. q.model \in Models
      BY <2>3 DEF Request
    <3> HIDE DEF q
    <3>2. /\ c.world \in World /\ t \in Free(s.world)
          /\ \A u \in Slots : StandingIn(s.world, u) => c.world[u] = s.world[u] /\ u # t
          /\ \A u \in Slots : StandingIn(c.world, u) => u = t \/ StandingIn(s.world, u)
          /\ c.world[t] = [state |-> "live", model |-> q.model, solid |-> TRUE]
      BY <2>2, <2>8, <3>1, CreateFacts
    <3>3. ~StandingIn(s.world, t)
      BY <2>8, <3>2
    <3>4. StandingIn(c.world, t)
      BY <3>1, <3>2, ModelsAssumption DEF StandingIn
    <3>5. \A u \in Slots \ {t} : StandingIn(c.world, u) <=> StandingIn(s.world, u)
      BY <3>2 DEF StandingIn
    <3>6. \A u \in Slots : StandingIn(b.world, u) <=> StandingIn(c.world, u)
      <4>1. b.world = c.world \/ b.world = WithSolid(c.world, t, FALSE)
        BY <2>8 DEF Restored, Previewed
      <4>2. \A v \in Slots : StandingIn(WithSolid(c.world, t, FALSE), v) <=> StandingIn(c.world, v)
        BY ONLY <2>8, <3>2, SolidStanding
      <4> QED BY <4>1, <4>2
    <3>7. Grown(os, n, t, key)
      BY <2>8 DEF Restored, Previewed
    <3> HIDE DEF t, key, n, os, gone
    <3>8. /\ Matched(n, b.world, gone) /\ HasObject(n, t)
          /\ \A u : HasObject(os, u) => HasObject(n, u)
          /\ \A j \in DOMAIN n : n[j].thing # t => j \in DOMAIN os
          /\ \A j \in DOMAIN n : n[j].thing = t => n[j].key = key
          /\ ObjectKeys(n) = ObjectKeys(os) \cup {key}
      <4>1. t \in Slots /\ StandingIn(b.world, t)
            /\ \A u \in Slots \ {t} : StandingIn(b.world, u) <=> StandingIn(s.world, u)
        BY <2>8, <3>4, <3>5, <3>6 DEF t
      <4>2. s.world \in World /\ os \in Seq(Object) /\ gone \in SUBSET Slots
        BY <2>2 DEF os, gone
      <4>3. Matched(os, s.world, gone)
        BY <2>5 DEF os, gone
      <4> QED BY <3>3, <3>7, <4>1, <4>2, <4>3, GrownMatched
    <3>9. b.host.preview = t \/ (b.host.preview = s.host.preview /\ q.key # NoKey)
      BY <2>8 DEF Restored, Previewed, t
    <3>10. Linked(b)
      <4>1. b.host.preview # NoThing => HasObject(n, b.host.preview)
        BY <2>5, <3>8, <3>9 DEF os
      <4> QED BY <2>1, <3>8, <4>1 DEF Linked, AtRest, SameAroundSpawn, n, gone
    <3>11. Unsaved(b, sv)
      <4> SUFFICES ASSUME b.host.preview # NoThing, ~b.host.moving,
                          NEW j \in DOMAIN n, n[j].thing = b.host.preview
                   PROVE  sv[n[j].key] = Absent
        BY DEF Unsaved, n
      <4>1. CASE q.key = NoKey
        <5>1. n[j].key = FreshKey
          BY <3>8, <3>9, <4>1 DEF key
        <5>2. FreshKey \in Keys \ KeysInUse
          BY <2>8, <4>1 DEF Restored, Previewed
        <5> QED BY <5>1, <5>2
      <4>2. CASE q.key # NoKey
        <5>1. Restored(s, b, q, c) /\ b.host.preview = s.host.preview /\ ~s.host.moving
          BY <2>1, <2>8, <4>2 DEF Restored, Previewed, SameAroundSpawn
        <5>2. HasObject(os, s.host.preview)
          BY <2>5, <5>1 DEF os
        <5>3. s.host.preview # t
          <6>1. \A i \in DOMAIN os : StandingIn(s.world, os[i].thing)
            BY <2>5 DEF Matched, os
          <6> QED BY <3>3, <5>2, <6>1 DEF HasObject
        <5>4. j \in DOMAIN os
          BY <3>8, <5>1, <5>3
        <5>5. n[j].thing = os[j].thing /\ n[j].key = os[j].key
          BY <3>7, <5>4 DEF Grown
        <5> QED BY <5>1, <5>4, <5>5 DEF Sound, Unsaved, os
      <4> QED BY <4>1, <4>2
    <3>12. RowsKept(b, sv)
      <4> SUFFICES ASSUME NEW k \in Keys, sv[k] # Absent, k \notin b.core.missed
                   PROVE  b.core.instance /\ k \in ObjectKeys(n) \cup ObjectKeys(b.queue.spawns)
        BY DEF RowsKept, n
      <4>1. b.core.missed = s.core.missed /\ b.core.instance = s.core.instance
        BY <2>8 DEF Restored, Previewed, SameRows
      <4>2. b.core.instance /\ k \in ObjectKeys(os) \cup ObjectKeys(qs)
        BY <2>1, <4>1 DEF Sound, RowsKept, os
      <4>3. k \in ObjectKeys(qs) => k = q.key \/ k \in ObjectKeys(b.queue.spawns)
        BY <2>3, <2>8
      <4>4. k = q.key => k = key
        BY <2>6 DEF key
      <4> QED BY <3>8, <4>2, <4>3, <4>4
    <3> QED BY <3>10, <3>11, <3>12 DEF Sound
  <2>9. \/ b = s
        \/ b.world = s.world /\ NoneMade(s, b, q) /\ b.queue.spawns = Tail(qs)
        \/ /\ b.queue.spawns = Tail(qs)
           /\ \E c \in Create(s.world, q.model) :
                \/ c.thing = NoThing
                \/ c.thing \in Slots /\ (Restored(s, b, q, c) \/ Previewed(s, b, q, c))
    BY <1>2, <2>1, SpawnedFacts
  <2>10. \A c \in Create(s.world, q.model) : c.thing # NoThing
    <3>1. q.model \in Models
      BY <2>3 DEF Request
    <3> HIDE DEF q
    <3>2. \A c \in Create(s.world, q.model) : c.thing \in Free(s.world)
      BY <2>2, <3>1, CreateFacts
    <3> QED BY <3>2, SizesAssumption DEF Free
  <2> QED BY <1>1, <2>7, <2>8, <2>9, <2>10
<1>3. CASE qs = <<>>
  <2>1. b = s
    BY <1>3, SpawnedFacts
  <2> QED BY <2>1
<1> QED BY <1>2, <1>3

LEMMA DestroyedAllSound ==
  ASSUME NEW s \in St, NEW sv, Sound(s, sv)
  PROVE  Sound(DestroyedAll(s), sv)
<1> DEFINE d == DestroyedAll(s)
           gone == Range(s.queue.destroys)
           os == s.core.objects
<1>1. /\ SameButDestroys(s, d) /\ d.queue.destroys = <<>>
      /\ d.world = IF s.host.inMap THEN Destroyed(s.world, gone) ELSE s.world
  BY DestroyedAllFacts
<1>2. s.world \in World /\ os \in Seq(Object)
  BY DEF St, Core
<1>3. Matched(os, s.world, gone)
  BY DEF Sound, Linked
<1>4. \A j \in DOMAIN os : os[j].thing \in Slots
  BY <1>2, ObjectThings
<1> HIDE DEF d
<1>5. Range(d.queue.destroys) = {}
  BY <1>1 DEF Range
<1>6. \A u \in Slots : StandingIn(d.world, u) <=> StandingIn(s.world, u) /\ u \notin gone
  <2>1. CASE s.host.inMap
    BY <1>1, <1>2, <2>1, DestroyedFacts
  <2>2. CASE ~s.host.inMap
    <3>1. s.queue.destroys = <<>>
      BY <2>2 DEF Sound, Linked, AtRest
    <3>2. gone = {}
      BY <3>1 DEF Range
    <3> QED BY <1>1, <2>2, <3>2
  <2> QED BY <2>1, <2>2
<1> HIDE DEF gone, os
<1>7. Matched(os, d.world, {})
  <2>1. \A j \in DOMAIN os : os[j].thing \notin gone
    BY <1>3 DEF Matched, HasObject
  <2> QED BY <1>3, <1>4, <1>6, <2>1 DEF Matched
<1>8. Linked(d)
  BY <1>1, <1>5, <1>7 DEF Sound, Linked, AtRest, SameButDestroys, os
<1>9. Unsaved(d, sv) /\ RowsKept(d, sv)
  BY <1>1 DEF Sound, Unsaved, RowsKept, SameButDestroys
<1>10. Sound(d, sv)
  BY <1>8, <1>9 DEF Sound
<1> QED BY <1>10 DEF d

LEMMA MovedSound ==
  ASSUME NEW s \in St, NEW sv, Sound(s, sv), TableOnce(s), s.queue.destroys = <<>>
  PROVE  Sound(Moved(s), sv)
<1> DEFINE m == Moved(s)
           os == s.core.objects
           p == m.host.preview
<1>1. /\ SameButMoves(s, m) /\ m.queue.moves = <<>>
      /\ \/ m.world = s.world /\ m.host = s.host /\ m.core = s.core
         \/ /\ p \in Slots /\ s.queue.moves # <<>> /\ s.host.registered[p] > 0 /\ m.host.moving
            /\ m.world = WithSolid(s.world, p, FALSE)
  BY MovedFacts
<1>2. s.world \in World /\ os \in Seq(Object)
  BY DEF St, Core
<1>3. Matched(os, s.world, {}) /\ Range(m.queue.destroys) = {}
  <2>1. Range(s.queue.destroys) = {}
    BY DEF Range
  <2> QED BY <1>1, <2>1 DEF Sound, Linked, SameButMoves
<1> HIDE DEF m
<1>4. CASE m.world = s.world /\ m.host = s.host /\ m.core = s.core
  <2>1. Linked(m)
    BY <1>1, <1>3, <1>4 DEF Sound, Linked, AtRest, SameButMoves
  <2>2. Unsaved(m, sv) /\ RowsKept(m, sv)
    BY <1>1, <1>4 DEF Sound, Unsaved, RowsKept, SameButMoves, SameRows
  <2> QED BY <2>1, <2>2 DEF Sound, m
<1>5. CASE /\ p \in Slots /\ s.queue.moves # <<>> /\ s.host.registered[p] > 0 /\ m.host.moving
           /\ m.world = WithSolid(s.world, p, FALSE)
  <2>1. HasObject(os, p)
    BY <1>3, <1>5 DEF TableOnce, Matched
  <2>2. s.host.inMap
    BY <1>5 DEF Sound, Linked, AtRest
  <2> HIDE DEF p, os
  <2>3. \A v \in Slots : StandingIn(WithSolid(s.world, p, FALSE), v) <=> StandingIn(s.world, v)
    BY ONLY <1>2, <1>5, SolidStanding
  <2>4. \A v \in Slots : StandingIn(m.world, v) <=> StandingIn(s.world, v)
    BY <1>5, <2>3
  <2>5. Matched(os, m.world, {})
    <3>1. \A j \in DOMAIN os : os[j].thing \in Slots
      BY <1>2, ObjectThings
    <3> QED BY <1>3, <2>4, <3>1 DEF Matched
  <2>6. Linked(m)
    BY <1>1, <1>3, <2>1, <2>2, <2>5 DEF Linked, AtRest, SameButMoves, os, p
  <2>7. Unsaved(m, sv) /\ RowsKept(m, sv)
    BY <1>1, <1>5 DEF Sound, Unsaved, RowsKept, SameButMoves, SameRows
  <2> QED BY <2>6, <2>7 DEF Sound, m
<1> QED BY <1>1, <1>4, <1>5

LEMMA FrameSound ==
  ASSUME Rooted(Now, saved), Sound(Now, saved), Cardinality(Free(world)) >= 2, HostUpdate,
         "noTemplate" \notin Occurs
  PROVE  Sound(Now', saved')
<1>1. PICK a \in Aimed(Now) : \E b \in ModelChanged(a) : \E s \in Spawned(b) :
        Becomes(Moved(DestroyedAll(s)))
  BY DEF HostUpdate
<1>2. PICK b \in ModelChanged(a) : \E s \in Spawned(b) : Becomes(Moved(DestroyedAll(s)))
  BY <1>1
<1>3. PICK s \in Spawned(b) : Becomes(Moved(DestroyedAll(s)))
  BY <1>2
<1> DEFINE d == DestroyedAll(s)
           m == Moved(d)
<1>4. /\ a \in St /\ b \in St /\ s \in St /\ d \in St /\ m \in St /\ TableOnce(d)
      /\ Now \in St
  BY FrameRooted DEF Rooted, Base
<1>5. /\ a.world = Now.world /\ a.queue = Now.queue
      /\ a.host.inMap = Now.host.inMap /\ a.host.preview = Now.host.preview
      /\ a.host.moving = Now.host.moving /\ a.core.objects = Now.core.objects
      /\ SameRows(Now.core, a.core)
  BY <1>4, AimedFacts
<1>6. Sound(a, saved)
  BY <1>5 DEF Sound, Linked, AtRest, Unsaved, RowsKept, SameRows
<1>7. Cardinality(Free(a.world)) >= 2 /\ Free(a.world) # {}
  <2>1. a.world = world
    BY <1>5 DEF Now
  <2>2. Free(world) # {}
    BY FS_EmptySet
  <2> QED BY <2>1, <2>2
<1>8. Sound(b, saved) /\ Free(b.world) # {}
  BY <1>4, <1>6, <1>7, ModelChangedSound
<1>9. \A k \in Keys \ KeysInUse : saved[k] = Absent
  BY DEF KeysInUse
<1>10. Sound(s, saved)
  BY <1>4, <1>8, <1>9, SpawnedSound
<1>11. Sound(d, saved) /\ d.queue.destroys = <<>>
  BY <1>4, <1>10, DestroyedAllSound, DestroyedAllFacts
<1> HIDE DEF d
<1>12. Sound(m, saved)
  BY <1>4, <1>11, MovedSound
<1> HIDE DEF m
<1>13. Now' = m /\ saved' = saved
  BY <1>3, <1>4, BecomesFacts DEF m, d, HostUpdate
<1> QED BY <1>12, <1>13

LEMMA ConfirmSound ==
  ASSUME Rooted(Now, saved), Sound(Now, saved), ConfirmSpawn
  PROVE  Sound(Now', saved')
<1>1. Now \in St /\ saved \in [Keys -> Row]
  BY DEF Rooted
<1>2. PICK s \in St : /\ SamePlace(s) /\ s.world = WithSolid(world, host.preview, TRUE)
                      /\ Now' = Left(s) /\ saved' = Reported(s.core.objects, host.preview)
                      /\ host.preview \in Slots /\ host.inMap
  BY <1>1, ConfirmFacts
<1> DEFINE l == Left(s)
           n == s.core.objects
           os == core.objects
           gone == Range(queue.destroys)
<1>3. /\ l.world = s.world /\ l.queue = s.queue /\ l.core.objects = n
      /\ l.host.inMap /\ l.host.preview = NoThing /\ SameRows(core, l.core)
  <2>1. s.host.inMap
    BY <1>2 DEF SamePlace
  <2>2. SameRows(core, s.core) /\ SameRows(s.core, l.core)
    BY <1>2, LeftFacts DEF SamePlace
  <2>3. SameRows(core, l.core)
    BY <2>2 DEF SameRows
  <2> QED BY <2>1, <2>3, LeftFacts
<1>4. /\ s.queue = queue /\ DOMAIN n = DOMAIN os
      /\ \A j \in DOMAIN os : n[j].thing = os[j].thing /\ n[j].key = os[j].key
  BY <1>2 DEF SamePlace
<1>5. /\ os \in Seq(Object) /\ n \in Seq(Object) /\ world \in World /\ gone \in SUBSET Slots
  <2>1. queue.destroys \in Seq(Slots)
    BY <1>1 DEF St, Queue, Now
  <2> QED BY <1>1, <2>1 DEF St, Core, Now, Range
<1>6. Matched(os, world, gone)
  BY DEF Sound, Linked, Now
<1>7. \A j \in DOMAIN os : os[j].thing \in Slots
  BY <1>5, ObjectThings
<1>8. \A k \in Keys : saved'[k] = saved[k] \/ (core.instance /\ \E j \in DOMAIN n : n[j].key = k)
  BY <1>1, <1>2, <1>5, ReportedFacts
<1> HIDE DEF l, n, os, gone
<1>9. \A v \in Slots : StandingIn(s.world, v) <=> StandingIn(world, v)
  <2>1. \A v \in Slots : StandingIn(WithSolid(world, host.preview, TRUE), v) <=> StandingIn(world, v)
    <3>1. world \in World /\ host.preview \in Slots
      BY <1>2, <1>5
    <3> QED BY ONLY <3>1, SolidStanding
  <2> QED BY <1>2, <2>1
<1>10. Matched(n, s.world, gone)
  BY <1>4, <1>5, <1>6, <1>7, <1>9, MatchedSame
<1>11. Linked(l)
  BY <1>3, <1>4, <1>10 DEF Linked, AtRest, gone
<1>12. Unsaved(l, saved')
  BY <1>3 DEF Unsaved
<1>13. RowsKept(l, saved')
  <2> SUFFICES ASSUME NEW k \in Keys, saved'[k] # Absent, k \notin core.missed
               PROVE  core.instance /\ k \in ObjectKeys(n) \cup ObjectKeys(queue.spawns)
    BY <1>3, <1>4 DEF RowsKept, SameRows
  <2>1. CASE saved'[k] = saved[k]
    <3>1. core.instance /\ k \in ObjectKeys(os) \cup ObjectKeys(queue.spawns)
      BY <1>2, <2>1 DEF Sound, RowsKept, os, Now
    <3>2. ObjectKeys(n) = ObjectKeys(os)
      BY <1>4 DEF ObjectKeys
    <3> QED BY <3>1, <3>2
  <2>2. CASE core.instance /\ \E j \in DOMAIN n : n[j].key = k
    BY <2>2 DEF ObjectKeys
  <2> QED BY <1>8, <2>1, <2>2
<1> QED BY <1>2, <1>11, <1>12, <1>13 DEF Sound, l

\* What is left once spawn mode has ended needs no preview.
LEMMA LeftSound ==
  ASSUME NEW s \in St, NEW sv, s.host.inMap, RowsKept(s, sv),
         Matched(s.core.objects, s.world, Range(s.queue.destroys))
  PROVE  Sound(Left(s), sv)
<1> DEFINE l == Left(s)
<1>1. /\ l.world = s.world /\ l.queue = s.queue /\ l.core.objects = s.core.objects
      /\ l.host.inMap = s.host.inMap /\ l.host.preview = NoThing
      /\ SameRows(s.core, l.core)
  BY LeftFacts
<1> HIDE DEF l
<1>2. Sound(l, sv)
  BY <1>1 DEF Sound, Linked, AtRest, Unsaved, RowsKept, SameRows
<1> QED BY <1>2 DEF l

LEMMA PutBackMatched ==
  ASSUME NEW s \in St, NEW t \in Slots, s.host.preview = t, NEW b \in PutBack(s, t),
         Free(s.world) # {}, "noTemplate" \notin Occurs, HasObject(s.core.objects, t),
         Matched(s.core.objects, s.world, Range(s.queue.destroys))
  PROVE  Matched(b.core.objects, b.world, Range(b.queue.destroys))
<1> DEFINE gone == Range(s.queue.destroys)
           os == s.core.objects
<1>1. b.queue = s.queue
  BY PutBackFacts
<1>2. s.world \in World /\ os \in Seq(Object) /\ gone \in SUBSET Slots
  <2>1. s.queue.destroys \in Seq(Slots)
    BY DEF St, Queue
  <2> QED BY <2>1 DEF St, Core, Range
<1>3. \A j \in DOMAIN os : os[j].thing \in Slots
  BY <1>2, ObjectThings
<1>4. CASE b = s
  BY <1>4
<1>5. CASE PutSolid(s, b, t)
  <2>1. \A v \in Slots : StandingIn(WithSolid(s.world, t, TRUE), v) <=> StandingIn(s.world, v)
    BY ONLY <1>2, t \in Slots, SolidStanding
  <2>2. b.core.objects = os /\ b.world = WithSolid(s.world, t, TRUE)
    BY <1>5 DEF PutSolid
  <2>3. Matched(os, s.world, gone)
    OBVIOUS
  <2> HIDE DEF os, gone
  <2>4. Matched(os, b.world, gone)
    BY <1>2, <1>3, <2>1, <2>2, <2>3, MatchedSame
  <2> QED BY <1>1, <2>2, <2>4 DEF gone
<1>6. ASSUME NEW m \in Models, NEW c \in Remade(s, t, m), Lost(s, b, c) \/ PutAnew(s, b, t, c)
      PROVE  Matched(b.core.objects, b.world, Range(b.queue.destroys))
  <2>1. c.thing \in Free(s.world)
    <3>1. c \in Remade(s, t, m) /\ s.world \in World /\ m \in Models /\ Free(s.world) # {} /\ "noTemplate" \notin Occurs
      BY <1>2, <1>6
    <3> QED BY ONLY <3>1, RemadeFacts
  <2>2. c.thing \in Slots /\ c.thing # NoThing
    BY <2>1, SizesAssumption DEF Free
  <2>3. b.world = c.world /\ b.core.objects = WithThing(os, t, c.thing)
    BY <1>6, <2>2 DEF Lost, PutAnew
  <2>4. Matched(WithThing(os, t, c.thing), c.world, gone)
    BY <1>2, <2>2, RemadeMatched
  <2> QED BY <1>1, <2>3, <2>4
<1> QED BY <1>4, <1>5, <1>6, PutBackFacts

LEMMA ForgottenMatched ==
  ASSUME NEW s \in St, NEW t \in Slots, HasObject(s.core.objects, t),
         Matched(s.core.objects, s.world, Range(s.queue.destroys))
  PROVE  LET b == Forgotten(s, t)
         IN  Matched(b.core.objects, b.world, Range(b.queue.destroys))
<1> DEFINE b == Forgotten(s, t)
           gone == Range(s.queue.destroys)
           os == s.core.objects
           n == WithoutThing(os, t)
           w == Destroyed(s.world, {t})
<1>1. b.queue = s.queue /\ b.world = w /\ b.core.objects = n
  BY ForgottenFacts
<1>2. s.world \in World /\ os \in Seq(Object) /\ Distinct(os)
  BY DEF St, Core, Matched
<1>3. /\ \A j \in DOMAIN n : \E i \in DOMAIN os : n[j] = os[i]
      /\ \A i \in DOMAIN os : os[i].thing # t => \E j \in DOMAIN n : n[j] = os[i]
      /\ Distinct(n) /\ ~HasObject(n, t)
  BY <1>2, WithoutThingFacts
<1>4. \A u \in Slots : StandingIn(w, u) <=> StandingIn(s.world, u) /\ u # t
  BY <1>2, DestroyedFacts
<1>5. /\ \A j \in DOMAIN os : os[j].thing \in Slots /\ StandingIn(s.world, os[j].thing)
      /\ \A u \in Slots : StandingIn(s.world, u) => HasObject(os, u) \/ u \in gone
      /\ \A u \in gone : ~HasObject(os, u) /\ StandingIn(s.world, u)
  BY <1>2, ObjectThings DEF Matched
<1>6. gone \subseteq Slots
  <2>1. s.queue.destroys \in Seq(Slots)
    BY DEF St, Queue
  <2> QED BY <2>1 DEF Range
<1>7. HasObject(os, t)
  OBVIOUS
<1> HIDE DEF b, n, w, os, gone
<1>8. \A u : HasObject(n, u) <=> HasObject(os, u) /\ u # t
  BY <1>3 DEF HasObject
<1>9. \A j \in DOMAIN n : StandingIn(w, n[j].thing)
  <2> SUFFICES ASSUME NEW j \in DOMAIN n PROVE StandingIn(w, n[j].thing)
    OBVIOUS
  <2>1. PICK i \in DOMAIN os : n[j] = os[i]
    BY <1>3
  <2>2. n[j].thing # t
    BY <1>3 DEF HasObject
  <2> QED BY <1>4, <1>5, <2>1, <2>2
<1>10. \A u \in gone : ~HasObject(n, u) /\ StandingIn(w, u)
  BY <1>4, <1>5, <1>6, <1>7, <1>8
<1>11. \A u \in Slots : StandingIn(w, u) => HasObject(n, u) \/ u \in gone
  BY <1>4, <1>5, <1>8
<1>12. Matched(n, w, gone)
  BY <1>3, <1>9, <1>10, <1>11 DEF Matched
<1> QED BY <1>1, <1>12 DEF b, gone

LEMMA CancelSound ==
  ASSUME Rooted(Now, saved), Sound(Now, saved), Cardinality(Free(world)) >= 2, CancelSpawn,
         "noTemplate" \notin Occurs
  PROVE  Sound(Now', saved')
<1> DEFINE t == host.preview
<1>1. Now \in St /\ Now.host.preview = t /\ Now.world = world
  BY DEF Rooted, Now
<1>2. /\ t \in Slots /\ host.inMap /\ saved' = saved
      /\ \E s \in St : /\ Now' = Left(s)
                       /\ \/ host.moving /\ s \in PutBack(Now, t)
                          \/ ~host.moving /\ s = Forgotten(Now, t)
  BY <1>1, CancelFacts
<1>3. PICK s \in St : /\ Now' = Left(s)
                      /\ \/ host.moving /\ s \in PutBack(Now, t)
                         \/ ~host.moving /\ s = Forgotten(Now, t)
  BY <1>2
<1>4. /\ HasObject(Now.core.objects, t)
      /\ Matched(Now.core.objects, Now.world, Range(Now.queue.destroys))
      /\ RowsKept(Now, saved) /\ Unsaved(Now, saved)
  BY <1>1, <1>2, SizesAssumption DEF Sound, Linked
<1>5. Free(Now.world) # {}
  BY <1>1, FS_EmptySet
<1> HIDE DEF t
<1>6. CASE host.moving /\ s \in PutBack(Now, t)
  <2>1. Matched(s.core.objects, s.world, Range(s.queue.destroys))
    BY <1>1, <1>2, <1>4, <1>5, <1>6, PutBackMatched
  <2>2. /\ s.queue = Now.queue /\ s.host.inMap = Now.host.inMap
        /\ DOMAIN s.core.objects = DOMAIN Now.core.objects
        /\ \A j \in DOMAIN Now.core.objects : s.core.objects[j].key = Now.core.objects[j].key
        /\ SameRows(Now.core, s.core)
    BY <1>1, <1>2, <1>6, PutBackFacts
  <2>3. s.host.inMap
    BY <1>2, <2>2 DEF Now
  <2>4. RowsKept(s, saved)
    BY <1>4, <2>2 DEF RowsKept, ObjectKeys, SameRows
  <2> QED BY <1>2, <1>3, <2>1, <2>3, <2>4, LeftSound
<1>7. CASE ~host.moving /\ s = Forgotten(Now, t)
  <2>1. Matched(s.core.objects, s.world, Range(s.queue.destroys))
    BY <1>1, <1>2, <1>4, <1>7, ForgottenMatched
  <2> DEFINE os == Now.core.objects
             n == WithoutThing(os, t)
  <2>2. s.queue = Now.queue /\ s.host.inMap = Now.host.inMap /\ s.core.objects = n
        /\ SameRows(Now.core, s.core)
    <3>1. LET b == Forgotten(Now, t)
          IN  b.queue = Now.queue /\ b.host.inMap = Now.host.inMap /\ b.core.objects = n
              /\ SameRows(Now.core, b.core)
      BY <1>1, <1>2, ForgottenFacts
    <3> QED BY <1>7, <3>1
  <2>3. s.host.inMap
    BY <1>2, <2>2 DEF Now
  <2>4. \A i \in DOMAIN os : os[i].thing # t => \E j \in DOMAIN n : n[j] = os[i]
    <3>1. os \in Seq(Object)
      BY <1>1 DEF St, Core
    <3> HIDE DEF os
    <3> QED BY <3>1, WithoutThingFacts
  <2>5. \A i \in DOMAIN os : os[i].thing = t => saved[os[i].key] = Absent
    BY <1>1, <1>2, <1>4, <1>7, SizesAssumption DEF Unsaved, Now
  <2> HIDE DEF os, n
  <2>6. RowsKept(s, saved)
    <3> SUFFICES ASSUME NEW k \in Keys, saved[k] # Absent, k \notin Now.core.missed
                 PROVE  Now.core.instance /\ k \in ObjectKeys(n) \cup ObjectKeys(Now.queue.spawns)
      BY <2>2 DEF RowsKept, SameRows
    <3>1. Now.core.instance /\ k \in ObjectKeys(os) \cup ObjectKeys(Now.queue.spawns)
      BY <1>4, <2>2, <2>3 DEF RowsKept, os
    <3>2. k \in ObjectKeys(os) => k \in ObjectKeys(n)
      BY <2>4, <2>5 DEF ObjectKeys
    <3> QED BY <3>1, <3>2
  <2> QED BY <1>2, <1>3, <2>1, <2>3, <2>6, LeftSound
<1> QED BY <1>3, <1>6, <1>7

\* The object aimed at is removed: its thing waits for the host, its row is gone.
LEMMA DestroyObjectSound ==
  ASSUME Rooted(Now, saved), Sound(Now, saved), DestroyObject, "previewRemoved" \notin Occurs
  PROVE  Sound(Now', saved')
<1> DEFINE k == Find(core.objects, core.aimed)
           t == core.aimed
           os == core.objects
           n == core'.objects
           gone == Range(queue.destroys)
           more == Range(queue'.destroys)
<1>1. Now \in St /\ saved \in [Keys -> Row] /\ os \in Seq(Object) /\ queue.destroys \in Seq(Slots)
  BY DEF Rooted, St, Core, Queue, Now
<1>2. /\ queue'.spawns = queue.spawns /\ queue'.destroys = Append(queue.destroys, t)
      /\ queue'.moves = queue.moves /\ n = RemoveAt(os, k)
      /\ k \in DOMAIN os /\ os[k].thing = t /\ t \in Slots
      /\ saved' = IF core.instance THEN [saved EXCEPT ![os[k].key] = Absent] ELSE saved
      /\ os[k].key \in Keys /\ SameRows(core, core')
  BY <1>1, DestroyObjectFacts
<1>3. host.inMap /\ t # host.preview /\ world' = world /\ host' = host
  BY DEF DestroyObject
<1>4. Matched(os, world, gone) /\ (host.preview # NoThing => HasObject(os, host.preview))
      /\ Unsaved(Now, saved) /\ RowsKept(Now, saved)
  BY DEF Sound, Linked, Now
<1>5. more = gone \cup {t}
  <2> DEFINE q == queue.destroys
             r == Append(q, t)
  <2>1. DOMAIN r = DOMAIN q \cup {Len(q) + 1} /\ r[Len(q) + 1] = t /\ \A j \in DOMAIN q : r[j] = q[j]
    BY <1>1, <1>2
  <2> HIDE DEF r
  <2>2. Range(r) = Range(q) \cup {t}
    BY <2>1 DEF Range
  <2> QED BY <1>2, <2>2 DEF r
<1> HIDE DEF k, more
<1>6. /\ \A j \in DOMAIN n : \E i \in DOMAIN os \ {k} : n[j] = os[i]
      /\ \A i \in DOMAIN os \ {k} : \E j \in DOMAIN n : n[j] = os[i]
      /\ Distinct(n)
  BY <1>1, <1>2, <1>4, ErasedObjects DEF Matched
<1> HIDE DEF t, os, n, gone
<1>7. \A i \in DOMAIN os \ {k} : os[i].thing # t
  BY <1>2, <1>4 DEF Matched, Distinct
<1>8. \A u : HasObject(n, u) <=> HasObject(os, u) /\ u # t
  BY <1>2, <1>6, <1>7 DEF HasObject
<1>9. Matched(n, world, more)
  <2>1. \A j \in DOMAIN n : StandingIn(world, n[j].thing)
    BY <1>4, <1>6 DEF Matched
  <2>2. StandingIn(world, t)
    BY <1>2, <1>4 DEF Matched
  <2>3. \A u \in more : ~HasObject(n, u) /\ StandingIn(world, u)
    BY <1>4, <1>5, <1>8, <2>2 DEF Matched
  <2>4. \A u \in Slots : StandingIn(world, u) => HasObject(n, u) \/ u \in more
    BY <1>4, <1>5, <1>8 DEF Matched
  <2> QED BY <1>6, <2>1, <2>3, <2>4 DEF Matched
<1>10. host.preview # NoThing => HasObject(n, host.preview)
  BY <1>3, <1>4, <1>8
<1>11. Linked(Now')
  BY <1>3, <1>9, <1>10 DEF Linked, AtRest, Now, n, more
<1>12. Unsaved(Now', saved')
  <2> SUFFICES ASSUME host.preview # NoThing, ~host.moving,
                      NEW j \in DOMAIN n, n[j].thing = host.preview
               PROVE  saved'[n[j].key] = Absent
    BY <1>3 DEF Unsaved, Now, n
  <2>1. PICK i \in DOMAIN os : n[j] = os[i]
    BY <1>6
  <2>2. saved[os[i].key] = Absent
    BY <1>4, <2>1 DEF Unsaved, Now, os
  <2>3. os[i].key \in Keys
    BY <1>1, ObjectThings
  <2> QED BY <1>1, <1>2, <2>1, <2>2, <2>3
<1>13. RowsKept(Now', saved')
  <2> SUFFICES ASSUME NEW x \in Keys, saved'[x] # Absent, x \notin core.missed
               PROVE  core.instance /\ x \in ObjectKeys(n) \cup ObjectKeys(queue.spawns)
    BY <1>2 DEF RowsKept, SameRows, Now, n
  <2>1. saved[x] # Absent /\ (core.instance => x # os[k].key)
    BY <1>1, <1>2
  <2>2. core.instance /\ x \in ObjectKeys(os) \cup ObjectKeys(queue.spawns)
    BY <1>3, <1>4, <2>1 DEF RowsKept, Now, os
  <2>3. x \in ObjectKeys(os) => x \in ObjectKeys(n)
    BY <1>6, <2>1, <2>2 DEF ObjectKeys
  <2> QED BY <2>2, <2>3
<1> QED BY <1>11, <1>12, <1>13 DEF Sound

\* A step that leaves objects, things, previews and rows as they are.
LEMMA SoundKept ==
  ASSUME Rooted(Now, saved), Sound(Now, saved), host' = host, saved' = saved, host.inMap,
         queue'.destroys = queue.destroys, SameRows(core, core'),
         ObjectKeys(queue.spawns) \subseteq ObjectKeys(queue'.spawns),
         DOMAIN core'.objects = DOMAIN core.objects,
         \A j \in DOMAIN core.objects : /\ core'.objects[j].thing = core.objects[j].thing
                                        /\ core'.objects[j].key = core.objects[j].key,
         \A u \in Slots : StandingIn(world', u) <=> StandingIn(world, u)
  PROVE  Sound(Now', saved')
<1> DEFINE os == core.objects
           n == core'.objects
           gone == Range(queue.destroys)
<1>1. os \in Seq(Object) /\ gone \subseteq Slots
  <2>1. queue.destroys \in Seq(Slots)
    BY DEF Rooted, St, Queue, Now
  <2> QED BY <2>1 DEF Rooted, St, Core, Now, Range
<1>2. \A j \in DOMAIN os : os[j].thing \in Slots
  BY <1>1, ObjectThings
<1>3. Matched(os, world, gone) /\ (host.preview # NoThing => HasObject(os, host.preview))
  BY DEF Sound, Linked, Now
<1>4. DOMAIN n = DOMAIN os /\ \A j \in DOMAIN os : n[j].thing = os[j].thing /\ n[j].key = os[j].key
  OBVIOUS
<1> HIDE DEF os, n, gone
<1>5. Matched(n, world', gone) /\ \A t : HasObject(n, t) <=> HasObject(os, t)
  BY <1>1, <1>2, <1>3, <1>4, MatchedSame
<1>6. Linked(Now')
  BY <1>3, <1>5 DEF Linked, AtRest, Now, n, gone
<1>7. Unsaved(Now', saved')
  <2>1. Unsaved(Now, saved)
    BY DEF Sound
  <2> SUFFICES ASSUME host.preview # NoThing, ~host.moving, NEW j \in DOMAIN n, n[j].thing = host.preview
               PROVE  saved[n[j].key] = Absent
    BY DEF Unsaved, Now, n
  <2>2. j \in DOMAIN os /\ os[j].thing = host.preview /\ n[j].key = os[j].key
    BY <1>4
  <2> QED BY <2>1, <2>2 DEF Unsaved, Now, os
<1>8. RowsKept(Now', saved')
  <2>1. ObjectKeys(n) = ObjectKeys(os)
    BY <1>4 DEF ObjectKeys
  <2>2. RowsKept(Now, saved)
    BY DEF Sound
  <2> QED BY <2>1, <2>2 DEF RowsKept, SameRows, Now, os, n
<1> QED BY <1>6, <1>7, <1>8 DEF Sound

LEMMA StepSound ==
  ASSUME Rooted(Now, saved), Sound(Now, saved), [Next]_vars, Occurs = {}
  PROVE  Sound(Now, saved)'
<1>1. /\ Now \in St /\ saved \in [Keys -> Row] /\ AtRest(Now)
      /\ "full" \notin Occurs /\ "leftOver" \notin Occurs /\ "previewRemoved" \notin Occurs
      /\ "noTemplate" \notin Occurs
  BY DEF Rooted, Sound, Linked
<1>2. SUFFICES Sound(Now', saved')
  OBVIOUS
<1>3. CASE HostUpdate
  BY <1>1, <1>3, FrameSound DEF HostUpdate, Room
<1>4. CASE ConfirmSpawn
  BY <1>4, ConfirmSound
<1>5. CASE CancelSpawn
  BY <1>1, <1>5, CancelSound DEF CancelSpawn, Room
<1>6. CASE RequestSpawn
  <2>1. host.inMap /\ UNCHANGED <<world, host, core, saved>>
    BY <1>6 DEF RequestSpawn
  <2>2. PICK q \in Request : queue'.spawns = Append(queue.spawns, q) /\ queue'.destroys = queue.destroys
    BY <1>1, <1>6, RequestSpawnFacts
  <2>3. ObjectKeys(queue.spawns) \subseteq ObjectKeys(queue'.spawns)
    <3> DEFINE a == queue.spawns
               b == Append(a, q)
    <3>1. a \in Seq(Request)
      BY <1>1 DEF St, Queue, Now
    <3>2. \A j \in DOMAIN a : j \in DOMAIN b /\ b[j] = a[j]
      BY <3>1
    <3> HIDE DEF b
    <3>3. ObjectKeys(a) \subseteq ObjectKeys(b)
      BY <3>2 DEF ObjectKeys
    <3> QED BY <2>2, <3>3 DEF b
  <2> QED BY <2>1, <2>2, <2>3, SoundKept DEF SameRows
<1>7. CASE RequestMove
  <2>1. host.inMap /\ UNCHANGED <<world, host, core, saved>>
    BY <1>7 DEF RequestMove
  <2>2. queue'.spawns = queue.spawns /\ queue'.destroys = queue.destroys
    BY <1>1, <1>7, RequestMoveFacts
  <2> QED BY <2>1, <2>2, SoundKept DEF SameRows
<1>8. CASE DestroyObject
  BY <1>1, <1>8, DestroyObjectSound
<1>9. CASE RequestModelChange \/ SetSlider
  <2>1. host.inMap /\ UNCHANGED <<world, host, saved>>
    BY <1>9 DEF RequestModelChange, SetSlider
  <2>2. /\ queue'.spawns = queue.spawns /\ queue'.destroys = queue.destroys /\ SameRows(core, core')
        /\ DOMAIN core'.objects = DOMAIN core.objects
        /\ \A j \in DOMAIN core.objects : /\ core'.objects[j].thing = core.objects[j].thing
                                          /\ core'.objects[j].key = core.objects[j].key
    BY <1>1, <1>9, PageFacts
  <2> QED BY <2>1, <2>2, SoundKept
<1>10. CASE Tick \/ EngineCreates \/ EngineRemoves
  <2>1. /\ UNCHANGED <<host, core, queue, saved>>
        /\ \A u \in Slots : StandingIn(world', u) <=> StandingIn(world, u)
    BY <1>1, <1>10, EngineFacts
  <2>2. CASE host.inMap
    BY <2>1, <2>2, SoundKept DEF SameRows
  <2>3. CASE ~host.inMap
    <3>1. Matched(core.objects, world, Range(queue.destroys)) /\ host.preview = NoThing
      BY <1>1, <2>3 DEF Sound, Linked, AtRest, Now
    <3>2. /\ \A j \in DOMAIN core.objects : core.objects[j].thing \in Slots
          /\ Range(queue.destroys) \subseteq Slots
      <4>1. core.objects \in Seq(Object) /\ queue.destroys \in Seq(Slots)
        BY <1>1 DEF St, Core, Queue, Now
      <4> QED BY <4>1, ObjectThings DEF Range
    <3>3. Matched(core.objects, world', Range(queue.destroys))
      BY <2>1, <3>1, <3>2, MatchedSame
    <3>4. Linked(Now')
      BY <1>1, <2>1, <3>1, <3>3 DEF Linked, AtRest, Now
    <3> QED BY <2>1, <2>3, <3>1, <3>4 DEF Sound, Unsaved, RowsKept, Now
  <2> QED BY <2>2, <2>3
<1>11. CASE MapUnload
  <2>1. /\ world' = EmptyWorld /\ host' = IdleHost /\ core'.objects = <<>>
        /\ UNCHANGED <<queue, saved>> /\ \A f \in DOMAIN queue : queue[f] = <<>>
    BY <1>1, <1>11, MapUnloadFacts
  <2>2. queue.spawns = <<>> /\ queue.destroys = <<>> /\ queue.moves = <<>>
    <3>1. DOMAIN queue = {"spawns", "destroys", "moves", "models"}
      BY <1>1 DEF St, Queue, Now
    <3> QED BY <2>1, <3>1
  <2>3. host'.preview = NoThing /\ ~host'.inMap
    BY <2>1 DEF IdleHost
  <2>4. \A u \in Slots : ~StandingIn(world', u)
    BY <2>1 DEF EmptyWorld, Vacant, StandingIn
  <2>5. Matched(core'.objects, world', Range(queue'.destroys))
    <3>1. Range(queue'.destroys) = {} /\ DOMAIN core'.objects = {}
      BY <2>1, <2>2 DEF Range
    <3> QED BY <2>4, <3>1 DEF Matched, Distinct
  <2>6. Linked(Now')
    BY <2>1, <2>2, <2>3, <2>5 DEF Linked, AtRest, Now
  <2> QED BY <2>3, <2>6 DEF Sound, Unsaved, RowsKept, Now
<1>12. CASE MapLoad
  <2>1. /\ world' = EmptyWorld /\ ~host.inMap /\ host'.inMap /\ host'.preview = host.preview
        /\ core'.objects = <<>> /\ queue'.destroys = queue.destroys /\ UNCHANGED saved
        /\ \A k \in SavedKeys : \/ k \in core'.missed
                                \/ core'.instance /\ k \in ObjectKeys(queue'.spawns)
    BY <1>1, <1>12, MapLoadFacts
  <2>2. host'.preview = NoThing /\ queue'.destroys = <<>>
    BY <1>1, <2>1 DEF AtRest, Now
  <2>3. \A u \in Slots : ~StandingIn(world', u)
    BY <2>1 DEF EmptyWorld, Vacant, StandingIn
  <2>4. Matched(core'.objects, world', Range(queue'.destroys))
    <3>1. Range(queue'.destroys) = {} /\ DOMAIN core'.objects = {}
      BY <2>1, <2>2 DEF Range
    <3> QED BY <2>3, <3>1 DEF Matched, Distinct
  <2>5. Linked(Now')
    BY <2>1, <2>2, <2>4 DEF Linked, AtRest, Now
  <2>6. RowsKept(Now', saved')
    BY <2>1 DEF RowsKept, SavedKeys, Now
  <2> QED BY <2>2, <2>5, <2>6 DEF Sound, Unsaved, Now
<1>13. CASE UNCHANGED vars
  <2>1. Now' = Now /\ saved' = saved
    BY <1>13 DEF vars, Now
  <2> QED BY <2>1
<1> QED BY <1>3, <1>4, <1>5, <1>6, <1>7, <1>8, <1>9, <1>10, <1>11, <1>12, <1>13 DEF Next

LEMMA InitSound ==
  ASSUME Init
  PROVE  Sound(Now, saved)
<1>1. /\ world = EmptyWorld /\ host.preview = NoThing /\ ~host.inMap /\ core.objects = <<>>
      /\ queue.spawns = <<>> /\ queue.destroys = <<>> /\ queue.moves = <<>>
  BY DEF Init, IdleHost
<1>2. \A u \in Slots : ~StandingIn(world, u)
  BY <1>1 DEF EmptyWorld, Vacant, StandingIn
<1>3. Matched(core.objects, world, Range(queue.destroys))
  <2>1. Range(queue.destroys) = {} /\ DOMAIN core.objects = {}
    BY <1>1 DEF Range
  <2> QED BY <1>2, <2>1 DEF Matched, Distinct
<1> QED BY <1>1, <1>3 DEF Sound, Linked, AtRest, Unsaved, RowsKept, Now

LEMMA AlwaysSound ==
  ASSUME Occurs = {}
  PROVE  Spec => [](Rooted(Now, saved) /\ Sound(Now, saved))
<1>1. Init => Sound(Now, saved)
  BY InitSound
<1>2. Rooted(Now, saved) /\ Sound(Now, saved) /\ [Next]_vars => Sound(Now, saved)'
  BY StepSound
<1> QED BY <1>1, <1>2, AlwaysRooted, PTL DEF Spec

\* Where the level has room and the templates, the map is left with no request waiting,
\* and the preview is not removed, objects never share a thing, and none is without one
\* that stands: updateThingIdx follows every renumbering, also of a second preview.
THEOREM OneThingEachHolds ==
  ASSUME Occurs = {}
  PROVE  Spec => []OneThingEach
<1>1. Rooted(Now, saved) /\ Sound(Now, saved) => OneThingEach
  BY DEF Sound, Linked, Matched, Distinct, OneThingEach, StandingIn, Standing, Now
<1> QED BY <1>1, AlwaysSound, PTL

\* Nor is a thing left standing whose object is gone, but until its removal is seen.
THEOREM NoGhostHolds ==
  ASSUME Occurs = {}
  PROVE  Spec => []NoGhost
<1>1. Rooted(Now, saved) /\ Sound(Now, saved) => NoGhost
  <2> SUFFICES ASSUME Rooted(Now, saved), Sound(Now, saved), NEW t \in Slots, Standing(t)
               PROVE  Find(core.objects, t) # 0 \/ t \in Range(queue.destroys)
    BY DEF NoGhost
  <2>1. core.objects \in Seq(Object)
    BY DEF Rooted, St, Core, Now
  <2>2. HasObject(core.objects, t) \/ t \in Range(queue.destroys)
    BY DEF Sound, Linked, Matched, StandingIn, Standing, Now
  <2> QED BY <2>1, <2>2, FindFacts
<1> QED BY <1>1, AlwaysSound, PTL

\* And every row of the library that the load did not skip, nor a spawn drop, is an
\* object of the open map, or waits to be one.
THEOREM RowsComeBackHolds ==
  ASSUME Occurs = {}
  PROVE  Spec => []RowsComeBack
<1>1. Rooted(Now, saved) /\ Sound(Now, saved) => RowsComeBack
  BY DEF Sound, RowsKept, ObjectKeys, RowsComeBack, Now
<1> QED BY <1>1, AlwaysSound, PTL

=============================================================================
