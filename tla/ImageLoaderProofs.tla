-------------------------- MODULE ImageLoaderProofs --------------------------
(* Proofs about ImageLoader: for any things, items, urls and bounds, the     *)
(* variables keep their types, no promise is forgotten or answered twice,    *)
(* what is captured is what is shown, memory and files agree, and a thing    *)
(* and a url are each worked on at most once.                                *)
EXTENDS ImageLoader, FiniteSetTheorems, WellFoundedInduction, TLAPS

-----------------------------------------------------------------------------
(* Sequences and numbers.                                                    *)

\* A non-empty set of indices has a last one.
LEMMA LastExists ==
  ASSUME NEW n \in Nat, NEW S \in SUBSET (1 .. n), S # {}
  PROVE  \E k \in S : \A j \in S : j <= k
<1> DEFINE T == {m \in Nat : n - m \in S}
<1>1. T \in SUBSET Nat /\ T # {}
  <2>1. PICK k \in S : TRUE
    OBVIOUS
  <2>2. n - k \in Nat /\ n - (n - k) = k
    OBVIOUS
  <2> QED
    BY <2>1, <2>2
<1>2. PICK m \in T : \A l \in T : ~ (<<l, m>> \in OpToRel(<, Nat))
  BY <1>1, NatLessThanWellFounded, WFMin
<1>3. \A l \in T : ~ (l < m)
  BY <1>2 DEF OpToRel
<1>4. ASSUME NEW j \in S PROVE j <= n - m
  <2>1. n - j \in T
    <3>1. n - j \in Nat /\ n - (n - j) = j
      OBVIOUS
    <3> QED
      BY <3>1
  <2>2. ~ (n - j < m)
    BY <1>3, <2>1
  <2> QED
    BY <2>2
<1> QED
  BY <1>4

\* Sets without a common element.
LEMMA DisjointUnion ==
  ASSUME NEW A, NEW B, IsFiniteSet(A), IsFiniteSet(B), A \cap B = {}
  PROVE  Cardinality(A \cup B) = Cardinality(A) + Cardinality(B)
<1>1. Cardinality(A \cup B) = Cardinality(A) + Cardinality(B) - Cardinality(A \cap B)
  BY FS_Union
<1>2. Cardinality(A \cap B) = 0
  BY FS_EmptySet
<1>3. Cardinality(A) \in Nat /\ Cardinality(B) \in Nat
  BY FS_CardinalityType
<1> QED
  BY <1>1, <1>2, <1>3

\* Of a sequence of one nothing stays behind its head.
LEMMA LastOne ==
  ASSUME NEW S, NEW q \in Seq(S), q # <<>>
  PROVE  Len(q) = 1 <=> Tail(q) = <<>>
<1>1. Tail(q) \in Seq(S) /\ Len(Tail(q)) = Len(q) - 1 /\ Len(q) \in Nat
  OBVIOUS
<1>2. ASSUME NEW r \in Seq(S) PROVE r = <<>> <=> Len(r) = 0
  OBVIOUS
<1>3. Tail(q) = <<>> <=> Len(Tail(q)) = 0
  BY <1>1, <1>2, Zenon
<1>4. Len(q) = 1 <=> Len(Tail(q)) = 0
  BY <1>1
<1> QED
  BY <1>3, <1>4, Zenon

\* The answers of a sequence that are for a url.
AnswersFor(q, u) == {k \in DOMAIN q : q[k].to = "promise" /\ q[k].url = u}

\* They are finitely many.
LEMMA AnswersForFinite ==
  ASSUME NEW q \in Seq(Answers), NEW u
  PROVE  IsFiniteSet(AnswersFor(q, u)) /\ Cardinality(AnswersFor(q, u)) \in Nat
<1>1. AnswersFor(q, u) \in SUBSET (1 .. Len(q)) /\ Len(q) \in Nat
  BY DEF AnswersFor
<1>2. IsFiniteSet(1 .. Len(q))
  BY <1>1, FS_Interval, 1 \in Int, Len(q) \in Int
<1>3. IsFiniteSet(AnswersFor(q, u))
  BY <1>1, <1>2, FS_Subset
<1> QED
  BY <1>3, FS_CardinalityType

\* An answer for another customer does not count, one for the url counts once.
LEMMA AnswerCounted ==
  ASSUME NEW q \in Seq(Answers), NEW x \in Answers, NEW u
  PROVE  Cardinality(AnswersFor(Append(q, x), u)) =
           Cardinality(AnswersFor(q, u))
             + (IF x.to = "promise" /\ x.url = u THEN 1 ELSE 0)
<1> DEFINE n == Len(q) + 1
<1>1. CASE x.to = "promise" /\ x.url = u
  <2>1. AnswersFor(Append(q, x), u) = AnswersFor(q, u) \cup {n}
    BY <1>1 DEF AnswersFor
  <2>2. n \notin AnswersFor(q, u)
    BY DEF AnswersFor
  <2> HIDE DEF n
  <2>3. Cardinality(AnswersFor(q, u) \cup {n}) = Cardinality(AnswersFor(q, u)) + 1
    BY <2>2, AnswersForFinite, FS_AddElement
  <2> QED
    BY <1>1, <2>1, <2>3
<1>2. CASE ~ (x.to = "promise" /\ x.url = u)
  <2>1. AnswersFor(Append(q, x), u) = AnswersFor(q, u)
    BY <1>2 DEF AnswersFor
  <2> QED
    BY <1>2, <2>1, AnswersForFinite
<1> QED
  BY <1>1, <1>2

\* One answer for each callback of a url.
Copies(n, x) == [k \in 1 .. n |-> x]

\* All callbacks of a url are answered, each once, and those of no other url.
LEMMA AllCounted ==
  ASSUME NEW q \in Seq(Answers), NEW n \in Nat, NEW ok \in BOOLEAN, NEW v \in Urls
  PROVE  /\ q \o Copies(n, UrlAnswer(ok, v)) \in Seq(Answers)
         /\ \A u : Cardinality(AnswersFor(q \o Copies(n, UrlAnswer(ok, v)), u)) =
                     Cardinality(AnswersFor(q, u)) + (IF u = v THEN n ELSE 0)
<1> DEFINE c == Copies(n, UrlAnswer(ok, v))
           r == q \o c
           m == Len(q)
<1>1. UrlAnswer(ok, v) \in Answers
  BY DEF UrlAnswer, Answers
<1>2. c \in Seq(Answers) /\ Len(c) = n /\ \A k \in 1 .. n : c[k] = UrlAnswer(ok, v)
  BY <1>1 DEF Copies
<1>3. r \in Seq(Answers)
  BY <1>2
<1>4. /\ Len(r) = m + n /\ m \in Nat
      /\ \A k \in 1 .. m : r[k] = q[k]
      /\ \A k \in m + 1 .. m + n : r[k] = UrlAnswer(ok, v)
  BY <1>2
<1>5. ASSUME NEW u
      PROVE  Cardinality(AnswersFor(r, u)) = Cardinality(AnswersFor(q, u)) + (IF u = v THEN n ELSE 0)
  <2>1. CASE u = v
    <3>1. AnswersFor(r, u) = AnswersFor(q, u) \cup (m + 1 .. m + n)
      <4> HIDE DEF r, c
      <4>1. DOMAIN r = 1 .. m + n /\ DOMAIN q = 1 .. m
        BY <1>3, <1>4
      <4>2. \A k \in m + 1 .. m + n : r[k].to = "promise" /\ r[k].url = u
        BY <1>4, <2>1 DEF UrlAnswer
      <4>3. \A k : k \in 1 .. m + n <=> k \in 1 .. m \/ k \in m + 1 .. m + n
        BY <1>4
      <4> QED
        BY <1>4, <4>1, <4>2, <4>3 DEF AnswersFor
    <3>2. AnswersFor(q, u) \cap (m + 1 .. m + n) = {}
      BY DEF AnswersFor
    <3>3. /\ IsFiniteSet(m + 1 .. m + n)
          /\ Cardinality(m + 1 .. m + n) = n
      <4> DEFINE lo == m + 1
                 hi == m + n
      <4>1. lo \in Int /\ hi \in Int /\ (IF lo > hi THEN 0 ELSE hi - lo + 1) = n
        BY <1>4
      <4> HIDE DEF lo, hi
      <4>2. IsFiniteSet(lo .. hi) /\ Cardinality(lo .. hi) = IF lo > hi THEN 0 ELSE hi - lo + 1
        BY <4>1, FS_Interval
      <4> QED
        BY <4>1, <4>2 DEF lo, hi
    <3> HIDE DEF r, c, m
    <3>5. Cardinality(AnswersFor(q, u) \cup (m + 1 .. m + n)) =
            Cardinality(AnswersFor(q, u)) + Cardinality(m + 1 .. m + n)
      BY <3>2, <3>3, DisjointUnion, AnswersForFinite
    <3> QED
      BY <2>1, <3>1, <3>3, <3>5, AnswersForFinite
  <2>2. CASE u # v
    <3>1. AnswersFor(r, u) = AnswersFor(q, u)
      <4> HIDE DEF r, c
      <4>1. DOMAIN r = 1 .. m + n /\ DOMAIN q = 1 .. m
        BY <1>3, <1>4
      <4>2. \A k \in m + 1 .. m + n : r[k].url # u
        BY <1>4, <2>2 DEF UrlAnswer
      <4>3. \A k : k \in 1 .. m + n <=> k \in 1 .. m \/ k \in m + 1 .. m + n
        BY <1>4
      <4> QED
        BY <1>4, <4>1, <4>2, <4>3 DEF AnswersFor
    <3> QED
      BY <2>2, <3>1, AnswersForFinite
  <2> QED
    BY <2>1, <2>2
<1> QED
  BY <1>3, <1>5

-----------------------------------------------------------------------------
(* Types.                                                                    *)

\* Asking for images keeps the types of the objects, the requests and the walks.
LEMMA RequestTypes ==
  ASSUME NEW objs \in Seq(Object), NEW asked \in SUBSET DOMAIN objs,
         pendingItem \in [Things -> Nat], walk \in [Things -> Seq(Urls)],
         RequestChannelImages(objs, asked)
  PROVE  /\ objects' \in Seq(Object)
         /\ pendingItem' \in [Things -> Nat]
         /\ walk' \in [Things -> Seq(Urls)]
<1> DEFINE Asking(t) == {i \in asked : objs[i].thing = t}
           One(t) == CHOOSE i \in Asking(t) : TRUE
<1>1. CASE ready
  <2>1. \A t : Asking(t) # {} => One(t) \in DOMAIN objs /\ One(t) \in Nat
    OBVIOUS
  <2>2. ASSUME NEW t, Asking(t) # {} PROVE Candidates[objs[One(t)].item] \in Seq(Urls)
    <3> HIDE DEF One
    <3>1. objs[One(t)] \in Object
      BY <2>1, <2>2
    <3> QED
      BY <3>1, CandidatesAssumption DEF Object
  <2>3. \A o \in Object : [o EXCEPT !.requested = TRUE] \in Object
    BY DEF Object
  <2>4. objects' = [i \in DOMAIN objs |-> IF i \in asked THEN [objs[i] EXCEPT !.requested = TRUE]
                                                         ELSE objs[i]]
    BY <1>1 DEF RequestChannelImages
  <2>5. objects' \in Seq(Object)
    BY <2>3, <2>4
  <2>6. pendingItem' \in [Things -> Nat]
    <3>1. pendingItem' = [t \in Things |-> IF Asking(t) # {} THEN One(t) ELSE pendingItem[t]]
      BY <1>1 DEF RequestChannelImages
    <3> HIDE DEF Asking, One
    <3> QED
      BY <2>1, <3>1
  <2>7. walk' \in [Things -> Seq(Urls)]
    <3>1. walk' = [t \in Things |-> IF Asking(t) # {} /\ pendingItem[t] = 0
                                   THEN Candidates[objs[One(t)].item] ELSE walk[t]]
      BY <1>1 DEF RequestChannelImages
    <3> HIDE DEF Asking, One
    <3> QED
      BY <2>2, <3>1
  <2> QED
    BY <2>5, <2>6, <2>7
<1>2. CASE ~ready
  BY <1>2 DEF RequestChannelImages
<1> QED
  BY <1>1, <1>2

\* Clearing the paths of some objects keeps their types.
LEMMA ClearedPaths ==
  ASSUME objects \in Seq(Object), NEW mine \in SUBSET DOMAIN objects
  PROVE  LET objs == [i \in DOMAIN objects |-> IF i \in mine THEN [objects[i] EXCEPT !.path = NoUrl]
                                                            ELSE objects[i]] IN
         objs \in Seq(Object) /\ mine \in SUBSET DOMAIN objs
<1> DEFINE objs == [i \in DOMAIN objects |-> IF i \in mine THEN [objects[i] EXCEPT !.path = NoUrl]
                                                          ELSE objects[i]]
<1>1. \A o \in Object : [o EXCEPT !.path = NoUrl] \in Object
  BY DEF Object
<1>2. \A i \in DOMAIN objects : objects[i] \in Object
  OBVIOUS
<1>3. \A i \in 1 .. Len(objects) : objs[i] \in Object
  BY <1>1, <1>2
<1>4. DOMAIN objs = 1 .. Len(objects) /\ Len(objects) \in Nat
  OBVIOUS
<1>5. objs = [i \in 1 .. Len(objects) |-> objs[i]]
  BY <1>4
<1>6. mine \in SUBSET DOMAIN objs
  OBVIOUS
<1> HIDE DEF objs
<1>7. objs \in Seq(Object)
  BY <1>3, <1>4, <1>5
<1>8. objs \in Seq(Object) /\ mine \in SUBSET DOMAIN objs
  BY <1>6, <1>7
<1> QED
  BY <1>8 DEF objs

\* What the callbacks leave of an object is an object.
LEMMA DeliveredType ==
  ASSUME TypeOK, NEW i \in DOMAIN objects
  PROVE  Delivered(i) \in Object
<1> DEFINE good == {k \in AnswersTo(i) : answers[k].ok}
           last == CHOOSE k \in good : \A j \in good : j <= k
<1>1. good \in SUBSET (1 .. Len(answers)) /\ Len(answers) \in Nat
  BY DEF AnswersTo, TypeOK
<1>2. good # {} => last \in good
  <2>1. good # {} => \E k \in good : \A j \in good : j <= k
    BY <1>1, LastExists
  <2> QED
    BY <2>1
<1>3. good # {} => answers[last].url \in Urls \cup {NoUrl}
  <2> HIDE DEF last
  <2>1. ASSUME good # {} PROVE answers[last] \in Answers /\ answers[last].to = "object"
    <3>1. last \in DOMAIN answers /\ answers[last].to = "object"
      BY <1>2, <2>1 DEF AnswersTo
    <3> QED
      BY <3>1 DEF TypeOK
  <2>2. \A x \in Answers : x.url \in Urls \cup {NoUrl}
    BY DEF Answers
  <2> QED
    BY <2>1, <2>2
<1>4. objects[i] \in Object
  BY DEF TypeOK
<1>5. Delivered(i) = [objects[i] EXCEPT
                        !.path = IF good = {} THEN @ ELSE answers[last].url,
                        !.requested = @ /\ AnswersTo(i) = good]
  BY DEF Delivered
<1> HIDE DEF good, last
<1> QED
  BY <1>3, <1>4, <1>5 DEF Object

\* The answers to promises and requests are answers.
LEMMA AnswerTypes ==
  ASSUME TypeOK
  PROVE  /\ \A ok \in BOOLEAN, u \in Urls : UrlAnswer(ok, u) \in Answers
         /\ \A ok \in BOOLEAN, t \in Things, u \in Urls \cup {NoUrl} :
              pendingItem[t] # 0 => ItemAnswer(ok, t, u) \in Answers
         /\ \A ok \in BOOLEAN, u \in Urls : AnswerAll(ok, u) \in Seq(Answers)
<1>1. \A ok \in BOOLEAN, u \in Urls : UrlAnswer(ok, u) \in Answers
  BY DEF UrlAnswer, Answers
<1>2. \A ok \in BOOLEAN, t \in Things, u \in Urls \cup {NoUrl} :
        pendingItem[t] # 0 => ItemAnswer(ok, t, u) \in Answers
  BY DEF ItemAnswer, Answers, TypeOK
<1>3. ASSUME NEW ok \in BOOLEAN, NEW u \in Urls PROVE AnswerAll(ok, u) \in Seq(Answers)
  <2>1. AnswerAll(ok, u) = answers \o Copies(pendingImages[u], UrlAnswer(ok, u))
    BY DEF AnswerAll, Copies
  <2>2. answers \in Seq(Answers) /\ pendingImages[u] \in Nat
    BY DEF TypeOK
  <2> QED
    BY <2>1, <2>2, AllCounted
<1> QED
  BY <1>1, <1>2, <1>3

\* Ending the request of a thing keeps the types.
LEMMA AnswerItemTypes ==
  ASSUME TypeOK, NEW ok \in BOOLEAN, NEW t \in Things, NEW u \in Urls \cup {NoUrl},
         AnswerItem(ok, t, u)
  PROVE  answers' \in Seq(Answers) /\ pendingItem' \in [Things -> Nat]
<1>1. answers \in Seq(Answers) /\ pendingItem \in [Things -> Nat]
  BY DEF TypeOK
<1>2. CASE pendingItem[t] # 0
  <2>1. ItemAnswer(ok, t, u) \in Answers
    BY <1>2, AnswerTypes
  <2> QED
    <3>1. /\ answers' = Append(answers, ItemAnswer(ok, t, u))
          /\ pendingItem' = [pendingItem EXCEPT ![t] = 0]
      BY <1>2 DEF AnswerItem
    <3> QED
      BY <1>1, <2>1, <3>1
<1>3. CASE pendingItem[t] = 0
  BY <1>1, <1>3 DEF AnswerItem
<1> QED
  BY <1>2, <1>3

\* Showing the next image keeps the types.
LEMMA ShowTypes ==
  ASSUME TypeOK, NEW shown \in Shots \cup {NoShot}, ShowNextReady(shown)
  PROVE  /\ displayed' \in Shots \cup {NoShot}
         /\ readyQueue' \in Seq(Shots)
         /\ settling' \subseteq Shots
<1>1. readyQueue \in Seq(Shots) /\ settling \subseteq Shots
  BY DEF TypeOK
<1>2. readyQueue # <<>> => Head(readyQueue) \in Shots /\ Tail(readyQueue) \in Seq(Shots)
  BY <1>1
<1> HIDE DEF Shots
<1> QED
  BY <1>1, <1>2 DEF ShowNextReady

-----------------------------------------------------------------------------
(* Every step keeps the types.  That a promise is not answered more often    *)
(* than it was made is what keeps their number a natural.                    *)

LEMMA InitTypes == Init => TypeOK
<1>1. <<>> \in Seq(Object) /\ <<>> \in Seq(Answers) /\ <<>> \in Seq(Urls) /\ <<>> \in Seq(Shots)
  OBVIOUS
<1>2. Init => /\ promises \in [Urls -> Nat] /\ pendingImages \in [Urls -> Nat]
              /\ pendingItem \in [Things -> Nat] /\ walk \in [Things -> Seq(Urls)]
  BY <1>1 DEF Init
<1> QED
  BY <1>1, <1>2 DEF Init, TypeOK

\* Requests and removals keep the types.
LEMMA CustomerKeepsTypes == TypeOK /\ Customer => TypeOK'
<1> SUFFICES ASSUME TypeOK, Customer PROVE TypeOK'
  OBVIOUS
<1>0. /\ objects \in Seq(Object) /\ answers \in Seq(Answers)
      /\ pendingItem \in [Things -> Nat] /\ walk \in [Things -> Seq(Urls)]
  BY DEF TypeOK
<1>n. \A t \in Things, it \in Items : NewObject(t, it) \in Object
  BY DEF NewObject, Object
<1>1. ASSUME NEW u \in Urls \ Snapshots, GetCacheImage(u) PROVE TypeOK'
  <2>1. \A k \in {"url", "file"} : UrlShot(k, u) \in UrlShots
    BY DEF UrlShot, UrlShots
  <2>2. SendUrl(u) \subseteq UrlShots
    BY <2>1 DEF SendUrl, TypeOK
  <2>3. Append(answers, UrlAnswer(TRUE, u)) \in Seq(Answers)
    <3> DEFINE x == UrlAnswer(TRUE, u)
    <3>1. x \in Answers
      BY AnswerTypes
    <3> HIDE DEF x
    <3>2. Append(answers, x) \in Seq(Answers)
      BY <1>0, <3>1
    <3> QED
      BY <3>2 DEF x
  <2>4. answers' \in Seq(Answers) /\ loading' \subseteq UrlShots
    BY <1>0, <1>1, <2>2, <2>3 DEF GetCacheImage, TypeOK
  <2>5. promises' \in [Urls -> Nat] /\ pendingImages' \in [Urls -> Nat]
    <3>1. promises \in [Urls -> Nat] /\ pendingImages \in [Urls -> Nat]
      BY DEF TypeOK
    <3>2. promises' = [promises EXCEPT ![u] = @ + 1]
      BY <1>1 DEF GetCacheImage
    <3>3. pendingImages' = pendingImages \/ pendingImages' = [pendingImages EXCEPT ![u] = @ + 1]
      BY <1>1 DEF GetCacheImage
    <3> QED
      BY <3>1, <3>2, <3>3
  <2> QED
    BY <1>1, <2>4, <2>5 DEF GetCacheImage, TypeOK, cacheVars
<1>2. ASSUME NEW t \in Things, NEW it \in Items, InitSpawnedObject(t, it) PROVE TypeOK'
  <2> DEFINE objs == Append(objects, NewObject(t, it))
             asked == {Len(objects) + 1}
  <2>1. objs \in Seq(Object) /\ asked \in SUBSET DOMAIN objs
    BY <1>0, <1>n
  <2>2. RequestChannelImages(objs, asked)
    BY <1>2 DEF InitSpawnedObject
  <2> HIDE DEF objs, asked
  <2>3. objects' \in Seq(Object) /\ pendingItem' \in [Things -> Nat] /\ walk' \in [Things -> Seq(Urls)]
    BY <1>0, <2>1, <2>2, RequestTypes
  <2> QED
    BY <1>2, <2>3 DEF InitSpawnedObject, TypeOK, cacheVars, urlVars
<1>3. ASSUME NEW i \in DOMAIN objects, NEW t \in Things, ChangeModel(i, t) PROVE TypeOK'
  <2> DEFINE objs == [objects EXCEPT ![i] = NewObject(t, objects[i].item)]
  <2>0. objects[i].item \in Items
    <3>1. objects[i] \in Object
      BY <1>0
    <3> QED
      BY <3>1 DEF Object
  <2>1. objs \in Seq(Object) /\ {i} \in SUBSET DOMAIN objs
    BY <1>0, <1>n, <2>0
  <2>2. RequestChannelImages(objs, {i})
    BY <1>3 DEF ChangeModel
  <2> HIDE DEF objs
  <2>3. objects' \in Seq(Object) /\ pendingItem' \in [Things -> Nat] /\ walk' \in [Things -> Seq(Urls)]
    BY <1>0, <2>1, <2>2, RequestTypes
  <2> QED
    BY <1>3, <2>3 DEF ChangeModel, TypeOK, cacheVars, urlVars
<1>4. ASSUME NEW it \in Items, NEW wipe \in BOOLEAN, RefreshItemTextures(it, wipe) PROVE TypeOK'
  <2> DEFINE mine == {i \in DOMAIN objects : objects[i].item = it}
             objs == [i \in DOMAIN objects |-> IF i \in mine THEN [objects[i] EXCEPT !.path = NoUrl]
                                                            ELSE objects[i]]
  <2>1. objs \in Seq(Object) /\ mine \in SUBSET DOMAIN objs
    BY <1>0, ClearedPaths
  <2>2. RequestChannelImages(objs, mine)
    BY <1>4 DEF RefreshItemTextures
  <2>3. pixels' \subseteq Urls /\ disk' \subseteq Urls
    BY <1>4 DEF RefreshItemTextures, TypeOK
  <2> HIDE DEF objs, mine
  <2>4. objects' \in Seq(Object) /\ pendingItem' \in [Things -> Nat] /\ walk' \in [Things -> Seq(Urls)]
    BY <1>0, <2>1, <2>2, RequestTypes
  <2> QED
    BY <1>4, <2>3, <2>4 DEF RefreshItemTextures, TypeOK, urlVars
<1>5. ASSUME NEW i \in DOMAIN objects, RemoveObject(i) PROVE TypeOK'
  <2>1. RemoveAt(objects, i) \in Seq(Object)
    BY <1>0 DEF RemoveAt
  <2> QED
    BY <1>5, <2>1 DEF RemoveObject, TypeOK, cacheVars, urlVars, pageVars
<1>6. ASSUME ClearObjects PROVE TypeOK'
  BY <1>6 DEF ClearObjects, TypeOK, cacheVars, urlVars, pageVars
<1>7. ASSUME NEW it \in Items, SaveSnapshot(it) PROVE TypeOK'
  <2>1. Last(Candidates[it]) \in Urls
    BY CandidatesAssumption DEF Last
  <2> QED
    BY <1>7, <2>1 DEF SaveSnapshot, TypeOK, urlVars, pageVars
<1> QED
  BY <1>1, <1>2, <1>3, <1>4, <1>5, <1>6, <1>7 DEF Customer

\* The page keeps the types.
LEMMA PageKeepsTypes == TypeOK /\ Page => TypeOK'
<1> SUFFICES ASSUME TypeOK, Page PROVE TypeOK'
  OBVIOUS
<1>0. /\ readyQueue \in Seq(Shots) /\ walk \in [Things -> Seq(Urls)] /\ answers \in Seq(Answers)
      /\ loading \subseteq UrlShots /\ settling \subseteq Shots
  BY DEF TypeOK
<1>1. ASSUME OnImageLoaderReady PROVE TypeOK'
  BY <1>1 DEF OnImageLoaderReady, TypeOK, cacheVars, urlVars, pageVars
<1>2. ASSUME NEW s \in UrlShots, UrlLoads(s) PROVE TypeOK'
  <2>1. Append(readyQueue, s) \in Seq(Shots)
    BY <1>0 DEF Shots
  <2> QED
    BY <1>2, <2>1 DEF UrlLoads, TypeOK, cacheVars, urlVars
<1>3. ASSUME NEW s \in UrlShots, UrlFails(s) PROVE TypeOK'
  <2>1. s.url \in Urls
    BY DEF UrlShots
  <2>2. AnswerAll(FALSE, s.url) \in Seq(Answers)
    BY <2>1, AnswerTypes
  <2>3. answers' \in Seq(Answers) /\ pendingImages' \in [Urls -> Nat]
    <3>1. pendingImages \in [Urls -> Nat]
      BY DEF TypeOK
    <3>2. pendingImages' = pendingImages \/ pendingImages' = [pendingImages EXCEPT ![s.url] = 0]
      BY <1>3 DEF UrlFails
    <3>3. answers' = answers \/ answers' = AnswerAll(FALSE, s.url)
      BY <1>3 DEF UrlFails
    <3>4. answers' \in Seq(Answers)
      BY <1>0, <2>2, <3>3
    <3>5. pendingImages' \in [Urls -> Nat]
      BY <3>1, <3>2
    <3> QED
      BY <3>4, <3>5
  <2> QED
    BY <1>3, <2>3 DEF UrlFails, TypeOK, cacheVars
<1>4. ASSUME NEW t \in Things, CandidateLoads(t) PROVE TypeOK'
  <2>1. ItemShot(t, Head(walk[t])) \in Shots
    BY <1>0, <1>4 DEF CandidateLoads, ItemShot, Shots, ItemShots
  <2>2. Append(readyQueue, ItemShot(t, Head(walk[t]))) \in Seq(Shots)
    BY <1>0, <2>1
  <2>3. walk' \in [Things -> Seq(Urls)]
    BY <1>0, <1>4 DEF CandidateLoads
  <2> QED
    BY <1>4, <2>2, <2>3 DEF CandidateLoads, TypeOK, cacheVars, urlVars
<1>5. ASSUME NEW t \in Things, CandidateFails(t) PROVE TypeOK'
  <2>1. walk' \in [Things -> Seq(Urls)]
    BY <1>0, <1>5 DEF CandidateFails
  <2>2. answers' \in Seq(Answers) /\ pendingItem' \in [Things -> Nat]
    BY <1>5, AnswerItemTypes DEF CandidateFails, TypeOK
  <2> QED
    BY <1>5, <2>1, <2>2 DEF CandidateFails, TypeOK, cacheVars, urlVars
<1>6. ASSUME NEW s \in Shots, Settled(s) PROVE TypeOK'
  BY <1>6 DEF Settled, TypeOK, cacheVars, urlVars
<1> QED
  BY <1>1, <1>2, <1>3, <1>4, <1>5, <1>6 DEF Page, UrlEnds, CandidateEnds

\* What is captured has a url, and that of a thing a thing.
LEMMA ShotTypes ==
  ASSUME NEW s \in Shots
  PROVE  /\ s.url \in Urls
         /\ s.kind = "item" => s.thing \in Things
BY DEF Shots, UrlShots, ItemShots

\* Saving a capture and answering its requests keep the types.
LEMMA RenderAndSaveTypes ==
  ASSUME TypeOK, capture # NoShot, RenderAndSave
  PROVE  /\ disk' \subseteq Urls /\ pixels' \subseteq Urls
         /\ answers' \in Seq(Answers) /\ pendingItem' \in [Things -> Nat]
         /\ pendingImages' \in [Urls -> Nat]
<1>1. capture \in Shots
  BY DEF TypeOK
<1>2. capture.url \in Urls /\ (capture.kind = "item" => capture.thing \in Things)
  BY <1>1, ShotTypes
<1>3. AnswerAll(TRUE, capture.url) \in Seq(Answers)
  BY <1>2, AnswerTypes
<1>4. /\ disk \subseteq Urls /\ pixels \subseteq Urls
      /\ answers \in Seq(Answers) /\ pendingItem \in [Things -> Nat]
      /\ pendingImages \in [Urls -> Nat]
  BY DEF TypeOK
<1>5. CASE /\ capture.kind = "item"
           /\ Save(capture.url)
           /\ AnswerItem(TRUE, capture.thing, capture.url)
           /\ UNCHANGED pendingImages
  <2>1. answers' \in Seq(Answers) /\ pendingItem' \in [Things -> Nat]
    BY <1>2, <1>5, AnswerItemTypes
  <2> QED
    BY <1>2, <1>4, <1>5, <2>1 DEF Save
<1>6. CASE /\ capture.kind \in {"url", "file"}
           /\ IF capture.kind = "file" /\ capture.url \notin disk
              THEN UNCHANGED <<cacheVars, answers, pendingImages>>
              ELSE /\ Save(capture.url)
                   /\ answers' = AnswerAll(TRUE, capture.url)
                   /\ pendingImages' = [pendingImages EXCEPT ![capture.url] = 0]
           /\ UNCHANGED pendingItem
  <2>1. answers' = answers \/ answers' = AnswerAll(TRUE, capture.url)
    BY <1>6 DEF cacheVars
  <2>2. pendingImages' = pendingImages \/ pendingImages' = [pendingImages EXCEPT ![capture.url] = 0]
    BY <1>6 DEF cacheVars
  <2>3. (disk' = disk /\ pixels' = pixels) \/ Save(capture.url)
    BY <1>6 DEF cacheVars
  <2>4. disk' \subseteq Urls /\ pixels' \subseteq Urls
    BY <1>2, <1>4, <2>3 DEF Save
  <2>5. pendingImages' \in [Urls -> Nat]
    BY <1>2, <1>4, <2>2
  <2>6. answers' \in Seq(Answers)
    BY <1>3, <1>4, <2>1
  <2> QED
    BY <1>4, <1>6, <2>4, <2>5, <2>6
<1> QED
  BY <1>5, <1>6 DEF RenderAndSave

\* A frame of the loader keeps the types.
LEMMA UpdateKeepsTypes == TypeOK /\ Update => TypeOK'
<1> SUFFICES ASSUME TypeOK, Update PROVE TypeOK'
  OBVIOUS
<1>1. CASE Capture
  <2>1. /\ displayed' \in Shots \cup {NoShot} /\ readyQueue' \in Seq(Shots)
        /\ settling' \subseteq Shots
    BY <1>1, ShowTypes DEF Capture
  <2>2. /\ disk' \subseteq Urls /\ pixels' \subseteq Urls
        /\ answers' \in Seq(Answers) /\ pendingItem' \in [Things -> Nat]
        /\ pendingImages' \in [Urls -> Nat]
    BY <1>1, RenderAndSaveTypes DEF Capture
  <2> QED
    BY <1>1, <2>1, <2>2 DEF Capture, TypeOK
<1>2. CASE Show
  <2>1. /\ displayed' \in Shots \cup {NoShot} /\ readyQueue' \in Seq(Shots)
        /\ settling' \subseteq Shots
    BY <1>2, ShowTypes DEF Show, TypeOK
  <2> QED
    BY <1>2, <2>1 DEF Show, TypeOK, cacheVars, urlVars
<1> QED
  BY <1>1, <1>2 DEF Update

\* The callbacks keep the types.
LEMMA CompletionsKeepTypes == TypeOK /\ PromisesKept /\ ProcessCompletions => TypeOK'
<1> SUFFICES ASSUME TypeOK, PromisesKept, ProcessCompletions PROVE TypeOK'
  OBVIOUS
<1>1. objects' \in Seq(Object)
  <2>1. objects' = [i \in DOMAIN objects |-> Delivered(i)]
    BY DEF ProcessCompletions
  <2>2. objects \in Seq(Object)
    BY DEF TypeOK
  <2> QED
    BY <2>1, <2>2, DeliveredType
<1>2. promises' = pendingImages
  <2>1. ASSUME NEW u \in Urls PROVE promises[u] - Cardinality(PromiseAnswers(u)) = pendingImages[u]
    <3>1. PromiseAnswers(u) = AnswersFor(answers, u)
      BY DEF PromiseAnswers, AnswersFor
    <3>2. Cardinality(PromiseAnswers(u)) \in Nat
      BY <3>1, AnswersForFinite DEF TypeOK
    <3>3. promises[u] = pendingImages[u] + Cardinality(PromiseAnswers(u))
      BY DEF PromisesKept
    <3> QED
      BY <3>2, <3>3 DEF TypeOK
  <2>2. promises' = [u \in Urls |-> promises[u] - Cardinality(PromiseAnswers(u))]
    BY DEF ProcessCompletions
  <2>3. pendingImages \in [Urls -> Nat]
    BY DEF TypeOK
  <2> QED
    BY <2>1, <2>2, <2>3
<1>3. <<>> \in Seq(Answers)
  OBVIOUS
<1> QED
  BY <1>1, <1>2, <1>3 DEF ProcessCompletions, TypeOK, cacheVars, pageVars

-----------------------------------------------------------------------------
(* No promise is forgotten.                                                  *)

\* The requests of things do not count among the promises.
LEMMA AnswerItemCounts ==
  ASSUME TypeOK, NEW ok \in BOOLEAN, NEW t \in Things, NEW u \in Urls \cup {NoUrl},
         AnswerItem(ok, t, u), NEW v
  PROVE  Cardinality(PromiseAnswers(v)') = Cardinality(PromiseAnswers(v))
<1>1. PromiseAnswers(v) = AnswersFor(answers, v) /\ PromiseAnswers(v)' = AnswersFor(answers', v)
  BY DEF PromiseAnswers, AnswersFor
<1>2. CASE pendingItem[t] # 0
  <2> DEFINE x == ItemAnswer(ok, t, u)
  <2>1. x \in Answers /\ x.to = "object"
    BY <1>2, AnswerTypes DEF ItemAnswer
  <2>2. answers' = Append(answers, x)
    BY <1>2 DEF AnswerItem
  <2>3. answers \in Seq(Answers)
    BY DEF TypeOK
  <2> HIDE DEF x
  <2>4. Cardinality(AnswersFor(Append(answers, x), v)) =
          Cardinality(AnswersFor(answers, v)) + (IF x.to = "promise" /\ x.url = v THEN 1 ELSE 0)
    BY <2>1, <2>3, AnswerCounted
  <2>5. Cardinality(AnswersFor(answers, v)) \in Nat
    BY <2>3, AnswersForFinite
  <2> QED
    BY <1>1, <2>1, <2>2, <2>4, <2>5
<1>3. CASE pendingItem[t] = 0
  BY <1>1, <1>3 DEF AnswerItem
<1> QED
  BY <1>2, <1>3

\* Answering a url turns its callbacks into as many answers.
LEMMA AnswerAllKeepsPromises ==
  ASSUME TypeOK, PromisesKept, NEW ok \in BOOLEAN, NEW u \in Urls,
         answers' = AnswerAll(ok, u),
         pendingImages' = [pendingImages EXCEPT ![u] = 0],
         promises' = promises
  PROVE  PromisesKept'
<1> DEFINE q == answers \o Copies(pendingImages[u], UrlAnswer(ok, u))
<1>1. answers' = q
  BY DEF AnswerAll, Copies
<1>2. answers \in Seq(Answers) /\ pendingImages \in [Urls -> Nat]
  BY DEF TypeOK
<1>3. \A v : Cardinality(AnswersFor(q, v)) =
              Cardinality(AnswersFor(answers, v)) + (IF v = u THEN pendingImages[u] ELSE 0)
  BY <1>2, AllCounted
<1> HIDE DEF q
<1>4. ASSUME NEW v \in Urls
      PROVE  promises[v] = pendingImages'[v] + Cardinality(PromiseAnswers(v)')
  <2>1. PromiseAnswers(v) = AnswersFor(answers, v) /\ PromiseAnswers(v)' = AnswersFor(q, v)
    BY <1>1 DEF PromiseAnswers, AnswersFor
  <2>2. promises[v] = pendingImages[v] + Cardinality(AnswersFor(answers, v))
    BY <2>1 DEF PromisesKept
  <2>3. Cardinality(AnswersFor(answers, v)) \in Nat /\ pendingImages[v] \in Nat
    BY <1>2, AnswersForFinite
  <2>4. pendingImages'[v] = IF v = u THEN 0 ELSE pendingImages[v]
    BY <1>2
  <2>5. Cardinality(AnswersFor(q, v)) =
          Cardinality(AnswersFor(answers, v)) + (IF v = u THEN pendingImages[u] ELSE 0)
    BY <1>3
  <2>6. CASE v = u
    BY <2>1, <2>2, <2>3, <2>4, <2>5, <2>6
  <2>7. CASE v # u
    BY <2>1, <2>2, <2>3, <2>4, <2>5, <2>7
  <2> QED
    BY <2>6, <2>7
<1> QED
  BY <1>4 DEF PromisesKept

\* A promise is made with its request, or with its answer.
LEMMA GetCacheImageKeepsPromises ==
  ASSUME TypeOK, PromisesKept, NEW u \in Urls, GetCacheImage(u)
  PROVE  PromisesKept'
<1>0. /\ answers \in Seq(Answers) /\ pendingImages \in [Urls -> Nat]
      /\ promises \in [Urls -> Nat] /\ promises' = [promises EXCEPT ![u] = @ + 1]
  BY DEF TypeOK, GetCacheImage
<1>1. CASE answers' = answers /\ pendingImages' = [pendingImages EXCEPT ![u] = @ + 1]
  <2>1. ASSUME NEW v \in Urls
        PROVE  promises'[v] = pendingImages'[v] + Cardinality(PromiseAnswers(v)')
    <3>1. PromiseAnswers(v)' = PromiseAnswers(v) /\ PromiseAnswers(v) = AnswersFor(answers, v)
      BY <1>1 DEF PromiseAnswers, AnswersFor
    <3>2. Cardinality(PromiseAnswers(v)) \in Nat
      BY <1>0, <3>1, AnswersForFinite
    <3>3. promises[v] = pendingImages[v] + Cardinality(PromiseAnswers(v))
      BY DEF PromisesKept
    <3> QED
      BY <1>0, <1>1, <3>1, <3>2, <3>3
  <2> QED
    BY <2>1 DEF PromisesKept
<1>2. CASE answers' = Append(answers, UrlAnswer(TRUE, u)) /\ pendingImages' = pendingImages
  <2> DEFINE x == UrlAnswer(TRUE, u)
  <2>0. x \in Answers /\ x.to = "promise" /\ x.url = u
    BY AnswerTypes DEF UrlAnswer
  <2>1. answers' = Append(answers, x)
    BY <1>2
  <2> HIDE DEF x
  <2>2. ASSUME NEW v \in Urls
        PROVE  promises'[v] = pendingImages'[v] + Cardinality(PromiseAnswers(v)')
    <3>1. /\ PromiseAnswers(v)' = AnswersFor(Append(answers, x), v)
          /\ PromiseAnswers(v) = AnswersFor(answers, v)
      BY <2>1 DEF PromiseAnswers, AnswersFor
    <3>2. Cardinality(PromiseAnswers(v)) \in Nat
      BY <1>0, <3>1, AnswersForFinite
    <3>3. promises[v] = pendingImages[v] + Cardinality(PromiseAnswers(v))
      BY DEF PromisesKept
    <3>4. Cardinality(AnswersFor(Append(answers, x), v)) =
            Cardinality(AnswersFor(answers, v)) + (IF x.to = "promise" /\ x.url = v THEN 1 ELSE 0)
      BY <1>0, <2>0, AnswerCounted
    <3>5. promises'[v] = promises[v] + (IF v = u THEN 1 ELSE 0)
      BY <1>0
    <3>6. pendingImages'[v] = pendingImages[v] /\ pendingImages[v] \in Nat /\ promises[v] \in Nat
      BY <1>0, <1>2
    <3>7. CASE v = u
      BY <2>0, <3>1, <3>2, <3>3, <3>4, <3>5, <3>6, <3>7
    <3>8. CASE v # u
      BY <2>0, <3>1, <3>2, <3>3, <3>4, <3>5, <3>6, <3>8
    <3> QED
      BY <3>7, <3>8
  <2> QED
    BY <2>2 DEF PromisesKept
<1> QED
  BY <1>1, <1>2 DEF GetCacheImage

\* A step that touches neither promises nor requests of urls, nor the number of their
\* answers, keeps them matched.
LEMMA QuietKeepsPromises ==
  ASSUME PromisesKept, promises' = promises, pendingImages' = pendingImages,
         \A u \in Urls : Cardinality(PromiseAnswers(u)') = Cardinality(PromiseAnswers(u))
  PROVE  PromisesKept'
BY DEF PromisesKept

LEMMA NextKeepsPromises == TypeOK /\ PromisesKept /\ [Next]_vars => PromisesKept'
<1> SUFFICES ASSUME TypeOK, PromisesKept, [Next]_vars PROVE PromisesKept'
  OBVIOUS
<1>0. ASSUME promises' = promises, pendingImages' = pendingImages, answers' = answers
      PROVE  PromisesKept'
  BY <1>0, QuietKeepsPromises DEF PromiseAnswers
<1>1. CASE Customer
  <2>1. ASSUME NEW u \in Urls \ Snapshots, GetCacheImage(u) PROVE PromisesKept'
    BY <2>1, GetCacheImageKeepsPromises
  <2>2. CASE \E t \in Things, it \in Items : InitSpawnedObject(t, it)
    BY <1>0, <2>2 DEF InitSpawnedObject, urlVars
  <2>3. CASE \E i \in DOMAIN objects, t \in Things : ChangeModel(i, t)
    BY <1>0, <2>3 DEF ChangeModel, urlVars
  <2>4. CASE \E it \in Items, wipe \in BOOLEAN : RefreshItemTextures(it, wipe)
    BY <1>0, <2>4 DEF RefreshItemTextures, urlVars
  <2>5. CASE \E i \in DOMAIN objects : RemoveObject(i)
    BY <1>0, <2>5 DEF RemoveObject, urlVars
  <2>6. CASE ClearObjects
    BY <1>0, <2>6 DEF ClearObjects, urlVars
  <2>7. CASE \E it \in Items : SaveSnapshot(it)
    BY <1>0, <2>7 DEF SaveSnapshot, urlVars
  <2> QED
    BY <1>1, <2>1, <2>2, <2>3, <2>4, <2>5, <2>6, <2>7 DEF Customer
<1>2. CASE Page
  <2>1. CASE OnImageLoaderReady
    BY <1>0, <2>1 DEF OnImageLoaderReady, urlVars
  <2>2. CASE \E s \in UrlShots : UrlLoads(s)
    BY <1>0, <2>2 DEF UrlLoads, urlVars
  <2>3. ASSUME NEW s \in UrlShots, UrlFails(s) PROVE PromisesKept'
    <3>1. s.url \in Urls
      BY DEF UrlShots
    <3>2. CASE s.kind = "url"
      BY <2>3, <3>1, <3>2, AnswerAllKeepsPromises DEF UrlFails
    <3>3. CASE s.kind # "url"
      BY <1>0, <2>3, <3>3 DEF UrlFails
    <3> QED
      BY <3>2, <3>3
  <2>4. CASE \E t \in Things : CandidateLoads(t)
    BY <1>0, <2>4 DEF CandidateLoads, urlVars
  <2>5. ASSUME NEW t \in Things, CandidateFails(t) PROVE PromisesKept'
    <3>1. promises' = promises /\ pendingImages' = pendingImages
      BY <2>5 DEF CandidateFails, urlVars
    <3>2. CASE AnswerItem(FALSE, t, NoUrl)
      BY <3>1, <3>2, AnswerItemCounts, QuietKeepsPromises
    <3>3. CASE UNCHANGED <<answers, pendingItem>>
      BY <1>0, <3>1, <3>3
    <3> QED
      BY <2>5, <3>2, <3>3 DEF CandidateFails
  <2>6. CASE \E s \in Shots : Settled(s)
    BY <1>0, <2>6 DEF Settled, urlVars
  <2> QED
    BY <1>2, <2>1, <2>2, <2>3, <2>4, <2>5, <2>6 DEF Page, UrlEnds, CandidateEnds
<1>3. CASE Capture
  <2>0. capture # NoShot /\ RenderAndSave /\ promises' = promises
    BY <1>3 DEF Capture
  <2>1. capture \in Shots
    BY <2>0 DEF TypeOK
  <2>2. capture.url \in Urls /\ (capture.kind = "item" => capture.thing \in Things)
    BY <2>1, ShotTypes
  <2>3. CASE capture.kind = "item" /\ AnswerItem(TRUE, capture.thing, capture.url) /\ UNCHANGED pendingImages
    BY <2>0, <2>2, <2>3, AnswerItemCounts, QuietKeepsPromises
  <2>4. CASE UNCHANGED <<cacheVars, answers, pendingImages>>
    BY <1>0, <2>0, <2>4
  <2>5. CASE /\ answers' = AnswerAll(TRUE, capture.url)
             /\ pendingImages' = [pendingImages EXCEPT ![capture.url] = 0]
    BY <2>0, <2>2, <2>5, AnswerAllKeepsPromises
  <2> QED
    BY <2>0, <2>3, <2>4, <2>5 DEF RenderAndSave
<1>4. CASE Show
  BY <1>0, <1>4 DEF Show, urlVars
<1>5. CASE ProcessCompletions
  <2>1. ASSUME NEW u \in Urls
        PROVE  promises'[u] = pendingImages'[u] + Cardinality(PromiseAnswers(u)')
    <3>1. PromiseAnswers(u)' = {}
      BY <1>5 DEF ProcessCompletions, PromiseAnswers
    <3>2. Cardinality(PromiseAnswers(u)') = 0
      BY <3>1, FS_EmptySet
    <3>3. PromiseAnswers(u) = AnswersFor(answers, u)
      BY DEF PromiseAnswers, AnswersFor
    <3>4. Cardinality(PromiseAnswers(u)) \in Nat /\ pendingImages[u] \in Nat
      BY <3>3, AnswersForFinite DEF TypeOK
    <3>5. promises[u] = pendingImages[u] + Cardinality(PromiseAnswers(u))
      BY DEF PromisesKept
    <3>6. promises'[u] = promises[u] - Cardinality(PromiseAnswers(u)) /\ pendingImages' = pendingImages
      BY <1>5 DEF ProcessCompletions
    <3> QED
      BY <3>2, <3>4, <3>5, <3>6
  <2> QED
    BY <2>1 DEF PromisesKept
<1>6. CASE UNCHANGED vars
  BY <1>0, <1>6 DEF vars, urlVars
<1> QED
  BY <1>1, <1>2, <1>3, <1>4, <1>5, <1>6 DEF Next, Update

\* Types and promises hold together.
LEMMA PromisesAlways == Spec => [](TypeOK /\ PromisesKept)
<1>1. Init => PromisesKept
  <2> SUFFICES ASSUME Init, NEW u \in Urls PROVE promises[u] = pendingImages[u] + Cardinality(PromiseAnswers(u))
    BY DEF PromisesKept
  <2>1. PromiseAnswers(u) = {} /\ promises[u] = 0 /\ pendingImages[u] = 0
    BY DEF Init, PromiseAnswers
  <2> QED
    BY <2>1, FS_EmptySet
<1>2. TypeOK /\ PromisesKept /\ [Next]_vars => TypeOK'
  <2>1. TypeOK /\ UNCHANGED vars => TypeOK'
    BY DEF TypeOK, vars, cacheVars, urlVars, pageVars
  <2> QED
    BY <2>1, CustomerKeepsTypes, PageKeepsTypes, UpdateKeepsTypes, CompletionsKeepTypes DEF Next
<1> QED
  BY <1>1, <1>2, InitTypes, NextKeepsPromises, PTL DEF Spec

\* Every field of the loader, its page and its customers keeps its type; no counter of
\* waiting promises goes below zero.
THEOREM TypeCorrect == Spec => []TypeOK
BY PromisesAlways, PTL

\* Every promise made by getCacheImage waits for exactly one answer: in the callbacks
\* of its url, or in an answer queued for processCompletions.
THEOREM PromisesSafe == Spec => []PromisesKept
BY PromisesAlways, PTL

-----------------------------------------------------------------------------
(* One image on display.                                                     *)

\* Nothing settles or is captured but the image on display, and it does not settle any
\* more when it is captured.
ShowInv ==
  /\ \A s \in settling : displayed = s
  /\ capture # NoShot => displayed = capture /\ settling = {}

\* While nothing is on display nothing settles; so the next image settles alone.
LEMMA ShowKeepsShown ==
  ASSUME TypeOK, NEW shown, ShowNextReady(shown), capture' = NoShot,
         \A s \in settling : shown = s
  PROVE  ShowInv'
<1>1. NoShot \notin Shots
  BY DEF NoShot, Shots, UrlShots, ItemShots
<1>2. CASE shown = NoShot /\ readyQueue # <<>>
  <2>1. settling = {}
    BY <1>1, <1>2 DEF TypeOK
  <2> QED
    BY <1>2, <2>1 DEF ShowNextReady, ShowInv
<1>3. CASE ~ (shown = NoShot /\ readyQueue # <<>>)
  BY <1>3 DEF ShowNextReady, ShowInv
<1> QED
  BY <1>2, <1>3

LEMMA NextKeepsShown == TypeOK /\ ShowInv /\ [Next]_vars => ShowInv'
<1> SUFFICES ASSUME TypeOK, ShowInv, [Next]_vars PROVE ShowInv'
  OBVIOUS
<1>0. ASSUME settling' = settling, displayed' = displayed, capture' = capture
      PROVE  ShowInv'
  BY <1>0 DEF ShowInv
<1>1. CASE Customer
  <2>1. CASE \E u \in Urls \ Snapshots : GetCacheImage(u)
    BY <1>0, <2>1 DEF GetCacheImage
  <2>2. CASE \E t \in Things, it \in Items : InitSpawnedObject(t, it)
    BY <1>0, <2>2 DEF InitSpawnedObject
  <2>3. CASE \E i \in DOMAIN objects, t \in Things : ChangeModel(i, t)
    BY <1>0, <2>3 DEF ChangeModel
  <2>4. CASE \E it \in Items, wipe \in BOOLEAN : RefreshItemTextures(it, wipe)
    BY <1>0, <2>4 DEF RefreshItemTextures
  <2>5. CASE (\E i \in DOMAIN objects : RemoveObject(i)) \/ ClearObjects
    BY <1>0, <2>5 DEF RemoveObject, ClearObjects, pageVars
  <2>6. CASE \E it \in Items : SaveSnapshot(it)
    BY <1>0, <2>6 DEF SaveSnapshot, pageVars
  <2> QED
    BY <1>1, <2>1, <2>2, <2>3, <2>4, <2>5, <2>6 DEF Customer
<1>2. CASE Page
  <2>1. CASE OnImageLoaderReady
    BY <1>0, <2>1 DEF OnImageLoaderReady, pageVars
  <2>2. CASE \E s \in UrlShots : UrlEnds(s)
    BY <1>0, <2>2 DEF UrlEnds, UrlLoads, UrlFails
  <2>3. CASE \E t \in Things : CandidateEnds(t)
    BY <1>0, <2>3 DEF CandidateEnds, CandidateLoads, CandidateFails
  <2>4. CASE \E s \in Shots : Settled(s)
    BY <2>4 DEF Settled, ShowInv
  <2> QED
    BY <1>2, <2>1, <2>2, <2>3, <2>4 DEF Page
<1>3. CASE Capture
  <2>1. settling = {}
    BY <1>3 DEF Capture, ShowInv
  <2> QED
    BY <1>3, <2>1, ShowKeepsShown DEF Capture
<1>4. CASE Show
  BY <1>4, ShowKeepsShown DEF Show, ShowInv
<1>5. CASE ProcessCompletions
  BY <1>0, <1>5 DEF ProcessCompletions, pageVars
<1>6. CASE UNCHANGED vars
  BY <1>0, <1>6 DEF vars, pageVars
<1> QED
  BY <1>1, <1>2, <1>3, <1>4, <1>5, <1>6 DEF Next, Update

LEMMA ShownAlways == Spec => []ShowInv
<1>1. Init => ShowInv
  BY DEF Init, ShowInv
<1> QED
  BY <1>1, NextKeepsShown, TypeCorrect, PTL DEF Spec

\* A capture is a picture of what it is saved as: the page never changes what it shows
\* between onImageLoaded and renderAndSave.
THEOREM CaptureSafe == Spec => []CaptureIsShown
<1>1. ShowInv => CaptureIsShown
  BY DEF ShowInv, CaptureIsShown
<1> QED
  BY <1>1, ShownAlways, PTL

-----------------------------------------------------------------------------
(* Memory and files.                                                         *)

LEMMA NextKeepsFiles == PixelsHaveFile /\ [Next]_vars => PixelsHaveFile'
<1> SUFFICES ASSUME PixelsHaveFile, [Next]_vars PROVE PixelsHaveFile'
  OBVIOUS
<1>0. ASSUME disk' = disk, pixels' = pixels PROVE PixelsHaveFile'
  BY <1>0 DEF PixelsHaveFile
<1>s. ASSUME NEW u, Save(u) PROVE PixelsHaveFile'
  BY <1>s DEF Save, PixelsHaveFile
<1>1. CASE Customer
  <2>1. CASE \E u \in Urls \ Snapshots : GetCacheImage(u)
    BY <1>0, <2>1 DEF GetCacheImage, cacheVars
  <2>2. CASE \E t \in Things, it \in Items : InitSpawnedObject(t, it)
    BY <1>0, <2>2 DEF InitSpawnedObject, cacheVars
  <2>3. CASE \E i \in DOMAIN objects, t \in Things : ChangeModel(i, t)
    BY <1>0, <2>3 DEF ChangeModel, cacheVars
  <2>4. CASE \E it \in Items, wipe \in BOOLEAN : RefreshItemTextures(it, wipe)
    BY <2>4 DEF RefreshItemTextures, PixelsHaveFile
  <2>5. CASE (\E i \in DOMAIN objects : RemoveObject(i)) \/ ClearObjects
    BY <1>0, <2>5 DEF RemoveObject, ClearObjects, cacheVars
  <2>6. CASE \E it \in Items : SaveSnapshot(it)
    BY <2>6 DEF SaveSnapshot, PixelsHaveFile
  <2> QED
    BY <1>1, <2>1, <2>2, <2>3, <2>4, <2>5, <2>6 DEF Customer
<1>2. CASE Page
  <2>1. CASE OnImageLoaderReady
    BY <1>0, <2>1 DEF OnImageLoaderReady, cacheVars
  <2>2. CASE \E s \in UrlShots : UrlEnds(s)
    BY <1>0, <2>2 DEF UrlEnds, UrlLoads, UrlFails, cacheVars
  <2>3. CASE \E t \in Things : CandidateEnds(t)
    BY <1>0, <2>3 DEF CandidateEnds, CandidateLoads, CandidateFails, cacheVars
  <2>4. CASE \E s \in Shots : Settled(s)
    BY <1>0, <2>4 DEF Settled, cacheVars
  <2> QED
    BY <1>2, <2>1, <2>2, <2>3, <2>4 DEF Page
<1>3. CASE Capture
  <2>1. Save(capture.url) \/ UNCHANGED cacheVars
    BY <1>3 DEF Capture, RenderAndSave, cacheVars
  <2> QED
    BY <1>0, <1>s, <2>1 DEF cacheVars
<1>4. CASE Show
  BY <1>0, <1>4 DEF Show, cacheVars
<1>5. CASE ProcessCompletions
  BY <1>0, <1>5 DEF ProcessCompletions, cacheVars
<1>6. CASE UNCHANGED vars
  BY <1>0, <1>6 DEF vars, cacheVars
<1> QED
  BY <1>1, <1>2, <1>3, <1>4, <1>5, <1>6 DEF Next, Update

\* An image whose pixels are in memory has its cache file, whatever is saved and
\* refreshed: refreshItemTextures drops the pixels of every file it deletes.
THEOREM FilesSafe == Spec => []PixelsHaveFile
<1>1. Init => PixelsHaveFile
  BY DEF Init, PixelsHaveFile
<1> QED
  BY <1>1, NextKeepsFiles, PTL DEF Spec

-----------------------------------------------------------------------------
(* The row of images that have loaded.                                       *)

\* Shots differ from no shot, which is of no thing and of no url.
LEMMA NoShotFacts ==
  /\ NoShot \notin Shots
  /\ \A t : ~ForThing(NoShot, t)
  /\ \A u : ~ForUrl(NoShot, u)
BY DEF NoShot, Shots, UrlShots, ItemShots, ForThing, ForUrl

\* An image that has loaded goes to the end of the row.
LEMMA RowGrows ==
  ASSUME TypeOK, NEW x \in Shots, readyQueue' = Append(readyQueue, x), displayed' = displayed
  PROVE  \E n \in Nat : /\ n \notin Positions
                        /\ Positions' = Positions \cup {n}
                        /\ Hand(n)' = x
                        /\ \A k \in Positions : Hand(k)' = Hand(k)
<1>1. readyQueue \in Seq(Shots)
  BY DEF TypeOK
<1> PICK n \in Nat : n = Len(readyQueue) + 1
  BY <1>1
<1>2. /\ n \in Nat /\ n \notin Positions
      /\ Positions' = Positions \cup {n}
  BY <1>1 DEF Positions
<1>3. Hand(n)' = x
  <2>1. n # 0 /\ Append(readyQueue, x)[n] = x
    BY <1>1
  <2> QED
    BY <2>1 DEF Hand
<1>4. \A k \in Positions : Hand(k)' = Hand(k)
  BY <1>1 DEF Hand, Positions
<1> QED
  BY <1>2, <1>3, <1>4

\* When the display is free the row moves up by one.
LEMMA RowMoves ==
  ASSUME TypeOK, ShowNextReady(NoShot)
  PROVE  /\ \A k \in Positions' : Hand(k)' # NoShot =>
              k \in Nat /\ k + 1 \in Positions /\ Hand(k)' = Hand(k + 1)
         /\ \A k \in Positions : k # 0 =>
              k \in Nat /\ k - 1 \in Positions' /\ Hand(k - 1)' = Hand(k)
<1>1. readyQueue \in Seq(Shots)
  BY DEF TypeOK
<1>2. CASE readyQueue # <<>>
  <2>1. displayed' = readyQueue[1] /\ readyQueue' = Tail(readyQueue)
    BY <1>1, <1>2 DEF ShowNextReady
  <2>2. /\ Len(readyQueue) \in Nat \ {0}
        /\ Len(readyQueue') = Len(readyQueue) - 1
        /\ \A k \in 1 .. Len(readyQueue) - 1 : readyQueue'[k] = readyQueue[k + 1]
    BY <1>1, <1>2, <2>1
  <2>3. \A k \in Positions' : k \in Nat /\ k + 1 \in Positions /\ Hand(k)' = Hand(k + 1)
    BY <2>1, <2>2 DEF Hand, Positions
  <2>4. \A k \in Positions : k # 0 => k \in Nat /\ k - 1 \in Positions' /\ Hand(k - 1)' = Hand(k)
    BY <2>1, <2>2 DEF Hand, Positions
  <2> QED
    BY <2>3, <2>4
<1>3. CASE readyQueue = <<>>
  <2>1. displayed' = NoShot /\ readyQueue' = <<>>
    BY <1>3 DEF ShowNextReady
  <2> QED
    BY <1>3, <2>1 DEF Hand, Positions
<1> QED
  BY <1>2, <1>3

-----------------------------------------------------------------------------
(* One job for a thing.                                                      *)

Walking(t) == walk[t] # <<>>
Waiting(t) == \E k \in Positions : ForThing(Hand(k), t)
OneWaits(t) == \A j, k \in Positions : ForThing(Hand(j), t) /\ ForThing(Hand(k), t) => j = k

\* OneItemJob for one thing.
ItemJob(t) ==
  /\ pendingItem[t] # 0 <=> Walking(t) \/ Waiting(t)
  /\ ~(Walking(t) /\ Waiting(t))
  /\ OneWaits(t)

LEMMA ItemJobs == OneItemJob <=> \A t \in Things : ItemJob(t)
BY DEF OneItemJob, ItemJob, Walking, Waiting, OneWaits

\* A thing that is asked for gets a request, and a walk if it had none.
LEMMA RequestJob ==
  ASSUME NEW objs \in Seq(Object), NEW asked \in SUBSET DOMAIN objs,
         pendingItem \in [Things -> Nat], walk \in [Things -> Seq(Urls)],
         RequestChannelImages(objs, asked), NEW t \in Things
  PROVE  \/ walk'[t] = walk[t] /\ (pendingItem'[t] # 0 <=> pendingItem[t] # 0)
         \/ pendingItem[t] = 0 /\ pendingItem'[t] # 0 /\ walk'[t] # <<>>
<1> DEFINE Asking(r) == {i \in asked : objs[i].thing = r}
           One(r) == CHOOSE i \in Asking(r) : TRUE
<1>1. CASE ready /\ Asking(t) # {}
  <2>1. One(t) \in DOMAIN objs
    BY <1>1
  <2>2. One(t) # 0 /\ objs[One(t)] \in Object
    <3> HIDE DEF One
    <3>1. DOMAIN objs = 1 .. Len(objs) /\ \A i \in DOMAIN objs : objs[i] \in Object
      OBVIOUS
    <3> QED
      BY <2>1, <3>1
  <2>3. Candidates[objs[One(t)].item] # <<>>
    <3> HIDE DEF One
    <3> QED
      BY <2>2, CandidatesAssumption DEF Object
  <2>4. pendingItem'[t] = One(t)
    BY <1>1 DEF RequestChannelImages
  <2>5. walk'[t] = IF pendingItem[t] = 0 THEN Candidates[objs[One(t)].item] ELSE walk[t]
    BY <1>1 DEF RequestChannelImages
  <2> HIDE DEF One
  <2> QED
    BY <2>2, <2>3, <2>4, <2>5
<1>2. CASE ready /\ Asking(t) = {}
  <2>1. pendingItem'[t] = pendingItem[t] /\ walk'[t] = walk[t]
    BY <1>2 DEF RequestChannelImages
  <2> QED
    BY <2>1
<1>3. CASE ~ready
  BY <1>3 DEF RequestChannelImages
<1> QED
  BY <1>1, <1>2, <1>3

\* A request while the row stands still keeps the jobs.
LEMMA RequestKeepsJob ==
  ASSUME NEW t, ItemJob(t), readyQueue' = readyQueue, displayed' = displayed,
         \/ walk'[t] = walk[t] /\ (pendingItem'[t] # 0 <=> pendingItem[t] # 0)
         \/ pendingItem[t] = 0 /\ pendingItem'[t] # 0 /\ walk'[t] # <<>>
  PROVE  ItemJob(t)'
<1>1. Waiting(t)' <=> Waiting(t)
  BY DEF Waiting, Positions, Hand, ForThing
<1>2. OneWaits(t)' <=> OneWaits(t)
  BY DEF OneWaits, Positions, Hand, ForThing
<1> QED
  BY <1>1, <1>2 DEF ItemJob, Walking

\* An image that joins the row is that of a walk that ends, or of no thing.
LEMMA LoadKeepsJob ==
  ASSUME TypeOK, NEW t, ItemJob(t), NEW x \in Shots,
         readyQueue' = Append(readyQueue, x), displayed' = displayed,
         pendingItem' = pendingItem,
         IF ForThing(x, t) THEN walk[t] # <<>> /\ walk'[t] = <<>> ELSE walk'[t] = walk[t]
  PROVE  ItemJob(t)'
<1>1. PICK n \in Nat : /\ n \notin Positions
                      /\ Positions' = Positions \cup {n}
                      /\ Hand(n)' = x
                      /\ \A k \in Positions : Hand(k)' = Hand(k)
  BY RowGrows
<1>2. Waiting(t)' <=> Waiting(t) \/ ForThing(x, t)
  BY <1>1 DEF Waiting, ForThing
<1>3. ~ (Waiting(t) /\ ForThing(x, t))
  BY DEF ItemJob, Walking
<1>4. OneWaits(t)'
  BY <1>1, <1>3 DEF ItemJob, OneWaits, Waiting, ForThing
<1> QED
  BY <1>2, <1>3, <1>4 DEF ItemJob, Walking

\* When the row moves the job of what was on display is over, and no other.
LEMMA ShowKeepsJob ==
  ASSUME TypeOK, NEW t, ItemJob(t), ShowNextReady(NoShot), walk' = walk,
         IF ForThing(displayed, t) THEN pendingItem'[t] = 0
                                   ELSE pendingItem'[t] = pendingItem[t]
  PROVE  ItemJob(t)'
<1>1. /\ \A k \in Positions' : Hand(k)' # NoShot =>
           k \in Nat /\ k + 1 \in Positions /\ Hand(k)' = Hand(k + 1)
      /\ \A k \in Positions : k # 0 =>
           k \in Nat /\ k - 1 \in Positions' /\ Hand(k - 1)' = Hand(k)
  BY RowMoves
<1>2. \A k \in Positions' : ForThing(Hand(k)', t) =>
        k \in Nat /\ k + 1 \in Positions /\ ForThing(Hand(k + 1), t)
  BY <1>1, NoShotFacts
<1>3. 0 \in Positions /\ Hand(0) = displayed
  BY DEF Positions, Hand, TypeOK
<1>4. OneWaits(t)'
  <2>1. ASSUME NEW j \in Positions', NEW k \in Positions', ForThing(Hand(j)', t), ForThing(Hand(k)', t)
        PROVE  j = k
    <3>1. j \in Nat /\ k \in Nat /\ j + 1 = k + 1
      BY <1>2, <2>1 DEF ItemJob, OneWaits
    <3> QED
      BY <3>1
  <2> QED
    BY <2>1 DEF OneWaits, ForThing
<1>5. CASE ForThing(displayed, t)
  <2>1. ~Waiting(t)'
    <3>1. ASSUME NEW k \in Positions', ForThing(Hand(k)', t) PROVE FALSE
      <4>1. k \in Nat /\ k + 1 = 0
        BY <1>2, <1>3, <1>5, <3>1 DEF ItemJob, OneWaits
      <4> QED
        BY <4>1
    <3> QED
      BY <3>1 DEF Waiting, ForThing
  <2>2. ~Walking(t)
    BY <1>3, <1>5 DEF ItemJob, Waiting
  <2> QED
    BY <1>4, <1>5, <2>1, <2>2 DEF ItemJob, Walking
<1>6. CASE ~ForThing(displayed, t)
  <2>1. Waiting(t)' => Waiting(t)
    BY <1>2 DEF Waiting, ForThing
  <2>2. Waiting(t) => Waiting(t)'
    <3>1. ASSUME NEW k \in Positions, ForThing(Hand(k), t) PROVE Waiting(t)'
      <4>1. k # 0
        BY <1>3, <1>6, <3>1
      <4>2. k - 1 \in Positions' /\ ForThing(Hand(k - 1)', t)
        BY <1>1, <3>1, <4>1
      <4> QED
        BY <4>2 DEF Waiting, ForThing
    <3> QED
      BY <3>1 DEF Waiting
  <2> QED
    BY <1>4, <1>6, <2>1, <2>2 DEF ItemJob, Walking
<1> QED
  BY <1>5, <1>6

\* The row does not move while an image is on display, and moves when none is.
LEMMA RowStandsOrMoves ==
  ASSUME Show
  PROVE  \/ readyQueue' = readyQueue /\ displayed' = displayed
         \/ displayed = NoShot /\ ShowNextReady(NoShot)
BY DEF Show, ShowNextReady

LEMMA NextKeepsItemJobs == TypeOK /\ ShowInv /\ OneItemJob /\ [Next]_vars => OneItemJob'
<1> SUFFICES ASSUME TypeOK, ShowInv, OneItemJob, [Next]_vars, NEW t \in Things PROVE ItemJob(t)'
  <2>1. OneItemJob' <=> \A t \in Things : ItemJob(t)'
    BY DEF OneItemJob, ItemJob, Walking, Waiting, OneWaits, Positions, Hand, ForThing
  <2> QED
    BY <2>1
<1>j. ItemJob(t)
  BY ItemJobs
<1>0. ASSUME walk' = walk, pendingItem' = pendingItem, readyQueue' = readyQueue, displayed' = displayed
      PROVE  ItemJob(t)'
  BY <1>0, <1>j, RequestKeepsJob
<1>t. /\ objects \in Seq(Object) /\ pendingItem \in [Things -> Nat] /\ walk \in [Things -> Seq(Urls)]
  BY DEF TypeOK
<1>r. ASSUME NEW objs \in Seq(Object), NEW asked \in SUBSET DOMAIN objs,
             RequestChannelImages(objs, asked), readyQueue' = readyQueue, displayed' = displayed
      PROVE  ItemJob(t)'
  BY <1>r, <1>j, <1>t, RequestJob, RequestKeepsJob
<1>1. CASE Customer
  <2>1. CASE \E u \in Urls \ Snapshots : GetCacheImage(u)
    BY <1>0, <2>1 DEF GetCacheImage
  <2>2. ASSUME NEW r \in Things, NEW it \in Items, InitSpawnedObject(r, it) PROVE ItemJob(t)'
    <3> DEFINE objs == Append(objects, NewObject(r, it))
    <3>1. NewObject(r, it) \in Object
      BY DEF NewObject, Object
    <3>2. objs \in Seq(Object) /\ {Len(objects) + 1} \in SUBSET DOMAIN objs
      BY <1>t, <3>1
    <3> QED
      BY <1>r, <2>2, <3>2 DEF InitSpawnedObject
  <2>3. ASSUME NEW i \in DOMAIN objects, NEW r \in Things, ChangeModel(i, r) PROVE ItemJob(t)'
    <3> DEFINE objs == [objects EXCEPT ![i] = NewObject(r, objects[i].item)]
    <3>0. objects[i] \in Object
      BY <1>t
    <3>1. NewObject(r, objects[i].item) \in Object
      BY <3>0 DEF NewObject, Object
    <3>2. objs \in Seq(Object) /\ {i} \in SUBSET DOMAIN objs
      BY <1>t, <3>1
    <3> QED
      BY <1>r, <2>3, <3>2 DEF ChangeModel
  <2>4. ASSUME NEW it \in Items, NEW wipe \in BOOLEAN, RefreshItemTextures(it, wipe) PROVE ItemJob(t)'
    <3> DEFINE mine == {i \in DOMAIN objects : objects[i].item = it}
               objs == [i \in DOMAIN objects |-> IF i \in mine THEN [objects[i] EXCEPT !.path = NoUrl]
                                                              ELSE objects[i]]
    <3>1. objs \in Seq(Object) /\ mine \in SUBSET DOMAIN objs
      BY <1>t, ClearedPaths
    <3>2. RequestChannelImages(objs, mine) /\ readyQueue' = readyQueue /\ displayed' = displayed
      BY <2>4 DEF RefreshItemTextures
    <3> HIDE DEF mine, objs
    <3> QED
      BY <1>r, <3>1, <3>2
  <2>5. CASE (\E i \in DOMAIN objects : RemoveObject(i)) \/ ClearObjects
    BY <1>0, <2>5 DEF RemoveObject, ClearObjects, pageVars
  <2>6. CASE \E it \in Items : SaveSnapshot(it)
    BY <1>0, <2>6 DEF SaveSnapshot, pageVars
  <2> QED
    BY <1>1, <2>1, <2>2, <2>3, <2>4, <2>5, <2>6 DEF Customer
<1>2. CASE Page
  <2>1. CASE OnImageLoaderReady
    BY <1>0, <2>1 DEF OnImageLoaderReady, pageVars
  <2>2. ASSUME NEW s \in UrlShots, UrlLoads(s) PROVE ItemJob(t)'
    <3>1. s \in Shots /\ ~ForThing(s, t)
      BY DEF Shots, UrlShots, ForThing
    <3> QED
      BY <1>j, <2>2, <3>1, LoadKeepsJob DEF UrlLoads
  <2>3. CASE \E s \in UrlShots : UrlFails(s)
    BY <1>0, <2>3 DEF UrlFails
  <2>4. ASSUME NEW r \in Things, CandidateLoads(r) PROVE ItemJob(t)'
    <3> DEFINE x == ItemShot(r, Head(walk[r]))
    <3>1. x \in Shots /\ (ForThing(x, t) <=> r = t)
      BY <1>t, <2>4 DEF CandidateLoads, ItemShot, Shots, ItemShots, ForThing
    <3>2. walk[r] # <<>> /\ walk'[t] = IF r = t THEN <<>> ELSE walk[t]
      BY <1>t, <2>4 DEF CandidateLoads
    <3>3. readyQueue' = Append(readyQueue, x) /\ displayed' = displayed /\ pendingItem' = pendingItem
      BY <2>4 DEF CandidateLoads
    <3> HIDE DEF x
    <3> QED
      BY <1>j, <3>1, <3>2, <3>3, LoadKeepsJob
  <2>5. ASSUME NEW r \in Things, CandidateFails(r) PROVE ItemJob(t)'
    <3>1. /\ walk[r] # <<>> /\ walk' = [walk EXCEPT ![r] = Tail(@)]
          /\ readyQueue' = readyQueue /\ displayed' = displayed
      BY <2>5 DEF CandidateFails
    <3>2. Len(walk[r]) = 1 <=> Tail(walk[r]) = <<>>
      <4>1. walk[r] \in Seq(Urls)
        BY <1>t
      <4> QED
        BY <3>1, <4>1, LastOne
    <3>3. pendingItem'[t] = IF r = t /\ Len(walk[r]) = 1 THEN 0 ELSE pendingItem[t]
      BY <1>t, <2>5 DEF CandidateFails, AnswerItem
    <3>4. Waiting(t)' <=> Waiting(t)
      BY <3>1 DEF Waiting, Positions, Hand, ForThing
    <3>5. OneWaits(t)' <=> OneWaits(t)
      BY <3>1 DEF OneWaits, Positions, Hand, ForThing
    <3>6. walk'[t] = IF r = t THEN Tail(walk[t]) ELSE walk[t]
      BY <1>t, <3>1
    <3> QED
      BY <1>j, <3>1, <3>2, <3>3, <3>4, <3>5, <3>6 DEF ItemJob, Walking
  <2>6. CASE \E s \in Shots : Settled(s)
    BY <1>0, <2>6 DEF Settled
  <2> QED
    BY <1>2, <2>1, <2>2, <2>3, <2>4, <2>5, <2>6 DEF Page, UrlEnds, CandidateEnds
<1>3. CASE Capture
  <2>1. /\ capture # NoShot /\ displayed = capture /\ RenderAndSave
        /\ ShowNextReady(NoShot) /\ walk' = walk
    BY <1>3 DEF Capture, ShowInv
  <2>2. capture \in Shots
    BY <2>1 DEF TypeOK
  <2>3. CASE capture.kind = "item"
    <3>1. AnswerItem(TRUE, capture.thing, capture.url)
      BY <2>1, <2>3 DEF RenderAndSave
    <3>2. ForThing(displayed, t) <=> t = capture.thing
      BY <2>1, <2>3 DEF ForThing
    <3>3. pendingItem'[t] = IF t = capture.thing THEN 0 ELSE pendingItem[t]
      BY <1>t, <3>1 DEF AnswerItem
    <3> QED
      BY <1>j, <2>1, <3>2, <3>3, ShowKeepsJob
  <2>4. CASE capture.kind # "item"
    <3>1. pendingItem' = pendingItem
      BY <2>1, <2>4 DEF RenderAndSave
    <3>2. ~ForThing(displayed, t)
      BY <2>1, <2>4 DEF ForThing
    <3> QED
      BY <1>j, <2>1, <3>1, <3>2, ShowKeepsJob
  <2> QED
    BY <2>3, <2>4
<1>4. CASE Show
  <2>1. walk' = walk /\ pendingItem' = pendingItem
    BY <1>4 DEF Show
  <2>2. CASE readyQueue' = readyQueue /\ displayed' = displayed
    BY <1>0, <2>1, <2>2
  <2>3. CASE displayed = NoShot /\ ShowNextReady(NoShot)
    BY <1>j, <2>1, <2>3, NoShotFacts, ShowKeepsJob
  <2> QED
    BY <1>4, <2>2, <2>3, RowStandsOrMoves
<1>5. CASE ProcessCompletions
  BY <1>0, <1>5 DEF ProcessCompletions, pageVars
<1>6. CASE UNCHANGED vars
  BY <1>0, <1>6 DEF vars, pageVars
<1> QED
  BY <1>1, <1>2, <1>3, <1>4, <1>5, <1>6 DEF Next, Update

\* The request of a thing is pending exactly while the page works for it, in one place:
\* requestItemChannel never starts a second walk, and onImageLoaded and renderAndSave
\* end the request with the job.
THEOREM ItemJobsSafe == Spec => []OneItemJob
<1>1. Init => OneItemJob
  BY NoShotFacts DEF Init, OneItemJob, Positions, Hand
<1> QED
  BY <1>1, NextKeepsItemJobs, TypeCorrect, ShownAlways, PTL DEF Spec

-----------------------------------------------------------------------------
(* One job for a url.                                                        *)

Loading(u) == \E s \in loading : s.url = u
OneLoads(u) == \A r, s \in loading : r.url = u /\ s.url = u => r = s
Loaded(u) == \E k \in Positions : ForUrl(Hand(k), u)
OneLoaded(u) == \A j, k \in Positions : ForUrl(Hand(j), u) /\ ForUrl(Hand(k), u) => j = k

\* OneUrlJob for one url.
UrlJob(u) ==
  /\ Loading(u) \/ Loaded(u) => pendingImages[u] # 0
  /\ ~(Loading(u) /\ Loaded(u))
  /\ OneLoads(u)
  /\ OneLoaded(u)

LEMMA UrlJobs == OneUrlJob <=> \A u \in Urls : UrlJob(u)
BY DEF OneUrlJob, UrlJob, Loading, Loaded, OneLoads, OneLoaded

\* While the row stands still jobs may end.
LEMMA EndKeepsUrlJob ==
  ASSUME NEW u, UrlJob(u), readyQueue' = readyQueue, displayed' = displayed,
         loading' \subseteq loading,
         Loading(u)' \/ Loaded(u) => pendingImages'[u] = pendingImages[u]
  PROVE  UrlJob(u)'
<1>1. (Loaded(u)' <=> Loaded(u)) /\ (OneLoaded(u)' <=> OneLoaded(u))
  BY DEF Loaded, OneLoaded, Positions, Hand, ForUrl
<1>2. (Loading(u)' => Loading(u)) /\ (OneLoads(u) => OneLoads(u)')
  BY DEF Loading, OneLoads
<1> QED
  BY <1>1, <1>2 DEF UrlJob

\* And one may begin for a url no callback waited for.
LEMMA BeginKeepsUrlJob ==
  ASSUME NEW u, UrlJob(u), readyQueue' = readyQueue, displayed' = displayed,
         pendingImages[u] = 0, pendingImages'[u] # 0,
         NEW x, loading' \subseteq loading \cup {x}
  PROVE  UrlJob(u)'
<1>1. (Loaded(u)' <=> Loaded(u)) /\ (OneLoaded(u)' <=> OneLoaded(u))
  BY DEF Loaded, OneLoaded, Positions, Hand, ForUrl
<1>2. ~Loading(u) /\ ~Loaded(u)
  BY DEF UrlJob
<1>3. OneLoads(u)'
  BY <1>2 DEF Loading, OneLoads
<1> QED
  BY <1>1, <1>2, <1>3 DEF UrlJob

\* An image that joins the row leaves the jobs, if it was one of a url.
LEMMA LoadKeepsUrlJob ==
  ASSUME TypeOK, NEW u, UrlJob(u), NEW x \in Shots,
         readyQueue' = Append(readyQueue, x), displayed' = displayed,
         pendingImages' = pendingImages, loading' = loading \ {x},
         ForUrl(x, u) => x \in loading
  PROVE  UrlJob(u)'
<1>1. PICK n \in Nat : /\ n \notin Positions
                      /\ Positions' = Positions \cup {n}
                      /\ Hand(n)' = x
                      /\ \A k \in Positions : Hand(k)' = Hand(k)
  BY RowGrows
<1>2. Loaded(u)' <=> Loaded(u) \/ ForUrl(x, u)
  BY <1>1 DEF Loaded, ForUrl
<1>3. ForUrl(x, u) => Loading(u) /\ ~Loaded(u)
  BY DEF UrlJob, Loading, ForUrl
<1>4. OneLoaded(u)'
  BY <1>1, <1>3 DEF UrlJob, OneLoaded, Loaded, ForUrl
<1>5. Loading(u)' => Loading(u) /\ ~ForUrl(x, u)
  BY DEF Loading, UrlJob, OneLoads, ForUrl
<1>6. OneLoads(u)'
  BY DEF UrlJob, OneLoads
<1> QED
  BY <1>2, <1>3, <1>4, <1>5, <1>6 DEF UrlJob

\* When the row moves what was on display is over, and only its callbacks may be.
LEMMA ShowKeepsUrlJob ==
  ASSUME TypeOK, NEW u, UrlJob(u), ShowNextReady(NoShot), loading' = loading,
         ForUrl(displayed, u) \/ pendingImages'[u] = pendingImages[u]
  PROVE  UrlJob(u)'
<1>1. \A k \in Positions' : Hand(k)' # NoShot =>
        k \in Nat /\ k + 1 \in Positions /\ Hand(k)' = Hand(k + 1)
  BY RowMoves
<1>2. \A k \in Positions' : ForUrl(Hand(k)', u) =>
        k \in Nat /\ k + 1 \in Positions /\ ForUrl(Hand(k + 1), u)
  BY <1>1, NoShotFacts
<1>3. 0 \in Positions /\ Hand(0) = displayed
  BY DEF Positions, Hand, TypeOK
<1>4. OneLoaded(u)'
  <2>1. ASSUME NEW j \in Positions', NEW k \in Positions', ForUrl(Hand(j)', u), ForUrl(Hand(k)', u)
        PROVE  j = k
    <3>1. j \in Nat /\ k \in Nat /\ j + 1 = k + 1
      BY <1>2, <2>1 DEF UrlJob, OneLoaded
    <3> QED
      BY <3>1
  <2> QED
    BY <2>1 DEF OneLoaded, ForUrl
<1>5. Loaded(u)' => Loaded(u) /\ ~ForUrl(displayed, u)
  <2>1. ASSUME NEW k \in Positions', ForUrl(Hand(k)', u) PROVE Loaded(u) /\ ~ForUrl(displayed, u)
    <3>1. Loaded(u)
      BY <1>2, <2>1 DEF Loaded
    <3>2. ASSUME ForUrl(displayed, u) PROVE FALSE
      <4>1. k \in Nat /\ k + 1 = 0
        BY <1>2, <1>3, <2>1, <3>2 DEF UrlJob, OneLoaded
      <4> QED
        BY <4>1
    <3> QED
      BY <3>1, <3>2
  <2> QED
    BY <2>1 DEF Loaded, ForUrl
<1>6. Loading(u) => ~ForUrl(displayed, u)
  BY <1>3 DEF UrlJob, Loaded
<1>7. (Loading(u)' <=> Loading(u)) /\ (OneLoads(u)' <=> OneLoads(u))
  BY DEF Loading, OneLoads
<1> QED
  BY <1>4, <1>5, <1>6, <1>7 DEF UrlJob

LEMMA NextKeepsUrlJobs == TypeOK /\ ShowInv /\ OneUrlJob /\ [Next]_vars => OneUrlJob'
<1> SUFFICES ASSUME TypeOK, ShowInv, OneUrlJob, [Next]_vars, NEW u \in Urls PROVE UrlJob(u)'
  <2>1. OneUrlJob' <=> \A v \in Urls : UrlJob(v)'
    BY DEF OneUrlJob, UrlJob, Loading, Loaded, OneLoads, OneLoaded, Positions, Hand, ForUrl
  <2> QED
    BY <2>1
<1>j. UrlJob(u)
  BY UrlJobs
<1>0. ASSUME loading' = loading, pendingImages' = pendingImages, readyQueue' = readyQueue,
             displayed' = displayed
      PROVE  UrlJob(u)'
  <2>1. loading' \subseteq loading
    BY <1>0
  <2>2. pendingImages'[u] = pendingImages[u]
    BY <1>0
  <2> QED
    BY <1>0, <1>j, <2>1, <2>2, EndKeepsUrlJob
<1>t. pendingImages \in [Urls -> Nat] /\ loading \subseteq UrlShots
  BY DEF TypeOK
<1>1. CASE Customer
  <2>1. ASSUME NEW v \in Urls \ Snapshots, GetCacheImage(v) PROVE UrlJob(u)'
    <3>1. readyQueue' = readyQueue /\ displayed' = displayed
      BY <2>1 DEF GetCacheImage
    <3>2. CASE pendingImages' = pendingImages /\ loading' = loading
      BY <1>0, <3>1, <3>2
    <3>3. CASE pendingImages' = [pendingImages EXCEPT ![v] = @ + 1] /\ loading' = SendUrl(v)
      <4>1. PICK x : x.url = v /\ SendUrl(v) \subseteq loading \cup {x}
        <5>1. \A k : UrlShot(k, v).url = v
          BY DEF UrlShot
        <5>2. \/ SendUrl(v) \subseteq loading \cup {UrlShot("file", v)}
              \/ SendUrl(v) \subseteq loading \cup {UrlShot("url", v)}
          BY DEF SendUrl
        <5> QED
          BY <5>1, <5>2
      <4>2. pendingImages[v] # 0 => loading' = loading
        BY <3>3 DEF SendUrl
      <4>3. pendingImages'[u] = IF u = v THEN pendingImages[u] + 1 ELSE pendingImages[u]
        BY <1>t, <3>3
      <4>4. CASE u = v
        <5>1. pendingImages[u] \in Nat /\ pendingImages'[u] # 0
          BY <1>t, <4>3, <4>4
        <5> QED
          <6>1. CASE pendingImages[u] = 0
            BY <1>j, <3>1, <3>3, <4>1, <5>1, <6>1, BeginKeepsUrlJob
          <6>2. CASE pendingImages[u] # 0
            <7>1. (Loading(u)' <=> Loading(u)) /\ (OneLoads(u) <=> OneLoads(u)')
              BY <4>2, <4>4, <6>2 DEF Loading, OneLoads
            <7>2. (Loaded(u)' <=> Loaded(u)) /\ (OneLoaded(u)' <=> OneLoaded(u))
              BY <3>1 DEF Loaded, OneLoaded, Positions, Hand, ForUrl
            <7> QED
              BY <1>j, <5>1, <7>1, <7>2 DEF UrlJob
          <6> QED
            BY <6>1, <6>2
      <4>5. CASE u # v
        <5>1. (Loading(u)' => Loading(u)) /\ (OneLoads(u) => OneLoads(u)')
          BY <3>3, <4>1, <4>5 DEF Loading, OneLoads
        <5>2. (Loaded(u)' <=> Loaded(u)) /\ (OneLoaded(u)' <=> OneLoaded(u))
          BY <3>1 DEF Loaded, OneLoaded, Positions, Hand, ForUrl
        <5> QED
          BY <1>j, <4>3, <4>5, <5>1, <5>2 DEF UrlJob
      <4> QED
        BY <4>4, <4>5
    <3> QED
      BY <2>1, <3>2, <3>3 DEF GetCacheImage
  <2>2. CASE \E t \in Things, it \in Items : InitSpawnedObject(t, it)
    BY <1>0, <2>2 DEF InitSpawnedObject, urlVars
  <2>3. CASE \E i \in DOMAIN objects, t \in Things : ChangeModel(i, t)
    BY <1>0, <2>3 DEF ChangeModel, urlVars
  <2>4. CASE \E it \in Items, wipe \in BOOLEAN : RefreshItemTextures(it, wipe)
    BY <1>0, <2>4 DEF RefreshItemTextures, urlVars
  <2>5. CASE (\E i \in DOMAIN objects : RemoveObject(i)) \/ ClearObjects
    BY <1>0, <2>5 DEF RemoveObject, ClearObjects, pageVars, urlVars
  <2>6. CASE \E it \in Items : SaveSnapshot(it)
    BY <1>0, <2>6 DEF SaveSnapshot, pageVars, urlVars
  <2> QED
    BY <1>1, <2>1, <2>2, <2>3, <2>4, <2>5, <2>6 DEF Customer
<1>2. CASE Page
  <2>1. CASE OnImageLoaderReady
    BY <1>0, <2>1 DEF OnImageLoaderReady, pageVars, urlVars
  <2>2. ASSUME NEW s \in UrlShots, UrlLoads(s) PROVE UrlJob(u)'
    <3>1. s \in Shots
      BY DEF Shots
    <3> QED
      BY <1>j, <2>2, <3>1, LoadKeepsUrlJob DEF UrlLoads, urlVars
  <2>3. ASSUME NEW s \in UrlShots, UrlFails(s) PROVE UrlJob(u)'
    <3>1. /\ s \in loading /\ loading' = loading \ {s}
          /\ readyQueue' = readyQueue /\ displayed' = displayed
      BY <2>3 DEF UrlFails
    <3>2. pendingImages'[u] = pendingImages[u] \/ s.url = u
      BY <1>t, <2>3 DEF UrlFails
    <3>3. s.url = u => ~Loading(u)' /\ ~Loaded(u)
      BY <1>j, <3>1 DEF UrlJob, Loading, OneLoads
    <3>4. loading' \subseteq loading
      BY <3>1
    <3> QED
      BY <1>j, <3>1, <3>2, <3>3, <3>4, EndKeepsUrlJob
  <2>4. ASSUME NEW t \in Things, CandidateLoads(t) PROVE UrlJob(u)'
    <3> DEFINE x == ItemShot(t, Head(walk[t]))
    <3>1. x \in Shots /\ ~ForUrl(x, u) /\ x \notin UrlShots
      <4>1. walk[t] \in Seq(Urls) /\ walk[t] # <<>>
        BY <2>4 DEF CandidateLoads, TypeOK
      <4>2. Head(walk[t]) \in Urls
        BY <4>1
      <4> QED
        BY <4>2 DEF ItemShot, Shots, ItemShots, UrlShots, ForUrl
    <3>2. /\ readyQueue' = Append(readyQueue, x) /\ displayed' = displayed
          /\ pendingImages' = pendingImages /\ loading' = loading
      BY <2>4 DEF CandidateLoads, urlVars
    <3> HIDE DEF x
    <3>3. loading' = loading \ {x}
      BY <1>t, <3>1, <3>2
    <3> QED
      BY <1>j, <3>1, <3>2, <3>3, LoadKeepsUrlJob
  <2>5. CASE \E t \in Things : CandidateFails(t)
    BY <1>0, <2>5 DEF CandidateFails, urlVars
  <2>6. CASE \E s \in Shots : Settled(s)
    BY <1>0, <2>6 DEF Settled, urlVars
  <2> QED
    BY <1>2, <2>1, <2>2, <2>3, <2>4, <2>5, <2>6 DEF Page, UrlEnds, CandidateEnds
<1>3. CASE Capture
  <2>1. /\ capture # NoShot /\ displayed = capture /\ RenderAndSave
        /\ ShowNextReady(NoShot) /\ loading' = loading
    BY <1>3 DEF Capture, ShowInv
  <2>2. capture.kind \in {"url", "file"} /\ capture.url = u => ForUrl(displayed, u)
    BY <2>1 DEF ForUrl
  <2>3. \/ pendingImages' = pendingImages
        \/ /\ capture.kind \in {"url", "file"}
           /\ pendingImages' = [pendingImages EXCEPT ![capture.url] = 0]
    BY <2>1 DEF RenderAndSave
  <2>4. ForUrl(displayed, u) \/ pendingImages'[u] = pendingImages[u]
    BY <1>t, <2>2, <2>3
  <2> QED
    BY <1>j, <2>1, <2>4, ShowKeepsUrlJob
<1>4. CASE Show
  <2>1. loading' = loading /\ pendingImages' = pendingImages
    BY <1>4 DEF Show, urlVars
  <2>2. CASE readyQueue' = readyQueue /\ displayed' = displayed
    BY <1>0, <2>1, <2>2
  <2>3. CASE displayed = NoShot /\ ShowNextReady(NoShot)
    BY <1>j, <2>1, <2>3, ShowKeepsUrlJob
  <2> QED
    BY <1>4, <2>2, <2>3, RowStandsOrMoves
<1>5. CASE ProcessCompletions
  BY <1>0, <1>5 DEF ProcessCompletions, pageVars
<1>6. CASE UNCHANGED vars
  BY <1>0, <1>6 DEF vars, pageVars, urlVars
<1> QED
  BY <1>1, <1>2, <1>3, <1>4, <1>5, <1>6 DEF Next, Update

\* The page has at most one job or image for a url, whatever callbacks were joined, and
\* none for a url without callbacks: loadAndCacheImage sends only the first request.
THEOREM UrlJobsSafe == Spec => []OneUrlJob
<1>1. Init => OneUrlJob
  BY NoShotFacts DEF Init, OneUrlJob, Positions, Hand
<1> QED
  BY <1>1, NextKeepsUrlJobs, TypeCorrect, ShownAlways, PTL DEF Spec

=============================================================================
