------------------------- MODULE ItemInstancesProofs -------------------------
(* Proofs about ItemInstances: for any items, browsers and things and any    *)
(* bounds, the variables keep their types, the task table agrees with the    *)
(* items, at most one libretro instance lives, what is full screen or takes  *)
(* input is alive, no menu covers a full-screen browser, the core is in      *)
(* spawn mode whenever the host is, erasing keeps the selection, and objects *)
(* of one item hand its instance over.                                       *)
EXTENDS ItemInstances, SequenceTheorems, WellFoundedInduction, TLAPS

-----------------------------------------------------------------------------
(* The least element of a set of numbers, for the slots and for FirstOf.     *)

\* A non-empty set of naturals has a least element.
LEMMA LeastExists ==
  ASSUME NEW S \in SUBSET Nat, S # {}
  PROVE  \E k \in S : \A l \in S : k <= l
<1>1. \E k \in S : \A l \in S : ~ (<<l, k>> \in OpToRel(<, Nat))
  BY NatLessThanWellFounded, WFMin
<1>2. PICK k \in S : \A l \in S : ~ (<<l, k>> \in OpToRel(<, Nat))
  BY <1>1
<1>3. \A l \in S : ~ (l < k)
  BY <1>2 DEF OpToRel
<1>4. \A l \in S : l \in Nat /\ k \in Nat
  OBVIOUS
<1>5. \A l \in S : k <= l
  BY <1>3, <1>4
<1> QED
  BY <1>5

\* addTask takes a freed slot, else the one behind the last.
LEMMA TaskSlotType ==
  ASSUME NEW tasks \in Seq(Browsers \cup {NoInstance})
  PROVE  /\ TaskSlot(tasks) \in Nat
         /\ FreeSlots(tasks) # {} => TaskSlot(tasks) \in FreeSlots(tasks)
<1>1. FreeSlots(tasks) \in SUBSET Nat /\ Len(tasks) \in Nat
  BY DEF FreeSlots
<1>2. FreeSlots(tasks) # {} =>
        \E k \in FreeSlots(tasks) : \A l \in FreeSlots(tasks) : k <= l
  BY <1>1, LeastExists
<1> QED
  BY <1>1, <1>2 DEF TaskSlot

\* The first object that shows an item exists when one does.
LEMMA FirstOfPlaced ==
  ASSUME NEW i, objects \in Seq(Object), Placed(i)
  PROVE  FirstOf(i) \in DOMAIN objects /\ objects[FirstOf(i)].item = i
<1> DEFINE S == {k \in DOMAIN objects : objects[k].item = i}
<1>1. S \in SUBSET Nat /\ S # {}
  BY DEF Placed
<1>2. PICK k \in S : \A l \in S : k <= l
  BY <1>1, LeastExists
<1>3. \A l \in 1 .. k - 1 : objects[l].item # i
  BY <1>2
<1> QED
  BY <1>2, <1>3 DEF FirstOf

-----------------------------------------------------------------------------
(* Types of the operators.                                                   *)

\* Every operation on the HUD keeps the types of its parts.
LEMMA HudTypes ==
  ASSUME NEW h \in HudState
  PROVE  /\ MenuClosed(h) \in HudState /\ Windowed(h) \in HudState
         /\ SpawnModeEntered(h) \in HudState /\ SpawnModeLeft(h) \in HudState
         /\ DeselectOnly(h) \in HudState
         /\ [DeselectOnly(h) EXCEPT !.menu = TRUE, !.page = "menu"] \in HudState
         /\ [h EXCEPT !.input = NoInstance] \in HudState
         /\ \A b \in Browsers : FullScreen(h, b) \in HudState
         /\ \A b \in Browsers \cup {Hud} : (b = Hud => h.spawn) => InputFor(h, b) \in HudState
<1> USE DEF HudState
<1>1. MenuClosed(h) \in HudState /\ Windowed(h) \in HudState
  BY DEF MenuClosed, Windowed
<1>2. SpawnModeEntered(h) \in HudState /\ SpawnModeLeft(h) \in HudState
  BY DEF SpawnModeEntered, SpawnModeLeft, MenuClosed
<1>3. /\ DeselectOnly(h) \in HudState
      /\ [DeselectOnly(h) EXCEPT !.menu = TRUE, !.page = "menu"] \in HudState
      /\ [h EXCEPT !.input = NoInstance] \in HudState
  BY DEF DeselectOnly, Windowed
<1>4. \A b \in Browsers : FullScreen(h, b) \in HudState
  BY DEF FullScreen
<1>5. \A b \in Browsers \cup {Hud} : (b = Hud => h.spawn) => InputFor(h, b) \in HudState
  BY DEF InputFor
<1> QED
  BY <1>1, <1>2, <1>3, <1>4, <1>5

\* Closing instances keeps the types.
LEMMA ClosedTypes ==
  ASSUME NEW h \in HudState, NEW r \in Run, NEW S
  PROVE  Closed(r, S) \in Run /\ Released(h, r, S) \in HudState
<1>1. Closed(r, S) \in Run
  BY DEF Closed, Run, Gone, Instance, Idle
<1>2. Released(h, r, S) \in HudState
  BY DEF Released, HudState, Gone, Run, Instance
<1> QED
  BY <1>1, <1>2

\* Starting an instance keeps the types.
LEMMA StartedType ==
  ASSUME NEW r \in Run, NEW i \in Items, NEW b \in Browsers,
         NEW kind \in {"libretro", "other"}
  PROVE  Started(r, i, b, kind) \in Run
<1>1. r.tasks \in Seq(Browsers \cup {NoInstance})
  BY DEF Run
<1>2. TaskSlot(r.tasks) \in Nat
      /\ (FreeSlots(r.tasks) # {} => TaskSlot(r.tasks) \in DOMAIN r.tasks)
  BY <1>1, TaskSlotType DEF FreeSlots
<1>3. AddTask(r.tasks, b) \in Seq(Browsers \cup {NoInstance})
  BY <1>1, <1>2 DEF AddTask
<1>4. [r.inst EXCEPT ![i] = [active |-> TRUE, browser |-> b, task |-> TaskSlot(r.tasks)]]
        \in [Items -> Instance]
  BY <1>2 DEF Run, Instance
<1>5. [r.memory EXCEPT ![b] = kind] \in [Browsers -> {"free", "libretro", "other"}]
  BY DEF Run
<1> QED
  BY <1>3, <1>4, <1>5 DEF Started, Run

\* Whatever comes of ensureItemInstance keeps the types.
LEMMA EnsuredType ==
  ASSUME NEW r \in Run, NEW i \in Items \cup {NoItem}, NEW q \in Ensured(r, i)
  PROVE  q \in Run
<1>1. CASE q = r
  BY <1>1
<1>2. CASE i \in Items /\ q = [r EXCEPT !.inst[i] = Screenless]
  BY <1>2 DEF Run, Instance, Screenless
<1>3. CASE i \in Items /\ \E b \in Browsers, k \in {"libretro", "other"} : q = Started(r, i, b, k)
  BY <1>3, StartedType
<1> QED
  BY <1>1, <1>2, <1>3 DEF Ensured

-----------------------------------------------------------------------------
(* Types of what the actions share.                                          *)

\* Objects show items; masters are objects.
LEMMA ObjectFacts ==
  ASSUME TypeOK
  PROVE  /\ \A k : ItemOf(k) \in Items \cup {NoItem}
         /\ \A k : ItemOf(k) # NoItem => k \in DOMAIN objects
         /\ \A k : BrowserOf(k) \in Browsers \cup {NoInstance}
         /\ \A k \in DOMAIN objects : Masters(k) \subseteq DOMAIN objects
<1> USE DEF TypeOK
<1>1. ASSUME NEW k \in DOMAIN objects PROVE objects[k].item \in Items \cup {NoItem}
  <2>1. objects[k] \in Object
    OBVIOUS
  <2> QED
    BY <2>1 DEF Object
<1>2. \A k : /\ ItemOf(k) \in Items \cup {NoItem}
             /\ ItemOf(k) # NoItem => k \in DOMAIN objects
  BY <1>1 DEF ItemOf
<1>3. \A k : BrowserOf(k) \in Browsers \cup {NoInstance}
  BY <1>2 DEF BrowserOf, IsActive, Run, Instance
<1>4. ASSUME NEW k \in DOMAIN objects, NEW m \in Masters(k) PROVE m \in DOMAIN objects
  <2>1. CASE m = k
    BY <2>1
  <2>2. CASE IsActive(ItemOf(selected)) /\ m = selected
    BY <2>2, <1>2, NamesAssumption DEF IsActive
  <2>3. CASE \E i \in Items : Placed(i) /\ m = FirstOf(i)
    BY <2>3, FirstOfPlaced
  <2> QED
    BY <2>1, <2>2, <2>3 DEF Masters
<1>5. \A k \in DOMAIN objects : Masters(k) \subseteq DOMAIN objects
  BY <1>4
<1> QED
  BY <1>2, <1>3, <1>5

\* Input goes to a browser, or to the HUD in spawn mode.
LEMMA InputTargetTypes ==
  ASSUME TypeOK, NEW b \in InputTargets \ {NoInstance}
  PROVE  b \in Browsers \cup {Hud} /\ (b = Hud => hud.spawn)
<1>1. \A k : OfObject(k) \subseteq Browsers \cup {NoInstance}
  BY ObjectFacts DEF OfObject
<1>2. Hud \notin Browsers \cup {NoInstance}
  BY NamesAssumption
<1> DEFINE Second == (UNION {OfObject(k) : k \in Aimable}) \cup {NoInstance}
           Third  == IF NoInstance \notin Second \/ ~hud.spawn THEN Second
                     ELSE (Second \ {NoInstance}) \cup {Hud}
<1>3. ASSUME NEW c \in Second PROVE c \in Browsers \cup {NoInstance}
  <2>1. CASE \E k \in Aimable : c \in OfObject(k)
    BY <2>1, <1>1
  <2>2. CASE c = NoInstance
    BY <2>2
  <2> QED
    BY <2>1, <2>2
<1>4. Third \subseteq Browsers \cup {NoInstance, Hud} /\ (Hud \in Third => hud.spawn)
  BY <1>2, <1>3
<1>5. InputTargets \subseteq OfObject(selected) \cup Third
  BY DEF InputTargets
<1> QED
  BY <1>1, <1>2, <1>4, <1>5

\* Opening and toggling a menu keeps the types.
LEMMA MenuTypes ==
  ASSUME TypeOK
  PROVE  /\ OpenMenu => hud' \in HudState /\ selected' \in Nat
         /\ ToggleMainMenu => hud' \in HudState /\ selected' \in Nat
<1>1. hud \in HudState /\ selected \in Nat
  BY DEF TypeOK
<1> DEFINE opened == [DeselectOnly(hud) EXCEPT !.menu = TRUE, !.page = "menu"]
<1>4. opened \in HudState
  BY <1>1, HudTypes, Zenon
<1>2. OpenMenu => hud' \in HudState /\ selected' \in Nat
  <2>1. OpenMenu => hud' = opened /\ selected' = 0
    BY DEF OpenMenu
  <2> HIDE DEF opened
  <2> QED
    BY <1>4, <2>1
<1>3. MenuClosed(hud) \in HudState
  BY <1>1, HudTypes
<1> QED
  BY <1>1, <1>2, <1>3 DEF ToggleMainMenu

\* deactivateInstance and destroyObject keep the types.
LEMMA CloseTypes ==
  ASSUME TypeOK
  PROVE  /\ \A S : Deactivate(S) => run' \in Run /\ hud' \in HudState /\ selected' \in Nat
         /\ \A k \in DOMAIN objects : DestroyObject(k) =>
              run' \in Run /\ hud' \in HudState /\ selected' \in Nat
<1>1. \A S : Deselected(S) \in Nat
  BY DEF TypeOK, Deselected
<1>2. ASSUME NEW S, Deactivate(S)
      PROVE  run' \in Run /\ hud' \in HudState /\ selected' \in Nat
  BY <1>1, <1>2, ClosedTypes DEF TypeOK, Deactivate
<1>3. ASSUME NEW k \in DOMAIN objects, DestroyObject(k)
      PROVE  run' \in Run /\ hud' \in HudState /\ selected' \in Nat
  <2> DEFINE T == {i \in Items : i = objects[k].item /\ run.inst[i].active}
  <2>1. run' = Closed(run, T) /\ hud' = Released(hud, run, T)
    BY <1>3 DEF DestroyObject
  <2>2. selected' \in Nat
    <3> DEFINE s == IF selected = k THEN 0 ELSE Deselected(T)
    <3>1. s \in Nat /\ k \in Nat \ {0}
      BY <1>1 DEF TypeOK
    <3>2. selected' = IF s > k THEN s - 1 ELSE s
      BY <1>3 DEF DestroyObject
    <3> QED
      BY <3>1, <3>2
  <2> QED
    BY <2>1, <2>2, ClosedTypes DEF TypeOK
<1> QED
  BY <1>2, <1>3

\* objectUsed keeps the types.
LEMMA UseTypes ==
  ASSUME TypeOK, UseNothing \/ \E k \in DOMAIN objects : UseObject(k)
  PROVE  run' \in Run /\ hud' \in HudState /\ selected' \in Nat
<1>1. CASE UseNothing
  <2>1. hud \in HudState /\ run \in Run /\ selected \in Nat
    BY DEF TypeOK
  <2>2. Windowed(hud) \in HudState
    BY <2>1, HudTypes
  <2>3. \A S : Closed(run, S) \in Run /\ Released(Windowed(hud), run, S) \in HudState
    BY <2>1, <2>2, ClosedTypes
  <2> QED
    BY <1>1, <2>1, <2>3 DEF UseNothing
<1>2. CASE \E k \in DOMAIN objects : UseObject(k)
  <2>1. PICK m \in DOMAIN objects : ToggleFullscreen(m) \/ Select(m)
    BY <1>2, ObjectFacts DEF UseObject
  <2>2. CASE ToggleFullscreen(m)
    BY <2>2, ObjectFacts, HudTypes DEF TypeOK, ToggleFullscreen, BrowserOf
  <2>3. CASE Select(m)
    <3> DEFINE T == {i \in Items : i = ItemOf(selected) /\ i # ItemOf(m) /\ run.inst[i].active}
    <3>1. Closed(run, T) \in Run /\ Windowed(hud) \in HudState
      BY ClosedTypes, HudTypes DEF TypeOK
    <3>2. Released(Windowed(hud), run, T) \in HudState
      BY <3>1, ClosedTypes DEF TypeOK
    <3>3. \A q \in Ensured(Closed(run, T), ItemOf(m)) : q \in Run
      BY <3>1, ObjectFacts, EnsuredType
    <3> QED
      BY <2>3, <3>2, <3>3 DEF Select, TypeOK
  <2> QED
    BY <2>1, <2>2, <2>3
<1> QED
  BY <1>1, <1>2

-----------------------------------------------------------------------------
(* Types of what the host does.                                              *)

\* Making objects of a thing solid or not keeps the types.
LEMMA SolidType ==
  ASSUME NEW os \in Seq(Object), NEW t, NEW b \in BOOLEAN
  PROVE  Solid(os, t, b) \in Seq(Object)
<1>1. ASSUME NEW k \in 1 .. Len(os)
      PROVE  (IF os[k].thing = t THEN [os[k] EXCEPT !.solid = b] ELSE os[k]) \in Object
  <2>1. os[k] \in Object
    OBVIOUS
  <2> QED
    BY <2>1 DEF Object
<1>2. DOMAIN os = 1 .. Len(os) /\ Len(os) \in Nat
  OBVIOUS
<1> QED
  BY <1>1, <1>2 DEF Solid

\* Erasing an object keeps the types.
LEMMA EraseType ==
  ASSUME NEW os \in Seq(Object), NEW k \in DOMAIN os
  PROVE  RemoveAt(os, k) \in Seq(Object)
BY DEF RemoveAt

\* What the host's frame may leave behind has its types.
LEMMA HostTypes ==
  ASSUME TypeOK
  PROVE  \A x \in AfterSpawn : /\ AfterMove(x).objects \in Seq(Object)
                               /\ AfterMove(x).host \in Host
                               /\ AfterMove(x).hud \in HudState
<1> DEFINE Typed(x) == /\ x.objects \in Seq(Object) /\ x.host \in Host /\ x.hud \in HudState
                       /\ x = [objects |-> x.objects, host |-> x.host, hud |-> x.hud]
<1>1. \A h \in Host, b \in BOOLEAN, t \in Things : Entered(h, b, t) \in Host
  BY DEF Entered, Host
<1>2. \A h \in Host : h.moving \in BOOLEAN /\ h.moveAsked \in Things \cup {NoThing}
                      /\ [h EXCEPT !.moveAsked = NoThing] \in Host
  BY DEF Host
<1>3. ASSUME NEW x \in AfterSpawn PROVE Typed(x)
  <2>1. CASE x = [objects |-> objects, host |-> host, hud |-> hud]
    BY <2>1 DEF TypeOK
  <2>2. CASE pending # <<>> /\ \E t \in Unplaced, slave \in BOOLEAN : x = Spawned(t, slave)
    <3>1. PICK t \in Things, slave \in BOOLEAN : x = Spawned(t, slave)
      BY <2>2 DEF Unplaced
    <3> DEFINE q  == Head(pending)
               o  == [thing |-> t, item |-> q.item, slave |-> slave /\ q.restore,
                      solid |-> q.restore]
               os == Append(objects, o)
    <3>2. q \in Request
      BY <2>2 DEF TypeOK
    <3>3. o \in Object
      BY <3>2 DEF Request, Object
    <3>4. os \in Seq(Object)
      BY <3>3 DEF TypeOK
    <3>5. host \in Host /\ hud \in HudState
      BY DEF TypeOK
    <3>6. Entered(host, host.moving, t) \in Host /\ SpawnModeEntered(hud) \in HudState
      BY <3>5, <1>1, <1>2, HudTypes
    <3>7. x = IF q.restore THEN [objects |-> os, host |-> host, hud |-> hud]
              ELSE [objects |-> os, host |-> Entered(host, host.moving, t),
                    hud |-> SpawnModeEntered(hud)]
      BY <3>1 DEF Spawned
    <3> HIDE DEF os
    <3> QED
      BY <3>4, <3>5, <3>6, <3>7
  <2> QED
    BY <2>1, <2>2 DEF AfterSpawn
<1>4. ASSUME NEW x, Typed(x)
      PROVE  /\ AfterMove(x).objects \in Seq(Object)
             /\ AfterMove(x).host \in Host /\ AfterMove(x).hud \in HudState
  <2> DEFINE t == x.host.moveAsked
             h == [x.host EXCEPT !.moveAsked = NoThing]
             y == [objects |-> x.objects, host |-> h, hud |-> x.hud]
  <2>1. h \in Host /\ t \in Things \cup {NoThing}
    BY <1>2, <1>4
  <2>2. [x EXCEPT !.host.moveAsked = NoThing] = y
    BY <1>4
  <2>3. CASE x.host.spawning \/ \A k \in DOMAIN x.objects : x.objects[k].thing # t
    <3>1. AfterMove(x) = y
      BY <2>2, <2>3 DEF AfterMove
    <3> QED
      BY <3>1, <2>1, <1>4
  <2>4. CASE ~(x.host.spawning \/ \A k \in DOMAIN x.objects : x.objects[k].thing # t)
    <3>1. PICK k \in DOMAIN x.objects : x.objects[k].thing = t
      BY <2>4
    <3>2. x.objects[k] \in Object
      BY <1>4
    <3>3. t \in Things
      BY <3>1, <3>2 DEF Object
    <3>4. AfterMove(x) = [y EXCEPT !.host = Entered(@, TRUE, t), !.hud = SpawnModeEntered(@),
                                   !.objects = Solid(@, t, FALSE)]
      BY <2>2, <2>4 DEF AfterMove
    <3> DEFINE newObjects == Solid(x.objects, t, FALSE)
               newHost    == Entered(h, TRUE, t)
               newHud     == SpawnModeEntered(x.hud)
    <3>5. newObjects \in Seq(Object) /\ newHost \in Host /\ newHud \in HudState
      BY <1>1, <1>4, <2>1, <3>3, HudTypes, SolidType
    <3>6. AfterMove(x) = [objects |-> newObjects, host |-> newHost, hud |-> newHud]
      BY <3>4
    <3> HIDE DEF newObjects, newHost, newHud
    <3> QED
      BY <3>5, <3>6
  <2> QED
    BY <2>3, <2>4
<1> QED
  BY <1>3, <1>4

-----------------------------------------------------------------------------
(* The types are kept by every step.                                         *)

\* The actions of the player on objects and menus.
PlayerStep ==
  \/ Click \/ CogObjectUsed \/ Escape \/ EnterInputMode \/ ExitInputMode \/ Remember
  \/ MenuKey \/ DropFile \/ TabPress \/ TabRelease

\* The commands on the aimed object.
CommandStep ==
  \/ TaskClose \/ PageClosesTask \/ PageCloses \/ ObjectRemove
  \/ RequestSpawn \/ RequestMove \/ ToggleSlave

\* The host's frame, spawn mode and the map.
HostStep == HostUpdate \/ ConfirmSpawn \/ CancelSpawn \/ MapUnload \/ MapLoad

\* The initial state has the types.
LEMMA InitTypes == Init => TypeOK
<1> SUFFICES ASSUME Init PROVE TypeOK
  OBVIOUS
<1> USE DEF Init
<1>1. objects \in Seq(Object) /\ selected \in Nat /\ pending \in Seq(Request)
  OBVIOUS
<1>2. run \in Run
  BY DEF Run, Instance, Idle
<1>3. hud \in HudState
  BY DEF HudState
<1>4. host \in Host
  BY DEF Host
<1> QED
  BY <1>1, <1>2, <1>3, <1>4 DEF TypeOK

\* The player's actions keep the types.
LEMMA PlayerKeepsTypes == TypeOK /\ PlayerStep => TypeOK'
<1> SUFFICES ASSUME TypeOK, PlayerStep PROVE TypeOK'
  OBVIOUS
<1>0. /\ objects \in Seq(Object) /\ selected \in Nat /\ run \in Run /\ hud \in HudState
      /\ host \in Host /\ pending \in Seq(Request)
  BY DEF TypeOK
<1>a. Aimable \subseteq DOMAIN objects
  BY DEF Aimable
<1>b. [hud EXCEPT !.input = NoInstance] \in HudState /\ Windowed(hud) \in HudState
      /\ DeselectOnly(hud) \in HudState
  BY <1>0, HudTypes
<1>c. \A v \in BOOLEAN : [host EXCEPT !.tabHeld = v] \in Host
  BY <1>0 DEF Host
<1>1. CASE Click
  BY <1>0, <1>1, <1>a, UseTypes DEF Click, TypeOK
<1>2. CASE CogObjectUsed
  BY <1>0, <1>2, <1>a, UseTypes DEF CogObjectUsed, TypeOK
<1>3. CASE Escape
  BY <1>0, <1>3, <1>b, MenuTypes DEF Escape, TypeOK
<1>4. CASE EnterInputMode
  <2>1. PICK b \in InputTargets \ {NoInstance} : hud' = InputFor(hud, b)
    BY <1>4 DEF EnterInputMode
  <2>2. b \in Browsers \cup {Hud} /\ (b = Hud => hud.spawn)
    BY <2>1, InputTargetTypes
  <2>3. hud' \in HudState
    BY <1>0, <2>1, <2>2, HudTypes
  <2> QED
    BY <1>0, <1>4, <2>3 DEF EnterInputMode, TypeOK
<1>5. CASE ExitInputMode
  BY <1>0, <1>5, <1>b DEF ExitInputMode, TypeOK
<1>6. CASE Remember
  <2>1. run' \in Run
    <3>1. CASE UNCHANGED run
      BY <1>0, <3>1
    <3>2. CASE \E k \in Aimable : \E m \in Masters(k) : run' \in Ensured(run, ItemOf(m))
      BY <1>0, <3>2, ObjectFacts, EnsuredType
    <3> QED
      BY <1>6, <3>1, <3>2 DEF Remember
  <2> QED
    BY <1>0, <1>6, <1>b, <2>1 DEF Remember, TypeOK
<1>7. CASE MenuKey \/ DropFile
  BY <1>0, <1>7, MenuTypes DEF MenuKey, DropFile, TypeOK
<1>8. CASE TabPress
  BY <1>0, <1>8, <1>c, MenuTypes DEF TabPress, TypeOK
<1>9. CASE TabRelease
  BY <1>0, <1>9, <1>c, MenuTypes DEF TabRelease, TypeOK
<1> QED
  BY <1>1, <1>2, <1>3, <1>4, <1>5, <1>6, <1>7, <1>8, <1>9 DEF PlayerStep

\* The commands keep the types.
LEMMA CommandKeepsTypes == TypeOK /\ CommandStep => TypeOK'
<1> SUFFICES ASSUME TypeOK, CommandStep PROVE TypeOK'
  OBVIOUS
<1>0. /\ objects \in Seq(Object) /\ selected \in Nat /\ run \in Run /\ hud \in HudState
      /\ host \in Host /\ pending \in Seq(Request)
  BY DEF TypeOK
<1>a. Aimable \subseteq DOMAIN objects /\ \A k \in DOMAIN objects : objects[k] \in Object
  BY <1>0 DEF Aimable
<1>1. CASE TaskClose
  BY <1>0, <1>1, CloseTypes DEF TaskClose, TypeOK
<1>2. CASE PageClosesTask
  BY <1>0, <1>2, CloseTypes DEF PageClosesTask, TypeOK
<1>3. CASE PageCloses
  BY <1>0, <1>3, HudTypes DEF PageCloses, TypeOK
<1>4. CASE ObjectRemove
  <2>1. PICK k \in DOMAIN objects : DestroyObject(k)
    BY <1>4, <1>a DEF ObjectRemove
  <2>2. objects' \in Seq(Object)
    BY <1>0, <2>1, EraseType DEF DestroyObject
  <2> QED
    BY <1>0, <1>4, <2>1, <2>2, CloseTypes DEF ObjectRemove, TypeOK
<1>5. CASE RequestSpawn
  BY <1>0, <1>5 DEF RequestSpawn, Request, TypeOK
<1>6. CASE RequestMove
  <2>1. PICK k \in DOMAIN objects : host' = [host EXCEPT !.moveAsked = objects[k].thing]
    BY <1>6, <1>a DEF RequestMove
  <2>2. objects[k].thing \in Things
    BY <1>a DEF Object
  <2>3. host' \in Host
    BY <1>0, <2>1, <2>2 DEF Host
  <2> QED
    BY <1>0, <1>6, <2>3 DEF RequestMove, TypeOK
<1>7. CASE ToggleSlave
  <2>1. PICK k \in DOMAIN objects : objects' = [objects EXCEPT ![k].slave = ~objects[k].slave]
    BY <1>7, <1>a DEF ToggleSlave
  <2> DEFINE o == [objects[k] EXCEPT !.slave = ~objects[k].slave]
  <2>2. o \in Object
    BY <1>a DEF Object
  <2>3. objects' = [objects EXCEPT ![k] = o]
    BY <2>1
  <2> HIDE DEF o
  <2>4. objects' \in Seq(Object)
    BY <1>0, <2>2, <2>3
  <2> QED
    BY <1>0, <1>7, <2>4 DEF ToggleSlave, TypeOK
<1> QED
  BY <1>1, <1>2, <1>3, <1>4, <1>5, <1>6, <1>7 DEF CommandStep

\* The host's steps keep the types.
LEMMA HostKeepsTypes == TypeOK /\ HostStep => TypeOK'
<1> SUFFICES ASSUME TypeOK, HostStep PROVE TypeOK'
  OBVIOUS
<1>0. /\ objects \in Seq(Object) /\ selected \in Nat /\ run \in Run /\ hud \in HudState
      /\ host \in Host /\ pending \in Seq(Request)
  BY DEF TypeOK
<1>a. NotSpawning \in Host /\ SpawnModeLeft(hud) \in HudState
      /\ Solid(objects, host.preview, TRUE) \in Seq(Object)
  BY <1>0, HudTypes, SolidType DEF NotSpawning, Host
<1>1. CASE HostUpdate
  <2>1. PICK x \in AfterSpawn : /\ objects' = AfterMove(x).objects
                                /\ host' = AfterMove(x).host /\ hud' = AfterMove(x).hud
    BY <1>1, Zenon DEF HostUpdate
  <2>2. objects' \in Seq(Object) /\ host' \in Host /\ hud' \in HudState
    BY <2>1, HostTypes, Zenon
  <2>3. pending' \in Seq(Request)
    BY <1>0, <1>1 DEF HostUpdate
  <2>4. UNCHANGED <<selected, run>>
    BY <1>1 DEF HostUpdate
  <2> QED
    BY <1>0, <2>2, <2>3, <2>4 DEF TypeOK
<1>2. CASE ConfirmSpawn
  BY <1>0, <1>2, <1>a DEF ConfirmSpawn, TypeOK
<1>3. CASE CancelSpawn
  <2>1. ObjectsOf(host.preview) # {} =>
          RemoveAt(objects, CHOOSE k \in ObjectsOf(host.preview) : TRUE) \in Seq(Object)
    BY <1>0, EraseType DEF ObjectsOf
  <2> QED
    BY <1>0, <1>3, <1>a, <2>1 DEF CancelSpawn, TypeOK
<1>4. CASE MapUnload
  <2>1. host' \in Host
    BY <1>a, <1>4 DEF MapUnload, Host
  <2> QED
    BY <1>0, <1>4, <2>1, ClosedTypes DEF MapUnload, TypeOK
<1>5. CASE MapLoad
  <2>1. host' \in Host
    BY <1>0, <1>5 DEF MapLoad, Host
  <2>2. PICK n \in 0 .. MaxPending - Len(pending) : \E saved \in [1 .. n -> Items \cup {NoItem}] :
          pending' = pending \o [k \in 1 .. n |-> [item |-> saved[k], restore |-> TRUE]]
    BY <1>5 DEF MapLoad
  <2>3. PICK saved \in [1 .. n -> Items \cup {NoItem}] :
          pending' = pending \o [k \in 1 .. n |-> [item |-> saved[k], restore |-> TRUE]]
    BY <2>2
  <2>4. n \in Nat
    BY <1>0, BoundsAssumption
  <2>5. [k \in 1 .. n |-> [item |-> saved[k], restore |-> TRUE]] \in Seq(Request)
    BY <2>4 DEF Request
  <2>6. pending' \in Seq(Request)
    BY <1>0, <2>3, <2>5
  <2> QED
    BY <1>0, <1>5, <2>1, <2>6 DEF MapLoad, TypeOK
<1> QED
  BY <1>1, <1>2, <1>3, <1>4, <1>5 DEF HostStep

\* Every step keeps the types.
LEMMA NextKeepsTypes == TypeOK /\ [Next]_vars => TypeOK'
<1>1. TypeOK /\ UNCHANGED vars => TypeOK'
  BY DEF TypeOK, vars
<1> QED
  BY <1>1, PlayerKeepsTypes, CommandKeepsTypes, HostKeepsTypes
     DEF Next, PlayerStep, CommandStep, HostStep

\* Every reachable state has the types, whatever the items, browsers, things and bounds.
THEOREM TypeCorrect == Spec => []TypeOK
BY InitTypes, NextKeepsTypes, PTL DEF Spec

-----------------------------------------------------------------------------
(* The table of tasks.                                                       *)

\* TableOf with what makes it inductive (an item without a browser has no slot) and
\* the cap on libretro.
RunOK(r) ==
  /\ TableOf(r)
  /\ \A i \in Items : r.inst[i].browser = NoInstance => r.inst[i].task = 0
  /\ \A b, c \in Browsers : r.memory[b] = "libretro" /\ r.memory[c] = "libretro" => b = c

\* Closing the instances of any items leaves the table right: a slot is freed with its
\* owner's browser and no other.
LEMMA ClosedOK ==
  ASSUME NEW r \in Run, RunOK(r), NEW S
  PROVE  RunOK(Closed(r, S))
<1> DEFINE q == Closed(r, S)
<1>0. r.inst \in [Items -> Instance] /\ r.tasks \in Seq(Browsers \cup {NoInstance})
      /\ r.memory \in [Browsers -> {"free", "libretro", "other"}]
  BY DEF Run
<1>1. \A i \in Items : q.inst[i] = IF i \in S THEN Idle ELSE r.inst[i]
  BY DEF Closed
<1>2. /\ DOMAIN q.tasks = DOMAIN r.tasks
      /\ \A k \in DOMAIN r.tasks :
           q.tasks[k] = IF \E i \in S \cap Items : r.inst[i].task = k
                          THEN NoInstance ELSE r.tasks[k]
  BY DEF Closed
<1>3. \A b \in Browsers : q.memory[b] = IF b \in Gone(r, S) THEN "free" ELSE r.memory[b]
  BY DEF Closed
<1> HIDE DEF q
<1>4. \A b \in Browsers : b \in Gone(r, S) <=> \E i \in Items : i \in S /\ Owns(r, i, b)
  BY NamesAssumption DEF Gone, Owns
<1>5. \A i \in Items, b \in Browsers : Owns(q, i, b) <=> i \notin S /\ Owns(r, i, b)
  BY <1>1 DEF Owns, Idle
<1>6. \A i, j \in Items, b \in Browsers :
        Owns(r, i, b) /\ r.inst[j].task = r.inst[i].task => i = j
  <2> SUFFICES ASSUME NEW i \in Items, NEW j \in Items, NEW b \in Browsers,
                      Owns(r, i, b), r.inst[j].task = r.inst[i].task
               PROVE  i = j
    OBVIOUS
  <2>1. r.inst[i].task \in DOMAIN r.tasks /\ r.tasks[r.inst[i].task] = b
    BY DEF RunOK, TableOf
  <2>2. r.inst[j].browser # NoInstance
    BY <1>0, <2>1 DEF RunOK
  <2>3. r.inst[j].browser \in Browsers
    BY <1>0, <2>2 DEF Instance
  <2>4. Owns(r, j, r.inst[j].browser) /\ r.tasks[r.inst[j].task] = r.inst[j].browser
    BY <2>2, <2>3 DEF RunOK, TableOf, Owns
  <2>5. Owns(r, j, b)
    BY <2>1, <2>4
  <2> QED
    BY <2>5 DEF RunOK, TableOf
<1>7. ASSUME NEW i \in Items, NEW b \in Browsers, Owns(q, i, b)
      PROVE  /\ q.inst[i].active /\ q.memory[b] # "free"
             /\ q.inst[i].task \in DOMAIN q.tasks /\ q.tasks[q.inst[i].task] = b
  <2>1. i \notin S /\ Owns(r, i, b) /\ q.inst[i] = r.inst[i]
    BY <1>1, <1>5, <1>7
  <2>2. /\ r.inst[i].active /\ r.memory[b] # "free"
        /\ r.inst[i].task \in DOMAIN r.tasks /\ r.tasks[r.inst[i].task] = b
    BY <2>1 DEF RunOK, TableOf
  <2>3. b \notin Gone(r, S)
    BY <1>4, <2>1 DEF RunOK, TableOf
  <2>4. ~ \E j \in S \cap Items : r.inst[j].task = r.inst[i].task
    BY <1>6, <2>1
  <2> QED
    BY <1>2, <1>3, <2>1, <2>2, <2>3, <2>4
<1>8. ASSUME NEW k \in DOMAIN q.tasks, q.tasks[k] # NoInstance
      PROVE  \E i \in Items : Owns(q, i, q.tasks[k]) /\ q.inst[i].task = k
  <2>1. k \in DOMAIN r.tasks /\ q.tasks[k] = r.tasks[k]
        /\ ~ \E i \in S \cap Items : r.inst[i].task = k
    BY <1>2, <1>8
  <2>2. PICK i \in Items : Owns(r, i, r.tasks[k]) /\ r.inst[i].task = k
    BY <1>8, <2>1 DEF RunOK, TableOf
  <2>3. i \notin S /\ r.tasks[k] \in Browsers
    BY <1>0, <1>8, <2>1, <2>2
  <2> QED
    BY <1>1, <1>5, <2>1, <2>2, <2>3
<1>9. ASSUME NEW b \in Browsers, q.memory[b] # "free"
      PROVE  \E i \in Items : Owns(q, i, b)
  <2>1. b \notin Gone(r, S) /\ r.memory[b] # "free"
    BY <1>3, <1>9
  <2>2. PICK i \in Items : Owns(r, i, b)
    BY <2>1 DEF RunOK, TableOf
  <2> QED
    BY <1>4, <1>5, <2>1, <2>2
<1>10. \A i, j \in Items : \A b \in Browsers : Owns(q, i, b) /\ Owns(q, j, b) => i = j
  BY <1>5 DEF RunOK, TableOf
<1>11. \A i \in Items : q.inst[i].browser = NoInstance => q.inst[i].task = 0
  BY <1>1 DEF RunOK, Idle
<1>12. \A b, c \in Browsers : q.memory[b] = "libretro" /\ q.memory[c] = "libretro" => b = c
  BY <1>3 DEF RunOK
<1>13. TableOf(q)
  BY <1>7, <1>8, <1>9, <1>10 DEF TableOf
<1> QED
  BY <1>11, <1>12, <1>13 DEF RunOK, q

\* A browser started at a free address takes a slot nobody has.
LEMMA StartedOK ==
  ASSUME NEW r \in Run, RunOK(r), NEW i \in Items, ~r.inst[i].active,
         NEW b \in Browsers, r.memory[b] = "free", NEW kind \in {"libretro", "other"},
         kind = "libretro" => \A c \in Browsers : r.memory[c] # "libretro"
  PROVE  RunOK(Started(r, i, b, kind))
<1> DEFINE q == Started(r, i, b, kind)
           t == TaskSlot(r.tasks)
<1>0. r.inst \in [Items -> Instance] /\ r.tasks \in Seq(Browsers \cup {NoInstance})
      /\ r.memory \in [Browsers -> {"free", "libretro", "other"}]
  BY DEF Run
<1>1. \A j \in Items : q.inst[j] = IF j = i THEN [active |-> TRUE, browser |-> b, task |-> t]
                                   ELSE r.inst[j]
  BY <1>0 DEF Started
<1>2. \A c \in Browsers : q.memory[c] = IF c = b THEN kind ELSE r.memory[c]
  BY <1>0 DEF Started
<1>3. /\ t \in DOMAIN q.tasks /\ q.tasks[t] = b /\ DOMAIN r.tasks \subseteq DOMAIN q.tasks
      /\ t \in DOMAIN r.tasks => r.tasks[t] = NoInstance
      /\ \A k \in DOMAIN q.tasks : k # t => k \in DOMAIN r.tasks /\ q.tasks[k] = r.tasks[k]
  <2>1. q.tasks = AddTask(r.tasks, b)
    BY DEF Started
  <2>2. CASE FreeSlots(r.tasks) = {}
    BY <1>0, <2>1, <2>2 DEF AddTask, TaskSlot
  <2>3. CASE FreeSlots(r.tasks) # {}
    <3>1. t \in DOMAIN r.tasks /\ r.tasks[t] = NoInstance
      BY <1>0, <2>3, TaskSlotType DEF FreeSlots
    <3>2. q.tasks = [r.tasks EXCEPT ![t] = b]
      BY <2>1, <2>3 DEF AddTask
    <3> HIDE DEF t
    <3> QED
      BY <1>0, <3>1, <3>2
  <2> QED
    BY <2>2, <2>3
<1> HIDE DEF q, t
<1>4. r.inst[i].browser = NoInstance
  BY <1>0 DEF RunOK, TableOf, Owns, Instance
<1>5. \A j \in Items : ~Owns(r, j, b)
  BY DEF RunOK, TableOf
<1>6. b # NoInstance
  BY NamesAssumption
<1>7. \A j \in Items, c \in Browsers :
        Owns(q, j, c) <=> (j = i /\ c = b) \/ (j # i /\ c # b /\ Owns(r, j, c))
  BY <1>1, <1>5, <1>6 DEF Owns
<1>8. ASSUME NEW j \in Items, NEW c \in Browsers, Owns(q, j, c)
      PROVE  /\ q.inst[j].active /\ q.memory[c] # "free"
             /\ q.inst[j].task \in DOMAIN q.tasks /\ q.tasks[q.inst[j].task] = c
  <2>1. CASE j = i /\ c = b
    BY <1>1, <1>2, <1>3, <2>1
  <2>2. CASE j # i /\ c # b /\ Owns(r, j, c)
    <3>1. /\ r.inst[j].active /\ r.memory[c] # "free"
          /\ r.inst[j].task \in DOMAIN r.tasks /\ r.tasks[r.inst[j].task] = c
      BY <2>2 DEF RunOK, TableOf
    <3>2. r.inst[j].task # t
      BY <1>3, <2>2, <3>1 DEF Owns
    <3> QED
      BY <1>1, <1>2, <1>3, <2>2, <3>1, <3>2
  <2> QED
    BY <1>7, <1>8, <2>1, <2>2
<1>9. ASSUME NEW k \in DOMAIN q.tasks, q.tasks[k] # NoInstance
      PROVE  \E j \in Items : Owns(q, j, q.tasks[k]) /\ q.inst[j].task = k
  <2>1. CASE k = t
    BY <1>1, <1>3, <1>7, <2>1
  <2>2. CASE k # t
    <3>1. k \in DOMAIN r.tasks /\ q.tasks[k] = r.tasks[k]
      BY <1>3, <2>2
    <3>2. PICK j \in Items : Owns(r, j, r.tasks[k]) /\ r.inst[j].task = k
      BY <1>9, <3>1 DEF RunOK, TableOf
    <3>3. j # i /\ r.tasks[k] \in Browsers /\ r.tasks[k] # b
      BY <1>0, <1>4, <1>5, <1>9, <3>1, <3>2 DEF Owns
    <3> QED
      BY <1>1, <1>7, <3>1, <3>2, <3>3
  <2> QED
    BY <2>1, <2>2
<1>10. ASSUME NEW c \in Browsers, q.memory[c] # "free"
       PROVE  \E j \in Items : Owns(q, j, c)
  <2>1. CASE c = b
    BY <1>7, <2>1
  <2>2. CASE c # b
    <3>1. PICK j \in Items : Owns(r, j, c)
      BY <1>2, <1>10, <2>2 DEF RunOK, TableOf
    <3>2. j # i
      BY <1>4, <3>1 DEF Owns
    <3> QED
      BY <1>7, <2>2, <3>1, <3>2
  <2> QED
    BY <2>1, <2>2
<1>11. \A j, l \in Items : \A c \in Browsers : Owns(q, j, c) /\ Owns(q, l, c) => j = l
  BY <1>7 DEF RunOK, TableOf
<1>12. \A j \in Items : q.inst[j].browser = NoInstance => q.inst[j].task = 0
  BY <1>1, <1>6 DEF RunOK
<1>13. \A c, d \in Browsers : q.memory[c] = "libretro" /\ q.memory[d] = "libretro" => c = d
  BY <1>2 DEF RunOK
<1>14. TableOf(q)
  BY <1>8, <1>9, <1>10, <1>11 DEF TableOf
<1> QED
  BY <1>12, <1>13, <1>14 DEF RunOK, q

\* Whatever comes of ensureItemInstance, the table is right and no browser is lost.
\* A libretro core that is alive is owned by an item, so the search through the items
\* finds it.
LEMMA ListedIfAlive ==
  ASSUME NEW r \in Run, RunOK(r), ~LibretroListed(r), NEW c \in Browsers
  PROVE  r.memory[c] # "libretro"
<1>1. SUFFICES ASSUME r.memory[c] = "libretro" PROVE FALSE
  OBVIOUS
<1>2. PICK i \in Items : Owns(r, i, c)
  BY <1>1 DEF RunOK, TableOf
<1> QED
  BY <1>1, <1>2 DEF Owns, LibretroListed

LEMMA EnsuredOK ==
  ASSUME NEW r \in Run, RunOK(r), NEW i \in Items \cup {NoItem}, NEW q \in Ensured(r, i)
  PROVE  /\ RunOK(q)
         /\ \A b \in Browsers : r.memory[b] # "free" => q.memory[b] # "free"
<1>1. CASE q = r
  BY <1>1
<1>2. CASE i \in Items /\ ~r.inst[i].active
           /\ q = [r EXCEPT !.inst[i] = Screenless]
  <2>1. q.tasks = r.tasks /\ q.memory = r.memory
    BY <1>2 DEF Run
  <2>2. \A j \in Items : q.inst[j] = IF j = i THEN Screenless ELSE r.inst[j]
    BY <1>2 DEF Run
  <2>3. r.inst[i].browser = NoInstance
    BY <1>2 DEF RunOK, TableOf, Owns, Instance, Run
  <2>4. \A j \in Items : \A b : Owns(q, j, b) <=> Owns(r, j, b)
    BY <2>2, <2>3 DEF Owns, Screenless
  <2>5. \A j \in Items : \A b : Owns(r, j, b) => q.inst[j] = r.inst[j]
    BY <2>2, <2>3 DEF Owns, Screenless
  <2>6. TableOf(q)
    BY <2>1, <2>4, <2>5 DEF RunOK, TableOf
  <2> QED
    BY <2>1, <2>2, <2>6 DEF RunOK, Screenless
<1>3. CASE i \in Items /\ ~r.inst[i].active
           /\ \E b \in Browsers, k \in {"libretro", "other"} :
                /\ r.memory[b] = "free" /\ q = Started(r, i, b, k)
                /\ k = "libretro" => ~LibretroListed(r)
  <2>1. PICK b \in Browsers, k \in {"libretro", "other"} :
          /\ r.memory[b] = "free" /\ q = Started(r, i, b, k)
          /\ k = "libretro" => ~LibretroListed(r)
    BY <1>3
  <2>0. k = "libretro" => \A c \in Browsers : r.memory[c] # "libretro"
    BY <2>1, ListedIfAlive
  <2>2. RunOK(q)
    BY <1>3, <2>0, <2>1, StartedOK
  <2>3. q.memory = [r.memory EXCEPT ![b] = k]
        /\ r.memory \in [Browsers -> {"free", "libretro", "other"}]
    BY <2>1 DEF Started, Run
  <2> QED
    BY <2>1, <2>2, <2>3
<1> QED
  BY <1>1, <1>2, <1>3 DEF Ensured

-----------------------------------------------------------------------------
(* What is full screen or takes the input is alive.                          *)

Alive(r) == {b \in Browsers : r.memory[b] # "free"}

TargetsLive(h, r) == /\ h.fullscreen \in Alive(r) \cup {NoInstance}
                     /\ h.input \in Alive(r) \cup {Hud, NoInstance}

Good(h, r) == RunOK(r) /\ TargetsLive(h, r)

\* Closing keeps the table and the targets.
LEMMA CloseGood ==
  ASSUME NEW h \in HudState, NEW r \in Run, Good(h, r), NEW S
  PROVE  Good(Released(h, r, S), Closed(r, S))
<1>1. RunOK(Closed(r, S))
  BY ClosedOK DEF Good
<1>2. \A b \in Browsers : b \in Alive(Closed(r, S)) <=> b \in Alive(r) /\ b \notin Gone(r, S)
  BY DEF Alive, Closed
<1> DEFINE q == Released(h, r, S)
<1>3. /\ q.fullscreen = IF h.fullscreen \in Gone(r, S) THEN NoInstance ELSE h.fullscreen
      /\ q.input = IF h.input \in Gone(r, S) THEN NoInstance ELSE h.input
  BY DEF Released, HudState
<1>4. Alive(r) \subseteq Browsers
  BY DEF Alive
<1> HIDE DEF q
<1>5. TargetsLive(q, Closed(r, S))
  BY <1>2, <1>3, <1>4 DEF Good, TargetsLive
<1> QED
  BY <1>1, <1>5 DEF Good, q

\* Operations on the HUD keep the targets, given a live one.
LEMMA HudGood ==
  ASSUME NEW h \in HudState, NEW r \in Run, Good(h, r)
  PROVE  /\ Good(MenuClosed(h), r) /\ Good(Windowed(h), r) /\ Good(DeselectOnly(h), r)
         /\ Good(SpawnModeEntered(h), r) /\ Good(SpawnModeLeft(h), r)
         /\ Good([DeselectOnly(h) EXCEPT !.menu = TRUE, !.page = "menu"], r)
         /\ Good([h EXCEPT !.input = NoInstance], r)
         /\ \A b \in Alive(r) : Good(FullScreen(h, b), r)
         /\ \A b \in Alive(r) \cup {Hud} : Good(InputFor(h, b), r)
<1> SUFFICES ASSUME RunOK(r), TargetsLive(h, r)
             PROVE  /\ TargetsLive(MenuClosed(h), r) /\ TargetsLive(Windowed(h), r)
                    /\ TargetsLive(DeselectOnly(h), r)
                    /\ TargetsLive(SpawnModeEntered(h), r) /\ TargetsLive(SpawnModeLeft(h), r)
                    /\ TargetsLive([DeselectOnly(h) EXCEPT !.menu = TRUE, !.page = "menu"], r)
                    /\ TargetsLive([h EXCEPT !.input = NoInstance], r)
                    /\ \A b \in Alive(r) : TargetsLive(FullScreen(h, b), r)
                    /\ \A b \in Alive(r) \cup {Hud} : TargetsLive(InputFor(h, b), r)
  BY DEF Good
<1> USE DEF TargetsLive, HudState
<1>1. TargetsLive(MenuClosed(h), r) /\ TargetsLive(Windowed(h), r)
  BY DEF MenuClosed, Windowed
<1>2. TargetsLive(SpawnModeEntered(h), r) /\ TargetsLive(SpawnModeLeft(h), r)
  BY DEF SpawnModeEntered, SpawnModeLeft, MenuClosed
<1>3. /\ TargetsLive(DeselectOnly(h), r)
      /\ TargetsLive([DeselectOnly(h) EXCEPT !.menu = TRUE, !.page = "menu"], r)
      /\ TargetsLive([h EXCEPT !.input = NoInstance], r)
  BY DEF DeselectOnly, Windowed
<1>4. \A b \in Alive(r) : TargetsLive(FullScreen(h, b), r)
  BY DEF FullScreen
<1>5. \A b \in Alive(r) \cup {Hud} : TargetsLive(InputFor(h, b), r)
  BY DEF InputFor
<1> HIDE DEF TargetsLive, HudState
<1> QED
  BY <1>1, <1>2, <1>3, <1>4, <1>5

\* Starting an instance keeps the table and the targets.
LEMMA EnsuredGood ==
  ASSUME NEW h, NEW r \in Run, Good(h, r), NEW i \in Items \cup {NoItem},
         NEW q \in Ensured(r, i)
  PROVE  Good(h, q)
<1>1. RunOK(q) /\ \A b \in Browsers : r.memory[b] # "free" => q.memory[b] # "free"
  BY EnsuredOK DEF Good
<1>2. Alive(r) \subseteq Alive(q)
  BY <1>1 DEF Alive
<1> QED
  BY <1>1, <1>2 DEF Good, TargetsLive

\* The browser of an object is alive.
LEMMA BrowserAlive ==
  ASSUME TypeOK, Good(hud, run)
  PROVE  /\ \A k : BrowserOf(k) \in Alive(run) \cup {NoInstance}
         /\ InputTargets \subseteq Alive(run) \cup {Hud, NoInstance}
<1>1. ASSUME NEW k PROVE BrowserOf(k) \in Alive(run) \cup {NoInstance}
  <2>1. CASE BrowserOf(k) = NoInstance
    BY <2>1
  <2>2. CASE BrowserOf(k) # NoInstance
    <3>1. BrowserOf(k) \in Browsers
      BY <2>2, ObjectFacts
    <3>2. ItemOf(k) \in Items /\ Owns(run, ItemOf(k), BrowserOf(k))
      BY <2>2 DEF BrowserOf, IsActive, Owns
    <3> QED
      BY <3>1, <3>2 DEF Good, RunOK, TableOf, Alive
  <2> QED
    BY <2>1, <2>2
<1>2. \A k : OfObject(k) \subseteq Alive(run) \cup {NoInstance}
  BY <1>1 DEF OfObject
<1> DEFINE Second == (UNION {OfObject(k) : k \in Aimable}) \cup {NoInstance}
           Third  == IF NoInstance \notin Second \/ ~hud.spawn THEN Second
                     ELSE (Second \ {NoInstance}) \cup {Hud}
<1>3. ASSUME NEW c \in Second PROVE c \in Alive(run) \cup {NoInstance}
  <2>1. CASE \E k \in Aimable : c \in OfObject(k)
    BY <2>1, <1>2
  <2>2. CASE c = NoInstance
    BY <2>2
  <2> QED
    BY <2>1, <2>2
<1>4. Third \subseteq Alive(run) \cup {Hud, NoInstance}
  BY <1>3
<1>5. InputTargets \subseteq OfObject(selected) \cup Third
  BY DEF InputTargets
<1>6. InputTargets \subseteq Alive(run) \cup {Hud, NoInstance}
  BY <1>2, <1>4, <1>5
<1> QED
  BY <1>1, <1>6

\* objectUsed keeps the table and the targets.
LEMMA UseGood ==
  ASSUME TypeOK, Good(hud, run), UseNothing \/ \E k \in DOMAIN objects : UseObject(k)
  PROVE  Good(hud', run')
<1>0. hud \in HudState /\ run \in Run /\ Windowed(hud) \in HudState
  BY HudTypes DEF TypeOK
<1>1. Good(Windowed(hud), run)
  BY <1>0, HudGood
<1>2. \A S : Good(Released(Windowed(hud), run, S), Closed(run, S)) /\ Closed(run, S) \in Run
  BY <1>0, <1>1, CloseGood, ClosedTypes
<1>3. CASE UseNothing
  BY <1>2, <1>3 DEF UseNothing
<1>4. CASE \E k \in DOMAIN objects : UseObject(k)
  <2>1. PICK m \in DOMAIN objects : ToggleFullscreen(m) \/ Select(m)
    BY <1>4, ObjectFacts DEF UseObject
  <2>2. CASE ToggleFullscreen(m)
    <3>1. BrowserOf(m) \in Alive(run) \cup {NoInstance}
      BY BrowserAlive
    <3>2. BrowserOf(m) # NoInstance => Good(FullScreen(hud, BrowserOf(m)), run)
      BY <1>0, <3>1, HudGood
    <3> QED
      BY <2>2, <1>1, <3>2 DEF ToggleFullscreen, BrowserOf
  <2>3. CASE Select(m)
    <3> DEFINE T == {i \in Items : i = ItemOf(selected) /\ i # ItemOf(m) /\ run.inst[i].active}
    <3>1. hud' = Released(Windowed(hud), run, T) /\ run' \in Ensured(Closed(run, T), ItemOf(m))
      BY <2>3 DEF Select
    <3> HIDE DEF T
    <3> QED
      BY <1>2, <3>1, ObjectFacts, EnsuredGood
  <2> QED
    BY <2>1, <2>2, <2>3
<1> QED
  BY <1>3, <1>4

\* In the first state nothing runs.
LEMMA InitGood == Init => Good(hud, run)
<1> SUFFICES ASSUME Init PROVE Good(hud, run)
  OBVIOUS
<1>1. /\ \A i \in Items : run.inst[i] = Idle
      /\ run.tasks = <<>> /\ \A b \in Browsers : run.memory[b] = "free"
      /\ hud.fullscreen = NoInstance /\ hud.input = NoInstance
  BY DEF Init
<1>2. RunOK(run)
  BY <1>1 DEF RunOK, TableOf, Owns, Idle
<1> QED
  BY <1>1, <1>2 DEF Good, TargetsLive

\* The player's actions keep the table and the targets.
LEMMA PlayerKeepsGood == TypeOK /\ Good(hud, run) /\ PlayerStep => Good(hud', run')
<1> SUFFICES ASSUME TypeOK, Good(hud, run), PlayerStep PROVE Good(hud', run')
  OBVIOUS
<1>0. hud \in HudState /\ run \in Run
  BY DEF TypeOK
<1>a. Aimable \subseteq DOMAIN objects
  BY DEF Aimable
<1>b. /\ Good([hud EXCEPT !.input = NoInstance], run) /\ Good(Windowed(hud), run)
      /\ Good(DeselectOnly(hud), run) /\ Good(MenuClosed(hud), run)
      /\ Good([DeselectOnly(hud) EXCEPT !.menu = TRUE, !.page = "menu"], run)
  BY <1>0, HudGood
<1>c. (OpenMenu \/ ToggleMainMenu) => Good(hud', run)
  BY <1>b DEF OpenMenu, ToggleMainMenu
<1>1. CASE Click \/ CogObjectUsed
  BY <1>1, <1>a, UseGood DEF Click, CogObjectUsed
<1>2. CASE Escape
  BY <1>2, <1>b, <1>c DEF Escape
<1>3. CASE EnterInputMode
  <2>1. PICK b \in InputTargets \ {NoInstance} : hud' = InputFor(hud, b)
    BY <1>3 DEF EnterInputMode
  <2>2. b \in Alive(run) \cup {Hud}
    BY <2>1, BrowserAlive
  <2> QED
    BY <1>0, <1>3, <2>1, <2>2, HudGood DEF EnterInputMode
<1>4. CASE ExitInputMode
  BY <1>4, <1>b DEF ExitInputMode
<1>5. CASE Remember
  <2>1. hud' = DeselectOnly(hud)
    BY <1>5 DEF Remember
  <2>2. CASE UNCHANGED run
    BY <1>b, <2>1, <2>2
  <2>3. CASE \E k \in Aimable : \E m \in Masters(k) : run' \in Ensured(run, ItemOf(m))
    BY <1>0, <1>b, <2>1, <2>3, ObjectFacts, EnsuredGood
  <2> QED
    BY <1>5, <2>2, <2>3 DEF Remember
<1>6. CASE MenuKey \/ DropFile
  BY <1>6, <1>c DEF MenuKey, DropFile
<1>7. CASE TabPress \/ TabRelease
  BY <1>7, <1>c DEF TabPress, TabRelease
<1> QED
  BY <1>1, <1>2, <1>3, <1>4, <1>5, <1>6, <1>7 DEF PlayerStep

\* The commands keep the table and the targets.
LEMMA CommandKeepsGood == TypeOK /\ Good(hud, run) /\ CommandStep => Good(hud', run')
<1> SUFFICES ASSUME TypeOK, Good(hud, run), CommandStep PROVE Good(hud', run')
  OBVIOUS
<1>0. hud \in HudState /\ run \in Run
  BY DEF TypeOK
<1>a. \A S : Good(Released(hud, run, S), Closed(run, S))
  BY <1>0, CloseGood
<1>1. CASE TaskClose \/ PageClosesTask
  BY <1>1, <1>a DEF TaskClose, PageClosesTask, Deactivate
<1>2. CASE PageCloses
  BY <1>0, <1>2, HudGood DEF PageCloses
<1>3. CASE ObjectRemove
  BY <1>3, <1>a DEF ObjectRemove, DestroyObject
<1>4. CASE RequestSpawn \/ RequestMove \/ ToggleSlave
  BY <1>4 DEF RequestSpawn, RequestMove, ToggleSlave
<1> QED
  BY <1>1, <1>2, <1>3, <1>4 DEF CommandStep

\* A frame of the host leaves the HUD and spawn mode as they were, or enters spawn mode,
\* once or twice; it never leaves the map.
Framed(x, h) ==
  /\ x.hud \in {h, SpawnModeEntered(h)} /\ x.host.inMap = host.inMap
  /\ x.host.spawning => host.spawning \/ x.hud = SpawnModeEntered(h)

\* The frame of the host, with its spawn and its move, ends in a framed state.
LEMMA FrameHud ==
  ASSUME TypeOK, NEW x \in AfterSpawn
  PROVE  /\ AfterMove(x).hud \in {hud, SpawnModeEntered(hud), SpawnModeEntered(SpawnModeEntered(hud))}
         /\ AfterMove(x).host.spawning => \/ host.spawning
                                          \/ AfterMove(x).hud = SpawnModeEntered(hud)
                                          \/ AfterMove(x).hud = SpawnModeEntered(SpawnModeEntered(hud))
         /\ AfterMove(x).host.inMap = host.inMap
<1>a. \A h \in Host, b \in BOOLEAN, t \in Things : /\ Entered(h, b, t).inMap = h.inMap
                                                    /\ Entered(h, b, t) \in Host
  BY DEF Entered, Host
<1>b. host \in Host /\ host.moving \in BOOLEAN
  BY DEF TypeOK, Host
<1>1. /\ Framed(x, hud) /\ x.host \in Host
      /\ x = [objects |-> x.objects, host |-> x.host, hud |-> x.hud]
  <2>1. CASE x = [objects |-> objects, host |-> host, hud |-> hud]
    BY <2>1, <1>b DEF Framed
  <2>2. CASE \E t \in Unplaced, slave \in BOOLEAN : x = Spawned(t, slave)
    <3>1. PICK t \in Things, slave \in BOOLEAN : x = Spawned(t, slave)
      BY <2>2 DEF Unplaced
    <3> DEFINE os == Append(objects, [thing |-> t, item |-> Head(pending).item,
                                      slave |-> slave /\ Head(pending).restore,
                                      solid |-> Head(pending).restore])
               entered == Entered(host, host.moving, t)
               spawnHud == SpawnModeEntered(hud)
    <3>2. \/ x = [objects |-> os, host |-> host, hud |-> hud]
          \/ x = [objects |-> os, host |-> entered, hud |-> spawnHud]
      BY <3>1 DEF Spawned
    <3>3. entered.inMap = host.inMap /\ entered \in Host
      BY <1>a, <1>b
    <3>4. CASE x = [objects |-> os, host |-> host, hud |-> hud]
      <4> HIDE DEF os
      <4> QED
        BY <3>4, <1>b DEF Framed
    <3>5. CASE x = [objects |-> os, host |-> entered, hud |-> spawnHud]
      <4> HIDE DEF os, entered, spawnHud
      <4> QED
        BY <3>5, <3>3 DEF Framed, spawnHud
    <3> QED
      BY <3>2, <3>4, <3>5
  <2> QED
    BY <2>1, <2>2 DEF AfterSpawn
<1>2. /\ AfterMove(x).hud \in {x.hud, SpawnModeEntered(x.hud)}
      /\ AfterMove(x).host.spawning => \/ x.host.spawning /\ AfterMove(x).hud = x.hud
                                       \/ AfterMove(x).hud = SpawnModeEntered(x.hud)
      /\ AfterMove(x).host.inMap = x.host.inMap
  <2> DEFINE moved == [x.host EXCEPT !.moveAsked = NoThing]
             y == [x EXCEPT !.host.moveAsked = NoThing]
  <2>1. y = [objects |-> x.objects, host |-> moved, hud |-> x.hud]
    BY <1>1
  <2>2. moved.spawning = x.host.spawning /\ moved.inMap = x.host.inMap
    BY <1>1 DEF Host
  <2>3. AfterMove(x) = y
        \/ \E a, t : AfterMove(x) = [objects |-> a, host |-> Entered(moved, TRUE, t),
                                     hud |-> SpawnModeEntered(x.hud)]
    BY <2>1 DEF AfterMove
  <2>4. moved \in Host
    BY <1>1 DEF Host
  <2>5. \A t : Entered(moved, TRUE, t).inMap = moved.inMap
    BY <2>4 DEF Entered, Host
  <2> HIDE DEF y, moved
  <2>6. CASE AfterMove(x) = y
    BY <2>1, <2>2, <2>6
  <2>7. ASSUME NEW a, NEW t, AfterMove(x) = [objects |-> a, host |-> Entered(moved, TRUE, t),
                                             hud |-> SpawnModeEntered(x.hud)]
        PROVE  /\ AfterMove(x).hud = SpawnModeEntered(x.hud)
               /\ AfterMove(x).host.inMap = x.host.inMap
    <3> DEFINE entered == Entered(moved, TRUE, t)
               entering == SpawnModeEntered(x.hud)
    <3>1. entered.inMap = x.host.inMap
      BY <2>2, <2>5
    <3>2. AfterMove(x) = [objects |-> a, host |-> entered, hud |-> entering]
      BY <2>7
    <3> HIDE DEF entered, entering
    <3>3. AfterMove(x).hud = entering /\ AfterMove(x).host = entered
      BY <3>2
    <3> QED
      BY <3>1, <3>3 DEF entering
  <2> QED
    BY <2>3, <2>6, <2>7
<1> QED
  BY <1>1, <1>2 DEF Framed

\* The host's steps keep the table and the targets.
LEMMA HostKeepsGood == TypeOK /\ Good(hud, run) /\ HostStep => Good(hud', run')
<1> SUFFICES ASSUME TypeOK, Good(hud, run), HostStep PROVE Good(hud', run')
  OBVIOUS
<1>0. hud \in HudState /\ run \in Run
  BY DEF TypeOK
<1>1. CASE HostUpdate
  <2>1. PICK x \in AfterSpawn : hud' = AfterMove(x).hud
    BY <1>1, Zenon DEF HostUpdate
  <2>2. SpawnModeEntered(hud) \in HudState /\ Good(SpawnModeEntered(hud), run)
    BY <1>0, HudTypes, HudGood
  <2>3. Good(SpawnModeEntered(SpawnModeEntered(hud)), run)
    BY <1>0, <2>2, HudGood
  <2>4. Good(hud', run) /\ run' = run
    BY <1>1, <2>1, <2>2, <2>3, FrameHud DEF HostUpdate
  <2> QED
    BY <2>4
<1>2. CASE ConfirmSpawn \/ CancelSpawn
  BY <1>0, <1>2, HudGood DEF ConfirmSpawn, CancelSpawn
<1>3. CASE MapUnload
  BY <1>0, <1>3, CloseGood DEF MapUnload
<1>4. CASE MapLoad
  BY <1>4 DEF MapLoad
<1> QED
  BY <1>1, <1>2, <1>3, <1>4 DEF HostStep

\* The inductive invariant of the three theorems below.
LEMMA GoodAlways == Spec => [](TypeOK /\ Good(hud, run))
<1>1. Init => TypeOK /\ Good(hud, run)
  BY InitTypes, InitGood
<1>2. TypeOK /\ Good(hud, run) /\ [Next]_vars => TypeOK' /\ Good(hud', run')
  <2>1. Good(hud, run) /\ UNCHANGED vars => Good(hud', run')
    BY DEF vars
  <2> QED
    BY <2>1, NextKeepsTypes, PlayerKeepsGood, CommandKeepsGood, HostKeepsGood
       DEF Next, PlayerStep, CommandStep, HostStep
<1>3. (Good(hud, run))' <=> Good(hud', run')
  BY DEF Good, RunOK, TableOf, Owns, TargetsLive, Alive
<1> QED
  BY <1>1, <1>2, <1>3, PTL DEF Spec

\* The task table and the items agree in every reachable state.
THEOREM TaskTableSafe == Spec => []TaskTable
<1>1. Good(hud, run) => TaskTable
  BY DEF Good, RunOK, TaskTable
<1> QED
  BY <1>1, GoodAlways, PTL

\* What is full screen or takes the input is never a freed browser.
THEOREM TargetsSafe == Spec => []NoDanglingTarget
<1>1. Good(hud, run) => NoDanglingTarget
  BY DEF Good, TargetsLive, Alive, NoDanglingTarget, Live
<1> QED
  BY <1>1, GoodAlways, PTL

\* At most one libretro instance is ever alive.
THEOREM LibretroCapSafe == Spec => []OneLibretro
<1>1. Good(hud, run) => OneLibretro
  BY DEF Good, RunOK, OneLibretro
<1> QED
  BY <1>1, GoodAlways, PTL

-----------------------------------------------------------------------------
(* Menus and full screen; the two spawn modes.                               *)

\* OneModal with what makes it inductive: only a selected object is full screen, a menu
\* page is shown by an open menu only, and nothing is full screen outside a map.
Modal(h, s) == /\ h.menu => h.fullscreen = NoInstance
               /\ h.fullscreen # NoInstance => s # 0
               /\ h.page = "menu" => h.menu

Modes == /\ Modal(hud, selected)
         /\ ~host.inMap => hud.fullscreen = NoInstance
         /\ host.spawning => hud.spawn

\* Operations on the HUD that neither open a menu nor go full screen.
LEMMA HudModal ==
  ASSUME NEW h \in HudState, NEW s, Modal(h, s)
  PROVE  /\ Modal(MenuClosed(h), s) /\ MenuClosed(h).spawn = h.spawn
         /\ Modal(Windowed(h), s) /\ Windowed(h).spawn = h.spawn
         /\ Windowed(h).fullscreen = NoInstance
         /\ MenuClosed(h).fullscreen = h.fullscreen
         /\ Modal(SpawnModeEntered(h), s) /\ SpawnModeEntered(h).spawn
         /\ SpawnModeEntered(h).fullscreen = h.fullscreen
         /\ Modal(SpawnModeLeft(h), s) /\ SpawnModeLeft(h).fullscreen = h.fullscreen
         /\ Modal([h EXCEPT !.input = NoInstance], s)
         /\ [h EXCEPT !.input = NoInstance].spawn = h.spawn
         /\ [h EXCEPT !.input = NoInstance].fullscreen = h.fullscreen
<1> USE DEF HudState, Modal
<1>1. /\ Modal(MenuClosed(h), s) /\ MenuClosed(h).spawn = h.spawn
      /\ MenuClosed(h).fullscreen = h.fullscreen
  BY DEF MenuClosed
<1>2. /\ Modal(Windowed(h), s) /\ Windowed(h).spawn = h.spawn
      /\ Windowed(h).fullscreen = NoInstance
  BY DEF Windowed
<1>3. /\ Modal(SpawnModeEntered(h), s) /\ SpawnModeEntered(h).spawn
      /\ SpawnModeEntered(h).fullscreen = h.fullscreen
  BY DEF SpawnModeEntered, MenuClosed
<1>4. Modal(SpawnModeLeft(h), s) /\ SpawnModeLeft(h).fullscreen = h.fullscreen
  BY DEF SpawnModeLeft
<1>5. /\ Modal([h EXCEPT !.input = NoInstance], s)
      /\ [h EXCEPT !.input = NoInstance].spawn = h.spawn
      /\ [h EXCEPT !.input = NoInstance].fullscreen = h.fullscreen
  OBVIOUS
<1> HIDE DEF HudState, Modal
<1> QED
  BY <1>1, <1>2, <1>3, <1>4, <1>5

\* Closing instances opens no menu, goes full screen nowhere and leaves spawn mode alone.
LEMMA ReleasedModal ==
  ASSUME NEW h \in HudState, NEW r, NEW S, h.page = "menu" => h.menu
  PROVE  LET q == Released(h, r, S)
         IN  /\ q.menu = h.menu /\ q.spawn = h.spawn /\ (q.page = "menu" => q.menu)
             /\ q.fullscreen = IF h.fullscreen \in Gone(r, S) THEN NoInstance ELSE h.fullscreen
BY DEF Released, HudState

\* Opening a menu leaves full screen, since only a selected object is full screen.
LEMMA MenuModal ==
  ASSUME TypeOK, Modes
  PROVE  OpenMenu \/ ToggleMainMenu =>
           /\ Modal(hud', selected') /\ hud'.spawn = hud.spawn
           /\ hud.fullscreen = NoInstance => hud'.fullscreen = NoInstance
<1>1. hud \in HudState /\ Modal(hud, selected)
  BY DEF TypeOK, Modes
<1>2. OpenMenu =>
        /\ Modal(hud', selected') /\ hud'.spawn = hud.spawn
        /\ hud.fullscreen = NoInstance => hud'.fullscreen = NoInstance
  BY <1>1 DEF OpenMenu, DeselectOnly, Windowed, HudState, Modal
<1>3. hud' = MenuClosed(hud) /\ UNCHANGED selected =>
        /\ Modal(hud', selected') /\ hud'.spawn = hud.spawn
        /\ hud.fullscreen = NoInstance => hud'.fullscreen = NoInstance
  BY <1>1, HudModal
<1> QED
  BY <1>2, <1>3 DEF ToggleMainMenu

\* Using an object goes full screen only with the selected object, and with no menu open.
LEMMA UseModal ==
  ASSUME TypeOK, Modes, ~InputTaken, UseNothing \/ \E k \in DOMAIN objects : UseObject(k)
  PROVE  Modal(hud', selected') /\ hud'.spawn = hud.spawn
<1>0. hud \in HudState /\ Modal(hud, selected) /\ Windowed(hud) \in HudState
  BY HudTypes DEF TypeOK, Modes
<1>1. hud.fullscreen = NoInstance /\ ~hud.menu
  BY DEF InputTaken
<1>2. Modal(Windowed(hud), selected) /\ Windowed(hud).spawn = hud.spawn
      /\ Windowed(hud).fullscreen = NoInstance
  BY <1>0, HudModal
<1>3. ASSUME NEW S, NEW s
      PROVE  /\ Modal(Released(Windowed(hud), run, S), s)
             /\ Released(Windowed(hud), run, S).spawn = hud.spawn
  <2>1. Windowed(hud).page = "menu" => Windowed(hud).menu
    BY <1>2 DEF Modal
  <2>2. ~Windowed(hud).menu
    BY <1>0, <1>1 DEF Windowed, HudState
  <2> QED
    BY <1>0, <1>2, <2>1, <2>2, ReleasedModal DEF Modal
<1>4. CASE UseNothing
  BY <1>0, <1>3, <1>4 DEF UseNothing
<1>5. CASE \E k \in DOMAIN objects : UseObject(k)
  <2>1. PICK m \in DOMAIN objects : (m = selected /\ ToggleFullscreen(m)) \/ Select(m)
    BY <1>5, ObjectFacts DEF UseObject
  <2>2. CASE m = selected /\ ToggleFullscreen(m)
    <3>1. selected # 0
      BY <2>2 DEF TypeOK
    <3>2. \A b : Modal(FullScreen(hud, b), selected) /\ FullScreen(hud, b).spawn = hud.spawn
      BY <1>0, <1>1, <3>1 DEF FullScreen, HudState, Modal
    <3>3. hud' = hud \/ (\E b : hud' = FullScreen(hud, b))
      BY <1>1, <2>2 DEF ToggleFullscreen
    <3>4. selected' = selected
      BY <2>2 DEF ToggleFullscreen
    <3> QED
      BY <1>0, <3>2, <3>3, <3>4
  <2>3. CASE Select(m)
    BY <1>3, <2>3 DEF Select
  <2> QED
    BY <2>1, <2>2, <2>3
<1> QED
  BY <1>4, <1>5

\* In the first state nothing is shown.
LEMMA InitModes == Init => Modes
BY DEF Init, Modes, Modal

\* The player's actions keep the modes.
LEMMA PlayerKeepsModes == TypeOK /\ Modes /\ PlayerStep => Modes'
<1> SUFFICES ASSUME TypeOK, Modes, PlayerStep PROVE Modes'
  OBVIOUS
<1>0. /\ hud \in HudState /\ host \in Host /\ Modal(hud, selected)
      /\ ~host.inMap => hud.fullscreen = NoInstance
      /\ host.spawning => hud.spawn
  BY DEF TypeOK, Modes
<1>a. Aimable \subseteq DOMAIN objects
  BY DEF Aimable
<1>b. ASSUME Modal(hud', selected'), hud'.spawn = hud.spawn, host.inMap,
             host'.inMap = host.inMap, host'.spawning = host.spawning
      PROVE  Modes'
  BY <1>0, <1>b DEF Modes, Modal
<1>c. /\ Modal([hud EXCEPT !.input = NoInstance], selected)
      /\ [hud EXCEPT !.input = NoInstance].spawn = hud.spawn
      /\ Modal(Windowed(hud), selected) /\ Windowed(hud).spawn = hud.spawn
  BY <1>0, HudModal
<1>d. host.inMap
  BY DEF PlayerStep, Click, CogObjectUsed, Escape, EnterInputMode, ExitInputMode, Remember,
         MenuKey, DropFile, TabPress, TabRelease, Playing
<1>e. host'.inMap = host.inMap /\ host'.spawning = host.spawning
  BY <1>0 DEF PlayerStep, Click, CogObjectUsed, Escape, EnterInputMode, ExitInputMode, Remember,
              MenuKey, DropFile, TabPress, TabRelease, Host
<1>f. (OpenMenu \/ ToggleMainMenu) => Modes'
  BY <1>b, <1>d, <1>e, MenuModal
<1>g. UNCHANGED <<hud, selected>> => Modes'
  BY <1>0, <1>b, <1>d, <1>e
<1>1. CASE Click \/ CogObjectUsed
  <2>1. ~InputTaken /\ (UseNothing \/ \E k \in DOMAIN objects : UseObject(k))
    BY <1>1, <1>a DEF Click, CogObjectUsed
  <2> QED
    BY <2>1, <1>b, <1>d, <1>e, UseModal
<1>2. CASE Escape
  BY <1>2, <1>b, <1>c, <1>d, <1>e, <1>f DEF Escape
<1>3. CASE EnterInputMode
  <2>1. PICK b : hud' = InputFor(hud, b)
    BY <1>3 DEF EnterInputMode
  <2>2. Modal(InputFor(hud, b), selected) /\ InputFor(hud, b).spawn = hud.spawn
    BY <1>0 DEF InputFor, HudState, Modal
  <2> QED
    BY <1>3, <2>1, <2>2, <1>b, <1>d, <1>e DEF EnterInputMode
<1>4. CASE ExitInputMode
  BY <1>4, <1>b, <1>c, <1>d, <1>e DEF ExitInputMode
<1>5. CASE Remember
  <2>1. hud' = DeselectOnly(hud) /\ selected' = 0 /\ hud.fullscreen = NoInstance
    BY <1>5 DEF Remember, InputTaken
  <2>2. Modal(DeselectOnly(hud), 0) /\ DeselectOnly(hud).spawn = hud.spawn
    BY <1>0, <2>1 DEF DeselectOnly, Windowed, HudState, Modal
  <2> QED
    BY <2>1, <2>2, <1>b, <1>d, <1>e
<1>6. CASE MenuKey \/ DropFile
  BY <1>6, <1>f DEF MenuKey, DropFile
<1>7. CASE TabPress \/ TabRelease
  BY <1>7, <1>f, <1>g DEF TabPress, TabRelease
<1> QED
  BY <1>1, <1>2, <1>3, <1>4, <1>5, <1>6, <1>7 DEF PlayerStep

\* The commands keep the modes: none of them is given with anything full screen.
LEMMA CommandKeepsModes == TypeOK /\ Modes /\ CommandStep => Modes'
<1> SUFFICES ASSUME TypeOK, Modes, CommandStep PROVE Modes'
  OBVIOUS
<1>0. /\ hud \in HudState /\ host \in Host /\ run \in Run /\ Modal(hud, selected)
      /\ ~host.inMap => hud.fullscreen = NoInstance
      /\ host.spawning => hud.spawn
  BY DEF TypeOK, Modes
<1>a. (SlotKey \/ OnPage) => hud.fullscreen = NoInstance
  BY <1>0 DEF SlotKey, OnPage, InputTaken, Modal
<1>b. ASSUME hud.fullscreen = NoInstance, NEW S, hud' = Released(hud, run, S), UNCHANGED host
      PROVE  Modes'
  <2>1. /\ hud'.menu = hud.menu /\ hud'.spawn = hud.spawn /\ (hud'.page = "menu" => hud'.menu)
        /\ hud'.fullscreen = NoInstance
    BY <1>0, <1>b, ReleasedModal DEF Modal
  <2> QED
    BY <1>0, <1>b, <2>1 DEF Modes, Modal
<1>1. CASE TaskClose \/ PageClosesTask
  <2>1. \E S : hud' = Released(hud, run, S)
    BY <1>1 DEF TaskClose, PageClosesTask, Deactivate
  <2> QED
    BY <1>1, <1>a, <1>b, <2>1 DEF TaskClose, PageClosesTask
<1>2. CASE PageCloses
  <2>1. Modal(hud', selected') /\ hud'.spawn = hud.spawn /\ hud'.fullscreen = hud.fullscreen
        /\ UNCHANGED host
    BY <1>0, <1>2, HudModal DEF PageCloses
  <2> QED
    BY <1>0, <2>1 DEF Modes
<1>3. CASE ObjectRemove
  <2>1. \E S : hud' = Released(hud, run, S)
    BY <1>3 DEF ObjectRemove, DestroyObject
  <2> QED
    BY <1>3, <1>a, <1>b, <2>1 DEF ObjectRemove
<1>4. CASE RequestSpawn \/ ToggleSlave
  BY <1>0, <1>4 DEF RequestSpawn, ToggleSlave, Modes
<1>5. CASE RequestMove
  <2>1. host'.inMap = host.inMap /\ host'.spawning = host.spawning /\ UNCHANGED <<hud, selected>>
    BY <1>0, <1>5 DEF RequestMove, Host
  <2> QED
    BY <1>0, <2>1 DEF Modes
<1> QED
  BY <1>1, <1>2, <1>3, <1>4, <1>5 DEF CommandStep

\* The host's steps keep the modes: spawn mode is entered and left on both sides at
\* once, and the unload of a map closes the full-screen browser because it is alive.
LEMMA HostKeepsModes == TypeOK /\ Good(hud, run) /\ Modes /\ HostStep => Modes'
<1> SUFFICES ASSUME TypeOK, Good(hud, run), Modes, HostStep PROVE Modes'
  OBVIOUS
<1>0. /\ hud \in HudState /\ host \in Host /\ run \in Run /\ Modal(hud, selected)
      /\ ~host.inMap => hud.fullscreen = NoInstance
      /\ host.spawning => hud.spawn
  BY DEF TypeOK, Modes
<1>a. /\ NotSpawning.inMap = host.inMap /\ ~NotSpawning.spawning /\ NotSpawning \in Host
  BY <1>0 DEF NotSpawning, Host
<1>1. CASE HostUpdate
  <2> DEFINE h1 == SpawnModeEntered(hud)
             h2 == SpawnModeEntered(h1)
  <2>1. PICK x \in AfterSpawn : hud' = AfterMove(x).hud /\ host' = AfterMove(x).host
    BY <1>1, Zenon DEF HostUpdate
  <2>2. /\ h1 \in HudState /\ Modal(h1, selected) /\ h1.spawn
        /\ h1.fullscreen = hud.fullscreen
    BY <1>0, HudTypes, HudModal
  <2>3. Modal(h2, selected) /\ h2.spawn /\ h2.fullscreen = hud.fullscreen
    BY <2>2, HudModal
  <2>4. /\ hud' \in {hud, h1, h2} /\ host'.inMap = host.inMap
        /\ host'.spawning => host.spawning \/ hud' = h1 \/ hud' = h2
    BY <2>1, FrameHud
  <2>5. selected' = selected
    BY <1>1 DEF HostUpdate
  <2> HIDE DEF h1, h2
  <2>6. Modal(hud', selected') /\ hud'.fullscreen = hud.fullscreen
        /\ (hud' = hud \/ hud'.spawn)
    BY <1>0, <2>2, <2>3, <2>4, <2>5
  <2>7. host'.spawning => hud'.spawn
    BY <1>0, <2>2, <2>3, <2>4
  <2> QED
    BY <1>0, <2>4, <2>6, <2>7 DEF Modes
<1>2. CASE ConfirmSpawn \/ CancelSpawn
  BY <1>0, <1>2, <1>a, HudModal DEF ConfirmSpawn, CancelSpawn, Modes
<1>3. CASE MapUnload
  <2> DEFINE T == {i \in Items : run.inst[i].active}
  <2>1. hud' = Released(hud, run, T) /\ ~host'.spawning
    BY <1>3, <1>a DEF MapUnload, Host
  <2>2. hud.fullscreen # NoInstance => hud.fullscreen \in Gone(run, T)
    <3>1. SUFFICES ASSUME hud.fullscreen # NoInstance PROVE hud.fullscreen \in Gone(run, T)
      OBVIOUS
    <3>2. hud.fullscreen \in Browsers /\ run.memory[hud.fullscreen] # "free"
      BY <3>1 DEF Good, TargetsLive, Alive
    <3>3. PICK i \in Items : Owns(run, i, hud.fullscreen)
      BY <3>2 DEF Good, RunOK, TableOf
    <3>4. i \in T
      BY <3>2, <3>3 DEF Good, RunOK, TableOf
    <3> QED
      BY <3>3, <3>4 DEF Gone, Owns
  <2>3. hud.page = "menu" => hud.menu
    BY <1>0 DEF Modal
  <2> HIDE DEF T
  <2>4. hud'.fullscreen = NoInstance /\ (hud'.page = "menu" => hud'.menu)
    BY <1>0, <2>1, <2>2, <2>3, ReleasedModal
  <2> QED
    BY <2>1, <2>4 DEF Modes, Modal
<1>4. CASE MapLoad
  <2>1. /\ hud.fullscreen = NoInstance /\ hud' = hud
        /\ host'.inMap /\ host'.spawning = host.spawning
    BY <1>0, <1>4 DEF MapLoad, Host
  <2> QED
    BY <1>0, <2>1 DEF Modes, Modal
<1> QED
  BY <1>1, <1>2, <1>3, <1>4 DEF HostStep

\* The modes, with the types and the table they rest on.
LEMMA ModesAlways == Spec => []Modes
<1>1. TypeOK /\ Good(hud, run) /\ Modes /\ [Next]_vars => Modes'
  <2>1. Modes /\ UNCHANGED vars => Modes'
    BY DEF vars, Modes
  <2> QED
    BY <2>1, PlayerKeepsModes, CommandKeepsModes, HostKeepsModes
       DEF Next, PlayerStep, CommandStep, HostStep
<1> QED
  BY <1>1, InitModes, GoodAlways, PTL DEF Spec

\* No menu page is open over a full-screen browser.
THEOREM ModalSafe == Spec => []OneModal
<1>1. Modes => OneModal
  BY DEF Modes, Modal, OneModal
<1> QED
  BY <1>1, ModesAlways, PTL

\* While the host is in spawn mode the core is.
THEOREM SpawnServed == Spec => []SpawnPageServed
<1>1. Modes => SpawnPageServed
  BY DEF Modes, SpawnPageServed
<1> QED
  BY <1>1, ModesAlways, PTL

-----------------------------------------------------------------------------
(* What a step may never do.                                                 *)

\* Erasing an element brings those behind it one place forward.
LEMMA ErasedAt ==
  ASSUME NEW os \in Seq(Object), NEW k \in DOMAIN os
  PROVE  /\ DOMAIN RemoveAt(os, k) = 1 .. Len(os) - 1
         /\ \A j \in 1 .. Len(os) - 1 : RemoveAt(os, k)[j] = IF j < k THEN os[j] ELSE os[j + 1]
<1> DEFINE a == SubSeq(os, 1, k - 1)
           b == SubSeq(os, k + 1, Len(os))
<1>1. k \in 1 .. Len(os) /\ Len(os) \in Nat
  OBVIOUS
<1>2. a \in Seq(Object) /\ Len(a) = k - 1 /\ \A j \in 1 .. k - 1 : a[j] = os[j]
  BY <1>1
<1>3. b \in Seq(Object) /\ Len(b) = Len(os) - k /\ \A j \in 1 .. Len(os) - k : b[j] = os[j + k]
  BY <1>1
<1>4. RemoveAt(os, k) = a \o b
  BY DEF RemoveAt
<1> HIDE DEF a, b
<1>5. /\ Len(a \o b) = (k - 1) + (Len(os) - k) /\ a \o b \in Seq(Object)
      /\ \A j \in 1 .. (k - 1) + (Len(os) - k) :
           (a \o b)[j] = IF j <= k - 1 THEN a[j] ELSE b[j - (k - 1)]
  <2>1. a \in Seq(Object) /\ b \in Seq(Object) /\ Len(a) = k - 1 /\ Len(b) = Len(os) - k
    BY <1>2, <1>3
  <2>2. /\ Len(a \o b) = Len(a) + Len(b) /\ a \o b \in Seq(Object)
        /\ \A j \in 1 .. Len(a) + Len(b) : (a \o b)[j] = IF j <= Len(a) THEN a[j] ELSE b[j - Len(a)]
    BY <2>1, ConcatProperties
  <2> QED BY <2>1, <2>2
<1>6. ASSUME NEW j \in 1 .. Len(os) - 1
      PROVE  (a \o b)[j] = IF j < k THEN os[j] ELSE os[j + 1]
  <2>1. CASE j < k
    <3>1. j \in 1 .. k - 1 /\ j \in 1 .. (k - 1) + (Len(os) - k) /\ j <= k - 1
      BY <2>1, <1>1
    <3> QED BY <2>1, <3>1, <1>2, <1>5
  <2>2. CASE ~(j < k)
    <3> DEFINE l == j - (k - 1)
    <3>1. /\ l \in 1 .. Len(os) - k /\ l + k = j + 1
          /\ j \in 1 .. (k - 1) + (Len(os) - k) /\ ~(j <= k - 1)
      BY <2>2, <1>1
    <3>2. (a \o b)[j] = b[l]
      BY <3>1, <1>5
    <3> HIDE DEF l
    <3>3. b[l] = os[l + k]
      BY <3>1, <1>3
    <3> QED BY <2>2, <3>1, <3>2, <3>3
  <2> QED BY <2>1, <2>2
<1>7. DOMAIN (a \o b) = 1 .. Len(os) - 1
  <2>1. (k - 1) + (Len(os) - k) = Len(os) - 1 /\ Len(os) - 1 \in Nat
    BY <1>1
  <2> QED BY <2>1, <1>5
<1> QED BY <1>4, <1>6, <1>7

\* Erasing an object never moves the selection to another one.
LEMMA EraseStep ==
  ASSUME TypeOK, ObjectRemove
  PROVE  selected' = 0 \/ SelectedThing' = SelectedThing
<1>1. objects \in Seq(Object) /\ selected \in Nat /\ Len(objects) \in Nat
  BY DEF TypeOK
<1>2. PICK k \in DOMAIN objects : DestroyObject(k)
  BY DEF ObjectRemove, Aimable
<1> DEFINE T == {i \in Items : i = objects[k].item /\ run.inst[i].active}
           s == IF selected = k THEN 0 ELSE Deselected(T)
<1>3. objects' = RemoveAt(objects, k) /\ selected' = IF s > k THEN s - 1 ELSE s
  BY <1>2 DEF DestroyObject
<1>4. CASE s = 0
  BY <1>1, <1>3, <1>4
<1>5. CASE s # 0
  <2>1. s = selected /\ selected # k
    BY <1>5 DEF Deselected
  <2> HIDE DEF s
  <2>2. k \in 1 .. Len(objects)
    BY <1>1
  <2>3. /\ DOMAIN objects' = 1 .. Len(objects) - 1
        /\ \A j \in 1 .. Len(objects) - 1 :
             objects'[j] = IF j < k THEN objects[j] ELSE objects[j + 1]
    BY <1>1, <1>3, ErasedAt
  <2>4. CASE selected > k
    <3>1. selected' = selected - 1 /\ selected' >= k
      BY <2>1, <2>2, <2>4, <1>1, <1>3
    <3>2. selected' \in DOMAIN objects' <=> selected \in DOMAIN objects
      BY <3>1, <2>2, <2>3, <2>4, <1>1
    <3>3. selected \in DOMAIN objects => objects'[selected'] = objects[selected]
      BY <3>1, <3>2, <2>2, <2>3, <1>1
    <3> QED BY <3>2, <3>3 DEF SelectedThing
  <2>5. CASE ~(selected > k)
    <3>1. selected' = selected /\ selected < k /\ selected >= 0
      BY <2>1, <2>2, <2>5, <1>1, <1>3
    <3>2. selected' \in DOMAIN objects' <=> selected \in DOMAIN objects
      BY <3>1, <2>2, <2>3, <1>1
    <3>3. selected \in DOMAIN objects => objects'[selected'] = objects[selected]
      BY <3>1, <3>2, <2>3
    <3> QED BY <3>2, <3>3 DEF SelectedThing
  <2> QED BY <2>4, <2>5
<1> QED BY <1>4, <1>5

\* Whatever is erased by destroyObject, the selection stays on its object or is given
\* up: the index follows the objects that moved up.
THEOREM EraseSafe == Spec => EraseKeepsSelection
<1>1. TypeOK /\ [Next]_vars => [ObjectRemove => selected' = 0 \/ SelectedThing' = SelectedThing]_vars
  BY EraseStep
<1> QED
  BY <1>1, TypeCorrect, PTL DEF Spec, EraseKeepsSelection

\* Selecting another object of the same item neither closes nor restarts its instance.
LEMMA SharedStep ==
  ASSUME TypeOK, Good(hud, run), Click, selected # 0, selected' # 0,
         ItemOf(selected) = ItemOf(selected'), NEW i \in Items, i = ItemOf(selected)
  PROVE  run'.inst[i].browser = run.inst[i].browser \/ run.inst[i].browser = NoInstance
<1>1. run \in Run /\ selected \in Nat
  BY DEF TypeOK
<1>2. CASE UseNothing
  BY <1>2 DEF UseNothing
<1>3. CASE \E k \in Aimable : UseObject(k)
  <2>1. PICK m : ToggleFullscreen(m) \/ Select(m)
    BY <1>3 DEF UseObject
  <2>2. CASE ToggleFullscreen(m)
    BY <2>2 DEF ToggleFullscreen
  <2>3. CASE Select(m)
    <3> DEFINE T == {j \in Items : j = ItemOf(selected) /\ j # ItemOf(m) /\ run.inst[j].active}
    <3>1. run' \in Ensured(Closed(run, T), ItemOf(m)) /\ selected' = m
      BY <2>3 DEF Select
    <3>2. T = {} /\ ItemOf(m) = i
      BY <3>1
    <3> DEFINE c == Closed(run, T)
    <3>3. c.inst[i] = run.inst[i]
      BY <3>2 DEF Closed
    <3>4. ASSUME run.inst[i].browser # NoInstance PROVE run' = c
      <4>1. run.inst[i].browser \in Browsers
        BY <3>4, <1>1 DEF Run, Instance
      <4>2. run.inst[i].active
        BY <3>4, <4>1 DEF Good, RunOK, TableOf, Owns
      <4> HIDE DEF c
      <4>3. run' \in Ensured(c, i)
        BY <3>1, <3>2 DEF c
      <4> QED BY <4>2, <4>3, <3>3 DEF Ensured
    <3> QED BY <3>3, <3>4
  <2> QED BY <2>1, <2>2, <2>3
<1> QED BY <1>2, <1>3 DEF Click

\* An object that shows the item of the one selected before takes its instance over:
\* objectUsed closes what runs for another item only.
THEOREM SharedSafe == Spec => SharedItemKept
<1>1. TypeOK /\ Good(hud, run) /\ [Next]_vars =>
        [Click /\ selected # 0 /\ selected' # 0 /\ ItemOf(selected) = ItemOf(selected')
           => \A i \in Items : i = ItemOf(selected) =>
                run'.inst[i].browser = run.inst[i].browser \/ run.inst[i].browser = NoInstance]_vars
  BY SharedStep
<1> QED
  BY <1>1, GoodAlways, PTL DEF Spec, SharedItemKept

=============================================================================
