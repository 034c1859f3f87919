---------------------------- MODULE ItemInstances ----------------------------
(***************************************************************************)
(* The embedded instances of the AArcade items: who is running, who is     *)
(* selected, which browser is full screen or takes the input, and what the *)
(* HUD shows on top (InstanceManager.cpp, aarcadecore.cpp,                 *)
(* UltralightManager.cpp, and the key handling of aaMainMenu.c).           *)
(*                                                                         *)
(* All of it runs on the engine thread: a step is one handler.  The        *)
(* selector ray may point at any placed object or at none, so the aimed    *)
(* thing is chosen anew at each use.  A browser is an address: destroying  *)
(* it frees the address and a later browser may get the same one.          *)
(***************************************************************************)
EXTENDS Naturals, Sequences, SequencesExt, FiniteSets

CONSTANTS
  Items,       \* items of the library
  NoItem,      \* the item of a prop: an object with a model and nothing to show
  Browsers,    \* addresses of embedded instances
  Hud,         \* the embedded instance of the HUD, alive as long as the program
  NoInstance,  \* the null pointer
  Things,      \* engine things; a model change renumbers a thing, which is not modelled
  NoThing,     \* thing index -1
  MaxObjects,  \* bound of the model: objects in the map
  MaxPending   \* bound of the model: spawn requests waiting

ASSUME NamesAssumption ==
  /\ NoItem \notin Items /\ NoThing \notin Things
  /\ NoInstance \notin Browsers \cup {Hud} /\ Hud \notin Browsers
ASSUME BoundsAssumption == MaxObjects \in Nat \ {0} /\ MaxPending \in Nat \ {0}

VARIABLES
  objects,   \* objects_: what stands in the map, in the order it was spawned
  selected,  \* selectedObjectIndex_ + 1; 0 is none
  run,       \* itemInstances_, g_tasks and the heap the browsers live in
  hud,       \* the page of the HUD and the pointers to overlaid instances
  host,      \* the engine's side: map, spawn mode, the Tab key
  pending    \* pendingSpawns_

vars == <<objects, selected, run, hud, host, pending>>

\* solid is the engine's collide flag: what is not solid cannot be aimed at or used.
Object   == [thing : Things, item : Items \cup {NoItem}, slave : BOOLEAN, solid : BOOLEAN]
Request  == [item : Items \cup {NoItem}, restore : BOOLEAN]
Instance == [active : BOOLEAN, browser : Browsers \cup {NoInstance}, task : Nat]
Run      == [inst : [Items -> Instance], tasks : Seq(Browsers \cup {NoInstance}),
             memory : [Browsers -> {"free", "libretro", "other"}]]
HudState == [page : {"blank", "overlay", "menu", "spawnMode"},
             menu : BOOLEAN, spawn : BOOLEAN,
             overlayFor : Browsers \cup {NoInstance},
             fullscreen : Browsers \cup {NoInstance},
             input : Browsers \cup {Hud, NoInstance}]
Host     == [inMap : BOOLEAN, spawning : BOOLEAN, moving : BOOLEAN,
             preview : Things \cup {NoThing}, moveAsked : Things \cup {NoThing},
             tabHeld : BOOLEAN]

\* Every field keeps its type; in particular nothing but the HUD and a browser is
\* given the input, and a request names an item or a prop.
TypeOK ==
  /\ objects \in Seq(Object) /\ selected \in Nat
  /\ run \in Run /\ hud \in HudState /\ host \in Host
  /\ pending \in Seq(Request)

\* An item without an entry in itemInstances_ and one whose entry is not active
\* are never told apart.
Idle == [active |-> FALSE, browser |-> NoInstance, task |-> 0]

\* An entry whose browser could not be made.
Screenless == [active |-> TRUE, browser |-> NoInstance, task |-> 0]

Init ==
  /\ objects = <<>> /\ selected = 0 /\ pending = <<>>
  /\ run = [inst |-> [i \in Items |-> Idle], tasks |-> <<>>,
            memory |-> [b \in Browsers |-> "free"]]
  /\ hud = [page |-> "blank", menu |-> FALSE, spawn |-> FALSE,
            overlayFor |-> NoInstance, fullscreen |-> NoInstance, input |-> NoInstance]
  /\ host = [inMap |-> FALSE, spawning |-> FALSE, moving |-> FALSE,
             preview |-> NoThing, moveAsked |-> NoThing, tabHeld |-> FALSE]

-----------------------------------------------------------------------------
(* Starting and closing instances.                                         *)

Live == {b \in Browsers : run.memory[b] # "free"}

\* addTask: the first freed slot, else a new one.
FreeSlots(tasks) == {k \in DOMAIN tasks : tasks[k] = NoInstance}

TaskSlot(tasks) ==
  IF FreeSlots(tasks) = {} THEN Len(tasks) + 1
  ELSE CHOOSE k \in FreeSlots(tasks) : \A l \in FreeSlots(tasks) : k <= l

AddTask(tasks, b) ==
  IF FreeSlots(tasks) = {} THEN Append(tasks, b)
                           ELSE [tasks EXCEPT ![TaskSlot(tasks)] = b]

Started(r, i, b, kind) ==
  [inst   |-> [r.inst EXCEPT ![i] = [active |-> TRUE, browser |-> b,
                                     task |-> TaskSlot(r.tasks)]],
   tasks  |-> AddTask(r.tasks, b),
   memory |-> [r.memory EXCEPT ![b] = kind]]

\* The cap looks through itemInstances_, never at the browsers themselves.
LibretroListed(r) ==
  \E i \in Items : \E b \in Browsers : r.inst[i].browser = b /\ r.memory[b] = "libretro"

\* ensureItemInstance: what may come of it.  Nothing (the library lost the item, or
\* a second libretro core is refused), an entry without a browser (no usable
\* content, or its initialisation failed), or a browser of one of the two kinds.
Ensured(r, i) ==
  IF i = NoItem \/ r.inst[i].active THEN {r}
  ELSE LET Free  == {b \in Browsers : r.memory[b] = "free"}
           Kinds == IF LibretroListed(r) THEN {"other"} ELSE {"libretro", "other"}
       IN  {r, [r EXCEPT !.inst[i] = Screenless]}
             \cup {Started(r, i, b, k) : b \in Free, k \in Kinds}

\* deactivateInstance for each item of S: its task and its browser are gone ...
Gone(r, S) == {r.inst[i].browser : i \in S \cap Items} \ {NoInstance}

\* Mutant: the slot of g_tasks is not freed.
SlotKeptClosed(r, S) ==
  [inst   |-> [i \in Items |-> IF i \in S THEN Idle ELSE r.inst[i]],
   tasks  |-> r.tasks,
   memory |-> [b \in Browsers |-> IF b \in Gone(r, S) THEN "free" ELSE r.memory[b]]]

\* Mutant: the entry forgets its browser before the browser is shut down.
EntryForgottenClosed(r, S) ==
  [inst   |-> [i \in Items |-> IF i \in S THEN Idle ELSE r.inst[i]],
   tasks  |-> [k \in DOMAIN r.tasks |->
                 IF \E i \in S \cap Items : r.inst[i].task = k
                   THEN NoInstance ELSE r.tasks[k]],
   memory |-> r.memory]

Closed(r, S) ==
  [inst   |-> [i \in Items |-> IF i \in S THEN Idle ELSE r.inst[i]],
   tasks  |-> [k \in DOMAIN r.tasks |->
                 IF \E i \in S \cap Items : r.inst[i].task = k
                   THEN NoInstance ELSE r.tasks[k]],
   memory |-> [b \in Browsers |-> IF b \in Gone(r, S) THEN "free" ELSE r.memory[b]]]

InputKeptReleased(h, r, S) ==
  IF h.fullscreen \in Gone(r, S)
    THEN [h EXCEPT !.fullscreen = NoInstance, !.page = "blank", !.overlayFor = NoInstance]
    ELSE h

\* ... it is neither full screen nor takes input any more, and if then nothing is,
\* UnloadOverlay blanks the page.
Released(h, r, S) ==
  LET Left(b) == IF b \in Gone(r, S) THEN NoInstance ELSE b
      h1      == [h EXCEPT !.fullscreen = Left(h.fullscreen), !.input = Left(h.input)]
  IN  IF Gone(r, S) # {} /\ h1.fullscreen = NoInstance /\ h1.input = NoInstance
        THEN [h1 EXCEPT !.page = "blank", !.overlayFor = NoInstance]
        ELSE h1

\* ... and neither is its object selected.
ItemOf(k)     == IF k \in DOMAIN objects THEN objects[k].item ELSE NoItem
Deselected(S) == IF ItemOf(selected) \in S THEN 0 ELSE selected

Deactivate(S) ==
  LET T == {i \in S \cap Items : run.inst[i].active}
  IN  /\ run' = Closed(run, T)
      /\ hud' = Released(hud, run, T)
      /\ selected' = Deselected(T)

-----------------------------------------------------------------------------
(* The HUD and the pointers to overlaid instances.                         *)

Windowed(h) == [h EXCEPT !.fullscreen = NoInstance]

\* setFullscreenInstance with an instance: the overlay is loaded for it.
FullScreen(h, b) == [h EXCEPT !.fullscreen = b, !.page = "overlay", !.overlayFor = b]

OverlaidInputFor(h, b) == [h EXCEPT !.input = b, !.page = "overlay", !.overlayFor = b]

\* enter_input_mode_for_selected: in spawn mode the page is left alone.
InputFor(h, b) ==
  IF h.spawn THEN [h EXCEPT !.input = b]
             ELSE [h EXCEPT !.input = b, !.page = "overlay", !.overlayFor = b]

MenuClosed(h) == IF h.menu THEN [h EXCEPT !.menu = FALSE, !.page = "blank"] ELSE h

FullScreenDeselectOnly(h) == h

\* deselectOnly, which every Open...Menu begins with.
DeselectOnly(h) == IF selected = 0 THEN h ELSE Windowed(h)

OpenMenu ==
  /\ hud' = [DeselectOnly(hud) EXCEPT !.menu = TRUE, !.page = "menu"]
  /\ selected' = 0

ToggleMainMenu ==
  IF hud.menu THEN hud' = MenuClosed(hud) /\ UNCHANGED selected ELSE OpenMenu

ToggledSpawnModeEntered(h) ==
  IF h.menu THEN MenuClosed(h)
  ELSE IF h.spawn THEN h ELSE [h EXCEPT !.spawn = TRUE, !.page = "spawnMode"]

\* aarcadecore_enter_spawn_mode and aarcadecore_exit_spawn_mode
SpawnModeEntered(h) ==
  LET h1 == MenuClosed(h)
  IN  IF h1.spawn THEN h1 ELSE [h1 EXCEPT !.spawn = TRUE, !.page = "spawnMode"]

SpawnModeLeft(h) ==
  IF h.spawn THEN [h EXCEPT !.spawn = FALSE, !.page = "blank"] ELSE h

\* aarcadecore_is_main_menu_open is wider than its name; the engine's own keys are
\* cut off while it holds.
InputTaken == hud.input # NoInstance \/ hud.fullscreen # NoInstance \/ hud.menu

-----------------------------------------------------------------------------
(* Masters, and using an object.                                           *)

\* The first object that shows item i: what findThingForItem finds.
FirstOf(i) ==
  CHOOSE k \in DOMAIN objects :
    objects[k].item = i /\ \A l \in 1 .. k - 1 : objects[l].item # i

Placed(i) == \E k \in DOMAIN objects : objects[k].item = i
IsActive(i) == i \in Items /\ run.inst[i].active

\* resolveMasterThingIdx, on object indices: a slave without an instance of its own
\* stands for the selected object, or for one whose item runs (the remembered one,
\* else the first of the map: whichever).
Masters(k) ==
  LET Running == {i \in Items : IsActive(i) /\ Placed(i)}
  IN  IF ~objects[k].slave \/ IsActive(objects[k].item) THEN {k}
      ELSE IF IsActive(ItemOf(selected)) THEN {selected}
      ELSE IF Running = {} THEN {k} ELSE {FirstOf(i) : i \in Running}

\* objectUsed on nothing: the selected object is deselected and closed.
UseNothing ==
  IF selected \in DOMAIN objects
    THEN LET T == {i \in Items : i = ItemOf(selected) /\ run.inst[i].active}
         IN  run' = Closed(run, T) /\ hud' = Released(Windowed(hud), run, T) /\ selected' = 0
    ELSE UNCHANGED <<run, hud, selected>>

\* objectUsed on the selected object toggles full screen ...
ToggleFullscreen(k) ==
  /\ UNCHANGED <<run, selected>>
  /\ LET b == IF IsActive(ItemOf(k)) THEN run.inst[ItemOf(k)].browser ELSE NoInstance
     IN  hud' = IF hud.fullscreen # NoInstance THEN Windowed(hud)
                ELSE IF b # NoInstance THEN FullScreen(hud, b) ELSE hud

RestartingSelect(k) ==
  LET T == {i \in Items : i = ItemOf(selected) /\ run.inst[i].active}
  IN  /\ selected' = k
      /\ hud' = Released(Windowed(hud), run, T)
      /\ run' \in Ensured(Closed(run, T), ItemOf(k))

\* ... and on another one selects it, closes the instance of the one before unless
\* both show the same item, and starts its own.
Select(k) ==
  LET T == {i \in Items : i = ItemOf(selected) /\ i # ItemOf(k) /\ run.inst[i].active}
  IN  /\ selected' = k
      /\ hud' = Released(Windowed(hud), run, T)
      /\ run' \in Ensured(Closed(run, T), ItemOf(k))

UseObject(k) ==
  \E m \in Masters(k) : IF m = selected THEN ToggleFullscreen(m) ELSE Select(m)

-----------------------------------------------------------------------------
(* Keys (aaMainMenu_Update) and the COG verb.                              *)

Playing == host.inMap /\ ~host.spawning

\* What the selector ray may hit: a preview is not solid.
Aimable == {k \in DOMAIN objects : objects[k].solid}

\* The left mouse button, on the aimed object or on nothing.
Click ==
  /\ Playing /\ ~InputTaken
  /\ UseNothing \/ \E k \in Aimable : UseObject(k)
  /\ UNCHANGED <<objects, host, pending>>

\* aaojk_objectused: the player activated the thing, in spawn mode too.
CogObjectUsed ==
  /\ host.inMap /\ ~InputTaken
  /\ \E k \in Aimable : UseObject(k)
  /\ UNCHANGED <<objects, host, pending>>

Escape ==
  /\ Playing
  /\ IF hud.input # NoInstance THEN hud' = [hud EXCEPT !.input = NoInstance] /\ UNCHANGED selected
     ELSE IF hud.fullscreen # NoInstance THEN hud' = Windowed(hud) /\ UNCHANGED selected
     ELSE ToggleMainMenu
  /\ UNCHANGED <<objects, run, host, pending>>

\* getInputTarget: the browser of the selected object, else of the aimed one, else
\* the HUD in spawn mode.
BrowserOf(k) == IF IsActive(ItemOf(k)) THEN run.inst[ItemOf(k)].browser ELSE NoInstance

OfObject(k) == IF k \in DOMAIN objects THEN {BrowserOf(m) : m \in Masters(k)} ELSE {NoInstance}

InputTargets ==
  LET Second == (UNION {OfObject(k) : k \in Aimable}) \cup {NoInstance}
      Third  == IF NoInstance \notin Second \/ ~hud.spawn THEN Second
                ELSE (Second \ {NoInstance}) \cup {Hud}
  IN  IF NoInstance \in OfObject(selected)
        THEN (OfObject(selected) \ {NoInstance}) \cup Third ELSE OfObject(selected)

\* The right mouse button or G.
EnterInputMode ==
  /\ host.inMap
  /\ IF host.spawning THEN hud.input = NoInstance ELSE ~InputTaken
  /\ \E b \in InputTargets \ {NoInstance} : hud' = InputFor(hud, b)
  /\ UNCHANGED <<objects, selected, run, host, pending>>

ExitInputMode ==
  /\ host.inMap /\ hud.input # NoInstance
  /\ hud' = [hud EXCEPT !.input = NoInstance]
  /\ UNCHANGED <<objects, selected, run, host, pending>>

\* R: deselect, then start the aimed object's item without selecting it.
Remember ==
  /\ Playing /\ ~InputTaken
  /\ hud' = DeselectOnly(hud) /\ selected' = 0
  /\ \/ UNCHANGED run
     \/ \E k \in Aimable : \E m \in Masters(k) : run' \in Ensured(run, ItemOf(m))
  /\ UNCHANGED <<objects, host, pending>>

\* F4 and F6 open the tab menu and do not ask about input mode; the middle mouse
\* button opens the build menu when they would, unless input is taken.
MenuKey ==
  /\ Playing /\ hud.fullscreen = NoInstance
  /\ OpenMenu
  /\ UNCHANGED <<objects, run, host, pending>>

\* A file dropped on the window opens the item page, whatever goes on.
DropFile ==
  /\ host.inMap /\ OpenMenu
  /\ UNCHANGED <<objects, run, host, pending>>

\* Tab shows the tab menu while it is held.  With a weapon out and nothing open, the
\* key is only tracked.
TabPress ==
  /\ Playing /\ ~host.tabHeld
  /\ host' = [host EXCEPT !.tabHeld = TRUE]
  /\ \/ ~InputTaken /\ OpenMenu
     \/ UNCHANGED <<hud, selected>>
  /\ UNCHANGED <<objects, run, pending>>

TabRelease ==
  /\ Playing /\ host.tabHeld
  /\ host' = [host EXCEPT !.tabHeld = FALSE]
  /\ IF InputTaken THEN ToggleMainMenu ELSE UNCHANGED <<hud, selected>>
  /\ UNCHANGED <<objects, run, pending>>

-----------------------------------------------------------------------------
(* Commands on the aimed object: weapon slots, which work while the engine *)
(* has the keyboard, and the buttons of the menu pages.                    *)

SlotKey  == host.inMap /\ ~InputTaken
OnPage   == host.inMap /\ hud.page = "menu"

\* TaskClose: the instance of the aimed object's master, else any active one.
TaskClose ==
  /\ SlotKey
  /\ \E i \in Items : run.inst[i].active /\ Deactivate({i})
  /\ UNCHANGED <<objects, host, pending>>

\* deactivateInstance from the task list of a page
PageClosesTask ==
  /\ OnPage /\ \E i \in Items : run.inst[i].active /\ Deactivate({i})
  /\ UNCHANGED <<objects, host, pending>>

\* The page calls closeMenu, UltralightManager_Update closes the menu.
PageCloses ==
  /\ OnPage /\ hud.menu /\ hud' = MenuClosed(hud)
  /\ UNCHANGED <<objects, selected, run, host, pending>>

UnshiftedDestroyObject(k) ==
  LET T == {i \in Items : i = objects[k].item /\ run.inst[i].active}
  IN  /\ objects' = RemoveAt(objects, k)
      /\ run' = Closed(run, T)
      /\ hud' = Released(hud, run, T)
      /\ selected' = IF selected = k THEN 0 ELSE Deselected(T)

\* destroyObject: it also closes the item's instance, which other objects may show.
DestroyObject(k) ==
  LET T == {i \in Items : i = objects[k].item /\ run.inst[i].active}
      s == IF selected = k THEN 0 ELSE Deselected(T)
  IN  /\ objects' = RemoveAt(objects, k)
      /\ run' = Closed(run, T)
      /\ hud' = Released(hud, run, T)
      /\ selected' = IF s > k THEN s - 1 ELSE s

ObjectRemove ==
  /\ SlotKey \/ OnPage
  /\ \E k \in Aimable : DestroyObject(k)
  /\ UNCHANGED <<host, pending>>

\* requestSpawn and requestSpawnModel: an aimed object is cloned, or a page spawns any.
RequestSpawn ==
  /\ Len(pending) < MaxPending
  /\ \E i \in Items \cup {NoItem} :
       /\ OnPage \/ (SlotKey /\ \E k \in Aimable : objects[k].item = i)
       /\ pending' = Append(pending, [item |-> i, restore |-> FALSE])
  /\ UNCHANGED <<objects, selected, run, hud, host>>

RequestMove ==
  /\ SlotKey \/ OnPage
  /\ host.moveAsked = NoThing
  /\ \E k \in Aimable : host' = [host EXCEPT !.moveAsked = objects[k].thing]
  /\ UNCHANGED <<objects, selected, run, hud, pending>>

ToggleSlave ==
  /\ OnPage
  /\ \E k \in Aimable : objects' = [objects EXCEPT ![k].slave = ~objects[k].slave]
  /\ UNCHANGED <<selected, run, hud, host, pending>>

-----------------------------------------------------------------------------
(* The frame of the host (AACoreManager_Update), spawn mode, and the map.  *)

Entered(h, moving, t) ==
  [h EXCEPT !.spawning = TRUE, !.moving = moving, !.preview = t]

Solid(os, t, b) == [k \in DOMAIN os |-> IF os[k].thing = t THEN [os[k] EXCEPT !.solid = b] ELSE os[k]]

\* The next spawn request: restored objects are placed at once, others become the
\* preview (and a move under way is not ended first).  The engine may find no place.
Unplaced == Things \ {objects[k].thing : k \in DOMAIN objects}

Spawned(t, slave) ==
  LET q  == Head(pending)
      os == Append(objects, [thing |-> t, item |-> q.item,
                             slave |-> slave /\ q.restore, solid |-> q.restore])
  IN  IF q.restore THEN [objects |-> os, host |-> host, hud |-> hud]
      ELSE [objects |-> os, host |-> Entered(host, host.moving, t),
            hud |-> SpawnModeEntered(hud)]

AfterSpawn ==
  {[objects |-> objects, host |-> host, hud |-> hud]} \cup
  (IF pending = <<>> \/ ~host.inMap \/ Len(objects) >= MaxObjects THEN {}
   ELSE {Spawned(t, slave) : t \in Unplaced, slave \in BOOLEAN})

\* Then the move request: dropped in spawn mode, or when its thing is gone.
AfterMove(x) ==
  LET t == x.host.moveAsked
      y == [x EXCEPT !.host.moveAsked = NoThing]
  IN  IF x.host.spawning \/ \A k \in DOMAIN x.objects : x.objects[k].thing # t THEN y
      ELSE [y EXCEPT !.host = Entered(@, TRUE, t), !.hud = SpawnModeEntered(@),
                     !.objects = Solid(@, t, FALSE)]

HostUpdate ==
  /\ \E x \in AfterSpawn :
       LET y == AfterMove(x)
       IN  objects' = y.objects /\ host' = y.host /\ hud' = y.hud
  /\ pending' = IF pending = <<>> THEN pending ELSE Tail(pending)
  /\ UNCHANGED <<selected, run>>

NotSpawning == [host EXCEPT !.spawning = FALSE, !.moving = FALSE, !.preview = NoThing]

\* The object of a thing: at most one, since the engine gives out free things.
ObjectsOf(t) == {k \in DOMAIN objects : objects[k].thing = t}

\* The left mouse button in spawn mode
ConfirmSpawn ==
  /\ host.inMap /\ host.spawning /\ hud.input = NoInstance
  /\ objects' = Solid(objects, host.preview, TRUE)
  /\ host' = NotSpawning /\ hud' = SpawnModeLeft(hud)
  /\ UNCHANGED <<selected, run, pending>>

\* Escape in spawn mode: a moved object is put back, a new one is erased
\* (removeSpawnedByThingIdx leaves selectedObjectIndex_ alone).
CancelSpawn ==
  /\ host.inMap /\ host.spawning /\ hud.input = NoInstance
  /\ objects' = IF host.moving THEN Solid(objects, host.preview, TRUE)
                ELSE IF ObjectsOf(host.preview) = {} THEN objects
                ELSE RemoveAt(objects, CHOOSE k \in ObjectsOf(host.preview) : TRUE)
  /\ host' = NotSpawning /\ hud' = SpawnModeLeft(hud)
  /\ UNCHANGED <<selected, run, pending>>

\* The map is closed: the host forgets spawn mode, the core closes every instance.
MapUnload ==
  /\ host.inMap
  /\ host' = [NotSpawning EXCEPT !.inMap = FALSE]
  /\ LET T == {i \in Items : run.inst[i].active}
     IN  run' = Closed(run, T) /\ hud' = Released(hud, run, T)
  /\ objects' = <<>> /\ selected' = 0
  /\ UNCHANGED pending

\* A map is opened: its saved objects are asked for, behind what is still waiting.
MapLoad ==
  /\ ~host.inMap
  /\ host' = [host EXCEPT !.inMap = TRUE]
  /\ objects' = <<>> /\ selected' = 0
  /\ \E n \in 0 .. MaxPending - Len(pending) : \E saved \in [1 .. n -> Items \cup {NoItem}] :
       pending' = pending \o [k \in 1 .. n |-> [item |-> saved[k], restore |-> TRUE]]
  /\ UNCHANGED <<run, hud>>

Next ==
  \/ Click \/ CogObjectUsed \/ Escape \/ EnterInputMode \/ ExitInputMode \/ Remember
  \/ MenuKey \/ DropFile \/ TabPress \/ TabRelease
  \/ TaskClose \/ PageClosesTask \/ PageCloses \/ ObjectRemove
  \/ RequestSpawn \/ RequestMove \/ ToggleSlave
  \/ HostUpdate \/ ConfirmSpawn \/ CancelSpawn \/ MapUnload \/ MapLoad

Spec == Init /\ [][Next]_vars

-----------------------------------------------------------------------------
(* Properties.                                                             *)

Owns(r, i, b) == b # NoInstance /\ r.inst[i].browser = b

TableOf(r) ==
  /\ \A i \in Items : \A b \in Browsers : Owns(r, i, b) =>
       /\ r.inst[i].active /\ r.memory[b] # "free"
       /\ r.inst[i].task \in DOMAIN r.tasks /\ r.tasks[r.inst[i].task] = b
  /\ \A k \in DOMAIN r.tasks : r.tasks[k] # NoInstance =>
       \E i \in Items : Owns(r, i, r.tasks[k]) /\ r.inst[i].task = k
  /\ \A b \in Browsers : r.memory[b] # "free" => \E i \in Items : Owns(r, i, b)
  /\ \A i, j \in Items : \A b \in Browsers : Owns(r, i, b) /\ Owns(r, j, b) => i = j

\* The task table and the items agree: a browser is alive exactly when one active
\* item owns it, that item's slot of g_tasks holds it, and no slot holds anything
\* else, so no task is rendered or updated after its browser was freed, and none is
\* shown on the screen of another item.
TaskTable == TableOf(run)

\* Closing, destroying or unloading in any order never leaves a freed browser full
\* screen or taking the input.
NoDanglingTarget ==
  /\ hud.fullscreen \in Live \cup {NoInstance}
  /\ hud.input \in Live \cup {Hud, NoInstance}

\* ensureItemInstance caps libretro: "hard-cap at one libretro instance live at a time".
\* It looks for one among the entries of the items: however instances are closed and
\* their addresses reused, no core runs that no entry knows of, or the cap would miss it.
OneLibretro ==
  \A b, c \in Browsers : run.memory[b] = "libretro" /\ run.memory[c] = "libretro" => b = c

\* No menu page covers a full-screen browser: the two would both draw over the game,
\* and Escape would leave the one below.
OneModal == ~(hud.menu /\ hud.fullscreen # NoInstance)

\* While the host is in spawn mode so is the core: the slider page can take the input.
SpawnPageServed == host.spawning => hud.spawn

SelectedThing == IF selected \in DOMAIN objects THEN objects[selected].thing ELSE NoThing

\* Erasing an object (destroyObject) never moves the selection to another one, nor
\* behind the last: what was selected still is, or nothing is.
EraseKeepsSelection ==
  [][ObjectRemove => selected' = 0 \/ SelectedThing' = SelectedThing]_vars

\* An object that shows the item of the one selected before takes its instance over.
SharedItemKept ==
  [][Click /\ selected # 0 /\ selected' # 0 /\ ItemOf(selected) = ItemOf(selected')
       => \A i \in Items : i = ItemOf(selected) => run'.inst[i].browser = run.inst[i].browser
                                                     \/ run.inst[i].browser = NoInstance]_vars

=============================================================================
