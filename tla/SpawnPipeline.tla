---------------------------- MODULE SpawnPipeline ----------------------------
(***************************************************************************)
(* How an AArcade object gets into the map, is moved, changes its model,   *)
(* and leaves: the frame of the host (AACoreManager_Update), the queues of *)
(* the core it drains (InstanceManager), the slots of the engine's things  *)
(* (sithThing.c), and the rows of the library that bring the objects back. *)
(*                                                                         *)
(* A thing is its slot: an index and a pointer to a slot are the same      *)
(* here, and both outlive what stood in it.  Where a thing stands is left  *)
(* out; its model and its scale are kept, since they are saved.            *)
(***************************************************************************)
EXTENDS Integers, Sequences, SequencesExt, FiniteSets

CONSTANTS
  Slots,       \* things the level has room for
  Swept,       \* those that a creation sweeps when none is free
  NoThing,     \* thing index -1
  Models,      \* models of the library
  Screenless,  \* those without a "dynscreen" material
  Engine,      \* the model of a thing the engine made for itself
  NoModel,     \* the empty template name
  Scales,      \* scales of the slider; 1 is the default
  NumKeys,     \* bound of the model: objects and rows
  MaxWaiting,  \* bound of the model: entries of one queue
  Occurs       \* of Situations, those that come up

\* What the code has no answer for, so that a run says whether it comes up: the
\* level's things run out; a model changes and neither its template nor the fallback
\* is loaded; the map changes with requests waiting; the preview itself is removed.
Situations == {"full", "noTemplate", "leftOver", "previewRemoved"}

ASSUME SizesAssumption ==
  /\ NoThing \notin Slots /\ Swept \subseteq Slots /\ IsFiniteSet(Slots)
  /\ NumKeys \in Nat \ {0} /\ MaxWaiting \in Nat \ {0}
ASSUME ModelsAssumption ==
  /\ Screenless \subseteq Models /\ Engine \notin Models
  /\ NoModel \notin Models \cup {Engine} /\ 1 \in Scales /\ Scales \subseteq Nat
ASSUME OccursAssumption == Occurs \subseteq Situations

Keys  == 1 .. NumKeys
NoKey == 0

VARIABLES
  world,  \* the slots of sithWorld_pCurrentWorld
  host,   \* the file variables of AACoreManager.c
  core,   \* the members of InstanceManager that are not queues
  queue,  \* its queues
  saved   \* the rows of instance_objects for this map

vars == <<world, host, core, queue, saved>>

Thing   == [state : {"free", "live", "going"}, model : Models \cup {Engine}, solid : BOOLEAN]
Object  == [thing : Slots, model : Models, key : Keys, scale : Scales]
Request == [model : Models, key : Keys \cup {NoKey}, scale : Scales]
World   == [Slots -> Thing]
Host    == [inMap : BOOLEAN, preview : Slots \cup {NoThing}, moving : BOOLEAN,
            orig : Models \cup {NoModel}, registered : [Slots -> Nat],
            aimed : Slots \cup {NoThing}, cached : BOOLEAN]
Core    == [objects : Seq(Object), preview : Slots \cup {NoThing},
            aimed : Slots \cup {NoThing}, restored : BOOLEAN, page : BOOLEAN,
            slider : Scales, sliderSet : BOOLEAN,
            instance : BOOLEAN,        \* currentInstanceId_ is not empty
            missed : SUBSET Keys]      \* history: rows of this map not brought back
Queue   == [spawns : Seq(Request), destroys : Seq(Slots), moves : Seq(Slots),
            models : Seq(Models)]
Absent  == [model |-> NoModel, scale |-> 1]
Row     == [model : Models, scale : Scales] \cup {Absent}

TypeOK ==
  /\ world \in World /\ host \in Host /\ core \in Core /\ queue \in Queue
  /\ saved \in [Keys -> Row]

Vacant == [state |-> "free", model |-> Engine, solid |-> FALSE]

EmptyWorld == [t \in Slots |-> Vacant]

IdleHost == [inMap |-> FALSE, preview |-> NoThing, moving |-> FALSE, orig |-> NoModel,
             registered |-> [t \in Slots |-> 0], aimed |-> NoThing, cached |-> FALSE]

Init ==
  /\ world = EmptyWorld /\ host = IdleHost
  /\ core = [objects |-> <<>>, preview |-> NoThing, aimed |-> NoThing,
             restored |-> FALSE, page |-> FALSE, slider |-> 1, sliderSet |-> FALSE,
             instance |-> FALSE, missed |-> {}]
  /\ queue = [spawns |-> <<>>, destroys |-> <<>>, moves |-> <<>>, models |-> <<>>]
  /\ saved = [k \in Keys |-> Absent]

-----------------------------------------------------------------------------
(* Slots of things.                                                        *)

Free(w)  == {t \in Slots : w[t].state = "free"}
Going(w) == {t \in Slots : w[t].state = "going"}

\* sithThing_FreeEverythingNet, for the slots of S
Freed(w, S) == [t \in Slots |-> IF t \in S THEN Vacant ELSE w[t]]

\* sithThing_Destroy, for the slots of S, only marks the things.
Destroyed(w, S) ==
  [t \in Slots |-> IF t \in S /\ w[t].state # "free" THEN [w[t] EXCEPT !.state = "going"] ELSE w[t]]

\* sithThing_Create: some free slot (the one freed last, which depends on all the
\* engine did); with none free, the first slots are swept for marked things.
Create(w, m) ==
  LET w1 == IF Free(w) = {} THEN Freed(w, Going(w) \cap Swept) ELSE w
  IN  IF Free(w1) = {} THEN {[world |-> w1, thing |-> NoThing]}
      ELSE {[world |-> [w1 EXCEPT ![t] = [state |-> "live", model |-> m, solid |-> TRUE]],
             thing |-> t] : t \in Free(w1)}

WithSolid(w, t, b) == [w EXCEPT ![t].solid = b]

-----------------------------------------------------------------------------
(* Lookups by thing, each of which takes the first match.                  *)

Find(os, t) == SelectInSeq(os, LAMBDA o : o.thing = t)

WithThing(os, t, new) ==
  IF Find(os, t) = 0 THEN os ELSE [os EXCEPT ![Find(os, t)].thing = new]

WithoutThing(os, t) == IF Find(os, t) = 0 THEN os ELSE RemoveAt(os, Find(os, t))

ModelOf(os, t) == IF Find(os, t) = 0 THEN NoModel ELSE os[Find(os, t)].model

\* AACoreManager_RegisterThingTask: without a screen a thing is left out, unless
\* another one of this map has shown where the material is.  registered counts the
\* entries of a thing; their order is never looked at.
Registered(h, w, t) ==
  IF w[t].model \in Screenless /\ ~h.cached THEN h
  ELSE [h EXCEPT !.registered[t] = @ + 1, !.cached = TRUE]

Without(n, m) == IF n <= m THEN 0 ELSE n - m

Unregistered(h, t) == [h EXCEPT !.registered[t] = Without(@, 1)]

KeysInUse == {core.objects[k].key : k \in DOMAIN core.objects}
               \cup {k \in Keys : saved[k] # Absent}
               \cup {queue.spawns[k].key : k \in DOMAIN queue.spawns}

\* generateFirebasePushId
FreshKey == CHOOSE k \in Keys \ KeysInUse : TRUE

\* A bound of the model: with no key left, no new object is asked for or made.
KeyLeft == Keys \ KeysInUse # {}

-----------------------------------------------------------------------------
(* One frame of the host.  Each part maps a state, a record of the         *)
(* variables, to the states that may follow it.                            *)

\* The selector ray: any registered, solid thing still in its slot, or none.
Aimable(s) == {t \in Slots : /\ s.host.registered[t] > 0
                             /\ s.world[t].state # "free" /\ s.world[t].solid}

Aimed(s) ==
  {IF t = s.host.aimed THEN s ELSE [s EXCEPT !.host.aimed = t, !.core.aimed = t] :
     t \in IF s.host.inMap THEN Aimable(s) \cup {NoThing} ELSE {NoThing}}

\* A thing is destroyed and made again from another template, under a new index.
\* The old one is gone by the time the template is looked up, or a slot.
Remade(s, old, m) ==
  LET w == Destroyed(s.world, {old})
  IN  Create(w, m) \cup (IF "noTemplate" \in Occurs THEN {[world |-> w, thing |-> NoThing]} ELSE {})

UnannouncedModelChanged(s) ==
  LET old == s.host.preview
      To(c) ==
        LET s1 == [s EXCEPT !.queue.models = Tail(@), !.world = c.world,
                            !.host = Unregistered(@, old)]
        IN  IF c.thing = NoThing THEN s1
            ELSE [s1 EXCEPT !.world = WithSolid(@, c.thing, FALSE),
                            !.host = [Registered(@, c.world, c.thing) EXCEPT !.preview = c.thing]]
  IN  IF old = NoThing \/ s.queue.models = <<>> THEN {s}
      ELSE {To(c) : c \in Remade(s, old, Head(s.queue.models))}

ModelChanged(s) ==
  LET old == s.host.preview
      To(c) ==
        LET s1 == [s EXCEPT !.queue.models = Tail(@), !.world = c.world,
                            !.host = Unregistered(@, old)]
        IN  IF c.thing = NoThing THEN s1
            ELSE [s1 EXCEPT !.world = WithSolid(@, c.thing, FALSE),
                            !.host = [Registered(@, c.world, c.thing) EXCEPT !.preview = c.thing],
                            !.core.objects = WithThing(@, old, c.thing),
                            !.core.preview = c.thing]
  IN  IF old = NoThing \/ s.queue.models = <<>> THEN {s}
      ELSE {To(c) : c \in Remade(s, old, Head(s.queue.models))}

\* The next spawn request.  A restored object is placed at once, any other one
\* becomes the preview, whichever was it before.
NewObject(q, t) ==
  [thing |-> t, model |-> q.model, scale |-> q.scale,
   key |-> IF q.key = NoKey THEN FreshKey ELSE q.key]

\* confirmSpawn: the slider's scale, unless the request popped last was a restore
Confirmed(c, t) ==
  IF c.sliderSet /\ ~c.restored /\ Find(c.objects, t) # 0
    THEN [c EXCEPT !.objects[Find(c.objects, t)].scale = c.slider] ELSE c

\* A request is off the queue even if nothing comes of it: no map is open, the ray
\* finds no place, neither the template nor the fallback is loaded, the level is full.
Popped(s, q) == [s EXCEPT !.queue.spawns = Tail(@), !.core.restored = (q.key # NoKey)]

Dropped(s, q) == [s EXCEPT !.core.missed = (@ \cup {q.key}) \ {NoKey}]

Placed(s, q, c) ==
  LET t  == c.thing
      s1 == [s EXCEPT !.world = c.world, !.host = Registered(@, c.world, t),
                      !.core.objects = Append(@, NewObject(q, t))]
  IN  IF t = NoThing THEN Dropped([s EXCEPT !.world = c.world], q)
      ELSE IF q.key # NoKey THEN [s1 EXCEPT !.core = Confirmed(@, t)]
      ELSE [s1 EXCEPT !.world = WithSolid(@, t, FALSE), !.host.preview = t,
                      !.core.preview = t, !.core.page = TRUE]

Spawned(s) ==
  LET q == Head(s.queue.spawns)
  IN  IF s.queue.spawns = <<>> THEN {s}
      ELSE {Dropped(Popped(s, q), q)}
             \cup (IF s.host.inMap /\ (q.key # NoKey \/ KeyLeft)
                     THEN {Placed(Popped(s, q), q, c) : c \in Create(s.world, q.model)} ELSE {})

\* The destroy requests q: each takes one entry of its thing out of the table, and
\* marks what stands there.
Asked(q, t) == Cardinality({k \in DOMAIN q : q[k] = t})

RegisteredCleared(h, q) == [h EXCEPT !.aimed = IF @ \in Range(q) THEN NoThing ELSE @]

Cleared(h, q) ==
  [h EXCEPT !.registered = [t \in Slots |-> Without(h.registered[t], Asked(q, t))],
            !.aimed = IF @ \in Range(q) THEN NoThing ELSE @]

DestroyedAll(s) ==
  LET q == s.queue.destroys
  IN  [s EXCEPT !.host = Cleared(@, q), !.queue.destroys = <<>>,
                !.world = IF s.host.inMap THEN Destroyed(@, Range(q)) ELSE @]

\* The move requests: the first whose thing is registered, unless there is a preview.
FirstRegistered(q, h) == SelectInSeq(q, LAMBDA t : h.registered[t] > 0)

Moved(s) ==
  LET k  == FirstRegistered(s.queue.moves, s.host)
      t  == s.queue.moves[k]
      s1 == [s EXCEPT !.queue.moves = <<>>]
  IN  IF k = 0 \/ s.host.preview # NoThing THEN s1
      ELSE [s1 EXCEPT !.host = [@ EXCEPT !.preview = t, !.moving = TRUE,
                                         !.orig = ModelOf(s.core.objects, t)],
                      !.core = [@ EXCEPT !.preview = t, !.page = TRUE],
                      !.world = WithSolid(@, t, FALSE)]

Now == [world |-> world, host |-> host, core |-> core, queue |-> queue]

Becomes(s) == world' = s.world /\ host' = s.host /\ core' = s.core /\ queue' = s.queue

\* Room for a model change and a spawn, when the level's things do not run out.
Room == "full" \in Occurs \/ Cardinality(Free(world)) >= 2

HostUpdate ==
  /\ Room
  /\ \E a \in Aimed(Now) : \E b \in ModelChanged(a) : \E s \in Spawned(b) :
       Becomes(Moved(DestroyedAll(s)))
  /\ UNCHANGED saved

-----------------------------------------------------------------------------
(* Spawn mode ends.                                                        *)

Left(s) == [s EXCEPT !.host = [@ EXCEPT !.preview = NoThing, !.moving = FALSE],
                     !.core = [@ EXCEPT !.preview = NoThing, !.page = FALSE]]

\* The row of the object of thing t is written (reportThingTransform), if the map has
\* an instance to write it to.
Reported(os, t) ==
  IF Find(os, t) = 0 \/ ~core.instance THEN saved
  ELSE LET o == os[Find(os, t)]
       IN  [saved EXCEPT ![o.key] = [model |-> o.model, scale |-> o.scale]]

\* Collision comes back as g_spawnOrigCollide has it, which a thing became the preview
\* with: it was new, or aimed at, and solid.
ConfirmSpawn ==
  /\ host.inMap /\ host.preview # NoThing
  /\ LET t == host.preview
         s == [Now EXCEPT !.core = Confirmed(@, t), !.world = WithSolid(@, t, TRUE)]
     IN  Becomes(Left(s)) /\ saved' = Reported(s.core.objects, t)

\* A moved thing that kept its model is solid again where it was; one that did not
\* is made again from the template it had.
PutBack(s, t) ==
  LET To(c) ==
        LET s1 == [s EXCEPT !.host = Unregistered(@, t), !.world = c.world]
        IN  IF c.thing = NoThing THEN s1
            ELSE [s1 EXCEPT !.host = Registered(@, c.world, c.thing),
                            !.core.objects = WithThing(@, t, c.thing)]
  IN  IF s.host.orig = NoModel THEN {s}
      ELSE IF ModelOf(s.core.objects, t) = s.host.orig
        THEN {[s EXCEPT !.world = WithSolid(@, t, TRUE)]}
      ELSE {To(c) : c \in Remade(s, t, s.host.orig)}

\* A new one is forgotten and destroyed.
UndestroyedForgotten(s, t) ==
  [s EXCEPT !.host = Unregistered(@, t),
            !.core.objects = WithoutThing(@, t)]

Forgotten(s, t) ==
  [s EXCEPT !.host = Unregistered(@, t), !.world = Destroyed(@, {t}),
            !.core.objects = WithoutThing(@, t)]

CancelSpawn ==
  /\ host.inMap /\ host.preview # NoThing /\ Room
  /\ LET t == host.preview
     IN  \E s \in IF host.moving THEN PutBack(Now, t) ELSE {Forgotten(Now, t)} : Becomes(Left(s))
  /\ UNCHANGED saved

-----------------------------------------------------------------------------
(* Requests of the player, by weapon slot or on a page.                    *)

\* requestSpawn and requestSpawnModel, whatever is the preview: any model, or a clone
\* of the aimed object.
RequestSpawn ==
  /\ host.inMap /\ Len(queue.spawns) < MaxWaiting /\ KeyLeft
  /\ LET o == Find(core.objects, core.aimed)
     IN  \E q \in {[model |-> m, scale |-> 1, key |-> NoKey] : m \in Models}
              \cup (IF o = 0 THEN {} ELSE {[model |-> core.objects[o].model,
                                            scale |-> core.objects[o].scale, key |-> NoKey]}) :
           queue' = [queue EXCEPT !.spawns = Append(@, q)]
  /\ UNCHANGED <<world, host, core, saved>>

\* requestMove
UncheckedRequestMove ==
  /\ host.inMap /\ Len(queue.moves) < MaxWaiting
  /\ queue' = [queue EXCEPT !.moves = Append(@, core.aimed)]
  /\ UNCHANGED <<world, host, core, saved>>

RequestMove ==
  /\ host.inMap /\ core.aimed # NoThing /\ Len(queue.moves) < MaxWaiting
  /\ queue' = [queue EXCEPT !.moves = Append(@, core.aimed)]
  /\ UNCHANGED <<world, host, core, saved>>

\* destroyObject: the object and its row go at once, the thing in the next frame.
RowKeptDestroyObject ==
  LET k == Find(core.objects, core.aimed)
  IN  /\ host.inMap /\ k # 0 /\ Len(queue.destroys) < MaxWaiting
      /\ core.aimed # host.preview
      /\ core' = [core EXCEPT !.aimed = NoThing, !.objects = RemoveAt(@, k)]
      /\ queue' = [queue EXCEPT !.destroys = Append(@, core.aimed)]
      /\ UNCHANGED <<world, host, saved>>

DestroyObject ==
  LET t == core.aimed
      k == Find(core.objects, t)
  IN  /\ host.inMap /\ t # NoThing /\ k # 0 /\ Len(queue.destroys) < MaxWaiting
      /\ "previewRemoved" \in Occurs \/ t # host.preview
      /\ core' = [core EXCEPT !.aimed = NoThing, !.objects = RemoveAt(@, k)]
      /\ queue' = [queue EXCEPT !.destroys = Append(@, t)]
      /\ saved' = IF core.instance THEN [saved EXCEPT ![core.objects[k].key] = Absent] ELSE saved
      /\ UNCHANGED <<world, host>>

\* The page of spawn mode: another model (requestSpawnModelChange) ...
RequestModelChange ==
  /\ host.inMap /\ core.page /\ Len(queue.models) < MaxWaiting
  /\ \E m \in Models :
       /\ queue' = [queue EXCEPT !.models = Append(@, m)]
       /\ LET k == Find(core.objects, core.preview)
          IN  core' = IF k = 0 THEN core ELSE [core EXCEPT !.objects[k].model = m]
  /\ UNCHANGED <<world, host, saved>>

\* ... and its sliders (setSpawnTransform).
SetSlider ==
  /\ host.inMap /\ core.page
  /\ \E z \in Scales : core' = [core EXCEPT !.slider = z, !.sliderSet = TRUE]
  /\ UNCHANGED <<world, host, queue, saved>>

-----------------------------------------------------------------------------
(* The engine, and the map.                                                *)

\* sithThing_TickAll frees what was marked.
Tick ==
  /\ host.inMap /\ Going(world) # {}
  /\ world' = Freed(world, Going(world))
  /\ UNCHANGED <<host, core, queue, saved>>

\* A shot, a piece of debris: it comes and it goes.
EngineCreates ==
  /\ host.inMap
  /\ "full" \in Occurs \/ Cardinality(Free(world)) > 3
  /\ \E c \in Create(world, Engine) : world' = c.world
  /\ UNCHANGED <<host, core, queue, saved>>

EngineRemoves ==
  /\ \E t \in Slots : world[t].state = "live" /\ world[t].model = Engine
                        /\ world' = Destroyed(world, {t})
  /\ UNCHANGED <<host, core, queue, saved>>

\* AACoreManager_OnMapUnloaded, then the world is freed.  The core keeps its queues,
\* the indices of the aimed thing and of the preview, and the page.
MapUnload ==
  /\ host.inMap
  /\ "leftOver" \in Occurs \/ \A f \in DOMAIN queue : queue[f] = <<>>
  /\ world' = EmptyWorld /\ host' = IdleHost
  /\ core' = [core EXCEPT !.objects = <<>>, !.sliderSet = FALSE, !.instance = FALSE]
  /\ UNCHANGED <<queue, saved>>

\* onMapLoaded: the rows become requests, in the order the database gives them, but
\* those whose item has left the library; none without a key of the map, or without
\* an instance to it.
SavedKeys == {k \in Keys : saved[k] # Absent}

Rows(K) == {r \in [1 .. Cardinality(K) -> K] : Range(r) = K}

RowRequest(k) == [model |-> saved[k].model, scale |-> saved[k].scale, key |-> k]

MapLoad ==
  /\ ~host.inMap
  /\ world' = EmptyWorld /\ host' = [host EXCEPT !.inMap = TRUE]
  /\ \E instance \in BOOLEAN :
     \E K \in IF instance THEN SUBSET SavedKeys ELSE {{}} :
       /\ Len(queue.spawns) + Cardinality(K) <= NumKeys + MaxWaiting
       /\ core' = [core EXCEPT !.objects = <<>>, !.instance = instance,
                               !.missed = SavedKeys \ K]
       /\ \E rows \in Rows(K) :
            queue' = [queue EXCEPT !.spawns = @ \o [r \in 1 .. Cardinality(K) |-> RowRequest(rows[r])]]
  /\ UNCHANGED saved

Next ==
  \/ HostUpdate \/ ConfirmSpawn \/ CancelSpawn
  \/ RequestSpawn \/ RequestMove \/ DestroyObject \/ RequestModelChange \/ SetSlider
  \/ Tick \/ EngineCreates \/ EngineRemoves \/ MapUnload \/ MapLoad

Spec == Init /\ [][Next]_vars

-----------------------------------------------------------------------------
(* Properties.                                                             *)

Standing(t) == world[t].state = "live" /\ world[t].model # Engine

\* However spawns, moves, model changes, cancels and removals follow each other, two
\* objects never share a thing, and each one's thing stands in the level and is not
\* marked: updateThingIdx followed every renumbering.
OneThingEach ==
  /\ \A j, k \in DOMAIN core.objects : core.objects[j].thing = core.objects[k].thing => j = k
  /\ \A k \in DOMAIN core.objects : Standing(core.objects[k].thing)

\* No AArcade thing is left standing without an object, where nothing could move or
\* remove it any more, except one whose removal the host has still to see.
NoGhost ==
  \A t \in Slots : Standing(t) =>
    Find(core.objects, t) # 0 \/ t \in Range(queue.destroys)

\* The texture table of the host has a thing once, and only one that still stands: a
\* second entry would outlive the thing and draw its picture on the next one there.
RegisteredOnce ==
  \A t \in Slots : host.registered[t] <= 1 /\ (host.registered[t] > 0 => Standing(t))

\* While there is a preview, host and core mean the same one: the page's model goes
\* to the object whose thing is remade.
SamePreview == host.preview # NoThing => core.preview = host.preview

\* No row is lost on the way: while its map is open, a row that the load did not skip
\* and no spawn dropped is an object of the map, or a request for it still waits,
\* whatever is spawned, moved, remodelled, cancelled or removed meanwhile.
RowsComeBack ==
  host.inMap => \A k \in Keys \ core.missed : saved[k] # Absent =>
    \/ \E j \in DOMAIN core.objects : core.objects[j].key = k
    \/ \E j \in DOMAIN queue.spawns : queue.spawns[j].key = k

-----------------------------------------------------------------------------
(* What comments and documents say, and the code does not do.              *)

\* AACoreManager.c: "Make preview non-solid so selector ray doesn't hit it", with
\* "saved collide flags for restore".  Where there is no preview, the ray can hit the
\* thing of every object.
CollisionRestored ==
  host.preview = NoThing =>
    \A k \in DOMAIN core.objects : world[core.objects[k].thing].solid

=============================================================================
