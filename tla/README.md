# AArcade: a TLA+ verification of the arcade inside OpenJKDF2

AAOpenJKDF2 is OpenJKDF2 (an engine for *Jedi Knight: Dark Forces II*) with AArcade in it: a DLL,
`aarcadecore`, that puts cabinets and screens into a map, shows a web page, a video or a running
libretro core on them, and draws HTML menus over the game. This directory holds TLA+ modules of
AArcade's own logic, the TLC runs that check them on small instances, and proofs, checked by TLAPS,
that the main safety properties hold for every size. Two parts of the engine that AArcade's maps and
network games stand on are modelled as well: timed events and acknowledged messages.

Paths below are relative to the repository; `aarcadecore/` is `src/aarcadecore/`.

| module | what it is | runs | proofs |
| --- | --- | --- | --- |
| `LibretroWorker` | the engine thread and the worker thread of one libretro host | `worker` | `LibretroWorkerProofs` |
| `LibretroSaves` | the state files of one host, and the state that waits to be restored | `saves`, `saves_lost` | `LibretroSavesProofs` |
| `ItemInstances` | items, selection, tasks, full screen, input mode, HUD pages, spawn mode, map changes | `items` (through `MCItemInstances`) | `ItemInstancesProofs` |
| `SpawnPipeline` | objects, the engine's things, the preview, five queues, one frame of the host, saved rows | `spawn`, `spawn_solid` (through `MCSpawnPipeline`) | `SpawnPipelineProofs` |
| `ImageLoader` | requests for images by objects and by pages, the page that loads them, capture, cache, answers | `images`, `images_*` (through `MCImageLoader`) | `ImageLoaderProofs` |
| `SithComm` | acknowledged messages between the players of a network game | `comm` (through `MCSithComm`) | `SithCommProofs` |
| `Timers` | what timed events promise: the abstract specification | | |
| `SithEvent` | the pool and the list of timed events; implements `Timers` | `events` (through `MCSithEvent`) | `SithEventProofs` |

`PROJECT.json` lists the components, runs, mutants, the source lines of every definition, the
findings, the hazards and the theorems.

## 1. Inventory

### The parts and how they meet

```
 keys, mouse ──> aaMainMenu.c ──> AACoreManager.c (engine side) ──> aarcadecore.cpp (DLL exports)
 COG verb ────────────────────────────┘   │  polls queues each frame        │
                                          │                       InstanceManager ── SQLiteLibrary
                                          │                          │        └─── ImageLoader
 HUD pages (JavaScript) ── UltralightInstance bridge ────────────────┤
                                                     g_tasks: EmbeddedInstance*
                                             web browser │ video player │ LibretroInstance
                                                                           │
                                                         libretro_host: engine <-> worker thread
                                                                           └─ audio callback thread
```

Everything outside the libretro host, the video decoder and the audio callback runs on the engine's
thread, one handler after another. What is hard there is not interleaving of instructions but of
*handlers*: modes kept as separate flags in separate files, raw pointers to browsers kept in four
places, vector indices kept over an erase, queues filled in one frame and popped in another.

| component | state | operations | hard | correct when |
| --- | --- | --- | --- | --- |
| libretro host, worker (`aarcadecore/libretro_host.cpp`) | request fields, four semaphores, `shutdown_flag`, `game_loaded`, `core_crashed`, the GL context | create, load/swap, run_frame, reset, destroy; the worker's loop | two threads; each waits for the other; a core that fails, crashes or asks to be shut down anywhere | no lost wake-up, no stale answer, no deadlock, a true result means the game runs, nothing survives destroy |
| libretro host, saves (same file) | `.state` files, `pending_state_buf`, the core's own state | save at swap and destroy, stage at load, offer after each frame | a restore that waits for frames; saves that fail half-way | states stay with their games, progress is not lost |
| libretro host, data (same file) | options and dirty flag, video buffers, audio ring | environment callbacks, get_frame, audio read | other threads read what the worker writes | each change is seen once, a frame is whole, no sample is lost or repeated |
| instances of items (`aarcadecore/InstanceManager.cpp`) | `objects_`, `itemInstances_`, the selected index, five queues | objectUsed, rememberObject, deactivateInstance, destroyObject, spawn/move requests, map load and unload | objects share instances; slaves stand for masters; indices over erases | the task table, the items and the heap agree; nothing freed is used; a selection stays on its object |
| DLL exports (`aarcadecore/aarcadecore.cpp`) | `g_tasks`, full-screen, input and overlay pointers | task slots, full screen, input mode, action commands | raw pointers to instances owned elsewhere | the pointers name live instances |
| HUD pages (`UltralightManager.cpp`, `UltralightInstance.cpp`) | which page is loaded, `g_mainMenuOpen`, `g_spawnModeOpen`, `g_overlayLoaded` | open and close menus, spawn mode, overlay; the JavaScript bridge | one page serves menus, overlay and slider panel | the page fits the mode |
| key handling (`src/Main/aaMainMenu.c`) | edges of each key | one decision per key and mode | a key that is right in one mode comes in another | modes exclude each other, releasing undoes pressing |
| host side (`src/Platform/Common/AACoreManager.c`) | spawn mode, preview, the table of things | one frame's requests, confirm, cancel, map hooks | things are renumbered and destroyed while pointed at | both sides of the DLL agree on spawn mode and preview; every object has its own thing |
| image loader (`ImageLoader.cpp`) | pending requests, callbacks, completions | request, capture, completion, polling | callbacks hold an index; a second request replaces the callback of the first | each answer reaches the request it answers |
| video player (`VideoPlayerInstance.cpp`) | decoder thread, double buffer | create, render, destroy | thread against destroy | no buffer is used after it is freed |
| launcher, deep sleep (`ItemLauncher.cpp`, `AACoreManager.c`) | a child process, pause state | launch, poll, wake | the process ends at any time | the game wakes up |
| database, core configuration, archives, web browser | no protocol of their own | | | not modelled |
| acknowledged messages (`src/Devices/sithComm.c`) | 32 slots of unanswered messages, their count, 128 pairs of what was handled | send, resend, give up, receive, answer | packets lost, late, repeated; players who leave and come back under the same id | no message is handled twice, an answer strikes off who has taken the message, what waits is sent again |
| timed events (`src/Gameplay/sithEvent.c`, verbs in `src/Cog/sithCogFunction.c`) | 256 slots, a stack of free ones, a sorted list | set, kill, fire, save, load | scripts change the list from inside the loop that walks it | no slot is lost, events fire once and in order |
| engine: `sithMulti.c`, `sithThing.c`, `sithCog.c` | joining, the pool of things, script stacks | | | the pool as far as `SpawnPipeline` needs it |

Left out for good: rendering, sound mixing, the game's GUI, platform layers, generated parsers,
`3rdparty/` and packaging. They are numerical or device code, or somebody else's.

The list of hazards, each at its line, is in `PROJECT.json`; section 12 says which are still open.

## 2. LibretroWorker

One host: the engine thread calls the API, the worker calls the core. `epc` and `wpc` are program
counters; a step ends wherever the code lets the other thread see or change something, so that the
writing of a request and the posting of `wake_sem` are two steps. Other variables are fields of
`struct LibretroHost`; a semaphore is its count. `coreGame` is the one ghost: the game the core
itself holds, between a `retro_load_game` that returned true and the `retro_unload_game` after it.

| action | code |
| --- | --- |
| `Create`, `CreateDone`, `Join` | `libretro_host_create`: spawn, poll `init_done_sem` every 5 ms, join on failure |
| `LoadGame`, `SetLoadRequest`, `PostWake`, `LoadReturns` | `libretro_host_load_game` (`swap_game` is the same call): the crashed check, the request under `request_lock`, the post, the wait |
| `PumpGLRequest` | `pump_pending_gl_request`, only in the waits of create and load |
| `RunFrame`, `Reset`, `Destroy` | the calls of the same name, each followed by `PostWake` |
| `WorkerInit(Fails)` .. `UnloadAndExit` | `worker_thread_main`: initialisation, the loop, the exit |
| `SwapUnload`, `EnsureGLContext`, `GLContextServed`, `LoadGameFails`, `CoreTakesGame`, `FinishLoad`, `PostLoadDone` | `worker_do_load_game` and what it calls, split where it waits for the engine |

The core is somebody else's code: every call into it may set `core_crashed` (the SEH wrapper, or
`RETRO_ENVIRONMENT_SHUTDOWN`), `retro_load_game` may fail before or after it took the game, and
hardware rendering may be asked for at initialisation or during the load. The driver may refuse the
context. Which failure it was is not told apart.

**Run `worker`.** Two games, at most two posts of `wake_sem` not yet consumed (`MaxWake`, a guard of
`RunFrame` and `Reset` only; loads and shutdown always post). Two is enough: the worker takes every
pending frame at its first wake-up, so a third post differs from the second in nothing the worker can
see; and two games are enough to tell a load from the one before it. Safety: a worker asleep with
nothing posted has nothing to do (`NoLostWakeup`); it waits for a context only while the engine is in
a call that serves it, never against the join of destroy (`GLWaitIsServed`); a load is in exactly one
place and leaves no answer behind (`OneLoadInFlight`); a true result means the core holds the game
asked for (`TrueMeansLoaded`); no thread and no context outlive the host. Liveness: every call that
began returns (`CallsReturn`), and frames asked for are run or dropped (`FramesDrain`).

**Fairness.** Weak fairness of `EngineStep` (the engine goes on with a call it has begun) and of
`WorkerStep` (the worker is scheduled, calls into the core return). Both are what an operating system gives
a runnable thread: once a step of one of the two is enabled, the other thread cannot disable it, so weak
fairness asks for nothing but that a thread which can run does. Beginning a call is `EngineCall` and is not
fair: the player may stop for ever. That calls into the core return is an assumption on the core: one that
hangs hangs destroy, in the code too.

**Where the header disagrees** (seen in the model's states, no run): after a crash under a game
`worker_do_swap_unload` returns early, so a failing swap leaves `game_loaded` set, while
`libretro_host.h:46` says the host is "left with no game loaded"; and a load that fails after
`retro_load_game` returned true unloads nothing, so that the next load gives the core a second game,
while line 38 says a swap calls `retro_unload_game` first.

## 3. LibretroSaves

The same host, looked at for what it keeps on disk. Nearly all of it is the worker's, so a step is one
request or one frame. `files` are the `.state` files by game, `core` the state of the game in the core
(whose it is, and how far it is played), `buf` and `left` the staged state and the frames it is still
offered for; `asked` says that the engine waits in `libretro_host_load_game`. Two histories: `wasReset`,
the player has reset the game since it was loaded, and `owed`, the game had a file and has not been given
its state.

| action | code |
| --- | --- |
| `AskLoad` | `libretro_host_load_game`: the only look at `core_crashed`, then the request |
| `LoadGame`, `LoadFails` | `worker_do_load_game` with `worker_do_swap_unload` before it: save the outgoing game, drop what was pending for it, load, stage what the file has; and the reset asked for earlier, which the worker finds in the same turn |
| `LoadFailsAfterCrash` | the same after a crash: nothing is saved or unloaded, `game_loaded` stays set |
| `RunFrame`, `RunFrameAndRestore` | a frame, and the offer of the staged state after it |
| `RequestReset`, `ResetGame` | `libretro_host_reset` and the worker's half |
| `CoreCrashes`, `Destroy` | in a frame or a reset, also while a load is asked for; `worker_do_unload`, then perhaps a new host over the same files |

Saving may be refused by the core, fail to open the file, or leave it truncated (`Broken`): the file is
opened before it is written. Reading may fail, and then clears what is staged. A core refuses to restore
as often as it likes.

**Run `saves`.** Two games, progress 0 to 2, a state offered twice (ten in the code); 4,898 states.
Progress 2 tells "more than booted" from "more than saved"; two offers have a first that fails, a last,
and giving up. `OwnStates`: over every swap, failure and crash, file and core are of one game, and so is
the staged state unless the core has crashed: a load asked for before a crash and done after it
finds `worker_do_swap_unload` returning early (line 1615), so the new game runs under the name
of the old one's staged state. That is harmless only because after a crash nothing is restored or saved,
which is the property's guard. `LostOnlyUnrestored`: a file is replaced
by less only if the player has reset the game, or before the core was given its state. That is what is
left of the promise the code states: **run `saves_lost`** checks that promise, "Saves state/SRAM for the
outgoing game so progress isn't lost" (`libretro_host.cpp:1608`), for a state that was read and waits in
`pending_state_buf`. The trace plays a game, swaps it for itself, which saves it and stages what was saved,
and destroys the host before a frame: the freshly booted game is saved over the state about to be restored.

## 4. ItemInstances

All on the engine thread, a step is one handler. `objects` is `objects_` (a prop has no item),
`selected` is `selectedObjectIndex_ + 1`, `run` holds `itemInstances_`, `g_tasks` and what is alive on
the heap, `hud` the page and the three pointers (`overlayFor`, `fullscreen`, `input`) with the flags
of `UltralightManager.cpp`, `host` the engine side, `pending` the queue of spawn requests. A browser
is an address: `Browsers` is a pool, and a freed address may be given out again, so a dangling pointer
would in time name somebody else's browser.

| actions | code |
| --- | --- |
| `Click`, `Escape`, `EnterInputMode`, `ExitInputMode`, `Remember`, `MenuKey`, `TabPress`, `TabRelease` | the keys of `aaMainMenu_Update` and what they call |
| `CogObjectUsed` | the COG verb of `sithCog.c`, which asks neither for spawn mode nor for fists |
| `DropFile` | `SDL_DROPFILE` in `Window.c` |
| `TaskClose`, `ObjectRemove`, `RequestSpawn`, `RequestMove` | weapon slots through `aarcadecore_action_command`; the same calls and `PageClosesTask`, `PageCloses`, `ToggleSlave` from menu pages |
| `HostUpdate` | the requests of one `AACoreManager_Update`: first a spawn, then the moves |
| `ConfirmSpawn`, `CancelSpawn` | the left button and Escape in spawn mode |
| `MapUnload`, `MapLoad` | the map hooks, host side and DLL side |

`Ensured`, `Closed` and `Released` are the three operators the rest is built from:
`ensureItemInstance` (what may come of it, failures included), the heap and task half of
`deactivateInstance`, and its half on the HUD.

Abstractions. A thing is an identity: a model change renumbers a thing and everything that names it,
which is left to `SpawnPipeline`, as is the template that cannot be made. The ray may aim at any solid
object, chosen anew at each use (the code's aimed index is refreshed per frame, so in the one frame
after a move begins it may still be the preview: "previewRemoved" in section 5). The remembered item is not kept:
where the code prefers it among the running items, the model takes any. Weapon and health are not
state: a key that they disable is a key not pressed. At most one move request waits. A saved object
may be restored as a slave or not. Images, transforms, saving, deep sleep and launching are left out.
Pages may make any call of the bridge that changes this state, in any order, while a menu page is
shown; the overlay page (navigation, seeking) and the slider page (model and transform of the preview)
call nothing that does.

**Run `items`.** Two items, two browsers, two things, at most two objects and one waiting request,
symmetric in all three sets (nothing compares or orders them, and `CHOOSE` is only used on indices).
594,972 distinct states, depth 34, two to three minutes on two workers. Two items are needed to switch
from one to another, two browsers so that an address is reused while the other is alive, two objects
for an index to move under an erase, for two objects to share an item and for a slave to have a
master, one request so that a spawn meets a preview. With two waiting requests (3,162,600 states)
nothing new appears.

* `TaskTable`: a browser is alive exactly when one active item owns it, and that item's slot of
  `g_tasks` holds it, and no slot holds anything else.
* `NoDanglingTarget`: full screen and input mode name live browsers (or the HUD).
* `OneLibretro`: the cap of `ensureItemInstance` looks for an active libretro item in `itemInstances_`
  (`LibretroListed`), not for what is alive; it holds for what is alive because every way a browser is freed
  or made keeps the items in step with it. A `Closed` that forgets the entry and leaves the browser breaks
  it.
* `OneModal`: no menu page is open over a full-screen browser, though F4, F6 and the middle button ask
  about full screen only, dropping a file asks about nothing, and `deselectOnly` leaves full screen
  only if something is selected.
* `SpawnPageServed`: while the host is in spawn mode the DLL is.
* `EraseKeepsSelection`: after `destroyObject` the selection is the same object or none.
* `SharedItemKept`: selecting another object of the same item keeps the running instance.

There is no liveness here: every step is the player's, and none is owed.

**What documents and comments say** (seen while modelling; no run):

| sentence | what happens |
| --- | --- |
| "hold to show, release to close" (`aaMainMenu.c:185`) | `AACoreManager_IsMainMenuOpen` also holds in full screen and input mode; letting go of Tab there opens the main menu |
| "Reset spawn/move mode" (`AACoreManager.c:1636`) | the DLL is not told and stays in spawn mode; the next preview gets no slider page |
| the association "clears the pointer when instance deactivates" (`LLM-HUD-OVERLAY.md:95`) | not while something still takes input; it then names a freed browser, and a later one at the same address is taken for it |
| "During spawn mode, don't load overlay.html" (`aarcadecore.cpp:1113`) | the COG verb makes an object full screen in spawn mode, which loads it |
| the overlay goes when "the associated embedded instance is deactivated" (`LLM-HUD-OVERLAY.md:87`) | closing any task blanks the page, the task list included |

And F4 in input mode opens a menu whose closing leaves a blank page with input mode on.

## 5. SpawnPipeline

How an object gets into the map, is moved, changes its model, and leaves: the part of the same code in
which a *thing* is a slot of the engine's pool that is freed and taken again, so that an index kept too
long names another thing. `world` is the pool (free, live, marked for destruction; solid or not), `host`
the file variables of `AACoreManager.c` (preview, orig template, the table of textures, the aimed thing),
`core` those of `InstanceManager`, `queue` its queues (image requests are `ImageLoader`'s), `saved`
the rows of `instance_objects`. The texture table of the host is the number of entries each thing has
(`registered`): nothing asks for their order, and a second entry for one thing is what must not be.

| action | code |
| --- | --- |
| `HostUpdate` | one `AACoreManager_Update`, in the order of the code: the ray, a model change of the preview, one spawn, all removals, the moves |
| `ConfirmSpawn`, `CancelSpawn` | the functions of that name with what they call in the DLL; a cancelled move puts the thing back or makes it again |
| `RequestSpawn`, `RequestMove`, `DestroyObject`, `RequestModelChange`, `SetSlider` | the DLL functions that fill the queues; a spawn or a clone may be asked for at any time, also while there is a preview |
| `Tick`, `EngineCreates`, `EngineRemoves` | the engine frees what was marked, makes things and removes them |
| `MapUnload`, `MapLoad` | the map hooks: the rows become requests, in any order (the query has no ORDER BY), but those whose item has left the library, and none where the map has no key or no instance |

What is the same object for both sides is what `ItemInstances` abstracts to an identity, and what
`ItemInstances` keeps (selection, instances, pages) is left out here. Positions are left out; a place
for a new thing may be found or not. Which of the free slots the engine takes depends on everything it
did before and is left open.

A request is off its queue also when nothing comes of it: the ray finds no place, neither template nor fallback is
loaded, the level is full (`Dropped`). `core.missed` is a history: the rows that the load skipped or a
spawn dropped. `core.instance` is that `currentInstanceId_` is not empty, without which no row is written or
deleted. `KeyLeft` is the bound that stands for the number of keys: with none left, no new object is asked
for or made.

**Situations.** Four things the code has no answer for, and each breaks properties below. The constant
`Occurs` says which may come up. Switched on one at a time, TLC finds:

| `Occurs` | what comes up | violated |
| --- | --- | --- |
| `"full"` | the level has no slot left when a thing is to be made again: the old one is destroyed already (`AACoreManager.c:1264`) | `OneThingEach`, `RowsComeBack` |
| `"noTemplate"` | the template a thing is to be made again from is not loaded, nor is the fallback; the old one is destroyed before it is looked up (line 1271) | `OneThingEach`, `RowsComeBack` |
| `"leftOver"` | a map is closed with requests waiting; the queues are not emptied although `InstanceManager.cpp:380` says "Clear any stale state from previous map" | `OneThingEach`, `RowsComeBack` |
| `"previewRemoved"` | the object is destroyed in the frame its move begins, while still aimed at (`AACoreManager.c:1341`) | `OneThingEach`, `NoGhost`, `RowsComeBack` |

`RegisteredOnce` and `SamePreview` hold with all four: that is proved (section 10). Where `NoGhost` is not in the
table no violation of it was met, but the state spaces were not exhausted.

**Run `spawn`.** None of the four. Four slots, two models of which one has no screen (it is registered only
after another one was), two objects, one waiting request in each queue, slots interchangeable; 1,583,636
distinct states. Four slots are two objects, one thing made while the old one is only marked, and one of the
engine's. `OneThingEach` (no two objects share a thing, and each one's stands), `NoGhost` (no thing without
an object), `RegisteredOnce` (the texture table has a thing once, and only while it stands), `SamePreview`
(both sides mean the same preview), `RowsComeBack` (a row of the open map that was not skipped or dropped
is an object or about to be one: none is lost between the queue, the objects and the removals). A second spawn
request may come while there is a preview; what breaks then is one run of its own:

**Run `spawn_solid`.** "Make preview non-solid so selector ray doesn't hit it" (`AACoreManager.c:1328`), with
the collide flags saved "for restore" (line 209). A spawn request that is popped while there is a preview
makes the new thing the preview, and confirm and cancel speak of that one: the trace asks for two spawns
and confirms once, and the first object is left in the map, not solid, so that no ray hits it and it can be
neither moved nor removed. It has no row either: it was never confirmed.

Seen as well, no run: a move cancelled after a model change makes the thing again from the old template
("Save original template name for restore on cancel", `AACoreManager.c:1392`), but the object keeps the model
the page asked for, and the next confirmed move saves that. And `confirmSpawn` (`InstanceManager.cpp:708`) tells
a restore by the request popped last, also when a move is confirmed, so that after a map with saved objects was
opened the slider's scale is dropped, against "Update scale from spawn transform before position is reported and
saved" (line 703).

## 6. ImageLoader

The C++ side registers a request and calls the page; the page runs all jobs in parallel, queues what
has loaded, shows one image at a time, waits for it to paint and reports; the next `update` captures
what is shown, saves it and queues the answers; `processCompletions` calls the callbacks. All on the
engine thread, so a step is one handler, one callback of the page's JavaScript, or one `update`.

`pendingItem` is `pendingItemChannels_` with the index its callback holds, `pendingImages` the number
of callbacks for a url, `promises` what the other pages wait for; `loading`, `walk`, `readyQueue`,
`displayed` and `settling` are the page's; `capture` is what `onImageLoaded(true)` leaves for `update`.

| actions | code |
| --- | --- |
| `GetCacheImage` | `js_images_getCacheImage`, `loadAndCacheImage` |
| `InitSpawnedObject`, `ChangeModel`, `RefreshItemTextures`, `RemoveObject`, `ClearObjects` | the functions of `InstanceManager.cpp` of that name (`ChangeModel` is `updateThingIdx` and `reloadImagesForThing`); they share `RequestChannelImages` |
| `SaveSnapshot` | `saveSnapshot`, called when an instance is closed |
| `UrlLoads`, `UrlFails`, `CandidateLoads`, `CandidateFails`, `Settled` | the page's callbacks and the bridge functions they call |
| `Capture`, `Show` | `update` when an image is ready to be captured, and when none is |
| `ProcessCompletions` | the function of that name, with the callbacks of both customers |

Abstractions. An object has one image: screen and marquee are two requests of the same form that share
nothing but the row. A url, its cache key and its cache file are one name; the hash is taken to be
injective. The snapshot of an item is one more url, the last candidate. Whether a candidate loads is
left open, so which image of the list is taken is too; the list itself (fields, variations, order) is
a constant. Writing the file does not fail, painting and cropping are left out, and so is the lifetime
of the pages that wait for a promise. The engine may take a thing index again as soon as no object has
it.

**Run `images`.** One thing, one item with a picture `a` and a snapshot, and a local file `b`; two
promises for each url, at most two answers waiting when something is asked for. 796,921 distinct
states. Two promises are needed for a request to join one that is pending; a local file is never
looked up in the cache and may yet be in memory; two waiting answers let a success and a failure of one
url be queued together. `CaptureIsShown` (the picture saved under an identifier is that
identifier's), `OneUrlJob`, `PromisesKept`, `PixelsHaveFile`.

**Run `images_objects`.** Two things, two items that share a picture and have a snapshot each, two
objects, no promises. 253,415 distinct states. `OneItemJob` (a request is pending exactly while the page
has its one job) and `ItemRequestsEnd` (no request pends for ever). One waiting answer; with two, the
safety property was checked over 2,467,455 states.

**Fairness.** Weak fairness of the page's readiness, of each job's end (downloads succeed or fail), of each
timer, and of `update` and `processCompletions`, which the engine calls in every frame. None for the
customers: no player is obliged to ask. A job once begun, and a timer once set, cannot be disabled but by
its own end.

**What documents say.**

| run | sentence | what happens |
| --- | --- | --- |
| `images_pending` | "0 = pending (a load is still in flight)" (`aarcadecore_api.h:205`) | removing an object moves the one behind it away from the index its callback holds; its answer is dropped and it stays pending for ever |
| `images_promise` | "Resolved when image is cached. Rejected on failure" (`LLM-AARCADECORE-README.md:216`) | a promise asked for before the page is ready is registered and never sent, and later requests join it |

Four more were met and have no run: a thing index used again while its old request is pending gives the
new object the old item's picture, where the candidates come "from the item's fields"
(`ImageLoader.h:36`); refreshing an item frees the pixels of a picture that another
item's object still shows as loaded ("pixels available", `InstanceManager.h:92`); an object placed
before the page is ready is reported as failed, "every fallback exhausted"
(`aarcadecore_api.h:206`), with nothing tried; and a cached file that does not load fails under the
file's name, which no request has, so its promises are not rejected.

## 7. SithComm

A message that asks for an answer is kept in a slot until every addressee has answered, sent again when
it is 1.7 s old, and given up after six tries; the receiver answers every copy and hands over the first.
A player is his index; `buf` is `sithComm_MsgTmpBuf`, `used` the count `sithComm_idk2`, `pairs` and `at`
the ring of what was handled, `knows` who has a net id with whom. `sends` and `handled` are histories.

| action | code |
| --- | --- |
| `Send` | `sithComm_SendMsgToPlayer` |
| `Retry` | one slot of `sithComm_SyncWithPlayers`, due at any time |
| `ReceiveMessage`, `DropMessage`, `ReceiveAnswer` | one turn of `sithComm_Sync`, with `sithComm_cogMsg_Reset`: a message of a player not known is dropped, unless it is of the dialogue of joining (`Dialogue`), which anybody may send |
| `Lose` | the network: what `SendMessageToConnection` returns is not looked at (`stdComm_GNS.cpp:468`) |
| `Leave`, `Forget`, `Join`, `Learn` | a connection ends, the others are told each in his time, and the lowest free net id is given out again: to another player or the same, with the program started anew or not |

A player who joins knows all the others in the step he joins in, so that the time in which he takes any
message (`g_submodeFlags & 8`) is part of that step. Time is left out: any frame may be the one a message
gets old in, which covers answers that come before, between and after each resending. Packets keep their
order on each way; copies come from resending.

**Run `comm`.** A server and two clients (interchangeable), two messages, ids of two bits read in an answer
with a sign (16 in the code), two slots, one pair, two tries, one packet on each way, one player who comes
back, the second message one of joining; 948,799 distinct states. Two messages are needed to overwrite, one
pair for a turn of the ring with one other message, ids 2 and 3 for the signed comparison, two tries for one
resending. Deadlock checking is off: messages are bounded, and a game in which nobody sends is at rest.

* `OnlyFirstSlot`: of the 32 slots only the first is ever used. The search for a free slot remembers the
  oldest of those before it, and the message is copied *there* (`sithComm.c:179`); the branch for a full
  table is never reached. So a player who sends a second message before the first is answered replaces
  it, and the first is not sent again. The model has the code as it is; the property is what follows.
* `WaitingIsCounted`: what waits is counted, though each overwriting adds one more to the count: the loop
  that resends runs as long as there is something to resend.
* `TwiceOnlyAfterTurn`: a message is handed over twice only after `NumPairs` (128) others.
* `StruckOffMeansTaken`: who is struck off a message has handled it, or another of the same net id and
  number. Old answers, answers of a player who came back and ids used again are what could break it.

Seen in the model, with no document to quote: ids from 2^15 up are never matched by an answer, since it
is popped with a sign (line 359), so such a message is repeated until given up; a player who starts his
program anew under his old net id counts from 1 again while the others still have his pairs, so his
first messages are answered and dropped as duplicates; and the server owes an answer to every message,
also one that is not sent to him (lines 133-135).

## 8. Timers and SithEvent

`Timers` is what a script may rely on: events pending in the order of their due times, those of one time
in the order they were set; one fires at a time; time goes on only when none is overdue; a saved game
restores them in that order; one too many is refused. It knows no slots. `Inserted` and `Picked` say where
an event is put and which are left after a kill without saying how they are found.

`SithEvent` is the code: slots, the stack of free slots `lut`, the linked list, the loop of
`sithEvent_Advance` with a program counter `pc`. Scripts may set and kill events wherever they run: anywhere
in the frame, in the tasks before the loop, and in the handler of an event, when that event is off the list
and its slot not yet free. Only timers with an id above 0 can be killed (`Killable`). `WithoutEvents` takes
the turns of the loop of `KillTimerEx` (`Passed`), which unlinks while it walks; `From` reads the list off
the links. Both are recursive functions over a number of steps that the list cannot exceed. Due times are
relative to now; that 32-bit milliseconds wrap after 49 days is left out.

**Run `events`.** Three slots, two names, delays and frames of 0 to 1, at most two events in a saved game;
227,826 states, names interchangeable. All names are killable: a timer that is not takes away steps, and
adds none. Three slots hold an event before, between and behind others, and all of them are taken in some
states. `EverySlotOnce`: every slot is in the list, on the stack, or with the event being handled, once.
`KeepsThePromise`: `SithEvent` implements `Timers`, with `pending` the list read off and `firing` the loop
being in a handler. Both are proved for all sizes (section 10). Liveness is not claimed: a handler may set
an event due at once, for ever.

## 9. Mutants

Each property of a passing run has a mutant: a definition of the module with a plausible bug (a slot not
freed, a flag not cleared, an index not shifted, a time-out in a wait) which, put in the place of the right
one, makes TLC find that property violated. They stand before the definition they change and nothing else
uses them (`LibretroSaves!KeptPending` excepted, which is also what the code does without a game or after a
crash).

## 10. What is proved

By TLAPS, for any constants that satisfy the assumptions `GamesAssumption` and `MaxWakeAssumption`
(`LibretroWorker`), `NamesAssumption` and `BoundsAssumption` (`ItemInstances`), `UrlsAssumption`,
`CandidatesAssumption` and `BoundsAssumption` (`ImageLoader`), `GamesAssumption`, `StatesAssumption` and
`AttemptsAssumption` (`LibretroSaves`), `PlayersAssumption`, `SlotsAssumption` and `SizesAssumption`
(`SithComm`: finitely many players, more than one slot), `SizesAssumption`, `ModelsAssumption` and
`OccursAssumption` (`SpawnPipeline`: finitely many slots, the default scale is a scale), `EventsAssumption`
and `TimesAssumption` (`SithEvent`: at least one slot). They say only
that the null values are not members of the sets they complete, that bounds are numbers, and that an item
has a candidate (its snapshot).

**`LibretroWorkerProofs`**: `TypeCorrect`, `WorkerInvariance`, `LostWakeupFreedom`, `GLHandshakeSafety`,
`SingleLoad`, `LoadHandshakeSafety`, `CleanTeardown`. None of the properties is inductive. That a sleeping
worker has nothing to do needs to know where a post may be instead of in the semaphore (`WakeInv`: a request
whose post is done is covered by a count or by a worker between waking and looking); that the GL wait is
served needs the position of the one load (`OneLoadInFlight`) and that request and answer exclude each other
(`GLInv`); that a true result means the game needs what the core holds during the second half of a load
(`ResultInv`); teardown needs that the shutdown flag is up exactly on the way to a join (`ShutdownInv`) and
the birth and death of the worker (`LifeInv`). Their conjunction `WorkerInv` is inductive, with one step per
action; `TypeOK` is split into Boolean flags and the rest because the provers treat them by different means.

**`ItemInstancesProofs`**: `TypeCorrect`, `TaskTableSafe`, `TargetsSafe`, `LibretroCapSafe`,
`ModalSafe`, `SpawnServed`, `EraseSafe`, `SharedSafe`. Three inductive invariants, one upon the other:

1. `TypeOK`. The operators that need an argument are `TaskSlot` and `FirstOf`, which choose a least
   index (`LeastExists`, from well-foundedness of the naturals), and `Masters`, which leaves
   `DOMAIN objects` only if the selected index does.
2. `Good`: `RunOK` and `TargetsLive`. `RunOK` adds to the task table that an item without a browser has no
   slot (without it closing such an item could free another's slot) and the libretro cap, for which a core
   that is alive must be that of an active item: only then does `LibretroListed`, which looks at items, see
   it. `ClosedOK`, `StartedOK` and `EnsuredOK` show once that closing any set of items and starting one keep
   it, for every handler that does either. `TargetsLive` says the two pointers are alive; it needs `RunOK`,
   since only through the table is it known whose browser is freed.
3. `Modes`: no menu over full screen; full screen implies a selection (which is why `deselectOnly`,
   which does nothing without one, is enough before a menu opens); a menu page implies the menu flag;
   nothing is full screen outside a map (which needs that closing every active item frees every
   browser, from `TaskTable`); the host in spawn mode implies the DLL in spawn mode.

`EraseSafe` and `SharedSafe` are action properties: a selection follows its object over an erase, which
needs of `destroyObject` only the types; and selecting an object that shows the item already selected
leaves that item's browser alone, which needs `Good`: an item whose browser lives is active, so that what
`objectUsed` closes and what it starts are other items.

**`ImageLoaderProofs`**: `TypeCorrect`, `PromisesSafe`, `CaptureSafe`, `FilesSafe`, `ItemJobsSafe`,
`UrlJobsSafe`: every safety property of the two runs.

1. `TypeOK` and `PromisesKept` are one invariant: that the number of promises stays a natural needs
   that no more answers are queued than promises made. The count is a cardinality; `AnswerCounted` and
   `AllCounted` say what appending one answer, or one for each callback, does to it.
2. `ShowInv`: what settles is what is displayed, and when something is captured it is displayed and
   nothing settles. Without the second half a timer could report an image after the next is shown.
3. `OneItemJob` and `OneUrlJob` are inductive given `TypeOK` and `ShowInv`. `RowGrows` and
   `RowMoves` describe the display and the queue behind it as one row of positions; that the job
   which ends in a capture is the one whose request is answered is `ShowInv` again.
4. `PixelsHaveFile` is inductive by itself.

**`LibretroSavesProofs`**: `StatesStayApart` and `OnlyBeforeRestore`, both properties of the run, from the
inductive `SavesInv` (theorem `SavesInvariance`). Beside types it says that the core's state is of the loaded
game and that, without a crash, a staged state is that of its file; and, for progress, that a reset which
waits while a game runs is one the player asked of this game (a reset left over from before is done in the
turn of the load), so that a game not reset and not owed its state has at least what its file has. The
second theorem is an action property: `StepLoses` shows that a step which lowers a file is a save from
such a core.

**`SithCommProofs`**: `CommTypes`, `OneSlotOnly`, `NoneForgotten`, `HandedOverOnce`, `AnswersAreTrue`.
The first three rest on `CommInv`: types, only the
first slot is taken, and if it is, it is counted. They need each other: that entries stay in range needs
that the slot written is the first (`OldestIsFirst`, from `FirstFreeIsNear`: with all but the first free,
the search ends at 0 or 1), and the count, which overwriting raises and never lowers, needs that there is
only one slot to lose. `SlotsCounted` turns that into the statement about cardinalities.

The other two rest on `FullInv`, which adds `LinkInv`: every packet under way, and every message in a
buffer, is one that was sent under its sender and id; an acknowledgement under way stands for a message
its sender handled; nothing is under way between two who both left; and `TableOf`: going back from the
write position, the table of pairs holds what was handled last, last first. `HandedOverOnce` is then that
what is at a distance of `NumPairs` or less is still in the table; `AnswersAreTrue`, an action property,
that the answer which strikes a player off was under way.

**`SpawnPipelineProofs`**: every property of the run `spawn`, in two layers:

1. `TypesHold`, `RegisteredOnceHolds`, `SamePreviewHolds`: for any `Occurs`. The invariant `Rooted`: types;
   a thing is registered at most once and only while it stands; host and core agree on the preview; outside
   a map nothing is a preview or registered.
2. `OneThingEachHolds`, `NoGhostHolds`, `RowsComeBackHolds`: for `Occurs = {}`. The
   invariant `Sound`: objects and standing things correspond one to one but for the things whose removal
   waits (`Matched`), the preview has an object, a new preview has no row yet (else cancelling it would lose
   one), without a map nothing waits, and rows are objects, requests or missed. The lemmas `RemadeMatched`,
   `GrownMatched`, `ForgottenMatched` and `PutBackMatched` say what happens to the correspondence when a thing
   is made again, made, forgotten or put back.

The hypothesis on `Occurs` is that of section 5: each situation left out breaks properties of the second layer
there, by a trace of the model. It restricts which behaviours are looked at, never the sizes. A second preview
is not left out. A frame is proved part by part, in the order of the code (`AimedFacts`, `ModelChangedFacts`,
`SpawnedFacts`, `DestroyedAllFacts`, `MovedFacts`, and the same with `Base` and `Sound`), and the parts are put
together in `FrameRooted` and `FrameSound`.

**`SithEventProofs`**: `EverySlotOnceHolds`, and `PromiseKept`: `SithEvent` implements `Timers`, step by step,
with no bound on slots, delays, frames or saved games. From the bottom up:

1. The list as a sequence. `ChainIs`: when `c` is the list of the pool (`IsChain`: it starts at `list`, each
   slot's `next` is the one behind it, none occurs twice), `Chain` reads off `c`. Recursive functions are
   unrolled by `Iterates`, that a recursion over a number of steps has a solution, with induction as
   `Climb`, a least counterexample, since the library's induction theorems take operators.
2. `Sound(p, c, X)`: types, `c` is the list, every slot is free, in `c` or in `X`, one of the three, the stack
   repeats nothing, and the three are counted. `KilledSound`, `UnlinkedSound`, `LinkedSound` and `AgedSound` say
   what freeing, unlinking, linking and ageing do to it.
3. `WithEventFacts`: an event set is linked behind those due no later and ahead of those due later, which
   needs the list sorted. `TurnStep`: after `j` turns of the kill loop the list is what there was without
   those of that name among the first `j`, and the code's two pointers are neighbours in it
   (`KillFacts` is the loop's end). `RestoredFacts`: saved events in order are all set and stay in order.
4. `SetListed`, `KillListed`, `FirstTaken`: the same as `Timers` says it.
5. The inductive invariant `EventsInv` (theorem `EventsInvariance`): the pool is sound, with the slot of the
   event handled, if any, as the third place; the list is sorted; outside the frame's loop nothing is
   overdue, which is why a saved game, and `Timers`' frame, start with nothing overdue; a saved game is in
   order. One lemma per action keeps it and gives the step of `Timers`; the tasks and the loop's end are
   stutters, the latter because the first event of a sorted list speaks for all.

Left to TLC: the liveness properties (fairness and `ENABLED` are beyond these provers) and every
statement of the violation runs. Every safety property of a passing run is proved. The modules with proofs
avoid `RECURSIVE` operators.

## 11. Running

```
tlc -workers 4 -config LibretroWorker.cfg LibretroWorker.tla
tlc -workers 4 -config ItemInstances.cfg  MCItemInstances.tla
tlc -workers 4 -config ImageLoader.cfg    MCImageLoader.tla
tlc -workers 4 -config ImageLoaderObjects.cfg MCImageLoader.tla
tlc -workers 4 -config LibretroSaves.cfg LibretroSaves.tla
tlc -workers 4 -config SpawnPipeline.cfg MCSpawnPipeline.tla
tlc -workers 4 -config SithComm.cfg      MCSithComm.tla
tlc -workers 4 -config SithEvent.cfg     MCSithEvent.tla
tlapm LibretroWorkerProofs.tla
tlapm LibretroSavesProofs.tla
tlapm SithCommProofs.tla
tlapm ItemInstancesProofs.tla
tlapm SpawnPipelineProofs.tla
tlapm ImageLoaderProofs.tla
tlapm SithEventProofs.tla
```

`LibretroSavesLost.cfg`, `SpawnPipelineSolid.cfg`, `ImageLoaderPending.cfg` and
`ImageLoaderPromise.cfg` end in the counterexamples named above. Only `SithComm.cfg` turns deadlock checking
off.

## 12. Not modelled, and the plan

Open hazards: the option maps (a core that reads one key clears the flag for all); the two races of
`get_frame` and of the audio ring, which happen inside a read of memory, below the steps of
`LibretroWorker`; the scale dropped by `confirmSpawn`; pages that are left with a promise open.

Not modelled: the Steam browser and the database keep their state elsewhere; the video player's decode
thread and the launcher with deep sleep are left for later; scripts are data that `SithEvent` and
`ItemInstances` let do anything; rendering, sound mixing, collision and file formats are numerical or
device code in which a small instance shows nothing, and they are most of the repository's lines.

In the order of what the player would notice:

1. **`SpawnPipeline` with `ItemInstances`**: the selection over `removeSpawnedByThingIdx`; host and DLL
   proved to agree on which thing an object is.
2. **`Requests`**, an abstract specification for `ImageLoader`: a set of requests, each answered at most
   once; and the lifetime of the pages that wait for promises.
3. **Options, video buffers, audio ring** of the libretro host. The ring refines a bounded queue between
   resets.
4. **Deep sleep and launching; the video decoder**: the child process against the wake-up; the decode
   thread against destroy.
5. **`sithMulti`**: join, welcome and quit over the messages of `SithComm`.
6. **More proofs**: `LibretroWorker` shown to implement a host with atomic calls (load: some game or
   failure; destroy: nothing left).
