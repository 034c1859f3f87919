--------------------------- MODULE LibretroWorker ---------------------------
(***************************************************************************)
(* The engine thread and the worker thread of one libretro host            *)
(* (aarcadecore/libretro_host.cpp).                                        *)
(*                                                                         *)
(* The engine calls the API: create, load_game (swap_game is the same      *)
(* call), run_frame, reset, destroy.  It never calls into the core: it     *)
(* fills a request field and posts wake_sem, the one semaphore the worker  *)
(* sleeps on.  create and load_game then wait for the worker, polling      *)
(* every 5 ms and serving the worker's request for an OpenGL context while *)
(* they wait; destroy joins the worker and serves nothing.                 *)
(*                                                                         *)
(* epc and wpc say where the two threads are.  A step ends wherever the    *)
(* code lets the other thread observe or change something.  The core is    *)
(* code of someone else: any call into it may fail, crash (the SEH wrapper *)
(* turns that into a result) or ask for RETRO_ENVIRONMENT_SHUTDOWN.        *)
(***************************************************************************)
EXTENDS Naturals

CONSTANTS
  Games,    \* the game files load_game may be called with
  NoGame,   \* no game
  MaxWake   \* bound of the model: posts of wake_sem not yet consumed

ASSUME GamesAssumption == NoGame \notin Games
ASSUME MaxWakeAssumption == MaxWake \in Nat \ {0}

VARIABLES
  epc,              \* where the engine thread is
  wpc,              \* where the worker thread is
  wake,             \* count of wake_sem
  initDone,         \* count of init_done_sem
  initResult,       \* init_result
  loadDone,         \* count of load_done_sem
  loadResult,       \* load_result
  loadPending,      \* load_request_pending, with pending_game_path
  pendingGame,      \* the game of the request, then of the load under way
  pendingFrames,    \* pending_frames
  resetRequest,     \* reset_request
  shutdownFlag,     \* shutdown_flag
  hwPending,        \* hw_render_pending
  hwCreateRequest,  \* hw_create_request
  hwCreateDone,     \* count of hw_create_done_sem
  glContext,        \* hw_gl_context # nullptr
  contextReset,     \* hw_context_reset_called
  gameLoaded,       \* game_loaded
  coreCrashed,      \* core_crashed
  coreGame          \* the game the core itself holds: between a retro_load_game
                    \* that returned true and the retro_unload_game after it

engineVars == <<loadPending, pendingGame, pendingFrames, resetRequest, shutdownFlag>>
semVars    == <<wake, initDone, loadDone, hwCreateDone>>
resultVars == <<initResult, loadResult>>
hwVars     == <<hwPending, hwCreateRequest, glContext, contextReset>>
coreVars   == <<gameLoaded, coreCrashed, coreGame>>
vars == <<epc, wpc, engineVars, semVars, resultVars, hwVars, coreVars>>

\* The engine: in no call, inside create, load_game, run_frame, reset, destroy.
EngineStates == {"none", "createWait", "createPost", "createJoin", "idle",
                 "loadSet", "loadPost", "loadWait", "framePost", "resetPost",
                 "destroyPost", "destroyJoin"}

\* The steps of worker_do_load_game, including its waits for the GL context.
LoadStates == {"swap", "hwPre", "glWaitPre", "coreLoad", "hwPost", "glWaitPost",
               "finish", "post"}
WorkerStates == {"none", "init", "top", "sleep", "woken", "request", "reset",
                 "frame", "run", "unload", "exited"} \cup LoadStates

FlagsOK ==
  /\ initResult \in BOOLEAN /\ loadResult \in BOOLEAN /\ loadPending \in BOOLEAN
  /\ resetRequest \in BOOLEAN /\ shutdownFlag \in BOOLEAN
  /\ hwPending \in BOOLEAN /\ hwCreateRequest \in BOOLEAN
  /\ glContext \in BOOLEAN /\ contextReset \in BOOLEAN
  /\ gameLoaded \in BOOLEAN /\ coreCrashed \in BOOLEAN

ScalarsOK ==
  /\ epc \in EngineStates /\ wpc \in WorkerStates
  /\ wake \in Nat /\ initDone \in Nat /\ loadDone \in Nat /\ hwCreateDone \in Nat
  /\ pendingFrames \in Nat
  /\ pendingGame \in Games \cup {NoGame} /\ coreGame \in Games \cup {NoGame}

\* Every field keeps its type; in particular the count of frames asked for, which two
\* threads change and the worker takes whole, never goes below zero.
TypeOK == FlagsOK /\ ScalarsOK

-----------------------------------------------------------------------------
(* The host structure as create allocates it, and as it is gone.           *)

Init ==
  /\ epc = "none" /\ wpc = "none"
  /\ wake = 0 /\ initDone = 0 /\ loadDone = 0 /\ hwCreateDone = 0
  /\ initResult = FALSE /\ loadResult = FALSE
  /\ loadPending = FALSE /\ pendingGame = NoGame
  /\ pendingFrames = 0 /\ resetRequest = FALSE /\ shutdownFlag = FALSE
  /\ hwPending = FALSE /\ hwCreateRequest = FALSE
  /\ glContext = FALSE /\ contextReset = FALSE
  /\ gameLoaded = FALSE /\ coreCrashed = FALSE /\ coreGame = NoGame

\* delete host.  glContext and coreGame are not fields of it alone (a context of
\* the driver, a game inside the core): they stay what the worker left.
FreeHost ==
  /\ epc' = "none" /\ wpc' = "none"
  /\ wake' = 0 /\ initDone' = 0 /\ loadDone' = 0 /\ hwCreateDone' = 0
  /\ initResult' = FALSE /\ loadResult' = FALSE
  /\ loadPending' = FALSE /\ pendingGame' = NoGame
  /\ pendingFrames' = 0 /\ resetRequest' = FALSE /\ shutdownFlag' = FALSE
  /\ hwPending' = FALSE /\ hwCreateRequest' = FALSE /\ contextReset' = FALSE
  /\ gameLoaded' = FALSE /\ coreCrashed' = FALSE
  /\ UNCHANGED <<glContext, coreGame>>

-----------------------------------------------------------------------------
(* The engine thread.                                                      *)

\* libretro_host_create up to its wait: allocate the host, spawn the worker.
Create ==
  /\ epc = "none"
  /\ epc' = "createWait" /\ wpc' = "init"
  /\ UNCHANGED <<engineVars, semVars, resultVars, hwVars, coreVars>>

\* Mutant: the request is served but its flag stays up.
PumpWithoutClearing ==
  /\ epc \in {"createWait", "loadWait"}
  /\ hwCreateRequest
  /\ glContext' \in BOOLEAN
  /\ hwCreateDone' = hwCreateDone + 1
  /\ UNCHANGED <<epc, wpc, engineVars, wake, initDone, loadDone, resultVars,
                 hwPending, hwCreateRequest, contextReset, coreVars>>

\* pump_pending_gl_request, in the waits of create and load_game: the driver may
\* refuse the context.
PumpGLRequest ==
  /\ epc \in {"createWait", "loadWait"}
  /\ hwCreateRequest
  /\ hwCreateRequest' = FALSE
  /\ glContext' \in BOOLEAN
  /\ hwCreateDone' = hwCreateDone + 1
  /\ UNCHANGED <<epc, wpc, engineVars, wake, initDone, loadDone, resultVars,
                 hwPending, contextReset, coreVars>>

CreateDone ==
  /\ epc = "createWait"
  /\ initDone > 0
  /\ initDone' = initDone - 1
  /\ IF initResult THEN epc' = "idle" /\ UNCHANGED shutdownFlag
                   ELSE epc' = "createPost" /\ shutdownFlag' = TRUE
  /\ UNCHANGED <<wpc, loadPending, pendingGame, pendingFrames, resetRequest, wake,
                 loadDone, hwCreateDone, resultVars, hwVars, coreVars>>

\* load_game and swap_game: a crashed core is refused before anything is asked.
LoadGame ==
  /\ epc = "idle"
  /\ ~coreCrashed
  /\ epc' = "loadSet"
  /\ UNCHANGED <<wpc, engineVars, semVars, resultVars, hwVars, coreVars>>

\* The request is written under request_lock ...
SetLoadRequest ==
  /\ epc = "loadSet"
  /\ \E g \in Games : pendingGame' = g
  /\ loadPending' = TRUE
  /\ epc' = "loadPost"
  /\ UNCHANGED <<wpc, pendingFrames, resetRequest, shutdownFlag, semVars,
                 resultVars, hwVars, coreVars>>

\* Mutant: the wait gives up after a time-out.
LoadReturnsOnTimeout ==
  /\ epc = "loadWait"
  /\ loadDone' \in {0, loadDone}
  /\ epc' = "idle"
  /\ UNCHANGED <<wpc, engineVars, wake, initDone, hwCreateDone, resultVars, hwVars,
                 coreVars>>

LoadReturns ==
  /\ epc = "loadWait"
  /\ loadDone > 0
  /\ loadDone' = loadDone - 1
  /\ epc' = "idle"
  /\ UNCHANGED <<wpc, engineVars, wake, initDone, hwCreateDone, resultVars, hwVars,
                 coreVars>>

\* libretro_host_run_frame; MaxWake bounds the frames the engine is ahead.
RunFrame ==
  /\ epc = "idle"
  /\ ~coreCrashed
  /\ wake < MaxWake
  /\ pendingFrames' = pendingFrames + 1
  /\ epc' = "framePost"
  /\ UNCHANGED <<wpc, loadPending, pendingGame, resetRequest, shutdownFlag, semVars,
                 resultVars, hwVars, coreVars>>

\* libretro_host_reset does not ask whether the core still runs.
Reset ==
  /\ epc = "idle"
  /\ wake < MaxWake
  /\ resetRequest' = TRUE
  /\ epc' = "resetPost"
  /\ UNCHANGED <<wpc, loadPending, pendingGame, pendingFrames, shutdownFlag, semVars,
                 resultVars, hwVars, coreVars>>

Destroy ==
  /\ epc = "idle"
  /\ shutdownFlag' = TRUE
  /\ epc' = "destroyPost"
  /\ UNCHANGED <<wpc, loadPending, pendingGame, pendingFrames, resetRequest, semVars,
                 resultVars, hwVars, coreVars>>

\* ... and each request is followed by its post of wake_sem.
AfterPost == [loadPost |-> "loadWait", framePost |-> "idle", resetPost |-> "idle",
              createPost |-> "createJoin", destroyPost |-> "destroyJoin"]

PostWake ==
  /\ epc \in DOMAIN AfterPost
  /\ wake' = wake + 1
  /\ epc' = AfterPost[epc]
  /\ UNCHANGED <<wpc, engineVars, initDone, loadDone, hwCreateDone, resultVars,
                 hwVars, coreVars>>

\* SDL_WaitThread, then the host is deleted.
Join ==
  /\ epc \in {"createJoin", "destroyJoin"}
  /\ wpc = "exited"
  /\ FreeHost

-----------------------------------------------------------------------------
(* The worker thread.                                                      *)

WorkerAt(from, to) == wpc = from /\ wpc' = to

\* A call into the core may end in the core asking for SHUTDOWN, which counts as
\* a crash; nothing ever clears the flag.
CoreMayShutDown == coreCrashed' \in {coreCrashed, TRUE}

\* Load the DLL, set the environment, retro_init, set the callbacks; the core may
\* ask for hardware rendering.  A crash in retro_set_environment is recorded and
\* the initialisation goes on.
WorkerInit ==
  /\ WorkerAt("init", "top")
  /\ CoreMayShutDown
  /\ initResult' = TRUE
  /\ hwPending' \in BOOLEAN
  /\ initDone' = initDone + 1
  /\ UNCHANGED <<epc, engineVars, wake, loadDone, hwCreateDone, loadResult,
                 hwCreateRequest, glContext, contextReset, gameLoaded, coreGame>>

\* The DLL or a symbol is missing, the API version differs, retro_init crashes.
WorkerInitFails ==
  /\ WorkerAt("init", "exited")
  /\ CoreMayShutDown
  /\ initDone' = initDone + 1
  /\ UNCHANGED <<epc, engineVars, wake, loadDone, hwCreateDone, resultVars, hwVars,
                 gameLoaded, coreGame>>

LoopTop ==
  /\ wpc = "top"
  /\ wpc' = IF shutdownFlag THEN "unload" ELSE "sleep"
  /\ UNCHANGED <<epc, engineVars, semVars, resultVars, hwVars, coreVars>>

Wake ==
  /\ WorkerAt("sleep", "woken")
  /\ wake > 0
  /\ wake' = wake - 1
  /\ UNCHANGED <<epc, engineVars, initDone, loadDone, hwCreateDone, resultVars,
                 hwVars, coreVars>>

CheckShutdown ==
  /\ wpc = "woken"
  /\ wpc' = IF shutdownFlag THEN "unload" ELSE "request"
  /\ UNCHANGED <<epc, engineVars, semVars, resultVars, hwVars, coreVars>>

\* Under request_lock: is there a load to do?
TakeLoadRequest ==
  /\ wpc = "request"
  /\ wpc' = IF loadPending THEN "swap" ELSE "reset"
  /\ loadPending' = FALSE
  /\ UNCHANGED <<epc, pendingGame, pendingFrames, resetRequest, shutdownFlag, semVars,
                 resultVars, hwVars, coreVars>>

\* worker_do_swap_unload: a game is unloaded, unless the core crashed under it.
SwapUnload ==
  /\ WorkerAt("swap", "hwPre")
  /\ IF gameLoaded /\ ~coreCrashed
       THEN /\ gameLoaded' = FALSE /\ coreGame' = NoGame /\ contextReset' = FALSE
            /\ CoreMayShutDown
       ELSE UNCHANGED <<coreVars, contextReset>>
  /\ UNCHANGED <<epc, engineVars, semVars, resultVars, hwPending, hwCreateRequest,
                 glContext>>

\* Mutant: a failure path that leaves the result of the load before.
FailLoadSilently == wpc' = "post" /\ UNCHANGED loadResult

FailLoad == wpc' = "post" /\ loadResult' = FALSE

\* ensure_hw_gl_context, before and after retro_load_game.
EnsureGLContext(from, wait, to) ==
  /\ wpc = from
  /\ IF ~hwPending \/ glContext
       THEN wpc' = to /\ UNCHANGED hwCreateRequest
       ELSE wpc' = wait /\ hwCreateRequest' = TRUE
  /\ UNCHANGED <<epc, engineVars, semVars, resultVars, hwPending, glContext,
                 contextReset, coreVars>>

\* Mutant: a refused context is asked for again.
GLContextRetried(wait, to) ==
  /\ wpc = wait
  /\ hwCreateDone > 0
  /\ hwCreateDone' = hwCreateDone - 1
  /\ wpc' = IF glContext THEN to ELSE IF to = "coreLoad" THEN "hwPre" ELSE "hwPost"
  /\ UNCHANGED <<epc, engineVars, wake, initDone, loadDone, resultVars, hwVars,
                 coreVars>>

\* request_gl_context_blocking resumes when the engine has served the request.
GLContextServed(wait, to) ==
  /\ wpc = wait
  /\ hwCreateDone > 0
  /\ hwCreateDone' = hwCreateDone - 1
  /\ IF glContext THEN wpc' = to /\ UNCHANGED loadResult ELSE FailLoad
  /\ UNCHANGED <<epc, engineVars, wake, initDone, loadDone, initResult, hwVars,
                 coreVars>>

\* The archive does not resolve, the file does not open, retro_load_game returns
\* false or crashes; or the core takes the game, and then retro_get_system_av_info
\* may crash.  The core may ask for hardware rendering here too.
LoadGameFails ==
  /\ wpc = "coreLoad"
  /\ FailLoad
  /\ coreGame' \in {coreGame, pendingGame}
  /\ hwPending' \in {hwPending, TRUE}
  /\ CoreMayShutDown
  /\ UNCHANGED <<epc, engineVars, semVars, initResult, hwCreateRequest, glContext,
                 contextReset, gameLoaded>>

CoreTakesGame ==
  /\ WorkerAt("coreLoad", "hwPost")
  /\ coreGame' = pendingGame
  /\ hwPending' \in {hwPending, TRUE}
  /\ CoreMayShutDown
  /\ UNCHANGED <<epc, engineVars, semVars, resultVars, hwCreateRequest, glContext,
                 contextReset, gameLoaded>>

\* Frame buffer and context_reset (the frame buffer may fail to be made: the game
\* then runs without hardware rendering), SRAM and state, game_loaded.
FinishLoad ==
  /\ WorkerAt("finish", "post")
  /\ contextReset' \in IF hwPending /\ glContext THEN {contextReset, TRUE}
                                                 ELSE {contextReset}
  /\ gameLoaded' = TRUE /\ loadResult' = TRUE
  /\ CoreMayShutDown
  /\ UNCHANGED <<epc, engineVars, semVars, initResult, hwPending, hwCreateRequest,
                 glContext, coreGame>>

PostLoadDone ==
  /\ WorkerAt("post", "reset")
  /\ loadDone' = loadDone + 1
  /\ UNCHANGED <<epc, engineVars, wake, initDone, hwCreateDone, resultVars, hwVars,
                 coreVars>>

\* A reset asked for while no game runs stays requested.
TakeReset ==
  /\ WorkerAt("reset", "frame")
  /\ IF resetRequest /\ gameLoaded /\ ~coreCrashed
       THEN resetRequest' = FALSE /\ CoreMayShutDown
       ELSE UNCHANGED <<resetRequest, coreCrashed>>
  /\ UNCHANGED <<epc, loadPending, pendingGame, pendingFrames, shutdownFlag, semVars,
                 resultVars, hwVars, gameLoaded, coreGame>>

\* Mutant: the posts are drained with the frames.
TakeFramesAndPosts ==
  /\ wpc = "frame"
  /\ pendingFrames' = 0 /\ wake' = 0
  /\ wpc' = IF pendingFrames > 0 /\ gameLoaded /\ ~coreCrashed THEN "run" ELSE "top"
  /\ UNCHANGED <<epc, loadPending, pendingGame, resetRequest, shutdownFlag, initDone,
                 loadDone, hwCreateDone, resultVars, hwVars, coreVars>>

\* Mutant: SDL_AtomicAdd by -1, to keep the surplus, also on a wake-up without a frame.
TakeOneFrame ==
  /\ wpc = "frame"
  /\ pendingFrames' = pendingFrames - 1
  /\ wpc' = IF pendingFrames > 0 /\ gameLoaded /\ ~coreCrashed THEN "run" ELSE "top"
  /\ UNCHANGED <<epc, loadPending, pendingGame, resetRequest, shutdownFlag, semVars,
                 resultVars, hwVars, coreVars>>

\* Mutant: the count is only taken when there is a game to run.
TakeRunnableFrames ==
  /\ wpc = "frame"
  /\ IF pendingFrames > 0 /\ gameLoaded /\ ~coreCrashed
       THEN wpc' = "run" /\ pendingFrames' = 0
       ELSE wpc' = "top" /\ UNCHANGED pendingFrames
  /\ UNCHANGED <<epc, loadPending, pendingGame, resetRequest, shutdownFlag, semVars,
                 resultVars, hwVars, coreVars>>

\* All the frames asked for become one call of retro_run.
TakeFrames ==
  /\ wpc = "frame"
  /\ pendingFrames' = 0
  /\ wpc' = IF pendingFrames > 0 /\ gameLoaded /\ ~coreCrashed THEN "run" ELSE "top"
  /\ UNCHANGED <<epc, loadPending, pendingGame, resetRequest, shutdownFlag, semVars,
                 resultVars, hwVars, coreVars>>

RunCore ==
  /\ WorkerAt("run", "top")
  /\ CoreMayShutDown
  /\ UNCHANGED <<epc, engineVars, semVars, resultVars, hwVars, gameLoaded, coreGame>>

\* Mutant: the worker exits without destroying its GL context.
ExitKeepingContext ==
  /\ WorkerAt("unload", "exited")
  /\ gameLoaded' = FALSE /\ coreGame' = NoGame
  /\ UNCHANGED <<epc, engineVars, semVars, resultVars, hwVars, coreCrashed>>

\* worker_do_unload, retro_deinit, the DLL and the GL context released.
UnloadAndExit ==
  /\ WorkerAt("unload", "exited")
  /\ gameLoaded' = FALSE /\ coreGame' = NoGame /\ glContext' = FALSE
  /\ UNCHANGED <<epc, engineVars, semVars, resultVars, hwPending, hwCreateRequest,
                 contextReset, coreCrashed>>

-----------------------------------------------------------------------------
EngineStep ==
  \/ PumpGLRequest \/ CreateDone \/ SetLoadRequest \/ LoadReturns \/ PostWake \/ Join

EngineCall == Create \/ LoadGame \/ RunFrame \/ Reset \/ Destroy

WorkerStep ==
  \/ WorkerInit \/ WorkerInitFails \/ LoopTop \/ Wake \/ CheckShutdown \/ TakeLoadRequest \/ SwapUnload
  \/ EnsureGLContext("hwPre", "glWaitPre", "coreLoad")
  \/ GLContextServed("glWaitPre", "coreLoad")
  \/ LoadGameFails \/ CoreTakesGame
  \/ EnsureGLContext("hwPost", "glWaitPost", "finish")
  \/ GLContextServed("glWaitPost", "finish")
  \/ FinishLoad \/ PostLoadDone \/ TakeReset \/ TakeFrames \/ RunCore \/ UnloadAndExit

Next == EngineStep \/ EngineCall \/ WorkerStep

Spec == Init /\ [][Next]_vars

\* The engine finishes the calls it began, the worker is scheduled, and calls into
\* the core return.  The engine is never obliged to call again.
FairSpec == Spec /\ WF_vars(EngineStep) /\ WF_vars(WorkerStep)

-----------------------------------------------------------------------------
(* Safety.                                                                 *)

\* No lost wake-up: a worker asleep with nothing posted, and no post on its way,
\* has no load, no frame and no shutdown waiting for it.
NoLostWakeup ==
  wpc = "sleep" /\ wake = 0 /\ epc \notin DOMAIN AfterPost =>
    ~loadPending /\ pendingFrames = 0 /\ ~shutdownFlag

\* While the worker blocks for a GL context the engine is in load_game, where it
\* will serve it, never in destroy, whose join does not pump; and the request or
\* its answer is there.
GLWaitIsServed ==
  wpc \in {"glWaitPre", "glWaitPost"} =>
    /\ epc \in {"loadPost", "loadWait"}
    /\ hwCreateRequest <=> hwCreateDone = 0

\* A load_game call has exactly one load in flight, and it is in one place: asked
\* for, under way in the worker, or answered.  Outside a call there is none: no
\* answer is left over for the next call to take as its own.
OneLoadInFlight ==
  /\ loadDone <= 1
  /\ epc \in {"loadPost", "loadWait"}
       <=> loadPending \/ wpc \in LoadStates \/ loadDone = 1
  /\ loadPending => wpc \notin LoadStates /\ loadDone = 0
  /\ wpc \in LoadStates => loadDone = 0

\* When load_game is about to return true, the core holds the game asked for.
TrueMeansLoaded ==
  loadDone = 1 /\ loadResult => gameLoaded /\ coreGame = pendingGame

\* The worker outlives no host, and no GL context does.
NothingOutlivesTheHost == epc = "none" => wpc = "none" /\ ~glContext

(* What makes the safety properties inductive.                             *)

\* The flag is up exactly while the engine is on its way to the join.
ShutdownInv ==
  shutdownFlag <=> epc \in {"createPost", "createJoin", "destroyPost", "destroyJoin"}

\* Birth and death of the worker.
LifeInv ==
  /\ epc = "none" <=> wpc = "none"
  /\ wpc = "init" => epc = "createWait"
  /\ wpc \in {"none", "init"} => initDone = 0 /\ ~initResult
  /\ epc = "createWait" /\ wpc # "init" => (initResult <=> wpc # "exited")
  /\ wpc = "unload" => shutdownFlag
  /\ wpc = "exited" => shutdownFlag \/ epc = "createWait"
  /\ wpc \in {"none", "init", "exited"} => ~glContext

\* A request whose post is done is seen by a wake-up still to come or under way.
WakeInv ==
  /\ loadPending /\ epc # "loadPost" => wake > 0 \/ wpc \in {"woken", "request"}
  /\ pendingFrames > 0 /\ epc # "framePost" =>
       wake > 0 \/ wpc \notin {"none", "init", "top", "sleep", "run"}
  /\ shutdownFlag /\ epc \in {"createJoin", "destroyJoin"} /\ wpc = "sleep" => wake > 0

\* The GL handshake is one request or one answer while the worker waits, else none.
GLInv ==
  /\ hwCreateDone <= 1
  /\ wpc \in {"glWaitPre", "glWaitPost"} <=> hwCreateRequest \/ hwCreateDone = 1
  /\ ~(hwCreateRequest /\ hwCreateDone = 1)

\* From retro_load_game on the core holds the game of the request.
ResultInv ==
  /\ wpc \in {"hwPost", "glWaitPost", "finish"} => coreGame = pendingGame
  /\ (wpc = "post" \/ loadDone = 1) /\ loadResult => gameLoaded /\ coreGame = pendingGame

\* The inductive invariant: where requests, answers and results may be for each pair
\* of positions of the two threads.
WorkerInv ==
  /\ ScalarsOK /\ ShutdownInv /\ LifeInv /\ OneLoadInFlight
  /\ WakeInv /\ GLInv /\ ResultInv

(* Liveness.                                                               *)

\* Every call the engine has begun returns: create, load_game, destroy.
CallsReturn == (epc \notin {"none", "idle"}) ~> (epc \in {"none", "idle"})

\* Frames asked for are run or dropped, never left waiting.
FramesDrain == (pendingFrames > 0) ~> (pendingFrames = 0)
=============================================================================
