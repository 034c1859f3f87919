------------------------ MODULE LibretroWorkerProofs ------------------------
(***************************************************************************)
(* Proofs about LibretroWorker: its invariants hold for every set of games *)
(* and every bound on the semaphore.  The Boolean flags are treated apart  *)
(* from the rest, since the provers take them by different means.          *)
(***************************************************************************)
EXTENDS LibretroWorker, TLAPS

USE DEF EngineStates, LoadStates, WorkerStates, engineVars, semVars, resultVars,
        hwVars, coreVars

-----------------------------------------------------------------------------
(* The flags are Boolean.                                                  *)

\* Flags stay Boolean through a step of the engine inside a call it has begun.
LEMMA EngineStepKeepsFlags == FlagsOK /\ EngineStep => FlagsOK'
<1> SUFFICES ASSUME FlagsOK, EngineStep PROVE FlagsOK'
  OBVIOUS
<1> USE DEF FlagsOK
<1>1. CASE PumpGLRequest
  BY <1>1, Zenon DEF PumpGLRequest
<1>2. CASE CreateDone
  BY <1>2, Zenon DEF CreateDone
<1>3. CASE SetLoadRequest
  BY <1>3, Zenon DEF SetLoadRequest
<1>4. CASE LoadReturns
  BY <1>4, Zenon DEF LoadReturns
<1>5. CASE PostWake
  BY <1>5, Zenon DEF PostWake, AfterPost
<1>6. CASE Join
  BY <1>6, Zenon DEF Join, FreeHost
<1> QED
  BY <1>1, <1>2, <1>3, <1>4, <1>5, <1>6 DEF EngineStep

\* Flags stay Boolean through the beginning of an engine call.
LEMMA EngineCallKeepsFlags == FlagsOK /\ EngineCall => FlagsOK'
<1> SUFFICES ASSUME FlagsOK, EngineCall PROVE FlagsOK'
  OBVIOUS
<1> USE DEF FlagsOK
<1>1. CASE Create
  BY <1>1, Zenon DEF Create
<1>2. CASE LoadGame
  BY <1>2, Zenon DEF LoadGame
<1>3. CASE RunFrame
  BY <1>3, Zenon DEF RunFrame
<1>4. CASE Reset
  BY <1>4, Zenon DEF Reset
<1>5. CASE Destroy
  BY <1>5, Zenon DEF Destroy
<1> QED
  BY <1>1, <1>2, <1>3, <1>4, <1>5 DEF EngineCall

\* Flags stay Boolean through a step of the worker.
LEMMA WorkerStepKeepsFlags == FlagsOK /\ WorkerStep => FlagsOK'
<1> SUFFICES ASSUME FlagsOK, WorkerStep PROVE FlagsOK'
  OBVIOUS
<1> USE DEF FlagsOK
<1>1. CASE WorkerInit
  BY <1>1, Zenon DEF WorkerInit, CoreMayShutDown, WorkerAt
<1>2. CASE LoopTop
  BY <1>2, Zenon DEF LoopTop
<1>3. CASE Wake
  BY <1>3, Zenon DEF Wake, WorkerAt
<1>4. CASE CheckShutdown
  BY <1>4, Zenon DEF CheckShutdown
<1>5. CASE TakeLoadRequest
  BY <1>5, Zenon DEF TakeLoadRequest
<1>6. CASE SwapUnload
  BY <1>6, Zenon DEF SwapUnload, CoreMayShutDown, WorkerAt
<1>7. CASE EnsureGLContext("hwPre", "glWaitPre", "coreLoad")
  BY <1>7, Zenon DEF EnsureGLContext
<1>8. CASE GLContextServed("glWaitPre", "coreLoad")
  BY <1>8, Zenon DEF GLContextServed, FailLoad
<1>9. CASE LoadGameFails
  BY <1>9, Zenon DEF LoadGameFails, FailLoad, CoreMayShutDown
<1>10. CASE CoreTakesGame
  BY <1>10, Zenon DEF CoreTakesGame, CoreMayShutDown, WorkerAt
<1>11. CASE EnsureGLContext("hwPost", "glWaitPost", "finish")
  BY <1>11, Zenon DEF EnsureGLContext
<1>12. CASE GLContextServed("glWaitPost", "finish")
  BY <1>12, Zenon DEF GLContextServed, FailLoad
<1>13. CASE FinishLoad
  BY <1>13, Zenon DEF FinishLoad, CoreMayShutDown, WorkerAt
<1>14. CASE PostLoadDone
  BY <1>14, Zenon DEF PostLoadDone, WorkerAt
<1>15. CASE TakeReset
  BY <1>15, Zenon DEF TakeReset, CoreMayShutDown, WorkerAt
<1>16. CASE TakeFrames
  BY <1>16, Zenon DEF TakeFrames
<1>17. CASE RunCore
  BY <1>17, Zenon DEF RunCore, CoreMayShutDown, WorkerAt
<1>18. CASE UnloadAndExit
  BY <1>18, Zenon DEF UnloadAndExit, WorkerAt
<1>19. CASE WorkerInitFails
  BY <1>19, Zenon DEF WorkerInitFails, CoreMayShutDown, WorkerAt
<1> QED
  BY <1>1, <1>2, <1>3, <1>4, <1>5, <1>6, <1>7, <1>8, <1>9, <1>10, <1>11, <1>12,
     <1>13, <1>14, <1>15, <1>16, <1>17, <1>18,
     <1>19 DEF WorkerStep

\* Every flag of the host is Boolean in every reachable state.
THEOREM FlagsCorrect == Spec => []FlagsOK
<1>1. Init => FlagsOK
  BY Zenon DEF Init, FlagsOK
<1>2. FlagsOK /\ [Next]_vars => FlagsOK'
  <2>1. FlagsOK /\ UNCHANGED vars => FlagsOK'
    BY Zenon DEF FlagsOK, vars
  <2> QED
    BY <2>1, EngineStepKeepsFlags, EngineCallKeepsFlags, WorkerStepKeepsFlags DEF Next
<1> QED
  BY <1>1, <1>2, PTL DEF Spec

-----------------------------------------------------------------------------
(* The inductive invariant.                                                *)

\* A fresh host satisfies it.
LEMMA InitWorkerInv == Init => WorkerInv
  BY GamesAssumption DEF Init, WorkerInv, ScalarsOK, ShutdownInv, LifeInv,
     OneLoadInFlight, WakeInv, GLInv, ResultInv

\* It is kept by a step of the engine inside a call it has begun.
LEMMA EngineStepKeepsInv == WorkerInv /\ EngineStep => WorkerInv'
<1> SUFFICES ASSUME WorkerInv, EngineStep PROVE WorkerInv'
  OBVIOUS
<1> USE GamesAssumption DEF WorkerInv, ScalarsOK, ShutdownInv, LifeInv,
        OneLoadInFlight, WakeInv, GLInv, ResultInv
<1>1. CASE PumpGLRequest
  BY <1>1 DEF PumpGLRequest
<1>2. CASE CreateDone
  BY <1>2 DEF CreateDone
<1>3. CASE SetLoadRequest
  BY <1>3 DEF SetLoadRequest
<1>4. CASE LoadReturns
  BY <1>4 DEF LoadReturns
<1>5. CASE PostWake
  BY <1>5 DEF PostWake, AfterPost
<1>6. CASE Join
  BY <1>6 DEF Join, FreeHost
<1> QED
  BY <1>1, <1>2, <1>3, <1>4, <1>5, <1>6 DEF EngineStep

\* It is kept by the beginning of an engine call.
LEMMA EngineCallKeepsInv == WorkerInv /\ EngineCall => WorkerInv'
<1> SUFFICES ASSUME WorkerInv, EngineCall PROVE WorkerInv'
  OBVIOUS
<1> USE GamesAssumption DEF WorkerInv, ScalarsOK, ShutdownInv, LifeInv,
        OneLoadInFlight, WakeInv, GLInv, ResultInv
<1>1. CASE Create
  BY <1>1 DEF Create
<1>2. CASE LoadGame
  BY <1>2 DEF LoadGame
<1>3. CASE RunFrame
  BY <1>3 DEF RunFrame
<1>4. CASE Reset
  BY <1>4 DEF Reset
<1>5. CASE Destroy
  BY <1>5 DEF Destroy
<1> QED
  BY <1>1, <1>2, <1>3, <1>4, <1>5 DEF EngineCall

\* It is kept by a step of the worker.
LEMMA WorkerStepKeepsInv == WorkerInv /\ WorkerStep => WorkerInv'
<1> SUFFICES ASSUME WorkerInv, WorkerStep PROVE WorkerInv'
  OBVIOUS
<1> USE GamesAssumption DEF WorkerInv, ScalarsOK, ShutdownInv, LifeInv,
        OneLoadInFlight, WakeInv, GLInv, ResultInv
<1>1. CASE WorkerInit
  BY <1>1 DEF WorkerInit, WorkerAt
<1>2. CASE LoopTop
  BY <1>2 DEF LoopTop
<1>3. CASE Wake
  BY <1>3 DEF Wake, WorkerAt
<1>4. CASE CheckShutdown
  BY <1>4 DEF CheckShutdown
<1>5. CASE TakeLoadRequest
  BY <1>5 DEF TakeLoadRequest
<1>6. CASE SwapUnload
  <2>1. CASE gameLoaded /\ ~coreCrashed
    BY <1>6, <2>1 DEF SwapUnload, WorkerAt
  <2>2. CASE ~(gameLoaded /\ ~coreCrashed)
    BY <1>6, <2>2 DEF SwapUnload, WorkerAt
  <2> QED
    BY <2>1, <2>2
<1>7. CASE EnsureGLContext("hwPre", "glWaitPre", "coreLoad")
  BY <1>7 DEF EnsureGLContext
<1>8. CASE GLContextServed("glWaitPre", "coreLoad")
  BY <1>8 DEF GLContextServed, FailLoad
<1>9. CASE LoadGameFails
  BY <1>9 DEF LoadGameFails, FailLoad, CoreMayShutDown
<1>10. CASE CoreTakesGame
  BY <1>10 DEF CoreTakesGame, CoreMayShutDown, WorkerAt
<1>11. CASE EnsureGLContext("hwPost", "glWaitPost", "finish")
  BY <1>11 DEF EnsureGLContext
<1>12. CASE GLContextServed("glWaitPost", "finish")
  BY <1>12 DEF GLContextServed, FailLoad
<1>13. CASE FinishLoad
  BY <1>13 DEF FinishLoad, CoreMayShutDown, WorkerAt
<1>14. CASE PostLoadDone
  BY <1>14 DEF PostLoadDone, WorkerAt
<1>15. CASE TakeReset
  BY <1>15 DEF TakeReset, CoreMayShutDown, WorkerAt
<1>16. CASE TakeFrames
  BY <1>16 DEF TakeFrames
<1>17. CASE RunCore
  BY <1>17 DEF RunCore, CoreMayShutDown, WorkerAt
<1>18. CASE UnloadAndExit
  BY <1>18 DEF UnloadAndExit, WorkerAt
<1>19. CASE WorkerInitFails
  BY <1>19 DEF WorkerInitFails, WorkerAt
<1> QED
  BY <1>1, <1>2, <1>3, <1>4, <1>5, <1>6, <1>7, <1>8, <1>9, <1>10, <1>11, <1>12,
     <1>13, <1>14, <1>15, <1>16, <1>17, <1>18,
     <1>19 DEF WorkerStep

\* The inductive invariant holds in every reachable state.
THEOREM WorkerInvariance == Spec => []WorkerInv
<1>1. WorkerInv /\ UNCHANGED vars => WorkerInv'
  BY DEF vars, WorkerInv, ScalarsOK, ShutdownInv, LifeInv, OneLoadInFlight,
     WakeInv, GLInv, ResultInv
<1>2. WorkerInv /\ [Next]_vars => WorkerInv'
  BY <1>1, EngineStepKeepsInv, EngineCallKeepsInv, WorkerStepKeepsInv DEF Next
<1> QED
  BY InitWorkerInv, <1>2, PTL DEF Spec

-----------------------------------------------------------------------------
(* What it implies.                                                        *)

\* Type correctness of both threads' state.
THEOREM TypeCorrect == Spec => []TypeOK
<1>1. FlagsOK /\ WorkerInv => TypeOK
  BY DEF TypeOK, WorkerInv
<1> QED
  BY FlagsCorrect, WorkerInvariance, <1>1, PTL

\* The worker never sleeps through a request whose post is done (worker_thread_main).
THEOREM LostWakeupFreedom == Spec => []NoLostWakeup
<1>1. WorkerInv => NoLostWakeup
  BY DEF WorkerInv, ScalarsOK, ShutdownInv, WakeInv, NoLostWakeup, AfterPost
<1> QED
  BY WorkerInvariance, <1>1, PTL

\* The worker waits for a GL context only while the engine is where it serves the
\* request, so the two threads never wait for each other
\* (request_gl_context_blocking, pump_pending_gl_request).
THEOREM GLHandshakeSafety == Spec => []GLWaitIsServed
<1>1. WorkerInv => GLWaitIsServed
  BY DEF WorkerInv, ScalarsOK, OneLoadInFlight, GLInv, GLWaitIsServed
<1> QED
  BY WorkerInvariance, <1>1, PTL

\* One load at a time is between its request and its answer (libretro_host_load_game).
THEOREM SingleLoad == Spec => []OneLoadInFlight
<1>1. WorkerInv => OneLoadInFlight
  BY DEF WorkerInv
<1> QED
  BY WorkerInvariance, <1>1, PTL

\* One load in flight per load_game call, and its answer is that call's own.
THEOREM LoadHandshakeSafety == Spec => [](OneLoadInFlight /\ TrueMeansLoaded)
<1>1. WorkerInv => OneLoadInFlight /\ TrueMeansLoaded
  BY DEF WorkerInv, ResultInv, TrueMeansLoaded
<1> QED
  BY WorkerInvariance, <1>1, PTL

\* Neither the worker thread nor a GL context outlives the host.
THEOREM CleanTeardown == Spec => []NothingOutlivesTheHost
<1>1. WorkerInv => NothingOutlivesTheHost
  BY DEF WorkerInv, LifeInv, NothingOutlivesTheHost
<1> QED
  BY WorkerInvariance, <1>1, PTL

=============================================================================
