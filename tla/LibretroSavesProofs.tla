------------------------ MODULE LibretroSavesProofs ------------------------
(***************************************************************************)
(* LibretroSaves for every set of games and every bound: no game gets      *)
(* another's state, and progress is lost only before a restore.            *)
(***************************************************************************)
EXTENDS LibretroSaves, TLAPS

TypesOK ==
  /\ game \in Games \cup {NoGame}
  /\ core \in State \cup {NoState}
  /\ buf \in State \cup {NoState, Broken}
  /\ files \in [Games -> State \cup {NoState, Broken}]

\* Core and staged state belong to the game that is loaded, the latter unless a load
\* after a crash has left it behind.
CoreInv ==
  /\ game = NoGame => core = NoState /\ buf = NoState
  /\ game # NoGame => core \in State /\ core.of = game
  /\ buf \in State /\ ~crashed => buf = files[game]

FilesInv == \A g \in Games : files[g] \in State => files[g].of = g

\* A reset that waits for a running game is one the player asked of that game, and what
\* the core has is no less than the file once it has been given the state of the file.
ProgressInv ==
  /\ resetRequest /\ Running => wasReset
  /\ game # NoGame /\ ~wasReset /\ ~owed /\ files[game] \in State => core.n >= files[game].n

SavesInv == TypesOK /\ CoreInv /\ FilesInv /\ ProgressInv

LEMMA InitSavesInv == Init => SavesInv
  BY GamesAssumption, StatesAssumption
  DEF Init, SavesInv, TypesOK, CoreInv, FilesInv, ProgressInv, Running

-----------------------------------------------------------------------------
(* What try_save_state and try_load_state may do.                          *)

LEMMA SavedFiles ==
  ASSUME SavesInv, files' \in Saved
  PROVE  /\ files' \in [Games -> State \cup {NoState, Broken}]
         /\ FilesInv'
         /\ \A g \in Games : Lost(g) => wasReset \/ owed
<1>1. CASE files' = files
  <2>1. \A g \in Games : ~Lost(g)
    BY <1>1, AttemptsAssumption DEF SavesInv, TypesOK, Lost, State
  <2> QED BY <1>1, <2>1 DEF SavesInv, TypesOK, FilesInv
<1>2. CASE Running /\ \E s \in {core, Broken} : files' = [files EXCEPT ![game] = s]
  <2>1. PICK s \in {core, Broken} : files' = [files EXCEPT ![game] = s]
    BY <1>2
  <2>2. game \in Games /\ core \in State /\ core.of = game
    BY <1>2 DEF Running, SavesInv, TypesOK, CoreInv
  <2>3. files' \in [Games -> State \cup {NoState, Broken}]
    BY <2>1, <2>2 DEF SavesInv, TypesOK
  <2>4. FilesInv'
    BY <2>1, <2>2, StatesAssumption DEF SavesInv, TypesOK, FilesInv
  <2>5. ASSUME NEW g \in Games, Lost(g) PROVE wasReset \/ owed
    <3>1. CASE g # game
      <4>1. files'[g] = files[g] BY <3>1, <2>1 DEF SavesInv, TypesOK
      <4> QED BY <4>1, <2>5, AttemptsAssumption DEF Lost, State
    <3>2. CASE g = game
      <4>1. files'[g] = core
        BY <3>2, <2>1, <2>5, StatesAssumption DEF SavesInv, TypesOK, Lost
      <4>2. files[g] \in State /\ core.n < files[g].n
        BY <4>1, <2>5 DEF Lost
      <4>3. core.n \in Nat /\ files[g].n \in Nat
        BY <4>2, <2>2, AttemptsAssumption DEF State
      <4>4. ~(core.n >= files[game].n)
        BY <4>2, <4>3, <3>2
      <4> QED BY <4>2, <4>4, <3>2, <1>2 DEF Running, SavesInv, ProgressInv
    <3> QED BY <3>1, <3>2
  <2> QED BY <2>3, <2>4, <2>5
<1> QED
  BY <1>1, <1>2 DEF Saved

LEMMA Swapped ==
  ASSUME SavesInv, ~crashed, SwapPending
  PROVE  buf' = NoState
  BY DEF SavesInv, CoreInv, SwapPending, KeptPending, Running

LEMMA BootedType ==
  ASSUME NEW g \in Games
  PROVE  Booted(g) \in State /\ Booted(g).of = g /\ Booted(g).n = 0
  BY AttemptsAssumption DEF Booted, State

-----------------------------------------------------------------------------
(* Every action keeps the invariant.                                       *)

LEMMA LoadGameKeepsInv ==
  ASSUME SavesInv, NEW g \in Games, LoadGame(g)
  PROVE  SavesInv'
<1>1. files' \in [Games -> State \cup {NoState, Broken}] /\ FilesInv'
  BY SavedFiles DEF LoadGame
<1>2. game' = g /\ core' = Booted(g) /\ core' \in State /\ core'.of = g /\ g # NoGame
  BY BootedType, GamesAssumption DEF LoadGame
<1>3. /\ buf' \in State \cup {NoState, Broken}
      /\ ~crashed => buf' = NoState \/ buf' = files'[g]
  <2>1. files'[g] \in State \cup {NoState, Broken}
    BY <1>1
  <2>2. SwapPending => buf' \in {NoState, buf}
    BY DEF SwapPending, KeptPending
  <2>3. buf \in State \cup {NoState, Broken}
    BY DEF SavesInv, TypesOK
  <2> QED BY <2>1, <2>2, <2>3, Swapped DEF LoadGame, Stage
<1>4. TypesOK'
  BY <1>1, <1>2, <1>3 DEF TypesOK
<1>5. CoreInv'
  BY <1>2, <1>3, StatesAssumption DEF CoreInv, LoadGame
<1>6. ~owed' => files'[g] = NoState
  BY DEF LoadGame
<1>7. resetRequest' => crashed'
  BY DEF LoadGame
<1>8. ProgressInv'
  BY <1>2, <1>6, <1>7, StatesAssumption DEF ProgressInv, Running
<1> QED
  BY <1>1, <1>4, <1>5, <1>8 DEF SavesInv

LEMMA NoGameKeepsInv ==
  ASSUME SavesInv, files' \in Saved, game' = NoGame, core' = NoState, buf' = NoState
  PROVE  SavesInv'
<1>1. files' \in [Games -> State \cup {NoState, Broken}] /\ FilesInv'
  BY SavedFiles
<1> QED
  BY <1>1, StatesAssumption DEF SavesInv, TypesOK, CoreInv, ProgressInv, Running

LEMMA FrameKeepsInv ==
  ASSUME SavesInv, RunFrame \/ RunFrameAndRestore
  PROVE  SavesInv'
<1>1. /\ game \in Games /\ core \in State /\ core.of = game /\ ~crashed
      /\ UNCHANGED <<game, crashed, resetRequest, files, wasReset>>
  BY DEF RunFrame, RunFrameAndRestore, Running, SavesInv, TypesOK, CoreInv
<1>2. CASE RunFrame
  <2>1. core' \in State /\ core'.of = game /\ core'.n \in {core.n, core.n + 1}
    BY <1>2 DEF RunFrame, Played
  <2>2. buf' = buf \/ buf' = NoState
    BY <1>2 DEF RunFrame
  <2>3. TypesOK' /\ CoreInv' /\ FilesInv'
    BY <1>1, <2>1, <2>2, GamesAssumption, StatesAssumption
    DEF SavesInv, TypesOK, CoreInv, FilesInv
  <2>4. core.n \in Nat /\ (files[game] \in State => files[game].n \in Nat)
    BY <1>1, AttemptsAssumption DEF State
  <2>5. owed' = owed
    BY <1>2 DEF RunFrame
  <2>6. files[game] \in State /\ core.n >= files[game].n => core'.n >= files[game].n
    BY <2>1, <2>4
  <2>7. ProgressInv'
    BY <1>1, <2>5, <2>6 DEF SavesInv, ProgressInv, Running
  <2> QED BY <2>3, <2>7 DEF SavesInv
<1>3. CASE RunFrameAndRestore
  <2>1. buf \in State /\ core' = buf /\ buf' = NoState
    BY <1>3 DEF RunFrameAndRestore, Offered, SavesInv, TypesOK
  <2>2. buf = files[game] /\ buf.of = game
    BY <1>1, <2>1 DEF SavesInv, CoreInv, FilesInv
  <2>3. TypesOK' /\ CoreInv' /\ FilesInv'
    BY <1>1, <2>1, <2>2, GamesAssumption, StatesAssumption
    DEF SavesInv, TypesOK, CoreInv, FilesInv
  <2>4. buf.n \in Nat
    BY <2>1, AttemptsAssumption DEF State
  <2>5. ProgressInv'
    BY <1>1, <2>1, <2>2, <2>4 DEF SavesInv, ProgressInv, Running
  <2> QED BY <2>3, <2>5 DEF SavesInv
<1> QED
  BY <1>2, <1>3

LEMMA ResetKeepsInv ==
  ASSUME SavesInv, RequestReset \/ ResetGame \/ CoreCrashes
  PROVE  SavesInv'
<1>1. CASE RequestReset
  <2>1. UNCHANGED <<game, core, buf, crashed, files, owed>> /\ wasReset' = (wasReset \/ game # NoGame)
    BY <1>1 DEF RequestReset
  <2>2. TypesOK' /\ CoreInv' /\ FilesInv'
    BY <2>1 DEF SavesInv, TypesOK, CoreInv, FilesInv
  <2>3. ProgressInv'
    BY <2>1 DEF SavesInv, ProgressInv, Running
  <2> QED BY <2>2, <2>3 DEF SavesInv
<1>2. CASE ResetGame
  <2>1. /\ game \in Games /\ core' = Booted(game) /\ wasReset'
        /\ UNCHANGED <<game, buf, crashed, files, wasReset>>
    BY <1>2 DEF ResetGame, Running, SavesInv, TypesOK, ProgressInv
  <2>2. core' \in State /\ core'.of = game
    BY <2>1, BootedType
  <2>3. TypesOK' /\ CoreInv' /\ FilesInv'
    BY <2>1, <2>2, GamesAssumption DEF SavesInv, TypesOK, CoreInv, FilesInv
  <2>4. ProgressInv'
    BY <2>1 DEF ProgressInv
  <2> QED BY <2>3, <2>4 DEF SavesInv
<1>3. CASE CoreCrashes
  <2>1. UNCHANGED <<game, core, buf, files, wasReset, owed>> /\ crashed'
    BY <1>3 DEF CoreCrashes
  <2>2. TypesOK' /\ CoreInv' /\ FilesInv'
    BY <2>1 DEF SavesInv, TypesOK, CoreInv, FilesInv
  <2>3. ProgressInv'
    BY <2>1 DEF SavesInv, ProgressInv, Running
  <2> QED BY <2>2, <2>3 DEF SavesInv
<1> QED
  BY <1>1, <1>2, <1>3

LEMMA StepKeepsInv ==
  ASSUME SavesInv, [Next]_vars
  PROVE  SavesInv'
<1>1. CASE \E g \in Games : LoadGame(g)
  BY <1>1, LoadGameKeepsInv
<1>2. CASE LoadFails
  BY <1>2, NoGameKeepsInv, Swapped DEF LoadFails
<1>3. CASE RunFrame \/ RunFrameAndRestore
  BY <1>3, FrameKeepsInv
<1>4. CASE RequestReset \/ ResetGame \/ CoreCrashes
  BY <1>4, ResetKeepsInv
<1>5. CASE Destroy
  BY <1>5, NoGameKeepsInv DEF Destroy, Fresh
<1>6. CASE AskLoad \/ LoadFailsAfterCrash \/ UNCHANGED vars
  <2>1. UNCHANGED <<game, core, buf, crashed, resetRequest, files, wasReset, owed>>
    BY <1>6 DEF AskLoad, LoadFailsAfterCrash, vars
  <2> QED BY <2>1 DEF SavesInv, TypesOK, CoreInv, FilesInv, ProgressInv, Running
<1> QED
  BY <1>1, <1>2, <1>3, <1>4, <1>5, <1>6 DEF Next

LEMMA StepLoses ==
  ASSUME SavesInv, [Next]_vars, NEW g \in Games, Lost(g)
  PROVE  wasReset \/ owed
<1>1. CASE files' \in Saved
  BY <1>1, SavedFiles
<1>2. CASE files' = files
  BY <1>2, AttemptsAssumption DEF Lost, State
<1> QED
  BY <1>1, <1>2 DEF Next, AskLoad, LoadGame, LoadFails, LoadFailsAfterCrash, RunFrame,
     RunFrameAndRestore, RequestReset, ResetGame, CoreCrashes, Destroy, vars

-----------------------------------------------------------------------------
(* The theorems.                                                           *)

\* Core and staged state are of the game that is loaded, over loads after a crash too as far
\* as the state may still be given to the core, and once the core was given the
\* state of the file it has no less than the file, unless the player has reset the game.
THEOREM SavesInvariance == Spec => []SavesInv
<1>1. SavesInv /\ [Next]_vars => SavesInv'
  BY StepKeepsInv
<1> QED
  BY InitSavesInv, <1>1, PTL DEF Spec

\* No game is given or saved under the name of another (worker_do_swap_unload,
\* try_save_state, try_load_state).
THEOREM StatesStayApart == Spec => []OwnStates
<1>1. SavesInv => OwnStates
  BY StatesAssumption DEF SavesInv, TypesOK, CoreInv, FilesInv, OwnStates
<1> QED
  BY SavesInvariance, <1>1, PTL

\* Progress is lost only to a reset of the player, or between a load and the restore
\* that follows some frames later.
THEOREM OnlyBeforeRestore == Spec => LostOnlyUnrestored
<1>1. SavesInv /\ [Next]_vars => [\A g \in Games : Lost(g) => wasReset \/ owed]_vars
  BY StepLoses
<1> QED
  BY SavesInvariance, <1>1, PTL DEF Spec, LostOnlyUnrestored

=============================================================================
