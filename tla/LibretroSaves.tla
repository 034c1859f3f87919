--------------------------- MODULE LibretroSaves ---------------------------
(***************************************************************************)
(* The saved states of one libretro host (aarcadecore/libretro_host.cpp):  *)
(* a state is written when a game is swapped or its host destroyed, read   *)
(* when the game is loaded, and given to the core only after a frame, as   *)
(* many times as it takes it to accept, up to MaxAttempts frames.          *)
(*                                                                         *)
(* Only the worker touches any of it; LibretroWorker has the threads.  The *)
(* engine's part is a load asked for and not yet done: it waits for it,    *)
(* while the worker may still be in a frame or a reset, and the core may   *)
(* crash there.  Such a load goes through, but nothing is unloaded before  *)
(* it, and nothing is saved or restored afterwards.                        *)
(*                                                                         *)
(* Games are their base names, which the files are called by.  How far a   *)
(* game is played is a number; the core may fail at whatever it is asked.  *)
(* A core that asks to be shut down within a load crashes just after it.   *)
(***************************************************************************)
EXTENDS Naturals

CONSTANTS
  Games,        \* games by base name
  NoGame,       \* no game
  NoState,      \* no file, nothing staged, nothing in the core
  Broken,       \* a file that was truncated and not written whole
  MaxAttempts,  \* frames a state is offered for: 10
  MaxProgress   \* bound of the model: how far a game is played

State == [of : Games, n : 0 .. MaxProgress]

ASSUME GamesAssumption    == NoGame \notin Games
ASSUME StatesAssumption   == NoState \notin State /\ Broken \notin State
ASSUME AttemptsAssumption == MaxAttempts \in Nat \ {0} /\ MaxProgress \in Nat

VARIABLES
  asked,         \* a load is asked for, the engine waits in libretro_host_load_game
  game,          \* the game loaded: game_loaded and game_basename
  core,          \* the state of the game in the core
  buf,           \* pending_state_buf
  left,          \* pending_state_attempts_left
  crashed,       \* core_crashed
  resetRequest,  \* reset_request
  files,         \* the .state files
  wasReset,      \* history: the player has reset the game since it was loaded
  owed           \* history: the game had a file and has not been given its state

vars == <<asked, game, core, buf, left, crashed, resetRequest, files, wasReset, owed>>

Booted(g) == [of |-> g, n |-> 0]

Running == game # NoGame /\ ~crashed

\* A host as it is created.
Fresh ==
  /\ asked' = FALSE
  /\ game' = NoGame /\ core' = NoState /\ buf' = NoState /\ left' = 0
  /\ crashed' = FALSE /\ resetRequest' = FALSE /\ wasReset' = FALSE /\ owed' = FALSE

Init ==
  /\ asked = FALSE
  /\ game = NoGame /\ core = NoState /\ buf = NoState /\ left = 0
  /\ crashed = FALSE /\ resetRequest = FALSE /\ wasReset = FALSE /\ owed = FALSE
  /\ files = [g \in Games |-> NoState]

\* try_save_state: the core may refuse, the file may not open, or not be written whole.
Saved ==
  IF ~Running THEN {files}
  ELSE {files} \cup {[files EXCEPT ![game] = s] : s \in {core, Broken}}

\* worker_do_swap_unload drops a state that was pending for the outgoing game, but
\* returns before it does when there is no game or the core has crashed.
KeptPending == buf' = buf /\ left' = left

SwapPending ==
  IF Running THEN buf' = NoState /\ left' = 0 ELSE KeptPending

\* try_load_state stages what the file has; a file that cannot be opened, or is empty,
\* leaves what is staged, one that cannot be read clears it.
Stage(g) ==
  \/ files'[g] # NoState /\ buf' = files'[g] /\ left' = MaxAttempts
  \/ SwapPending
  \/ files'[g] # NoState /\ buf' = NoState /\ left' = IF Running THEN 0 ELSE left

\* libretro_host_load_game looks whether the core has crashed only here.
AskLoad ==
  /\ ~asked /\ ~crashed /\ asked' = TRUE
  /\ UNCHANGED <<game, core, buf, left, crashed, resetRequest, files, wasReset, owed>>

\* Mutant: a reset asked for earlier is not done in the turn of the load but later.
LoadThenResetLater(g) ==
  /\ asked /\ asked' = FALSE
  /\ files' \in Saved
  /\ game' = g /\ core' = Booted(g) /\ Stage(g)
  /\ wasReset' = FALSE /\ owed' = (files'[g] # NoState)
  /\ UNCHANGED <<crashed, resetRequest>>

\* A reset asked for before the load is done with it, in the same turn of the worker,
\* unless the core has crashed.
LoadGame(g) ==
  /\ asked /\ asked' = FALSE
  /\ files' \in Saved
  /\ game' = g /\ core' = Booted(g) /\ Stage(g)
  /\ resetRequest' = (resetRequest /\ crashed)
  /\ wasReset' = FALSE /\ owed' = (files'[g] # NoState)
  /\ UNCHANGED crashed

\* The outgoing game is gone all the same.
LoadFails ==
  /\ asked /\ asked' = FALSE /\ ~crashed
  /\ files' \in Saved
  /\ game' = NoGame /\ core' = NoState /\ SwapPending
  /\ wasReset' = FALSE /\ owed' = FALSE
  /\ UNCHANGED <<crashed, resetRequest>>

\* After a crash game_loaded stays set.  A failure so late that the base name is the new
\* one already is LoadGame with nothing staged.
LoadFailsAfterCrash ==
  /\ asked /\ asked' = FALSE /\ crashed
  /\ UNCHANGED <<game, core, buf, left, crashed, resetRequest, files, wasReset, owed>>

Offered == left > 0 /\ buf # NoState

Played == {s \in State : s.of = game /\ s.n \in {core.n, core.n + 1}}

\* A frame without a state to restore, or after which the core does not accept it.
RunFrame ==
  /\ Running
  /\ core' \in Played
  /\ IF Offered THEN left' = left - 1 /\ buf' = IF left = 1 THEN NoState ELSE buf
                ELSE UNCHANGED <<buf, left>>
  /\ UNCHANGED <<asked, game, crashed, resetRequest, files, wasReset, owed>>

RunFrameAndRestore ==
  /\ Running /\ Offered /\ buf # Broken
  /\ core' = buf /\ buf' = NoState /\ left' = 0 /\ owed' = FALSE
  /\ UNCHANGED <<asked, game, crashed, resetRequest, files, wasReset>>

\* libretro_host_reset is called at any time, with a game or without.
RequestReset ==
  /\ ~asked
  /\ resetRequest' = TRUE /\ wasReset' = (wasReset \/ game # NoGame)
  /\ UNCHANGED <<asked, game, core, buf, left, crashed, files, owed>>

ResetGame ==
  /\ Running /\ resetRequest
  /\ resetRequest' = FALSE /\ core' = Booted(game)
  /\ UNCHANGED <<asked, game, buf, left, crashed, files, wasReset, owed>>

\* In a frame or a reset.
CoreCrashes ==
  /\ Running /\ crashed' = TRUE /\ resetRequest' \in {FALSE, resetRequest}
  /\ UNCHANGED <<asked, game, core, buf, left, files, wasReset, owed>>

\* libretro_host_destroy, with worker_do_unload; then there may be a new host.
Destroy == ~asked /\ files' \in Saved /\ Fresh

Next ==
  \/ AskLoad \/ \E g \in Games : LoadGame(g)
  \/ LoadFails \/ LoadFailsAfterCrash \/ RunFrame \/ RunFrameAndRestore
  \/ RequestReset \/ ResetGame \/ CoreCrashes \/ Destroy

Spec == Init /\ [][Next]_vars

-----------------------------------------------------------------------------
(* Properties.                                                             *)

\* Over swaps, failed loads and crashes no game is given or saved under the name of
\* another: file and core are of one game, and so is what waits to be restored, as long
\* as the core has not crashed and may still be given it.
OwnStates ==
  /\ core # NoState => core.of = game
  /\ buf \in State /\ ~crashed => buf.of = game
  /\ \A g \in Games : files[g] \in State => files[g].of = g

Lost(g) == files[g] \in State /\ files'[g] \in State /\ files'[g].n < files[g].n

\* What a file holds is replaced by less only if the player has reset the game, or the
\* core has not been given the state since the load: a reset asked for earlier, another
\* game's state or a second restore never cost progress.
LostOnlyUnrestored == [][\A g \in Games : Lost(g) => wasReset \/ owed]_vars

\* "Saves state/SRAM for the outgoing game so progress isn't lost"
\* (libretro_host.cpp:1608): while the state of a file waits to be given to the core, and
\* the player has not reset the game, that file is not replaced by less.
ProgressKept == [][\A g \in Games : buf = files[g] /\ Lost(g) => wasReset]_vars

=============================================================================
