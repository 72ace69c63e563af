--------------------------- MODULE GameStateMachine ---------------------------
(***************************************************************************)
(* GameStateMachine of internal/engine/game_state_machine.go: machines     *)
(* loaded from the row of one game, each with a copy of it.  The tests use *)
(* it, the server does not.  Callbacks and the write to the database may   *)
(* fail; timestamps and the events published are left out.                 *)
(***************************************************************************)
CONSTANTS Machines

VARIABLES
  row,      \* the game in the database: status and phase
  machine,  \* what each machine holds
  fresh     \* history: machines nobody has written behind the back of

machineVars == <<row, machine, fresh>>

States == {"preparing", "running", "paused", "finished"}
Events == {"start", "pause", "resume", "finish"}

\* validTransitions.
Transitions ==
  {<<"preparing", "start", "running">>, <<"running", "pause", "paused">>,
   <<"running", "finish", "finished">>, <<"paused", "resume", "running">>,
   <<"paused", "finish", "finished">>}

\* Rows as the machine writes them, and those of GameService.
Canonical == [preparing |-> <<"draft", "preparation">>, running |-> <<"active", "running">>,
              paused |-> <<"active", "break">>, finished |-> <<"finished", "finished">>]
ServiceRows == {<<"running", "running">>, <<"running", "break">>, <<"paused", "running">>}
GameRows == {Canonical[s] : s \in States} \cup ServiceRows

mapModelToGameState(game) ==
  CASE game[1] = "finished" -> "finished"
    [] game[1] = "active" /\ game[2] = "break" -> "paused"
    [] game[1] = "active" /\ game[2] # "break" -> "running"
    [] OTHER -> "preparing"

MachineTypeOK ==
  /\ row \in GameRows /\ fresh \subseteq Machines
  /\ machine \in [Machines -> [at : {"none", "idle", "callbacks", "persist"}, state : States,
                               from : States, game : GameRows, persistDB : BOOLEAN]]

Absent == [at |-> "none", state |-> "preparing", from |-> "preparing",
           game |-> Canonical["preparing"], persistDB |-> TRUE]

MachineInit == row \in GameRows /\ machine = [m \in Machines |-> Absent] /\ fresh = {}

Becomes(m, fields) == machine' = [machine EXCEPT ![m] = fields]
-----------------------------------------------------------------------------
\* LoadGameStateMachine and NewGameStateMachine.
Load(m, persistDB) ==
  /\ machine[m].at = "none"
  /\ Becomes(m, [Absent EXCEPT !.at = "idle", !.state = mapModelToGameState(row),
                               !.game = row, !.persistDB = persistDB])
  /\ fresh' = fresh \cup {m} /\ UNCHANGED row

\* A machine is an object its user may let go of.
Drop(m) ==
  /\ machine[m].at = "idle" /\ Becomes(m, Absent)
  /\ fresh' = fresh \ {m} /\ UNCHANGED row

\* Transition holds the machine's mutex to its end: the machine is not read
\* in between.  from is the new state while the callbacks run, and the old
\* one, to go back to, while the row is written.
Transition(m, event) ==
  /\ machine[m].at = "idle"
  /\ \E to \in States :
       /\ <<machine[m].state, event, to>> \in Transitions
       /\ Becomes(m, [machine[m] EXCEPT !.at = "callbacks", !.from = to])
  /\ UNCHANGED <<row, fresh>>

CallbackFails(m) ==
  /\ machine[m].at = "callbacks" /\ Becomes(m, [machine[m] EXCEPT !.at = "idle"])
  /\ UNCHANGED <<row, fresh>>

\* updateModelState.
Moved(m, state) == [machine[m] EXCEPT !.state = state, !.game = Canonical[state]]

CallbacksDone(m) ==
  /\ machine[m].at = "callbacks"
  /\ Becomes(m, [Moved(m, machine[m].from) EXCEPT
                   !.at = IF machine[m].persistDB THEN "persist" ELSE "idle",
                   !.from = machine[m].state])
  /\ fresh' = IF machine[m].persistDB THEN fresh ELSE fresh \ {m}
  /\ UNCHANGED row

PersistState(m) ==
  /\ machine[m].at = "persist"
  /\ row' = machine[m].game /\ fresh' = {m}
  /\ Becomes(m, [machine[m] EXCEPT !.at = "idle"])

\* Mutant: the state goes back and the copy of the game does not.
PersistFails_KeepsCopy(m) ==
  /\ machine[m].at = "persist"
  /\ Becomes(m, [machine[m] EXCEPT !.at = "idle", !.state = machine[m].from])
  /\ UNCHANGED <<row, fresh>>

PersistFails(m) ==
  /\ machine[m].at = "persist"
  /\ Becomes(m, [Moved(m, machine[m].from) EXCEPT !.at = "idle"])
  /\ UNCHANGED <<row, fresh>>

MachineNext ==
  \E m \in Machines :
    \/ \E persistDB \in BOOLEAN : Load(m, persistDB)
    \/ \E event \in Events : Transition(m, event)
    \/ Drop(m) \/ CallbackFails(m) \/ CallbacksDone(m) \/ PersistState(m) \/ PersistFails(m)

MachineSpec == MachineInit /\ [][MachineNext]_machineVars
-----------------------------------------------------------------------------
(***************************************************************************)
(* Properties.                                                             *)
(***************************************************************************)

\* Whatever failed, a machine at rest, its copy of the game and a machine that
\* would be loaded now are in the same state, unless another machine has
\* written the row since this one last did: machines do not see each other.
ReloadGivesTheState ==
  \A m \in Machines :
    machine[m].at = "idle" =>
      /\ mapModelToGameState(machine[m].game) = machine[m].state
      /\ m \in fresh => mapModelToGameState(row) = machine[m].state
=============================================================================
