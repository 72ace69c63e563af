----------------------------- MODULE StatusProofs -----------------------------
(***************************************************************************)
(* What is noted of a state elsewhere is what the state is: proofs about   *)
(* GameStateMachine, ServiceMonitor, AlertManager and HealthChecker, for   *)
(* any machines, services, checkers, alerts and notifiers, about Networks, *)
(* for any games and teams, and about ZeroSum, for any teams and points.   *)
(***************************************************************************)
EXTENDS GameStateMachine, ServiceMonitor, AlertManager, HealthChecker, Networks, ZeroSum, Sums

-----------------------------------------------------------------------------
(***************************************************************************)
(* GameStateMachine.                                                       *)
(***************************************************************************)
Machine == [at : {"none", "idle", "callbacks", "persist"}, state : States,
            from : States, game : GameRows, persistDB : BOOLEAN]

\* The copy of the game is in the state of the machine at every moment.
CopyAgrees ==
  \A m \in Machines :
    machine[m].at # "none" => mapModelToGameState(machine[m].game) = machine[m].state

\* A machine that nobody has written behind the back of holds the state of the
\* row; while it writes that state is the one it would go back to.
FreshAgrees ==
  \A m \in fresh :
    /\ machine[m].at # "none"
    /\ machine[m].at # "persist" => mapModelToGameState(row) = machine[m].state
    /\ machine[m].at = "persist" => mapModelToGameState(row) = machine[m].from

MachineInv == MachineTypeOK /\ CopyAgrees /\ FreshAgrees

\* What updateModelState writes is read back as the same state.
LEMMA WrittenIsRead ==
  ASSUME NEW s \in States
  PROVE  Canonical[s] \in GameRows /\ mapModelToGameState(Canonical[s]) = s
<1>1. CASE s = "preparing"  BY <1>1 DEF Canonical, GameRows, States, mapModelToGameState
<1>2. CASE s = "running"    BY <1>2 DEF Canonical, GameRows, States, mapModelToGameState
<1>3. CASE s = "paused"     BY <1>3 DEF Canonical, GameRows, States, mapModelToGameState
<1>4. CASE s = "finished"   BY <1>4 DEF Canonical, GameRows, States, mapModelToGameState
<1> QED BY <1>1, <1>2, <1>3, <1>4 DEF States

\* mapModelToGameState knows every status.
LEMMA ReadIsState ==
  ASSUME NEW game PROVE mapModelToGameState(game) \in States
<1>1. CASE game[1] = "finished"  BY <1>1 DEF mapModelToGameState, States
<1>2. CASE game[1] = "active" /\ game[2] = "break"  BY <1>2 DEF mapModelToGameState, States
<1>3. CASE game[1] = "active" /\ game[2] # "break"  BY <1>3 DEF mapModelToGameState, States
<1>4. CASE game[1] # "finished" /\ game[1] # "active"  BY <1>4 DEF mapModelToGameState, States
<1> QED BY <1>1, <1>2, <1>3, <1>4

\* A step that changes one machine keeps the invariant when that machine does.
LEMMA OneMachineMoves ==
  ASSUME MachineInv, NEW m \in Machines, NEW fields \in Machine, Becomes(m, fields),
         row' \in GameRows, fresh' \subseteq Machines,
         fields.at # "none" => mapModelToGameState(fields.game) = fields.state,
         m \in fresh' =>
           /\ fields.at # "none"
           /\ fields.at # "persist" => mapModelToGameState(row') = fields.state
           /\ fields.at = "persist" => mapModelToGameState(row') = fields.from,
         \A n \in fresh' \ {m} : n \in fresh /\ row' = row
  PROVE  MachineInv'
<1>1. machine \in [Machines -> Machine]
  BY DEF MachineInv, MachineTypeOK, Machine
<1>2. /\ machine' \in [Machines -> Machine] /\ machine'[m] = fields
      /\ \A n \in Machines \ {m} : machine'[n] = machine[n]
  BY <1>1 DEF Becomes
<1>3. MachineTypeOK'
  BY <1>2 DEF MachineTypeOK, Machine
<1>4. CopyAgrees'
  BY <1>2 DEF MachineInv, CopyAgrees
<1>5. FreshAgrees'
  <2> SUFFICES ASSUME NEW n \in fresh'
      PROVE /\ machine'[n].at # "none"
            /\ machine'[n].at # "persist" => mapModelToGameState(row') = machine'[n].state
            /\ machine'[n].at = "persist" => mapModelToGameState(row') = machine'[n].from
    BY DEF FreshAgrees
  <2>1. CASE n = m  BY <2>1, <1>2
  <2>2. CASE n # m
    <3>1. n \in fresh /\ row' = row /\ machine'[n] = machine[n]
      BY <2>2, <1>2
    <3> QED BY <3>1 DEF MachineInv, FreshAgrees
  <2> QED BY <2>1, <2>2
<1> QED BY <1>3, <1>4, <1>5 DEF MachineInv

LEMMA MachineInvHolds == MachineSpec => []MachineInv
<1>1. MachineInit => MachineInv
  <2> SUFFICES ASSUME MachineInit PROVE MachineInv  OBVIOUS
  <2>1. "preparing" \in States  BY DEF States
  <2>2. Absent \in Machine
    BY <2>1, WrittenIsRead DEF Absent, Machine
  <2> QED
    BY <2>2 DEF MachineInit, MachineInv, MachineTypeOK, CopyAgrees, FreshAgrees, Machine, Absent
<1>2. MachineInv /\ [MachineNext]_machineVars => MachineInv'
  <2> SUFFICES ASSUME MachineInv, [MachineNext]_machineVars PROVE MachineInv'  OBVIOUS
  <2>1. CASE UNCHANGED machineVars
    BY <2>1 DEF MachineInv, MachineTypeOK, CopyAgrees, FreshAgrees, machineVars
  <2>2. ASSUME NEW m \in Machines,
               \/ \E persistDB \in BOOLEAN : Load(m, persistDB)
               \/ \E event \in Events : Transition(m, event)
               \/ Drop(m) \/ CallbackFails(m) \/ CallbacksDone(m)
               \/ PersistState(m) \/ PersistFails(m)
        PROVE  MachineInv'
    <3>1. /\ machine[m] \in Machine /\ row \in GameRows /\ fresh \subseteq Machines
          /\ machine[m].at # "none" => mapModelToGameState(machine[m].game) = machine[m].state
          /\ m \in fresh =>
               /\ machine[m].at # "none"
               /\ machine[m].at # "persist" => mapModelToGameState(row) = machine[m].state
               /\ machine[m].at = "persist" => mapModelToGameState(row) = machine[m].from
      BY DEF MachineInv, MachineTypeOK, CopyAgrees, FreshAgrees, Machine
    <3>2. ASSUME NEW persistDB \in BOOLEAN, Load(m, persistDB) PROVE MachineInv'
      <4> DEFINE fields == [Absent EXCEPT !.at = "idle", !.state = mapModelToGameState(row),
                                          !.game = row, !.persistDB = persistDB]
      <4>1. mapModelToGameState(row) \in States /\ "preparing" \in States
        BY ReadIsState DEF States
      <4>2. Absent \in Machine
        BY <4>1, WrittenIsRead DEF Absent, Machine
      <4>3. /\ fields \in Machine /\ fields.at = "idle" /\ fields.game = row
            /\ fields.state = mapModelToGameState(row)
        BY <4>1, <4>2, <3>1 DEF Machine
      <4>4. /\ Becomes(m, fields) /\ row' = row /\ fresh' = fresh \cup {m}
        BY <3>2 DEF Load
      <4> HIDE DEF fields
      <4> QED BY <4>3, <4>4, <3>1, OneMachineMoves
    <3>3. ASSUME NEW event \in Events, Transition(m, event) PROVE MachineInv'
      <4>1. PICK to \in States : Becomes(m, [machine[m] EXCEPT !.at = "callbacks", !.from = to])
        BY <3>3 DEF Transition
      <4> DEFINE fields == [machine[m] EXCEPT !.at = "callbacks", !.from = to]
      <4>2. /\ fields \in Machine /\ fields.at = "callbacks"
            /\ fields.state = machine[m].state /\ fields.game = machine[m].game
        BY <3>1 DEF Machine
      <4>3. Becomes(m, fields) /\ row' = row /\ fresh' = fresh /\ machine[m].at = "idle"
        BY <3>3, <4>1 DEF Transition
      <4> HIDE DEF fields
      <4> QED BY <4>2, <4>3, <3>1, OneMachineMoves
    <3>4. CASE Drop(m)
      <4>1. /\ Absent \in Machine /\ Absent.at = "none"
        BY WrittenIsRead DEF Absent, Machine, States
      <4>2. Becomes(m, Absent) /\ row' = row /\ fresh' = fresh \ {m}
        BY <3>4 DEF Drop
      <4> QED BY <4>1, <4>2, <3>1, OneMachineMoves
    <3>5. CASE CallbackFails(m)
      <4> DEFINE fields == [machine[m] EXCEPT !.at = "idle"]
      <4>1. /\ fields \in Machine /\ fields.at = "idle"
            /\ fields.state = machine[m].state /\ fields.game = machine[m].game
        BY <3>1 DEF Machine
      <4>2. Becomes(m, fields) /\ row' = row /\ fresh' = fresh /\ machine[m].at = "callbacks"
        BY <3>5 DEF CallbackFails
      <4> HIDE DEF fields
      <4> QED BY <4>1, <4>2, <3>1, OneMachineMoves
    <3>6. CASE CallbacksDone(m)
      <4> DEFINE at == IF machine[m].persistDB THEN "persist" ELSE "idle"
                 fields == [Moved(m, machine[m].from) EXCEPT !.at = at, !.from = machine[m].state]
      <4>1. /\ machine[m].from \in States /\ Canonical[machine[m].from] \in GameRows
            /\ mapModelToGameState(Canonical[machine[m].from]) = machine[m].from
        BY <3>1, WrittenIsRead DEF Machine
      <4>2. /\ fields \in Machine /\ fields.at = at /\ fields.from = machine[m].state
            /\ fields.state = machine[m].from /\ fields.game = Canonical[machine[m].from]
        BY <4>1, <3>1 DEF Machine, Moved
      <4>3. /\ Becomes(m, fields) /\ row' = row /\ machine[m].at = "callbacks"
            /\ fresh' = IF machine[m].persistDB THEN fresh ELSE fresh \ {m}
        BY <3>6 DEF CallbacksDone
      <4>4. machine[m].persistDB \in BOOLEAN  BY <3>1 DEF Machine
      <4> HIDE DEF fields
      <4>5. CASE machine[m].persistDB
        BY <4>5, <4>1, <4>2, <4>3, <3>1, OneMachineMoves
      <4>6. CASE ~machine[m].persistDB
        BY <4>6, <4>1, <4>2, <4>3, <3>1, OneMachineMoves
      <4> QED BY <4>5, <4>6
    <3>7. CASE PersistState(m)
      <4> DEFINE fields == [machine[m] EXCEPT !.at = "idle"]
      <4>1. /\ fields \in Machine /\ fields.at = "idle"
            /\ fields.state = machine[m].state /\ fields.game = machine[m].game
            /\ machine[m].game \in GameRows
        BY <3>1 DEF Machine
      <4>2. /\ Becomes(m, fields) /\ row' = machine[m].game /\ fresh' = {m}
            /\ machine[m].at = "persist"
        BY <3>7 DEF PersistState
      <4> HIDE DEF fields
      <4> QED BY <4>1, <4>2, <3>1, OneMachineMoves
    <3>8. CASE PersistFails(m)
      <4> DEFINE fields == [Moved(m, machine[m].from) EXCEPT !.at = "idle"]
      <4>1. /\ machine[m].from \in States /\ Canonical[machine[m].from] \in GameRows
            /\ mapModelToGameState(Canonical[machine[m].from]) = machine[m].from
        BY <3>1, WrittenIsRead DEF Machine
      <4>2. /\ fields \in Machine /\ fields.at = "idle"
            /\ fields.state = machine[m].from /\ fields.game = Canonical[machine[m].from]
        BY <4>1, <3>1 DEF Machine, Moved
      <4>3. Becomes(m, fields) /\ row' = row /\ fresh' = fresh /\ machine[m].at = "persist"
        BY <3>8 DEF PersistFails
      <4> HIDE DEF fields
      <4> QED BY <4>1, <4>2, <4>3, <3>1, OneMachineMoves
    <3> QED BY <2>2, <3>2, <3>3, <3>4, <3>5, <3>6, <3>7, <3>8
  <2> QED BY <2>1, <2>2 DEF MachineNext
<1> QED BY <1>1, <1>2, PTL DEF MachineSpec

\* Whatever callback or write failed, a machine at rest, its copy of the game
\* and the row agree, unless another machine has written the row since.
THEOREM ReloadAgrees == MachineSpec => []ReloadGivesTheState
<1>1. MachineInv => ReloadGivesTheState
  BY DEF MachineInv, MachineTypeOK, CopyAgrees, FreshAgrees, ReloadGivesTheState
<1> QED BY <1>1, MachineInvHolds, PTL
-----------------------------------------------------------------------------
(***************************************************************************)
(* ServiceMonitor.                                                         *)
(***************************************************************************)
\* What a checker r remembers, what was last told of it and whether that was
\* lost.  A full count of failures is notified; with RecoveryNotify a notified
\* checker has that count; only a supported service is ever notified.
Consistent(r, word, dropped) ==
  /\ ~dropped => (word = "down" <=> r.notified)
  /\ r.fails = FailureCount => r.notified
  /\ r.notified /\ recovery => r.last = "unhealthy" /\ r.fails = FailureCount
  /\ r.notified => r.service \notin Unsupported
  /\ r.at = "report" => (r.saw = "unknown" <=> r.service \in Unsupported)

CheckersOpen ==
  \A s \in Services : checkers[s] # NoProbe =>
    probes[checkers[s]].service = s /\ ~probes[checkers[s]].closed

MonitorInv ==
  /\ probes \in [Probes -> Probe] /\ checkers \in [Services -> Probes \cup {NoProbe}]
  /\ told \in [Probes -> {"none", "down", "recovered"}] /\ lost \subseteq Probes
  /\ ~twice
  /\ CheckersOpen
  /\ \A p \in Probes : Consistent(probes[p], told[p], p \in lost)

\* A step of one goroutine keeps the invariant if that goroutine does, and the
\* service and the channel of the checker stay.
LEMMA OneProbeMoves ==
  ASSUME MonitorInv, NEW p \in Probes, NEW fields \in Probe, Proceeds(p, fields),
         fields.service = probes[p].service, fields.closed = probes[p].closed,
         UNCHANGED <<checkers, recovery, twice>>,
         told' \in [Probes -> {"none", "down", "recovered"}], lost' \subseteq Probes,
         \A q \in Probes \ {p} : told'[q] = told[q] /\ (q \in lost' <=> q \in lost),
         Consistent(fields, told'[p], p \in lost')
  PROVE  MonitorInv'
<1>1. /\ probes' \in [Probes -> Probe] /\ probes'[p] = fields
      /\ \A q \in Probes \ {p} : probes'[q] = probes[q]
  BY DEF Proceeds, MonitorInv
<1>2. CheckersOpen'
  <2> SUFFICES ASSUME NEW s \in Services, checkers[s] # NoProbe
      PROVE probes'[checkers[s]].service = s /\ ~probes'[checkers[s]].closed
    BY DEF CheckersOpen
  <2>1. /\ checkers[s] \in Probes
        /\ probes[checkers[s]].service = s /\ ~probes[checkers[s]].closed
    BY DEF MonitorInv, CheckersOpen
  <2>2. CASE checkers[s] = p   BY <2>1, <2>2, <1>1
  <2>3. CASE checkers[s] # p   BY <2>1, <2>3, <1>1
  <2> QED BY <2>2, <2>3
<1>3. ASSUME NEW q \in Probes PROVE Consistent(probes[q], told[q], q \in lost)'
  <2>1. CASE q = p   BY <2>1, <1>1 DEF Consistent
  <2>2. CASE q # p
    <3>1. /\ probes'[q] = probes[q] /\ told'[q] = told[q] /\ (q \in lost' <=> q \in lost)
          /\ recovery' = recovery
      BY <2>2, <1>1
    <3>2. Consistent(probes[q], told[q], q \in lost)
      BY DEF MonitorInv
    <3> QED BY <3>1, <3>2 DEF Consistent
  <2> QED BY <2>1, <2>2
<1> QED BY <1>1, <1>2, <1>3 DEF MonitorInv

\* The verdict of a check: the three ways through handleStatusChange.
LEMMA VerdictIsConsistent ==
  ASSUME MonitorInv, NEW p \in Probes, HandleStatusChange(p)
  PROVE  MonitorInv'
<1> DEFINE r == probes[p]
<1> USE MonitorAssumption
<1>1. /\ r \in Probe /\ Consistent(r, told[p], p \in lost) /\ r.at = "report"
      /\ UNCHANGED <<checkers, recovery, twice>>
      /\ told \in [Probes -> {"none", "down", "recovered"}] /\ lost \subseteq Probes
  BY DEF MonitorInv, HandleStatusChange
<1>2. /\ Fails(p) \in 0..FailureCount
      /\ r.saw # "unhealthy" => Fails(p) = 0
      /\ r.fails = FailureCount /\ r.saw = "unhealthy" => Fails(p) = FailureCount
  BY <1>1 DEF Fails, Probe
<1>3. ASSUME NEW n \in BOOLEAN, Reported(p, n)
      PROVE  \E fields \in Probe :
               /\ Proceeds(p, fields) /\ fields.at = "idle" /\ fields.saw = r.saw
               /\ fields.service = r.service /\ fields.closed = r.closed
               /\ fields.fails = Fails(p) /\ fields.last = r.saw /\ fields.notified = n
  <2> DEFINE fields == [r EXCEPT !.at = "idle", !.fails = Fails(p), !.last = r.saw, !.notified = n]
  <2>1. /\ fields \in Probe /\ fields.at = "idle" /\ fields.saw = r.saw
        /\ fields.service = r.service /\ fields.closed = r.closed
        /\ fields.fails = Fails(p) /\ fields.last = r.saw /\ fields.notified = n
    BY <1>1, <1>2 DEF Probe
  <2>2. Proceeds(p, fields)
    BY <1>3 DEF Reported
  <2> QED BY <2>1, <2>2
<1>4. ASSUME NEW kind \in {"down", "recovered"}, Alert(p, kind)
      PROVE  /\ told' \in [Probes -> {"none", "down", "recovered"}] /\ lost' \subseteq Probes
             /\ \A q \in Probes \ {p} : told'[q] = told[q] /\ (q \in lost' <=> q \in lost)
             /\ p \in lost' \/ told'[p] = kind
  BY <1>1, <1>4 DEF Alert
<1>5. CASE WentDown(p) /\ Alert(p, "down") /\ Reported(p, TRUE)
  <2>1. PICK fields \in Probe :
          /\ Proceeds(p, fields) /\ fields.at = "idle" /\ fields.saw = r.saw
          /\ fields.service = r.service /\ fields.closed = r.closed
          /\ fields.fails = Fails(p) /\ fields.last = r.saw /\ fields.notified = TRUE
    BY <1>5, <1>3
  <2>2. r.saw = "unhealthy" /\ Fails(p) = FailureCount
    BY <1>5, <1>2 DEF WentDown
  <2>3. Consistent(fields, told'[p], p \in lost')
    BY <1>1, <1>4, <1>5, <2>1, <2>2 DEF Consistent
  <2> QED BY <1>1, <1>4, <1>5, <2>1, <2>3, OneProbeMoves
<1>6. CASE Recovered(p) /\ Alert(p, "recovered") /\ Reported(p, FALSE)
  <2>1. PICK fields \in Probe :
          /\ Proceeds(p, fields) /\ fields.at = "idle" /\ fields.saw = r.saw
          /\ fields.service = r.service /\ fields.closed = r.closed
          /\ fields.fails = Fails(p) /\ fields.last = r.saw /\ fields.notified = FALSE
    BY <1>6, <1>3
  <2>2. Fails(p) # FailureCount
    BY <1>6, <1>2 DEF Recovered
  <2>3. Consistent(fields, told'[p], p \in lost')
    BY <1>4, <1>6, <2>1, <2>2 DEF Consistent
  <2> QED BY <1>1, <1>4, <1>6, <2>1, <2>3, OneProbeMoves
<1>7. CASE /\ ~WentDown(p) /\ ~Recovered(p) /\ Reported(p, r.notified)
           /\ UNCHANGED <<alerts, told, lost>>
  <2>0. r.notified \in BOOLEAN
    BY <1>1 DEF Probe
  <2>1. PICK fields \in Probe :
          /\ Proceeds(p, fields) /\ fields.at = "idle" /\ fields.saw = r.saw
          /\ fields.service = r.service /\ fields.closed = r.closed
          /\ fields.fails = Fails(p) /\ fields.last = r.saw /\ fields.notified = r.notified
    BY <1>7, <1>3, <2>0
  <2>2. r.saw \in {"unknown", "healthy", "unhealthy"}
    BY <1>1 DEF Probe, Health
  <2>3. Fails(p) = FailureCount => r.notified
    BY <1>7, <1>2, <2>2 DEF WentDown
  <2>4. r.notified /\ recovery => r.saw = "unhealthy"
    BY <1>1, <1>7, <2>2 DEF Consistent, Recovered
  <2>5. r.notified /\ recovery => Fails(p) = FailureCount
    BY <1>1, <1>2, <2>4 DEF Consistent
  <2>6. Consistent(fields, told'[p], p \in lost')
    BY <1>1, <1>7, <2>1, <2>3, <2>4, <2>5 DEF Consistent
  <2> QED BY <1>1, <1>7, <2>1, <2>6, OneProbeMoves
<1> QED BY <1>5, <1>6, <1>7 DEF HandleStatusChange

LEMMA MonitorStep == MonitorInv /\ [MonitorNext]_monitorVars => MonitorInv'
<1> SUFFICES ASSUME MonitorInv, [MonitorNext]_monitorVars PROVE MonitorInv'
  OBVIOUS
<1> USE MonitorAssumption
<1>0. /\ probes \in [Probes -> Probe] /\ checkers \in [Services -> Probes \cup {NoProbe}]
      /\ told \in [Probes -> {"none", "down", "recovered"}] /\ lost \subseteq Probes
      /\ CheckersOpen /\ ~twice
      /\ \A p \in Probes : Consistent(probes[p], told[p], p \in lost)
  BY DEF MonitorInv
<1>1. ASSUME NEW s \in Services, NEW p \in Probes, AddService(s, p) PROVE MonitorInv'
  <2> DEFINE fields == [Unmade EXCEPT !.at = "check", !.service = s]
  <2>1. /\ fields \in Probe /\ fields.service = s /\ fields.at = "check"
        /\ fields.fails = 0 /\ fields.notified = FALSE /\ fields.closed = FALSE
    <3>1. Unmade \in Probe /\ Unmade.fails = 0 /\ Unmade.notified = FALSE /\ Unmade.closed = FALSE
      BY DEF Unmade, Probe, Health
    <3> QED BY <3>1 DEF Probe
  <2>2. probes[p].notified = FALSE /\ probes[p].service = NoProbe
    BY <1>1 DEF AddService, Unmade
  <2>3. /\ probes' \in [Probes -> Probe] /\ probes'[p] = fields
        /\ \A q \in Probes \ {p} : probes'[q] = probes[q]
        /\ checkers' \in [Services -> Probes \cup {NoProbe}] /\ checkers'[s] = p
        /\ \A t \in Services \ {s} : checkers'[t] = checkers[t]
        /\ checkers[s] = NoProbe
        /\ UNCHANGED <<recovery, told, lost, twice>>
    BY <1>1, <1>0, <2>1 DEF AddService, Proceeds
  <2>4. CheckersOpen'
    <3> SUFFICES ASSUME NEW t \in Services, checkers'[t] # NoProbe
        PROVE probes'[checkers'[t]].service = t /\ ~probes'[checkers'[t]].closed
      BY DEF CheckersOpen
    <3>1. CASE t = s  BY <3>1, <2>1, <2>3
    <3>2. CASE t # s /\ checkers[t] # p
      BY <3>2, <2>3, <1>0 DEF CheckersOpen
    <3>3. CASE t # s /\ checkers[t] = p
      <4>1. probes[p].service = t /\ ~probes[p].closed /\ checkers[t] # NoProbe
        BY <3>3, <2>3, <1>0 DEF CheckersOpen
      <4>2. checkers'[t] = p
        BY <3>3, <2>3
      <4> QED BY <4>1, <2>2
    <3> QED BY <3>1, <3>2, <3>3
  <2>5. ASSUME NEW q \in Probes PROVE Consistent(probes[q], told[q], q \in lost)'
    <3>1. CASE q = p
      <4>1. ~(p \in lost) => told[p] # "down"
        BY <2>2, <1>0 DEF Consistent
      <4> QED BY <4>1, <3>1, <2>1, <2>3 DEF Consistent
    <3>2. CASE q # p
      <4>1. probes'[q] = probes[q] /\ Consistent(probes[q], told[q], q \in lost)
        BY <3>2, <2>3, <1>0
      <4> QED BY <4>1, <2>3 DEF Consistent
    <3> QED BY <3>1, <3>2
  <2> QED BY <2>3, <2>4, <2>5, <1>0 DEF MonitorInv
<1>2. ASSUME NEW s \in Services, RemoveService(s) PROVE MonitorInv'
  <2> DEFINE p == checkers[s]
             fields == [probes[p] EXCEPT !.closed = TRUE]
  <2>1. p \in Probes /\ probes[p].service = s /\ ~probes[p].closed /\ checkers[s] # NoProbe
    BY <1>2, <1>0 DEF RemoveService, CheckersOpen
  <2>2. /\ fields \in Probe /\ fields.fails = probes[p].fails /\ fields.at = probes[p].at
        /\ fields.last = probes[p].last /\ fields.notified = probes[p].notified
        /\ fields.service = probes[p].service /\ fields.saw = probes[p].saw
    <3>1. probes[p] \in Probe
      BY <2>1, <1>0
    <3> HIDE DEF p
    <3> QED BY <3>1 DEF Probe
  <2>3. /\ probes' \in [Probes -> Probe] /\ probes'[p] = fields
        /\ \A q \in Probes \ {p} : probes'[q] = probes[q]
        /\ checkers' \in [Services -> Probes \cup {NoProbe}] /\ checkers'[s] = NoProbe
        /\ \A t \in Services \ {s} : checkers'[t] = checkers[t]
        /\ UNCHANGED <<recovery, told, lost>>
    BY <1>2, <1>0, <2>1, <2>2 DEF RemoveService, Proceeds
  <2>4. ~twice'
    BY <1>2, <1>0, <2>1 DEF RemoveService
  <2>5. CheckersOpen'
    <3> SUFFICES ASSUME NEW t \in Services, checkers'[t] # NoProbe
        PROVE probes'[checkers'[t]].service = t /\ ~probes'[checkers'[t]].closed
      BY DEF CheckersOpen
    <3>1. t # s /\ checkers'[t] = checkers[t]
      BY <2>3
    <3>2. checkers[t] \in Probes /\ probes[checkers[t]].service = t /\ ~probes[checkers[t]].closed
      BY <3>1, <1>0 DEF CheckersOpen
    <3>3. checkers[t] # p
      BY <3>1, <3>2, <2>1
    <3> QED BY <3>1, <3>2, <3>3, <2>3
  <2>6. ASSUME NEW q \in Probes PROVE Consistent(probes[q], told[q], q \in lost)'
    <3>1. Consistent(probes[q], told[q], q \in lost)
      BY <1>0
    <3>2. CASE q = p  BY <3>1, <3>2, <2>2, <2>3 DEF Consistent
    <3>3. CASE q # p
      <4>1. probes'[q] = probes[q]
        BY <3>3, <2>3
      <4> QED BY <4>1, <3>1, <2>3 DEF Consistent
    <3> QED BY <3>2, <3>3
  <2> QED BY <2>3, <2>4, <2>5, <2>6, <1>0 DEF MonitorInv
<1>3. CASE CloseAll
  <2> DEFINE listed == {checkers[s] : s \in Services} \ {NoProbe}
  <2>1. /\ twice' = (twice \/ \E p \in listed : probes[p].closed)
        /\ probes' = [p \in Probes |->
                        IF p \in listed THEN [probes[p] EXCEPT !.closed = TRUE] ELSE probes[p]]
        /\ checkers' = [s \in Services |-> NoProbe]
        /\ UNCHANGED <<recovery, told, lost>>
    BY <1>3 DEF CloseAll
  <2>2. \A p \in listed : ~probes[p].closed
    BY <1>0 DEF CheckersOpen
  <2>3. ~twice'
    BY <2>1, <2>2, <1>0
  <2> HIDE DEF listed
  <2>4. ASSUME NEW q \in Probes
        PROVE /\ probes'[q] \in Probe /\ probes'[q].fails = probes[q].fails
              /\ probes'[q].last = probes[q].last /\ probes'[q].notified = probes[q].notified
              /\ probes'[q].service = probes[q].service /\ probes'[q].saw = probes[q].saw
              /\ probes'[q].at = probes[q].at
    <3>0. probes[q] \in Probe
      BY <1>0
    <3>1. CASE q \in listed
      <4>1. probes'[q] = [probes[q] EXCEPT !.closed = TRUE]
        BY <3>1, <2>1
      <4> QED BY <4>1, <3>0 DEF Probe
    <3>2. CASE q \notin listed
      <4>1. probes'[q] = probes[q]
        BY <3>2, <2>1
      <4> QED BY <4>1, <3>0
    <3> QED BY <3>1, <3>2
  <2>5. probes' \in [Probes -> Probe]
    <3>1. probes' = [q \in Probes |-> probes'[q]]
      BY <2>1
    <3> QED BY <3>1, <2>4
  <2>6. ASSUME NEW q \in Probes PROVE Consistent(probes[q], told[q], q \in lost)'
    <3>1. Consistent(probes[q], told[q], q \in lost)
      BY <1>0
    <3> QED BY <3>1, <2>1, <2>4 DEF Consistent
  <2>7. CheckersOpen' /\ checkers' \in [Services -> Probes \cup {NoProbe}]
    BY <2>1 DEF CheckersOpen
  <2> QED BY <2>1, <2>3, <2>5, <2>6, <2>7, <1>0 DEF MonitorInv
<1>4. ASSUME NEW p \in Probes, PerformCheck(p) PROVE MonitorInv'
  <2>1. PICK saw \in Health :
          /\ saw = "unknown" <=> probes[p].service \in Unsupported
          /\ Proceeds(p, [probes[p] EXCEPT !.at = "report", !.saw = saw])
    BY <1>4 DEF PerformCheck, Health
  <2> DEFINE fields == [probes[p] EXCEPT !.at = "report", !.saw = saw]
  <2>2. /\ fields \in Probe /\ fields.fails = probes[p].fails /\ fields.at = "report"
        /\ fields.last = probes[p].last /\ fields.notified = probes[p].notified
        /\ fields.service = probes[p].service /\ fields.saw = saw
        /\ fields.closed = probes[p].closed
    <3>1. probes[p] \in Probe
      BY <1>0
    <3> QED BY <3>1 DEF Probe
  <2>3. Proceeds(p, fields) /\ UNCHANGED <<checkers, recovery, told, lost, twice>>
    BY <1>4, <2>1 DEF PerformCheck
  <2> HIDE DEF fields
  <2>4. Consistent(fields, told'[p], p \in lost')
    BY <1>0, <2>1, <2>2, <2>3 DEF Consistent
  <2> QED BY <1>0, <2>2, <2>3, <2>4, OneProbeMoves
<1>5. ASSUME NEW p \in Probes, NEW stage \in {"check", "gone"},
             Proceeds(p, [probes[p] EXCEPT !.at = stage]),
             UNCHANGED <<checkers, recovery, told, lost, twice>>
      PROVE  MonitorInv'
  <2> DEFINE fields == [probes[p] EXCEPT !.at = stage]
  <2>1. /\ fields \in Probe /\ fields.fails = probes[p].fails /\ fields.at = stage
        /\ fields.last = probes[p].last /\ fields.notified = probes[p].notified
        /\ fields.service = probes[p].service /\ fields.closed = probes[p].closed
    BY <1>0 DEF Probe
  <2>2. Proceeds(p, fields)
    BY <1>5
  <2> HIDE DEF fields
  <2>3. Consistent(fields, told'[p], p \in lost')
    BY <1>0, <1>5, <2>1 DEF Consistent
  <2> QED BY <1>0, <1>5, <2>1, <2>2, <2>3, OneProbeMoves
<1>6. ASSUME NEW p \in Probes, TickProbe(p) \/ ProbeReturns(p) PROVE MonitorInv'
  BY <1>5, <1>6 DEF TickProbe, ProbeReturns
<1>7. ASSUME UNCHANGED <<probes, checkers, recovery, told, lost, twice>> PROVE MonitorInv'
  BY <1>7 DEF MonitorInv, CheckersOpen, Consistent
<1>8. CASE StopMonitor \/ WaitEnds \/ ReadAlert \/ UNCHANGED monitorVars
  BY <1>7, <1>8 DEF StopMonitor, WaitEnds, ReadAlert, monitorVars
<1> QED
  BY <1>1, <1>2, <1>3, <1>4, <1>6, <1>8, VerdictIsConsistent DEF MonitorNext

\* For any services, checkers, number of failures and capacity: what the channel
\* got last of a checker, unless it was dropped, tells whether its service is
\* down, and no stop channel is closed twice.
THEOREM AlertsTell == MonitorSpec => []AlertsTellTheState
<1>1. MonitorInit => MonitorInv
  <2> SUFFICES ASSUME MonitorInit PROVE MonitorInv
    OBVIOUS
  <2>1. Unmade \in Probe /\ Unmade.fails # FailureCount
    BY MonitorAssumption DEF Unmade, Probe, Health
  <2> QED
    BY <2>1 DEF MonitorInit, MonitorInv, CheckersOpen, Consistent, Unmade
<1>2. MonitorInv => AlertsTellTheState
  BY DEF MonitorInv, Consistent, AlertsTellTheState
<1> QED BY <1>1, <1>2, MonitorStep, PTL DEF MonitorSpec
-----------------------------------------------------------------------------
(***************************************************************************)
(* AlertManager.                                                           *)
(***************************************************************************)
SomeKind == CHOOSE k \in AlertKinds : TRUE

\* A call of SendAlert; one that is not under way has no kind worth the name.
Call == [at : {"idle", "check", "send"}, kind : AlertKinds \cup {SomeKind}, dedupe : BOOLEAN,
         list : SUBSET Notifiers, rest : SUBSET Notifiers, failed : BOOLEAN,
         quiet : 0..Silence]

\* A call that a silence holds back is about to find that out; one that sends has
\* reached those of its list it is through with, as long as none failed.
CallKeeps(c, ls, h, on) ==
  /\ c.at # "idle" => c.kind \in AlertKinds
  /\ c.quiet > 0 => c.at = "check" /\ c.dedupe /\ on /\ c.quiet + ls[c.kind] <= Silence
  /\ c.at = "send" /\ ~c.failed => c.list \subseteq h[c.kind] \cup c.rest

AlertInv ==
  /\ lastSent \in [AlertKinds -> 0..Silence] /\ senders \in [Senders -> Call]
  /\ heard \in [AlertKinds -> SUBSET Notifiers] /\ notifiers \subseteq Notifiers
  /\ dedupe \in BOOLEAN /\ silencing \in BOOLEAN
  /\ \A k \in AlertKinds : due[k] \subseteq heard[k]
  /\ DOMAIN due = AlertKinds
  /\ \A s \in Senders : CallKeeps(senders[s], lastSent, heard, silencing)

\* What a call keeps it keeps when a silence begins anew or more is heard.
LEMMA KeptWhenMoreIsHeard ==
  ASSUME NEW c \in Call, NEW ls \in [AlertKinds -> 0..Silence],
         NEW ls2 \in [AlertKinds -> 0..Silence],
         NEW h \in [AlertKinds -> SUBSET Notifiers], NEW h2 \in [AlertKinds -> SUBSET Notifiers],
         NEW on, CallKeeps(c, ls, h, on),
         \A k \in AlertKinds : ls2[k] <= ls[k] /\ h[k] \subseteq h2[k]
  PROVE  CallKeeps(c, ls2, h2, on)
<1>1. c.quiet \in 0..Silence /\ Silence \in Nat
  BY AlertAssumption DEF Call
<1>2. c.quiet > 0 => c.quiet + ls2[c.kind] <= Silence
  <2> HAVE c.quiet > 0
  <2>1. c.kind \in AlertKinds /\ c.quiet + ls[c.kind] <= Silence
    BY DEF CallKeeps
  <2>2. ls[c.kind] \in 0..Silence /\ ls2[c.kind] \in 0..Silence /\ ls2[c.kind] <= ls[c.kind]
    BY <2>1
  <2> QED BY <1>1, <2>1, <2>2
<1>3. c.at = "send" /\ ~c.failed => c.list \subseteq h2[c.kind] \cup c.rest
  BY DEF CallKeeps
<1> QED BY <1>2, <1>3 DEF CallKeeps

\* A step of one call.
LEMMA OneCallMoves ==
  ASSUME AlertInv, NEW s \in Senders, NEW c \in Call, Steps(s, c),
         lastSent' \in [AlertKinds -> 0..Silence], heard' \in [AlertKinds -> SUBSET Notifiers],
         \A k \in AlertKinds : lastSent'[k] <= lastSent[k] /\ heard[k] \subseteq heard'[k],
         \A k \in AlertKinds : due'[k] \subseteq heard'[k], DOMAIN due' = AlertKinds,
         UNCHANGED <<switches, notifiers>>, CallKeeps(c, lastSent', heard', silencing)
  PROVE  AlertInv'
<1>1. /\ senders' \in [Senders -> Call] /\ senders'[s] = c
      /\ \A x \in Senders : x # s => senders'[x] = senders[x]
  BY DEF AlertInv, Steps
<1>2. silencing' = silencing /\ dedupe' = dedupe /\ notifiers' = notifiers
  BY DEF switches
<1>3. ASSUME NEW x \in Senders PROVE CallKeeps(senders'[x], lastSent', heard', silencing)
  <2>1. CASE x = s
    BY <1>1, <2>1
  <2>2. CASE x # s
    <3>1. senders'[x] = senders[x] /\ senders[x] \in Call
      BY <1>1, <2>2 DEF AlertInv
    <3>2. CallKeeps(senders[x], lastSent, heard, silencing)
      BY DEF AlertInv
    <3>3. lastSent \in [AlertKinds -> 0..Silence] /\ heard \in [AlertKinds -> SUBSET Notifiers]
      BY DEF AlertInv
    <3> QED BY <3>1, <3>2, <3>3, KeptWhenMoreIsHeard
  <2> QED BY <2>1, <2>2
<1>4. \A x \in Senders : CallKeeps(senders'[x], lastSent', heard', silencing')
  BY <1>2, <1>3
<1> QED BY <1>1, <1>2, <1>4 DEF AlertInv

LEMMA AlertStep == AlertInv /\ [AlertNext]_alertVars => AlertInv'
<1> SUFFICES ASSUME AlertInv, [AlertNext]_alertVars PROVE AlertInv'
  OBVIOUS
<1>1. /\ lastSent \in [AlertKinds -> 0..Silence] /\ senders \in [Senders -> Call]
      /\ heard \in [AlertKinds -> SUBSET Notifiers] /\ notifiers \subseteq Notifiers
      /\ dedupe \in BOOLEAN /\ silencing \in BOOLEAN
      /\ \A k \in AlertKinds : due[k] \subseteq heard[k]
      /\ DOMAIN due = AlertKinds
      /\ \A s \in Senders : CallKeeps(senders[s], lastSent, heard, silencing)
  BY DEF AlertInv
<1>2. Silence \in Nat /\ \A k \in AlertKinds : lastSent[k] \in 0..Silence
  BY <1>1, AlertAssumption
<1>3. \A k \in AlertKinds \cup {SomeKind} :
        /\ Unsent(k) \in Call /\ Unsent(k).at = "idle" /\ Unsent(k).quiet = 0
        /\ Unsent(k).kind = k
  BY <1>2 DEF Unsent, Call
<1>4. CASE UNCHANGED alertVars
  BY <1>4 DEF alertVars, switches, AlertInv
<1>5. ASSUME NEW n \in Notifiers, AddNotifier(n) PROVE AlertInv'
  <2>1. notifiers' \subseteq Notifiers /\ UNCHANGED <<switches, lastSent, senders, heard, due>>
    BY <1>1, <1>5 DEF AddNotifier
  <2> QED BY <1>1, <2>1 DEF AlertInv, switches
\* A step that only lessens what calls are held back for.
<1>6. ASSUME NEW f, senders' = [s \in Senders |-> [senders[s] EXCEPT !.quiet = f[s]]],
             \A s \in Senders : f[s] \in 0..Silence,
             lastSent' \in [AlertKinds -> 0..Silence], UNCHANGED <<notifiers, heard, due>>,
             dedupe' \in BOOLEAN, silencing' \in BOOLEAN,
             \A s \in Senders : f[s] > 0 =>
               /\ senders[s].quiet > 0 /\ silencing => silencing'
               /\ senders[s].quiet > 0
               /\ senders[s].kind \in AlertKinds =>
                    f[s] + lastSent'[senders[s].kind]
                      <= senders[s].quiet + lastSent[senders[s].kind]
      PROVE  AlertInv'
  <2>1. ASSUME NEW s \in Senders
        PROVE  senders'[s] \in Call /\ CallKeeps(senders'[s], lastSent', heard, silencing')
    <3> DEFINE c == [senders[s] EXCEPT !.quiet = f[s]]
    <3>1. senders[s] \in Call /\ f[s] \in 0..Silence /\ senders'[s] = c
      BY <1>1, <1>6
    <3>2. /\ c \in Call /\ c.quiet = f[s] /\ c.at = senders[s].at /\ c.kind = senders[s].kind
          /\ c.dedupe = senders[s].dedupe /\ c.failed = senders[s].failed
          /\ c.list = senders[s].list /\ c.rest = senders[s].rest
      BY <3>1 DEF Call
    <3> HIDE DEF c
    <3>3. CallKeeps(senders[s], lastSent, heard, silencing)
      BY <1>1
    <3>4. f[s] > 0 => /\ senders[s].at = "check" /\ senders[s].dedupe /\ silencing'
                      /\ f[s] + lastSent'[senders[s].kind] <= Silence
      <4> HAVE f[s] > 0
      <4>1. /\ senders[s].quiet > 0 /\ senders[s].at = "check" /\ senders[s].dedupe
            /\ silencing /\ senders[s].kind \in AlertKinds
            /\ senders[s].quiet + lastSent[senders[s].kind] <= Silence
        BY <1>6, <3>3 DEF CallKeeps
      <4>2. /\ f[s] + lastSent'[senders[s].kind] <= senders[s].quiet + lastSent[senders[s].kind]
            /\ silencing'
        BY <1>6, <4>1
      <4>3. /\ lastSent'[senders[s].kind] \in 0..Silence /\ lastSent[senders[s].kind] \in 0..Silence
            /\ senders[s].quiet \in 0..Silence
        BY <1>2, <1>6, <3>1, <4>1 DEF Call
      <4> QED BY <1>2, <3>1, <4>1, <4>2, <4>3
    <3> QED BY <3>1, <3>2, <3>3, <3>4 DEF CallKeeps
  <2>2. senders' \in [Senders -> Call]
    BY <1>6, <2>1
  <2> QED BY <1>1, <1>6, <2>1, <2>2 DEF AlertInv
<1>7. CASE Switch
  <2> DEFINE f == [s \in Senders |-> IF silencing' THEN senders[s].quiet ELSE 0]
  <2>1. /\ dedupe' \in BOOLEAN /\ silencing' \in BOOLEAN
        /\ UNCHANGED <<notifiers, lastSent, heard, due>>
    BY <1>1, <1>7 DEF Switch
  <2>2. ASSUME NEW s \in Senders
        PROVE  /\ f[s] \in 0..Silence /\ f[s] = (IF silencing' THEN senders[s].quiet ELSE 0)
               /\ (IF silencing' THEN senders[s] ELSE [senders[s] EXCEPT !.quiet = 0])
                    = [senders[s] EXCEPT !.quiet = f[s]]
    <3>1. senders[s] \in Call
      BY <1>1
    <3> QED BY <1>2, <3>1 DEF Call
  <2>3. senders' = [s \in Senders |-> [senders[s] EXCEPT !.quiet = f[s]]]
    <3>1. senders' = [s \in Senders |-> IF silencing' THEN senders[s]
                                        ELSE [senders[s] EXCEPT !.quiet = 0]]
      BY <1>7 DEF Switch
    <3> QED BY <2>2, <3>1
  <2>4. \A s \in Senders : f[s] > 0 =>
          /\ silencing' /\ senders[s].quiet > 0
          /\ senders[s].kind \in AlertKinds =>
               f[s] + lastSent'[senders[s].kind] <= senders[s].quiet + lastSent[senders[s].kind]
    <3> TAKE s \in Senders
    <3> HAVE f[s] > 0
    <3>1. silencing' /\ f[s] = senders[s].quiet
      BY <2>2
    <3>2. senders[s].quiet \in 0..Silence
      BY <1>1 DEF Call
    <3> QED BY <1>2, <2>1, <3>1, <3>2
  <2>5. \A s \in Senders : f[s] \in 0..Silence
    BY <2>2
  <2> HIDE DEF f
  <2> QED BY <1>1, <1>6, <2>1, <2>3, <2>4, <2>5
<1>8. CASE AlertTick
  <2> DEFINE f == [s \in Senders |-> IF senders[s].quiet > 0 THEN senders[s].quiet - 1 ELSE 0]
  <2>1. /\ UNCHANGED <<switches, notifiers, heard, due>>
        /\ dedupe' \in BOOLEAN /\ silencing' \in BOOLEAN /\ silencing' = silencing
    BY <1>1, <1>8 DEF AlertTick, switches
  <2>2. /\ lastSent' \in [AlertKinds -> 0..Silence]
        /\ \A k \in AlertKinds :
             lastSent'[k] = IF lastSent[k] < Silence THEN lastSent[k] + 1 ELSE Silence
    BY <1>2, <1>8 DEF AlertTick
  <2>3. ASSUME NEW s \in Senders
        PROVE  /\ f[s] \in 0..Silence /\ senders[s].quiet \in 0..Silence
               /\ f[s] = IF senders[s].quiet > 0 THEN senders[s].quiet - 1 ELSE 0
               /\ [senders[s] EXCEPT !.quiet = IF @ > 0 THEN @ - 1 ELSE 0]
                    = [senders[s] EXCEPT !.quiet = f[s]]
    <3>1. senders[s] \in Call
      BY <1>1
    <3>2. senders[s].quiet \in 0..Silence
      BY <3>1 DEF Call
    <3> QED BY <1>2, <3>1, <3>2 DEF Call
  <2>4. senders' = [s \in Senders |-> [senders[s] EXCEPT !.quiet = f[s]]]
    <3>1. senders' = [s \in Senders |-> [senders[s] EXCEPT !.quiet = IF @ > 0 THEN @ - 1 ELSE 0]]
      BY <1>8 DEF AlertTick
    <3> QED BY <2>3, <3>1
  <2>5. \A s \in Senders : f[s] > 0 =>
          /\ senders[s].quiet > 0
          /\ senders[s].kind \in AlertKinds =>
               f[s] + lastSent'[senders[s].kind] <= senders[s].quiet + lastSent[senders[s].kind]
    <3> TAKE s \in Senders
    <3> HAVE f[s] > 0
    <3>1. senders[s].quiet > 0 /\ f[s] = senders[s].quiet - 1 /\ senders[s].quiet \in 0..Silence
      BY <2>3
    <3>2. senders[s].kind \in AlertKinds =>
            /\ lastSent[senders[s].kind] \in 0..Silence
            /\ lastSent'[senders[s].kind] <= lastSent[senders[s].kind] + 1
            /\ lastSent'[senders[s].kind] \in 0..Silence
      BY <1>2, <2>2
    <3> QED BY <1>2, <3>1, <3>2
  <2>6. \A s \in Senders : f[s] \in 0..Silence
    BY <2>3
  <2> HIDE DEF f
  <2> QED BY <1>1, <1>6, <2>1, <2>2, <2>4, <2>5, <2>6
<1>9. ASSUME NEW s \in Senders, NEW k \in AlertKinds, SendAlert(s, k) PROVE AlertInv'
  <2> DEFINE quiet == IF dedupe /\ silencing THEN Silence - lastSent[k] ELSE 0
             c == [Unsent(k) EXCEPT !.at = "check", !.dedupe = dedupe, !.quiet = quiet]
  <2>1. /\ quiet \in 0..Silence
        /\ quiet > 0 => dedupe /\ silencing /\ quiet + lastSent[k] <= Silence
    BY <1>1, <1>2
  <2> HIDE DEF quiet
  <2>2. /\ c \in Call /\ c.at = "check" /\ c.kind = k /\ c.quiet = quiet /\ c.dedupe = dedupe
    BY <1>1, <1>3, <2>1 DEF Call, Unsent
  <2>3. Steps(s, c) /\ UNCHANGED <<switches, notifiers, lastSent, heard, due>>
    BY <1>9 DEF SendAlert, quiet
  <2> HIDE DEF c
  <2>4. CallKeeps(c, lastSent, heard, silencing)
    BY <2>1, <2>2 DEF CallKeeps
  <2> QED BY <1>1, <1>2, <2>2, <2>3, <2>4, OneCallMoves
<1>10. ASSUME NEW s \in Senders, Refuse(s) PROVE AlertInv'
  <2>1. Steps(s, Unsent(SomeKind)) /\ UNCHANGED <<switches, notifiers, lastSent, heard, due>>
    BY <1>10 DEF Refuse, Returned, SomeKind
  <2>2. CallKeeps(Unsent(SomeKind), lastSent, heard, silencing)
    BY <1>3 DEF CallKeeps
  <2> QED BY <1>1, <1>2, <1>3, <2>1, <2>2, OneCallMoves
<1>11. ASSUME NEW s \in Senders, BeginSend(s) PROVE AlertInv'
  <2> DEFINE c == [senders[s] EXCEPT !.at = "send", !.list = notifiers, !.rest = notifiers]
  <2>1. senders[s] \in Call /\ CallKeeps(senders[s], lastSent, heard, silencing)
    BY <1>1
  <2>2. /\ c \in Call /\ c.at = "send" /\ c.kind = senders[s].kind
        /\ c.quiet = senders[s].quiet /\ c.list = notifiers /\ c.rest = notifiers
    BY <1>1, <2>1 DEF Call
  <2>3. Steps(s, c) /\ UNCHANGED <<switches, notifiers, lastSent, heard, due>>
        /\ senders[s].at = "check" /\ ~(senders[s].dedupe /\ isSilenced(senders[s].kind))
    BY <1>11 DEF BeginSend
  <2> HIDE DEF c
  <2>4. senders[s].kind \in AlertKinds /\ ~(senders[s].quiet > 0)
    <3>1. senders[s].kind \in AlertKinds
      BY <2>1, <2>3 DEF CallKeeps
    <3>2. ASSUME senders[s].quiet > 0 PROVE FALSE
      <4>1. /\ senders[s].dedupe /\ silencing
            /\ senders[s].quiet + lastSent[senders[s].kind] <= Silence
        BY <2>1, <3>2 DEF CallKeeps
      <4>2. senders[s].quiet \in 0..Silence /\ lastSent[senders[s].kind] \in 0..Silence
        BY <1>2, <2>1, <3>1 DEF Call
      <4>3. lastSent[senders[s].kind] < Silence
        BY <1>2, <3>2, <4>1, <4>2
      <4> QED BY <2>3, <4>1, <4>3 DEF isSilenced
    <3> QED BY <3>1, <3>2
  <2>5. CallKeeps(c, lastSent, heard, silencing)
    BY <2>2, <2>4 DEF CallKeeps
  <2> QED BY <1>1, <1>2, <2>2, <2>3, <2>5, OneCallMoves
<1>12. ASSUME NEW s \in Senders, NEW n \in Notifiers, Deliver(s, n) PROVE AlertInv'
  <2> DEFINE call == [senders[s] EXCEPT !.rest = @ \ {n}]
             lapse == [call EXCEPT !.failed = TRUE]
  <2>1. senders[s] \in Call /\ CallKeeps(senders[s], lastSent, heard, silencing)
    BY <1>1
  <2>2. /\ call \in Call /\ call.at = senders[s].at /\ call.kind = senders[s].kind
        /\ call.quiet = senders[s].quiet /\ call.list = senders[s].list
        /\ call.rest = senders[s].rest \ {n} /\ call.failed = senders[s].failed
        /\ call.dedupe = senders[s].dedupe
    BY <2>1 DEF Call
  <2>3. /\ lapse \in Call /\ lapse.at = senders[s].at /\ lapse.kind = senders[s].kind
        /\ lapse.quiet = senders[s].quiet /\ lapse.failed
    BY <2>1 DEF Call
  <2>4. /\ senders[s].at = "send" /\ UNCHANGED <<switches, notifiers, lastSent, due>>
        /\ \/ /\ Steps(s, call)
              /\ heard' = [heard EXCEPT ![call.kind] = @ \cup {n}]
           \/ Steps(s, lapse) /\ UNCHANGED heard
    BY <1>12 DEF Deliver
  <2> HIDE DEF call, lapse
  <2>5. senders[s].kind \in AlertKinds /\ ~(senders[s].quiet > 0)
    BY <2>1, <2>4 DEF CallKeeps
  <2>6. CASE Steps(s, lapse) /\ UNCHANGED heard
    <3>1. CallKeeps(lapse, lastSent, heard, silencing)
      BY <2>3, <2>4, <2>5 DEF CallKeeps
    <3> QED BY <1>1, <1>2, <2>3, <2>4, <2>6, <3>1, OneCallMoves
  <2>7. CASE Steps(s, call) /\ heard' = [heard EXCEPT ![call.kind] = @ \cup {n}]
    <3>1. /\ heard' \in [AlertKinds -> SUBSET Notifiers]
          /\ heard'[call.kind] = heard[call.kind] \cup {n}
          /\ \A k \in AlertKinds : heard[k] \subseteq heard'[k]
      BY <1>1, <2>2, <2>5, <2>7
    <3>2. CallKeeps(call, lastSent, heard', silencing)
      BY <2>1, <2>2, <2>4, <2>5, <3>1 DEF CallKeeps
    <3>3. \A k \in AlertKinds : due'[k] \subseteq heard'[k]
      BY <1>1, <2>4, <3>1
    <3>4. /\ lastSent' = lastSent /\ UNCHANGED <<switches, notifiers>>
          /\ DOMAIN due' = AlertKinds /\ \A k \in AlertKinds : lastSent'[k] <= lastSent[k]
      BY <1>1, <1>2, <2>4
    <3>5. lastSent' \in [AlertKinds -> 0..Silence] /\ CallKeeps(call, lastSent', heard', silencing)
      BY <1>1, <3>2, <3>4
    <3>6. call \in Call /\ Steps(s, call) /\ heard' \in [AlertKinds -> SUBSET Notifiers]
      BY <2>2, <2>7, <3>1
    <3>7. \A k \in AlertKinds : lastSent'[k] <= lastSent[k] /\ heard[k] \subseteq heard'[k]
      BY <3>1, <3>4
    <3> QED BY <3>3, <3>4, <3>5, <3>6, <3>7, OneCallMoves
  <2> QED BY <2>4, <2>6, <2>7
<1>13. ASSUME NEW s \in Senders, EndSend(s) PROVE AlertInv'
  <2>1. /\ senders[s] \in Call /\ CallKeeps(senders[s], lastSent, heard, silencing)
        /\ senders[s].at = "send" /\ senders[s].rest = {} /\ updateSilenceState(s)
        /\ Steps(s, Unsent(SomeKind)) /\ UNCHANGED <<switches, notifiers, heard>>
    BY <1>1, <1>13 DEF EndSend, Returned, SomeKind
  <2>2. /\ senders[s].kind \in AlertKinds
        /\ ~senders[s].failed => senders[s].list \subseteq heard[senders[s].kind]
    BY <2>1 DEF CallKeeps
  <2>3. CallKeeps(Unsent(SomeKind), lastSent', heard, silencing)
    BY <1>3 DEF CallKeeps
  <2>4. CASE senders[s].failed
    <3>1. UNCHANGED <<lastSent, due>>
      BY <2>1, <2>4 DEF updateSilenceState
    <3> QED BY <1>1, <1>2, <1>3, <2>1, <2>3, <3>1, OneCallMoves
  <2>5. CASE ~senders[s].failed
    <3>1. PICK k \in AlertKinds : k = senders[s].kind
      BY <2>2
    <3>2. /\ lastSent' = [lastSent EXCEPT ![k] = 0]
          /\ due' = [due EXCEPT ![k] = senders[s].list]
      BY <2>1, <2>5, <3>1 DEF updateSilenceState
    <3>3. /\ lastSent' \in [AlertKinds -> 0..Silence]
          /\ \A x \in AlertKinds : lastSent'[x] <= lastSent[x]
      BY <1>1, <1>2, <3>2
    <3>4. DOMAIN due' = AlertKinds /\ \A x \in AlertKinds : due'[x] \subseteq heard[x]
      BY <1>1, <2>2, <2>5, <3>1, <3>2
    <3> QED BY <1>1, <1>3, <2>1, <2>3, <3>3, <3>4, OneCallMoves
  <2> QED BY <2>4, <2>5
<1> QED BY <1>4, <1>5, <1>7, <1>8, <1>9, <1>10, <1>11, <1>12, <1>13 DEF AlertNext

\* A kind of alert is silent only after everybody it was for has got it, and as
\* long as that silence lasts no call that began in it sends.
THEOREM SilenceIsEarned == AlertSpec => []SilencedAfterDelivery
<1>1. AlertInit => AlertInv
  <2> SUFFICES ASSUME AlertInit PROVE AlertInv
    OBVIOUS
  <2>1. /\ Unsent(SomeKind) \in Call
        /\ \A ls, h, on : CallKeeps(Unsent(SomeKind), ls, h, on)
    BY AlertAssumption DEF Unsent, Call, CallKeeps
  <2>2. senders = [s \in Senders |-> Unsent(SomeKind)]
    BY DEF AlertInit, SomeKind
  <2>3. lastSent \in [AlertKinds -> 0..Silence]
    BY AlertAssumption DEF AlertInit
  <2> QED BY <2>1, <2>2, <2>3 DEF AlertInit, AlertInv
<1>2. AlertInv => SilencedAfterDelivery
  <2> SUFFICES ASSUME AlertInv, NEW s \in Senders, senders[s].at = "send"
               PROVE  senders[s].quiet = 0
    BY DEF AlertInv, SilencedAfterDelivery
  <2>1. senders[s].quiet \in 0..Silence /\ ~(senders[s].quiet > 0)
    BY DEF AlertInv, CallKeeps, Call
  <2> QED BY <2>1, AlertAssumption
<1> QED BY <1>1, <1>2, AlertStep, PTL DEF AlertSpec
-----------------------------------------------------------------------------
(***************************************************************************)
(* HealthChecker.                                                          *)
(***************************************************************************)

\* The goroutine of a checker: it has a container in hand and a status for it
\* between a look and the end of the memory of it, and one that was not started
\* remembers nothing.
Holds(c, p) ==
  /\ c \in Check /\ p \in [Boxes -> Statuses \cup {"none"}]
  /\ c.at \in {"compare", "remember"} => c.box \in Boxes /\ c.saw \in Statuses
  /\ c.at = "new" => \A b \in Boxes : p[b] = "none"

\* What a row says that nobody else wrote since: what the checker remembers of
\* the container, or is about to.
RowTells(c, p, st, b) ==
  IF c.at = "remember" /\ c.box = b THEN st[b] = c.saw
  ELSE p[b] # "none" => st[b] = p[b]

HealthInv ==
  /\ status \in [Boxes -> Statuses] /\ foreign \subseteq Boxes /\ missed \subseteq Boxes
  /\ current \in Checkers \cup {"none"}
  /\ DOMAIN check = Checkers /\ DOMAIN prev = Checkers
  /\ \A k \in Checkers : Holds(check[k], prev[k])
  /\ current # "none" => \A b \in Boxes \ (foreign \cup missed) : RowTells(check[current], prev[current], status, b)

\* A step of a goroutine that neither writes a row nor remembers one.
LEMMA GoroutineMoves ==
  ASSUME HealthInv, NEW k \in Checkers, NEW c, check' = [check EXCEPT ![k] = c],
         UNCHANGED <<status, prev, current, foreign, missed>>, Holds(c, prev[k]),
         check[k].at # "remember", c.at # "remember"
  PROVE  HealthInv'
<1>1. /\ DOMAIN check' = Checkers /\ check'[k] = c
      /\ \A j \in Checkers : j # k => check'[j] = check[j]
  BY DEF HealthInv
<1>2. \A j \in Checkers : Holds(check'[j], prev[j])
  BY <1>1 DEF HealthInv
<1>3. current # "none" =>
        \A b \in Boxes \ (foreign \cup missed) : RowTells(check'[current], prev[current], status, b)
  <2> HAVE current # "none"
  <2> TAKE b \in Boxes \ (foreign \cup missed)
  <2>1. current \in Checkers /\ RowTells(check[current], prev[current], status, b)
    BY DEF HealthInv
  <2>2. CASE current = k
    BY <1>1, <2>1, <2>2 DEF RowTells
  <2>3. CASE current # k
    BY <1>1, <2>1, <2>3
  <2> QED BY <2>2, <2>3
<1> QED BY <1>1, <1>2, <1>3 DEF HealthInv

LEMMA HealthStep == HealthInv /\ [HealthNext]_healthVars => HealthInv'
<1> SUFFICES ASSUME HealthInv, [HealthNext]_healthVars PROVE HealthInv'
  OBVIOUS
<1>1. /\ status \in [Boxes -> Statuses] /\ foreign \subseteq Boxes /\ missed \subseteq Boxes
      /\ current \in Checkers \cup {"none"} /\ "none" \notin Checkers \cup Boxes
      /\ DOMAIN check = Checkers /\ DOMAIN prev = Checkers
      /\ \A k \in Checkers : Holds(check[k], prev[k])
      /\ \A k \in Checkers : k = current =>
           \A b \in Boxes \ (foreign \cup missed) : RowTells(check[k], prev[k], status, b)
  BY HealthAssumption DEF HealthInv
<1>2. ASSUME NEW at \in {"idle", "check", "gone"}, NEW todo \in SUBSET Boxes
      PROVE  Pausing(at, todo) \in Check /\ Pausing(at, todo).at = at
  BY DEF Pausing, Check
<1>3. CASE UNCHANGED healthVars
  BY <1>3 DEF healthVars, HealthInv
<1>4. CASE StopChecker
  BY <1>1, <1>4 DEF StopChecker, HealthInv
<1>5. ASSUME NEW k \in Checkers, StartChecker(k) PROVE HealthInv'
  <2>1. /\ check[k].at = "new" /\ current' = k /\ check' = [check EXCEPT ![k] = Pausing("check", Boxes)]
        /\ UNCHANGED <<status, prev, foreign, missed>>
    BY <1>5 DEF StartChecker
  <2>2. \A b \in Boxes : prev[k][b] = "none"
    BY <1>1, <2>1 DEF Holds
  <2>3. /\ DOMAIN check' = Checkers /\ check'[k] = Pausing("check", Boxes)
        /\ \A j \in Checkers : j # k => check'[j] = check[j]
    BY <1>1, <2>1
  <2>4. check'[k] \in Check /\ check'[k].at = "check"
    BY <1>2, <2>3
  <2>5. \A j \in Checkers : Holds(check'[j], prev[j])
    BY <1>1, <2>3, <2>4 DEF Holds
  <2>6. \A b \in Boxes : RowTells(check'[k], prev[k], status, b)
    BY <2>2, <2>4 DEF RowTells
  <2> QED BY <1>1, <2>1, <2>3, <2>5, <2>6 DEF HealthInv
<1>6. ASSUME NEW k \in Checkers, TickChecks(k) \/ RunReturns(k) \/ ChecksDone(k)
      PROVE  HealthInv'
  <2>1. PICK at \in {"idle", "check", "gone"}, todo \in SUBSET Boxes :
          check' = [check EXCEPT ![k] = Pausing(at, todo)]
    <3>1. CASE TickChecks(k)
      BY <3>1 DEF TickChecks
    <3>2. CASE RunReturns(k)
      BY <3>2 DEF RunReturns
    <3>3. CASE ChecksDone(k)
      BY <3>3 DEF ChecksDone
    <3> QED BY <1>6, <3>1, <3>2, <3>3
  <2>2. check[k].at \in {"idle", "check"} /\ UNCHANGED <<status, prev, current, foreign, missed>>
    BY <1>6 DEF TickChecks, RunReturns, ChecksDone
  <2>3. Holds(Pausing(at, todo), prev[k]) /\ Pausing(at, todo).at # "remember"
    BY <1>1, <1>2 DEF Holds
  <2> QED BY <2>1, <2>2, <2>3, GoroutineMoves
<1>7. ASSUME NEW k \in Checkers, NEW b \in Boxes, Inspect(k, b) PROVE HealthInv'
  <2>1. PICK saw \in {"running", "stopped", "error"} :
          check' = [check EXCEPT ![k] =
                      [at |-> "compare", box |-> b, todo |-> check[k].todo \ {b}, saw |-> saw]]
    BY <1>7 DEF Inspect
  <2> DEFINE c == [at |-> "compare", box |-> b, todo |-> check[k].todo \ {b}, saw |-> saw]
  <2>2. check[k].at = "check" /\ UNCHANGED <<status, prev, current, foreign, missed>>
    BY <1>7 DEF Inspect
  <2>3. check[k] \in Check
    BY <1>1 DEF Holds
  <2>4. c \in Check /\ c.at = "compare" /\ c.box = b /\ c.saw = saw
    BY <2>3 DEF Check, Statuses
  <2>5. check' = [check EXCEPT ![k] = c]
    BY <2>1
  <2> HIDE DEF c
  <2>6. Holds(c, prev[k])
    BY <1>1, <2>4 DEF Holds, Statuses
  <2> QED BY <2>2, <2>4, <2>5, <2>6, GoroutineMoves
<1>8. ASSUME NEW k \in Checkers, Compare(k) PROVE HealthInv'
  <2> DEFINE c == [check[k] EXCEPT !.at = "remember"]
  <2>1. PICK b \in Boxes, saw \in Statuses :
          /\ check[k].at = "compare" /\ b = check[k].box /\ saw = check[k].saw
    BY <1>1, <1>8 DEF Compare, Holds
  <2>2. /\ \/ /\ status' = [status EXCEPT ![b] = saw]
              /\ IF k = current THEN foreign' = foreign \ {b} /\ missed' = missed \ {b}
                                ELSE foreign' = foreign \cup {b} /\ missed' = missed
           \/ /\ status' = status /\ foreign' = foreign
              /\ missed' = IF k = current THEN missed \cup {b} ELSE missed
           \/ prev[k][b] = saw /\ status' = status /\ foreign' = foreign /\ missed' = missed
        /\ check' = [check EXCEPT ![k] = c] /\ UNCHANGED <<prev, current>>
    BY <1>8, <2>1 DEF Compare, statusChanged
  <2>3. check[k] \in Check /\ prev[k] \in [Boxes -> Statuses \cup {"none"}]
    BY <1>1 DEF Holds
  <2>4. c \in Check /\ c.at = "remember" /\ c.box = b /\ c.saw = saw
    BY <2>1, <2>3 DEF Check
  <2> HIDE DEF c
  <2>5. /\ DOMAIN check' = Checkers /\ check'[k] = c
        /\ \A j \in Checkers : j # k => check'[j] = check[j]
    BY <1>1, <2>2
  <2>6. \A j \in Checkers : Holds(check'[j], prev[j])
    BY <1>1, <2>3, <2>4, <2>5 DEF Holds
  <2>7. status' \in [Boxes -> Statuses] /\ foreign' \subseteq Boxes /\ missed' \subseteq Boxes
    BY <1>1, <2>2
  <2>8. CASE k # current
    <3>1. ASSUME NEW x \in Boxes \ (foreign' \cup missed') PROVE x \notin foreign \cup missed /\ status'[x] = status[x]
      BY <1>1, <2>2, <2>8, <3>1
    <3>2. current # "none" =>
            \A x \in Boxes \ (foreign' \cup missed') : RowTells(check'[current], prev[current], status', x)
      <4> HAVE current # "none"
      <4> TAKE x \in Boxes \ (foreign' \cup missed')
      <4>1. current \in Checkers /\ check'[current] = check[current]
        BY <1>1, <2>5, <2>8
      <4>2. RowTells(check[current], prev[current], status, x)
        BY <1>1, <3>1, <4>1
      <4> QED BY <3>1, <4>1, <4>2 DEF RowTells
    <3> QED BY <1>1, <2>2, <2>5, <2>6, <2>7, <3>2 DEF HealthInv
  <2>9. CASE k = current
    <3>1. ASSUME NEW x \in Boxes \ (foreign' \cup missed') PROVE RowTells(c, prev[k], status', x)
      <4>1. CASE x = b
        <5>1. CASE status' = [status EXCEPT ![b] = saw]
          BY <1>1, <2>4, <4>1, <5>1 DEF RowTells
        <5>2. CASE status' # [status EXCEPT ![b] = saw]
          <6>1. status' = status /\ x \notin foreign \cup missed /\ prev[k][b] = saw
            BY <2>2, <2>9, <3>1, <4>1, <5>2
          <6>2. RowTells(check[k], prev[k], status, b)
            BY <1>1, <2>9, <4>1, <6>1
          <6>3. saw # "none"
            BY DEF Statuses
          <6> QED BY <2>1, <2>4, <4>1, <6>1, <6>2, <6>3 DEF RowTells
        <5> QED BY <5>1, <5>2
      <4>2. CASE x # b
        <5>1. status'[x] = status[x] /\ x \notin foreign \cup missed
          BY <1>1, <2>2, <2>9, <3>1, <4>2
        <5>2. RowTells(check[k], prev[k], status, x)
          BY <1>1, <2>9, <5>1
        <5> QED BY <2>1, <2>4, <4>2, <5>1, <5>2 DEF RowTells
      <4> QED BY <4>1, <4>2
    <3>2. \A x \in Boxes \ (foreign' \cup missed') : RowTells(check'[current], prev[current], status', x)
      BY <2>5, <2>9, <3>1
    <3> QED BY <1>1, <2>2, <2>5, <2>6, <2>7, <3>2 DEF HealthInv
  <2> QED BY <2>8, <2>9
<1>9. ASSUME NEW k \in Checkers, Remember(k) PROVE HealthInv'
  <2>1. PICK b \in Boxes, saw \in Statuses :
          /\ check[k].at = "remember" /\ b = check[k].box /\ saw = check[k].saw
    BY <1>1, <1>9 DEF Remember, Holds
  <2>2. /\ prev' = [prev EXCEPT ![k] = [prev[k] EXCEPT ![b] = saw]]
        /\ check' = [check EXCEPT ![k] = Pausing("check", check[k].todo)]
        /\ UNCHANGED <<status, current, foreign, missed>>
    BY <1>9, <2>1 DEF Remember
  <2>3. check[k] \in Check /\ prev[k] \in [Boxes -> Statuses \cup {"none"}]
    BY <1>1 DEF Holds
  <2>4. PICK todo \in SUBSET Boxes : todo = check[k].todo
    BY <2>3 DEF Check
  <2>5. /\ DOMAIN check' = Checkers /\ check'[k] = Pausing("check", todo)
        /\ DOMAIN prev' = Checkers /\ prev'[k] = [prev[k] EXCEPT ![b] = saw]
        /\ \A j \in Checkers : j # k => check'[j] = check[j] /\ prev'[j] = prev[j]
    BY <1>1, <2>2, <2>4
  <2>6. check'[k] \in Check /\ check'[k].at = "check"
    BY <1>2, <2>5
  <2>7. /\ prev'[k] \in [Boxes -> Statuses \cup {"none"}] /\ prev'[k][b] = saw
        /\ \A x \in Boxes : x # b => prev'[k][x] = prev[k][x]
    BY <2>3, <2>5
  <2>8. \A j \in Checkers : Holds(check'[j], prev'[j])
    <3>1. Holds(check'[k], prev'[k])
      BY <2>6, <2>7 DEF Holds
    <3> QED BY <1>1, <2>5, <3>1
  <2>9. current # "none" =>
          \A x \in Boxes \ (foreign \cup missed) : RowTells(check'[current], prev'[current], status, x)
    <3> HAVE current # "none"
    <3> TAKE x \in Boxes \ (foreign \cup missed)
    <3>1. current \in Checkers /\ RowTells(check[current], prev[current], status, x)
      BY <1>1
    <3>2. CASE current # k
      BY <2>5, <3>1, <3>2
    <3>3. CASE current = k
      <4>1. CASE x = b
        BY <2>1, <2>6, <2>7, <3>1, <3>3, <4>1 DEF RowTells
      <4>2. CASE x # b
        BY <2>1, <2>6, <2>7, <3>1, <3>3, <4>2 DEF RowTells
      <4> QED BY <4>1, <4>2
    <3> QED BY <3>2, <3>3
  <2> QED BY <1>1, <2>2, <2>5, <2>8, <2>9 DEF HealthInv
<1>10. ASSUME NEW b \in Boxes, Turns(b) PROVE HealthInv'
  <2>1. UNCHANGED <<status, check, prev, current, foreign, missed>>
    BY <1>10 DEF Turns
  <2> QED BY <2>1 DEF HealthInv
<1>11. ASSUME NEW b \in Boxes, ManagerWrites(b) PROVE HealthInv'
  <2>1. /\ status' \in [Boxes -> Statuses] /\ foreign' = foreign \cup {b}
        /\ \A x \in Boxes : x # b => status'[x] = status[x]
        /\ UNCHANGED <<check, prev, current, missed>>
    BY <1>1, <1>11 DEF ManagerWrites, Statuses
  <2>2. current # "none" =>
          \A x \in Boxes \ (foreign' \cup missed') : RowTells(check[current], prev[current], status', x)
    <3> HAVE current # "none"
    <3> TAKE x \in Boxes \ (foreign' \cup missed')
    <3>1. x \notin foreign \cup missed /\ status'[x] = status[x]
      BY <2>1
    <3>2. RowTells(check[current], prev[current], status, x)
      BY <1>1, <3>1
    <3> QED BY <3>1, <3>2 DEF RowTells
  <2> QED BY <1>1, <2>1, <2>2 DEF HealthInv
<1> QED
  <2>1. CASE HealthNext
    BY <2>1, <1>4, <1>5, <1>6, <1>7, <1>8, <1>9, <1>10, <1>11 DEF HealthNext
  <2> QED BY <1>3, <2>1

\* What the running health checker remembers of a container is what its row says,
\* unless somebody else wrote the row since or its own last write of it failed,
\* through any pauses and resumes.
THEOREM RowIsWhatWasSeen == HealthSpec => []RowSaysWhatWasSeen
<1>1. HealthInit => HealthInv
  <2> SUFFICES ASSUME HealthInit PROVE HealthInv
    OBVIOUS
  <2>1. \A k \in Checkers : Holds(check[k], prev[k])
    BY DEF HealthInit, Holds, Check, Pausing
  <2> QED BY <2>1 DEF HealthInit, HealthInv, Statuses
<1>2. HealthInv => RowSaysWhatWasSeen
  BY HealthAssumption DEF HealthInv, RowTells, RowSaysWhatWasSeen
<1> QED BY <1>1, <1>2, HealthStep, PTL DEF HealthSpec

-----------------------------------------------------------------------------
(***************************************************************************)
(* Networks.                                                               *)
(***************************************************************************)
\* The networks a goroutine counts on are known to the manager, unless a teardown
\* took them; the team in hand has no name only if its network was taken.
Knows(w, known, taken) ==
  /\ w.at = "networks" =>
       \A t \in GameTeams[w.game] \ w.teams : t \in known \/ <<w.game, t>> \in taken
  /\ w.at \in {"containers", "create"} =>
       \A t \in w.teams : t \in known \/ <<w.game, t>> \in taken
  /\ w.at = "create" /\ ~w.named => <<w.game, w.team>> \in taken

NetworkInv ==
  /\ job \in [Goroutines -> Job] /\ outside \in [Games -> SUBSET Team]
  /\ teamNets \subseteq networks \cup unfounded
  /\ \A g \in Games : \A t \in outside[g] : <<g, t>> \in robbed
  /\ \A j \in Goroutines : Knows(job[j], teamNets, robbed)

LEMMA TeamsOfGame == \A g \in Games : GameTeams[g] \subseteq Team
BY DEF Team

LEMMA KindsOfJob ==
  ASSUME NEW w \in Job
  PROVE  /\ w.at # "idle" => w.game \in Games /\ w.teams \subseteq Team
         /\ w.at = "create" => w.team \in Team /\ w.named \in BOOLEAN
BY DEF Job, NotRunning

LEMMA JobsMade ==
  /\ NotRunning \in Job /\ NotRunning.at = "idle"
  /\ \A stage \in {"networks", "containers", "cleanup", "remove"}, g \in Games,
        teams \in SUBSET Team : [at |-> stage, game |-> g, teams |-> teams] \in Job
  /\ \A g \in Games, teams \in SUBSET Team, t \in Team, named \in BOOLEAN :
       [at |-> "create", game |-> g, team |-> t, teams |-> teams, named |-> named] \in Job
BY DEF Job, NotRunning

\* A step that changes one goroutine at most, and takes no network from another.
LEMMA OneJobMoves ==
  ASSUME NetworkInv, NEW j \in Goroutines, NEW w \in Job, job' = [job EXCEPT ![j] = w],
         outside' \in [Games -> SUBSET Team],
         teamNets' \subseteq networks' \cup unfounded',
         teamNets \subseteq teamNets', robbed' = robbed,
         \A g \in Games : \A t \in outside'[g] : <<g, t>> \in robbed,
         Knows(w, teamNets', robbed)
  PROVE  NetworkInv'
<1>1. \A i \in Goroutines : Knows(job'[i], teamNets', robbed)
  BY DEF NetworkInv, Knows
<1> QED BY <1>1 DEF NetworkInv

LEMMA NetworkStep == NetworkInv /\ [NetworkNext]_networkVars => NetworkInv'
<1> SUFFICES ASSUME NetworkInv, [NetworkNext]_networkVars PROVE NetworkInv'
  OBVIOUS
<1>0. /\ job \in [Goroutines -> Job] /\ outside \in [Games -> SUBSET Team]
      /\ teamNets \subseteq networks \cup unfounded
      /\ \A g \in Games : \A t \in outside[g] : <<g, t>> \in robbed
      /\ \A j \in Goroutines : Knows(job[j], teamNets, robbed)
  BY DEF NetworkInv
<1>1. ASSUME NEW j \in Goroutines, NEW g \in Games, NEW stage \in {"networks", "cleanup"},
             NEW teams \in SUBSET Team,
             Proceed(j, stage, g, teams), stage = "networks" => teams = GameTeams[g],
             UNCHANGED <<networks, outside, teamNets, unfounded, robbed>>
      PROVE  NetworkInv'
  <2> DEFINE w == [at |-> stage, game |-> g, teams |-> teams]
  <2>1. w \in Job /\ job' = [job EXCEPT ![j] = w]
    BY <1>1, JobsMade DEF Proceed
  <2>2. Knows(w, teamNets, robbed)
    BY <1>1 DEF Knows
  <2> HIDE DEF w
  <2> QED BY <1>0, <1>1, <2>1, <2>2, OneJobMoves
<1>2. ASSUME NEW j \in Goroutines, NEW g \in Games, Provision(j, g) PROVE NetworkInv'
  BY <1>1, <1>2, TeamsOfGame DEF Provision
<1>3. ASSUME NEW j \in Goroutines, NEW g \in Games, Teardown(j, g) PROVE NetworkInv'
  BY <1>1, <1>3 DEF Teardown
<1>4. ASSUME NEW j \in Goroutines, ContainersMade(j) \/ TeardownEnds(j) PROVE NetworkInv'
  <2>1. /\ job' = [job EXCEPT ![j] = NotRunning]
        /\ UNCHANGED <<networks, outside, teamNets, unfounded, robbed>>
    BY <1>4 DEF ContainersMade, TeardownEnds, Returns
  <2>2. Knows(NotRunning, teamNets, robbed)
    BY JobsMade DEF Knows
  <2> QED BY <1>0, <2>1, <2>2, JobsMade, OneJobMoves
<1>5. ASSUME NEW j \in Goroutines, NEW t \in Team, CreateTeamNetwork(j, t) PROVE NetworkInv'
  <2>1. PICK g \in Games, rest \in SUBSET Team :
          job[j].at = "networks" /\ job[j].game = g /\ rest = job[j].teams \ {t}
    BY <1>0, <1>5, KindsOfJob DEF CreateTeamNetwork, JobAt
  <2> DEFINE w == [at |-> "networks", game |-> g, teams |-> rest]
  <2>2. w \in Job /\ job' = [job EXCEPT ![j] = w] /\ robbed' = robbed /\ outside' = outside
    BY <1>5, <2>1, JobsMade DEF CreateTeamNetwork, Proceed
  <2>3. teamNets' = teamNets \cup {t} /\ teamNets' \subseteq networks' \cup unfounded'
    <3>1. CASE t \in teamNets /\ UNCHANGED <<networks, teamNets, unfounded>>
      BY <1>0, <3>1
    <3>2. CASE networks' = networks \cup {t} /\ teamNets' = teamNets \cup {t} /\ UNCHANGED unfounded
      BY <1>0, <3>2
    <3>3. CASE /\ teamNets' = teamNets \cup {t} /\ UNCHANGED networks
               /\ unfounded' = IF t \in networks THEN unfounded ELSE unfounded \cup {t}
      BY <1>0, <3>3
    <3> QED BY <1>5, <3>1, <3>2, <3>3 DEF CreateTeamNetwork
  <2>4. Knows(w, teamNets', robbed)
    BY <1>0, <2>1, <2>3 DEF Knows
  <2> HIDE DEF w
  <2> QED BY <1>0, <2>2, <2>3, <2>4, OneJobMoves
<1>6. ASSUME NEW j \in Goroutines, NetworksMade(j) PROVE NetworkInv'
  <2>1. PICK g \in Games : job[j].at = "networks" /\ job[j].game = g /\ job[j].teams = {}
    BY <1>0, <1>6, KindsOfJob DEF NetworksMade, JobAt
  <2> DEFINE w == [at |-> "containers", game |-> g, teams |-> GameTeams[g]]
  <2>2. /\ w \in Job /\ job' = [job EXCEPT ![j] = w]
        /\ UNCHANGED <<networks, outside, teamNets, unfounded, robbed>>
    BY <1>6, <2>1, JobsMade, TeamsOfGame DEF NetworksMade, Proceed
  <2>3. Knows(w, teamNets, robbed)
    BY <1>0, <2>1 DEF Knows
  <2> HIDE DEF w
  <2> QED BY <1>0, <2>2, <2>3, OneJobMoves
<1>7. ASSUME NEW j \in Goroutines, NEW t \in Team, GetTeamNetwork(j, t) PROVE NetworkInv'
  <2>1. PICK g \in Games, rest \in SUBSET Team :
          /\ job[j].at = "containers" /\ job[j].game = g /\ t \in job[j].teams
          /\ rest = job[j].teams \ {t}
    BY <1>0, <1>7, KindsOfJob DEF GetTeamNetwork, JobAt
  <2> DEFINE named == t \in teamNets
             w == [at |-> "create", game |-> g, team |-> t, teams |-> rest, named |-> named]
  <2>2. named \in BOOLEAN
    OBVIOUS
  <2>3. Knows(w, teamNets, robbed)
    BY <1>0, <2>1 DEF Knows
  <2>4. /\ job' = [job EXCEPT ![j] = w]
        /\ UNCHANGED <<networks, outside, teamNets, unfounded, robbed>>
    BY <1>7, <2>1 DEF GetTeamNetwork
  <2> HIDE DEF named
  <2>5. w \in Job
    BY <2>2, JobsMade
  <2> HIDE DEF w
  <2> QED BY <1>0, <2>3, <2>4, <2>5, OneJobMoves
<1>8. ASSUME NEW j \in Goroutines, CreateContainer(j) PROVE NetworkInv'
  <2>1. PICK g \in Games, t \in Team : job[j].at = "create" /\ job[j].game = g /\ job[j].team = t
    BY <1>0, <1>8, KindsOfJob DEF CreateContainer, JobAt
  <2>2. /\ outside' = outside \/ (~job[j].named /\ outside' = [outside EXCEPT ![g] = outside[g] \cup {t}])
        /\ UNCHANGED <<networks, teamNets, job, unfounded, robbed>>
    BY <1>8, <2>1 DEF CreateContainer
  <2>3. ~job[j].named => <<g, t>> \in robbed
    BY <1>0, <2>1 DEF Knows
  <2>4. /\ outside' \in [Games -> SUBSET Team]
        /\ \A h \in Games : \A u \in outside'[h] : <<h, u>> \in robbed
    BY <1>0, <2>2, <2>3
  <2> QED BY <1>0, <2>2, <2>4 DEF NetworkInv
<1>9. ASSUME NEW j \in Goroutines, TeamDone(j) PROVE NetworkInv'
  <2>1. PICK g \in Games, rest \in SUBSET Team :
          job[j].at = "create" /\ job[j].game = g /\ job[j].teams = rest
    BY <1>0, <1>9, KindsOfJob DEF TeamDone, JobAt
  <2> DEFINE w == [at |-> "containers", game |-> g, teams |-> rest]
  <2>2. /\ w \in Job /\ job' = [job EXCEPT ![j] = w]
        /\ UNCHANGED <<networks, outside, teamNets, unfounded, robbed>>
    BY <1>9, <2>1, JobsMade DEF TeamDone, Proceed
  <2>3. Knows(w, teamNets, robbed)
    BY <1>0, <2>1 DEF Knows
  <2> HIDE DEF w
  <2> QED BY <1>0, <2>2, <2>3, OneJobMoves
<1>10. ASSUME NEW j \in Goroutines, CleanupAll(j) PROVE NetworkInv'
  <2>1. PICK g \in Games : job[j].game = g
    BY <1>0, <1>10, KindsOfJob DEF CleanupAll, JobAt
  <2>2. PICK out \in SUBSET Team, left \in SUBSET GameTeams[g] :
          /\ out \subseteq outside[g] /\ outside' = [outside EXCEPT ![g] = out]
          /\ Proceed(j, "remove", g, left)
    BY <1>10, <2>1 DEF CleanupAll
  <2> DEFINE w == [at |-> "remove", game |-> g, teams |-> left]
  <2>3. /\ w \in Job /\ job' = [job EXCEPT ![j] = w]
        /\ UNCHANGED <<networks, teamNets, unfounded, robbed>>
    BY <1>10, <2>2, JobsMade, TeamsOfGame DEF CleanupAll, Proceed
  <2>4. /\ outside' \in [Games -> SUBSET Team]
        /\ \A h \in Games : \A t \in outside'[h] : <<h, t>> \in robbed
    BY <1>0, <2>2
  <2>5. Knows(w, teamNets, robbed)
    BY DEF Knows
  <2> HIDE DEF w
  <2> QED BY <1>0, <2>3, <2>4, <2>5, OneJobMoves
<1>11. ASSUME NEW j \in Goroutines, NEW t \in Team, RemoveTeamNetwork(j, t) PROVE NetworkInv'
  <2>1. PICK g \in Games, rest \in SUBSET Team :
          job[j].at = "remove" /\ job[j].game = g /\ rest = job[j].teams \ {t}
    BY <1>0, <1>11, KindsOfJob DEF RemoveTeamNetwork, JobAt
  <2> DEFINE w == [at |-> "remove", game |-> g, teams |-> rest]
  <2>2. w \in Job /\ job' = [job EXCEPT ![j] = w] /\ outside' = outside
    BY <1>11, <2>1, JobsMade DEF RemoveTeamNetwork, Proceed
  <2>3. /\ teamNets' = teamNets \ {t} /\ networks \ {t} \subseteq networks'
        /\ unfounded' = unfounded \ {t}
        /\ robbed' = robbed \cup {<<job[i].game, t>> : i \in {i \in Goroutines : CountsOn(i, t)}}
    BY <1>11 DEF RemoveTeamNetwork
  <2>4. teamNets' \subseteq networks' \cup unfounded' /\ robbed \subseteq robbed'
    BY <1>0, <2>3
  <2>5. ASSUME NEW i \in Goroutines PROVE Knows(job[i], teamNets', robbed')
    <3>1. CountsOn(i, t) => <<job[i].game, t>> \in robbed'
      BY <2>3
    <3> QED BY <1>0, <2>3, <2>4, <3>1 DEF Knows, CountsOn, JobAt
  <2>6. Knows(w, teamNets', robbed')
    BY DEF Knows
  <2> HIDE DEF w
  <2>7. /\ job' \in [Goroutines -> Job]
        /\ \A i \in Goroutines : Knows(job'[i], teamNets', robbed')
    BY <1>0, <2>2, <2>5, <2>6
  <2> QED BY <1>0, <2>2, <2>4, <2>7 DEF NetworkInv
<1>12. CASE ForgetNetworks
  <2>1. /\ job' = [j \in Goroutines |-> NotRunning] /\ teamNets' = {} /\ outside' = outside
        /\ robbed' = {p \in robbed : p[2] \in outside[p[1]]}
    BY <1>12 DEF ForgetNetworks
  <2>2. \A j \in Goroutines : Knows(job'[j], teamNets', robbed')
    BY <2>1, JobsMade DEF Knows
  <2>3. \A g \in Games : \A t \in outside[g] : <<g, t>> \in robbed'
    BY <1>0, <2>1
  <2> QED BY <1>0, <2>1, <2>2, <2>3, JobsMade DEF NetworkInv
<1>13. CASE UNCHANGED networkVars
  BY <1>13 DEF networkVars, NetworkInv
<1> QED
  <2>1. CASE NetworkNext
    BY <2>1, <1>2, <1>3, <1>4, <1>5, <1>6, <1>7, <1>8, <1>9, <1>10, <1>11, <1>12 DEF NetworkNext
  <2> QED BY <1>13, <2>1

\* Whatever provisionings and teardowns run at once, for any games, teams and
\* number of subnets: the manager knows no network that Docker has not, but for
\* those Docker refused to make, and a container is outside its team's network
\* only where a teardown took the network from its provisioning in between.
THEOREM ContainersStayInside == NetworkSpec => []ContainersInTeamNetworks
<1>1. NetworkInit => NetworkInv
  BY JobsMade DEF NetworkInit, NetworkInv, Knows
<1>2. NetworkInv => ContainersInTeamNetworks
  BY DEF NetworkInv, ContainersInTeamNetworks
<1> QED BY <1>1, <1>2, NetworkStep, PTL DEF NetworkSpec

-----------------------------------------------------------------------------
\* The rules of IsolateTeams keep every two of its teams apart, both ways, and
\* leave a team's own traffic alone unless another team has the same subnet.
THEOREM TeamsAreIsolated ==
  ASSUME NEW teams, IsFiniteSet(teams), NEW t \in teams, NEW u \in teams
  PROVE  /\ t # u => {<<Subnet(t), Subnet(u)>>, <<Subnet(u), Subnet(t)>>} \subseteq IsolateTeams(teams)
         /\ (\A v \in teams \ {t} : Subnet(v) # Subnet(t)) =>
              <<Subnet(t), Subnet(t)>> \notin IsolateTeams(teams)
<1>1. t # u => ~(Cardinality(teams) <= 1)
  <2> HAVE t # u
  <2>0. IsFiniteSet({t}) /\ Cardinality({t}) = 1
    BY FS_Singleton
  <2>1. {t, u} \subseteq teams /\ Cardinality({t} \cup {u}) = 2 /\ {t} \cup {u} = {t, u}
    BY <2>0, FS_AddElement
  <2>2. Cardinality({t, u}) <= Cardinality(teams) /\ Cardinality(teams) \in Nat
    BY <2>1, FS_Subset, FS_CardinalityType
  <2> QED BY <2>1, <2>2
<1>2. \A r \in IsolateTeams(teams) :
        \E a, b \in teams : a # b /\ r = <<Subnet(a), Subnet(b)>>
  BY DEF IsolateTeams
<1>3. t # u => {<<Subnet(t), Subnet(u)>>, <<Subnet(u), Subnet(t)>>} \subseteq IsolateTeams(teams)
  <2> HAVE t # u
  <2> DEFINE both == {q \in teams \X teams : q[1] # q[2]}
  <2>1. <<t, u>> \in both /\ <<u, t>> \in both
    OBVIOUS
  <2>2. IsolateTeams(teams) = {<<Subnet(p[1]), Subnet(p[2])>> : p \in both}
    BY <1>1 DEF IsolateTeams
  <2> HIDE DEF both
  <2>3. ASSUME NEW a, NEW b, <<a, b>> \in both PROVE <<Subnet(a), Subnet(b)>> \in IsolateTeams(teams)
    <3>1. <<a, b>>[1] = a /\ <<a, b>>[2] = b
      OBVIOUS
    <3> QED BY <2>2, <2>3, <3>1
  <2> QED BY <2>1, <2>3
<1>4. ASSUME \A v \in teams \ {t} : Subnet(v) # Subnet(t),
             <<Subnet(t), Subnet(t)>> \in IsolateTeams(teams)
      PROVE  FALSE
  <2>1. PICK a, b \in teams : a # b /\ <<Subnet(t), Subnet(t)>> = <<Subnet(a), Subnet(b)>>
    BY <1>2, <1>4
  <2>2. Subnet(t) = Subnet(a) /\ Subnet(t) = Subnet(b)
    BY <2>1
  <2> QED BY <1>4, <2>1, <2>2
<1> QED BY <1>3, <1>4

-----------------------------------------------------------------------------
\* The ten ports of a container begin at a different ten for each team and
\* challenge of a game.
THEOREM PortsAreDisjoint ==
  ASSUME NEW challenges \in Nat,
         NEW t \in Nat \ {0}, NEW u \in Nat \ {0},
         NEW i \in 0..challenges - 1, NEW j \in 0..challenges - 1,
         t # u \/ i # j,
         NEW p \in 0..9, NEW q \in 0..9
  PROVE  PortBase(t, challenges, i) + p # PortBase(u, challenges, j) + q
<1> DEFINE ten(team, index) == challenges * (team - 1) + index
<1>1. ten(t, i) \in Int /\ ten(u, j) \in Int
  OBVIOUS
<1>2. ten(t, i) # ten(u, j)
  <2>1. \A a, b \in Nat : a > b => challenges * a >= challenges * b + challenges
    <3> SUFFICES ASSUME NEW a \in Nat, NEW b \in Nat, a > b
        PROVE challenges * a >= challenges * b + challenges
      OBVIOUS
    <3>1. PICK d \in Nat : a = b + 1 + d
      <4>1. a - b - 1 \in Nat /\ a = b + 1 + (a - b - 1)
        OBVIOUS
      <4> QED BY <4>1
    <3>2. challenges * a = challenges * b + challenges + challenges * d
      BY <3>1
    <3>3. challenges * d \in Nat
      OBVIOUS
    <3>4. challenges * a \in Nat /\ challenges * b \in Nat
      OBVIOUS
    <3> QED BY <3>2, <3>3, <3>4
  <2>2. t - 1 \in Nat /\ u - 1 \in Nat
    OBVIOUS
  <2> DEFINE x == challenges * (t - 1)
             y == challenges * (u - 1)
  <2>3. x \in Int /\ y \in Int
    OBVIOUS
  <2>4. /\ t > u => x >= y + challenges
        /\ u > t => y >= x + challenges
        /\ t = u => x = y /\ i # j
    BY <2>1, <2>2
  <2>5. ten(t, i) = x + i /\ ten(u, j) = y + j
    OBVIOUS
  <2>6. t > u \/ u > t \/ t = u
    OBVIOUS
  <2> HIDE DEF x, y, ten
  <2> QED BY <2>3, <2>4, <2>5, <2>6
<1>3. /\ PortBase(t, challenges, i) = 31000 + ten(t, i) * 10
      /\ PortBase(u, challenges, j) = 31000 + ten(u, j) * 10
  BY DEF PortBase
<1> HIDE DEF ten
<1> QED BY <1>1, <1>2, <1>3

-----------------------------------------------------------------------------
(***************************************************************************)
(* ZeroSum.                                                                *)
(***************************************************************************)
\* The sums of the property over all squads: one that is not in the map has
\* nothing.
PointsOf(t) == getOrCreateTeam(t).initial + getOrCreateTeam(t).attack + getOrCreateTeam(t).defense
AttackOf(t) == getOrCreateTeam(t).attack
CapturedOf(t) == getOrCreateTeam(t).captured
AllPoints == Sum([t \in Squads |-> PointsOf(t)], Squads)
AllAttack == Sum([t \in Squads |-> AttackOf(t)], Squads)
AllCaptured == Sum([t \in Squads |-> CapturedOf(t)], Squads)
Breached(t) == Sum([r \in 1..TotalRounds |-> breaches[<<r, t>>]], 1..TotalRounds)

SheetOK(t) ==
  LET s == getOrCreateTeam(t) IN
  /\ s.total = s.initial + s.attack + s.defense + s.bonus
  /\ s.lost = Breached(t)

ZeroInv ==
  /\ ZeroTypeOK /\ IsFiniteSet(blood)
  /\ round = 0 => blood = {} /\ breaches = [b \in (1..TotalRounds) \X Squads |-> 0]
  /\ round > 0 => AllPoints = InitialTotal
  /\ AllAttack = FlagValue * AllCaptured + FirstBloodBonus * Cardinality(blood)
  /\ \A t \in Squads : SheetOK(t)

\* A new sheet is one.
LEMMA NewScoreOK == \A n \in Int : NewScore(n) \in TeamScore
BY DEF NewScore, TeamScore

\* Every squad has a sheet, in the map or to be made.
LEMMA TeamOK ==
  ASSUME ZeroTypeOK
  PROVE  \A t \in Squads : getOrCreateTeam(t) \in TeamScore
BY NewScoreOK DEF ZeroTypeOK, getOrCreateTeam

\* The sets of the model are finite, its values whole.
LEMMA Wholes ==
  /\ IsFiniteSet(Squads) /\ IsFiniteSet(1..TotalRounds)
  /\ InitialTotal \in Nat /\ FlagValue \in Nat /\ FirstBloodBonus \in Nat
  /\ RoundDefense \in Nat /\ TotalRounds \in Nat /\ TotalRounds > 0
BY ZeroSumAssumption, FS_Interval

\* The teams of a game share its total without a remainder.
LEMMA Shares ==
  ASSUME NEW teams \in SUBSET Squads, teams # {}
  PROVE  /\ InitialTotal \div Cardinality(teams) \in Int
         /\ Cardinality(teams) * (InitialTotal \div Cardinality(teams)) = InitialTotal
         /\ IsFiniteSet(teams)
<1> DEFINE n == Cardinality(teams)
<1>1. /\ IsFiniteSet(teams) /\ n \in Nat /\ Cardinality(Squads) \in Nat
      /\ n <= Cardinality(Squads) /\ n # 0
  BY Wholes, FS_Subset, FS_CardinalityType, FS_EmptySet
<1>2. InitialTotal % n = 0 /\ InitialTotal \in Nat
  BY <1>1, ZeroSumAssumption
<1> HIDE DEF n
<1>q. InitialTotal \div n \in Int
  BY <1>1, <1>2
<1>3. InitialTotal \div n \in Int /\ InitialTotal = n * (InitialTotal \div n) + (InitialTotal % n)
  BY <1>1, <1>2, <1>q
<1>4. n * (InitialTotal \div n) = InitialTotal
  BY <1>1, <1>2, <1>3
<1> QED BY <1>1, <1>3, <1>4 DEF n

\* Nobody has anything at first.
LEMMA ZeroStarts == ZeroInit => ZeroInv
<1> SUFFICES ASSUME ZeroInit PROVE ZeroInv
  OBVIOUS
<1>0. /\ DOMAIN scores = {} /\ blood = {} /\ round = 0
      /\ breaches = [b \in (1..TotalRounds) \X Squads |-> 0]
  BY DEF ZeroInit
<1>1. ZeroTypeOK
  BY <1>0, Wholes DEF ZeroTypeOK
<1>2. \A t \in Squads : getOrCreateTeam(t) = NewScore(0)
  BY <1>0 DEF getOrCreateTeam
<1>3. AllAttack = 0 /\ AllCaptured = 0
  <2>1. \A t \in Squads : AttackOf(t) = 0 /\ CapturedOf(t) = 0
    BY <1>2 DEF AttackOf, CapturedOf, NewScore
  <2>2. AllAttack = Cardinality(Squads) * 0 /\ AllCaptured = Cardinality(Squads) * 0
    BY <2>1, Wholes, SumConstant DEF AllAttack, AllCaptured
  <2>3. Cardinality(Squads) \in Nat
    BY Wholes, FS_CardinalityType
  <2> QED BY <2>2, <2>3
<1>4. \A t \in Squads : Breached(t) = 0
  <2>1. \A t \in Squads : \A r \in 1..TotalRounds : breaches[<<r, t>>] = 0
    BY <1>0
  <2>2. ASSUME NEW t \in Squads
        PROVE  Breached(t) = Cardinality(1..TotalRounds) * 0
    <3> DEFINE f == [r \in 1..TotalRounds |-> breaches[<<r, t>>]]
    <3>1. \A r \in 1..TotalRounds : f[r] = 0
      BY <2>1
    <3>2. Breached(t) = Sum(f, 1..TotalRounds)
      BY DEF Breached
    <3> HIDE DEF f
    <3> QED BY <3>1, <3>2, Wholes, SumConstant
  <2>3. Cardinality(1..TotalRounds) \in Nat
    BY Wholes, FS_CardinalityType
  <2> QED BY <2>2, <2>3
<1>5. \A t \in Squads : SheetOK(t)
  BY <1>2, <1>4 DEF SheetOK, NewScore
<1>6. IsFiniteSet(blood) /\ Cardinality(blood) = 0
  BY <1>0, FS_EmptySet
<1> QED BY <1>0, <1>1, <1>3, <1>5, <1>6, Wholes DEF ZeroInv

\* At the start each team has its share, together the total.
LEMMA StartStep ==
  ASSUME ZeroInv, NEW teams \in SUBSET Squads, Start(teams)
  PROVE  ZeroInv'
<1> DEFINE q == InitialTotal \div Cardinality(teams)
<1>1. /\ q \in Int /\ Cardinality(teams) * q = InitialTotal /\ IsFiniteSet(teams)
      /\ round = 0 /\ round' = 1 /\ blood' = blood /\ breaches' = breaches
      /\ scores' = [t \in teams |-> NewScore(q)] /\ blood = {}
      /\ breaches = [b \in (1..TotalRounds) \X Squads |-> 0]
  BY Shares DEF Start, ZeroInv
<1> HIDE DEF q
<1>2. ZeroTypeOK'
  BY <1>1, NewScoreOK, Wholes DEF ZeroInv, ZeroTypeOK
<1>3. \A t \in Squads : getOrCreateTeam(t)' = NewScore(IF t \in teams THEN q ELSE 0)
  BY <1>1 DEF getOrCreateTeam
<1>4. AllPoints' = InitialTotal
  <2> DEFINE g == [t \in Squads |-> PointsOf(t)']
  <2>1. \A t \in Squads : g[t] = IF t \in teams THEN q ELSE 0
    BY <1>1, <1>3 DEF PointsOf, NewScore
  <2>2. AllPoints' = Sum(g, Squads)
    BY DEF AllPoints
  <2> HIDE DEF g
  <2>3. Sum(g, Squads) = Sum(g, teams)
    BY <1>1, <2>1, Wholes, SumSupport
  <2>4. Sum(g, teams) = Cardinality(teams) * q
    BY <1>1, <2>1, SumConstant
  <2> QED BY <1>1, <2>2, <2>3, <2>4
<1>5. AllAttack' = 0 /\ AllCaptured' = 0
  <2>1. \A t \in Squads : AttackOf(t)' = 0 /\ CapturedOf(t)' = 0
    BY <1>3 DEF AttackOf, CapturedOf, NewScore
  <2>2. AllAttack' = Cardinality(Squads) * 0 /\ AllCaptured' = Cardinality(Squads) * 0
    BY <2>1, Wholes, SumConstant DEF AllAttack, AllCaptured
  <2>3. Cardinality(Squads) \in Nat
    BY Wholes, FS_CardinalityType
  <2> QED BY <2>2, <2>3
<1>6. \A t \in Squads : Breached(t)' = 0
  <2>1. \A t \in Squads : \A r \in 1..TotalRounds : breaches'[<<r, t>>] = 0
    BY <1>1
  <2>2. ASSUME NEW t \in Squads
        PROVE  Breached(t)' = Cardinality(1..TotalRounds) * 0
    <3> DEFINE f == [r \in 1..TotalRounds |-> breaches'[<<r, t>>]]
    <3>1. \A r \in 1..TotalRounds : f[r] = 0
      BY <2>1
    <3>2. Breached(t)' = Sum(f, 1..TotalRounds)
      BY DEF Breached
    <3> HIDE DEF f
    <3> QED BY <3>1, <3>2, Wholes, SumConstant
  <2>3. Cardinality(1..TotalRounds) \in Nat
    BY Wholes, FS_CardinalityType
  <2> QED BY <2>2, <2>3
<1>7. \A t \in Squads : SheetOK(t)'
  <2>1. \A n \in Int : /\ NewScore(n).total = NewScore(n).initial + NewScore(n).attack
                                                + NewScore(n).defense + NewScore(n).bonus
                       /\ NewScore(n).lost = 0
    BY DEF NewScore
  <2>2. \A t \in Squads : (IF t \in teams THEN q ELSE 0) \in Int
    BY <1>1
  <2> QED BY <1>3, <1>6, <2>1, <2>2 DEF SheetOK
<1>8. IsFiniteSet(blood') /\ Cardinality(blood') = 0
  BY <1>1, FS_EmptySet
<1> QED BY <1>1, <1>2, <1>4, <1>5, <1>7, <1>8, Wholes DEF ZeroInv

\* Once more is one more.
LEMMA Times == \A q, m \in Int : q * (m + 1) = q * m + q
OBVIOUS

\* What the end of a round does to the sheet of an unbeaten team.
Defender(s, a, b, d) ==
  [s EXCEPT !.bonus = s.bonus + a + b, !.total = s.total + a + b, !.defended = s.defended + d]

\* A capture adds attack points to a sheet.
LEMMA Captures ==
  ASSUME NEW s \in TeamScore, NEW p \in Int,
         NEW u, u = Winner(s, p)
  PROVE  /\ u \in TeamScore /\ u.initial = s.initial /\ u.bonus = s.bonus
         /\ u.attack = s.attack + p /\ u.captured = s.captured + 1
         /\ u.defense = s.defense /\ u.total = s.total + p /\ u.lost = s.lost
<1> DEFINE a == s.attack + p
           b == s.total + p
           c == s.captured + 1
<1>1. a \in Int /\ b \in Int /\ c \in Nat
  BY DEF TeamScore
<1>2. u = [s EXCEPT !.attack = a, !.total = b, !.captured = c]
  BY DEF Winner
<1> HIDE DEF a, b, c
<1>3. u = [initial |-> s.initial, attack |-> a, defense |-> s.defense, bonus |-> s.bonus, total |-> b,
           captured |-> c, lost |-> s.lost, defended |-> s.defended]
  BY <1>2 DEF TeamScore
<1>4. u \in TeamScore
  BY <1>1, <1>3 DEF TeamScore
<1> QED BY <1>3, <1>4 DEF a, b, c

\* A loss takes defence points from a sheet.
LEMMA Losses ==
  ASSUME NEW s \in TeamScore, NEW p \in Int,
         NEW u, u = Loser(s, p)
  PROVE  /\ u \in TeamScore /\ u.initial = s.initial /\ u.bonus = s.bonus
         /\ u.attack = s.attack /\ u.captured = s.captured
         /\ u.defense = s.defense - p /\ u.total = s.total - p /\ u.lost = s.lost + 1
<1> DEFINE a == s.defense - p
           b == s.total - p
           c == s.lost + 1
<1>1. a \in Int /\ b \in Int /\ c \in Nat
  BY DEF TeamScore
<1>2. u = [s EXCEPT !.defense = a, !.total = b, !.lost = c]
  BY DEF Loser
<1> HIDE DEF a, b, c
<1>3. u = [initial |-> s.initial, attack |-> s.attack, defense |-> a, bonus |-> s.bonus, total |-> b,
           captured |-> s.captured, lost |-> c, defended |-> s.defended]
  BY <1>2 DEF TeamScore
<1>4. u \in TeamScore
  BY <1>1, <1>3 DEF TeamScore
<1> QED BY <1>3, <1>4 DEF a, b, c

\* The end of a round changes bonus and total alike.
LEMMA Bonuses ==
  ASSUME NEW s \in TeamScore, NEW a \in Int, NEW b \in Int, NEW d \in Nat,
         NEW u, u = Defender(s, a, b, d)
  PROVE  /\ u \in TeamScore /\ u.initial = s.initial
         /\ u.attack = s.attack /\ u.captured = s.captured
         /\ u.defense = s.defense /\ u.total - u.bonus = s.total - s.bonus /\ u.lost = s.lost
<1> DEFINE m == s.bonus + a + b
           n == s.total + a + b
           c == s.defended + d
<1>1. m \in Int /\ n \in Int /\ c \in Nat /\ n - m = s.total - s.bonus
  BY DEF TeamScore
<1>2. u = [s EXCEPT !.bonus = m, !.total = n, !.defended = c]
  BY DEF Defender
<1> HIDE DEF m, n, c
<1>3. u = [initial |-> s.initial, attack |-> s.attack, defense |-> s.defense, bonus |-> m, total |-> n,
           captured |-> s.captured, lost |-> s.lost, defended |-> c]
  BY <1>2 DEF TeamScore
<1>4. u \in TeamScore
  BY <1>1, <1>3 DEF TeamScore
<1>5. u.bonus = m /\ u.total = n /\ u.lost = s.lost /\ u.initial = s.initial /\ u.attack = s.attack
      /\ u.captured = s.captured /\ u.defense = s.defense
  BY <1>3
<1> QED BY <1>1, <1>4, <1>5

\* The fields of a sheet.
LEMMA FieldTypes ==
  ASSUME NEW s \in TeamScore
  PROVE  /\ s.initial \in Int /\ s.bonus \in Int /\ s.attack \in Int /\ s.captured \in Nat
         /\ s.defense \in Int /\ s.total \in Int /\ s.lost \in Nat
BY DEF TeamScore

\* Points go from target to attacker: the sum over all squads stays, the attack
\* points, captures, first bloods and breaches grow together.
LEMMA AttackStep ==
  ASSUME ZeroInv, NEW attacker \in Squads, NEW target \in Squads, NEW flag \in Flags,
         NEW n \in 1..round, OnAttack(attacker, target, flag, n)
  PROVE  ZeroInv'
<1> DEFINE p == Points(flag)
           S(t) == getOrCreateTeam(t)
<1>1. /\ p \in Nat /\ round \in 1..TotalRounds /\ round' = round /\ n \in 1..TotalRounds
      /\ scores' = Attacked(p, p, attacker, target) /\ blood' = blood \cup {flag}
      /\ breaches' = [breaches EXCEPT ![<<n, target>>] = breaches[<<n, target>>] + 1]
      /\ p = FlagValue + (IF flag \in blood THEN 0 ELSE FirstBloodBonus)
  BY Wholes DEF OnAttack, RecordBreach, Points
<1> HIDE DEF p
<1>2. /\ ZeroTypeOK /\ \A t \in Squads : S(t) \in TeamScore
  BY TeamOK DEF ZeroInv
<1>3. \A t \in Squads :
        S(t)' = IF t = target
                THEN Loser(IF t = attacker THEN Winner(S(t), p) ELSE S(t), p)
                ELSE IF t = attacker THEN Winner(S(t), p) ELSE S(t)
  BY <1>1 DEF Attacked, getOrCreateTeam
<1>d. DOMAIN scores' = DOMAIN scores \cup {attacker, target}
  BY <1>1 DEF Attacked
<1> HIDE DEF S
<1>4. \A t \in Squads :
        /\ S(t)' \in TeamScore
        /\ S(t)'.initial = S(t).initial /\ S(t)'.bonus = S(t).bonus
        /\ S(t)'.attack = S(t).attack + (IF t = attacker THEN p ELSE 0)
        /\ S(t)'.captured = S(t).captured + (IF t = attacker THEN 1 ELSE 0)
        /\ S(t)'.defense = S(t).defense - (IF t = target THEN p ELSE 0)
        /\ S(t)'.total = S(t).total + (IF t = attacker THEN p ELSE 0) - (IF t = target THEN p ELSE 0)
        /\ S(t)'.lost = S(t).lost + (IF t = target THEN 1 ELSE 0)
  <2> SUFFICES ASSUME NEW t \in Squads
               PROVE  /\ S(t)' \in TeamScore
                      /\ S(t)'.initial = S(t).initial /\ S(t)'.bonus = S(t).bonus
                      /\ S(t)'.attack = S(t).attack + (IF t = attacker THEN p ELSE 0)
                      /\ S(t)'.captured = S(t).captured + (IF t = attacker THEN 1 ELSE 0)
                      /\ S(t)'.defense = S(t).defense - (IF t = target THEN p ELSE 0)
                      /\ S(t)'.total = S(t).total + (IF t = attacker THEN p ELSE 0)
                                         - (IF t = target THEN p ELSE 0)
                      /\ S(t)'.lost = S(t).lost + (IF t = target THEN 1 ELSE 0)
    OBVIOUS
  <2> DEFINE s == S(t)
             u == S(t)'
  <2>1. /\ s \in TeamScore /\ p \in Int
        /\ s.initial \in Int /\ s.bonus \in Int /\ s.attack \in Int /\ s.captured \in Nat
        /\ s.defense \in Int /\ s.total \in Int /\ s.lost \in Nat
    BY <1>1, <1>2, FieldTypes
  <2> DEFINE w == IF t = attacker THEN Winner(s, p) ELSE s
  <2>w. u = IF t = target THEN Loser(w, p) ELSE w
    BY <1>3
  <2>i. w = IF t = attacker THEN Winner(s, p) ELSE s
    OBVIOUS
  <2> HIDE DEF s, u, w
  <2>2. /\ w \in TeamScore /\ w.initial = s.initial /\ w.bonus = s.bonus
        /\ w.attack = s.attack + (IF t = attacker THEN p ELSE 0)
        /\ w.captured = s.captured + (IF t = attacker THEN 1 ELSE 0)
        /\ w.defense = s.defense /\ w.lost = s.lost
        /\ w.total = s.total + (IF t = attacker THEN p ELSE 0)
    <3>1. CASE t = attacker
      <4>1. w = Winner(s, p) /\ s \in TeamScore /\ p \in Int
        BY <2>1, <2>i, <3>1
      <4> QED BY <3>1, <4>1, Captures
    <3>2. CASE t # attacker
      BY <2>1, <2>i, <3>2
    <3> QED BY <3>1, <3>2
  <2>3. /\ u \in TeamScore /\ u.initial = w.initial /\ u.bonus = w.bonus
        /\ u.attack = w.attack /\ u.captured = w.captured
        /\ u.defense = w.defense - (IF t = target THEN p ELSE 0)
        /\ u.total = w.total - (IF t = target THEN p ELSE 0)
        /\ u.lost = w.lost + (IF t = target THEN 1 ELSE 0)
    <3>0. w.defense \in Int /\ w.total \in Int /\ w.lost \in Nat
      BY <2>2, FieldTypes
    <3>1. CASE t = target
      <4>1. u = Loser(w, p) /\ w \in TeamScore /\ p \in Int
        BY <2>1, <2>2, <2>w, <3>1
      <4> QED BY <3>1, <4>1, Losses
    <3>2. CASE t # target
      <4>1. u = w
        BY <2>w, <3>2
      <4> QED BY <2>2, <3>0, <3>2, <4>1
    <3> QED BY <3>1, <3>2
  <2> QED BY <2>1, <2>2, <2>3 DEF s, u
<1>b. /\ IsFiniteSet(blood') /\ blood' \subseteq Flags
      /\ Cardinality(blood') = Cardinality(blood) + (IF flag \in blood THEN 0 ELSE 1)
      /\ Cardinality(blood) \in Nat
  BY <1>1, FS_AddElement, FS_CardinalityType DEF ZeroInv, ZeroTypeOK
<1>5. ZeroTypeOK'
  <2>1. DOMAIN scores' \subseteq Squads
    BY <1>2, <1>d DEF ZeroTypeOK
  <2>2. \A t \in DOMAIN scores' : scores'[t] \in TeamScore
    <3>1. \A t \in DOMAIN scores' : scores'[t] = S(t)'
      BY DEF S, getOrCreateTeam
    <3> QED BY <1>4, <2>1, <3>1
  <2>3. breaches' \in [(1..TotalRounds) \X Squads -> Nat]
    BY <1>1, <1>2 DEF ZeroTypeOK
  <2> QED BY <1>1, <1>2, <1>b, <2>1, <2>2, <2>3 DEF ZeroTypeOK
<1>6. AllPoints' = AllPoints
  <2> DEFINE f == [t \in Squads |-> PointsOf(t)]
             h == [t \in Squads |-> IF t = attacker THEN PointsOf(t) + p ELSE PointsOf(t)]
             g == [t \in Squads |-> PointsOf(t)']
  <2>1. \A t \in Squads :
          /\ PointsOf(t) \in Int
          /\ PointsOf(t)' = PointsOf(t) + (IF t = attacker THEN p ELSE 0) - (IF t = target THEN p ELSE 0)
    <3> SUFFICES ASSUME NEW t \in Squads
                 PROVE  /\ PointsOf(t) \in Int
                        /\ PointsOf(t)' = PointsOf(t) + (IF t = attacker THEN p ELSE 0)
                                            - (IF t = target THEN p ELSE 0)
      OBVIOUS
    <3>1. S(t).initial \in Int /\ S(t).attack \in Int /\ S(t).defense \in Int
      BY <1>2 DEF TeamScore
    <3>2. PointsOf(t) = S(t).initial + S(t).attack + S(t).defense
      BY DEF PointsOf, S
    <3>3. PointsOf(t)' = S(t)'.initial + S(t)'.attack + S(t)'.defense
      BY DEF PointsOf, S
    <3> QED BY <1>1, <1>4, <3>1, <3>2, <3>3
  <2>2. /\ \A t \in Squads : f[t] \in Int /\ h[t] \in Int /\ g[t] \in Int
        /\ \A t \in Squads \ {attacker} : f[t] = h[t]
        /\ \A t \in Squads \ {target} : h[t] = g[t]
        /\ h[attacker] = f[attacker] + p /\ g[target] = h[target] - p
    BY <1>1, <2>1
  <2>3. AllPoints = Sum(f, Squads) /\ AllPoints' = Sum(g, Squads)
    BY DEF AllPoints
  <2> HIDE DEF f, g, h
  <2>4. Sum(h, Squads) = Sum(f, Squads) - f[attacker] + h[attacker]
    BY <2>2, Wholes, SumChanged
  <2>5. Sum(g, Squads) = Sum(h, Squads) - h[target] + g[target]
    <3>1. \A t \in Squads \ {target} : h[t] = g[t] /\ h[t] \in Int
      BY <2>2
    <3>2. IsFiniteSet(Squads) /\ h[target] \in Int /\ g[target] \in Int
      BY <2>2, Wholes
    <3> QED BY <3>1, <3>2, SumChanged
  <2>6. Sum(f, Squads) \in Int /\ Sum(h, Squads) \in Int
    BY <2>2, Wholes, SumInt
  <2>7. f[attacker] \in Int /\ h[attacker] = f[attacker] + p /\ h[target] \in Int
        /\ g[target] = h[target] - p
    BY <2>2
  <2> QED BY <1>1, <2>3, <2>4, <2>5, <2>6, <2>7
<1>7. AllAttack' = AllAttack + p /\ AllAttack \in Int
  <2> DEFINE f == [t \in Squads |-> AttackOf(t)]
             g == [t \in Squads |-> AttackOf(t)']
  <2>1. /\ \A t \in Squads : f[t] \in Int /\ g[t] \in Int
        /\ \A t \in Squads \ {attacker} : f[t] = g[t]
        /\ g[attacker] = f[attacker] + p
    <3>1. \A t \in Squads : S(t).attack \in Int /\ AttackOf(t) = S(t).attack /\ AttackOf(t)' = S(t)'.attack
      BY <1>2 DEF TeamScore, AttackOf, S
    <3> QED BY <1>1, <1>4, <3>1
  <2>2. AllAttack = Sum(f, Squads) /\ AllAttack' = Sum(g, Squads)
    BY DEF AllAttack
  <2> HIDE DEF f, g
  <2>3. Sum(g, Squads) = Sum(f, Squads) - f[attacker] + g[attacker]
    BY <2>1, Wholes, SumChanged
  <2>4. Sum(f, Squads) \in Int
    BY <2>1, Wholes, SumInt
  <2> QED BY <1>1, <2>1, <2>2, <2>3, <2>4
<1>8. AllCaptured' = AllCaptured + 1 /\ AllCaptured \in Int
  <2> DEFINE f == [t \in Squads |-> CapturedOf(t)]
             g == [t \in Squads |-> CapturedOf(t)']
  <2>1. /\ \A t \in Squads : f[t] \in Int /\ g[t] \in Int
        /\ \A t \in Squads \ {attacker} : f[t] = g[t]
        /\ g[attacker] = f[attacker] + 1
    <3>1. \A t \in Squads : S(t).captured \in Int /\ CapturedOf(t) = S(t).captured /\ CapturedOf(t)' = S(t)'.captured
      BY <1>2 DEF TeamScore, CapturedOf, S
    <3> QED BY <1>1, <1>4, <3>1
  <2>2. AllCaptured = Sum(f, Squads) /\ AllCaptured' = Sum(g, Squads)
    BY DEF AllCaptured
  <2> HIDE DEF f, g
  <2>3. Sum(g, Squads) = Sum(f, Squads) - f[attacker] + g[attacker]
    <3>1. /\ \A t \in Squads \ {attacker} : f[t] = g[t] /\ f[t] \in Int
          /\ f[attacker] \in Int /\ g[attacker] \in Int /\ IsFiniteSet(Squads)
      BY <2>1, Wholes
    <3> QED BY <3>1, SumChanged
  <2>4. Sum(f, Squads) \in Int
    BY <2>1, Wholes, SumInt
  <2> QED BY <1>1, <2>1, <2>2, <2>3, <2>4
<1>9. AllAttack' = FlagValue * AllCaptured' + FirstBloodBonus * Cardinality(blood')
  <2> DEFINE m == FlagValue * AllCaptured
             b == FirstBloodBonus * Cardinality(blood)
  <2>1. AllAttack = m + b /\ m \in Int /\ b \in Int
    BY <1>8, <1>b, Wholes DEF ZeroInv
  <2>2. FlagValue * AllCaptured' = m + FlagValue
    BY <1>8, Times, Wholes
  <2>3. FirstBloodBonus * Cardinality(blood') = b + (IF flag \in blood THEN 0 ELSE FirstBloodBonus)
    BY <1>b, Times, Wholes
  <2> HIDE DEF m, b
  <2> QED BY <1>1, <1>7, <2>1, <2>2, <2>3, Wholes
<1>10. ASSUME NEW t \in Squads
       PROVE  Breached(t)' = Breached(t) + (IF t = target THEN 1 ELSE 0) /\ Breached(t) \in Int
  <2> DEFINE f == [r \in 1..TotalRounds |-> breaches[<<r, t>>]]
             g == [r \in 1..TotalRounds |-> breaches'[<<r, t>>]]
  <2>1. \A r \in 1..TotalRounds :
          /\ breaches[<<r, t>>] \in Nat
          /\ breaches'[<<r, t>>] = breaches[<<r, t>>] + (IF r = n /\ t = target THEN 1 ELSE 0)
    BY <1>1, <1>2 DEF ZeroTypeOK
  <2>2. /\ \A r \in 1..TotalRounds : f[r] \in Int /\ g[r] \in Int
        /\ \A r \in (1..TotalRounds) \ {n} : f[r] = g[r]
        /\ g[n] = f[n] + (IF t = target THEN 1 ELSE 0)
    BY <1>1, <2>1
  <2>3. Breached(t) = Sum(f, 1..TotalRounds) /\ Breached(t)' = Sum(g, 1..TotalRounds)
    BY DEF Breached
  <2> HIDE DEF f, g
  <2> DEFINE R == 1..TotalRounds
  <2>r. /\ IsFiniteSet(R) /\ n \in R /\ \A r \in R : f[r] \in Int /\ g[r] \in Int
        /\ \A r \in R \ {n} : f[r] = g[r]
        /\ Breached(t) = Sum(f, R) /\ Breached(t)' = Sum(g, R)
    BY <1>1, <2>2, <2>3, Wholes
  <2> HIDE DEF R
  <2>4. Sum(g, R) = Sum(f, R) - f[n] + g[n]
    BY <2>r, SumChanged
  <2>5. Sum(f, R) \in Int
    BY <2>r, SumInt
  <2> QED BY <2>2, <2>r, <2>4, <2>5
<1>11. ASSUME NEW t \in Squads PROVE SheetOK(t)'
  <2>1. /\ S(t).initial \in Int /\ S(t).attack \in Int /\ S(t).defense \in Int /\ S(t).bonus \in Int
        /\ S(t).total \in Int /\ S(t).lost \in Nat
    BY <1>2 DEF TeamScore
  <2>2. S(t).total = S(t).initial + S(t).attack + S(t).defense + S(t).bonus /\ S(t).lost = Breached(t)
    BY DEF ZeroInv, SheetOK, S
  <2>3. S(t)'.total = S(t)'.initial + S(t)'.attack + S(t)'.defense + S(t)'.bonus
    BY <1>1, <1>4, <2>1, <2>2
  <2>4. S(t)'.lost = Breached(t)'
    BY <1>4, <1>10, <2>1, <2>2
  <2> QED BY <2>3, <2>4 DEF SheetOK, S
<1>12. AllPoints' = InitialTotal /\ round' # 0
  BY <1>1, <1>6 DEF ZeroInv
<1> QED BY <1>5, <1>9, <1>11, <1>12, <1>b DEF ZeroInv

\* The bonus of a round is whole.
LEMMA BonusInt == DefenseBonus(0) \in Int
<1>1. (TotalRounds - 0) * RoundDefense \in Int /\ TotalRounds \in Nat \ {0}
  BY Wholes
<1>2. ((TotalRounds - 0) * RoundDefense) \div TotalRounds \in Int
  BY <1>1
<1> QED BY <1>2 DEF DefenseBonus

\* So is what the unbeaten share.
LEMMA PoolInt == ZeroTypeOK => Pool \in Int /\ (Unbeaten # {} => Pool \div Cardinality(Unbeaten) \in Int)
<1> SUFFICES ASSUME ZeroTypeOK
             PROVE  Pool \in Int /\ (Unbeaten # {} => Pool \div Cardinality(Unbeaten) \in Int)
  OBVIOUS
<1> DEFINE D == DOMAIN scores
           f == [t \in D |-> IF scores[t].defense < 0 THEN -scores[t].defense ELSE 0]
<1>1. IsFiniteSet(D) /\ IsFiniteSet(Unbeaten) /\ Cardinality(Unbeaten) \in Nat
  BY Wholes, FS_Subset, FS_CardinalityType DEF ZeroTypeOK, Unbeaten
<1>2. \A t \in D : f[t] \in Int
  BY DEF ZeroTypeOK, TeamScore
<1>3. Pool = Sum(f, D)
  BY DEF Pool, Sum, SumFunction
<1> HIDE DEF f, D
<1>4. Pool \in Int
  BY <1>1, <1>2, <1>3, SumInt
<1>5. Unbeaten # {} => Cardinality(Unbeaten) # 0
  BY <1>1, FS_EmptySet
<1> QED BY <1>1, <1>4, <1>5

\* The end of a round adds to bonuses only.
LEMMA RoundEndStep == ZeroInv /\ OnRoundEnd => ZeroInv'
<1> SUFFICES ASSUME ZeroInv, OnRoundEnd PROVE ZeroInv'
  OBVIOUS
<1> DEFINE S(t) == getOrCreateTeam(t)
           share == (IF Unbeaten = {} THEN 0 ELSE Pool \div Cardinality(Unbeaten)) 
           extra == share + DefenseBonus(0)
           def == IF Pool > 0 THEN 1 ELSE 0
<1>1. /\ round \in 1..TotalRounds /\ round' = round + 1 /\ blood' = blood /\ breaches' = breaches
      /\ share \in Int /\ extra \in Int /\ ZeroTypeOK /\ def \in Nat /\ DefenseBonus(0) \in Int
  BY BonusInt, PoolInt DEF OnRoundEnd, ZeroInv
<1>2. scores' = [t \in DOMAIN scores |->
               IF t \in Unbeaten
               THEN [scores[t] EXCEPT !.bonus = scores[t].bonus + share + DefenseBonus(0),
                                      !.total = scores[t].total + share + DefenseBonus(0),
                                      !.defended = scores[t].defended + def]
               ELSE scores[t]]
  BY DEF OnRoundEnd, OnDefense
<1> HIDE DEF share, extra, def
<1>3. \A t \in Squads : S(t) \in TeamScore
  BY <1>1, TeamOK
<1>4. ASSUME NEW t \in Squads
      PROVE  /\ S(t)' \in TeamScore
             /\ S(t)'.initial = S(t).initial /\ S(t)'.attack = S(t).attack
             /\ S(t)'.defense = S(t).defense /\ S(t)'.captured = S(t).captured
             /\ S(t)'.lost = S(t).lost
             /\ S(t)'.total - S(t)'.bonus = S(t).total - S(t).bonus
  <2>1. CASE t \in Unbeaten
    <3>1. /\ S(t) = scores[t]
          /\ S(t)' = [scores[t] EXCEPT !.bonus = scores[t].bonus + share + DefenseBonus(0),
                                      !.total = scores[t].total + share + DefenseBonus(0),
                                      !.defended = scores[t].defended + def]
      BY <1>2, <2>1 DEF Unbeaten, getOrCreateTeam
    <3> DEFINE s == S(t)
               u == S(t)'
    <3>2. s \in TeamScore /\ u = Defender(s, share, DefenseBonus(0), def)
      BY <1>3, <3>1 DEF Defender
    <3> HIDE DEF s, u
    <3>3. /\ u \in TeamScore /\ u.initial = s.initial
          /\ u.attack = s.attack /\ u.captured = s.captured
          /\ u.defense = s.defense /\ u.total - u.bonus = s.total - s.bonus /\ u.lost = s.lost
      BY <1>1, <3>2, Bonuses
    <3> QED BY <3>3 DEF s, u
  <2>2. CASE t \notin Unbeaten
    <3>1. S(t)' = S(t)
      BY <1>2, <2>2 DEF getOrCreateTeam
    <3> QED BY <1>3, <3>1
  <2> QED BY <2>1, <2>2
<1>5. ZeroTypeOK'
  <2>1. DOMAIN scores' = DOMAIN scores
    BY <1>2
  <2>2. \A t \in DOMAIN scores' : scores'[t] = S(t)'
    BY DEF getOrCreateTeam
  <2> HIDE DEF S
  <2>3. \A t \in DOMAIN scores' : scores'[t] \in TeamScore
    BY <1>1, <1>4, <2>1, <2>2 DEF ZeroTypeOK
  <2> QED BY <1>1, <2>1, <2>3, Wholes DEF ZeroTypeOK
<1>6. \A t \in Squads : /\ PointsOf(t)' = PointsOf(t) /\ AttackOf(t)' = AttackOf(t)
                        /\ CapturedOf(t)' = CapturedOf(t) /\ Breached(t)' = Breached(t)
  BY <1>1, <1>4 DEF PointsOf, AttackOf, CapturedOf, Breached
<1>7. AllPoints' = AllPoints /\ AllAttack' = AllAttack /\ AllCaptured' = AllCaptured
  BY <1>6 DEF AllPoints, AllAttack, AllCaptured
<1>8. ASSUME NEW t \in Squads PROVE SheetOK(t)'
  <2>1. S(t).total = S(t).initial + S(t).attack + S(t).defense + S(t).bonus /\ S(t).lost = Breached(t)
    BY DEF ZeroInv, SheetOK
  <2>2. /\ S(t).initial \in Int /\ S(t).attack \in Int /\ S(t).defense \in Int /\ S(t).bonus \in Int
        /\ S(t).total \in Int /\ S(t)'.total \in Int /\ S(t)'.bonus \in Int
    BY <1>3, <1>4 DEF TeamScore
  <2> HIDE DEF S
  <2>3. S(t)'.total = S(t)'.initial + S(t)'.attack + S(t)'.defense + S(t)'.bonus
    BY <1>4, <2>1, <2>2
  <2>4. S(t)'.lost = Breached(t)'
    BY <1>4, <1>6, <2>1
  <2> QED BY <2>3, <2>4 DEF SheetOK, S
<1>9. round > 0 /\ round' > 0 /\ round' # 0
  BY <1>1
<1> QED BY <1>1, <1>5, <1>7, <1>8, <1>9 DEF ZeroInv

\* Every step keeps the sums.
LEMMA ZeroKept == ZeroInv /\ [ZeroNext]_zeroVars => ZeroInv'
<1> SUFFICES ASSUME ZeroInv, [ZeroNext]_zeroVars PROVE ZeroInv'
  OBVIOUS
<1>1. CASE UNCHANGED zeroVars
  BY <1>1 DEF zeroVars, ZeroInv, ZeroTypeOK, AllPoints, AllAttack, AllCaptured, PointsOf, AttackOf,
              CapturedOf, SheetOK, Breached, getOrCreateTeam
<1> QED BY <1>1, StartStep, AttackStep, RoundEndStep DEF ZeroNext

\* The sums over the map are those over all squads.
LEMMA SumsOverTheMap ==
  ASSUME ZeroTypeOK
  PROVE  /\ SumFunction([t \in DOMAIN scores |-> scores[t].initial + scores[t].attack + scores[t].defense])
              = AllPoints
         /\ SumFunction([t \in DOMAIN scores |-> scores[t].attack]) = AllAttack
         /\ SumFunction([t \in DOMAIN scores |-> scores[t].captured]) = AllCaptured
<1> DEFINE D == DOMAIN scores
<1>1. /\ D \in SUBSET Squads /\ IsFiniteSet(D)
      /\ \A t \in Squads : getOrCreateTeam(t) \in TeamScore
      /\ \A t \in D : getOrCreateTeam(t) = scores[t]
      /\ \A t \in Squads \ D : getOrCreateTeam(t) = NewScore(0)
  BY TeamOK, Wholes, FS_Subset DEF ZeroTypeOK, getOrCreateTeam
<1>2. \A t \in Squads : /\ PointsOf(t) \in Int /\ AttackOf(t) \in Int /\ CapturedOf(t) \in Int
                        /\ t \notin D => PointsOf(t) = 0 /\ AttackOf(t) = 0 /\ CapturedOf(t) = 0
  BY <1>1 DEF PointsOf, AttackOf, CapturedOf, TeamScore, NewScore
<1>3. \A t \in D : /\ PointsOf(t) = scores[t].initial + scores[t].attack + scores[t].defense
                   /\ AttackOf(t) = scores[t].attack /\ CapturedOf(t) = scores[t].captured
  BY <1>1 DEF PointsOf, AttackOf, CapturedOf
<1> DEFINE pts == [t \in D |-> scores[t].initial + scores[t].attack + scores[t].defense]
           att == [t \in D |-> scores[t].attack]
           cap == [t \in D |-> scores[t].captured]
           allp == [t \in Squads |-> PointsOf(t)]
           alla == [t \in Squads |-> AttackOf(t)]
           allc == [t \in Squads |-> CapturedOf(t)]
<1>4. SumFunction(pts) = Sum(pts, D) /\ SumFunction(att) = Sum(att, D) /\ SumFunction(cap) = Sum(cap, D)
  BY DEF SumFunction, Sum
<1>5. /\ \A t \in D : allp[t] = pts[t] /\ alla[t] = att[t] /\ allc[t] = cap[t]
      /\ \A t \in Squads : allp[t] \in Int /\ alla[t] \in Int /\ allc[t] \in Int
      /\ \A t \in Squads \ D : allp[t] = 0 /\ alla[t] = 0 /\ allc[t] = 0
  BY <1>1, <1>2, <1>3
<1>6. AllPoints = Sum(allp, Squads) /\ AllAttack = Sum(alla, Squads) /\ AllCaptured = Sum(allc, Squads)
  BY DEF AllPoints, AllAttack, AllCaptured
<1> HIDE DEF allp, alla, allc, pts, att, cap, D
<1>7. /\ Sum(allp, Squads) = Sum(allp, D) /\ Sum(alla, Squads) = Sum(alla, D)
      /\ Sum(allc, Squads) = Sum(allc, D)
  BY <1>1, <1>5, Wholes, SumSupport
<1>8. Sum(allp, D) = Sum(pts, D) /\ Sum(alla, D) = Sum(att, D) /\ Sum(allc, D) = Sum(cap, D)
  BY <1>1, <1>5, SumSame
<1> QED BY <1>4, <1>6, <1>7, <1>8 DEF pts, att, cap, D

\* But for bonuses of defence the points of a game stay those of its start, for any
\* teams, flags and numbers of rounds and attacks, and the scorer and the
\* calculator of defence agree on every breach.
THEOREM ZeroSumKept == ZeroSpec => []StrictZeroSum
<1>1. ZeroInv => StrictZeroSum
  <2> SUFFICES ASSUME ZeroInv, round > 0 PROVE StrictZeroSum
    BY DEF StrictZeroSum
  <2>1. ZeroTypeOK
    BY DEF ZeroInv
  <2>2. \A t \in DOMAIN scores :
          /\ getOrCreateTeam(t) = scores[t] /\ t \in Squads
          /\ SumFunction([r \in 1..TotalRounds |-> breaches[<<r, t>>]]) = Breached(t)
    BY <2>1 DEF getOrCreateTeam, Breached, Sum, SumFunction, ZeroTypeOK
  <2>3. \A t \in DOMAIN scores :
         /\ scores[t].total = scores[t].initial + scores[t].attack + scores[t].defense + scores[t].bonus
         /\ scores[t].lost = SumFunction([r \in 1..TotalRounds |-> breaches[<<r, t>>]])
    BY <2>2 DEF ZeroInv, SheetOK
  <2> QED BY <2>1, <2>3, SumsOverTheMap DEF ZeroInv, StrictZeroSum
<1> QED BY <1>1, ZeroStarts, ZeroKept, PTL DEF ZeroSpec
=============================================================================
