------------------------- MODULE RoundManagerProofs -------------------------
(***************************************************************************)
(* Safety of the round managers for any number of managers, goroutines,    *)
(* requests and rounds, and any durations, none at all included.           *)
(***************************************************************************)
EXTENDS RoundManager, TLAPS

\* A goroutine that is there has a manager; one that is not has nothing.  A
\* request that has got past the map has a manager too.
OwnerInv ==
  /\ \A l \in Loops : Live(l) => loops[l].of \in Managers
  /\ \A l \in Loops : ~Live(l) => loops[l] = NoGoroutine
  /\ \A q \in Requests : requests[q].at \in {"act", "stopping", "delete"} => Mine(q) \in Managers

\* A goroutine that has ended a round since it was cancelled is on its way out:
\* it may be in the break or have started one more round, whose time is not up,
\* or which has none.
Leaving(g) ==
  /\ g.late = 1 /\ g.cancelled
  /\ \/ g.at \in {"break", "breakWait", "poll", "next"}
     \/ g.at = "select" /\ g.clock > 0
     \/ g.at \in {"select", "gate", "end"} /\ g.instant
LateInv == \A l \in Loops : loops[l].late > 0 => Leaving(loops[l])

Inv == TypeOK /\ OwnerInv /\ RunningHasItsLoop /\ LateInv
-----------------------------------------------------------------------------
\* What the helpers give has the type of what it replaces.
LEMMA RowTypes ==
  ASSUME TypeOK, NEW m \in Managers, NEW n \in Nat, NEW l \in Loops \cup {NoLoop},
         NEW b \in BOOLEAN, NEW p \in BOOLEAN,
         NEW r \in RoundDurations, NEW d \in BreakDurations
  PROVE  /\ Fresh(r, d) \in Rows
         /\ Opened(managers[m], n) \in Rows
         /\ Opened([managers[m] EXCEPT !.running = b, !.paused = p, !.latest = l], n) \in Rows
         /\ Ended(managers[m]) \in Rows
         /\ [Ended(managers[m]) EXCEPT !.running = b] \in Rows
         /\ [managers[m] EXCEPT !.paused = p, !.crossed = 0] \in Rows
         /\ [managers[m] EXCEPT !.running = b, !.paused = p, !.crossed = 0] \in Rows
         /\ [managers[m] EXCEPT !.roundDuration = r, !.breakDuration = d] \in Rows
         /\ [managers[m] EXCEPT !.elapsed = @ + 1] \in Rows
  <1> USE DEF Rows
  <1>1. managers[m] \in Rows
    BY DEF TypeOK, ManagersOK
  <1>2. Fresh(r, d) \in Rows
    BY DEF Fresh
  <1>3. ASSUME NEW row \in Rows PROVE Crossing(row) \in Nat
    BY <1>3 DEF Crossing
  <1>4. ASSUME NEW row \in Rows PROVE Opened(row, n) \in Rows /\ Ended(row) \in Rows
    BY <1>3 DEF Opened, Ended
  <1>5. [managers[m] EXCEPT !.running = b, !.paused = p, !.latest = l] \in Rows
    BY <1>1
  <1>6. [Ended(managers[m]) EXCEPT !.running = b] \in Rows
    BY <1>1, <1>4
  <1>7. /\ [managers[m] EXCEPT !.paused = p, !.crossed = 0] \in Rows
        /\ [managers[m] EXCEPT !.running = b, !.paused = p, !.crossed = 0] \in Rows
        /\ [managers[m] EXCEPT !.roundDuration = r, !.breakDuration = d] \in Rows
    BY <1>1
  <1>8. [managers[m] EXCEPT !.elapsed = @ + 1] \in Rows
    BY <1>1
  <1> QED BY <1>1, <1>2, <1>4, <1>5, <1>6, <1>7, <1>8

\* A goroutine that goes on, on the same manager and with the same context,
\* keeps the invariant if its lateness and its place agree.
LEMMA GoesOn ==
  ASSUME Inv, NEW l \in Loops, Live(l), NEW g \in Goroutines,
         loops' = [loops EXCEPT ![l] = g],
         g.of = loops[l].of, g.at # "gone", g.cancelled = loops[l].cancelled,
         g.late > 0 => Leaving(g),
         managers' \in [Managers -> Rows],
         \A m \in Managers : /\ managers'[m].running = managers[m].running
                             /\ managers'[m].latest = managers[m].latest,
         UNCHANGED <<current, requests, overlap>>
  PROVE  Inv'
  <1>1. \A x \in Loops : loops'[x] = IF x = l THEN g ELSE loops[x]
    BY DEF Inv, TypeOK, LoopsOK
  <1>2. TypeOK'
    BY DEF Inv, TypeOK, ManagersOK, LoopsOK, RequestsOK
  <1>3. OwnerInv'
    BY <1>1 DEF Inv, OwnerInv, Live, Mine
  <1>4. RunningHasItsLoop'
    BY <1>1 DEF Inv, RunningHasItsLoop, Live, TypeOK, ManagersOK, Rows
  <1>5. LateInv'
    BY <1>1 DEF Inv, LateInv
  <1> QED BY <1>2, <1>3, <1>4, <1>5 DEF Inv

\* A goroutine may return when it was cancelled, and when it leaves its manager
\* not running.
LEMMA Returns ==
  ASSUME Inv, NEW l \in Loops, Live(l), Return(l),
         managers' \in [Managers -> Rows],
         \A m \in Managers : /\ managers'[m].latest = managers[m].latest
                             /\ managers'[m].running => managers[m].running,
         loops[l].cancelled \/ ~managers'[loops[l].of].running,
         UNCHANGED <<current, requests, overlap>>
  PROVE  Inv'
  <1>1. \A x \in Loops : loops'[x] = IF x = l THEN NoGoroutine ELSE loops[x]
    BY DEF Inv, TypeOK, LoopsOK, Return
  <1>2. TypeOK'
    <2>1. NoGoroutine \in Goroutines
      BY DEF NoGoroutine, Goroutines, Places
    <2> QED BY <2>1 DEF Inv, TypeOK, ManagersOK, LoopsOK, RequestsOK, Return
  <1>3. OwnerInv'
    <2>1. NoGoroutine.at = "gone"
      BY DEF NoGoroutine
    <2> QED BY <1>1, <2>1 DEF Inv, OwnerInv, Live, Mine
  <1>4. RunningHasItsLoop'
    BY <1>1 DEF Inv, RunningHasItsLoop, Live, TypeOK, ManagersOK, Rows
  <1>5. LateInv'
    BY <1>1 DEF Inv, LateInv, At, NoGoroutine
  <1> QED BY <1>2, <1>3, <1>4, <1>5 DEF Inv

\* The same for a step that moves a goroutine to a place, with a time.
LEMMA MovesOn ==
  ASSUME Inv, NEW l \in Loops, Live(l), NEW place \in Places \ {"gone"}, NEW time \in Nat,
         NEW none \in BOOLEAN,
         loops' = [loops EXCEPT ![l] = [loops[l] EXCEPT !.at = place, !.clock = time,
                                                        !.instant = none]],
         loops[l].late > 0 => \/ place \in {"break", "breakWait", "poll", "next"}
                              \/ place = "select" /\ time > 0
                              \/ place \in {"select", "gate", "end"} /\ none,
         managers' \in [Managers -> Rows],
         \A m \in Managers : /\ managers'[m].running = managers[m].running
                             /\ managers'[m].latest = managers[m].latest,
         UNCHANGED <<current, requests, overlap>>
  PROVE  Inv'
  <1> DEFINE g == [loops[l] EXCEPT !.at = place, !.clock = time, !.instant = none]
  <1>1. loops[l] \in Goroutines
    BY DEF Inv, TypeOK, LoopsOK
  <1>2. /\ g \in Goroutines /\ g.of = loops[l].of /\ g.at = place /\ g.clock = time
        /\ g.instant = none /\ g.cancelled = loops[l].cancelled /\ g.late = loops[l].late
    BY <1>1 DEF Goroutines
  <1>3. loops[l].late > 0 => loops[l].late = 1 /\ loops[l].cancelled
    BY DEF Inv, LateInv, Leaving
  <1>4. g.late > 0 => Leaving(g)
    BY <1>2, <1>3 DEF Leaving
  <1> HIDE DEF g
  <1>5. loops' = [loops EXCEPT ![l] = g]
    BY DEF g
  <1>6. g.at # "gone"
    BY <1>2
  <1> QED BY <1>2, <1>4, <1>5, <1>6, GoesOn
-----------------------------------------------------------------------------
\* Every step of a goroutine keeps the invariant.
LEMMA LoopStep == ASSUME Inv, NEW l \in Loops, Loop(l) PROVE Inv'
<1> DEFINE m == loops[l].of
<1> USE DEF SameRequests
<1>1. /\ Live(l) /\ m \in Managers /\ managers[m] \in Rows
      /\ loops[l] \in Goroutines /\ managers \in [Managers -> Rows]
  <2>1. loops[l].at # "gone"
    BY DEF Loop, LoopBegins, SelectFired, Cancelled, WaitOver, RoundEnd, BreakCheck,
           BreakPoll, NextRound, At
  <2> QED BY <2>1 DEF Live, Inv, OwnerInv, TypeOK, ManagersOK, LoopsOK
<1>2. loops[l].late > 0 => Leaving(loops[l])
  BY DEF Inv, LateInv
<1>3. /\ loops[l].clock \in Nat /\ loops[l].late \in Nat
      /\ loops[l].cancelled \in BOOLEAN /\ loops[l].instant \in BOOLEAN
  BY <1>1 DEF Goroutines
<1>4. \A place \in Places : Move(l, place) =>
        loops' = [loops EXCEPT ![l] = [loops[l] EXCEPT !.at = place, !.clock = loops[l].clock,
                                                       !.instant = loops[l].instant]]
  BY <1>1 DEF Move, Goroutines
<1>5. Of(l) = managers[m]
  BY DEF Of
<1>6. CASE LoopBegins(l)
  <2>1. Remaining(m) \in Nat
    <3>1. managers[m].elapsed \in Nat /\ managers[m].roundDuration \in Nat
      BY <1>1, ManagerAssumption DEF Rows
    <3> QED BY <3>1 DEF Remaining
  <2>2. /\ loops[l].at = "new" /\ UNCHANGED managers
        /\ loops' = [loops EXCEPT ![l] = [loops[l] EXCEPT !.at = "select", !.clock = Remaining(m),
                                             !.instant = (managers[m].roundDuration = 0)]]
    BY <1>5, <1>6 DEF LoopBegins, SetTimer, At
  <2>3. ~(loops[l].late > 0)
    BY <1>2, <2>2 DEF Leaving
  <2>4. "select" \in Places \ {"gone"}
    BY DEF Places
  <2> QED BY <1>1, <1>6, <2>1, <2>2, <2>3, <2>4, MovesOn DEF LoopBegins
<1>7. CASE SelectFired(l)
  <2>1. /\ loops[l].at = "select" /\ loops[l].clock = 0 /\ UNCHANGED managers /\ Move(l, "gate")
    BY <1>7 DEF SelectFired, At
  <2>2. loops[l].late > 0 => loops[l].instant
    BY <1>2, <2>1 DEF Leaving
  <2>3. "gate" \in Places \ {"gone"}
    BY DEF Places
  <2>4. loops' = [loops EXCEPT ![l] = [loops[l] EXCEPT !.at = "gate", !.clock = loops[l].clock,
                                                       !.instant = loops[l].instant]]
    BY <1>4, <2>1, <2>3
  <2> QED BY <1>1, <1>3, <1>7, <2>1, <2>2, <2>3, <2>4, MovesOn DEF SelectFired
<1>8. CASE Cancelled(l)
  BY <1>1, <1>8, Returns DEF Cancelled
<1>9. CASE WaitOver(l)
  <2>1. CASE At(l, "gate")
    <3>1. Move(l, "end") /\ UNCHANGED managers
      BY <1>9, <2>1 DEF WaitOver
    <3>2. loops[l].late > 0 => loops[l].instant
      BY <1>2, <2>1 DEF At, Leaving
    <3>3. "end" \in Places \ {"gone"}
      BY DEF Places
    <3>4. loops' = [loops EXCEPT ![l] = [loops[l] EXCEPT !.at = "end", !.clock = loops[l].clock,
                                                         !.instant = loops[l].instant]]
      BY <1>4, <3>1, <3>3
    <3> QED BY <1>1, <1>3, <1>9, <3>1, <3>2, <3>3, <3>4, MovesOn DEF WaitOver
  <2>2. CASE ~At(l, "gate")
    <3>1. MoveWith(l, "break", 0) /\ UNCHANGED managers
      BY <1>9, <2>2 DEF WaitOver
    <3>2. "break" \in Places \ {"gone"}
      BY DEF Places
    <3>3. loops' = [loops EXCEPT ![l] = [loops[l] EXCEPT !.at = "break", !.clock = 0,
                                                         !.instant = loops[l].instant]]
      BY <1>1, <3>1 DEF MoveWith, Goroutines
    <3> QED BY <1>1, <1>3, <1>9, <3>1, <3>2, <3>3, MovesOn DEF WaitOver
  <2> QED BY <2>1, <2>2
<1>10. CASE RoundEnd(l)
  <2>0. loops[l].late = 0 \/ (loops[l].late = 1 /\ loops[l].cancelled /\ loops[l].instant)
    BY <1>2, <1>3, <1>10 DEF RoundEnd, At, Leaving
  <2>1. Ended(managers[m]) \in Rows /\ [Ended(managers[m]) EXCEPT !.running = FALSE] \in Rows
    <3>1. Crossing(managers[m]) \in Nat
      BY <1>1 DEF Rows, Crossing
    <3>2. Ended(managers[m]) \in Rows
      BY <1>1, <3>1 DEF Rows, Ended
    <3> QED BY <3>2 DEF Rows
  <2>2. Ended(managers[m]).running = managers[m].running
        /\ Ended(managers[m]).latest = managers[m].latest
    BY <1>1 DEF Ended, Rows
  <2>3. CASE Of(l).round >= TotalRounds
    <3> DEFINE row == [Ended(managers[m]) EXCEPT !.running = FALSE]
    <3>1. managers' = [managers EXCEPT ![m] = row] /\ Return(l)
      BY <1>5, <1>10, <2>3 DEF RoundEnd, Set
    <3>2. row \in Rows /\ row.running = FALSE /\ row.latest = managers[m].latest
      BY <2>1, <2>2 DEF Rows
    <3> HIDE DEF row
    <3>3. /\ managers' \in [Managers -> Rows] /\ ~managers'[m].running
          /\ \A x \in Managers : /\ managers'[x].latest = managers[x].latest
                                 /\ managers'[x].running => managers[x].running
      BY <1>1, <3>1, <3>2
    <3> QED BY <1>1, <1>10, <3>1, <3>3, Returns DEF RoundEnd
  <2>4. CASE ~(Of(l).round >= TotalRounds)
    <3> DEFINE row == Ended(managers[m])
               g == [loops[l] EXCEPT !.at = "break", !.clock = 0, !.instant = FALSE,
                                     !.late = Lateness(l)]
    <3>1. managers' = [managers EXCEPT ![m] = row] /\ loops' = [loops EXCEPT ![l] = g]
      BY <1>5, <1>10, <2>4 DEF RoundEnd, Set
    <3>2. Lateness(l) \in Nat /\ (Lateness(l) > 0 => Lateness(l) = 1 /\ loops[l].cancelled)
      BY <1>3, <2>0 DEF Lateness
    <3>3. /\ g \in Goroutines /\ g.of = m /\ g.at = "break"
          /\ g.cancelled = loops[l].cancelled /\ g.late = Lateness(l)
      BY <1>1, <3>2 DEF Goroutines, Places
    <3>4. row \in Rows /\ row.running = managers[m].running /\ row.latest = managers[m].latest
      BY <2>1, <2>2
    <3> HIDE DEF row, g
    <3>5. /\ managers' \in [Managers -> Rows]
          /\ \A x \in Managers : /\ managers'[x].latest = managers[x].latest
                                 /\ managers'[x].running = managers[x].running
      BY <1>1, <3>1, <3>4
    <3>6. g.late > 0 => Leaving(g)
      BY <3>2, <3>3 DEF Leaving
    <3>7. g.at # "gone"
      BY <3>3
    <3> QED BY <1>1, <1>10, <3>1, <3>3, <3>5, <3>6, <3>7, GoesOn DEF RoundEnd
  <2> QED BY <2>3, <2>4
<1>11. CASE BreakCheck(l)
  <2>1. PICK place \in {"breakWait", "next", "poll"} : Move(l, place)
    BY <1>11 DEF BreakCheck
  <2>2. place \in Places \ {"gone"} /\ place \in {"break", "breakWait", "poll", "next"}
    BY DEF Places
  <2>3. loops' = [loops EXCEPT ![l] = [loops[l] EXCEPT !.at = place, !.clock = loops[l].clock,
                                                       !.instant = loops[l].instant]]
    BY <1>4, <2>1, <2>2
  <2>4. UNCHANGED <<managers, current, requests, overlap>>
    BY <1>11 DEF BreakCheck
  <2> QED BY <1>1, <1>3, <2>2, <2>3, <2>4, MovesOn
<1>12. CASE BreakPoll(l)
  <2>1. "break" \in Places \ {"gone"}
    BY DEF Places
  <2>2. loops' = [loops EXCEPT ![l] = [loops[l] EXCEPT !.at = "break", !.clock = loops[l].clock,
                                                       !.instant = loops[l].instant]]
    BY <1>4, <1>12, <2>1 DEF BreakPoll
  <2>3. UNCHANGED <<managers, current, requests, overlap>>
    BY <1>12 DEF BreakPoll
  <2> QED BY <1>1, <1>3, <2>1, <2>2, <2>3, MovesOn
<1>13. CASE NextRound(l)
  <2> DEFINE row == Opened(managers[m], managers[m].round + 1)
  <2>1. /\ managers' = [managers EXCEPT ![m] = row]
        /\ SetTimer(l, managers[m].roundDuration)
    BY <1>5, <1>13 DEF NextRound, Set
  <2>2. managers[m].roundDuration \in Nat
    BY <1>1, ManagerAssumption DEF Rows
  <2>3. row \in Rows /\ row.running = managers[m].running /\ row.latest = managers[m].latest
    <3>1. Crossing(managers[m]) \in Nat /\ managers[m].round + 1 \in Nat
      BY <1>1 DEF Rows, Crossing
    <3> QED BY <1>1, <3>1 DEF Opened, Rows
  <2>4. "select" \in Places \ {"gone"}
    BY DEF Places
  <2> HIDE DEF row
  <2>5. /\ managers' \in [Managers -> Rows]
        /\ \A x \in Managers : /\ managers'[x].latest = managers[x].latest
                               /\ managers'[x].running = managers[x].running
    BY <1>1, <2>1, <2>3
  <2>6. loops' = [loops EXCEPT ![l] =
                    [loops[l] EXCEPT !.at = "select", !.clock = managers[m].roundDuration,
                                     !.instant = (managers[m].roundDuration = 0)]]
    BY <1>5, <2>1 DEF SetTimer
  <2>7. UNCHANGED <<current, requests, overlap>>
    BY <1>13 DEF NextRound
  <2> DEFINE none == managers[m].roundDuration = 0
  <2>8. none \in BOOLEAN /\ (none \/ managers[m].roundDuration > 0)
    BY <2>2
  <2>9. loops' = [loops EXCEPT ![l] =
                    [loops[l] EXCEPT !.at = "select", !.clock = managers[m].roundDuration,
                                     !.instant = none]]
    BY <2>6
  <2> HIDE DEF none
  <2> QED BY <1>1, <2>2, <2>4, <2>5, <2>7, <2>8, <2>9, MovesOn
<1> QED BY <1>6, <1>7, <1>8, <1>9, <1>10, <1>11, <1>12, <1>13 DEF Loop

\* Time passes only while every goroutine waits: none of those that have ended
\* a round since they were cancelled waits for a timer.
LEMMA TickStep == ASSUME Inv, Tick PROVE Inv'
<1> USE DEF SameRequests
<1>1. /\ \A l \in Loops : Waits(l) /\ loops[l] \in Goroutines
      /\ managers \in [Managers -> Rows]
  BY DEF Tick, Inv, TypeOK, ManagersOK, LoopsOK
<1>2. \A l \in Loops : Aged(l) \in Nat
  <2> TAKE l \in Loops
  <2>1. loops[l].clock \in Nat /\ (At(l, "select") => loops[l].clock > 0)
    BY <1>1 DEF Goroutines, Waits, At
  <2> QED BY <2>1 DEF Aged, At
<1>3. \A l \in Loops : loops'[l] = [loops[l] EXCEPT !.clock = Aged(l)]
  BY DEF Tick
<1>4. \A l \in Loops : /\ loops'[l] \in Goroutines /\ loops'[l].of = loops[l].of
                       /\ loops'[l].at = loops[l].at /\ loops'[l].late = loops[l].late
                       /\ loops'[l].instant = loops[l].instant
                       /\ loops'[l].cancelled = loops[l].cancelled
                       /\ loops'[l].clock = Aged(l)
  BY <1>1, <1>2, <1>3 DEF Goroutines
<1>5. loops' \in [Loops -> Goroutines]
  <2>1. loops' = [l \in Loops |-> [loops[l] EXCEPT !.clock = Aged(l)]]
    BY DEF Tick
  <2> QED BY <1>3, <1>4, <2>1
<1>6. \A m \in Managers : /\ managers'[m] \in Rows
                          /\ managers'[m].running = managers[m].running
                          /\ managers'[m].latest = managers[m].latest
  <2> TAKE m \in Managers
  <2>1. managers[m] \in Rows /\ [managers[m] EXCEPT !.elapsed = managers[m].elapsed + 1] \in Rows
    BY <1>1 DEF Rows
  <2>2. managers'[m] \in {managers[m], [managers[m] EXCEPT !.elapsed = managers[m].elapsed + 1]}
    BY DEF Tick
  <2> QED BY <2>1, <2>2 DEF Rows
<1>7. managers' \in [Managers -> Rows]
  BY <1>6 DEF Tick
<1>8. TypeOK'
  BY <1>5, <1>7 DEF Tick, Inv, TypeOK, ManagersOK, LoopsOK, RequestsOK
<1>9. OwnerInv'
  <2>1. ASSUME NEW l \in Loops, ~Live(l) PROVE loops'[l] = loops[l]
    <3>1. loops[l] \in Goroutines /\ Aged(l) = loops[l].clock
      BY <1>1, <2>1 DEF Aged, At, Live
    <3> QED BY <1>3, <3>1 DEF Goroutines
  <2>2. \A l \in Loops : Live(l)' <=> Live(l)
    BY <1>4 DEF Live
  <2> QED BY <1>4, <2>1, <2>2 DEF Inv, OwnerInv, Mine, Tick
<1>10. RunningHasItsLoop'
  BY <1>4, <1>6, <1>7 DEF Inv, RunningHasItsLoop, Live, TypeOK, ManagersOK, Rows
<1>11. LateInv'
  <2>1. \A l \in Loops : loops[l].late > 0 => ~At(l, "select")
    BY <1>1 DEF Inv, LateInv, Leaving, Waits, At
  <2> QED BY <1>4, <2>1 DEF Inv, LateInv, Leaving, At
<1> QED BY <1>8, <1>9, <1>10, <1>11 DEF Inv
-----------------------------------------------------------------------------
\* What a request does to the map and to itself alone concerns only who has a
\* manager.
LEMMA Serves ==
  ASSUME Inv, UNCHANGED <<managers, loops>>, RequestsOK',
         current' \in Managers \cup {NoManager}, overlap' \in BOOLEAN,
         \A q \in Requests : requests'[q].at \in {"act", "stopping", "delete"}
                               => requests'[q].manager \in Managers
  PROVE  Inv'
  BY DEF Inv, TypeOK, ManagersOK, LoopsOK, OwnerInv, Live, Mine, RunningHasItsLoop, LateInv, At

\* Start and Stop are where managers and goroutines meet.
LEMMA StartKeeps == ASSUME Inv, NEW m \in Managers, Start(m) PROVE
  /\ ManagersOK' /\ LoopsOK' /\ RunningHasItsLoop' /\ LateInv'
  /\ \A l \in Loops : Live(l)' => loops'[l].of \in Managers
  /\ \A l \in Loops : ~Live(l)' => loops'[l] = NoGoroutine
<1>1. managers \in [Managers -> Rows] /\ loops \in [Loops -> Goroutines]
  BY DEF Inv, TypeOK, ManagersOK, LoopsOK
<1>2. CASE UNCHANGED <<managers, loops>>
  BY <1>2 DEF Inv, TypeOK, ManagersOK, LoopsOK, OwnerInv, Live, RunningHasItsLoop, LateInv, At
<1>3. ASSUME NEW l \in Loops, ~Live(l),
             Set(m, Opened([managers[m] EXCEPT !.running = TRUE, !.paused = FALSE,
                                               !.latest = l], 1)),
             loops' = [loops EXCEPT ![l] = [NoGoroutine EXCEPT !.of = m, !.at = "new"]]
      PROVE  /\ ManagersOK' /\ LoopsOK' /\ RunningHasItsLoop' /\ LateInv'
             /\ \A x \in Loops : Live(x)' => loops'[x].of \in Managers
             /\ \A x \in Loops : ~Live(x)' => loops'[x] = NoGoroutine
  <2> DEFINE row == Opened([managers[m] EXCEPT !.running = TRUE, !.paused = FALSE,
                                               !.latest = l], 1)
             g == [NoGoroutine EXCEPT !.of = m, !.at = "new"]
  <2>1. row \in Rows /\ row.running /\ row.latest = l
    BY <1>1 DEF Opened, Rows, Crossing
  <2>2. g \in Goroutines /\ g.of = m /\ g.at = "new" /\ g.cancelled = FALSE /\ g.late = 0
    BY DEF NoGoroutine, Goroutines, Places
  <2>3. managers' = [managers EXCEPT ![m] = row] /\ loops' = [loops EXCEPT ![l] = g]
    BY <1>3 DEF Set
  <2> HIDE DEF row, g
  <2>4. /\ \A x \in Loops : loops'[x] = IF x = l THEN g ELSE loops[x]
        /\ \A x \in Managers : managers'[x] = IF x = m THEN row ELSE managers[x]
    BY <1>1, <2>3
  <2>5. ManagersOK' /\ LoopsOK'
    BY <1>1, <2>1, <2>2, <2>3 DEF ManagersOK, LoopsOK
  <2>6. RunningHasItsLoop'
    <3> SUFFICES ASSUME NEW x \in Managers, NEW k, k = managers'[x].latest,
                        managers'[x].running, k # NoLoop
                 PROVE  loops'[k].of = x /\ loops'[k].at # "gone" /\ ~loops'[k].cancelled
      BY DEF RunningHasItsLoop, Live
    <3>1. CASE x = m
      BY <2>1, <2>2, <2>4, <3>1
    <3>2. CASE x # m
      <4>1. managers[x].latest = k /\ managers[x].running /\ k \in Loops
        BY <1>1, <2>4, <3>2 DEF Rows
      <4>2. loops[k].of = x /\ Live(k) /\ ~loops[k].cancelled
        BY <4>1 DEF Inv, RunningHasItsLoop
      <4>3. k # l
        BY <1>3, <4>2
      <4> QED BY <2>4, <4>1, <4>2, <4>3 DEF Live
    <3> QED BY <3>1, <3>2
  <2>7. LateInv'
    BY <2>2, <2>4 DEF Inv, LateInv, At
  <2>8. /\ \A x \in Loops : Live(x)' => loops'[x].of \in Managers
        /\ \A x \in Loops : ~Live(x)' => loops'[x] = NoGoroutine
    BY <2>2, <2>4 DEF Inv, OwnerInv, Live
  <2> QED BY <2>5, <2>6, <2>7, <2>8
<1>4. ASSUME Set(m, Opened([managers[m] EXCEPT !.running = TRUE, !.paused = FALSE,
                                               !.latest = NoLoop], 1)), UNCHANGED loops
      PROVE  ManagersOK' /\ RunningHasItsLoop'
  <2> DEFINE row == Opened([managers[m] EXCEPT !.running = TRUE, !.paused = FALSE,
                                               !.latest = NoLoop], 1)
  <2>1. row \in Rows /\ row.latest = NoLoop
    BY <1>1 DEF Opened, Rows, Crossing
  <2>2. managers' = [managers EXCEPT ![m] = row]
    BY <1>4 DEF Set
  <2> HIDE DEF row
  <2>3. \A x \in Managers : managers'[x] = IF x = m THEN row ELSE managers[x]
    BY <1>1, <2>2
  <2>4. ManagersOK'
    BY <1>1, <2>1, <2>2 DEF ManagersOK
  <2> QED BY <1>4, <2>1, <2>3, <2>4 DEF Inv, RunningHasItsLoop, Live
<1>5. UNCHANGED loops => /\ LoopsOK' /\ LateInv'
                         /\ \A l \in Loops : Live(l)' => loops'[l].of \in Managers
                         /\ \A l \in Loops : ~Live(l)' => loops'[l] = NoGoroutine
  BY DEF Inv, TypeOK, LoopsOK, OwnerInv, Live, LateInv, At
<1> QED BY <1>2, <1>3, <1>4, <1>5 DEF Start

LEMMA StopKeeps == ASSUME Inv, NEW m \in Managers, Stop(m) PROVE
  /\ ManagersOK' /\ LoopsOK' /\ RunningHasItsLoop' /\ LateInv'
  /\ \A l \in Loops : Live(l)' => loops'[l].of \in Managers
  /\ \A l \in Loops : ~Live(l)' => loops'[l] = NoGoroutine
<1>1. managers \in [Managers -> Rows] /\ loops \in [Loops -> Goroutines]
  BY DEF Inv, TypeOK, ManagersOK, LoopsOK
<1> DEFINE row == [managers[m] EXCEPT !.running = FALSE, !.paused = FALSE, !.crossed = 0]
<1>2. row \in Rows /\ ~row.running
  BY <1>1 DEF Rows
<1>3. managers' = [managers EXCEPT ![m] = row]
  BY DEF Stop, Set
<1> HIDE DEF row
<1>4. \A x \in Managers : managers'[x] = IF x = m THEN row ELSE managers[x]
  BY <1>1, <1>3
<1>5. \A l \in Loops : loops'[l] = IF l = managers[m].latest /\ loops[l].of = m
                                   THEN [loops[l] EXCEPT !.cancelled = TRUE] ELSE loops[l]
  BY DEF Stop
<1>6. \A l \in Loops : /\ loops'[l] \in Goroutines /\ loops'[l].of = loops[l].of
                       /\ loops'[l].at = loops[l].at /\ loops'[l].late = loops[l].late
                       /\ loops'[l].clock = loops[l].clock
                       /\ loops'[l].instant = loops[l].instant
                       /\ \/ loops'[l].cancelled = loops[l].cancelled
                          \/ loops'[l].cancelled /\ loops[l].of = m
  <2> TAKE l \in Loops
  <2>1. CASE l = managers[m].latest /\ loops[l].of = m
    <3>1. loops'[l] = [loops[l] EXCEPT !.cancelled = TRUE] /\ loops[l] \in Goroutines
      BY <1>1, <1>5, <2>1
    <3> QED BY <2>1, <3>1 DEF Goroutines
  <2>2. CASE ~(l = managers[m].latest /\ loops[l].of = m)
    BY <1>1, <1>5, <2>2
  <2> QED BY <2>1, <2>2
<1>7. LoopsOK'
  <2>1. loops' = [l \in Loops |-> loops'[l]]
    BY DEF Stop
  <2> QED BY <1>6, <2>1 DEF LoopsOK
<1>8. ManagersOK'
  BY <1>1, <1>2, <1>3 DEF ManagersOK
<1>9. RunningHasItsLoop'
  <2> SUFFICES ASSUME NEW x \in Managers, NEW k, k = managers'[x].latest,
                      managers'[x].running, k # NoLoop
               PROVE  loops'[k].of = x /\ loops'[k].at # "gone" /\ ~loops'[k].cancelled
    BY DEF RunningHasItsLoop, Live
  <2>1. x # m /\ managers[x].latest = k /\ managers[x].running /\ k \in Loops
    BY <1>1, <1>2, <1>4 DEF Rows
  <2>2. loops[k].of = x /\ Live(k) /\ ~loops[k].cancelled
    BY <2>1 DEF Inv, RunningHasItsLoop
  <2> QED BY <1>6, <2>1, <2>2 DEF Live
<1>10. LateInv'
  BY <1>6 DEF Inv, LateInv, Leaving
<1>11. ASSUME NEW l \in Loops, ~Live(l) PROVE loops'[l] = NoGoroutine
  <2>1. loops[l] = NoGoroutine
    BY <1>11 DEF Inv, OwnerInv
  <2>2. loops[l].of # m
    BY <2>1, ManagerAssumption DEF NoGoroutine
  <2> QED BY <1>5, <2>1, <2>2
<1>12. \A l \in Loops : Live(l)' <=> Live(l)
  BY <1>6 DEF Live
<1> QED BY <1>6, <1>7, <1>8, <1>9, <1>10, <1>11, <1>12 DEF Inv, OwnerInv

\* A change of a manager that leaves running and latest alone, or makes the
\* manager anew.
LEMMA Sets ==
  ASSUME Inv, NEW m \in Managers, NEW row \in Rows, Set(m, row),
         \/ ~row.running
         \/ row.running = managers[m].running /\ row.latest = managers[m].latest,
         UNCHANGED loops
  PROVE  /\ ManagersOK' /\ LoopsOK' /\ RunningHasItsLoop' /\ LateInv'
         /\ \A l \in Loops : Live(l)' => loops'[l].of \in Managers
         /\ \A l \in Loops : ~Live(l)' => loops'[l] = NoGoroutine
<1>1. managers \in [Managers -> Rows]
  BY DEF Inv, TypeOK, ManagersOK
<1>2. \A x \in Managers : managers'[x] = IF x = m THEN row ELSE managers[x]
  BY <1>1 DEF Set
<1>3. ManagersOK'
  BY <1>1 DEF Set, ManagersOK
<1>4. RunningHasItsLoop'
  BY <1>2 DEF Inv, RunningHasItsLoop, Live
<1> QED BY <1>3, <1>4 DEF Inv, TypeOK, LoopsOK, OwnerInv, Live, LateInv, At

\* Every step of a request keeps the invariant.
LEMMA RequestStep == ASSUME Inv, NEW q \in Requests, Request(q) PROVE Inv'
<1>1. /\ requests \in [Requests -> [at : Stages, manager : Managers \cup {NoManager}]]
      /\ managers \in [Managers -> Rows]
      /\ current \in Managers \cup {NoManager} /\ overlap \in BOOLEAN
  BY DEF Inv, TypeOK, RequestsOK, ManagersOK
<1>2. /\ Idle \in [at : Stages, manager : Managers \cup {NoManager}]
      /\ Idle.at = "idle"
      /\ \A m \in Managers : [at |-> "act", manager |-> m]
                              \in [at : Stages, manager : Managers \cup {NoManager}]
      /\ \A s \in Stages : [requests[q] EXCEPT !.at = s]
                            \in [at : Stages, manager : Managers \cup {NoManager}]
  BY <1>1 DEF Idle, Stages
<1>3. \A p \in Requests : requests[p].at \in {"act", "stopping", "delete"}
                          => requests[p].manager \in Managers
  BY DEF Inv, OwnerInv, Mine
<1>4. Done(q) => /\ RequestsOK'
                 /\ \A p \in Requests : requests'[p].at \in {"act", "stopping", "delete"}
                                        => requests'[p].manager \in Managers
  BY <1>1, <1>2, <1>3 DEF Done, RequestsOK
<1>5. \A m \in Managers : Hold(q, m) =>
                 /\ RequestsOK'
                 /\ \A p \in Requests : requests'[p].at \in {"act", "stopping", "delete"}
                                        => requests'[p].manager \in Managers
  BY <1>1, <1>2, <1>3 DEF Hold, RequestsOK
<1>6. \A s \in Stages : Advance(q, s) /\ (s = "create" \/ Mine(q) \in Managers) =>
                 /\ RequestsOK'
                 /\ \A p \in Requests : requests'[p].at \in {"act", "stopping", "delete"}
                                        => requests'[p].manager \in Managers
  BY <1>1, <1>2, <1>3 DEF Advance, RequestsOK, Mine
<1>7. CASE Fetch(q)
  <2>1. "create" \in Stages
    BY DEF Stages
  <2>2. overlap' \in BOOLEAN
    BY <1>7, Zenon DEF Fetch
  <2>3. CASE current = NoManager
    BY <1>1, <1>6, <1>7, <2>1, <2>2, <2>3, Serves DEF Fetch
  <2>4. CASE current # NoManager
    BY <1>1, <1>5, <1>7, <2>2, <2>4, Serves DEF Fetch
  <2> QED BY <2>3, <2>4
<1>8. CASE Create(q)
  <2>1. PICK m \in Managers, r \in RoundDurations, b \in BreakDurations :
          Set(m, Fresh(r, b)) /\ current' = m /\ Hold(q, m)
    BY <1>8 DEF Create
  <2> DEFINE row == Fresh(r, b)
  <2>2. row \in Rows /\ ~row.running
    BY DEF Fresh, Rows
  <2>5. Set(m, row)
    BY <2>1
  <2> HIDE DEF row
  <2>3. UNCHANGED <<loops, overlap>>
    BY <1>8 DEF Create
  <2>4. /\ ManagersOK' /\ LoopsOK' /\ RunningHasItsLoop' /\ LateInv'
        /\ \A l \in Loops : Live(l)' => loops'[l].of \in Managers
        /\ \A l \in Loops : ~Live(l)' => loops'[l] = NoGoroutine
    BY <2>2, <2>3, <2>5, Sets
  <2> QED BY <1>1, <1>5, <2>1, <2>3, <2>4 DEF Inv, TypeOK, OwnerInv, Mine
<1>9. CASE CreateFails(q)
  BY <1>1, <1>4, <1>9, Serves DEF CreateFails
<1>10. CASE Update(q)
  <2>1. Mine(q) \in Managers
    BY <1>3, <1>10 DEF Update, Reached, Mine
  <2>2. PICK r \in RoundDurations, b \in BreakDurations : UpdateDurations(Mine(q), r, b)
    BY <1>10 DEF Update
  <2> DEFINE row == [managers[Mine(q)] EXCEPT !.roundDuration = r, !.breakDuration = b]
  <2>3. row \in Rows /\ row.running = managers[Mine(q)].running
                     /\ row.latest = managers[Mine(q)].latest
    BY <1>1, <2>1 DEF Rows
  <2>4. Set(Mine(q), row)
    BY <2>2 DEF UpdateDurations
  <2> HIDE DEF row
  <2>5. UNCHANGED <<loops, current, requests, overlap>>
    BY <1>10 DEF Update
  <2>6. /\ ManagersOK' /\ LoopsOK' /\ RunningHasItsLoop' /\ LateInv'
        /\ \A l \in Loops : Live(l)' => loops'[l].of \in Managers
        /\ \A l \in Loops : ~Live(l)' => loops'[l] = NoGoroutine
    BY <2>1, <2>3, <2>4, <2>5, Sets
  <2> QED BY <1>1, <1>3, <2>5, <2>6 DEF Inv, TypeOK, RequestsOK, OwnerInv, Mine
<1>11. CASE Act(q)
  <2>1. Mine(q) \in Managers
    BY <1>3, <1>11 DEF Act, Reached, Mine
  <2>2. /\ ManagersOK' /\ LoopsOK' /\ RunningHasItsLoop' /\ LateInv'
        /\ \A l \in Loops : Live(l)' => loops'[l].of \in Managers
        /\ \A l \in Loops : ~Live(l)' => loops'[l] = NoGoroutine
    <3>1. CASE Start(Mine(q))
      BY <2>1, <3>1, StartKeeps
    <3>2. CASE Pause(Mine(q)) \/ Resume(Mine(q))
      <4>1. UNCHANGED loops
        BY <3>2 DEF Pause, Resume
      <4>2. CASE UNCHANGED managers
        BY <4>1, <4>2 DEF Inv, TypeOK, ManagersOK, LoopsOK, OwnerInv, Live,
                          RunningHasItsLoop, LateInv, At
      <4>3. ASSUME NEW p \in BOOLEAN,
                   Set(Mine(q), [managers[Mine(q)] EXCEPT !.paused = p, !.crossed = 0])
            PROVE  /\ ManagersOK' /\ LoopsOK' /\ RunningHasItsLoop' /\ LateInv'
                   /\ \A l \in Loops : Live(l)' => loops'[l].of \in Managers
                   /\ \A l \in Loops : ~Live(l)' => loops'[l] = NoGoroutine
        <5> DEFINE row == [managers[Mine(q)] EXCEPT !.paused = p, !.crossed = 0]
        <5>1. row \in Rows /\ row.running = managers[Mine(q)].running
                           /\ row.latest = managers[Mine(q)].latest
          BY <1>1, <2>1 DEF Rows
        <5>2. Set(Mine(q), row)
          BY <4>3
        <5> HIDE DEF row
        <5> QED BY <2>1, <4>1, <5>1, <5>2, Sets
      <4> QED BY <3>2, <4>2, <4>3 DEF Pause, Resume
    <3> QED BY <1>11, <3>1, <3>2 DEF Act
  <2>3. Done(q) /\ UNCHANGED <<current, overlap>>
    BY <1>11 DEF Act
  <2> QED BY <1>1, <1>4, <2>2, <2>3 DEF Inv, TypeOK, OwnerInv, Mine
<1>12. CASE CheckStop(q)
  <2>1. "stopping" \in Stages
    BY DEF Stages
  <2>2. Mine(q) \in Managers
    BY <1>3, <1>12 DEF CheckStop, Reached, Mine
  <2> QED BY <1>1, <1>4, <1>6, <1>12, <2>1, <2>2, Serves DEF CheckStop
<1>13. CASE DoStop(q)
  <2>1. Mine(q) \in Managers /\ "delete" \in Stages
    BY <1>3, <1>13 DEF DoStop, Reached, Mine, Stages
  <2>2. /\ ManagersOK' /\ LoopsOK' /\ RunningHasItsLoop' /\ LateInv'
        /\ \A l \in Loops : Live(l)' => loops'[l].of \in Managers
        /\ \A l \in Loops : ~Live(l)' => loops'[l] = NoGoroutine
    BY <1>13, <2>1, StopKeeps DEF DoStop
  <2>3. Advance(q, "delete") /\ UNCHANGED <<current, overlap>>
    BY <1>13 DEF DoStop
  <2> QED BY <1>1, <1>6, <2>1, <2>2, <2>3 DEF Inv, TypeOK, OwnerInv, Mine
<1>14. CASE Forget(q)
  BY <1>1, <1>4, <1>14, Serves DEF Forget
<1> QED BY <1>7, <1>8, <1>9, <1>10, <1>11, <1>12, <1>13, <1>14 DEF Request
-----------------------------------------------------------------------------
LEMMA InitInv == Init => Inv
<1> SUFFICES ASSUME Init PROVE Inv
  OBVIOUS
<1>1. ManagersOK
  <2>1. \A r \in RoundDurations, b \in BreakDurations : Fresh(r, b) \in Rows
    BY DEF Fresh, Rows
  <2> QED BY <2>1 DEF Init, ManagersOK
<1>2. NoGoroutine \in Goroutines /\ NoGoroutine.at = "gone" /\ NoGoroutine.late = 0
  BY DEF NoGoroutine, Goroutines, Places
<1>3. Idle \in [at : Stages, manager : Managers \cup {NoManager}] /\ Idle.at = "idle"
  BY DEF Idle, Stages
<1>4. LoopsOK /\ RequestsOK
  BY <1>2, <1>3 DEF Init, LoopsOK, RequestsOK
<1>5. OwnerInv
  BY <1>2, <1>3 DEF Init, OwnerInv, Live, Mine
<1>6. RunningHasItsLoop
  <2>1. \A m \in Managers : ~managers[m].running
    BY DEF Init, Fresh
  <2> QED BY <2>1 DEF RunningHasItsLoop
<1>7. LateInv
  BY <1>2 DEF Init, LateInv
<1> QED BY <1>1, <1>4, <1>5, <1>6, <1>7 DEF Init, Inv, TypeOK

LEMMA NextInv == Inv /\ [Next]_vars => Inv'
<1> SUFFICES ASSUME Inv, [Next]_vars PROVE Inv'
  OBVIOUS
<1>1. CASE UNCHANGED vars
  BY <1>1 DEF vars, Inv, TypeOK, ManagersOK, LoopsOK, RequestsOK, OwnerInv, Live, Mine,
              RunningHasItsLoop, LateInv, At
<1> QED BY <1>1, RequestStep, LoopStep, TickStep DEF Next

\* The records of managers, goroutines and requests stay well formed.
THEOREM TypeCorrect == Spec => []TypeOK
<1>1. Inv => TypeOK
  BY DEF Inv
<1> QED BY <1>1, InitInv, NextInv, PTL DEF Spec

\* A manager that says it is running has its goroutine, however many starts,
\* stops and overtaken goroutines there have been.
THEOREM RunningManagerHasItsLoop == Spec => []RunningHasItsLoop
<1>1. Inv => RunningHasItsLoop
  BY DEF Inv
<1> QED BY <1>1, InitInv, NextInv, PTL DEF Spec

\* A cancelled goroutine ends no second round that has any time, whatever the
\* durations the requests ask for.
THEOREM CancelledLoopEndsOneRound == Spec => []CancelledEndsOneRound
<1>1. Inv => CancelledEndsOneRound
  <2> SUFFICES ASSUME Inv, NEW l \in Loops PROVE loops[l].late <= 1
    BY DEF CancelledEndsOneRound
  <2>1. loops[l].late \in Nat
    BY DEF Inv, TypeOK, LoopsOK, Goroutines
  <2>2. loops[l].late > 0 => loops[l].late = 1
    BY DEF Inv, LateInv, Leaving
  <2> QED BY <2>1, <2>2
<1> QED BY <1>1, InitInv, NextInv, PTL DEF Spec
-----------------------------------------------------------------------------
\* While requests come one at a time: the one under way holds the manager of
\* the map, which is not running any more when it is about to be forgotten; a
\* goroutine that nobody cancelled is the latest of the manager in the map, and
\* one that was cancelled belongs to that manager only until it is forgotten.
Busy(q) == ~Reached(q, "idle")
OneAtATime == \A p, q \in Requests : Busy(p) /\ Busy(q) => p = q
HoldsCurrent ==
  \A q \in Requests : /\ requests[q].at \in {"act", "stopping", "delete"} => Mine(q) = current
                      /\ Reached(q, "create") => current = NoManager
                      /\ Reached(q, "delete") => ~managers[current].running
SoleLoop ==
  \A l \in Loops : Live(l) =>
    /\ ~loops[l].cancelled =>
         loops[l].of = current /\ managers[current].latest = l /\ managers[current].running
    /\ loops[l].cancelled /\ loops[l].of = current => \E q \in Requests : Reached(q, "delete")
TurnInv == ~overlap => OneAtATime /\ HoldsCurrent /\ SoleLoop

\* A step of a goroutine: the last round of a manager ends on its own
\* goroutine, or on one that was cancelled and whose manager does not run.
LEMMA LoopTurn == ASSUME Inv, TurnInv, NEW l \in Loops, Loop(l) PROVE TurnInv'
<1>1. /\ managers \in [Managers -> Rows] /\ loops \in [Loops -> Goroutines]
      /\ UNCHANGED <<current, requests, overlap>>
  BY DEF Inv, TypeOK, ManagersOK, LoopsOK, Loop, LoopBegins, SelectFired, Cancelled, WaitOver,
         RoundEnd, BreakCheck, BreakPoll, NextRound, SameRequests
<1>2. Live(l) /\ loops[l].of \in Managers
  <2>1. loops[l].at # "gone"
    BY DEF Loop, LoopBegins, SelectFired, Cancelled, WaitOver, RoundEnd, BreakCheck,
           BreakPoll, NextRound, At
  <2> QED BY <2>1 DEF Live, Inv, OwnerInv
<1>3. /\ \A x \in Loops : x # l => loops'[x] = loops[x]
      /\ loops'[l].at # "gone" => /\ loops'[l].of = loops[l].of
                                  /\ loops'[l].cancelled = loops[l].cancelled
  <2>1. \/ Return(l)
        \/ \E place \in Places : Move(l, place)
        \/ \E place \in Places : \E time : MoveWith(l, place, time)
        \/ \E time : SetTimer(l, time)
        \/ loops' = [loops EXCEPT ![l] =
              [loops[l] EXCEPT !.at = "break", !.clock = 0, !.instant = FALSE,
                               !.late = Lateness(l)]]
    BY Zenon DEF Loop, LoopBegins, SelectFired, Cancelled, WaitOver, RoundEnd, BreakCheck,
                 BreakPoll, NextRound, Places
  <2>2. CASE Return(l)
    BY <1>1, <2>2 DEF Return, NoGoroutine
  <2>3. ASSUME NEW place \in Places, Move(l, place)
        PROVE  /\ \A x \in Loops : x # l => loops'[x] = loops[x]
               /\ loops'[l].of = loops[l].of /\ loops'[l].cancelled = loops[l].cancelled
    BY <1>1, <2>3 DEF Move, Goroutines
  <2>4. ASSUME NEW place \in Places, NEW time, MoveWith(l, place, time)
        PROVE  /\ \A x \in Loops : x # l => loops'[x] = loops[x]
               /\ loops'[l].of = loops[l].of /\ loops'[l].cancelled = loops[l].cancelled
    BY <1>1, <2>4 DEF MoveWith, Goroutines
  <2>6. ASSUME NEW time, SetTimer(l, time)
        PROVE  /\ \A x \in Loops : x # l => loops'[x] = loops[x]
               /\ loops'[l].of = loops[l].of /\ loops'[l].cancelled = loops[l].cancelled
    BY <1>1, <2>6 DEF SetTimer, Goroutines
  <2>5. ASSUME loops' = [loops EXCEPT ![l] =
                 [loops[l] EXCEPT !.at = "break", !.clock = 0, !.instant = FALSE,
                                  !.late = Lateness(l)]]
        PROVE  /\ \A x \in Loops : x # l => loops'[x] = loops[x]
               /\ loops'[l].of = loops[l].of /\ loops'[l].cancelled = loops[l].cancelled
    BY <1>1, <2>5 DEF Goroutines
  <2> QED BY <2>1, <2>2, <2>3, <2>4, <2>5, <2>6
<1>4. \A m \in Managers : /\ managers'[m].latest = managers[m].latest
                          /\ \/ managers'[m].running = managers[m].running
                             \/ ~managers'[m].running /\ m = loops[l].of /\ ~Live(l)'
  <2>1. CASE UNCHANGED managers
    BY <2>1
  <2>2. CASE RoundEnd(l)
    <3>1. PICK row \in {Ended(Of(l)), [Ended(Of(l)) EXCEPT !.running = FALSE]} :
            /\ Set(loops[l].of, row)
            /\ row # Ended(Of(l)) => Return(l)
      BY <2>2 DEF RoundEnd
    <3>2. Of(l) \in Rows
      BY <1>1, <1>2 DEF Of
    <3>3. row.latest = Of(l).latest /\ (row.running = Of(l).running \/ ~row.running)
      BY <3>2 DEF Ended, Rows
    <3>4. row.running = Of(l).running \/ row # Ended(Of(l))
      BY <3>2 DEF Ended, Rows
    <3>5. row # Ended(Of(l)) => ~Live(l)'
      BY <1>1, <3>1 DEF Return, NoGoroutine, Live
    <3>6. \A m \in Managers : managers'[m] = IF m = loops[l].of THEN row ELSE managers[m]
      BY <1>1, <3>1 DEF Set
    <3> QED BY <1>2, <3>3, <3>4, <3>5, <3>6 DEF Of
  <2>3. CASE NextRound(l)
    <3> DEFINE row == Opened(Of(l), Of(l).round + 1)
    <3>1. Of(l) \in Rows
      BY <1>1, <1>2 DEF Of
    <3>2. row.latest = Of(l).latest /\ row.running = Of(l).running
      BY <3>1 DEF Opened, Rows
    <3>3. Set(loops[l].of, row)
      BY <2>3 DEF NextRound
    <3> HIDE DEF row
    <3> QED BY <1>1, <1>2, <3>2, <3>3 DEF Set, Of
  <2> QED BY <2>1, <2>2, <2>3 DEF Loop, LoopBegins, SelectFired, Cancelled, WaitOver,
                                  BreakCheck, BreakPoll
<1>5. SUFFICES ASSUME ~overlap PROVE (OneAtATime /\ HoldsCurrent /\ SoleLoop)'
  BY <1>1 DEF TurnInv
<1>6. OneAtATime /\ HoldsCurrent /\ SoleLoop
  BY <1>5 DEF TurnInv
<1>7. OneAtATime'
  BY <1>1, <1>6 DEF OneAtATime, Busy, Reached
<1>8. HoldsCurrent'
  <2>1. \A q \in Requests : Reached(q, "delete") => current \in Managers
    BY <1>6 DEF HoldsCurrent, Reached, Inv, OwnerInv, Mine
  <2> QED BY <1>1, <1>4, <1>6, <2>1 DEF HoldsCurrent, Reached, Mine
<1>9. SoleLoop'
  <2> SUFFICES ASSUME NEW x \in Loops, Live(x)'
               PROVE  /\ ~loops'[x].cancelled =>
                           /\ loops'[x].of = current /\ managers'[current].latest = x
                           /\ managers'[current].running
                      /\ loops'[x].cancelled /\ loops'[x].of = current =>
                           \E q \in Requests : Reached(q, "delete")
    BY <1>1 DEF SoleLoop, Reached
  <2>1. Live(x) /\ loops'[x].of = loops[x].of /\ loops'[x].cancelled = loops[x].cancelled
    BY <1>2, <1>3 DEF Live
  <2>2. loops[x].of \in Managers
    BY <2>1 DEF Inv, OwnerInv
  <2>3. ASSUME ~loops[x].cancelled PROVE managers'[current].running
    <3>1. loops[x].of = current /\ managers[current].latest = x /\ managers[current].running
      BY <1>6, <2>1, <2>3 DEF SoleLoop
    <3>2. ASSUME ~managers'[current].running PROVE FALSE
      <4>1. current = loops[l].of /\ ~Live(l)'
        BY <1>4, <2>2, <3>1, <3>2
      <4>2. l # x
        BY <4>1
      <4>3. loops[l].cancelled
        BY <1>2, <1>6, <3>1, <4>2 DEF SoleLoop
      <4>4. PICK q \in Requests : Reached(q, "delete")
        BY <1>2, <1>6, <4>1, <4>3 DEF SoleLoop
      <4> QED BY <1>6, <3>1, <4>4 DEF HoldsCurrent
    <3> QED BY <3>2
  <2> QED BY <1>4, <1>6, <2>1, <2>2, <2>3 DEF SoleLoop
<1> QED BY <1>7, <1>8, <1>9

LEMMA TickTurn == ASSUME Inv, TurnInv, Tick PROVE TurnInv'
<1>1. UNCHANGED <<current, requests, overlap>>
  BY DEF Tick, SameRequests
<1>2. \A l \in Loops : /\ loops'[l].of = loops[l].of /\ loops'[l].at = loops[l].at
                       /\ loops'[l].cancelled = loops[l].cancelled
  <2>1. \A l \in Loops : loops[l] \in Goroutines
                         /\ loops'[l] = [loops[l] EXCEPT !.clock = Aged(l)]
    BY DEF Tick, Inv, TypeOK, LoopsOK
  <2> QED BY <2>1 DEF Goroutines
<1>3. \A m \in Managers : /\ managers'[m].running = managers[m].running
                          /\ managers'[m].latest = managers[m].latest
  <2> TAKE m \in Managers
  <2>1. managers[m] \in Rows
    BY DEF Inv, TypeOK, ManagersOK
  <2>2. managers'[m] \in {managers[m], [managers[m] EXCEPT !.elapsed = managers[m].elapsed + 1]}
    BY DEF Tick
  <2> QED BY <2>1, <2>2 DEF Rows
<1>4. SUFFICES ASSUME ~overlap PROVE (OneAtATime /\ HoldsCurrent /\ SoleLoop)'
  BY <1>1 DEF TurnInv
<1>5. OneAtATime /\ HoldsCurrent /\ SoleLoop
  BY <1>4 DEF TurnInv
<1>6. \A q \in Requests : Reached(q, "delete") => current \in Managers
  BY <1>5 DEF HoldsCurrent, Reached, Inv, OwnerInv, Mine
<1>7. \A l \in Loops : Live(l) => loops[l].of \in Managers
  BY DEF Inv, OwnerInv
<1>8. HoldsCurrent'
  BY <1>1, <1>3, <1>5, <1>6 DEF HoldsCurrent, Reached, Mine
<1>9. SoleLoop'
  BY <1>1, <1>2, <1>3, <1>5, <1>7 DEF SoleLoop, Live, Reached
<1> QED BY <1>1, <1>5, <1>8, <1>9 DEF OneAtATime, Busy, Reached

\* A step of the only request under way.
LEMMA RequestTurn == ASSUME Inv, TurnInv, NEW q \in Requests, Request(q) PROVE TurnInv'
<1> SUFFICES ASSUME ~overlap' PROVE (OneAtATime /\ HoldsCurrent /\ SoleLoop)'
  BY DEF TurnInv
<1>1. ~overlap /\ \A p \in Requests : p # q => ~Busy(p)
  <2>1. CASE Fetch(q)
    BY <2>1 DEF Fetch, Busy
  <2>2. CASE ~Fetch(q)
    <3>1. ~overlap /\ Busy(q)
      BY <2>2 DEF Request, Create, CreateFails, Update, Act, CheckStop, DoStop, Forget,
                  Reached, Busy
    <3> QED BY <3>1 DEF TurnInv, OneAtATime
  <2> QED BY <2>1, <2>2
<1>2. OneAtATime /\ HoldsCurrent /\ SoleLoop
  BY <1>1 DEF TurnInv
<1>3. /\ requests \in [Requests -> [at : Stages, manager : Managers \cup {NoManager}]]
      /\ managers \in [Managers -> Rows] /\ loops \in [Loops -> Goroutines]
  BY DEF Inv, TypeOK, RequestsOK, ManagersOK, LoopsOK
<1>4. \A p \in Requests : p # q => requests'[p] = requests[p] /\ requests[p].at = "idle"
  <2>1. UNCHANGED requests \/ Done(q) \/ (\E m : Hold(q, m)) \/ (\E t : Advance(q, t))
    BY Zenon DEF Request, Fetch, Create, CreateFails, Update, Act, CheckStop, DoStop, Forget
  <2> QED BY <1>1, <1>3, <2>1 DEF Done, Hold, Advance, Busy, Reached
<1>5. OneAtATime'
  BY <1>4 DEF OneAtATime, Busy, Reached
<1>6. \A l \in Loops : Live(l) => loops[l].of \in Managers
  BY DEF Inv, OwnerInv
<1>7. /\ requests[q].at \in {"act", "stopping", "delete"} =>
           Mine(q) = current /\ current \in Managers
      /\ ~Reached(q, "delete") => \A p \in Requests : ~Reached(p, "delete")
  BY <1>2, <1>4 DEF HoldsCurrent, Inv, OwnerInv, Mine, Reached
\* What is left to show of the request itself.
<1>8. ASSUME requests'[q].at \in {"act", "stopping", "delete"} => requests'[q].manager = current',
             requests'[q].at = "create" => current' = NoManager,
             requests'[q].at = "delete" => ~managers'[current'].running
      PROVE  HoldsCurrent'
  BY <1>4, <1>8 DEF HoldsCurrent, Reached, Mine
<1>9. CASE Fetch(q)
  <2>1. UNCHANGED <<managers, loops, current>> /\ ~Reached(q, "delete")
    BY <1>9 DEF Fetch, Reached
  <2>2. SoleLoop'
    BY <1>2, <1>7, <2>1 DEF SoleLoop, Live
  <2>3. CASE current = NoManager
    <3>1. requests'[q].at = "create"
      BY <1>3, <1>9, <2>3 DEF Fetch, Advance
    <3> QED BY <1>5, <1>8, <2>1, <2>2, <2>3, <3>1
  <2>4. CASE current # NoManager
    <3>1. requests'[q].at = "act" /\ requests'[q].manager = current
      BY <1>3, <1>9, <2>4 DEF Fetch, Hold
    <3> QED BY <1>5, <1>8, <2>1, <2>2, <3>1
  <2> QED BY <2>3, <2>4
<1>10. CASE Create(q)
  <2>1. PICK m \in Managers, r \in RoundDurations, b \in BreakDurations :
          Unused(m) /\ Set(m, Fresh(r, b)) /\ current' = m /\ Hold(q, m)
    BY <1>10 DEF Create
  <2>2. UNCHANGED loops /\ Reached(q, "create")
    BY <1>10 DEF Create
  <2>3. current = NoManager
    BY <1>2, <2>2 DEF HoldsCurrent
  <2>4. requests'[q].at = "act" /\ requests'[q].manager = m
    BY <1>3, <2>1 DEF Hold
  <2>5. SoleLoop'
    <3>1. \A l \in Loops : Live(l) => loops[l].cancelled /\ loops[l].of # m
      BY <1>2, <1>6, <2>1, <2>3, ManagerAssumption DEF SoleLoop, Unused
    <3> QED BY <2>1, <2>2, <3>1 DEF SoleLoop, Live
  <2> QED BY <1>5, <1>8, <2>1, <2>4, <2>5
<1>11. CASE CreateFails(q)
  <2>1. UNCHANGED <<managers, loops, current>> /\ ~Reached(q, "delete")
    BY <1>11 DEF CreateFails, Reached
  <2>2. requests'[q].at = "idle"
    BY <1>3, <1>11 DEF CreateFails, Done, Idle
  <2>3. SoleLoop'
    BY <1>2, <1>7, <2>1 DEF SoleLoop, Live
  <2> QED BY <1>5, <1>8, <2>2, <2>3
\* A step that leaves the goroutines and what managers say of them alone.
<1>12. ASSUME UNCHANGED <<loops, current>>, Reached(q, "act"),
              \A m \in Managers : /\ managers'[m].running = managers[m].running
                                  /\ managers'[m].latest = managers[m].latest
       PROVE  SoleLoop'
  BY <1>2, <1>6, <1>7, <1>12 DEF SoleLoop, Live, Reached
<1>13. CASE Update(q)
  <2>1. PICK r \in RoundDurations, b \in BreakDurations : UpdateDurations(Mine(q), r, b)
    BY <1>13 DEF Update
  <2> DEFINE row == [managers[Mine(q)] EXCEPT !.roundDuration = r, !.breakDuration = b]
  <2>2. UNCHANGED <<loops, current, requests>> /\ Reached(q, "act") /\ Mine(q) \in Managers
    BY <1>7, <1>13 DEF Update, Reached
  <2>3. row.running = managers[Mine(q)].running /\ row.latest = managers[Mine(q)].latest
    BY <1>3, <2>2 DEF Rows
  <2>4. managers' = [managers EXCEPT ![Mine(q)] = row]
    BY <2>1 DEF UpdateDurations, Set
  <2> HIDE DEF row
  <2>5. SoleLoop'
    BY <1>3, <1>12, <2>2, <2>3, <2>4
  <2> QED BY <1>5, <1>7, <1>8, <2>2, <2>5 DEF Reached, Mine
<1>14. CASE Act(q)
  <2>1. Mine(q) = current /\ current \in Managers /\ Reached(q, "act") /\ UNCHANGED current
    BY <1>7, <1>14 DEF Act, Reached
  <2>2. requests'[q].at = "idle"
    BY <1>3, <1>14 DEF Act, Done, Idle
  <2>3. SoleLoop'
    <3>1. CASE Pause(current) \/ Resume(current)
      <4>1. UNCHANGED loops
        BY <3>1 DEF Pause, Resume
      <4>2. PICK p \in BOOLEAN :
              \/ UNCHANGED managers
              \/ managers' = [managers EXCEPT ![current] =
                               [managers[current] EXCEPT !.paused = p, !.crossed = 0]]
        BY <3>1 DEF Pause, Resume, Set
      <4> DEFINE row == [managers[current] EXCEPT !.paused = p, !.crossed = 0]
      <4>3. row.running = managers[current].running /\ row.latest = managers[current].latest
        BY <1>3, <2>1 DEF Rows
      <4>4. UNCHANGED managers \/ managers' = [managers EXCEPT ![current] = row]
        BY <4>2
      <4> HIDE DEF row
      <4> QED BY <1>3, <1>12, <2>1, <4>1, <4>3, <4>4
    <3>2. CASE Start(current) /\ managers[current].running
      <4>1. UNCHANGED <<managers, loops>>
        BY <3>2 DEF Start
      <4> QED BY <1>12, <2>1, <4>1
    <3>3. CASE Start(current) /\ ~managers[current].running
      <4>1. \A l \in Loops : Live(l) => loops[l].cancelled /\ loops[l].of # current
        BY <1>2, <1>7, <2>1, <3>3 DEF SoleLoop, Reached
      <4>2. CASE UNCHANGED loops
        BY <2>1, <4>1, <4>2 DEF SoleLoop, Live
      <4>3. CASE ~UNCHANGED loops
        <5>1. PICK l \in Loops :
                /\ Set(current, Opened([managers[current] EXCEPT !.running = TRUE,
                                         !.paused = FALSE, !.latest = l], 1))
                /\ loops' = [loops EXCEPT ![l] =
                              [NoGoroutine EXCEPT !.of = current, !.at = "new"]]
          BY <3>3, <4>3 DEF Start
        <5> DEFINE row == Opened([managers[current] EXCEPT !.running = TRUE,
                                  !.paused = FALSE, !.latest = l], 1)
                   g == [NoGoroutine EXCEPT !.of = current, !.at = "new"]
        <5>2. row.running /\ row.latest = l
          <6>1. managers[current] \in Rows
            BY <1>3, <2>1
          <6> QED BY <6>1 DEF Opened, Rows
        <5>3. g.of = current /\ ~g.cancelled
          BY DEF NoGoroutine
        <5>4. /\ managers' = [managers EXCEPT ![current] = row]
              /\ loops' = [loops EXCEPT ![l] = g]
          BY <5>1 DEF Set
        <5> HIDE DEF row, g
        <5>5. /\ managers'[current] = row
              /\ \A x \in Loops : loops'[x] = IF x = l THEN g ELSE loops[x]
          BY <1>3, <2>1, <5>4
        <5> QED BY <2>1, <4>1, <5>2, <5>3, <5>5 DEF SoleLoop, Live
      <4> QED BY <4>2, <4>3
    <3> QED BY <1>14, <2>1, <3>1, <3>2, <3>3 DEF Act
  <2> QED BY <1>5, <1>8, <2>2, <2>3
<1>15. CASE CheckStop(q)
  <2>1. UNCHANGED <<managers, loops, current>> /\ Reached(q, "act")
    BY <1>15 DEF CheckStop
  <2>2. requests'[q].at = "idle"
        \/ (requests'[q].at = "stopping" /\ requests'[q].manager = requests[q].manager)
    BY <1>3, <1>15 DEF CheckStop, Advance, Done, Idle
  <2>3. SoleLoop'
    BY <1>12, <2>1
  <2> QED BY <1>5, <1>7, <1>8, <2>1, <2>2, <2>3 DEF Reached, Mine
<1>16. CASE DoStop(q)
  <2>1. /\ Mine(q) = current /\ current \in Managers /\ Stop(current)
        /\ Advance(q, "delete") /\ UNCHANGED current
    BY <1>7, <1>16 DEF DoStop, Reached
  <2>2. requests'[q].at = "delete" /\ requests'[q].manager = current
    BY <1>3, <2>1 DEF Advance, Mine
  <2>3. ~managers'[current].running
    <3> DEFINE row == [managers[current] EXCEPT !.running = FALSE, !.paused = FALSE, !.crossed = 0]
    <3>1. ~row.running
      BY <1>3, <2>1 DEF Rows
    <3>2. managers' = [managers EXCEPT ![current] = row]
      BY <2>1 DEF Stop, Set
    <3> HIDE DEF row
    <3> QED BY <1>3, <2>1, <3>1, <3>2
  <2>4. SoleLoop'
    <3>1. \A l \in Loops : /\ loops[l] \in Goroutines
            /\ loops'[l] = IF l = managers[current].latest /\ loops[l].of = current
                           THEN [loops[l] EXCEPT !.cancelled = TRUE] ELSE loops[l]
      BY <1>3, <2>1 DEF Stop
    <3>2. \A l \in Loops : Live(l)' => loops'[l].cancelled
      <4> TAKE l \in Loops
      <4> HAVE Live(l)'
      <4>1. CASE loops[l].cancelled
        BY <3>1, <4>1 DEF Goroutines
      <4>2. CASE ~loops[l].cancelled
        <5>1. loops[l].at = loops'[l].at
          BY <3>1 DEF Goroutines
        <5>2. l = managers[current].latest /\ loops[l].of = current
          BY <1>2, <4>2, <5>1 DEF SoleLoop, Live
        <5>3. loops'[l] = [loops[l] EXCEPT !.cancelled = TRUE]
          BY <3>1, <5>2
        <5> QED BY <3>1, <5>3 DEF Goroutines
      <4> QED BY <4>1, <4>2
    <3> QED BY <2>2, <3>2 DEF SoleLoop, Reached
  <2> QED BY <1>5, <1>8, <2>1, <2>2, <2>3, <2>4
<1>17. CASE Forget(q)
  <2>1. /\ current' = NoManager /\ UNCHANGED <<managers, loops>> /\ Reached(q, "delete")
    BY <1>17 DEF Forget
  <2>2. requests'[q].at = "idle"
    BY <1>3, <1>17 DEF Forget, Done, Idle
  <2>3. \A l \in Loops : Live(l) => loops[l].cancelled /\ loops[l].of # NoManager
    BY <1>2, <1>6, <2>1, ManagerAssumption DEF HoldsCurrent, SoleLoop
  <2>4. SoleLoop'
    BY <2>1, <2>3 DEF SoleLoop, Live
  <2> QED BY <1>5, <1>8, <2>2, <2>4
<1> QED BY <1>9, <1>10, <1>11, <1>13, <1>14, <1>15, <1>16, <1>17 DEF Request

\* As long as requests come one at a time, no goroutine escapes: the only one
\* that nobody cancelled is that of the running manager in the map.
THEOREM RequestsInTurnKeepOneLoop == Spec => []OneLoopInTurn
<1>1. Init => TurnInv
  BY DEF Init, TurnInv, OneAtATime, HoldsCurrent, SoleLoop, Busy, Reached, Live, Idle, NoGoroutine
<1>2. Inv /\ TurnInv /\ [Next]_vars => TurnInv'
  <2> SUFFICES ASSUME Inv, TurnInv, [Next]_vars PROVE TurnInv'
    OBVIOUS
  <2>1. CASE UNCHANGED vars
    BY <2>1 DEF vars, TurnInv, OneAtATime, HoldsCurrent, SoleLoop, Busy, Reached, Live, Mine
  <2> QED BY <2>1, LoopTurn, TickTurn, RequestTurn DEF Next
<1>3. TurnInv => OneLoopInTurn
  BY DEF TurnInv, SoleLoop, OneLoopInTurn
<1> QED BY <1>1, <1>2, <1>3, InitInv, NextInv, PTL DEF Spec
-----------------------------------------------------------------------------
\* While requests come one at a time, a manager has one goroutine: it alone may
\* overtake a pause, and it is never one that was cancelled.  A goroutine in a
\* break has rounds left.
Breaks == {"break", "breakWait", "poll", "next"}
Plays(l, m) == Live(l) /\ loops[l].of = m
Quiet(m) ==
  /\ managers[m].round <= TotalRounds
  /\ managers[m].paused => managers[m].crossed <= 1
  /\ \A k, l \in Loops : Plays(k, m) /\ Plays(l, m) => k = l
  /\ \A l \in Loops : Plays(l, m) =>
       /\ managers[m].paused =>
            ~loops[l].cancelled /\ (loops[l].at \in {"end", "next"} => managers[m].crossed = 0)
       /\ loops[l].at \in Breaks => managers[m].round < TotalRounds
QuietInv == ~overlap => \A m \in Managers : Quiet(m)

\* What a step leaves alone stays quiet.
LEMMA Untouched ==
  ASSUME NEW m \in Managers, Quiet(m), managers'[m] = managers[m],
         \A x \in Loops : Plays(x, m)' => loops'[x] = loops[x]
  PROVE  Quiet(m)'
BY DEF Quiet, Plays, Live

\* A step of a goroutine: it passes an end or a start of a round on its own
\* manager only, and then waits for the resume.
LEMMA LoopQuiet == ASSUME Inv, Inv', QuietInv, NEW l \in Loops, Loop(l) PROVE QuietInv'
<1>1. /\ managers \in [Managers -> Rows] /\ loops \in [Loops -> Goroutines]
      /\ UNCHANGED <<current, requests, overlap>>
  BY DEF Inv, TypeOK, ManagersOK, LoopsOK, Loop, LoopBegins, SelectFired, Cancelled, WaitOver,
         RoundEnd, BreakCheck, BreakPoll, NextRound, SameRequests
<1>2. Live(l) /\ loops[l].of \in Managers
  <2>1. loops[l].at # "gone"
    BY DEF Loop, LoopBegins, SelectFired, Cancelled, WaitOver, RoundEnd, BreakCheck,
           BreakPoll, NextRound, At
  <2> QED BY <2>1 DEF Live, Inv, OwnerInv
<1>0. PICK m \in Managers : m = loops[l].of
  BY <1>2
<1>3. /\ managers[m] \in Rows /\ Of(l) = managers[m] /\ loops[l] \in Goroutines
  BY <1>0, <1>1 DEF Of
<1> SUFFICES ASSUME ~overlap PROVE (\A k \in Managers : Quiet(k))'
  BY <1>1 DEF QuietInv
<1>4. \A k \in Managers : Quiet(k)
  BY DEF QuietInv
<1>5. /\ managers[m].paused =>
           ~loops[l].cancelled /\ (loops[l].at \in {"end", "next"} => managers[m].crossed = 0)
      /\ managers[m].paused => managers[m].crossed <= 1
      /\ managers[m].round <= TotalRounds
      /\ loops[l].at \in Breaks => managers[m].round < TotalRounds
  BY <1>0, <1>2, <1>3, <1>4 DEF Quiet, Plays
\* What is left to show of the goroutine and its manager.
<1>6. ASSUME NEW g, loops' = [loops EXCEPT ![l] = g], g.at # "gone" => g.of = m,
             NEW row, managers' = [managers EXCEPT ![m] = row],
             row.round <= TotalRounds,
             row.paused => row.crossed <= 1,
             g.at # "gone" =>
               /\ row.paused => ~g.cancelled /\ (g.at \in {"end", "next"} => row.crossed = 0)
               /\ g.at \in Breaks => row.round < TotalRounds
      PROVE  (\A k \in Managers : Quiet(k))'
  <2>1. /\ managers'[m] = row /\ \A k \in Managers : k # m => managers'[k] = managers[k]
        /\ \A x \in Loops : loops'[x] = IF x = l THEN g ELSE loops[x]
    BY <1>1, <1>2, <1>6
  <2>2. \A x \in Loops : Plays(x, m)' => x = l /\ loops'[x] = g /\ g.at # "gone"
    <3> SUFFICES ASSUME NEW x \in Loops, Plays(x, m)'
                 PROVE  x = l /\ loops'[x] = g /\ g.at # "gone"
      OBVIOUS
    <3>1. loops'[x].at # "gone" /\ loops'[x].of = m
      BY DEF Plays, Live
    <3>2. CASE x # l
      BY <1>0, <1>2, <1>4, <2>1, <3>1, <3>2 DEF Quiet, Plays, Live
    <3> QED BY <2>1, <3>1, <3>2
  <2>3. ASSUME NEW k \in Managers, k # m PROVE Quiet(k)'
    <3>1. \A x \in Loops : Plays(x, k)' => loops'[x] = loops[x]
      BY <1>6, <2>1, <2>3 DEF Plays, Live
    <3> QED BY <1>4, <2>1, <2>3, <3>1, Untouched
  <2>4. Quiet(m)'
    BY <1>6, <2>1, <2>2 DEF Quiet
  <2> QED BY <2>3, <2>4
\* The same for a step that only moves the goroutine to a place.
<1>7. ASSUME UNCHANGED managers, NEW place, place # "gone",
             \/ Move(l, place) \/ \E time : MoveWith(l, place, time)
             \/ place = "select" /\ \E time : SetTimer(l, time),
             place \in {"end", "next"} => ~managers[m].paused \/ managers[m].crossed = 0,
             place \in Breaks => loops[l].at \in Breaks
      PROVE  (\A k \in Managers : Quiet(k))'
  <2>1. PICK g : /\ loops' = [loops EXCEPT ![l] = g] /\ g.at = place /\ g.of = m
                 /\ g.cancelled = loops[l].cancelled
    <3>1. CASE Move(l, place)
      <4> DEFINE g == [loops[l] EXCEPT !.at = place]
      <4>1. g.at = place /\ g.of = m /\ g.cancelled = loops[l].cancelled
        BY <1>0, <1>3 DEF Goroutines
      <4>2. loops' = [loops EXCEPT ![l] = g]
        BY <3>1 DEF Move
      <4> HIDE DEF g
      <4> QED BY <4>1, <4>2
    <3>2. CASE \E time : MoveWith(l, place, time)
      <4>0. PICK time : MoveWith(l, place, time)
        BY <3>2
      <4> DEFINE g == [loops[l] EXCEPT !.at = place, !.clock = time]
      <4>1. g.at = place /\ g.of = m /\ g.cancelled = loops[l].cancelled
        BY <1>0, <1>3 DEF Goroutines
      <4>2. loops' = [loops EXCEPT ![l] = g]
        BY <4>0 DEF MoveWith
      <4> HIDE DEF g
      <4> QED BY <4>1, <4>2
    <3>3. CASE place = "select" /\ \E time : SetTimer(l, time)
      <4>0. PICK time : SetTimer(l, time)
        BY <3>3
      <4> DEFINE g == [loops[l] EXCEPT !.at = "select", !.clock = time,
                                       !.instant = (Of(l).roundDuration = 0)]
      <4>1. g.at = place /\ g.of = m /\ g.cancelled = loops[l].cancelled
        BY <1>0, <1>3, <3>3 DEF Goroutines
      <4>2. loops' = [loops EXCEPT ![l] = g]
        BY <3>3, <4>0 DEF SetTimer
      <4> HIDE DEF g
      <4> QED BY <4>1, <4>2
    <3> QED BY <1>7, <3>1, <3>2, <3>3
  <2>2. managers' = [managers EXCEPT ![m] = managers[m]]
    BY <1>1, <1>7
  <2> QED BY <1>5, <1>6, <1>7, <2>1, <2>2
<1>9. ASSUME Return(l), NEW row, managers' = [managers EXCEPT ![m] = row],
             row.round <= TotalRounds, row.paused => row.crossed <= 1
      PROVE  (\A k \in Managers : Quiet(k))'
  <2>1. NoGoroutine.at = "gone"
    BY DEF NoGoroutine
  <2> QED BY <1>6, <1>9, <2>1 DEF Return
<1>10. CASE LoopBegins(l)
  BY <1>7, <1>10 DEF LoopBegins, Breaks
<1>11. CASE SelectFired(l)
  BY <1>7, <1>11 DEF SelectFired, Breaks
<1>12. CASE Cancelled(l)
  BY <1>1, <1>5, <1>9, <1>12 DEF Cancelled
<1>13. CASE WaitOver(l)
  <2>1. ~managers[m].paused /\ UNCHANGED managers
    BY <1>3, <1>5, <1>13 DEF WaitOver
  <2>2. CASE At(l, "gate")
    BY <1>7, <1>13, <2>1, <2>2 DEF WaitOver, Breaks
  <2>3. CASE ~At(l, "gate")
    <3>1. MoveWith(l, "break", 0) /\ loops[l].at = "breakWait"
      BY <1>13, <2>3 DEF WaitOver, At
    <3> QED BY <1>7, <2>1, <3>1 DEF Breaks
  <2> QED BY <2>2, <2>3
<1>14. CASE BreakCheck(l)
  <2>1. PICK place \in {"breakWait", "next", "poll"} :
          Move(l, place) /\ (place = "next" => ~managers[m].paused)
    BY <1>0, <1>3, <1>14 DEF BreakCheck
  <2> QED BY <1>7, <1>14, <2>1 DEF BreakCheck, Breaks, At
<1>15. CASE BreakPoll(l)
  BY <1>7, <1>15 DEF BreakPoll, Breaks, At
<1>16. CASE RoundEnd(l)
  <2> DEFINE row == Ended(managers[m])
  <2>1. row.round = managers[m].round /\ row.paused = managers[m].paused
    BY <1>3 DEF Ended, Rows
  <2>2. row.paused => row.crossed <= 1
    <3>1. loops[l].at = "end"
      BY <1>16 DEF RoundEnd, At
    <3> QED BY <1>3, <1>5, <3>1 DEF Ended, Rows, Crossing
  <2>3. CASE Of(l).round >= TotalRounds
    <3>1. Return(l) /\ managers' = [managers EXCEPT ![m] = [row EXCEPT !.running = FALSE]]
      BY <1>0, <1>3, <1>16, <2>3 DEF RoundEnd, Set
    <3>2. row \in Rows
      <4>1. Crossing(managers[m]) \in Nat
        BY <1>3 DEF Crossing, Rows
      <4> QED BY <1>3, <4>1 DEF Ended, Rows
    <3>3. /\ [row EXCEPT !.running = FALSE].round = row.round
          /\ [row EXCEPT !.running = FALSE].paused = row.paused
          /\ [row EXCEPT !.running = FALSE].crossed = row.crossed
      BY <3>2 DEF Rows
    <3> HIDE DEF row
    <3> QED BY <1>5, <1>9, <2>1, <2>2, <3>1, <3>3
  <2>4. CASE ~(Of(l).round >= TotalRounds)
    <3> DEFINE g == [loops[l] EXCEPT !.at = "break", !.clock = 0, !.instant = FALSE,
                                     !.late = Lateness(l)]
    <3>1. g.at = "break" /\ g.of = m /\ g.cancelled = loops[l].cancelled
      BY <1>0, <1>3 DEF Goroutines
    <3>2. loops' = [loops EXCEPT ![l] = g] /\ managers' = [managers EXCEPT ![m] = row]
      BY <1>0, <1>3, <1>16, <2>4 DEF RoundEnd, Set
    <3>3. managers[m].round < TotalRounds
      BY <1>3, <2>4, ManagerAssumption DEF Rows
    <3> HIDE DEF g, row
    <3> QED BY <1>5, <1>6, <2>1, <2>2, <3>1, <3>2, <3>3
  <2> QED BY <2>3, <2>4
<1>17. CASE NextRound(l)
  <2> DEFINE row == Opened(managers[m], managers[m].round + 1)
             g == [loops[l] EXCEPT !.at = "select", !.clock = managers[m].roundDuration,
                                   !.instant = (managers[m].roundDuration = 0)]
  <2>0. loops[l].at = "next"
    BY <1>17 DEF NextRound, At
  <2>1. row.round = managers[m].round + 1 /\ row.paused = managers[m].paused
    BY <1>3 DEF Opened, Rows
  <2>2. row.paused => row.crossed <= 1
    BY <1>3, <1>5, <2>0 DEF Opened, Rows, Crossing
  <2>3. row.round <= TotalRounds
    BY <1>3, <1>5, <2>0, <2>1, ManagerAssumption DEF Breaks, Rows
  <2>4. g.at = "select" /\ g.of = m /\ g.cancelled = loops[l].cancelled
    BY <1>0, <1>3 DEF Goroutines
  <2>5. loops' = [loops EXCEPT ![l] = g] /\ managers' = [managers EXCEPT ![m] = row]
    BY <1>0, <1>3, <1>17 DEF NextRound, Set, SetTimer
  <2> HIDE DEF g, row
  <2> QED BY <1>5, <1>6, <2>1, <2>2, <2>3, <2>4, <2>5 DEF Breaks
<1> QED BY <1>10, <1>11, <1>12, <1>13, <1>14, <1>15, <1>16, <1>17 DEF Loop

\* A tick moves the clocks and the elapsed times only.
LEMMA TickQuiet == ASSUME Inv, QuietInv, Tick PROVE QuietInv'
<1>1. managers \in [Managers -> Rows] /\ loops \in [Loops -> Goroutines] /\ UNCHANGED overlap
  BY DEF Inv, TypeOK, ManagersOK, LoopsOK, Tick, SameRequests
<1>2. \A x \in Loops : /\ loops'[x].at = loops[x].at /\ loops'[x].of = loops[x].of
                       /\ loops'[x].cancelled = loops[x].cancelled
  <2> TAKE x \in Loops
  <2>1. loops[x] \in Goroutines /\ loops'[x] = [loops[x] EXCEPT !.clock = Aged(x)]
    BY <1>1 DEF Tick
  <2> QED BY <2>1 DEF Goroutines
<1>3. \A m \in Managers : /\ managers'[m].paused = managers[m].paused
                          /\ managers'[m].round = managers[m].round
                          /\ managers'[m].crossed = managers[m].crossed
  <2> TAKE m \in Managers
  <2>1. managers[m] \in Rows
    BY <1>1
  <2>2. managers'[m] = managers[m] \/ managers'[m] = [managers[m] EXCEPT !.elapsed = @ + 1]
    BY DEF Tick
  <2> QED BY <2>1, <2>2 DEF Rows
<1> QED BY <1>1, <1>2, <1>3 DEF QuietInv, Quiet, Plays, Live

\* A step of a request that changes one manager and no goroutine of it: if it
\* pauses the manager, no goroutine of it is cancelled.
LEMMA OneRow ==
  ASSUME NEW m \in Managers, managers \in [Managers -> Rows],
         \A k \in Managers : Quiet(k), UNCHANGED loops,
         NEW row, managers' = [managers EXCEPT ![m] = row],
         row.round = managers[m].round,
         \/ ~row.paused
         \/ (row.paused => managers[m].paused) /\ row.crossed = managers[m].crossed
         \/ row.crossed = 0 /\ \A l \in Loops : Plays(l, m) => ~loops[l].cancelled
  PROVE  (\A k \in Managers : Quiet(k))'
<1>1. managers'[m] = row /\ \A k \in Managers : k # m => managers'[k] = managers[k]
  OBVIOUS
<1>2. ASSUME NEW k \in Managers, k # m PROVE Quiet(k)'
  BY <1>1, <1>2, Untouched DEF Plays, Live
<1>3. \A l \in Loops : Plays(l, m)' <=> Plays(l, m)
  BY DEF Plays, Live
<1>4. Quiet(m)'
  <2>1. row.paused => row.crossed <= 1
    <3>1. managers[m].paused => managers[m].crossed <= 1
      BY DEF Quiet
    <3>2. CASE row.crossed = 0
      BY <3>2
    <3>3. CASE (row.paused => managers[m].paused) /\ row.crossed = managers[m].crossed
      BY <3>1, <3>3
    <3> QED BY <3>2, <3>3
  <2>2. ASSUME NEW l \in Loops, Plays(l, m), row.paused
        PROVE  ~loops[l].cancelled /\ (loops[l].at \in {"end", "next"} => row.crossed = 0)
    BY <2>2 DEF Quiet
  <2>3. \A l \in Loops : Plays(l, m) /\ loops[l].at \in Breaks => row.round < TotalRounds
    BY DEF Quiet
  <2>4. \A k, l \in Loops : Plays(k, m) /\ Plays(l, m) => k = l
    BY DEF Quiet
  <2>5. row.round <= TotalRounds
    BY DEF Quiet
  <2> QED BY <1>1, <1>3, <2>1, <2>2, <2>3, <2>4, <2>5 DEF Quiet
<1> QED BY <1>2, <1>4

\* A step of a request: only a start makes a goroutine, and it finds none of its
\* manager left.
LEMMA RequestQuiet ==
  ASSUME Inv, TurnInv, QuietInv, NEW q \in Requests, Request(q) PROVE QuietInv'
<1> SUFFICES ASSUME ~overlap' PROVE (\A k \in Managers : Quiet(k))'
  BY DEF QuietInv
<1>1. ~overlap
  BY DEF Request, Fetch, Create, CreateFails, Update, Act, CheckStop, DoStop, Forget
<1>2. /\ \A k \in Managers : Quiet(k)
      /\ HoldsCurrent /\ SoleLoop
  BY <1>1 DEF QuietInv, TurnInv
<1>3. /\ managers \in [Managers -> Rows] /\ loops \in [Loops -> Goroutines]
  BY DEF Inv, TypeOK, ManagersOK, LoopsOK
<1>4. requests[q].at \in {"act", "stopping", "delete"} =>
        Mine(q) = current /\ current \in Managers
  BY <1>2 DEF HoldsCurrent, Inv, OwnerInv, Mine, Reached
<1>0. Reached(q, "act") => \A l \in Loops : Live(l) /\ loops[l].cancelled => loops[l].of # current
  <2>1. ~overlap /\ OneAtATime
    BY <1>1 DEF TurnInv
  <2>2. Reached(q, "act") => \A p \in Requests : ~Reached(p, "delete")
    BY <2>1 DEF OneAtATime, Busy, Reached
  <2> QED BY <1>2, <2>2 DEF SoleLoop
<1>5. CASE UNCHANGED <<managers, loops>>
  <2>1. \A k \in Managers : Quiet(k)' <=> Quiet(k)
    BY <1>5 DEF Quiet, Plays, Live
  <2> QED BY <1>2, <2>1
<1>6. CASE Create(q)
  <2>1. PICK m \in Managers, r \in RoundDurations, b \in BreakDurations :
          Unused(m) /\ Set(m, Fresh(r, b))
    BY <1>6 DEF Create
  <2>2. UNCHANGED loops /\ \A l \in Loops : ~Plays(l, m)
    BY <1>6, <2>1 DEF Create, Unused, Plays
  <2>3. managers' = [managers EXCEPT ![m] = Fresh(r, b)]
    BY <2>1 DEF Set
  <2>4. /\ managers'[m].round = 0 /\ ~managers'[m].paused
        /\ \A k \in Managers : k # m => managers'[k] = managers[k]
    BY <1>3, <2>3 DEF Fresh
  <2>5. Quiet(m)'
    BY <2>2, <2>4, ManagerAssumption DEF Quiet, Plays, Live
  <2>6. ASSUME NEW k \in Managers, k # m PROVE Quiet(k)'
    BY <1>2, <2>2, <2>4, <2>6, Untouched
  <2> QED BY <2>5, <2>6
<1>7. CASE Update(q)
  <2>0. PICK m \in Managers : Mine(q) = m /\ m = current
    BY <1>4, <1>7 DEF Update, Reached
  <2>1. PICK r \in RoundDurations, b \in BreakDurations : UpdateDurations(Mine(q), r, b)
    BY <1>7 DEF Update
  <2> DEFINE row == [managers[m] EXCEPT !.roundDuration = r, !.breakDuration = b]
  <2>2. UNCHANGED loops
    BY <1>7 DEF Update
  <2>3. /\ row.round = managers[m].round /\ row.paused = managers[m].paused
        /\ row.crossed = managers[m].crossed
    BY <1>3, <2>2 DEF Rows
  <2>4. managers' = [managers EXCEPT ![m] = row]
    BY <2>0, <2>1 DEF UpdateDurations, Set
  <2> HIDE DEF row
  <2> QED BY <1>2, <1>3, <2>2, <2>3, <2>4, OneRow
<1>8. CASE Act(q)
  <2>1. PICK m \in Managers : Mine(q) = m /\ m = current
    BY <1>4, <1>8 DEF Act, Reached
  <2>2. CASE Pause(m)
    <3>1. CASE managers[m].running /\ ~managers[m].paused
      <4> DEFINE row == [managers[m] EXCEPT !.paused = TRUE, !.crossed = 0]
      <4>1. managers' = [managers EXCEPT ![m] = row] /\ UNCHANGED loops
        BY <2>2, <3>1 DEF Pause, Set
      <4>2. row.round = managers[m].round /\ row.crossed = 0
        BY <1>3, <2>1 DEF Rows
      <4>3. \A l \in Loops : Plays(l, m) => ~loops[l].cancelled
        BY <1>0, <1>8, <2>1 DEF Act, Plays
      <4> HIDE DEF row
      <4> QED BY <1>2, <1>3, <2>1, <4>1, <4>2, <4>3, OneRow
    <3>2. CASE ~(managers[m].running /\ ~managers[m].paused)
      BY <1>5, <2>2, <3>2 DEF Pause
    <3> QED BY <3>1, <3>2
  <2>3. CASE Resume(m)
    <3>1. CASE managers[m].running /\ managers[m].paused
      <4> DEFINE row == [managers[m] EXCEPT !.paused = FALSE, !.crossed = 0]
      <4>1. managers' = [managers EXCEPT ![m] = row] /\ UNCHANGED loops
        BY <2>3, <3>1 DEF Resume, Set
      <4>2. row.round = managers[m].round /\ ~row.paused
        BY <1>3, <2>1 DEF Rows
      <4> HIDE DEF row
      <4> QED BY <1>2, <1>3, <2>1, <4>1, <4>2, OneRow
    <3>2. CASE ~(managers[m].running /\ managers[m].paused)
      BY <1>5, <2>3, <3>2 DEF Resume
    <3> QED BY <3>1, <3>2
  <2>4. CASE Start(m) /\ managers[m].running
    BY <1>5, <2>4 DEF Start
  <2>5. CASE Start(m) /\ ~managers[m].running
    <3>1. \A l \in Loops : ~Plays(l, m)
      BY <1>0, <1>2, <1>8, <2>1, <2>5 DEF Act, SoleLoop, Plays
    <3>2. PICK n \in Loops \cup {NoLoop} :
            /\ Set(m, Opened([managers[m] EXCEPT !.running = TRUE,
                                     !.paused = FALSE, !.latest = n], 1))
            /\ \/ UNCHANGED loops
               \/ /\ n \in Loops
                  /\ loops' = [loops EXCEPT ![n] =
                                 [NoGoroutine EXCEPT !.of = m, !.at = "new"]]
      BY <2>5 DEF Start
    <3> DEFINE row == Opened([managers[m] EXCEPT !.running = TRUE,
                              !.paused = FALSE, !.latest = n], 1)
               g == [NoGoroutine EXCEPT !.of = m, !.at = "new"]
    <3>3. row.round = 1 /\ ~row.paused
      <4>1. managers[m] \in Rows
        BY <1>3, <2>1
      <4> QED BY <4>1 DEF Opened, Rows
    <3>4. managers' = [managers EXCEPT ![m] = row]
      BY <3>2 DEF Set
    <3>5. UNCHANGED loops \/ (n \in Loops /\ loops' = [loops EXCEPT ![n] = g])
      BY <3>2
    <3>6. g.of = m /\ g.at = "new"
      BY DEF NoGoroutine
    <3> HIDE DEF row, g
    <3>7. managers'[m] = row /\ \A k \in Managers : k # m => managers'[k] = managers[k]
      BY <1>3, <2>1, <3>4
    <3>8. \A x \in Loops : loops'[x] = loops[x] \/ (x = n /\ loops'[x] = g)
      BY <1>3, <3>5
    <3>9. \A x \in Loops : Plays(x, m)' => x = n /\ loops'[x] = g
      BY <3>1, <3>8 DEF Plays, Live
    <3>10. Quiet(m)'
      BY <3>3, <3>6, <3>7, <3>9, ManagerAssumption DEF Quiet, Breaks
    <3>11. ASSUME NEW k \in Managers, k # m PROVE Quiet(k)'
      <4>1. \A x \in Loops : Plays(x, k)' => loops'[x] = loops[x]
        BY <3>6, <3>8, <3>11 DEF Plays
      <4> QED BY <1>2, <3>7, <3>11, <4>1, Untouched
    <3> QED BY <3>10, <3>11
  <2> QED BY <1>8, <2>1, <2>2, <2>3, <2>4, <2>5 DEF Act
<1>9. CASE DoStop(q)
  <2>1. PICK m \in Managers : Mine(q) = m /\ Stop(m)
    BY <1>4, <1>9 DEF DoStop, Reached
  <2> DEFINE row == [managers[m] EXCEPT !.running = FALSE, !.paused = FALSE, !.crossed = 0]
  <2>2. row.round = managers[m].round /\ ~row.paused
    BY <1>3, <2>1 DEF Rows
  <2>3. managers' = [managers EXCEPT ![m] = row]
    BY <2>1 DEF Stop, Set
  <2> HIDE DEF row
  <2>4. managers'[m] = row /\ \A k \in Managers : k # m => managers'[k] = managers[k]
    BY <1>3, <2>1, <2>3
  <2>5. ASSUME NEW x \in Loops
        PROVE  /\ loops'[x].at = loops[x].at /\ loops'[x].of = loops[x].of
               /\ loops[x].of # m => loops'[x] = loops[x]
    <3>1. /\ loops[x] \in Goroutines
          /\ loops'[x] = IF x = managers[m].latest /\ loops[x].of = m
                         THEN [loops[x] EXCEPT !.cancelled = TRUE] ELSE loops[x]
      BY <1>3, <2>1 DEF Stop
    <3> QED BY <3>1 DEF Goroutines
  <2>6. Quiet(m)'
    <3>1. \A x \in Loops : Plays(x, m)' <=> Plays(x, m)
      BY <2>5 DEF Plays, Live
    <3>2. Quiet(m)
      BY <1>2, <2>1
    <3> QED BY <2>2, <2>4, <2>5, <3>1, <3>2 DEF Quiet
  <2>7. ASSUME NEW k \in Managers, k # m PROVE Quiet(k)'
    <3>1. \A x \in Loops : Plays(x, k)' => loops'[x] = loops[x]
      BY <2>5, <2>7 DEF Plays
    <3> QED BY <1>2, <2>4, <2>7, <3>1, Untouched
  <2> QED BY <2>6, <2>7
<1>10. Fetch(q) \/ CreateFails(q) \/ CheckStop(q) \/ Forget(q) => UNCHANGED <<managers, loops>>
  BY DEF Fetch, CreateFails, CheckStop, Forget
<1> QED BY <1>5, <1>6, <1>7, <1>8, <1>9, <1>10 DEF Request

\* While requests come one at a time a manager stays quiet.
LEMMA AlwaysQuiet == Spec => [](Inv /\ TurnInv /\ QuietInv)
<1>1. Init => TurnInv /\ QuietInv
  <2>1. Init => TurnInv
    BY DEF Init, TurnInv, OneAtATime, HoldsCurrent, SoleLoop, Busy, Reached, Live, Idle, NoGoroutine
  <2>2. ASSUME Init, NEW m \in Managers PROVE Quiet(m)
    <3>1. managers[m].round = 0 /\ ~managers[m].paused
      BY <2>2 DEF Init, Fresh
    <3>2. \A l \in Loops : ~Plays(l, m)
      BY <2>2 DEF Init, NoGoroutine, Plays, Live
    <3> QED BY <3>1, <3>2, ManagerAssumption DEF Quiet
  <2> QED BY <2>1, <2>2 DEF QuietInv
<1>2. Inv /\ TurnInv /\ QuietInv /\ [Next]_vars => (TurnInv /\ QuietInv)'
  <2> SUFFICES ASSUME Inv, TurnInv, QuietInv, [Next]_vars PROVE (TurnInv /\ QuietInv)'
    OBVIOUS
  <2>1. Inv'
    BY NextInv
  <2>2. CASE UNCHANGED vars
    <3>1. TurnInv'
      BY <2>2 DEF vars, TurnInv, OneAtATime, HoldsCurrent, SoleLoop, Busy, Reached, Live, Mine
    <3>2. QuietInv'
      BY <2>2 DEF vars, QuietInv, Quiet, Plays, Live
    <3> QED BY <3>1, <3>2
  <2>3. CASE \E q \in Requests : Request(q)
    BY <2>3, RequestTurn, RequestQuiet
  <2>4. CASE \E l \in Loops : Loop(l)
    BY <2>1, <2>4, LoopTurn, LoopQuiet
  <2>5. CASE Tick
    BY <2>5, TickTurn, TickQuiet
  <2> QED BY <2>2, <2>3, <2>4, <2>5 DEF Next
<1> QED BY <1>1, <1>2, InitInv, NextInv, PTL DEF Spec

\* As long as requests come one at a time, one end or start of a round at most
\* passes a pause, whatever the goroutine was doing when it came.
THEOREM PauseOvertaken == Spec => []PauseOvertakenOnce
<1>1. QuietInv => PauseOvertakenOnce
  BY DEF QuietInv, Quiet, PauseOvertakenOnce
<1> QED BY <1>1, AlwaysQuiet, PTL

\* As long as requests come one at a time, no round is opened beyond the last.
THEOREM RoundsWithin == Spec => []RoundsWithinTotal
<1>1. QuietInv => RoundsWithinTotal
  BY DEF QuietInv, Quiet, RoundsWithinTotal
<1> QED BY <1>1, AlwaysQuiet, PTL
=============================================================================
