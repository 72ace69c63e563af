---------------------------- MODULE RoundManager ----------------------------
(***************************************************************************)
(* The RoundManagers of one game (internal/engine/round_manager.go) and    *)
(* the handler of POST /games/:id/rounds that makes, starts, pauses,       *)
(* resumes, stops and forgets them (internal/handler/round_handler.go).    *)
(*                                                                         *)
(* A step is one critical section of rm.mu, one select, or one access of a *)
(* request to the handler's map, which no lock protects.  Time is counted  *)
(* in ticks and passes while every goroutine waits.                        *)
(***************************************************************************)
EXTENDS Naturals

CONSTANTS Managers,        \* managers alive at the same time
          Loops,           \* goroutines of runScheduler alive at the same time
          Requests,        \* requests served at the same time
          NoManager, NoLoop,
          TotalRounds,     \* game.TotalRounds
          RoundDurations,  \* durations of a round and of a break, in ticks, that the
          BreakDurations   \* game or a request may set: one below zero acts as zero

ASSUME ManagerAssumption ==
  /\ NoManager \notin Managers /\ NoLoop \notin Loops
  /\ TotalRounds \in Nat \ {0}
  /\ RoundDurations \subseteq Nat
  /\ BreakDurations \subseteq Nat

VARIABLES
  managers,   \* the RoundManagers; latest is the goroutine rm.cancelFunc cancels
  loops,      \* the goroutines; clock is the time left of a round, spent of a break;
              \* instant, that the round they time was given none
  current,    \* rh.managers[gameID]
  requests,   \* the requests under way and the manager each has fetched
  overlap     \* history: two requests have been under way together

vars == <<managers, loops, current, requests, overlap>>

Places  == {"gone", "new", "select", "gate", "end", "break", "poll", "breakWait", "next"}
Stages  == {"idle", "create", "act", "stopping", "delete"}

Rows == [running : BOOLEAN, paused : BOOLEAN, round : Nat,
         roundDuration : RoundDurations, breakDuration : BreakDurations,
         elapsed : Nat, latest : Loops \cup {NoLoop}, crossed : Nat]
Goroutines == [of : Managers \cup {NoManager}, at : Places, clock : Nat,
               instant : BOOLEAN, cancelled : BOOLEAN, late : Nat]

ManagersOK == managers \in [Managers -> Rows]
LoopsOK == loops \in [Loops -> Goroutines]
RequestsOK ==
  requests \in [Requests -> [at : Stages, manager : Managers \cup {NoManager}]]
TypeOK ==
  /\ ManagersOK /\ LoopsOK /\ RequestsOK
  /\ current \in Managers \cup {NoManager} /\ overlap \in BOOLEAN

Live(l) == loops[l].at # "gone"
Of(l) == managers[loops[l].of]

\* NewRoundManager
Fresh(r, b) ==
  [running |-> FALSE, paused |-> FALSE, round |-> 0, roundDuration |-> r, breakDuration |-> b,
   elapsed |-> 0, latest |-> NoLoop, crossed |-> 0]

NoGoroutine ==
  [of |-> NoManager, at |-> "gone", clock |-> 0, instant |-> FALSE, cancelled |-> FALSE, late |-> 0]
Idle == [at |-> "idle", manager |-> NoManager]

Init ==
  /\ managers \in [Managers -> {Fresh(r, b) : r \in RoundDurations, b \in BreakDurations}]
  /\ loops = [l \in Loops |-> NoGoroutine]
  /\ current = NoManager
  /\ requests = [q \in Requests |-> Idle]
  /\ overlap = FALSE
-----------------------------------------------------------------------------
(***************************************************************************)
(* RoundManager: what its methods do to m, each under rm.mu.               *)
(***************************************************************************)
Set(m, fields) == managers' = [managers EXCEPT ![m] = fields]

\* A round that starts or ends while its manager is paused has overtaken the pause.
Crossing(row) == IF row.paused THEN row.crossed + 1 ELSE row.crossed

\* startRound: the number and the time of the round are set before the
\* callback, so also when the callback fails.
Opened(row, round) ==
  [row EXCEPT !.round = round, !.elapsed = 0, !.crossed = Crossing(row)]

\* Mutant: Start does not look whether the manager is running.
Start_Again(m) ==
  \/ \E l \in Loops :
       /\ ~Live(l)
       /\ Set(m, Opened([managers[m] EXCEPT !.running = TRUE, !.paused = FALSE, !.latest = l], 1))
       /\ loops' = [loops EXCEPT ![l] = [NoGoroutine EXCEPT !.of = m, !.at = "new"]]
  \/ /\ Set(m, Opened([managers[m] EXCEPT !.running = TRUE, !.paused = FALSE, !.latest = NoLoop], 1))
     /\ UNCHANGED loops

\* When the callback of round 1 fails, running stays set and nothing runs.
Start(m) ==
  \/ managers[m].running /\ UNCHANGED <<managers, loops>>
  \/ ~managers[m].running
     /\ \/ \E l \in Loops :
             /\ ~Live(l)
             /\ Set(m, Opened([managers[m] EXCEPT !.running = TRUE, !.paused = FALSE,
                                                  !.latest = l], 1))
             /\ loops' = [loops EXCEPT ![l] = [NoGoroutine EXCEPT !.of = m, !.at = "new"]]
        \/ /\ Set(m, Opened([managers[m] EXCEPT !.running = TRUE, !.paused = FALSE,
                                                !.latest = NoLoop], 1))
           /\ UNCHANGED loops

Pause(m) ==
  /\ IF managers[m].running /\ ~managers[m].paused
     THEN Set(m, [managers[m] EXCEPT !.paused = TRUE, !.crossed = 0])
     ELSE UNCHANGED managers
  /\ UNCHANGED loops

\* The start time is moved by the time of the pause: elapsed stands still.
Resume(m) ==
  /\ IF managers[m].running /\ managers[m].paused
     THEN Set(m, [managers[m] EXCEPT !.paused = FALSE, !.crossed = 0])
     ELSE UNCHANGED managers
  /\ UNCHANGED loops

Stop(m) ==
  /\ Set(m, [managers[m] EXCEPT !.running = FALSE, !.paused = FALSE, !.crossed = 0])
  /\ loops' = [l \in Loops |-> IF l = managers[m].latest /\ loops[l].of = m
                               THEN [loops[l] EXCEPT !.cancelled = TRUE] ELSE loops[l]]

UpdateDurations(m, r, b) ==
  Set(m, [managers[m] EXCEPT !.roundDuration = r, !.breakDuration = b])
-----------------------------------------------------------------------------
(***************************************************************************)
(* runScheduler                                                            *)
(***************************************************************************)
At(l, place) == loops[l].at = place
Move(l, place) == loops' = [loops EXCEPT ![l] = [loops[l] EXCEPT !.at = place]]
MoveWith(l, place, time) ==
  loops' = [loops EXCEPT ![l] = [loops[l] EXCEPT !.at = place, !.clock = time]]
\* A goroutine that has returned keeps nothing.
Return(l) == loops' = [loops EXCEPT ![l] = NoGoroutine]
SameRequests == UNCHANGED <<current, requests, overlap>>

\* calculateRemainingTime
Remaining(m) ==
  IF managers[m].elapsed < managers[m].roundDuration
  THEN managers[m].roundDuration - managers[m].elapsed ELSE 0

SetTimer(l, time) ==
  loops' = [loops EXCEPT ![l] = [loops[l] EXCEPT !.at = "select", !.clock = time,
                                                 !.instant = (Of(l).roundDuration = 0)]]

LoopBegins(l) ==
  /\ At(l, "new") /\ SetTimer(l, Remaining(loops[l].of))
  /\ UNCHANGED managers /\ SameRequests

\* Of the two cases of a select that are ready Go takes any.  A timer set for no
\* time is ready at once.
SelectFired(l) ==
  /\ At(l, "select") /\ loops[l].clock = 0 /\ Move(l, "gate")
  /\ UNCHANGED managers /\ SameRequests

Cancelled(l) ==
  /\ loops[l].at \in {"select", "poll"} /\ loops[l].cancelled /\ Return(l)
  /\ UNCHANGED managers /\ SameRequests

\* waitForResume returns at a resume and at a cancellation alike; after it a
\* break starts from the beginning.
WaitOver(l) ==
  /\ loops[l].at \in {"gate", "breakWait"}
  /\ ~Of(l).paused \/ loops[l].cancelled
  /\ IF At(l, "gate") THEN Move(l, "end") ELSE MoveWith(l, "break", 0)
  /\ UNCHANGED managers /\ SameRequests

\* Rounds that had any time, ended since the context was cancelled.
Lateness(l) ==
  IF loops[l].cancelled /\ ~loops[l].instant THEN loops[l].late + 1 ELSE loops[l].late

Ended(row) == [row EXCEPT !.crossed = Crossing(row)]

\* Mutant: the last round is not recognised.
RoundEnd_NoLast(l) ==
  /\ At(l, "end")
  /\ Set(loops[l].of, Ended(Of(l)))
  /\ loops' = [loops EXCEPT ![l] =
                 [loops[l] EXCEPT !.at = "break", !.clock = 0, !.instant = FALSE,
                                   !.late = Lateness(l)]]
  /\ SameRequests

\* Mutant: a manager whose last round has ended still says it is running.
RoundEnd_StaysRunning(l) ==
  /\ At(l, "end")
  /\ Set(loops[l].of, Ended(Of(l)))
  /\ IF Of(l).round >= TotalRounds
     THEN Return(l)
     ELSE loops' = [loops EXCEPT ![l] =
                      [loops[l] EXCEPT !.at = "break", !.clock = 0, !.instant = FALSE,
                                   !.late = Lateness(l)]]
  /\ SameRequests

RoundEnd(l) ==
  /\ At(l, "end")
  /\ IF Of(l).round >= TotalRounds
     THEN /\ Set(loops[l].of, [Ended(Of(l)) EXCEPT !.running = FALSE])
          /\ Return(l)
     ELSE /\ Set(loops[l].of, Ended(Of(l)))
          /\ loops' = [loops EXCEPT ![l] =
                         [loops[l] EXCEPT !.at = "break", !.clock = 0, !.instant = FALSE,
                                   !.late = Lateness(l)]]
  /\ SameRequests

\* Mutant: a break does not look at paused.
BreakCheck_NoPause(l) ==
  /\ At(l, "break")
  /\ Move(l, IF loops[l].clock >= Of(l).breakDuration THEN "next" ELSE "poll")
  /\ UNCHANGED managers /\ SameRequests

BreakCheck(l) ==
  /\ At(l, "break")
  /\ Move(l, IF Of(l).paused THEN "breakWait"
             ELSE IF loops[l].clock >= Of(l).breakDuration THEN "next" ELSE "poll")
  /\ UNCHANGED managers /\ SameRequests

\* The select of 100 ms, taken again and again, matters when its outcome does.
BreakPoll(l) ==
  /\ At(l, "poll") /\ (Of(l).paused \/ loops[l].clock >= Of(l).breakDuration)
  /\ Move(l, "break")
  /\ UNCHANGED managers /\ SameRequests

\* Mutant: the timer is set to the time that remains, before the round is started.
NextRound_TimerFirst(l) ==
  /\ At(l, "next")
  /\ Set(loops[l].of, Opened(Of(l), Of(l).round + 1))
  /\ SetTimer(l, Remaining(loops[l].of))
  /\ SameRequests

\* A round that cannot be started is logged, and its time runs all the same.
NextRound(l) ==
  /\ At(l, "next")
  /\ Set(loops[l].of, Opened(Of(l), Of(l).round + 1))
  /\ SetTimer(l, Of(l).roundDuration)
  /\ SameRequests

Loop(l) == \/ LoopBegins(l) \/ SelectFired(l) \/ Cancelled(l) \/ WaitOver(l)
           \/ RoundEnd(l) \/ BreakCheck(l) \/ BreakPoll(l) \/ NextRound(l)

\* A goroutine whose context is cancelled spins while its manager is paused.
Waits(l) ==
  \/ At(l, "gone")
  \/ At(l, "select") /\ loops[l].clock > 0 /\ ~loops[l].cancelled
  \/ loops[l].at \in {"gate", "breakWait"} /\ Of(l).paused /\ ~loops[l].cancelled
  \/ loops[l].at \in {"break", "breakWait"} /\ Of(l).paused /\ loops[l].cancelled
  \/ At(l, "poll") /\ ~loops[l].cancelled /\ ~Of(l).paused /\ loops[l].clock < Of(l).breakDuration

\* The timer of a round runs on during a pause.
Aged(l) == CASE At(l, "select") -> loops[l].clock - 1
             [] At(l, "poll")   -> loops[l].clock + 1
             [] OTHER           -> loops[l].clock

\* One tick.  The elapsed time of a round is shown without the pause under way.
Tick ==
  /\ \A l \in Loops : Waits(l)
  /\ \E l \in Loops : loops[l].at \in {"select", "poll"}
  /\ loops' = [l \in Loops |-> [loops[l] EXCEPT !.clock = Aged(l)]]
  /\ managers' = [m \in Managers |->
       IF \E l \in Loops : loops[l].of = m /\ At(l, "select") /\ ~managers[m].paused
       THEN [managers[m] EXCEPT !.elapsed = @ + 1] ELSE managers[m]]
  /\ SameRequests
-----------------------------------------------------------------------------
(***************************************************************************)
(* ControlRounds: a request fetches the manager, or makes one, then acts.  *)
(***************************************************************************)
Reached(q, stage) == requests[q].at = stage
Advance(q, stage) == requests' = [requests EXCEPT ![q] = [requests[q] EXCEPT !.at = stage]]
Hold(q, m) == requests' = [requests EXCEPT ![q] = [at |-> "act", manager |-> m]]
Done(q) == requests' = [requests EXCEPT ![q] = Idle]
Mine(q) == requests[q].manager

\* No one knows the manager any more.
Unused(m) ==
  /\ m # current
  /\ \A q \in Requests : Mine(q) # m
  /\ \A l \in Loops : loops[l].of # m

Fetch(q) ==
  /\ Reached(q, "idle")
  /\ IF current = NoManager THEN Advance(q, "create") ELSE Hold(q, current)
  /\ overlap' = (overlap \/ \E p \in Requests : ~Reached(p, "idle"))
  /\ UNCHANGED <<managers, loops, current>>

\* The map is written without a look at what another request put there since.
Create(q) ==
  /\ Reached(q, "create")
  /\ \E m \in Managers, r \in RoundDurations, b \in BreakDurations :
       Unused(m) /\ Set(m, Fresh(r, b)) /\ current' = m /\ Hold(q, m)
  /\ UNCHANGED <<loops, overlap>>

\* NewCompetitionEngine fails.
CreateFails(q) ==
  /\ Reached(q, "create") /\ Done(q)
  /\ UNCHANGED <<managers, loops, current, overlap>>

\* A request may set the durations before it does what it was sent for.
Update(q) ==
  /\ Reached(q, "act")
  /\ \E r \in RoundDurations, b \in BreakDurations : UpdateDurations(Mine(q), r, b)
  /\ UNCHANGED <<loops, current, requests, overlap>>

\* Start, Pause and Resume test again under the lock what the handler tested.
Act(q) ==
  /\ Reached(q, "act")
  /\ Start(Mine(q)) \/ Pause(Mine(q)) \/ Resume(Mine(q))
  /\ Done(q)
  /\ UNCHANGED <<current, overlap>>

\* Stop does not.
CheckStop(q) ==
  /\ Reached(q, "act")
  /\ IF managers[Mine(q)].running THEN Advance(q, "stopping") ELSE Done(q)
  /\ UNCHANGED <<managers, loops, current, overlap>>

DoStop(q) ==
  /\ Reached(q, "stopping") /\ Stop(Mine(q)) /\ Advance(q, "delete")
  /\ UNCHANGED <<current, overlap>>

Forget(q) ==
  /\ Reached(q, "delete") /\ Done(q)
  /\ current' = NoManager
  /\ UNCHANGED <<managers, loops, overlap>>

Request(q) == \/ Fetch(q) \/ Create(q) \/ CreateFails(q) \/ Update(q)
              \/ Act(q) \/ CheckStop(q) \/ DoStop(q) \/ Forget(q)

Next == \/ \E q \in Requests : Request(q)
        \/ \E l \in Loops : Loop(l)
        \/ Tick

Spec == Init /\ [][Next]_vars
-----------------------------------------------------------------------------
(***************************************************************************)
(* Properties.                                                             *)
(***************************************************************************)

\* A manager that says it is running has the goroutine that cancelFunc
\* cancels, not cancelled yet, unless the callback of its first round failed:
\* whatever goroutines of earlier starts still do to it.
RunningHasItsLoop ==
  \A m \in Managers : LET l == managers[m].latest IN
    managers[m].running /\ l # NoLoop => loops[l].of = m /\ Live(l) /\ ~loops[l].cancelled

\* As long as requests came one at a time there is at most one goroutine that
\* nobody cancelled, it is the one of the manager in the map, and that manager
\* is running: a stop stops the rounds.
OneLoopInTurn ==
  ~overlap => \A l \in Loops :
    Live(l) /\ ~loops[l].cancelled =>
      loops[l].of = current /\ managers[current].latest = l /\ managers[current].running

\* Of the rounds that have any time a goroutine ends at most one after it was
\* cancelled, on whatever manager, restarted or not: the one whose timer had
\* fired.  (A round of no time it may end all the same, and go on to the next.)
CancelledEndsOneRound == \A l \in Loops : loops[l].late <= 1

\* A pause is overtaken by one end or start of a round at most.
PauseOvertakenOnce ==
  ~overlap => \A m \in Managers : managers[m].paused => managers[m].crossed <= 1

\* No round is opened beyond the last one while requests come one at a time.
RoundsWithinTotal == ~overlap => \A m \in Managers : managers[m].round <= TotalRounds

(***************************************************************************)
(* What the documents say, and the code does not do.                       *)
(***************************************************************************)

\* SYSTEM_DOC.md:814: a pause freezes the timer.  runScheduler's timer runs on
\* and the round ends with less than its duration played.
PauseFreezesTimer ==
  \A l \in Loops : At(l, "end") /\ ~loops[l].cancelled => Of(l).elapsed >= Of(l).roundDuration
=============================================================================
