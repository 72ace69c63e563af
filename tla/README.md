# AWD Arena: TLA+ models and proofs

AWD Arena runs attack-with-defence contests: teams get containers with
vulnerable services, a competition engine goes through timed rounds, each round
gives every service a new flag, teams submit the flags they take from others,
and the engine scores the round. This directory holds TLA+ models of the
program's core and of the services around it, TLC runs over small instances, and
theorems that TLAPS checks for all values of the constants.

Paths below are relative to the repository; `engine.go:125` means
`internal/engine/engine.go`, line 125.

Run a check with `tlc -config <name>.cfg <Module>.tla`, a proof with
`tlapm <Module>Proofs.tla`; the theorems about a service are in `AccessProofs` or
`StatusProofs`.

## 1. The system

| part | state | operations | talks to |
|---|---|---|---|
| Round scheduler `engine/round.go` | `paused`, `inBreak`, remaining times, `roundStart`, `pauseCtx`; one goroutine | `Run`, `waitForResume`, `Pause`, `Resume` | engine callbacks `onRoundStart`, `onRoundEnd`; both mutexes |
| Competition engine `engine/engine.go` | `running`, `currentRound`, `currentPhase`, `cancelFunc` | `Start`, `Pause`, `Resume`, `Stop`, `onRoundStart`, `onRoundEnd`, `finishGame` | row of `games`, scheduler, scoring, flags, health checker, event bus |
| Engine manager `engine/manager.go` | map from game to engine | `StartGame`, `PauseGame`, `ResumeGame`, `StopGame`, `ShutdownAll` | engines |
| Game service, admin handlers `service/game_service.go`, `handler/admin_handler.go` | row of `games`, one mutex per game | `StartGame`, `PauseGame`, `ResumeGame`, `StopGame`, `ResetGame`; `UpdateGame`, `DeleteGame` | engine callbacks, container goroutines |
| Containers `service/container_service.go`, `container/manager.go`, `container/gorm_store.go` | Docker, `team_containers`, one mutex per manager | provision, teardown, pause, unpause, restart; remove one team's | Docker client, networks, scores (penalty) |
| Flags and submissions `service/flag_service.go`, `handler/auth_handler.go` | `flag_records`, `flag_submissions` | generate, submit | scoring |
| Round scoring `engine/scoring.go`, `engine/scoring/first_blood.go` | `round_scores`, `score_adjustments`, `teams.score`, detector in memory | `CalculateRoundScores`, `UpdateCumulativeTeamScores`, `AdjustScore`, restart penalty | database only |
| Round manager `engine/round_manager.go`, `handler/round_handler.go` | a second scheduler, and an unlocked map of them | start, pause, resume, stop, set durations | an engine of its own |
| Health checker `engine/health_checker.go` | status column of `team_containers` | periodic check, start, stop | Docker |
| Networks `network/manager.go` | Docker networks, iptables rules, the manager's map; subnets and host ports are computed | create, look up, isolate, remove | Docker, provisionings and teardowns |
| WebSocket hub, event bus `server/ws.go`, `eventbus/` | connections, subscriptions | register, restore, subscribe, unregister, broadcast; publish | engine, browsers |
| Accounts and tokens `service/auth_service.go`, `handler/auth_handler.go`, `middleware/auth.go` | users; blacklist in memory; claims in tokens | register, log in and out, refresh, edit, delete | database |
| Teams `service/team_service.go`, `handler/auth_handler.go`, `handler/admin_handler.go` | teams, `users.team_id`, `game_teams` | create, save, delete, add and remove players and games; reset a score | database, rounds |
| Permissions, rate limits `middleware/` | role table; windows per key | look-ups; sliding window | router |
| Ranking, scores, dashboard, export, audit, settings | none of their own | read the tables above | database |
| Service monitor `monitor/health_checker.go` | checkers with a goroutine each, alert channel | add, remove, stop, check | target services |
| Notifications `notify/alert.go` | switches, silences, notifiers | send | mail and chat services |
| Game state machine `engine/game_state_machine.go` | state, a copy of the row, the row | load, transition, persist | callbacks; tests only |
| Scoring modes, zero-sum scorer `engine/mode/`, `engine/scoring/` | scores in memory | attack, defence, round end | no request reaches them |
| WAF, analysis, Docker images | stateless or append-only | text rules, rows | |

`PROJECT.json` lists every part with its files and status.

### How the parts interact

`GameService` takes the mutex of a game, reads its row, checks the status,
writes the new one, calls the engine manager through `EngineCallbacks`, and
starts a goroutine for the containers. The engine writes the same row from its
own goroutine (`onRoundStart`, `finishGame`) without that mutex, and so do
`UpdateGame` and `DeleteGame`. `Stop` of the engine also tears the containers
down, and `main.go:75` provisions them again for each running game when the
process starts. A round's end reads the submissions, writes `round_scores`, and
then recomputes `teams.score`, which `AdjustScore`, the restart penalty,
`ResetTeam` and every edit of a team write as well. No two of these share a
transaction.

### What is hard here

1. **Timers, pauses and contexts.** A pause may fall between any two critical
   sections of `Run`, also before the first. `Resume` replaces the context `Stop`
   cancels, but not the one `Run` waits on.
2. **Check, then write.** Every status change of a game reads the row, then
   writes it unconditionally; the engine's goroutine writes in between.
3. **Loops over stale lists.** Provisioning, teardown and pause walk over lists
   read once, in goroutines that nothing orders.
4. **Partial failure.** Docker and database calls fail one at a time; a creation
   must undo itself and a removal must not forget a container.
5. **Restarts.** Engines and the first-blood detector live in memory. Containers,
   rows, flags and scores survive.
6. **Several writers of a score**, each with several statements.
7. **Requests without a lock.** `round_handler.go` reads and writes a map of
   managers unprotected, and tests and stops a manager in two steps.
8. **Statements without a transaction.** Deleting a team or an administrator is
   several statements, with joins, rounds and other deletions in between; SQLite
   is opened without foreign keys.
9. **Memory beside rows.** Tokens outlive the row they copy the role from, the
   network manager forgets at a restart what Docker keeps, the state machine and
   the health checkers hold copies others write behind.

### What makes each part correct

- Scheduler: each round scored once and in order; a round's timer runs for the
  round's duration, and not during a pause, unless the round began in one; a pause
  takes hold at the next boundary at the latest; a game left alone ends.
- Game service: the row, the engine map and the engine agree; a paused game was
  running; a started game plays; a reset game has no scores.
- Containers: none out of the table's sight; a started game has one per team and
  challenge, a stopped game none; they run or are paused as the game is; the
  manager's mutex is always given back.
- Scoring: a round row counts the captures of that round and no other, each
  captured flag has one first blood, a team's score is what it earned plus its
  adjustments once it is recalculated.
- Round manager: a running manager has its loop, and while requests come in turn
  only one; a cancelled loop stops after one round at most, rounds of no time apart.
- Accounts and teams: an administrator is left; a logged-out token stays out until
  it expires; a claim ages out with its token; nothing of a deleted team stays; a
  player changes teams by way of none.
- Hub: a connection gets its own games whatever other connections of its user do,
  and nothing once it is closed. Rate limit: never more than the limit in a
  window for a presented name, and refused only when there was that many.
- Networks: a container is in its team's network, unless a teardown took it from the
  provisioning; teams are kept apart; ports of a game disjoint.
- Health checkers and alerts: the row, the channel and the silence tell what was
  seen, written and delivered. Zero-sum: only bonuses are created. State machine: memory
  and row agree at rest.

## 2. The modules

```
RoundSequence            what a scheduler promises
    ^ implemented by
RoundScheduler  <- MCRoundScheduler     one engine, with clock and contexts
    | implements (MCRoundScheduler)
EngineLifecycle          one engine without its clock
    | built from EngineModel  <- GameService             row, engine map, several
    engines, crashes GameContainers  <- MCGameContainers     containers of a game,
    and the requests that move them Scoring  <- MCScoring                   flags,
    submissions, scores RoundManager  <- MCRoundManager         the second scheduler
    and its requests Accounts, TeamAdmin, Hub, RateLimit, Networks, ZeroSum,
    HealthChecker, ServiceMonitor, AlertManager, GameStateMachine  <- MCServices

RoundSchedulerProofs     theorems about RoundScheduler and both of its refinements
GameServiceProofs, GameContainersProofs, RoundManagerProofs, ScoringProofs
AccessProofs             theorems about Accounts, TeamAdmin, RateLimit, Hub
StatusProofs             theorems about GameStateMachine, ServiceMonitor, AlertManager,
                         HealthChecker, Networks, ZeroSum
Sums                     induction, and sums over finite sets: what ScoringProofs,
                         AccessProofs and StatusProofs rest on
```

### RoundScheduler

One `CompetitionEngine` with its `RoundScheduler`. A step is one critical section
of `e.mu` or `rs.mu`, or one `select`. `pc` is the place of the `Run` goroutine;
`RunInit` ... `RoundFresh` are its steps, `EngineStart`, `EngineRestore`,
`EnginePause`, `EngineResume` and `EngineStop` the handlers, `Tick` the clock.
`timer` is what the goroutine's timer has left, `Off` when it is stopped: after
`round.go:138` finds no time left the timer is not armed again, which is how a
round can stay open for ever. `since` is `time.Since(roundStart)`, saturated at
the longest duration, because no remaining time is longer.

A pause context is abstracted to whether it is done. The one the goroutine has
captured is the current one, or was replaced since: after it was cancelled
(`stale`), or without (`deaf`). The second happens to the context `Run` makes in its
first section when the engine is paused already: `round.go:99` does not look at
`paused`, and `Resume` replaces that context without cancelling it, so that from
then on only `Run`'s own context wakes the goroutine before its timer does.
`CaptureDone` puts the three cases together. `runDone`, `cancels` and `pauseParent`
keep which context `e.cancelFunc` cancels and which one `pauseCtx` was derived from,
so that a `Stop` after a `Resume` cancels what it cancels in the code. The
goroutine's own sections take no ticks, except `onRoundStart`, which writes flags
into containers for up to `MaxFlagWrite`.

Left out: events published, health checking beyond on and off, the error returns
of database writes (the code ignores them), `GenerateFlags` and its failure (the
code logs it and goes on).

`RoundSequence` is the abstract promise: open a round, score it, open the next,
complete only when the last is scored, or abort. `EngineLifecycle` is the same
engine without a clock, and is there to be composed: `MCRoundScheduler` gives the
refinement mapping (with one history variable, `slip`) under which
`RoundScheduler` implements it, so that what `GameService` composes is not a
second guess at the engine but something the detailed model was proved against.
The refinement needs breaks that have a length (`BreakAssumption`): with
`BreakDuration = 0` TLC refutes it, because the goroutine of an engine that was
stopped while its round timer ran out goes through the break's timer, which has
run out too, and opens the next round as well. The handlers put the default in the
place of a zero (`auth_handler.go:420`, `admin_handler.go:157`);
`admin_handler.go` does not refuse a negative one.

### GameService

The row of one game, the engine map (`managed`), and up to `Slots` engine
objects: engines the manager let go of go on as goroutines. An operation of
`GameService` is split where the code is: `Check` (mutex, read, status test),
`WriteStatus`, the engine call (`CallStart`, ...), and for a reset `ClearScores`
and `ResetRow`. `EditRead`/`EditSave` are `UpdateGame`'s read and whole-row save;
`DeleteGame` removes the row. `Goroutine(s)` is any engine's `Run`. `Crash` loses
the memory; `Shutdown` is `ShutdownAll`, which also writes the managed game
finished.

A refused operation changes nothing and has no step. A goroutine that can only
wait for ever is dropped (`Kept`), which keeps the number of slots small; `late`
stops counting at 2. The container goroutines are in `GameContainers`.

### GameContainers

Docker's state and the table's rows for each pair of a team and a challenge
(`Cells`), and the goroutines (`jobs`). A job reads its list (`Find`) and then
makes one call per step, each of which may fail: `Create`, `Launch`, `Save` for
`CreateChallengeContainer`; `Lock`, `Halt`, `Remove`, `DeleteRow` for
`DestroyContainer`; `Lock`, `Halt`, `Restarted` for `RestartContainer`; `Toggle`
for `PauseAll` and `UnpauseAll`. `StopGame` with an engine runs two teardowns, the
first of them (`CompetitionEngine.Stop`) with the game's mutex held (`sync`). A
crash cuts all jobs; `Recover` is the provisioning of `main.go:75`. `Recover` may
happen whenever nothing is under way and the game runs: after a crash at a quiet
moment the state is the same.

`wanted`, `excused`, `disturbed` and `lost` are history variables that say what a
property may be excused for: a call that failed, a provisioning that met a
teardown, a pause that met a restart. They change nothing else.

Left out: the status text of a row and the health checker that writes it,
networks, ports and limits, the SSH set-up executed in a container, the semaphore
of five creations at a time (fewer interleavings, none new), `CleanupTeamContainers`
and the deletion of a team. `ShutdownAll` is a stop followed by a crash.

### Scoring

`flags`, `captures` (the correct rows of `flag_submissions`), `table`
(`round_scores`), `adjusted`, `score` and the detector. Each database call of
`CalculateRoundScores`, `UpdateCumulativeTeamScores`, `AdjustScore` and
`RestartContainer` is a step; `updates` holds the recalculations under way, the
engine's and the administrator's. `ResetTeam` writes a zero; `ReadRow` and `SaveRow`
are the edits of a team (`UpdateTeam`, `teamHandler.Update`, and the creations that
save the row after inserting it), which write the whole row back as it was read.
`spoilt` remembers the teams whose score one of these changed since it was
recalculated last. `Restored` is a crash and a later `ResumeGame`:
a new engine, with an empty detector, plays the round of the row again.

Left out: database errors, ranks, the value of a flag and its hash, wrong flags
(they leave no state scoring reads), pauses. A team has one service. There is one
submission, one adjustment, one restart and one edit under way at a time; the
engine's recalculation overlaps with any of them. Other writers of a score
(`ScoreService.AdjustScore`, its handler, `TeamService.UpdateScore`) have no route or
no caller.

### RoundManager

The `RoundManager`s of one game and the handler that makes, starts, pauses, stops
and forgets them. `managers` has the fields of each manager that decide anything,
`loops` the goroutines of `runScheduler`, `current` the entry of the handler's map,
`requests` what each request has fetched. A step is one critical section of
`rm.mu`, one `select`, or one access to the map: `Fetch` and `Create` are two
accesses, `CheckStop`, `DoStop` and `Forget` are three. A manager that was forgotten
may still be held by a request and restarted by it. `clock` is a goroutine's timer,
which no pause stops; `elapsed` is `time.Since(roundStartTime)` without pauses.
`ControlRounds` takes any durations (`round_handler.go:188-193`): one of zero is among
them, and `instant` marks a timer set for it, which is ready at once.

Left out: the phase shown, events, the elapsed time of a break, and the data race on
the map itself (Go may crash on it; the model has the orders of whole accesses).
`overlap` is a history variable: two requests were under way together.

### The services: MCServices

Ten modules, each with its own variables, `...Init` and `...Next`. They share no
state, and `MCServices` explores each alone (`focus`), so that one run checks all.

- **Accounts**: users, tokens, the blacklist in memory. A token is its claims, so
  the role in it is the one of the moment it was made (`JWTAuth` never looks at the
  user again; `RefreshToken` does). A refresh takes a token past its expiry, for its
  leeway; the blacklist keeps an entry until the expiry only. `revoked` remembers
  what was logged out for as long as a refresh could take it. Deleting an
  administrator is three statements: `BeginDeletion`, `CountAdmins`, `DeleteUser`.
  Time is counted in hours, as ages. `Restart` loses the blacklist and runs
  `seedAdmin`. Which account `seedAdmin` made first is fixed in `MCServices`:
  accounts are interchangeable.
- **TeamAdmin**: teams, `users.team_id`, `game_teams` and the rows of a team. A step
  is one statement (`BatchImportTeams` is one `CreateTeam` after the other);
  requests overlap with each other and with the rounds of the game. `crossed`
  remembers what overlapped a deletion, failed, or was edited by hand, so that the
  property excuses that and nothing else. Left out: names, descriptions, the values
  of team tokens, and the clean-up of containers at the start of `DeleteTeam`.
- **Hub**: connections and subscriptions. A goroutine serves each connection; a
  step is one section of the hub's RWMutex, and a broadcast under way keeps writers
  out. `RestoreSubs` copies the user's list under the lock and subscribes to one
  game after the other without it. `userConn`, which nothing reads, is left out, and
  so is the event bus.
- **RateLimit**: the sliding window, in the two limiters a login passes one after
  the other; the others are a single `Allow`. An attempt has an address, the name it
  presents to the second limiter (`FormValue`: query, then form; the body only when
  these have none) and the account it tries (the body's). `strayed` remembers the
  names that were presented for another account, and the accounts so tried. Times
  are ages, and the loop of `Allow` that drops what is past the window
  (`ratelimit.go:49-57`) is a recursive function.
- **Networks**: `CreateTeamNetwork`, `GetTeamNetwork`, `RemoveTeamNetwork` as
  provisionings and teardowns call them. Each of these is a goroutine (`job`) that
  nobody waits for: any of them run at once, of several games and of one game, and
  a step is one call of the manager, or one container. A team has one network for all
  its games, and its name is asked for once for all of its containers. Any error of
  Docker counts as "exists already" (`manager.go:51`), and `RemoveTeamNetwork`
  forgets whatever Docker does. `robbed` and `unfounded` remember a network taken from
  a provisioning, and one that Docker refused. `IsolateTeams`, `Subnet` and `PortBase`
  are pure. Containers of one team and game are told apart only by whether they are in
  the network.
- **ZeroSum**: `ZeroSumScorer` with its defence calculator and first bloods. Scores
  are whole numbers, with values for which no division leaves a remainder: the
  initial total can be shared out among any number of the teams. The scorer does not
  ask whether attacker and target are two, nor whether the attack's round is the
  current one, and the model does not either.
- **HealthChecker**: checkers the engine starts and stops over the status column
  that the container manager writes as well. A checker that was stopped goes on with
  a Docker client that reports only the cancellation. A check that cannot read the
  rows ends; a write that fails is not noticed (`health_checker.go:164`), and `missed`
  remembers it.
- **ServiceMonitor**: the monitor of target services, its checkers and the alert
  channel with its capacity. Checks, the verdict of a check, stop and removal are
  steps of their own.
- **AlertManager**: `SendAlert` as its sections: the switches, the look at the
  silence, one call per notifier, the beginning of a new silence.
- **GameStateMachine**: machines over one row, each with a copy of it. `Transition`
  holds the machine's mutex, so its parts are steps only where the row or another
  machine can be seen: callbacks, the write, and the way back when it fails.

## 3. The runs

| run | instance | states | shows |
|---|---|---|---|
| `RS_scheduler` | 2 rounds of 3 ticks, breaks of 2, flags take up to 1 | 24 thousand | rounds scored once and in order, the timer of a round runs for its duration, one boundary per pause, agreement with the row, both refinements; a game left alone finishes unless a pause used its round up; a pause parks the goroutine; a cancelled `Run` returns |
| `GS_engines` | 2 rounds, 2 engine objects | 818 thousand | the engine map, the row and the engines through resets, deletions, crashes and shutdowns |
| `GS_edits` | 2 rounds, 1 engine object, `UpdateGame` | 327 thousand | a running game can always be paused, also after a stale row is written back |
| `GC_containers` | 2 cells, 3 goroutines, 1 container per cell; cells and goroutines symmetric | 1.3 million | nothing lost, containers as the game is |
| `GC_progress` | 1 cell, 2 goroutines | 18 thousand | no goroutine waits for ever |
| `SC_scores` | 3 teams, 2 rounds, 2 captures, 1 request, 1 restart | 2.6 million | round rows right, scores the sum of what they are made of once recalculated |
| `RM_rounds` | 2 managers, 2 goroutines, 2 requests, 2 rounds of 0 or 1 tick, breaks of 0 or 1; all three symmetric | 4.3 million | a running manager has its loop; one loop while requests come in turn; a cancelled loop ends one round that has any time at most; a pause is overtaken once at most; no round beyond the last |
| `SV_services` | ten services, each alone (bounds below) | 1.1 million | an administrator is left, logged-out tokens stay out until they expire and claims age out; deleted teams leave nothing, members move by way of none; connections get their games and only while open; the limit is kept and no more is refused; containers are in their team's network unless a teardown took it; only bonuses are created; rows, alerts and silences tell what was seen, written and delivered; a reloaded machine is in the state of the one that wrote |
| `RS_LeftAloneFinishes` | 2 rounds of 2, breaks of 1 | | violated: a round without time left never ends |
| `GS_StartedGameHasEngine` | 1 engine object | | violated: start, finish, reset, start plays no rounds |
| `GC_StoppedGameHasNoContainers` | 2 cells, 2 goroutines | | violated: a stop during provisioning leaves containers |
| `RM_PauseFreezesTimer` | 1 manager, 1 round of 2 | | violated: the time of a pause is lost to the round |

### Bounds, and why they are enough

- *Rounds*: 2. A first, a last and a break between them; no code looks further
  than one round ahead. The theorems hold for any number.
- *Ticks*: a round of 3 can be paused twice with time left and once without; a
  break of 2 likewise once; flag writing of one tick is the only source of drift.
- *Engine objects*: 2, the managed one and one let go of that still runs; a third
  would be a second one let go of, which steps by itself.
- *Cells and jobs*: 2 and 3. Two cells let one fail and the other not; three
  goroutines let a provisioning meet a teardown while a pause meets a restart.
  `GC_progress` needs no more than two goroutines and one container: what holds
  a goroutine up is one other that has the mutex. Liveness is checked without
  symmetry.
- *Container identities*: 1 per cell at a time. Docker gives a name to one
  container; an identity is used again only when nobody knows it any more.
- *Scoring*: one adjustment, restart, reset or edit; three teams give an attacker, a
  victim and a bystander, or two attackers of one flag. `Budget = 5` leaves out only
  the executions that use every bound at once; the space without that bound (6.8
  million states) passes too.
- *Round managers*: two managers let one be forgotten while another is made, two
  goroutines let one that was cancelled meet its successor, two requests are all
  that interleave on the map at a time. More of each adds no new pair. Rounds of no
  time are explored while requests come in turn (`TimeIfOverlap`); the theorems have
  no such bound.
- *Services*: the two actors that meet and one more thing to tell apart. Accounts:
  two users, who can delete each other at once, two deletions, two live tokens,
  tokens of one hour with one of leeway. Teams: two teams, one player, two requests
  at a time and five in all, enough for a deletion, what overlaps it and a repair.
  Hub: two connections of one or two users, two games. Rate: two addresses with a
  limit of one, two names with a limit of two, a window of two, and two attempts
  between the limiters at a time, with any two names. Networks: two games that share
  a team, two goroutines, of one game or of both, and two subnets, so that teams 1
  and 3 have the same one; teardowns take at most one network from the provisionings
  (`OneTaken`), several such losses being the same one again. Zero-sum: three teams
  of which some come late, two flags, three attacks, two rounds. Health: one
  container and two checkers, the stopped one and its successor; three events from
  outside. Monitor: two services, two checkers, two failures, a channel of one,
  which is full at the second alert. Alerts: two callers, two notifiers, a silence
  of two ticks. State machine: two machines on one row.

`CHECK_DEADLOCK FALSE` stands where the system really stops: an engine whose
goroutine returned and whose game is finished, a game with no rounds left, a
service whose bounded number of requests is used up.

### Fairness

- `RoundScheduler`: weak fairness of the goroutine (Go runs runnable goroutines)
  and of the clock. `SelectCancelled` has strong fairness: with a pause context
  that is cancelled again and again the loop passes the `select` infinitely often,
  and Go picks at random among ready cases. Nothing obliges anyone to start,
  pause, resume or stop a game.
- `GameContainers`: weak fairness of each goroutine (Docker and database calls
  return, with or without an error) and strong fairness of `Lock`, since
  `sync.Mutex` hands itself to a waiter that has waited too long.
- All other modules state safety only and have no fairness. In `RoundManager`
  there is nothing live to promise: a goroutine that was cancelled while its
  manager is paused spins until somebody resumes, and nobody has to.

## 4. What is proved

| module | theorem | for all |
|---|---|---|
| `RoundSchedulerProofs` | `TypeCorrect`, `ScoredOnce`, `FinishScored`, `RowMatches`, `OneBoundary`, `RoundTime`, `Refinement`, `EngineRefinement` | numbers of rounds and durations |
| `GameServiceProofs` | `TypeCorrect`, `EnginesOff`, `Agreement`, `PauseNotRefused`, `NoneUnscored`, `OneRoundOverrun` | numbers of rounds, sets of engine objects, with and without edits |
| `GameContainersProofs` | `TypeCorrect`, `NoneLost`, `ContainersMatch`, `StatesMatch` | cells, goroutines, lives |
| `RoundManagerProofs` | `TypeCorrect`, `RunningManagerHasItsLoop`, `CancelledLoopEndsOneRound`, `RequestsInTurnKeepOneLoop`, `PauseOvertaken`, `RoundsWithin` | managers, goroutines, requests, rounds, durations |
| `ScoringProofs` | `TypeCorrect`, `SumsOfRounds`, `TableRight` | teams, rounds, points, weights, captures |
| `AccessProofs` | `AnAdminRemains`, `LogoutIsFinal`, `ClaimsExpire` | accounts, roles, deletions, lifetimes |
| | `NothingLeft`, `TeamIsKept` | teams, players, requests |
| | `LimitKept` | addresses, accounts, limits, windows |
| | `HubTypeCorrect`, `ConnectionsHaveTheirGames`, `WritesReachOpen` | connections, users, games |
| `StatusProofs` | `ReloadAgrees` | machines |
| | `AlertsTell` | services, checkers, failures, capacities |
| | `SilenceIsEarned` | callers, notifiers, lengths of a silence |
| | `RowIsWhatWasSeen` | containers, checkers |
| | `ContainersStayInside`, `TeamsAreIsolated`, `PortsAreDisjoint` | games, teams, goroutines, numbers of subnets and challenges |
| | `ZeroSumKept` | teams, flags, values, rounds, attacks |

Every safety invariant and every action property that a run checks and that is
expected to hold, and both refinements, are stated by one of these theorems. The
runs show that they are not empty: the interesting cases happen, and each property
fails in a changed model.

### Assumptions

The `ASSUME`s of the modules, and nothing else: at least one round, rounds with a
length in `RoundScheduler` (the handlers of games see to it; those of the round
managers do not, and nothing is assumed there), null values outside of the sets they
are null values of, and

- `BoundsAssumption`, `ZeroSumAssumption`: finitely many teams, and a first-blood
  bonus that is not negative (`scoring.go:14` has 50);
- `ZeroSumAssumption`: any number of the teams divides the initial total. The code
  divides `float64`s; this is what whole numbers stand for them with, and it is
  needed for the shares of the start only;
- `BreakAssumption`: breaks have a length, for `EngineRefinement` only.

### Arguments

A property is seldom inductive: it speaks of one place, or of the moments when
nothing is under way. Each proof below adds what makes it so.

**RoundScheduler.** `EachRoundScoredOnce` says something at two places of the
goroutine only. `ScoreInv` ties *every* place to what has been scored: in
`Unscored` places the current round is still to be scored, in `Scored` places it
has been, and past the test for the last round there is a round to come.
`EngineInv` adds that the manager, the row and the engine agree and that a
cancelled `Run` has no manager. `BoundaryInv` counts boundaries since the pause: a
goroutine about to cross one while paused has crossed none yet, because every way to
such a place leads through a look at `paused`. `Refinement` maps each step to
opening, scoring, completing or aborting, or to a stutter.

`RoundTime` is about a sum that moves: the ticks the timer has run, those of a pause
(`lost`) counted apart. `since` runs on during a pause and is taken off
the remaining time when a `Pause` comes, so `Unspent` is what has not been taken off
yet. `TimeInv` says that run and remaining time add up to the round from its first timer
to its last, less what the flags took, except where the remaining time is not what
the goroutine goes by (`Adrift`); `PauseInv` says where the goroutine does not see a
pause (not yet, or, `Unhearing`, not at all, because `Run` made its context during
one), and where `since` starts from 0.

`EngineRefinement` maps the scheduler to `EngineLifecycle`. Every step is one of its
actions or a stutter (`StartedOf`, `PausedOf`, ... `ReturnedOf`, one lemma each). The
hard part is a stopped engine, which the abstract one does not let out of a round
again when it is cut off: `LifeInv` says that such a goroutine (`Halted`) has no
timer that ran out, and so turns in its loop for ever. The history variable `slip`
marks the one exception, a goroutine that was waiting for its timer at the stop: the
timer had run out, or the goroutine is deaf to the context that is cancelled.

**GameService.** Between operations the managed engine and the row agree; during
one they do not. `AgreementInv` says which operation explains each disagreement: a
row that runs with an engine that does not is a resume under way. `OpInv` says
what stays true of the row an operation has read, as long as nobody outside
writes. `PlaceInv` and `OffInv` say where engines in and out of the map can be.
`PauseInv` holds of the row an edit has read as well, which it will write back.
`ScoreInv` carries `NoRoundLeftUnscored` through the row: an engine can be built from
it, so its round must not run ahead of the scores while that is possible, and a reset,
which deletes scores, must find no engine alive. `Bounded` is why a stopped engine
crosses one boundary at most: once it has crossed one, its pause context is
cancelled, or it is paused with nobody left to resume it.

**GameContainers.** `NothingLost` needs `Apart`: a container in the making is in
nobody else's hands or list, and one whose row is about to be deleted is gone
from Docker. Both come from the order of the calls in `CreateChallengeContainer`
(row last) and `DestroyContainer` (row last, and not after a failure). The two
properties of quiet moments are invariants of all moments once they name who is at
work: in `MatchInv` a cell that lacks a container has a goroutine that will make one
(`Comes`), and a container that should not be is on the list of a teardown
(`Doomed`); in `StateInv` one in the wrong state is on the list of the one pause or
unpause under way.

**RoundManager.** `LateInv` says where a goroutine can be that has ended a round
since it was cancelled (`Leaving`): in the break, or in a round whose time is not up,
so that the next thing it sees is its context, or in one that was given no time, which
does not count. Durations may be any number from zero.
`TurnInv` is the argument for requests that come in turn: the one request under way
holds the manager in the map, and any goroutine nobody cancelled belongs to it
(`HoldsCurrent`, `SoleLoop`). `QuietInv` adds that then a manager has one goroutine,
which alone can overtake a pause and has rounds left in every break.

**Scoring.** `SumInv` says what each recalculation has in hand: after its first
query the sums of the table, after its second the sums with the adjustments, and a
team it has been to has its score; while the engine writes its rows nothing is said,
since a recalculation follows. Of a team in `spoilt` nothing is said until a
recalculation has been to it; one that a reset or a stale row changed before that is
not in the way, because the recalculation does not read the column. `TableInv`
keeps, for the round being written, the set of captures that scoring read (`Read`:
all in time and perhaps some late), and what it is `Worth`. First bloods are counted
by `SumCounts`: each captured flag gives its bonus to one team.

**Accounts.** `DeletionsLeaveAnAdmin`: when a deletion is about to delete, there is an
admin besides its victim. `RevokedAreListed`: what was logged out is on the blacklist
until it expires. `YoungTokensTell`: a token younger than the last change
of its row tells what the row says.

**TeamAdmin.** `OverlapsMarked`: whatever meets a deletion is in `crossed`. With it
`JobInv` says what each request may count on between its statements: `Emptied` what
a deletion has got through, `Lives` that the team of a request is there, `Joins`
that a player about to join has no team.

**RateLimit.** The history of a name is what the limiter would count for it now
(`Counts`), and that of an account is the same as long as neither strayed. That
rests on what the loop of `Allow` computes: that it finds nothing to drop in what it
kept (`RecentTwice`), and that what is past the window may be dropped before or
after a tick (`RecentGrow`).

**Hub.** `ConnectionHasItsGames` becomes inductive with what holds on the way to
reading: a registered connection is subscribed to nothing yet, and what it has still
to restore it asked for. `WritesReachOpenConnections` follows because those a
broadcast has still to write to are registered, and the lock keeps them so.

**GameStateMachine.** `CopyAgrees` holds at every moment; `FreshAgrees` says what
the row is while a machine writes it: the state it would go back to.

**ServiceMonitor.** `Consistent` ties what a checker remembers to the last alert
that got through; `CheckersOpen` says that the checkers in the map have not been
stopped, so no channel is closed twice.

**AlertManager.** `CallKeeps`: a call under way that has met no failure has heard
from everybody who is no longer on its list, and one that began in a silence finds
that silence as long as it lasts.

**HealthChecker.** `RowTells`: between the write of a row and the note of it the row
is what the checker saw, unless the write failed (`missed`), at other times what it
noted; a checker that was not started has noted nothing (`Holds`).

**Networks.** `NetworkInv`: a network that a goroutine counts on (`Knows`) is known to
the manager unless a teardown took it (`robbed`), whichever goroutines run beside it,
and the team in hand has no name of a network only if it was taken.
`TeamsAreIsolated` is about `IsolateTeams` alone: its rules keep any two teams apart,
both ways, and drop a team's own traffic only if another team has its subnet.
`PortsAreDisjoint` is arithmetic: `challenges * (team - 1) + index` is different
for different pairs, because the index is less than the number of challenges.

**ZeroSum.** The map grows while the game goes on, so `ZeroInv` sums over all teams:
one that is not in the map has the sheet it would be given, which is zero
(`SumSupport` leads back to the map). An attack changes two terms of one sum and one of
another (`SumChanged`), the start gives the same share to each (`SumConstant`).

**Sums.** The sums are `SumFunction` of the community modules, a fold that chooses the
order of its elements. The provers cannot instantiate an induction theorem over a
predicate, but induction over a *set* can be proved: `<` is well founded on the
naturals, so a non-empty set of them has a least element (`NatMin`), and a set with 0
and all successors has them all (`NatSets`); so do the subsets of a finite set
(`FiniteSubsets`) and, in `AccessProofs`, sequences (`AgeSequences`). From it `Sums`
proves that a fold over a finite set exists, is unique and does not depend on the
order (`SumUnfolds`, `SumTakes`), and what it does when a function changes.

**Model-checked only.** Liveness, which needs fairness and ENABLED and is out of the
prover's reach: `FinishesUnlessUsedUp`, `PauseParks`, `CancelledRunReturns` and
`JobsEnd`. So is what the four violated runs show; a counterexample needs no proof.

## 5. Where the code and its documents differ

Shown by a run, each an entry of `findings` in `PROJECT.json`:

1. `round.go:134`, "After resume: reset timer with remaining round time": with
   none left no timer is made and the round stays open.
2. `game_service.go:98`, "Start the competition engine to manage rounds": the
   engine of a finished game stays in the manager, so the restarted game has none.
3. `game_service.go:214`, "stops a game and tears down all containers": not those
   a provisioning under way is still to create.
4. `SYSTEM_DOC.md:814`, a pause freezes the timer of the round manager and a resume
   makes up for it: the timer runs on, and the time of the pause is lost.

Seen while reading, and part of the models where they concern a modelled part:

- `SYSTEM_DOC.md:703`, `StopGame` "stops and deletes": after a `Resume` the
  goroutine goes on, because `engine.go:125` overwrote the function that cancels
  its context. `OverrunsByOneRound` says what remains true.
- `game_service.go:131`, "only running → paused is allowed": a game that finishes
  between read and write becomes paused.
- `game_service.go:261`, "cleans up containers and scoring data": a stopped engine
  past its last check scores its round after the clean-up.
- `flag_service.go:122` multiplies the points by the attack weight and
  `scoring.go:85` does so again; `docs/USER_GUIDE.md:378` and `SYSTEM_DOC.md:723`
  have it once. `Scoring` has both factors (`Points`, `AttackWeight`).
- `SYSTEM_DOC.md:47` and `:737` promise a constant sum of points; with unequal
  weights and first-blood bonuses the sum of a round is not zero. In `ZeroSumScorer`
  each round gives the whole pool of all rounds so far to the unbeaten teams, so
  totals grow although `zero_sum.go:168` says that the sum is kept;
  `StrictZeroSum` is what holds. No request reaches that scorer.
- `SYSTEM_DOC.md:783` has no transition out of finished; a reset makes the game a
  draft again.
- The state machine writes the status "active", where `GameService` writes
  "running", which the machine reads as preparing. It overwrites `start_time` with
  every resume, and a machine loaded before the game ended can revive its row.
- `round.go:34`, "Pause freezes the round timer": a pause that comes before the first
  section of `Run` does not, because `round.go:99` makes a context without a look at
  `paused`. The timer runs during that pause, and a second pause of the round goes
  unheard, since `Resume` replaces the context `Run` waits on without cancelling it.
  `RoundNeitherExtendedNorCut` counts such ticks (`lost`) apart.
- `round_handler.go:188` takes any durations. In a round of no time the `select` of a
  cancelled loop may choose the timer again, so it can end several such rounds.
- `admin_handler.go:591` sets a team's score to 0 and leaves its rounds and adjustments,
  so the next recalculation undoes it; an edit of a team saves the row as it was read
  (`admin_handler.go:457`, `:553`, `auth_handler.go:723`) and puts an old score back.
- Teardowns and provisionings are goroutines nobody waits for (`game_service.go:91`,
  `:250`, `:282`): a teardown can take a network that a later provisioning of the same
  game counts on, and `container_service.go:147`, which ignores that the name is
  missing, then makes containers outside of it.
- `engine/health_checker.go:164` ignores a failed write, `:172` remembers the status
  all the same: the row stays wrong until the status changes again.
- `auth.go:134` refreshes a token until 24 hours after it expired, but the blacklist
  forgets it when it expires (`auth.go:35`, `:47`): the same token can be used for a
  refresh after its logout has been forgotten.
- `ratelimit.go:87`, "per username": the name the limiter counts is that of the query or
  the form if there is one (`:94`), the account is that of the body
  (`auth_handler.go:106`). `LimitIsKeptAndFair` holds of presented names, and
  of an account whose own name was always the one presented.
- `docs/USER_GUIDE.md:185`, "deletes the game and all its data": `DeleteGame`
  deletes the row only.
- `teams.score` is one number for all the games of a team.
- A resumed round is played without flags if the process died before they were
  generated: `ResumeGame` calls `onRoundStart` only when the round is 0.
- `adminHandler.CreateTeam` never saves the description, avatar and token it
  answers with.
- A role taken away and a user deleted keep their rights until their tokens expire;
  `ClaimsAgeOut` says that they do not keep them longer.
- `notify/README.md:19` and `:259`, an alert is not sent again while it is silenced:
  concurrent calls and partly failed ones do repeat it, and with no notifiers an
  alert is silenced that nobody got.
- With `RecoveryNotify` off, `monitor/health_checker.go` reports the first outage of
  a service and no later one, since only a recovery that is told resets the flag.
- `attack_log.go:82` applies the limit before the offset.

## 6. What is not modelled, and why

- **Event bus** (`eventbus/`): a goroutine per event and per subscriber; no order is
  promised and no state of the server depends on it.
- **Flag values and writers**, **Docker client and images**, **mail and chat
  notifiers**, **challenges**: outside calls, random strings and single-row
  operations. Where a modelled part depends on them they succeed or fail.
- **Score service, rankings, dashboard, export, audit, settings**: reads of tables
  that `Scoring` and `TeamAdmin` write. `AdjustScore` of the score service is not
  routed; the one of the administrator is in `Scoring`.
- **Permissions**: a fixed table and look-ups in it.
- **WAF, attack log, analysis**: regular expressions and rules over text, and
  append-only rows.
- **Passwords, names, descriptions, values of team tokens**: columns of one
  row that no other part reads.
- **Statistics and records** of the health checkers and the service monitor,
  `NetworkManager.Cleanup` and `CreateAdminNetwork` (nothing calls them).
- **A second game sharing teams** in `Scoring`: nothing says what the one column
  `teams.score` ought to hold then.
- **Data races** on the map of `round_handler.go` beyond the order of accesses.
- **Front end** `web/`: a client of the API.
