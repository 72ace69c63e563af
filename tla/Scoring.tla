------------------------------ MODULE Scoring ------------------------------
(***************************************************************************)
(* Flags, submissions and scores of one running game: FlagService          *)
(* (internal/service/flag_service.go), the handler that submits a flag,    *)
(* the ScoreCalculator of the engine (internal/engine/scoring.go), and     *)
(* the requests that write teams.score: AdjustScore, RestartContainer,     *)
(* ResetTeam, and the edits of a team, which save the whole row.           *)
(*                                                                         *)
(* Each of them makes several database calls, none in one transaction, and *)
(* takes no lock the others take.  A team has one service, so one flag in  *)
(* each round.                                                             *)
(***************************************************************************)
EXTENDS Integers, FiniteSets, Functions

CONSTANTS Teams,
          LastRound,      \* bound: rounds
          Lives,          \* bound: engines the game has, one after the other
          Requests,       \* bound: adjustments, restarts, resets and edits
          MaxCaptures,    \* bound: flags captured
          Points,         \* PointsEarned: BaseAttackPoints * game.AttackWeight
          AttackWeight, DefenseWeight,
          FirstBlood,     \* firstBloodBonusPoints
          Adjustment, Penalty,
          NoTeam

ASSUME BoundsAssumption ==
  /\ IsFiniteSet(Teams)
  /\ LastRound \in Nat \ {0} /\ Lives \in Nat \ {0} /\ {Requests, MaxCaptures} \subseteq Nat
  /\ {Points, AttackWeight, DefenseWeight, Adjustment, Penalty} \subseteq Int
  /\ FirstBlood \in Nat
  /\ NoTeam \notin Teams

VARIABLES
  round,      \* games.current_round
  engine,     \* what the engine does next, and what scoring has in hand
  life,       \* how many engines there have been
  flags,      \* flag_records
  captures,   \* the correct rows of flag_submissions
  detected,   \* the flags firstBloodDetector knows
  table,      \* round_scores
  adjusted,   \* the sum of score_adjustments, by team
  score,      \* teams.score
  updates,    \* UpdateCumulativeTeamScores under way: the engine's, the admin's
  restarted,  \* the team that is to pay for the restart of its container
  edit,       \* the team row an edit under way has read
  submit,     \* Submit: the round the request under way has read, or 0
  used,       \* adjustments, restarts, resets and edits made
  \* history
  intime,     \* the captures made while their round was played
  exact,      \* no writers of scores overlapped since a recalculation began
  spoilt      \* the teams whose score a reset or an edit changed since it was recalculated

scores == <<table, adjusted, score, updates, restarted, edit, used, spoilt>>
vars == <<round, engine, life, flags, captures, detected, scores, submit, intime, exact>>

Rounds == 1..LastRound
Flags == [round : Rounds, of : Teams]
Sheets == [Teams -> [attack : Int, loss : Int, bonus : Int]]
NoSheet == [t \in Teams |-> [attack |-> 0, loss |-> 0, bonus |-> 0]]
Blank == [attack |-> 0, loss |-> 0, bonus |-> 0, there |-> FALSE]
Total(row) == row.attack * AttackWeight - row.loss * DefenseWeight + row.bonus

Doing(at) == [at |-> at, sheet |-> NoSheet, todo |-> {}]
Writers == {"engine", "admin"}
Zero == [t \in Teams |-> 0]
Idle == [at |-> "idle", sum |-> Zero, todo |-> {}]
NoEdit == [team |-> NoTeam, score |-> 0]

TypeOK ==
  /\ round \in 0..LastRound /\ life \in 1..Lives
  /\ engine \in [at : {"start", "flags", "play", "read", "rows", "update", "over"},
                 sheet : Sheets, todo : SUBSET Teams]
  /\ flags \subseteq Flags /\ detected \subseteq Flags
  /\ captures \subseteq [flag : Flags, by : Teams] /\ intime \subseteq captures
  /\ table \in [Rounds -> [Teams ->
                  [attack : Int, loss : Int, bonus : Int, there : BOOLEAN]]]
  /\ adjusted \in [Teams -> Int] /\ score \in [Teams -> Int]
  /\ updates \in [Writers -> [at : {"idle", "sum", "adjust", "write"},
                              sum : [Teams -> Int], todo : SUBSET Teams]]
  /\ restarted \in Teams \cup {NoTeam}
  /\ submit \in 0..LastRound
  /\ edit \in [team : Teams \cup {NoTeam}, score : Int]
  /\ used \in 0..Requests /\ exact \in BOOLEAN /\ spoilt \subseteq Teams

Init ==
  /\ round = 0 /\ engine = Doing("start") /\ life = 1
  /\ flags = {} /\ captures = {} /\ detected = {}
  /\ table = [r \in Rounds |-> [t \in Teams |-> Blank]]
  /\ adjusted = Zero /\ score = Zero /\ updates = [w \in Writers |-> Idle]
  /\ restarted = NoTeam /\ edit = NoEdit /\ submit = 0 /\ used = 0
  /\ intime = {} /\ exact = TRUE /\ spoilt = {}
-----------------------------------------------------------------------------
(***************************************************************************)
(* Submit reads the game, SubmitFlag looks the flag up and inserts.        *)
(***************************************************************************)
\* One request at a time: those that wait do not change anything.
ReadGame ==
  /\ submit = 0 /\ engine.at # "over" /\ submit' = round
  /\ UNCHANGED <<round, engine, life, flags, captures, detected, scores, intime, exact>>

\* A flag of another round, or the team's own, is not taken; a second capture of
\* a flag meets the unique index.
SubmitFlag ==
  /\ submit # 0 /\ submit' = 0
  /\ \/ UNCHANGED <<captures, intime>>
     \/ \E f \in flags, by \in Teams :
          LET c == [flag |-> f, by |-> by] IN
          /\ f.round = submit /\ f.of # by
          /\ Cardinality(captures) < MaxCaptures
          /\ captures' = captures \cup {c}
          /\ intime' = IF engine.at = "play" /\ f.round = round THEN intime \cup {c} ELSE intime
  /\ UNCHANGED <<round, engine, life, flags, detected, scores, exact>>
-----------------------------------------------------------------------------
(***************************************************************************)
(* The engine.                                                             *)
(***************************************************************************)
Rest(at) == engine' = Doing(at)

\* After the break (and at first), onRoundStart writes the round, then generates
\* its flags.
RoundStart ==
  /\ engine.at = "start" /\ Rest("flags") /\ round' = round + 1
  /\ UNCHANGED <<life, flags, captures, detected, scores, submit, intime, exact>>

GenerateFlags ==
  /\ engine.at = "flags" /\ Rest("play")
  /\ flags' = flags \cup [round : {round}, of : Teams]
  /\ UNCHANGED <<round, life, captures, detected, scores, submit, intime, exact>>

RoundEnd ==
  /\ engine.at = "play" /\ Rest("read")
  /\ UNCHANGED <<round, life, flags, captures, detected, scores, submit, intime, exact>>

\* The captures of a set, per team; of each flag not yet detected, one capture
\* (the first row the database gives) earns the bonus.
Captors(subs) == {w \in [{c.flag : c \in subs} \ detected -> Teams] :
                    \A f \in DOMAIN w : [flag |-> f, by |-> w[f]] \in subs}
Sheet(subs, first) ==
  [t \in Teams |->
    [attack |-> Points * Cardinality({c \in subs : c.by = t}),
     loss   |-> Points * Cardinality({c \in subs : c.flag.of = t}),
     bonus  |-> FirstBlood * Cardinality({f \in DOMAIN first : first[f] = t})]]

\* Mutant: the submissions of all rounds are read.
ReadSubmissions_AllRounds ==
  /\ engine.at = "read"
  /\ \E first \in Captors(captures) :
       /\ engine' = [at |-> "rows", sheet |-> Sheet(captures, first), todo |-> Teams]
       /\ detected' = detected \cup DOMAIN first
  /\ UNCHANGED <<round, life, flags, captures, scores, submit, intime, exact>>

ReadSubmissions ==
  /\ engine.at = "read"
  /\ LET subs == {c \in captures : c.flag.round = round} IN
     \E first \in Captors(subs) :
       /\ engine' = [at |-> "rows", sheet |-> Sheet(subs, first), todo |-> Teams]
       /\ detected' = detected \cup DOMAIN first
  /\ UNCHANGED <<round, life, flags, captures, scores, submit, intime, exact>>

\* A row that is there, from an engine before, is overwritten.
WriteRow ==
  /\ engine.at = "rows"
  /\ \E t \in engine.todo :
       /\ table' = [table EXCEPT ![round][t] =
                     [attack |-> engine.sheet[t].attack, loss |-> engine.sheet[t].loss,
                      bonus |-> engine.sheet[t].bonus, there |-> TRUE]]
       /\ engine' = [engine EXCEPT !.todo = @ \ {t}]
  /\ UNCHANGED <<round, life, flags, captures, detected, adjusted, score, updates,
                 restarted, edit, used, spoilt, submit, intime, exact>>

Busy(w) == updates[w].at # "idle"
Begin(w) ==
  /\ updates' = [updates EXCEPT ![w].at = "sum"]
  /\ exact' = (restarted = NoTeam /\ \A v \in Writers : ~Busy(v))

UpdateScores ==
  /\ engine.at = "rows" /\ engine.todo = {} /\ Rest("update") /\ Begin("engine")
  /\ UNCHANGED <<round, life, flags, captures, detected, table, adjusted, score,
                 restarted, edit, used, spoilt, submit, intime>>

Break ==
  /\ engine.at = "update" /\ ~Busy("engine")
  /\ Rest(IF round = LastRound THEN "over" ELSE "start")
  /\ UNCHANGED <<round, life, flags, captures, detected, scores, submit, intime, exact>>

\* The process dies; a later ResumeGame plays the round of the row again, with
\* its flags as they are and a new ScoreCalculator.
Restored ==
  /\ life < Lives /\ life' = life + 1 /\ engine.at # "over"
  /\ Rest(IF round = 0 THEN "start" ELSE "play") /\ detected' = {}
  /\ updates' = [w \in Writers |-> Idle] /\ restarted' = NoTeam
  /\ edit' = NoEdit /\ submit' = 0
  /\ exact' = (exact /\ restarted = NoTeam /\ (\A w \in Writers : ~Busy(w))
                     /\ engine.at \notin {"rows", "update"})
  /\ UNCHANGED <<round, flags, captures, table, adjusted, score, used, spoilt, intime>>

Engine ==
  \/ RoundStart \/ GenerateFlags \/ RoundEnd \/ ReadSubmissions \/ WriteRow
  \/ UpdateScores \/ Break \/ Restored
-----------------------------------------------------------------------------
(***************************************************************************)
(* UpdateCumulativeTeamScores, of the engine (w) or of AdjustScore.        *)
(***************************************************************************)
InTable(t) == \E r \in Rounds : table[r][t].there
Earned(t) == SumFunction([r \in Rounds |-> Total(table[r][t])])

SumRounds(w) ==
  /\ updates[w].at = "sum"
  /\ updates' = [updates EXCEPT ![w] = [at |-> "adjust", sum |-> [t \in Teams |-> Earned(t)],
                                        todo |-> {t \in Teams : InTable(t)}]]
  /\ UNCHANGED <<table, adjusted, score, spoilt>>

SumAdjustments(w) ==
  /\ updates[w].at = "adjust"
  /\ updates' = [updates EXCEPT ![w] = [at |-> "write", todo |-> @.todo,
                   sum |-> [t \in Teams |-> updates[w].sum[t] + adjusted[t]]]]
  /\ UNCHANGED <<table, adjusted, score, spoilt>>

\* Mutant: the sum is added to the score.
WriteScores_Adds(w) ==
  /\ updates[w].at = "write"
  /\ IF updates[w].todo = {}
     THEN updates' = [updates EXCEPT ![w] = Idle] /\ UNCHANGED <<score, spoilt>>
     ELSE \E t \in updates[w].todo :
            /\ score' = [score EXCEPT ![t] = @ + updates[w].sum[t]]
            /\ updates' = [updates EXCEPT ![w].todo = @ \ {t}]
            /\ spoilt' = spoilt \ {t}
  /\ UNCHANGED <<table, adjusted>>

WriteScores(w) ==
  /\ updates[w].at = "write"
  /\ IF updates[w].todo = {}
     THEN updates' = [updates EXCEPT ![w] = Idle] /\ UNCHANGED <<score, spoilt>>
     ELSE \E t \in updates[w].todo :
            /\ score' = [score EXCEPT ![t] = updates[w].sum[t]]
            /\ updates' = [updates EXCEPT ![w].todo = @ \ {t}]
            /\ spoilt' = spoilt \ {t}
  /\ UNCHANGED <<table, adjusted>>

Update(w) ==
  /\ SumRounds(w) \/ SumAdjustments(w) \/ WriteScores(w)
  /\ UNCHANGED <<round, engine, life, flags, captures, detected, restarted, edit, used,
                 submit, intime, exact>>

\* AdjustScore inserts the adjustment and recalculates.
AdjustScore(t) ==
  /\ used < Requests /\ used' = used + 1 /\ ~Busy("admin")
  /\ adjusted' = [adjusted EXCEPT ![t] = @ + Adjustment] /\ Begin("admin")
  /\ UNCHANGED <<round, engine, life, flags, captures, detected, table, score, restarted,
                 edit, spoilt, submit, intime>>

\* RestartContainer inserts the penalty and takes it off the score.
RestartPenalty(t) ==
  /\ used < Requests /\ used' = used + 1 /\ restarted = NoTeam /\ restarted' = t
  /\ adjusted' = [adjusted EXCEPT ![t] = @ - Penalty]
  /\ exact' = (exact /\ \A w \in Writers : ~Busy(w))
  /\ UNCHANGED <<round, engine, life, flags, captures, detected, table, score, updates,
                 edit, spoilt, submit, intime>>

RestartPays ==
  /\ restarted # NoTeam /\ restarted' = NoTeam
  /\ score' = [score EXCEPT ![restarted] = @ - Penalty]
  /\ UNCHANGED <<round, engine, life, flags, captures, detected, table, adjusted, updates,
                 edit, used, spoilt, submit, intime, exact>>

Overwrite(t, s) ==
  /\ score' = [score EXCEPT ![t] = s]
  /\ spoilt' = IF score[t] = s THEN spoilt ELSE spoilt \cup {t}

\* Its rounds and its adjustments stay.
ResetTeam(t) ==
  /\ used < Requests /\ used' = used + 1 /\ Overwrite(t, 0)
  /\ UNCHANGED <<round, engine, life, flags, captures, detected, table, adjusted, updates,
                 restarted, edit, submit, intime, exact>>

\* UpdateTeam and Update read the row, score and all ...
ReadRow(t) ==
  /\ used < Requests /\ used' = used + 1 /\ edit.team = NoTeam
  /\ edit' = [team |-> t, score |-> score[t]]
  /\ UNCHANGED <<round, engine, life, flags, captures, detected, table, adjusted, score,
                 updates, restarted, spoilt, submit, intime, exact>>

\* ... and save it whole, unless the request is refused.
SaveRow ==
  /\ edit.team # NoTeam /\ edit' = NoEdit
  /\ Overwrite(edit.team, edit.score) \/ UNCHANGED <<score, spoilt>>
  /\ UNCHANGED <<round, engine, life, flags, captures, detected, table, adjusted, updates,
                 restarted, used, submit, intime, exact>>

ByHand(t) == AdjustScore(t) \/ RestartPenalty(t) \/ ResetTeam(t) \/ ReadRow(t)

Next ==
  \/ Engine \/ ReadGame \/ SubmitFlag \/ RestartPays \/ SaveRow
  \/ \E w \in Writers : Update(w)
  \/ \E t \in Teams : ByHand(t)

Spec == Init /\ [][Next]_vars
-----------------------------------------------------------------------------
(***************************************************************************)
(* Properties.                                                             *)
(***************************************************************************)
Scored(r) == r < round \/ (r = round /\ engine.at \in {"update", "start", "over"})

\* The rows of a scored round count one set of captures for attackers, victims
\* and bonuses alike: all that were made in time and none of another round; each
\* captured flag has one first blood, also when a new engine scores the round
\* again.
RoundTableIsRight ==
  \A r \in Rounds : Scored(r) =>
    \E late \in SUBSET {c \in captures \ intime : c.flag.round = r} :
      LET subs == late \cup {c \in intime : c.flag.round = r} IN
      /\ \A t \in Teams : table[r][t].there
           /\ table[r][t].attack = Points * Cardinality({c \in subs : c.by = t})
           /\ table[r][t].loss = Points * Cardinality({c \in subs : c.flag.of = t})
           /\ table[r][t].bonus <= FirstBlood * Cardinality({c \in subs : c.by = t})
      /\ SumFunction([t \in Teams |-> table[r][t].bonus])
           = FirstBlood * Cardinality({c.flag : c \in subs})

\* When no recalculation or penalty is under way, and none overlapped since the
\* last recalculation began, the score of a team is the sum of its rounds and
\* its adjustments, penalties counted once, also when a reset or a stale row was
\* written before or during the recalculation; only a team whose score was so
\* changed after the recalculation had written it waits for the next one.
ScoreIsTheSum ==
  exact /\ restarted = NoTeam /\ (\A w \in Writers : ~Busy(w)) /\ engine.at \notin {"rows", "update"}
    => \A t \in Teams \ spoilt : InTable(t) => score[t] = Earned(t) + adjusted[t]
=============================================================================
