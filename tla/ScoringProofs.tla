---------------------------- MODULE ScoringProofs ----------------------------
(***************************************************************************)
(* Proofs about Scoring: its types, that a score is the sum of what its    *)
(* team earned, and that the table of a round is worth what was captured,  *)
(* for any teams, rounds, captures and weights.                            *)
(***************************************************************************)
EXTENDS Scoring, Sums

Captures == [flag : Flags, by : Teams]

\* A game has finitely many teams and rounds, so finitely many captures.
LEMMA FiniteCaptures == \A subs \in SUBSET Captures : IsFiniteSet(subs)
<1>1. IsFiniteSet(Rounds) /\ IsFiniteSet(Teams)
  BY BoundsAssumption, FS_Interval DEF Rounds
<1>2. IsFiniteSet(Flags)
  <2> DEFINE f == [x \in Flags |-> <<x.round, x.of>>]
  <2>1. f \in Injection(Flags, Rounds \X Teams)
    BY DEF Injection, IsInjective, Flags
  <2> QED BY <1>1, <2>1, FS_Product, FS_Injection
<1>3. IsFiniteSet(Captures)
  <2> DEFINE f == [x \in Captures |-> <<x.flag, x.by>>]
  <2>1. f \in Injection(Captures, Flags \X Teams)
    BY DEF Injection, IsInjective, Captures
  <2> QED BY <1>1, <1>2, <2>1, FS_Product, FS_Injection
<1> QED BY <1>3, FS_Subset

\* Whole numbers have whole products.
LEMMA Products == \A m, n \in Int : m * n \in Int
OBVIOUS

\* A sheet of whole numbers is worked out.
LEMMA SheetOK ==
  ASSUME NEW subs \in SUBSET Captures, NEW first, IsFiniteSet(DOMAIN first)
  PROVE  Sheet(subs, first) \in Sheets
<1>1. ASSUME NEW t \in Teams
      PROVE  /\ Points * Cardinality({c \in subs : c.by = t}) \in Int
             /\ Points * Cardinality({c \in subs : c.flag.of = t}) \in Int
             /\ FirstBlood * Cardinality({f \in DOMAIN first : first[f] = t}) \in Int
  <2>1. /\ IsFiniteSet({c \in subs : c.by = t}) /\ IsFiniteSet({c \in subs : c.flag.of = t})
        /\ IsFiniteSet({f \in DOMAIN first : first[f] = t})
    BY FiniteCaptures, FS_Subset
  <2>2. /\ Cardinality({c \in subs : c.by = t}) \in Int
        /\ Cardinality({c \in subs : c.flag.of = t}) \in Int
        /\ Cardinality({f \in DOMAIN first : first[f] = t}) \in Int
    BY <2>1, FS_CardinalityType
  <2>3. Points \in Int /\ FirstBlood \in Int
    BY BoundsAssumption
  <2> QED BY <2>2, <2>3, Products
<1> QED BY <1>1 DEF Sheet, Sheets

\* Who is first for a flag is one who captured it, and flags are finitely many.
LEMMA CaptorsOK ==
  ASSUME NEW subs \in SUBSET Captures, NEW first \in Captors(subs)
  PROVE  /\ DOMAIN first = {c.flag : c \in subs} \ detected
         /\ DOMAIN first \subseteq Flags /\ IsFiniteSet(DOMAIN first)
         /\ \A f \in DOMAIN first : first[f] \in Teams /\ [flag |-> f, by |-> first[f]] \in subs
<1>1. /\ DOMAIN first = {c.flag : c \in subs} \ detected
      /\ \A f \in DOMAIN first : first[f] \in Teams /\ [flag |-> f, by |-> first[f]] \in subs
  BY DEF Captors
<1>2. DOMAIN first \subseteq Flags
  BY <1>1 DEF Captures
<1>3. IsFiniteSet(DOMAIN first)
  <2> DEFINE g == [f \in DOMAIN first |-> [flag |-> f, by |-> first[f]]]
  <2>1. g \in Injection(DOMAIN first, subs)
    BY <1>1 DEF Injection, IsInjective
  <2> QED BY <2>1, FiniteCaptures, FS_Injection
<1> QED BY <1>1, <1>2, <1>3

\* The scores of a team are whole numbers.
LEMMA EarnedInt == ASSUME TypeOK, NEW t \in Teams PROVE Earned(t) \in Int
<1> DEFINE g == [r \in Rounds |-> Total(table[r][t])]
<1>1. \A r \in Rounds : g[r] \in Int
  <2> SUFFICES ASSUME NEW r \in Rounds PROVE Total(table[r][t]) \in Int
    OBVIOUS
  <2>1. table[r][t] \in [attack : Int, loss : Int, bonus : Int, there : BOOLEAN]
    BY DEF TypeOK
  <2>2. /\ table[r][t].attack * AttackWeight \in Int /\ table[r][t].loss * DefenseWeight \in Int
        /\ table[r][t].bonus \in Int
    BY <2>1, BoundsAssumption, Products
  <2> QED BY <2>2 DEF Total
<1>2. IsFiniteSet(Rounds)
  BY BoundsAssumption, FS_Interval DEF Rounds
<1>3. Earned(t) = Sum(g, Rounds)
  BY DEF Earned, SumFunction, Sum
<1> HIDE DEF g
<1> QED BY <1>1, <1>2, <1>3, SumInt

\* An engine at one of its places is well formed.
LEMMA RestOK ==
  ASSUME NEW at \in {"start", "flags", "play", "read", "rows", "update", "over"}, Rest(at)
  PROVE  engine' \in [at : {"start", "flags", "play", "read", "rows", "update", "over"},
                      sheet : Sheets, todo : SUBSET Teams]
BY DEF Rest, Doing, NoSheet, Sheets

\* An adjustment that is not under way is well formed.
LEMMA IdleOK ==
  Idle \in [at : {"idle", "sum", "adjust", "write"}, sum : [Teams -> Int], todo : SUBSET Teams]
BY DEF Idle, Zero


\* A round is under way from its start on, and none is started after the last.
RoundsInOrder == IF engine.at = "start" THEN round < LastRound ELSE round > 0

Updates == [at : {"idle", "sum", "adjust", "write"}, sum : [Teams -> Int], todo : SUBSET Teams]
Engines == [at : {"start", "flags", "play", "read", "rows", "update", "over"},
            sheet : Sheets, todo : SUBSET Teams]

\* Every step keeps the types, and the round the engine plays in bounds.
LEMMA TypeStep == ASSUME TypeOK, RoundsInOrder, [Next]_vars PROVE TypeOK' /\ RoundsInOrder'
<1> USE DEF TypeOK, RoundsInOrder
<1>0. /\ \A r \in 0..LastRound : r > 0 => r \in Rounds
      /\ LastRound \in Nat /\ Requests \in Nat /\ Lives \in Nat
      /\ Adjustment \in Int /\ Penalty \in Int
  BY BoundsAssumption DEF Rounds
<1>a. \A at : Doing(at).at = at
  BY DEF Doing
<1>1. CASE ReadGame
  BY <1>1 DEF ReadGame, scores
<1>2. CASE SubmitFlag
  <2>1. UNCHANGED <<round, life, engine, flags, detected, scores, exact>>
    BY <1>2 DEF SubmitFlag
  <2>2. submit' \in 0..LastRound
    BY <1>0, <1>2 DEF SubmitFlag
  <2>3. captures' \subseteq Captures /\ intime' \subseteq captures'
    BY <1>2 DEF SubmitFlag, Captures
  <2> QED BY <2>1, <2>2, <2>3 DEF scores, Captures
<1>3. CASE RoundStart \/ GenerateFlags \/ RoundEnd \/ Break
  <2>1. engine' \in Engines
    BY <1>3, RestOK DEF RoundStart, GenerateFlags, RoundEnd, Break, Engines
  <2>2. round' \in 0..LastRound /\ RoundsInOrder'
    BY <1>0, <1>3, <1>a DEF RoundStart, GenerateFlags, RoundEnd, Break, Rest
  <2>3. flags' \subseteq Flags
    BY <1>0, <1>3 DEF RoundStart, GenerateFlags, RoundEnd, Break, Flags
  <2>4. UNCHANGED <<life, captures, detected, scores, submit, intime, exact>>
    BY <1>3 DEF RoundStart, GenerateFlags, RoundEnd, Break
  <2> QED BY <2>1, <2>2, <2>3, <2>4 DEF scores, Engines
<1>4. CASE ReadSubmissions
  <2> DEFINE subs == {c \in captures : c.flag.round = round}
  <2>1. PICK first \in Captors(subs) :
          /\ engine' = [at |-> "rows", sheet |-> Sheet(subs, first), todo |-> Teams]
          /\ detected' = detected \cup DOMAIN first
    BY <1>4 DEF ReadSubmissions
  <2>2. subs \in SUBSET Captures
    BY DEF Captures
  <2> HIDE DEF subs
  <2>3. Sheet(subs, first) \in Sheets /\ detected' \subseteq Flags
    BY <2>1, <2>2, SheetOK, CaptorsOK
  <2>4. UNCHANGED <<round, life, flags, captures, scores, submit, intime, exact>> /\ round > 0
    BY <1>4 DEF ReadSubmissions
  <2> QED BY <2>1, <2>3, <2>4 DEF scores
<1>5. CASE WriteRow
  <2>1. PICK t \in engine.todo :
          /\ table' = [table EXCEPT ![round][t] =
                     [attack |-> engine.sheet[t].attack, loss |-> engine.sheet[t].loss,
                      bonus |-> engine.sheet[t].bonus, there |-> TRUE]]
          /\ engine' = [engine EXCEPT !.todo = engine.todo \ {t}]
    BY <1>5 DEF WriteRow
  <2>2. engine' \in Engines /\ engine'.at = engine.at
    BY <2>1 DEF Engines
  <2>3. engine.sheet[t] \in [attack : Int, loss : Int, bonus : Int] /\ t \in Teams
    BY DEF Sheets
  <2>4. table' \in [Rounds -> [Teams -> [attack : Int, loss : Int, bonus : Int, there : BOOLEAN]]]
    BY <2>1, <2>3
  <2> QED BY <1>5, <2>2, <2>4 DEF WriteRow, Engines
<1>6. CASE UpdateScores
  <2>1. engine' \in Engines /\ RoundsInOrder'
    BY <1>6, <1>a, RestOK DEF UpdateScores, Engines, Rest
  <2>2. updates' \in [Writers -> [at : {"idle", "sum", "adjust", "write"},
                              sum : [Teams -> Int], todo : SUBSET Teams]]
    BY <1>6 DEF UpdateScores, Begin, Writers
  <2> QED BY <1>6, <2>1, <2>2 DEF UpdateScores, Begin, Engines
<1>7. CASE Restored
  <2>1. engine' \in Engines /\ RoundsInOrder'
    BY <1>0, <1>7, <1>a, RestOK DEF Restored, Engines, Rest
  <2> QED BY <1>0, <1>7, <2>1, IdleOK DEF Restored, Engines, NoEdit
<1>8. ASSUME NEW w \in Writers, Update(w)
      PROVE  TypeOK' /\ RoundsInOrder'
  <2>1. /\ UNCHANGED <<round, engine, life, flags, captures, detected, restarted, edit, used,
                       submit, intime, exact, table, adjusted>>
        /\ spoilt' \subseteq Teams
    BY <1>8 DEF Update, SumRounds, SumAdjustments, WriteScores
  <2>2. CASE SumRounds(w)
    <3>1. updates' \in [Writers -> Updates]
      BY <2>2, EarnedInt DEF SumRounds, Updates
    <3> QED BY <2>1, <2>2, <3>1 DEF SumRounds, Updates
  <2>3. CASE SumAdjustments(w)
    <3>1. updates[w].todo \in SUBSET Teams /\ updates[w].sum \in [Teams -> Int]
      BY <1>8
    <3>2. [t \in Teams |-> updates[w].sum[t] + adjusted[t]] \in [Teams -> Int]
      BY <3>1
    <3>3. updates' \in [Writers -> Updates]
      BY <2>3, <3>1, <3>2 DEF SumAdjustments, Updates
    <3> QED BY <2>1, <2>3, <3>3 DEF SumAdjustments, Updates
  <2>4. CASE WriteScores(w)
    <3>1. updates[w] \in Updates
      BY <1>8 DEF Updates
    <3>2. CASE updates[w].todo = {}
      BY <2>1, <2>4, <3>2, IdleOK DEF WriteScores
    <3>3. CASE updates[w].todo # {}
      <4>1. PICK t \in updates[w].todo :
              /\ score' = [score EXCEPT ![t] = updates[w].sum[t]]
              /\ updates' = [updates EXCEPT ![w].todo = updates[w].todo \ {t}]
        BY <2>4, <3>3 DEF WriteScores
      <4>2. updates' \in [Writers -> Updates]
        BY <3>1, <4>1 DEF Updates
      <4>3. score' \in [Teams -> Int]
        BY <3>1, <4>1 DEF Updates
      <4> QED BY <2>1, <4>2, <4>3 DEF Updates
    <3> QED BY <3>2, <3>3
  <2> QED BY <1>8, <2>2, <2>3, <2>4 DEF Update
<1>9. ASSUME NEW t \in Teams, AdjustScore(t) \/ RestartPenalty(t)
      PROVE  TypeOK' /\ RoundsInOrder'
  <2>1. adjusted' \in [Teams -> Int] /\ used' \in 0..Requests
    BY <1>0, <1>9 DEF AdjustScore, RestartPenalty
  <2>3. exact' \in BOOLEAN
    BY <1>9, Zenon DEF AdjustScore, RestartPenalty, Begin
  <2>2. updates' \in [Writers -> Updates]
    <3>1. CASE updates' = updates
      BY <3>1 DEF Updates
    <3>2. CASE updates' = [updates EXCEPT !["admin"].at = "sum"]
      BY <3>2 DEF Updates, Writers
    <3> QED BY <1>9, <3>1, <3>2 DEF AdjustScore, RestartPenalty, Begin
  <2> QED BY <1>9, <2>1, <2>2, <2>3 DEF AdjustScore, RestartPenalty, Updates
<1>10. CASE RestartPays
  BY <1>0, <1>10 DEF RestartPays
<1>11. CASE UNCHANGED vars
  BY <1>11 DEF vars, scores
<1>12. ASSUME NEW t \in Teams, ResetTeam(t) \/ ReadRow(t)
       PROVE  TypeOK' /\ RoundsInOrder'
  <2>1. /\ score' \in [Teams -> Int] /\ spoilt' \subseteq Teams /\ used' \in 0..Requests
        /\ edit' \in [team : Teams \cup {NoTeam}, score : Int]
    BY <1>0, <1>12 DEF ResetTeam, ReadRow, Overwrite
  <2> QED BY <1>12, <2>1 DEF ResetTeam, ReadRow
<1>13. CASE SaveRow
  <2>1. /\ score' \in [Teams -> Int] /\ spoilt' \subseteq Teams
        /\ edit' \in [team : Teams \cup {NoTeam}, score : Int]
    <3>1. CASE Overwrite(edit.team, edit.score)
      BY <1>13, <3>1 DEF SaveRow, Overwrite, NoEdit
    <3>2. CASE UNCHANGED <<score, spoilt>>
      BY <1>13, <3>2 DEF SaveRow, NoEdit
    <3> QED BY <1>13, <3>1, <3>2 DEF SaveRow
  <2> QED BY <1>13, <2>1 DEF SaveRow
<1> QED
  BY <1>1, <1>2, <1>3, <1>4, <1>5, <1>6, <1>7, <1>8, <1>9, <1>10, <1>11, <1>12, <1>13
  DEF Next, Engine, ByHand

TypeInv == TypeOK /\ RoundsInOrder

\* The types hold at first.
LEMMA InitType == Init => TypeInv
<1> SUFFICES ASSUME Init PROVE TypeInv
  OBVIOUS
<1>1. engine \in Engines /\ round \in 0..LastRound /\ RoundsInOrder
  BY BoundsAssumption DEF Init, Doing, NoSheet, Sheets, Engines, RoundsInOrder
<1>2. /\ table \in [Rounds -> [Teams -> [attack : Int, loss : Int, bonus : Int, there : BOOLEAN]]]
      /\ adjusted \in [Teams -> Int] /\ score \in [Teams -> Int]
  BY DEF Init, Blank, Zero
<1> QED BY <1>1, <1>2, IdleOK, BoundsAssumption DEF Init, TypeInv, TypeOK, Engines, NoEdit

\* Every variable stays within its type: a round's row is whole, a score a number.
THEOREM TypeCorrect == Spec => []TypeOK
BY InitType, TypeStep, PTL DEF Spec, TypeInv
-----------------------------------------------------------------------------
\* A score lacks only what the restart under way will take off.
Owed(t) == IF restarted = t THEN Penalty ELSE 0
Stands(t) == score[t] = Earned(t) + adjusted[t] + Owed(t)

\* What a recalculation has in hand, and what it has written.
Tells(w) ==
  /\ updates[w].at = "adjust" =>
       /\ updates[w].todo = {t \in Teams : InTable(t)}
       /\ \A t \in Teams : updates[w].sum[t] = Earned(t)
  /\ updates[w].at = "write" => \A t \in Teams : InTable(t) =>
       /\ updates[w].sum[t] = Earned(t) + adjusted[t]
       /\ t \in updates[w].todo \cup spoilt \/ score[t] = updates[w].sum[t]

\* While the engine writes its rows nothing is said of the scores: it will
\* recalculate them.
SumInv ==
  /\ Busy("engine") => engine.at = "update"
  /\ exact =>
       /\ ~(Busy("engine") /\ Busy("admin"))
       /\ restarted # NoTeam => \A w \in Writers : ~Busy(w)
       /\ engine.at # "rows" =>
            /\ \A w \in Writers : Tells(w)
            /\ (\A w \in Writers : ~Busy(w)) =>
                 \A t \in Teams \ spoilt : InTable(t) => Stands(t)

\* What a team earned stays as long as the table does.
LEMMA TableStays ==
  ASSUME UNCHANGED table
  PROVE  \A t \in Teams : Earned(t)' = Earned(t) /\ InTable(t)' = InTable(t)
BY DEF Earned, InTable

\* Every step keeps the scores what the table, and what was adjusted, adds up to.
LEMMA SumStep == ASSUME TypeInv, TypeInv', SumInv, [Next]_vars PROVE SumInv'
<1>0. /\ updates \in [Writers -> Updates] /\ "engine" \in Writers /\ "admin" \in Writers
      /\ restarted \in Teams \cup {NoTeam} /\ exact \in BOOLEAN
      /\ score \in [Teams -> Int] /\ adjusted \in [Teams -> Int]
      /\ Adjustment \in Int /\ Penalty \in Int /\ NoTeam \notin Teams
      /\ \A t \in Teams : Earned(t) \in Int
  BY EarnedInt, BoundsAssumption DEF TypeInv, TypeOK, Updates, Writers
\* A step that leaves the table alone, and the scores but of a team it spoils.
<1>a. ASSUME UNCHANGED <<table, adjusted, updates, restarted, exact>>, spoilt \subseteq spoilt',
             \A t \in Teams \ spoilt' : score'[t] = score[t],
             engine.at # "rows" \/ engine'.at = "rows",
             Busy("engine") => engine'.at = "update"
      PROVE  SumInv'
  <2>1. \A w \in Writers : Tells(w) => Tells(w)'
    BY <1>a, TableStays DEF Tells
  <2>2. \A t \in Teams \ spoilt' : Stands(t) => Stands(t)'
    BY <1>a, TableStays DEF Stands, Owed
  <2> QED BY <1>a, <2>1, <2>2, TableStays DEF SumInv, Busy
<1>1. CASE ReadGame \/ SubmitFlag \/ UNCHANGED vars
  BY <1>1, <1>a DEF ReadGame, SubmitFlag, vars, scores, SumInv
<1>2. CASE RoundStart \/ GenerateFlags \/ RoundEnd \/ ReadSubmissions \/ Break
  <2>1. UNCHANGED scores /\ UNCHANGED exact /\ engine.at # "rows" /\ ~Busy("engine")
    BY <1>2 DEF RoundStart, GenerateFlags, RoundEnd, ReadSubmissions, Break, SumInv
  <2> QED BY <2>1, <1>a DEF scores
<1>3. CASE WriteRow
  <2>1. engine.at = "rows" /\ engine'.at = "rows" /\ UNCHANGED <<updates, restarted, exact>>
    BY <1>3 DEF WriteRow, TypeInv, TypeOK
  <2> QED BY <2>1 DEF SumInv, Busy
<1>4. CASE UpdateScores
  <2>1. /\ engine.at = "rows" /\ engine'.at = "update" /\ UNCHANGED restarted
        /\ updates' = [updates EXCEPT !["engine"].at = "sum"]
        /\ exact' = (restarted = NoTeam /\ \A v \in Writers : ~Busy(v))
    BY <1>4 DEF UpdateScores, Begin, Rest, Doing
  <2>2. updates'["engine"].at = "sum" /\ updates'["admin"] = updates["admin"]
    BY <1>0, <2>1 DEF Updates
  <2>3. exact' => updates["admin"].at = "idle" /\ restarted = NoTeam
    BY <1>0, <2>1 DEF Busy
  <2> QED BY <2>1, <2>2, <2>3 DEF SumInv, Busy, Tells, Writers
<1>5. CASE Restored
  <2>1. /\ updates' = [w \in Writers |-> Idle] /\ restarted' = NoTeam
        /\ UNCHANGED <<table, adjusted, score, spoilt>> /\ engine'.at # "rows"
        /\ exact' => /\ exact /\ restarted = NoTeam /\ \A w \in Writers : ~Busy(w)
                     /\ engine.at # "rows"
    BY <1>5 DEF Restored, Rest, Doing
  <2>2. \A w \in Writers : updates'[w].at = "idle"
    BY <2>1 DEF Idle
  <2>3. exact' => \A t \in Teams \ spoilt : InTable(t)' => Stands(t)'
    BY <1>0, <2>1, TableStays DEF SumInv, Stands, Owed
  <2> QED BY <1>0, <2>1, <2>2, <2>3 DEF SumInv, Busy, Tells
<1>6. ASSUME NEW w \in Writers, Update(w) PROVE SumInv'
  <2>0. /\ UNCHANGED <<engine, table, adjusted, restarted, exact>> /\ spoilt' \subseteq spoilt
        /\ \A v \in Writers : v # w => updates'[v] = updates[v]
        /\ updates[w].at # "idle" /\ Busy(w)
    BY <1>6, <1>0 DEF Update, SumRounds, SumAdjustments, WriteScores, Busy
  <2>1. ASSUME exact, engine.at # "rows"
        PROVE  Tells(w)' /\ (~Busy(w)' => \A t \in Teams \ spoilt' : InTable(t) => Stands(t)')
    <3>0. restarted = NoTeam /\ Tells(w)
      BY <2>0, <2>1 DEF SumInv
    <3>1. CASE SumRounds(w)
      <4>1. updates'[w] = [at |-> "adjust", sum |-> [t \in Teams |-> Earned(t)],
                           todo |-> {t \in Teams : InTable(t)}]
        BY <1>0, <3>1 DEF SumRounds
      <4> QED BY <4>1, <2>0, TableStays DEF Tells, Busy
    <3>2. CASE SumAdjustments(w)
      <4>1. /\ updates[w].at = "adjust"
            /\ updates'[w] = [at |-> "write", todo |-> updates[w].todo,
                              sum |-> [t \in Teams |-> updates[w].sum[t] + adjusted[t]]]
        BY <1>0, <3>2 DEF SumAdjustments
      <4> QED BY <4>1, <2>0, <3>0, TableStays DEF Tells, Busy
    <3>3. CASE WriteScores(w)
      <4>1. CASE updates[w].todo = {}
        <5>1. updates'[w] = Idle /\ updates[w].at = "write" /\ UNCHANGED <<score, spoilt>>
          BY <1>0, <3>3, <4>1 DEF WriteScores
        <5>2. \A t \in Teams \ spoilt : InTable(t) => score[t] = Earned(t) + adjusted[t]
          BY <4>1, <5>1, <3>0 DEF Tells
        <5>3. \A t \in Teams \ spoilt' : InTable(t) => Stands(t)'
          BY <1>0, <2>0, <3>0, <5>1, <5>2, TableStays DEF Stands, Owed
        <5> QED BY <5>1, <5>3 DEF Tells, Idle
      <4>2. CASE updates[w].todo # {}
        <5>1. PICK s \in updates[w].todo :
                /\ score' = [score EXCEPT ![s] = updates[w].sum[s]]
                /\ updates' = [updates EXCEPT ![w].todo = updates[w].todo \ {s}]
                /\ spoilt' = spoilt \ {s}
          BY <3>3, <4>2 DEF WriteScores
        <5>2. /\ updates'[w].at = "write" /\ updates'[w].sum = updates[w].sum
              /\ updates'[w].todo = updates[w].todo \ {s} /\ updates[w].at = "write"
          BY <1>0, <3>3, <5>1 DEF WriteScores, Updates
        <5>3. \A t \in Teams : score'[t] = IF t = s THEN updates[w].sum[t] ELSE score[t]
          BY <1>0, <5>1
        <5> QED BY <2>0, <3>0, <5>1, <5>2, <5>3, TableStays DEF Tells, Busy
      <4> QED BY <4>1, <4>2
    <3> QED BY <1>6, <3>1, <3>2, <3>3 DEF Update
  <2>2. ASSUME exact, engine.at # "rows", NEW v \in Writers, v # w
        PROVE  ~Busy(v)' /\ Tells(v)'
    BY <1>0, <2>0, <2>2 DEF SumInv, Busy, Tells, Writers
  <2> QED
    BY <1>0, <2>0, <2>1, <2>2, TableStays DEF SumInv, Busy, Writers
<1>7. ASSUME NEW t \in Teams, AdjustScore(t) PROVE SumInv'
  <2>1. /\ UNCHANGED <<engine, restarted>> /\ updates' = [updates EXCEPT !["admin"].at = "sum"]
        /\ exact' = (restarted = NoTeam /\ \A v \in Writers : ~Busy(v))
    BY <1>7 DEF AdjustScore, Begin
  <2>2. updates'["admin"].at = "sum" /\ updates'["engine"] = updates["engine"]
    BY <1>0, <2>1 DEF Updates
  <2>3. exact' => updates["engine"].at = "idle" /\ restarted = NoTeam
    BY <1>0, <2>1 DEF Busy
  <2> QED BY <2>1, <2>2, <2>3 DEF SumInv, Busy, Tells, Writers
<1>8. ASSUME NEW s \in Teams, RestartPenalty(s) PROVE SumInv'
  <2>1. /\ UNCHANGED <<engine, table, score, spoilt, updates>> /\ restarted = NoTeam /\ restarted' = s
        /\ adjusted' = [adjusted EXCEPT ![s] = adjusted[s] - Penalty]
        /\ exact' => exact /\ \A w \in Writers : ~Busy(w)
    BY <1>8 DEF RestartPenalty
  <2>2. ASSUME exact', engine.at # "rows", NEW t \in Teams \ spoilt, InTable(t)
        PROVE  Stands(t)'
    <3>1. Earned(t)' = Earned(t) /\ score[t] = Earned(t) + adjusted[t]
      BY <1>0, <2>1, <2>2, TableStays DEF SumInv, Stands, Owed
    <3>2. adjusted'[t] + Owed(t)' = adjusted[t]
      BY <1>0, <2>1 DEF Owed
    <3>3. adjusted'[t] \in Int /\ Owed(t)' \in Int
      BY <1>0, <2>1 DEF Owed
    <3> QED BY <1>0, <2>1, <3>1, <3>2, <3>3 DEF Stands
  <2> QED BY <1>0, <2>1, <2>2, TableStays DEF SumInv, Busy, Tells
<1>9. CASE RestartPays
  <2>1. /\ UNCHANGED <<engine, table, adjusted, updates, exact, spoilt>>
        /\ restarted # NoTeam /\ restarted' = NoTeam
        /\ score' = [score EXCEPT ![restarted] = score[restarted] - Penalty]
    BY <1>9 DEF RestartPays
  <2>2. ASSUME exact, engine.at # "rows", NEW t \in Teams \ spoilt, InTable(t)
        PROVE  Stands(t)'
    <3>1. Earned(t)' = Earned(t) /\ score[t] = Earned(t) + adjusted[t] + Owed(t)
      BY <1>0, <2>1, <2>2, TableStays DEF SumInv, Stands
    <3>2. score'[t] = score[t] - Owed(t) /\ Owed(t) \in Int /\ Owed(t)' = 0
      BY <1>0, <2>1 DEF Owed
    <3> QED BY <1>0, <2>1, <3>1, <3>2 DEF Stands
  <2> QED BY <1>0, <2>1, <2>2, TableStays DEF SumInv, Busy, Tells
<1>10. CASE SaveRow \/ \E t \in Teams : ResetTeam(t) \/ ReadRow(t)
  <2>1. UNCHANGED <<engine, table, adjusted, updates, restarted, exact>>
    BY <1>10 DEF SaveRow, ResetTeam, ReadRow
  <2>2. ASSUME NEW t, NEW x, Overwrite(t, x)
        PROVE  spoilt \subseteq spoilt' /\ \A s \in Teams \ spoilt' : score'[s] = score[s]
    BY <1>0, <2>2 DEF Overwrite
  <2>3. spoilt \subseteq spoilt' /\ \A s \in Teams \ spoilt' : score'[s] = score[s]
    BY <1>10, <2>2 DEF SaveRow, ResetTeam, ReadRow
  <2> QED BY <1>a, <2>1, <2>3 DEF SumInv
<1> QED
  BY <1>1, <1>2, <1>3, <1>4, <1>5, <1>6, <1>7, <1>8, <1>9, <1>10 DEF Next, Engine, ByHand

\* When neither scoring nor a penalty is under way, the score of a team is the
\* sum of its rounds and of what was adjusted, but for a reset or a stale row
\* written since, for any teams, rounds, weights and orders of captures,
\* adjustments, resets and edits.
THEOREM SumsOfRounds == Spec => []ScoreIsTheSum
<1>1. Init => SumInv
  <2> SUFFICES ASSUME Init PROVE SumInv
    OBVIOUS
  <2>1. \A w \in Writers : updates[w].at = "idle"
    BY DEF Init, Idle
  <2>2. \A t \in Teams : ~InTable(t)
    BY DEF Init, InTable, Blank
  <2>3. restarted = NoTeam
    BY DEF Init
  <2> QED BY <2>1, <2>2, <2>3 DEF SumInv, Busy, Tells, Writers
<1>2. TypeInv /\ SumInv => ScoreIsTheSum
  <2> SUFFICES ASSUME TypeInv, SumInv, exact, restarted = NoTeam, \A w \in Writers : ~Busy(w),
                      engine.at # "rows", NEW t \in Teams \ spoilt, InTable(t)
               PROVE  score[t] = Earned(t) + adjusted[t]
    BY DEF ScoreIsTheSum
  <2>1. Stands(t) /\ Owed(t) = 0
    BY BoundsAssumption DEF SumInv, Owed
  <2>2. Earned(t) \in Int /\ adjusted[t] \in Int
    BY EarnedInt DEF TypeInv, TypeOK
  <2> QED BY <2>1, <2>2 DEF Stands
<1> QED BY <1>1, <1>2, InitType, TypeStep, SumStep, PTL DEF Spec, TypeInv
-----------------------------------------------------------------------------
\* What the detector knows is of rounds gone by, so that each flag captured in
\* the round in hand gets its bonus.
DetectedBefore ==
  \A f \in detected : f.round < (IF engine.at \in {"flags", "play", "read"} THEN round ELSE round + 1)

\* The captures of a round that scoring may have read: those made in time, and
\* perhaps some that came late.
Read(subs, r) ==
  /\ subs \subseteq {c \in captures : c.flag.round = r}
  /\ {c \in intime : c.flag.round = r} \subseteq subs

\* What a set of captures is worth.
Worth(row, subs) ==
  /\ \A t \in Teams :
       /\ row[t].attack = Points * Cardinality({c \in subs : c.by = t})
       /\ row[t].loss = Points * Cardinality({c \in subs : c.flag.of = t})
       /\ row[t].bonus <= FirstBlood * Cardinality({c \in subs : c.by = t})
  /\ SumFunction([t \in Teams |-> row[t].bonus]) = FirstBlood * Cardinality({c.flag : c \in subs})

\* A row in the table as the sheet has it.
Copied(row, x) == row.there /\ row.attack = x.attack /\ row.loss = x.loss /\ row.bonus = x.bonus

TableInv ==
  /\ DetectedBefore
  /\ \A r \in Rounds : Scored(r) =>
       (\A t \in Teams : table[r][t].there) /\ \E subs : Read(subs, r) /\ Worth(table[r], subs)
  /\ engine.at = "rows" =>
       /\ \E subs : Read(subs, round) /\ Worth(engine.sheet, subs)
       /\ \A t \in Teams \ engine.todo : Copied(table[round][t], engine.sheet[t])

\* Less is worth less.
LEMMA Scales == \A q, m, n \in Nat : m <= n => q * m <= q * n
OBVIOUS

\* The sheet scoring works out of the captures it read is worth what they are.
LEMMA SheetIsRight ==
  ASSUME NEW subs \in SUBSET Captures, NEW first \in Captors(subs),
         \A c \in subs : c.flag \notin detected
  PROVE  Worth(Sheet(subs, first), subs)
<1> DEFINE D == DOMAIN first
           won == [t \in Teams |-> FirstBlood * Cardinality({f \in D : first[f] = t})]
<1>1. /\ D = {c.flag : c \in subs} /\ IsFiniteSet(D)
      /\ \A f \in D : first[f] \in Teams /\ [flag |-> f, by |-> first[f]] \in subs
  <2>1. {c.flag : c \in subs} \ detected = {c.flag : c \in subs}
    OBVIOUS
  <2> QED BY <2>1, CaptorsOK
<1>2. \A t \in Teams : Sheet(subs, first)[t].bonus = won[t]
  BY DEF Sheet
<1>3. SumFunction([t \in Teams |-> Sheet(subs, first)[t].bonus]) = FirstBlood * Cardinality(D)
  <2>1. [t \in Teams |-> Sheet(subs, first)[t].bonus] = won
    BY <1>2
  <2>2. SumFunction(won) = Sum(won, Teams)
    BY DEF SumFunction, Sum
  <2>3. IsFiniteSet(Teams) /\ FirstBlood \in Int
    BY BoundsAssumption
  <2>4. \A t \in Teams : won[t] = FirstBlood * Cardinality(Fibre(D, first, t))
    BY DEF Fibre
  <2>5. IsFiniteSet(D) /\ \A f \in D : first[f] \in Teams
    BY <1>1
  <2> HIDE DEF won, D
  <2>6. Sum(won, Teams) = FirstBlood * Cardinality(D)
    BY <2>3, <2>4, <2>5, SumCounts
  <2> QED BY <2>1, <2>2, <2>6
<1>4. ASSUME NEW t \in Teams
      PROVE  won[t] <= FirstBlood * Cardinality({c \in subs : c.by = t})
  <2> DEFINE Of == {f \in D : first[f] = t}
             By == {c \in subs : c.by = t}
             g == [f \in Of |-> [flag |-> f, by |-> t]]
  <2>1. g \in Injection(Of, By)
    BY <1>1 DEF Injection, IsInjective
  <2>2. IsFiniteSet(By)
    BY FiniteCaptures, FS_Subset
  <2> HIDE DEF By, Of, g
  <2>3. IsFiniteSet(Of) /\ Cardinality(Of) <= Cardinality(By)
    BY <2>1, <2>2, FS_Injection
  <2>4. Cardinality(Of) \in Nat /\ Cardinality(By) \in Nat /\ FirstBlood \in Nat
    BY <2>2, <2>3, FS_CardinalityType, BoundsAssumption
  <2>5. FirstBlood * Cardinality(Of) <= FirstBlood * Cardinality(By)
    BY <2>3, <2>4, Scales
  <2> QED BY <2>5 DEF Of, By
<1> HIDE DEF won
<1>5. \A t \in Teams :
        /\ Sheet(subs, first)[t].attack = Points * Cardinality({c \in subs : c.by = t})
        /\ Sheet(subs, first)[t].loss = Points * Cardinality({c \in subs : c.flag.of = t})
  BY DEF Sheet
<1> QED BY <1>1, <1>2, <1>3, <1>4, <1>5 DEF Worth

\* A step that leaves the table alone and scores no further round; captures may
\* come, in time only for a round that is not scored yet.
LEMMA TableKeeps ==
  ASSUME TypeInv, TableInv, UNCHANGED table,
         captures \subseteq captures', intime \subseteq intime',
         \A c \in intime' : c \in intime \/ (c.flag.round = round /\ engine.at = "play"),
         \A r \in Rounds : Scored(r)' => Scored(r),
         engine'.at = "rows" => UNCHANGED <<engine, round>>,
         DetectedBefore'
  PROVE  TableInv'
<1>1. ASSUME NEW r \in Rounds, Scored(r) \/ engine.at = "rows", NEW subs, Read(subs, r)
      PROVE  Read(subs, r)'
  BY <1>1 DEF Read, Scored, Rounds, TypeInv, TypeOK
<1>2. ASSUME NEW r \in Rounds, Scored(r)'
      PROVE  (\A t \in Teams : table'[r][t].there)
               /\ \E subs : Read(subs, r)' /\ Worth(table'[r], subs)
  <2>1. /\ Scored(r) /\ table'[r] = table[r]
        /\ (\A t \in Teams : table[r][t].there) /\ \E subs : Read(subs, r) /\ Worth(table[r], subs)
    BY <1>2 DEF TableInv
  <2> QED BY <1>1, <2>1
<1>3. ASSUME engine'.at = "rows"
      PROVE  /\ \E subs : Read(subs, round)' /\ Worth(engine'.sheet, subs)
             /\ \A t \in Teams \ engine'.todo : Copied(table'[round'][t], engine'.sheet[t])
  <2>1. /\ UNCHANGED <<engine, round>> /\ engine.at = "rows" /\ round \in Rounds
        /\ \E subs : Read(subs, round) /\ Worth(engine.sheet, subs)
        /\ \A t \in Teams \ engine.todo : Copied(table[round][t], engine.sheet[t])
    BY <1>3, BoundsAssumption DEF TableInv, TypeInv, TypeOK, RoundsInOrder, Rounds
  <2> QED BY <1>1, <2>1 DEF Read
<1> QED BY <1>2, <1>3 DEF TableInv, Worth

\* The places of an engine.
LEMMA Places ==
  ASSUME TypeInv
  PROVE  /\ round \in Nat /\ (engine.at # "start" => round \in Rounds)
         /\ engine.at \in {"start", "flags", "play", "read", "rows", "update", "over"}
         /\ \A f \in Flags : f.round \in Nat
<1>1. /\ round \in 0..LastRound /\ LastRound \in Nat /\ (engine.at # "start" => round > 0)
      /\ engine.at \in {"start", "flags", "play", "read", "rows", "update", "over"}
  BY BoundsAssumption DEF TypeInv, TypeOK, RoundsInOrder
<1>2. \A f \in Flags : f.round \in 1..LastRound
  BY DEF Flags, Rounds
<1> QED BY <1>1, <1>2 DEF Rounds

\* First bloods are of rounds that were scored: none of the round being played.
LEMMA DetectedStep == ASSUME TypeInv, TypeInv', DetectedBefore, [Next]_vars PROVE DetectedBefore'
<1>0. /\ round \in Nat /\ \A f \in detected : f.round \in Nat
      /\ engine.at \in {"start", "flags", "play", "read", "rows", "update", "over"}
  BY Places DEF TypeInv, TypeOK
<1>1. CASE ReadGame \/ SubmitFlag \/ WriteRow \/ RestartPays \/ SaveRow \/ UNCHANGED vars
  <2>1. UNCHANGED <<detected, round>> /\ engine'.at = engine.at
    BY <1>1 DEF ReadGame, SubmitFlag, WriteRow, RestartPays, SaveRow, vars, TypeInv, TypeOK
  <2> QED BY <2>1 DEF DetectedBefore
<1>2. CASE RoundStart \/ GenerateFlags \/ RoundEnd \/ UpdateScores \/ Break
  BY <1>0, <1>2
  DEF RoundStart, GenerateFlags, RoundEnd, UpdateScores, Break, Rest, Doing, DetectedBefore
<1>3. CASE ReadSubmissions
  <2> DEFINE subs == {c \in captures : c.flag.round = round}
  <2>1. PICK first \in Captors(subs) : detected' = detected \cup DOMAIN first
    BY <1>3 DEF ReadSubmissions
  <2>2. subs \in SUBSET Captures /\ \A c \in subs : c.flag.round = round
    BY DEF Captures, TypeInv, TypeOK
  <2> HIDE DEF subs
  <2>3. \A f \in DOMAIN first : f.round = round
    <3>1. DOMAIN first \subseteq {c.flag : c \in subs}
      BY <2>2, CaptorsOK
    <3> QED BY <2>2, <3>1
  <2>4. engine.at = "read" /\ engine'.at = "rows" /\ round' = round
    BY <1>3 DEF ReadSubmissions
  <2> QED BY <1>0, <2>1, <2>3, <2>4 DEF DetectedBefore
<1>4. CASE Restored
  BY <1>4 DEF Restored, DetectedBefore
<1>5. CASE \/ \E w \in Writers : Update(w)
           \/ \E t \in Teams : ByHand(t)
  BY <1>5 DEF Update, ByHand, AdjustScore, RestartPenalty, ResetTeam, ReadRow, DetectedBefore
<1> QED BY <1>1, <1>2, <1>3, <1>4, <1>5 DEF Next, Engine

\* Every step keeps the rows of scored rounds worth the captures of the round.
LEMMA TableStep == ASSUME TypeInv, TypeInv', TableInv, [Next]_vars PROVE TableInv'
<1>0. /\ DetectedBefore' /\ round \in Nat
      /\ engine.at \in {"start", "flags", "play", "read", "rows", "update", "over"}
      /\ engine.at # "start" => round \in Rounds
  <2>1. DetectedBefore'
    BY DetectedStep DEF TableInv
  <2> QED BY <2>1, Places
<1>1. CASE ReadGame \/ RestartPays \/ SaveRow \/ UNCHANGED vars
             \/ (\E w \in Writers : Update(w)) \/ \E t \in Teams : ByHand(t)
  <2>1. UNCHANGED <<table, captures, intime, engine, round>>
    BY <1>1 DEF ReadGame, RestartPays, SaveRow, vars, scores, Update, SumRounds, SumAdjustments,
                WriteScores, ByHand, AdjustScore, RestartPenalty, ResetTeam, ReadRow
  <2>2. \A r \in Rounds : Scored(r)' => Scored(r)
    BY <2>1 DEF Scored
  <2> QED BY <1>0, <2>1, <2>2, TableKeeps
<1>2. CASE SubmitFlag
  <2>1. /\ UNCHANGED <<table, engine, round>> /\ captures \subseteq captures' /\ intime \subseteq intime'
        /\ \A c \in intime' : c \in intime \/ (c.flag.round = round /\ engine.at = "play")
    BY <1>2 DEF SubmitFlag, scores
  <2>2. \A r \in Rounds : Scored(r)' => Scored(r)
    BY <2>1 DEF Scored
  <2> QED BY <1>0, <2>1, <2>2, TableKeeps
<1>3. CASE RoundStart \/ GenerateFlags \/ RoundEnd \/ Break \/ Restored
  <2>1. UNCHANGED <<table, captures, intime>> /\ engine'.at # "rows"
    BY <1>3 DEF RoundStart, GenerateFlags, RoundEnd, Break, Restored, Rest, Doing, scores
  <2>2. ASSUME NEW r \in Rounds, Scored(r)'
        PROVE  Scored(r)
    <3>1. r \in Nat /\ r > 0
      BY BoundsAssumption DEF Rounds
    <3> QED
      BY <1>0, <1>3, <2>2, <3>1
      DEF RoundStart, GenerateFlags, RoundEnd, Break, Restored, Rest, Doing, Scored
  <2> QED BY <1>0, <2>1, <2>2, TableKeeps
<1>4. CASE ReadSubmissions
  <2> DEFINE subs == {c \in captures : c.flag.round = round}
  <2>1. PICK first \in Captors(subs) :
          engine' = [at |-> "rows", sheet |-> Sheet(subs, first), todo |-> Teams]
    BY <1>4 DEF ReadSubmissions
  <2>2. engine.at = "read" /\ UNCHANGED <<round, captures, scores, intime, table>>
    BY <1>4 DEF ReadSubmissions, scores
  <2>3. /\ subs \in SUBSET Captures /\ Read(subs, round) /\ Read(subs, round)'
        /\ \A c \in subs : c.flag.round = round
    BY <2>2 DEF Captures, TypeInv, TypeOK, Read
  <2>4. \A c \in subs : c.flag \notin detected
    BY <1>0, <2>2, <2>3 DEF TableInv, DetectedBefore
  <2> HIDE DEF subs
  <2>5. Worth(engine'.sheet, subs) /\ engine'.at = "rows" /\ engine'.todo = Teams
    BY <2>1, <2>3, <2>4, SheetIsRight
  <2>6. ASSUME NEW r \in Rounds, Scored(r)'
        PROVE  (\A t \in Teams : table'[r][t].there) /\ \E s : Read(s, r)' /\ Worth(table'[r], s)
    <3>1. Scored(r)
      BY <2>2, <2>5, <2>6 DEF Scored
    <3> QED BY <2>2, <3>1 DEF TableInv, Read
  <2>7. \E x : Read(x, round)' /\ Worth(engine'.sheet, x)
    BY <2>2, <2>3, <2>5 DEF Read
  <2> QED BY <1>0, <2>5, <2>6, <2>7 DEF TableInv, Worth
<1>5. CASE WriteRow
  <2>1. /\ engine.at = "rows" /\ UNCHANGED <<round, captures, intime>>
        /\ engine'.sheet = engine.sheet /\ engine'.at = "rows"
    BY <1>5 DEF WriteRow, TypeInv, TypeOK
  <2>2. PICK s \in engine.todo :
          /\ table' = [table EXCEPT ![round][s] =
                     [attack |-> engine.sheet[s].attack, loss |-> engine.sheet[s].loss,
                      bonus |-> engine.sheet[s].bonus, there |-> TRUE]]
          /\ engine'.todo = engine.todo \ {s}
    BY <1>5 DEF WriteRow, TypeInv, TypeOK
  <2>3. /\ \A r \in Rounds \ {round} : table'[r] = table[r]
        /\ \A t \in Teams \ {s} : table'[round][t] = table[round][t]
        /\ s \in Teams /\ Copied(table'[round][s], engine.sheet[s])
    BY <1>0, <2>1, <2>2 DEF TypeInv, TypeOK, Copied
  <2>4. ASSUME NEW r \in Rounds, Scored(r)'
        PROVE  (\A t \in Teams : table'[r][t].there) /\ \E x : Read(x, r)' /\ Worth(table'[r], x)
    <3>1. Scored(r) /\ table'[r] = table[r]
      BY <1>0, <2>1, <2>3, <2>4 DEF Scored, Rounds
    <3> QED BY <2>1, <3>1 DEF TableInv, Read
  <2>5. \E x : Read(x, round)' /\ Worth(engine'.sheet, x)
    BY <2>1 DEF TableInv, Read
  <2>6. \A t \in Teams \ engine'.todo : Copied(table'[round][t], engine'.sheet[t])
    BY <2>1, <2>2, <2>3 DEF TableInv
  <2> QED BY <1>0, <2>1, <2>4, <2>5, <2>6 DEF TableInv, Worth
<1>6. CASE UpdateScores
  <2>1. /\ engine.at = "rows" /\ engine.todo = {} /\ engine'.at = "update"
        /\ UNCHANGED <<round, captures, intime, table>>
    BY <1>6 DEF UpdateScores, Rest, Doing
  <2>2. PICK subs : Read(subs, round) /\ Worth(engine.sheet, subs)
    BY <2>1 DEF TableInv
  <2>3. \A t \in Teams : Copied(table[round][t], engine.sheet[t])
    BY <2>1 DEF TableInv
  <2>4. Worth(table[round], subs)
    <3>1. [t \in Teams |-> table[round][t].bonus] = [t \in Teams |-> engine.sheet[t].bonus]
      BY <2>3 DEF Copied
    <3> QED BY <2>2, <2>3, <3>1 DEF Worth, Copied
  <2>5. ASSUME NEW r \in Rounds, Scored(r)'
        PROVE  (\A t \in Teams : table'[r][t].there) /\ \E x : Read(x, r)' /\ Worth(table'[r], x)
    <3>1. CASE r = round
      BY <2>1, <2>2, <2>3, <2>4, <3>1 DEF Read, Copied
    <3>2. CASE r # round
      <4>1. Scored(r)
        BY <2>1, <2>5, <3>2 DEF Scored
      <4> QED BY <2>1, <4>1 DEF TableInv, Read
    <3> QED BY <3>1, <3>2
  <2> QED BY <1>0, <2>1, <2>5 DEF TableInv, Worth
<1> QED BY <1>1, <1>2, <1>3, <1>4, <1>5, <1>6 DEF Next, Engine

\* The rows of a scored round are worth what was captured in it, all that came in
\* time and perhaps some that came late, and each flag has one first blood, for
\* any teams, rounds and captures.
THEOREM TableRight == Spec => []RoundTableIsRight
<1>1. Init => TableInv
  BY BoundsAssumption DEF Init, Doing, TableInv, DetectedBefore, Scored, Rounds
<1>2. TableInv => RoundTableIsRight
  <2> SUFFICES ASSUME TableInv, NEW r \in Rounds, Scored(r)
               PROVE  \E late \in SUBSET {c \in captures \ intime : c.flag.round = r} :
                 LET subs == late \cup {c \in intime : c.flag.round = r} IN
                 /\ \A t \in Teams : table[r][t].there
                      /\ table[r][t].attack = Points * Cardinality({c \in subs : c.by = t})
                      /\ table[r][t].loss = Points * Cardinality({c \in subs : c.flag.of = t})
                      /\ table[r][t].bonus <= FirstBlood * Cardinality({c \in subs : c.by = t})
                 /\ SumFunction([t \in Teams |-> table[r][t].bonus])
                      = FirstBlood * Cardinality({c.flag : c \in subs})
    BY DEF RoundTableIsRight
  <2>1. PICK subs : Read(subs, r) /\ Worth(table[r], subs)
    BY DEF TableInv
  <2> DEFINE late == subs \ intime
  <2>2. /\ late \in SUBSET {c \in captures \ intime : c.flag.round = r}
        /\ late \cup {c \in intime : c.flag.round = r} = subs
    BY <2>1 DEF Read
  <2>3. /\ \A t \in Teams : table[r][t].there
             /\ table[r][t].attack = Points * Cardinality({c \in subs : c.by = t})
             /\ table[r][t].loss = Points * Cardinality({c \in subs : c.flag.of = t})
             /\ table[r][t].bonus <= FirstBlood * Cardinality({c \in subs : c.by = t})
        /\ SumFunction([t \in Teams |-> table[r][t].bonus])
             = FirstBlood * Cardinality({c.flag : c \in subs})
    BY <2>1 DEF TableInv, Worth
  <2> HIDE DEF late
  <2> QED BY <2>2, <2>3
<1> QED BY <1>1, <1>2, InitType, TypeStep, TableStep, PTL DEF Spec, TypeInv
=============================================================================
