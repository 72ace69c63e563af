------------------------ MODULE GameContainersProofs ------------------------
(***************************************************************************)
(* The type of GameContainers and that no container is lost, for any cells *)
(* and any number of goroutines.  NothingLost is not inductive: that the   *)
(* row a teardown deletes is the row of a container it removed needs that  *)
(* a container in the making is in nobody else's list.                     *)
(***************************************************************************)
EXTENDS GameContainers, TLAPS

\* A container that is being made is nobody else's, and one whose row is about
\* to be deleted is no longer there.
Apart ==
  /\ \A j \in Jobs : jobs[j].at \in {"created", "started"} =>
       /\ jobs[j].in \notin rows \cup lost
       /\ \A i \in Jobs : i # j => jobs[i].in # jobs[j].in
       /\ \A i \in Jobs : jobs[i].kind # "provision" => jobs[j].in \notin jobs[i].todo
  /\ \A j \in Jobs : jobs[j].at = "deleting" => docker[jobs[j].in] = "none"

IInv == TypeOK /\ Apart /\ NothingLost
-----------------------------------------------------------------------------
\* What a job at each place is: its kind, its list and the container it works on.
LEMMA JobShape ==
  ASSUME NEW r \in JobRecords
  PROVE /\ r.at = "find" => r \in ProvisionJobs \cup ListJobs
        /\ r.at = "next" => r \in ProvisionJobs \cup ListJobs
        /\ r.at \in {"created", "started"} => r \in MakingJobs
        /\ r.at \in Held => r \in HoldingJobs
        /\ r.at \in {"find", "next"} /\ r.kind = "provision" => r \in ProvisionJobs
        /\ r.at \in {"find", "next"} /\ r.kind # "provision" => r \in ListJobs
  <1>1. r = NoJob => r.kind = "none" /\ r.at = "none"
    BY DEF NoJob
  <1>2. r \in ProvisionJobs => r.kind = "provision" /\ r.at \in {"find", "next"}
    BY DEF ProvisionJobs
  <1>3. r \in MakingJobs => r.kind = "provision" /\ r.at \in {"created", "started"}
    BY DEF MakingJobs
  <1>4. r \in ListJobs => r.kind # "provision" /\ r.at \in {"find", "next"}
    BY DEF ListJobs
  <1>5. r \in HoldingJobs => r.kind # "provision" /\ r.at \in Held
    BY DEF HoldingJobs
  <1>6. r = NoJob \/ r \in ProvisionJobs \/ r \in MakingJobs \/ r \in ListJobs \/ r \in HoldingJobs
    BY DEF JobRecords
  <1> QED BY <1>1, <1>2, <1>3, <1>4, <1>5, <1>6 DEF Held

\* A job put in the place of another keeps the type of the table of jobs.
LEMMA PutJob ==
  ASSUME jobs \in [Jobs -> JobRecords], NEW j \in Jobs, NEW r \in JobRecords,
         jobs' = [jobs EXCEPT ![j] = r]
  PROVE  /\ jobs' \in [Jobs -> JobRecords]
         /\ jobs'[j] = r
         /\ \A i \in Jobs : i # j => jobs'[i] = jobs[i]
  OBVIOUS

LEMMA TypeInit == Init => TypeOK
  BY JobsAssumption DEF Init, TypeOK, JobRecords, NoJob, Containers

\* A goroutine that is started gets a place of its own, at the beginning.
LEMMA SpawnEffect ==
  ASSUME TypeOK, NEW kind \in Kinds, NEW sync \in BOOLEAN,
         kind = "provision" => sync = FALSE, Spawn(kind, sync)
  PROVE  \E j \in Jobs : 
           /\ jobs[j] = NoJob
           /\ jobs' = [jobs EXCEPT ![j] = [kind |-> kind, at |-> "find", todo |-> {},
                                            sync |-> sync, in |-> None]]
           /\ [kind |-> kind, at |-> "find", todo |-> {}, sync |-> sync, in |-> None]
                \in ProvisionJobs \cup ListJobs
  <1>1. [kind |-> kind, at |-> "find", todo |-> {}, sync |-> sync, in |-> None]
                \in ProvisionJobs \cup ListJobs
    BY DEF ProvisionJobs, ListJobs, Kinds
  <1> QED BY <1>1 DEF Spawn

LEMMA TypeStep == TypeOK /\ [Next]_vars => TypeOK'
  <1> SUFFICES ASSUME TypeOK, [Next]_vars PROVE TypeOK'
    OBVIOUS
  <1>1. ASSUME NEW kind \in Kinds, NEW sync \in BOOLEAN, kind = "provision" => sync = FALSE,
               Spawn(kind, sync), status' \in {"draft", "running", "paused", "finished"},
               wanted' \in BOOLEAN
        PROVE  TypeOK'
    <2>1. jobs' \in [Jobs -> JobRecords]
      BY <1>1, SpawnEffect DEF TypeOK, JobRecords
    <2>2. excused' \in SUBSET Cells /\ disturbed' \in BOOLEAN
      BY <1>1 DEF Spawn, TypeOK
    <2> QED BY <2>1, <2>2, <1>1 DEF Spawn, TypeOK, store
  <1>2. CASE Requests
    <2>1. CASE StartGame
      BY <1>1, <2>1 DEF StartGame, Kinds
    <2>2. CASE PauseGame
      BY <1>1, <2>2 DEF PauseGame, Kinds, TypeOK
    <2>3. CASE ResumeGame
      BY <1>1, <2>3 DEF ResumeGame, Kinds, TypeOK
    <2>4. CASE StopGame
      BY <1>1, <2>4 DEF StopGame, Kinds
    <2>5. CASE ResetGame
      BY <1>1, <2>5 DEF ResetGame, Kinds
    <2>6. CASE FinishGame
      BY <2>6 DEF FinishGame, TypeOK, store, history
    <2>7. CASE Restart
      BY <1>1, <2>7 DEF Restart, Kinds, TypeOK
    <2> QED BY <1>2, <2>1, <2>2, <2>3, <2>4, <2>5, <2>6, <2>7 DEF Requests
  <1>3. CASE Crash
    <2>1. Creating \subseteq Containers
      <3>1. ASSUME NEW j \in Jobs, jobs[j].at \in {"created", "started"}
            PROVE  jobs[j].in \in Containers
        <4>1. jobs[j] \in MakingJobs
          BY <3>1, JobShape DEF TypeOK
        <4> QED BY <4>1 DEF MakingJobs
      <3> QED BY <3>1 DEF Creating
    <2>2. excused' \in SUBSET Cells /\ disturbed' \in BOOLEAN
      BY <1>3 DEF Crash, TypeOK
    <2> QED BY <1>3, <2>1, <2>2 DEF Crash, TypeOK, JobRecords
  <1>4. CASE Recover
    BY <1>1, <1>4 DEF Recover, Kinds, TypeOK
  <1>5. ASSUME NEW j \in Jobs, Job(j) PROVE TypeOK'
    <2> DEFINE r == jobs[j]
    <2>0. r \in JobRecords
      BY DEF TypeOK
    <2>1. CASE Find(j)
      <3>1. r \in ProvisionJobs \cup ListJobs
        BY <2>0, <2>1, JobShape DEF Find
      <3>2. r \in ProvisionJobs => r.kind = "provision" /\
                [r EXCEPT !.at = "next", !.todo = Cells] \in ProvisionJobs
        BY DEF ProvisionJobs
      <3>3. r \in ListJobs => r.kind # "provision" /\
                \A l \in SUBSET Containers : [r EXCEPT !.at = "next", !.todo = l] \in ListJobs
        BY DEF ListJobs
      <3>4. PICK list \in Lists(r.kind) :
                jobs' = [jobs EXCEPT ![j] = [@ EXCEPT !.at = "next", !.todo = list]]
        BY <2>1 DEF Find
      <3>5. /\ r.kind = "provision" => list = Cells
            /\ r.kind # "provision" => list \in SUBSET Containers
        BY <3>4 DEF Lists, TypeOK
      <3>6. [r EXCEPT !.at = "next", !.todo = list] \in JobRecords
        BY <3>1, <3>2, <3>3, <3>5 DEF JobRecords, ProvisionJobs
      <3>7. jobs' \in [Jobs -> JobRecords]
        BY <3>4, <3>6 DEF TypeOK
      <3> QED BY <3>7, <2>1 DEF Find, TypeOK, store, history
    <2>2. CASE End(j) \/ FindFails(j)
      <3>1. r \in ListJobs => [r EXCEPT !.sync = FALSE, !.at = "find"] \in ListJobs
        BY DEF ListJobs
      <3>2. r \in ProvisionJobs => ~r.sync
        BY DEF ProvisionJobs
      <3>3. r \in ProvisionJobs \cup ListJobs
        BY <2>0, <2>2, JobShape DEF End, FindFails
      <3>4. (IF r.sync THEN [r EXCEPT !.sync = FALSE, !.at = "find"] ELSE NoJob) \in JobRecords
        BY <3>1, <3>2, <3>3 DEF JobRecords
      <3>5. jobs' \in [Jobs -> JobRecords]
        BY <3>4, <2>2 DEF End, FindFails, Over, TypeOK
      <3> QED BY <3>5, <2>2 DEF End, FindFails, TypeOK, store, history
    <2>3. CASE Create(j)
      <3>1. r \in ProvisionJobs
        BY <2>0, <2>3, JobShape DEF Create, At
      <3>2. ASSUME NEW x, NEW c \in Containers, Take(j, x, c, "created")
            PROVE  jobs' \in [Jobs -> JobRecords]
        <4>1. [r EXCEPT !.todo = r.todo \ {x}, !.in = c, !.at = "created"] \in JobRecords
          BY <3>1 DEF JobRecords, ProvisionJobs, MakingJobs
        <4> QED BY <4>1, <3>2 DEF TypeOK, Take
      <3>3. ASSUME NEW x, Take(j, x, None, "next") PROVE jobs' \in [Jobs -> JobRecords]
        <4>1. [r EXCEPT !.todo = r.todo \ {x}, !.in = None, !.at = "next"] \in JobRecords
          BY <3>1 DEF JobRecords, ProvisionJobs
        <4> QED BY <4>1, <3>3 DEF TypeOK, Take
      <3>4. r.todo \subseteq Cells
        BY <3>1 DEF ProvisionJobs
      <3>5. jobs' \in [Jobs -> JobRecords]
        BY <2>3, <3>2, <3>3, <3>4 DEF Create, Containers
      <3>6. excused' \in SUBSET Cells /\ disturbed' \in BOOLEAN
        BY <2>3, <3>4 DEF Create, Excuse, Fine, TypeOK
      <3>7. docker' \in [Containers -> {"none", "created", "running", "paused", "exited"}]
        BY <2>3 DEF Create, Put, TypeOK
      <3> QED BY <3>5, <3>6, <3>7, <2>3 DEF Create, TypeOK
    <2>4. CASE Launch(j) \/ Save(j)
      <3>1. r \in MakingJobs
        BY <2>0, <2>4, JobShape DEF Launch, Save, At
      <3>2. r.in \in Containers /\ r.in[1] \in Cells
        BY <3>1 DEF MakingJobs, Containers
      <3>3. Move(j, "started") => jobs' \in [Jobs -> JobRecords]
        <4>1. [r EXCEPT !.at = "started"]
                \in JobRecords
          BY <3>1 DEF JobRecords, MakingJobs
        <4> QED BY <4>1 DEF TypeOK, Move, Leave
      <3>4. Leave(j) => jobs' \in [Jobs -> JobRecords]
        <4>1. [r EXCEPT !.in = None, !.at = "next"]
                \in JobRecords
          BY <3>1 DEF JobRecords, MakingJobs, ProvisionJobs
        <4> QED BY <4>1 DEF TypeOK, Move, Leave
      <3>5. jobs' \in [Jobs -> JobRecords]
        BY <2>4, <3>3, <3>4 DEF Launch, Save, GiveUp
      <3>6. excused' \in SUBSET Cells /\ disturbed' \in BOOLEAN
        BY <2>4, <3>2 DEF Launch, Save, GiveUp, Excuse, Fine, TypeOK
      <3>7. docker' \in [Containers -> {"none", "created", "running", "paused", "exited"}]
        BY <2>4 DEF Launch, Save, GiveUp, Put, TypeOK
      <3>8. rows' \subseteq Containers /\ lost' \subseteq Containers
        BY <2>4, <3>2 DEF Launch, Save, GiveUp, TypeOK
      <3> QED BY <3>5, <3>6, <3>7, <3>8, <2>4 DEF Launch, Save, TypeOK
    <2>5. CASE Lock(j) \/ Toggle(j)
      <3>1. r \in ListJobs
        BY <2>0, <2>5, JobShape DEF Lock, Toggle, At, ProvisionJobs, Held
      <3>2. r.todo \subseteq Containers
        BY <3>1 DEF ListJobs
      <3>3. \A c \in r.todo : Lock(j) /\ Take(j, c, c, "stopping") => jobs' \in [Jobs -> JobRecords]
        <4>1. \A c \in r.todo : r.kind \in {"teardown", "restart"} =>
                [r EXCEPT !.todo = r.todo \ {c}, !.in = c, !.at = "stopping"]
                   \in JobRecords
          BY <3>1 DEF JobRecords, ListJobs, HoldingJobs, Held
        <4> QED BY <4>1 DEF TypeOK, Take, Lock, At
      <3>4. ASSUME NEW c, Take(j, c, None, "next") PROVE jobs' \in [Jobs -> JobRecords]
        <4>1. [r EXCEPT !.todo = r.todo \ {c}, !.in = None, !.at = "next"]
                   \in JobRecords
          BY <3>1 DEF JobRecords, ListJobs
        <4> QED BY <4>1, <3>4 DEF TypeOK, Take
      <3>5. CASE Lock(j)
        BY <3>3, <3>5 DEF Lock, history, TypeOK
      <3>6. CASE Toggle(j)
        <4>1. jobs' \in [Jobs -> JobRecords]
          BY <3>4, <3>6 DEF Toggle
        <4>2. docker' \in [Containers -> {"none", "created", "running", "paused", "exited"}]
          BY <3>6 DEF Toggle, Put, TypeOK
        <4>3. disturbed' \in BOOLEAN
          BY <3>6 DEF Toggle, TypeOK
        <4> QED BY <4>1, <4>2, <4>3, <3>6 DEF Toggle, TypeOK
      <3> QED BY <2>5, <3>5, <3>6
    <2>6. CASE Halt(j) \/ Remove(j) \/ DeleteRow(j) \/ Restarted(j)
      <3>1. r \in HoldingJobs
        BY <2>0, <2>6, JobShape DEF Halt, Remove, DeleteRow, Restarted, At, Held
      <3>2. r.in \in Containers /\ r.in[1] \in Cells
        BY <3>1 DEF HoldingJobs, Containers
      <3>3. \A p \in Held : Move(j, p) => jobs' \in [Jobs -> JobRecords]
        <4>1. \A p \in Held :
                [r EXCEPT !.at = p] \in JobRecords
          BY <3>1 DEF JobRecords, HoldingJobs
        <4> QED BY <4>1 DEF TypeOK, Move, Leave
      <3>4. Leave(j) => jobs' \in [Jobs -> JobRecords]
        <4>1. [r EXCEPT !.in = None, !.at = "next"]
                \in JobRecords
          BY <3>1 DEF JobRecords, HoldingJobs, ListJobs, Kinds
        <4> QED BY <4>1 DEF TypeOK, Move, Leave
      <3>5. jobs' \in [Jobs -> JobRecords]
        BY <2>6, <3>3, <3>4 DEF Halt, Remove, DeleteRow, Restarted, Held
      <3>6. excused' \in SUBSET Cells /\ disturbed' \in BOOLEAN
        BY <2>6, <3>2 DEF Halt, Remove, DeleteRow, Restarted, Excuse, Fine, TypeOK, history
      <3>7. docker' \in [Containers -> {"none", "created", "running", "paused", "exited"}]
        BY <2>6 DEF Halt, Remove, DeleteRow, Restarted, Put, TypeOK
      <3>8. rows' \subseteq Containers /\ lost' = lost /\ wanted' = wanted /\ status' = status
        BY <2>6 DEF Halt, Remove, DeleteRow, Restarted, TypeOK, history
      <3>9. mu' \in Jobs \cup {Free}
        BY <2>6 DEF Halt, Remove, DeleteRow, Restarted, TypeOK
      <3> QED BY <3>5, <3>6, <3>7, <3>8, <3>9 DEF TypeOK
    <2> QED BY <1>5, <2>1, <2>2, <2>3, <2>4, <2>5, <2>6 DEF Job
  <1>6. CASE UNCHANGED vars
    BY <1>6 DEF vars, store, history, TypeOK
  <1> QED BY <1>2, <1>3, <1>4, <1>5, <1>6 DEF Next
-----------------------------------------------------------------------------
LEMMA NoneIsNoContainer == None \notin Containers
  BY DEF None, Containers

\* A container in the making has a job of the kind that makes containers.
LEMMA MakerShape ==
  ASSUME TypeOK, NEW j \in Jobs, jobs[j].at \in {"created", "started"}
  PROVE  jobs[j].in \in Containers /\ jobs[j].kind = "provision"
  <1>1. jobs[j] \in MakingJobs
    BY JobShape DEF TypeOK
  <1> QED BY <1>1 DEF MakingJobs

Stays(x, y) == x = "none" <=> y = "none"

\* A step that makes and deletes nothing, of a goroutine that is not making a
\* container, and whose container and list come from what is on record.
LEMMA Quietly ==
  ASSUME TypeOK, Apart, NothingLost, NEW j \in Jobs,
         jobs[j].at \notin {"created", "started"},
         jobs'[j].at \notin {"created", "started", "deleting"},
         \A i \in Jobs : i # j => jobs'[i] = jobs[i],
         \/ jobs'[j].in \in {None, jobs[j].in}
         \/ jobs[j].kind # "provision" /\ jobs'[j].in \in jobs[j].todo,
         jobs'[j].kind # "provision" =>
           \/ jobs'[j].todo \subseteq rows
           \/ jobs[j].kind # "provision" /\ jobs'[j].todo \subseteq jobs[j].todo,
         rows' = rows, lost' = lost, \A c \in Containers : Stays(docker[c], docker'[c])
  PROVE  Apart' /\ NothingLost'
  <1>1. ASSUME NEW i \in Jobs, jobs'[i].at \in {"created", "started"}
        PROVE  /\ jobs'[i].in \notin rows' \cup lost'
               /\ \A k \in Jobs : k # i => jobs'[k].in # jobs'[i].in
               /\ \A k \in Jobs : jobs'[k].kind # "provision" => jobs'[i].in \notin jobs'[k].todo
    <2>1. i # j /\ jobs'[i] = jobs[i] /\ jobs[i].in \in Containers
      BY <1>1, MakerShape
    <2> QED BY <1>1, <2>1, NoneIsNoContainer DEF Apart
  <1>2. ASSUME NEW i \in Jobs, jobs'[i].at = "deleting" PROVE docker'[jobs'[i].in] = "none"
    <2>1. i # j /\ jobs'[i] = jobs[i] /\ jobs[i] \in HoldingJobs
      BY <1>2, JobShape DEF TypeOK, Held
    <2>2. jobs[i].in \in Containers
      BY <2>1 DEF HoldingJobs
    <2> QED BY <1>2, <2>1, <2>2 DEF Apart, Stays
  <1>3. ASSUME NEW c \in Containers, docker'[c] # "none" PROVE c \in rows' \cup lost' \cup Creating'
    BY <1>3 DEF NothingLost, Creating, Stays
  <1> QED BY <1>1, <1>2, <1>3 DEF Apart, NothingLost

LEMMA SpawnKeeps ==
  ASSUME TypeOK, Apart, NothingLost, NEW kind \in Kinds, NEW sync \in BOOLEAN,
         kind = "provision" => sync = FALSE, Spawn(kind, sync)
  PROVE  Apart' /\ NothingLost'
  <1>1. PICK j \in Jobs :
           /\ jobs[j] = NoJob
           /\ jobs' = [jobs EXCEPT ![j] = [kind |-> kind, at |-> "find", todo |-> {},
                                            sync |-> sync, in |-> None]]
    BY SpawnEffect
  <1>2. jobs[j].at = "none" /\ jobs'[j].at = "find" /\ jobs'[j].in = None /\ jobs'[j].todo = {}
    BY <1>1 DEF NoJob, TypeOK
  <1>3. \A i \in Jobs : i # j => jobs'[i] = jobs[i]
    BY <1>1 DEF TypeOK
  <1>4. rows' = rows /\ lost' = lost /\ docker' = docker
    BY DEF Spawn, store
  <1> QED BY <1>2, <1>3, <1>4, Quietly DEF Stays

LEMMA IStep == IInv /\ [Next]_vars => IInv'
  <1> SUFFICES ASSUME TypeOK, Apart, NothingLost, [Next]_vars PROVE Apart' /\ NothingLost'
    BY TypeStep DEF IInv
  <1>1. CASE Requests \/ Recover
    <2>1. CASE FinishGame
      BY <2>1 DEF FinishGame, store, history, Apart, NothingLost, Creating
    <2>2. CASE StartGame \/ PauseGame \/ ResumeGame \/ StopGame \/ ResetGame \/ Restart \/ Recover
      <3>1. PICK kind \in Kinds, sync \in BOOLEAN :
              (kind = "provision" => sync = FALSE) /\ Spawn(kind, sync)
        BY <2>2 DEF StartGame, PauseGame, ResumeGame, StopGame, ResetGame, Restart, Recover, Kinds
      <3> QED BY <3>1, SpawnKeeps
    <2> QED BY <1>1, <2>1, <2>2 DEF Requests
  <1>2. CASE Crash
    <2>1. \A j \in Jobs : jobs'[j].at = "none"
      BY <1>2 DEF Crash, NoJob
    <2>2. Apart'
      BY <2>1 DEF Apart
    <2>3. rows' = rows /\ docker' = docker /\ lost' = lost \cup Creating
      BY <1>2 DEF Crash
    <2> QED BY <2>2, <2>3 DEF NothingLost
  <1>3. ASSUME NEW j \in Jobs, Job(j) PROVE Apart' /\ NothingLost'
    <2> DEFINE r == jobs[j]
    <2>0. r \in JobRecords
      BY DEF TypeOK
    <2>1. CASE Find(j)
      <3>1. r \in ProvisionJobs \cup ListJobs
        BY <2>0, <2>1, JobShape DEF Find
      <3>2. PICK list \in Lists(r.kind) :
                jobs' = [jobs EXCEPT ![j] = [@ EXCEPT !.at = "next", !.todo = list]]
        BY <2>1 DEF Find
      <3>3. r.kind # "provision" => list \subseteq rows
        BY <3>2 DEF Lists
      <3>4. /\ jobs'[j].at = "next" /\ jobs'[j].in = r.in /\ jobs'[j].kind = r.kind
            /\ r.kind # "provision" => jobs'[j].todo \subseteq rows
            /\ \A i \in Jobs : i # j => jobs'[i] = jobs[i]
        BY <3>2, <3>3, <3>1 DEF TypeOK, ProvisionJobs, ListJobs
      <3> QED BY <2>1, <3>4, Quietly DEF Find, store, history, Stays
    <2>2. CASE End(j) \/ FindFails(j)
      <3>1. r \in ProvisionJobs \cup ListJobs
        BY <2>0, <2>2, JobShape DEF End, FindFails
      <3>2. /\ r.sync => r \in ListJobs /\ r.kind # "provision"
            /\ r.in = None
        BY <3>1 DEF ProvisionJobs, ListJobs
      <3>3. jobs' = [jobs EXCEPT ![j] = IF r.sync
                                        THEN [r EXCEPT !.sync = FALSE, !.at = "find"] ELSE NoJob]
        BY <2>2 DEF End, FindFails, Over
      <3>4. r \in ListJobs =>
              LET s == [r EXCEPT !.sync = FALSE, !.at = "find"]
              IN  s.at = "find" /\ s.in = None /\ s.todo = r.todo
        BY DEF ListJobs
      <3>5. CASE r.sync
        <4>1. /\ jobs'[j].at = "find" /\ jobs'[j].in = None /\ jobs'[j].todo = r.todo
              /\ \A i \in Jobs : i # j => jobs'[i] = jobs[i]
          BY <3>2, <3>3, <3>4, <3>5 DEF TypeOK
        <4> QED BY <4>1, <2>2, <3>2, <3>5, Quietly DEF End, FindFails, store, history, Stays
      <3>6. CASE ~r.sync
        <4>1. /\ jobs'[j].at = "none" /\ jobs'[j].in = None /\ jobs'[j].todo = {}
              /\ \A i \in Jobs : i # j => jobs'[i] = jobs[i]
          BY <3>3, <3>6 DEF TypeOK, NoJob
        <4> QED BY <4>1, <2>2, Quietly DEF End, FindFails, store, history, Stays
      <3> QED BY <3>5, <3>6
    <2>3. CASE Create(j)
      <3>1. r \in ProvisionJobs
        BY <2>0, <2>3, JobShape DEF Create, At
      <3>2. ASSUME NEW x, Take(j, x, None, "next"), UNCHANGED docker PROVE Apart' /\ NothingLost'
        <4>1. /\ jobs'[j].at = "next" /\ jobs'[j].in = None /\ jobs'[j].kind = "provision"
              /\ \A i \in Jobs : i # j => jobs'[i] = jobs[i]
          BY <3>1, <3>2 DEF Take, TypeOK, ProvisionJobs
        <4> QED BY <4>1, <2>3, <3>2, Quietly DEF Create, At, Stays
      <3>3. ASSUME NEW x, NEW c \in Containers, c \notin Known,
                   Take(j, x, c, "created"), Put(c, "created")
            PROVE  Apart' /\ NothingLost'
        <4>1. /\ jobs'[j].at = "created" /\ jobs'[j].in = c /\ jobs'[j].kind = "provision"
              /\ \A i \in Jobs : i # j => jobs'[i] = jobs[i]
          BY <3>1, <3>3 DEF Take, TypeOK, ProvisionJobs
        <4>2. /\ c \notin rows \cup lost
              /\ \A i \in Jobs : jobs[i].in # c /\ c \notin jobs[i].todo
          BY <3>3, NoneIsNoContainer DEF Known, Active, NoJob
        <4>3. rows' = rows /\ lost' = lost
          BY <2>3 DEF Create
        <4>4. docker'[c] = "created" /\ \A d \in Containers : d # c => docker'[d] = docker[d]
          BY <3>3 DEF Put, TypeOK
        <4>5. ASSUME NEW i \in Jobs, jobs'[i].at \in {"created", "started"}
              PROVE  /\ jobs'[i].in \notin rows' \cup lost'
                     /\ \A k \in Jobs : k # i => jobs'[k].in # jobs'[i].in
                     /\ \A k \in Jobs : jobs'[k].kind # "provision" => jobs'[i].in \notin jobs'[k].todo
          BY <4>1, <4>2, <4>3, <4>5 DEF Apart
        <4>6. ASSUME NEW i \in Jobs, jobs'[i].at = "deleting" PROVE docker'[jobs'[i].in] = "none"
          <5>1. i # j /\ jobs'[i] = jobs[i] /\ jobs[i] \in HoldingJobs
            BY <4>1, <4>6, JobShape DEF TypeOK, Held
          <5>2. jobs[i].in \in Containers
            BY <5>1 DEF HoldingJobs
          <5> QED BY <4>2, <4>4, <4>6, <5>1, <5>2 DEF Apart
        <4>7. ASSUME NEW d \in Containers, docker'[d] # "none" PROVE d \in rows' \cup lost' \cup Creating'
          <5>1. CASE d = c
            BY <5>1, <4>1 DEF Creating
          <5>2. CASE d # c
            BY <5>2, <4>1, <4>3, <4>4, <4>7, <2>3 DEF NothingLost, Creating, Create, At
          <5> QED BY <5>1, <5>2
        <4> QED BY <4>5, <4>6, <4>7 DEF Apart, NothingLost
      <3>4. r.todo \subseteq Cells
        BY <3>1 DEF ProvisionJobs
      <3> QED BY <2>3, <3>2, <3>3, <3>4 DEF Create, Containers
    <2>4. CASE Launch(j) \/ Save(j)
      <3> DEFINE c == r.in
      <3>1. r \in MakingJobs
        BY <2>0, <2>4, JobShape DEF Launch, Save, At
      <3>2. /\ c \in Containers /\ r.at \in {"created", "started"} /\ r.kind = "provision"
            /\ c \notin rows \cup lost
            /\ \A i \in Jobs : i # j => jobs[i].in # c
            /\ \A i \in Jobs : jobs[i].kind # "provision" => c \notin jobs[i].todo
        BY <3>1 DEF MakingJobs, Apart
      <3>3. \A i \in Jobs : i # j => jobs'[i] = jobs[i]
        BY <2>4 DEF Launch, Save, GiveUp, Move, Leave, TypeOK
      <3>4. \A d \in Containers : d # c => docker'[d] = docker[d]
        BY <2>4 DEF Launch, Save, GiveUp, Put, TypeOK
      <3>m. ASSUME NEW p, Move(j, p)
            PROVE  /\ jobs'[j].at = p /\ jobs'[j].in = r.in /\ jobs'[j].kind = r.kind
                   /\ jobs'[j].todo = r.todo
        BY <3>1, <3>m DEF Move, TypeOK, MakingJobs
      <3>l. ASSUME Leave(j)
            PROVE  /\ jobs'[j].at = "next" /\ jobs'[j].in = None /\ jobs'[j].kind = r.kind
                   /\ jobs'[j].todo = r.todo
        BY <3>1, <3>l DEF Leave, TypeOK, MakingJobs
      <3>5. jobs'[j].kind = "provision" /\ jobs'[j].at \in {"started", "next"}
        BY <2>4, <3>2, <3>m, <3>l DEF Launch, Save, GiveUp
      <3>6. \/ jobs'[j].at = "started" /\ jobs'[j].in = c /\ rows' = rows /\ lost' = lost
            \/ /\ jobs'[j].at = "next" /\ jobs'[j].in = None
               /\ \/ rows' = rows \cup {c} /\ lost' = lost
                  \/ rows' = rows /\ lost' = lost \cup {c}
                  \/ rows' = rows /\ lost' = lost /\ docker'[c] = "none"
        <4>1. Put(c, "none") => docker'[c] = "none"
          BY <3>2 DEF Put, TypeOK
        <4>2. CASE Launch(j)
          BY <4>1, <4>2, <3>m, <3>l DEF Launch, GiveUp
        <4>3. CASE Save(j)
          BY <4>1, <4>3, <3>m, <3>l DEF Save, GiveUp
        <4> QED BY <2>4, <4>2, <4>3
      <3>7. ASSUME NEW i \in Jobs, jobs'[i].at \in {"created", "started"}
            PROVE  /\ jobs'[i].in \notin rows' \cup lost'
                   /\ \A k \in Jobs : k # i => jobs'[k].in # jobs'[i].in
                   /\ \A k \in Jobs : jobs'[k].kind # "provision" => jobs'[i].in \notin jobs'[k].todo
        <4>1. CASE i = j
          BY <4>1, <3>2, <3>3, <3>5, <3>6, <3>7
        <4>2. CASE i # j
          <5>1. jobs'[i] = jobs[i] /\ jobs[i].in \in Containers /\ jobs[i].in # c
            BY <4>2, <3>2, <3>3, <3>7, MakerShape
          <5>2. jobs[i].in \notin rows' \cup lost'
            BY <5>1, <3>6, <3>7 DEF Apart
          <5>3. \A k \in Jobs : k # i => jobs'[k].in # jobs[i].in
            BY <5>1, <3>3, <3>6, <3>7, NoneIsNoContainer DEF Apart
          <5>4. \A k \in Jobs : jobs'[k].kind # "provision" => jobs[i].in \notin jobs'[k].todo
            BY <5>1, <3>3, <3>5, <3>7 DEF Apart
          <5> QED BY <5>1, <5>2, <5>3, <5>4
        <4> QED BY <4>1, <4>2
      <3>8. ASSUME NEW i \in Jobs, jobs'[i].at = "deleting" PROVE docker'[jobs'[i].in] = "none"
        <4>1. i # j /\ jobs'[i] = jobs[i] /\ jobs[i] \in HoldingJobs
          BY <3>3, <3>5, <3>8, JobShape DEF TypeOK, Held
        <4>2. jobs[i].in \in Containers
          BY <4>1 DEF HoldingJobs
        <4> QED BY <3>2, <3>4, <3>8, <4>1, <4>2 DEF Apart
      <3>9. ASSUME NEW d \in Containers, docker'[d] # "none" PROVE d \in rows' \cup lost' \cup Creating'
        <4>1. CASE d = c
          BY <4>1, <3>6, <3>9 DEF Creating
        <4>2. CASE d # c
          BY <4>2, <3>3, <3>4, <3>6, <3>9 DEF NothingLost, Creating
        <4> QED BY <4>1, <4>2
      <3> QED BY <3>7, <3>8, <3>9 DEF Apart, NothingLost
    <2>5. CASE Lock(j) \/ Toggle(j)
      <3>1. r \in ListJobs
        BY <2>0, <2>5, JobShape DEF Lock, Toggle, At
      <3>2. PICK c \in r.todo : Take(j, c, c, "stopping") \/ Take(j, c, None, "next")
        BY <2>5 DEF Lock, Toggle
      <3>3. /\ jobs'[j].at \in {"stopping", "next"} /\ jobs'[j].in \in {None, c}
            /\ jobs'[j].todo \subseteq r.todo /\ r.kind # "provision" /\ r.at \in {"find", "next"}
            /\ \A i \in Jobs : i # j => jobs'[i] = jobs[i]
        <4>1. /\ r.kind # "provision" /\ r.at \in {"find", "next"}
              /\ DOMAIN r = {"kind", "at", "todo", "sync", "in"}
          BY <3>1 DEF ListJobs
        <4>2. \E p \in {"stopping", "next"}, x \in {None, c} :
                 jobs'[j] = [r EXCEPT !.todo = r.todo \ {c}, !.in = x, !.at = p]
          BY <3>2 DEF Take, TypeOK
        <4>3. \A i \in Jobs : i # j => jobs'[i] = jobs[i]
          BY <3>2 DEF Take, TypeOK
        <4> QED BY <4>1, <4>2, <4>3
      <3>4. \A d \in Containers : Stays(docker[d], docker'[d])
        BY <2>5 DEF Lock, Toggle, Put, TypeOK, Stays
      <3>5. rows' = rows /\ lost' = lost
        BY <2>5 DEF Lock, Toggle, history
      <3> QED BY <3>3, <3>4, <3>5, Quietly
    <2>6. CASE Halt(j) \/ Remove(j) \/ DeleteRow(j) \/ Restarted(j)
      <3> DEFINE c == r.in
      <3>1. r \in HoldingJobs
        BY <2>0, <2>6, JobShape DEF Halt, Remove, DeleteRow, Restarted, At, Held
      <3>2. c \in Containers /\ r.kind # "provision" /\ r.at \in Held
        BY <3>1 DEF HoldingJobs
      <3>m. ASSUME NEW p, Move(j, p)
            PROVE  /\ jobs'[j].at = p /\ jobs'[j].in = r.in /\ jobs'[j].kind = r.kind
                   /\ jobs'[j].todo = r.todo
        BY <3>1, <3>m DEF Move, TypeOK, HoldingJobs
      <3>l. ASSUME Leave(j)
            PROVE  /\ jobs'[j].at = "next" /\ jobs'[j].in = None /\ jobs'[j].kind = r.kind
                   /\ jobs'[j].todo = r.todo
        BY <3>1, <3>l DEF Leave, TypeOK, HoldingJobs
      <3>3. /\ jobs'[j].at \in {"removing", "starting", "deleting", "next"}
            /\ jobs'[j].in \in {None, c}
            /\ jobs'[j].todo = r.todo /\ jobs'[j].kind = r.kind
            /\ \A i \in Jobs : i # j => jobs'[i] = jobs[i]
        <4>1. \A i \in Jobs : i # j => jobs'[i] = jobs[i]
          BY <2>6 DEF Halt, Remove, DeleteRow, Restarted, Move, Leave, TypeOK
        <4>2. CASE Halt(j)
          BY <4>1, <4>2, <3>m DEF Halt
        <4>3. CASE Remove(j)
          BY <4>1, <4>3, <3>m, <3>l DEF Remove
        <4>4. CASE DeleteRow(j) \/ Restarted(j)
          BY <4>1, <4>4, <3>l DEF DeleteRow, Restarted
        <4> QED BY <2>6, <4>2, <4>3, <4>4
      <3>4. lost' = lost /\ rows' \subseteq rows
        BY <2>6 DEF Halt, Remove, DeleteRow, Restarted, history
      <3>5. \A d \in Containers : docker'[d] # "none" => docker[d] # "none"
        <4>1. CASE Halt(j)
          BY <4>1 DEF Halt, Put, TypeOK
        <4>2. CASE Remove(j)
          BY <4>2 DEF Remove, Put, TypeOK
        <4>3. CASE DeleteRow(j) \/ Restarted(j)
          BY <4>3 DEF DeleteRow, Restarted, Put, TypeOK
        <4> QED BY <2>6, <4>1, <4>2, <4>3
      <3>6. jobs'[j].at = "deleting" => docker'[jobs'[j].in] = "none"
        <4>1. CASE Halt(j)
          BY <4>1, <3>m DEF Halt
        <4>2. CASE Remove(j)
          <5>1. Put(c, "none") => docker'[c] = "none"
            BY <3>2 DEF Put, TypeOK
          <5> QED BY <4>2, <5>1, <3>m, <3>l DEF Remove
        <4>3. CASE DeleteRow(j) \/ Restarted(j)
          BY <4>3, <3>l DEF DeleteRow, Restarted
        <4> QED BY <2>6, <4>1, <4>2, <4>3
      <3>7. \A d \in Containers : d \in rows \ rows' => docker'[d] = "none"
        BY <2>6 DEF Halt, Remove, DeleteRow, Restarted, At, Apart, history
      <3>8. ASSUME NEW i \in Jobs, jobs'[i].at \in {"created", "started"}
            PROVE  /\ jobs'[i].in \notin rows' \cup lost'
                   /\ \A k \in Jobs : k # i => jobs'[k].in # jobs'[i].in
                   /\ \A k \in Jobs : jobs'[k].kind # "provision" => jobs'[i].in \notin jobs'[k].todo
        <4>1. i # j /\ jobs'[i] = jobs[i] /\ jobs[i].in \in Containers
          BY <3>3, <3>8, MakerShape
        <4> QED BY <3>2, <3>3, <3>4, <3>8, <4>1, NoneIsNoContainer DEF Apart
      <3>9. ASSUME NEW i \in Jobs, jobs'[i].at = "deleting" PROVE docker'[jobs'[i].in] = "none"
        <4>1. CASE i # j
          <5>1. jobs'[i] = jobs[i] /\ jobs[i] \in HoldingJobs
            BY <3>3, <3>9, <4>1, JobShape DEF TypeOK, Held
          <5>2. jobs[i].in \in Containers
            BY <5>1 DEF HoldingJobs
          <5> QED BY <3>5, <3>9, <5>1, <5>2 DEF Apart
        <4> QED BY <4>1, <3>6, <3>9
      <3>10. ASSUME NEW d \in Containers, docker'[d] # "none" PROVE d \in rows' \cup lost' \cup Creating'
        <4>1. d \in rows \cup lost \cup Creating
          BY <3>5, <3>10 DEF NothingLost
        <4>2. d \in Creating => d \in Creating'
          BY <3>2, <3>3 DEF Creating, Held
        <4> QED BY <3>4, <3>7, <3>10, <4>1, <4>2
      <3> QED BY <3>8, <3>9, <3>10 DEF Apart, NothingLost
    <2> QED BY <1>3, <2>1, <2>2, <2>3, <2>4, <2>5, <2>6 DEF Job
  <1>4. CASE UNCHANGED vars
    BY <1>4 DEF vars, store, history, Apart, NothingLost, Creating
  <1> QED BY <1>1, <1>2, <1>3, <1>4 DEF Next

LEMMA InitInv == Init => IInv
  BY TypeInit DEF Init, IInv, Apart, NothingLost, NoJob

LEMMA Inductive == Spec => []IInv
  <1>1. IInv /\ [Next]_vars => IInv'
    BY IStep
  <1> QED BY <1>1, InitInv, PTL DEF Spec
-----------------------------------------------------------------------------
\* Goroutines, containers and rows stay within their types: what is made is
\* made by a provisioning, what holds the mutex is a teardown or a restart.
THEOREM TypeCorrect == Spec => []TypeOK
  BY Inductive, PTL DEF IInv

\* DestroyContainer and CreateChallengeContainer, in any number of goroutines
\* and with any calls failing, leave no container without a row but those whose
\* creation failed and could not be undone, or was cut by a crash.
THEOREM NoneLost == Spec => []NothingLost
  BY Inductive, PTL DEF IInv
-----------------------------------------------------------------------------
(***************************************************************************)
(* The containers match the game.                                          *)
(***************************************************************************)

LEMMA JobFields ==
  ASSUME NEW r \in JobRecords
  PROVE  DOMAIN r = {"kind", "at", "todo", "sync", "in"}
<1>1. r = NoJob => DOMAIN r = {"kind", "at", "todo", "sync", "in"}
  BY DEF NoJob
<1>2. r \in ProvisionJobs => DOMAIN r = {"kind", "at", "todo", "sync", "in"}
  BY DEF ProvisionJobs
<1>3. r \in MakingJobs => DOMAIN r = {"kind", "at", "todo", "sync", "in"}
  BY DEF MakingJobs
<1>4. r \in ListJobs => DOMAIN r = {"kind", "at", "todo", "sync", "in"}
  BY DEF ListJobs
<1>5. r \in HoldingJobs => DOMAIN r = {"kind", "at", "todo", "sync", "in"}
  BY DEF HoldingJobs
<1> QED BY <1>1, <1>2, <1>3, <1>4, <1>5 DEF JobRecords

\* What the fields of a job are after a step of it.
LEMMA MoveFields ==
  ASSUME jobs \in [Jobs -> JobRecords], NEW j \in Jobs, NEW p, Move(j, p)
  PROVE  /\ jobs'[j].at = p /\ jobs'[j].kind = jobs[j].kind
         /\ jobs'[j].todo = jobs[j].todo /\ jobs'[j].in = jobs[j].in
         /\ \A i \in Jobs : i # j => jobs'[i] = jobs[i]
<1>1. DOMAIN jobs[j] = {"kind", "at", "todo", "sync", "in"}
  BY JobFields
<1> QED BY <1>1 DEF Move

LEMMA LeaveFields ==
  ASSUME jobs \in [Jobs -> JobRecords], NEW j \in Jobs, Leave(j)
  PROVE  /\ jobs'[j].at = "next" /\ jobs'[j].kind = jobs[j].kind
         /\ jobs'[j].todo = jobs[j].todo /\ jobs'[j].in = None
         /\ \A i \in Jobs : i # j => jobs'[i] = jobs[i]
<1>1. DOMAIN jobs[j] = {"kind", "at", "todo", "sync", "in"}
  BY JobFields
<1> QED BY <1>1 DEF Leave

LEMMA TakeFields ==
  ASSUME jobs \in [Jobs -> JobRecords], NEW j \in Jobs, NEW x, NEW c, NEW p, Take(j, x, c, p)
  PROVE  /\ jobs'[j].at = p /\ jobs'[j].kind = jobs[j].kind
         /\ jobs'[j].todo = jobs[j].todo \ {x} /\ jobs'[j].in = c
         /\ \A i \in Jobs : i # j => jobs'[i] = jobs[i]
<1>1. DOMAIN jobs[j] = {"kind", "at", "todo", "sync", "in"}
  BY JobFields
<1> QED BY <1>1 DEF Take

\* A job q that will remove container c, which is on record if listed says so.
Doomed(q, c, listed) ==
  /\ q.kind = "teardown"
  /\ \/ q.at = "find" /\ listed
     \/ q.at # "find" /\ c \in q.todo
     \/ q.in = c /\ q.at \in {"stopping", "removing"}

\* A job that will see to it that a cell has a container.
Comes(q, cell) == q.kind = "provision" /\ (q.at = "find" \/ cell \in q.todo)

\* A cell of a started game has a container or will get one, and nothing tears
\* it down; the containers of a cell of another game are about to be removed,
\* and nothing makes one.
MatchInv ==
  /\ status \in {"running", "paused"} => wanted
  /\ \A c \in lost : c[1] \in excused
  /\ \A cell \in Cells \ excused :
       /\ wanted => \A j \in Jobs : jobs[j].kind # "teardown"
       /\ ~wanted => \A j \in Jobs : jobs[j].kind # "provision"
       /\ wanted => \/ \E n \in 1..Lives : docker[<<cell, n>>] # "none"
                    \/ \E j \in Jobs : Comes(jobs[j], cell)
       /\ ~wanted => \A n \in 1..Lives : docker[<<cell, n>>] # "none" =>
                       \E j \in Jobs : Doomed(jobs[j], <<cell, n>>, <<cell, n>> \in rows)

\* What the states of the containers are when the game has a status.
RightState(s) == IF s = "paused" THEN "paused" ELSE "running"
Turning(s) == IF s = "paused" THEN "pause" ELSE "unpause"

\* A job that will bring a container into the state that is right, or fail.
Corrects(q, c, listed, s) ==
  \/ q.kind = "provision" /\ q.at = "created" /\ q.in = c
  \/ q.kind = "restart" /\ q.in = c
  \/ /\ q.kind = Turning(s)
     /\ (q.at = "find" /\ listed) \/ (q.at # "find" /\ c \in q.todo)

Changes(q) == q.kind \in Kinds \ {"teardown"}

\* What holds of a job while nothing has overlapped or failed.
JobFits(q, s) ==
  Changes(q) =>
    /\ s = "paused" => q.kind = "pause"
    /\ s = "running" => q.kind # "pause"
    /\ q.at = "created" => docker[q.in] = "created"
    /\ q.at = "started" => docker[q.in] = "running"

\* Unless something overlapped or failed, at most one job changes the states of
\* containers, and it fits the status of the game; what is not in the state that
\* is right will be corrected or removed.  A pause that goes on in a game that was
\* reset meets only containers that will be removed.
StateInv ==
  ~disturbed =>
    /\ lost = {}
    /\ \A i, j \in Jobs : Changes(jobs[i]) /\ Changes(jobs[j]) => i = j
    /\ \A j \in Jobs : JobFits(jobs[j], status)
    /\ status = "draft" /\ (\E j \in Jobs : jobs[j].kind = "pause") =>
         \A c \in Containers : docker[c] # "none" =>
           \E j \in Jobs : Doomed(jobs[j], c, c \in rows)
    /\ status # "finished" =>
         \A c \in Containers : docker[c] # "none" =>
           \/ docker[c] = RightState(status)
           \/ \E j \in Jobs : \/ Doomed(jobs[j], c, c \in rows)
                              \/ Corrects(jobs[j], c, c \in rows, status)
-----------------------------------------------------------------------------
\* A step of a goroutine that leaves containers where they were wanted or not,
\* except where a call failed.
LEMMA MatchKeeps ==
  ASSUME TypeOK, TypeOK', MatchInv, NEW j \in Jobs, \A i \in Jobs : i # j => jobs'[i] = jobs[i],
         jobs'[j].kind \in {jobs[j].kind, "none"},
         status' = status, wanted' = wanted, excused \subseteq excused',
         \A c \in Containers : c \in lost' => c \in lost \/ c[1] \in excused',
         \A c \in Containers : c[1] \notin excused' =>
           /\ docker[c] # "none" => docker'[c] # "none" \/ jobs[j].kind = "teardown"
           /\ docker'[c] # "none" => docker[c] # "none" \/ jobs[j].kind = "provision"
           /\ docker'[c] # "none" /\ c \in rows => c \in rows'
           /\ docker'[c] # "none" /\ Doomed(jobs[j], c, c \in rows)
                => Doomed(jobs'[j], c, c \in rows'),
         \A cell \in Cells \ excused' : Comes(jobs[j], cell) =>
           \/ Comes(jobs'[j], cell)
           \/ \E n \in 1..Lives : docker'[<<cell, n>>] # "none"
  PROVE  MatchInv'
<1>1. \A c \in lost' : c[1] \in excused'
  BY DEF MatchInv, TypeOK
<1>2. ASSUME NEW cell \in Cells, cell \notin excused'
      PROVE  /\ wanted' => \A i \in Jobs : jobs'[i].kind # "teardown"
             /\ ~wanted' => \A i \in Jobs : jobs'[i].kind # "provision"
             /\ wanted' => \/ \E n \in 1..Lives : docker'[<<cell, n>>] # "none"
                           \/ \E i \in Jobs : Comes(jobs'[i], cell)
             /\ ~wanted' => \A n \in 1..Lives : docker'[<<cell, n>>] # "none" =>
                              \E i \in Jobs : Doomed(jobs'[i], <<cell, n>>, <<cell, n>> \in rows')
  <2>1. /\ wanted => \A i \in Jobs : jobs[i].kind # "teardown"
        /\ ~wanted => \A i \in Jobs : jobs[i].kind # "provision"
        /\ wanted => \/ \E n \in 1..Lives : docker[<<cell, n>>] # "none"
                     \/ \E i \in Jobs : Comes(jobs[i], cell)
        /\ ~wanted => \A n \in 1..Lives : docker[<<cell, n>>] # "none" =>
                        \E i \in Jobs : Doomed(jobs[i], <<cell, n>>, <<cell, n>> \in rows)
    BY <1>2 DEF MatchInv
  <2>2. ASSUME NEW n \in 1..Lives PROVE <<cell, n>> \in Containers /\ <<cell, n>>[1] = cell
    BY DEF Containers
  <2>3. /\ wanted => \A i \in Jobs : jobs'[i].kind # "teardown"
        /\ ~wanted => \A i \in Jobs : jobs'[i].kind # "provision"
    BY <2>1
  <2>4. ASSUME wanted
        PROVE  \/ \E n \in 1..Lives : docker'[<<cell, n>>] # "none"
               \/ \E i \in Jobs : Comes(jobs'[i], cell)
    <3>1. CASE \E n \in 1..Lives : docker[<<cell, n>>] # "none"
      <4>1. PICK n \in 1..Lives : docker[<<cell, n>>] # "none"
        BY <3>1
      <4> QED BY <1>2, <2>1, <2>2, <2>4, <4>1
    <3>2. CASE \E i \in Jobs : Comes(jobs[i], cell)
      <4>1. PICK i \in Jobs : Comes(jobs[i], cell)
        BY <3>2
      <4> QED BY <1>2, <4>1
    <3> QED BY <2>1, <2>4, <3>1, <3>2
  <2>5. ASSUME ~wanted, NEW n \in 1..Lives, docker'[<<cell, n>>] # "none"
        PROVE  \E i \in Jobs : Doomed(jobs'[i], <<cell, n>>, <<cell, n>> \in rows')
    <3>1. PICK c \in Containers : c = <<cell, n>> /\ c[1] = cell
      BY <2>2
    <3>2. docker[c] # "none" /\ (c \in rows => c \in rows')
      BY <1>2, <2>1, <2>5, <3>1
    <3>3. PICK i \in Jobs : Doomed(jobs[i], c, c \in rows)
      BY <2>1, <2>5, <3>1, <3>2
    <3>4. CASE i = j
      BY <1>2, <2>5, <3>1, <3>3, <3>4
    <3>5. CASE i # j
      <4>1. Doomed(jobs[i], c, c \in rows')
        BY <3>2, <3>3 DEF Doomed
      <4> QED BY <3>1, <3>5, <4>1
    <3> QED BY <3>4, <3>5
  <2> QED BY <2>3, <2>4, <2>5
<1>3. status' \in {"running", "paused"} => wanted'
  BY DEF MatchInv
<1> QED BY <1>1, <1>2, <1>3 DEF MatchInv

\* A step of a goroutine that leaves what is right or corrects it, unless it fails.
LEMMA StateKeeps ==
  ASSUME TypeOK, TypeOK', StateInv, NEW j \in Jobs, \A i \in Jobs : i # j => jobs'[i] = jobs[i],
         jobs'[j].kind \in {jobs[j].kind, "none"},
         status' = status, ~disturbed' => ~disturbed /\ lost' = lost,
         ~disturbed' =>
           /\ jobs'[j].at = "created" => docker'[jobs'[j].in] = "created"
           /\ jobs'[j].at = "started" => docker'[jobs'[j].in] = "running"
           /\ \A i \in Jobs : i # j /\ jobs[i].at \in {"created", "started"}
                => docker'[jobs[i].in] = docker[jobs[i].in]
           /\ \A c \in Containers : docker'[c] # "none" =>
                \/ /\ docker[c] = "none" /\ jobs[j].kind = "provision"
                   /\ Corrects(jobs'[j], c, c \in rows', status)
                \/ /\ docker[c] # "none" /\ (c \in rows => c \in rows')
                   /\ Doomed(jobs[j], c, c \in rows) => Doomed(jobs'[j], c, c \in rows')
                   /\ docker[c] = RightState(status) \/ Corrects(jobs[j], c, c \in rows, status) =>
                        \/ docker'[c] = RightState(status)
                        \/ Doomed(jobs'[j], c, c \in rows')
                        \/ Corrects(jobs'[j], c, c \in rows', status)
                        \/ status = "finished"
                        \/ status = "draft" /\ jobs[j].kind = "pause"
  PROVE  StateInv'
<1> SUFFICES ASSUME ~disturbed'
             PROVE  /\ lost' = {}
                    /\ \A i, k \in Jobs : Changes(jobs'[i]) /\ Changes(jobs'[k]) => i = k
                    /\ \A i \in Jobs : JobFits(jobs[i], status)'
                    /\ status' = "draft" /\ (\E i \in Jobs : jobs'[i].kind = "pause") =>
                         \A c \in Containers : docker'[c] # "none" =>
                           \E i \in Jobs : Doomed(jobs'[i], c, c \in rows')
                    /\ status' # "finished" =>
                         \A c \in Containers : docker'[c] # "none" =>
                           \/ docker'[c] = RightState(status')
                           \/ \E i \in Jobs : \/ Doomed(jobs'[i], c, c \in rows')
                                              \/ Corrects(jobs'[i], c, c \in rows', status')
  BY DEF StateInv
<1>1. /\ lost = {} /\ ~disturbed
      /\ \A i, k \in Jobs : Changes(jobs[i]) /\ Changes(jobs[k]) => i = k
      /\ \A i \in Jobs : JobFits(jobs[i], status)
      /\ status = "draft" /\ (\E i \in Jobs : jobs[i].kind = "pause") =>
           \A c \in Containers : docker[c] # "none" =>
             \E i \in Jobs : Doomed(jobs[i], c, c \in rows)
      /\ status # "finished" =>
           \A c \in Containers : docker[c] # "none" =>
             \/ docker[c] = RightState(status)
             \/ \E i \in Jobs : \/ Doomed(jobs[i], c, c \in rows)
                                \/ Corrects(jobs[i], c, c \in rows, status)
  BY DEF StateInv
<1>2. \A i \in Jobs : jobs'[i].kind \in {jobs[i].kind, "none"}
  OBVIOUS
<1>3. \A i \in Jobs : Changes(jobs'[i]) => Changes(jobs[i]) /\ jobs'[i].kind = jobs[i].kind
  BY <1>2 DEF Changes, Kinds
<1>4. \A i \in Jobs : JobFits(jobs[i], status)'
  <2> TAKE i \in Jobs
  <2>1. JobFits(jobs[i], status)
    BY <1>1
  <2>2. CASE i = j
    BY <1>3, <2>1, <2>2 DEF JobFits
  <2>3. CASE i # j
    BY <1>3, <2>1, <2>3 DEF JobFits
  <2> QED BY <2>2, <2>3
\* Who will remove a container still will.
<1>5. ASSUME NEW c \in Containers, docker[c] # "none", docker'[c] # "none",
             \E i \in Jobs : Doomed(jobs[i], c, c \in rows)
      PROVE  \E i \in Jobs : Doomed(jobs'[i], c, c \in rows')
  <2>1. PICK i \in Jobs : Doomed(jobs[i], c, c \in rows)
    BY <1>5
  <2>2. c \in rows => c \in rows'
    BY <1>5
  <2>3. CASE i = j
    BY <1>5, <2>1, <2>3
  <2>4. CASE i # j
    <3>1. Doomed(jobs[i], c, c \in rows')
      BY <2>1, <2>2 DEF Doomed
    <3> QED BY <2>4, <3>1
  <2> QED BY <2>3, <2>4
<1>6. ASSUME status = "draft", NEW k \in Jobs, jobs[k].kind = "pause",
             NEW c \in Containers, docker'[c] # "none"
      PROVE  \E i \in Jobs : Doomed(jobs'[i], c, c \in rows')
  <2>1. jobs[j].kind # "provision"
    <3> SUFFICES ASSUME jobs[j].kind = "provision" PROVE FALSE
      OBVIOUS
    <3>1. Changes(jobs[j]) /\ Changes(jobs[k])
      BY <1>6 DEF Changes, Kinds
    <3> QED BY <1>1, <1>6, <3>1
  <2>2. docker[c] # "none"
    BY <1>6, <2>1
  <2> QED BY <1>1, <1>5, <1>6, <2>2
<1>7. ASSUME status # "finished", NEW c \in Containers, docker'[c] # "none"
      PROVE  \/ docker'[c] = RightState(status)
             \/ \E i \in Jobs : \/ Doomed(jobs'[i], c, c \in rows')
                                \/ Corrects(jobs'[i], c, c \in rows', status)
  <2>1. CASE docker[c] = "none"
    BY <1>7, <2>1
  <2>2. CASE docker[c] # "none"
    <3>1. /\ c \in rows => c \in rows'
          /\ docker[c] = RightState(status) \/ Corrects(jobs[j], c, c \in rows, status) =>
               \/ docker'[c] = RightState(status)
               \/ Doomed(jobs'[j], c, c \in rows')
               \/ Corrects(jobs'[j], c, c \in rows', status)
               \/ status = "draft" /\ jobs[j].kind = "pause"
      BY <1>7, <2>2
    <3>2. CASE status = "draft" /\ jobs[j].kind = "pause"
      BY <1>6, <1>7, <3>2
    <3>3. CASE \E i \in Jobs : Doomed(jobs[i], c, c \in rows)
      BY <1>5, <1>7, <2>2, <3>3
    <3>4. CASE \E i \in Jobs : i # j /\ Corrects(jobs[i], c, c \in rows, status)
      <4>1. PICK i \in Jobs : i # j /\ Corrects(jobs[i], c, c \in rows, status)
        BY <3>4
      <4>2. Corrects(jobs[i], c, c \in rows', status)
        BY <3>1, <4>1 DEF Corrects
      <4> QED BY <4>1, <4>2
    <3>5. CASE docker[c] = RightState(status) \/ Corrects(jobs[j], c, c \in rows, status)
      BY <3>1, <3>2, <3>5
    <3> QED BY <1>1, <1>7, <2>2, <3>3, <3>4, <3>5
  <2> QED BY <2>1, <2>2
<1> QED BY <1>1, <1>2, <1>3, <1>4, <1>6, <1>7
-----------------------------------------------------------------------------
\* Requests and the end of the process.
LEMMA NothingElsewhere ==
  ASSUME TypeOK, NothingLost, NEW c \in Containers, docker[c] # "none", c \notin rows, c \notin lost
  PROVE  \E j \in Jobs : /\ jobs[j].kind = "provision" /\ jobs[j].in = c
                         /\ jobs[j].at \in {"created", "started"}
<1>1. c \in Creating
  BY DEF NothingLost
<1>2. PICK j \in Jobs : jobs[j].at \in {"created", "started"} /\ jobs[j].in = c
  BY <1>1 DEF Creating
<1> QED BY <1>2, MakerShape

\* A place that was free has a goroutine at its beginning.
Begun(j, kind) ==
  /\ jobs[j].kind = "none" /\ jobs'[j].kind = kind /\ jobs'[j].at = "find"
  /\ jobs'[j].todo = {} /\ jobs'[j].in = None
  /\ \A i \in Jobs : i # j => jobs'[i] = jobs[i]

LEMMA SpawnFields ==
  ASSUME TypeOK, NEW kind \in Kinds, NEW sync \in BOOLEAN, kind = "provision" => sync = FALSE,
         Spawn(kind, sync)
  PROVE  \E j \in Jobs : Begun(j, kind)
<1>1. PICK j \in Jobs :
         /\ jobs[j] = NoJob
         /\ jobs' = [jobs EXCEPT ![j] = [kind |-> kind, at |-> "find", todo |-> {},
                                          sync |-> sync, in |-> None]]
  BY SpawnEffect
<1>2. jobs[j].kind = "none"
  BY <1>1 DEF NoJob
<1> QED BY <1>1, <1>2 DEF TypeOK, Begun

LEMMA NoOtherRuns ==
  ASSUME NEW kinds, "none" \notin kinds, ~Running(kinds)
  PROVE  \A j \in Jobs : jobs[j].kind \notin kinds
<1> SUFFICES ASSUME NEW j \in Jobs, jobs[j].kind \in kinds PROVE FALSE
  OBVIOUS
<1>1. jobs[j] # NoJob
  BY DEF NoJob
<1> QED BY <1>1 DEF Running, Active

LEMMA SpawnMatches ==
  ASSUME TypeOK, TypeOK', NothingLost, MatchInv, NEW kind \in Kinds, NEW sync \in BOOLEAN,
         kind = "provision" => sync = FALSE, Spawn(kind, sync),
         status' \in {"running", "paused"} => wanted',
         \/ kind = "provision" /\ wanted'
         \/ kind = "teardown" /\ ~wanted'
         \/ kind \notin {"provision", "teardown"} /\ (wanted' <=> wanted)
  PROVE  MatchInv'
<1>0. PICK j \in Jobs : Begun(j, kind)
  BY SpawnFields
<1>1. /\ jobs[j].kind = "none" /\ jobs'[j].kind = kind /\ jobs'[j].at = "find"
      /\ jobs'[j].todo = {} /\ jobs'[j].in = None
      /\ \A i \in Jobs : i # j => jobs'[i] = jobs[i]
  BY <1>0 DEF Begun
<1>2. /\ rows' = rows /\ docker' = docker /\ lost' = lost
      /\ excused' = Cells \/ excused' = excused
      /\ excused' # Cells => /\ kind = "provision" => ~Running({"teardown"})
                             /\ kind = "teardown" => ~Running({"provision"})
  BY DEF Spawn, store
<1>3. excused \subseteq excused' /\ excused' \subseteq Cells
  BY <1>2 DEF TypeOK
<1>4. \A c \in lost' : c[1] \in excused'
  BY <1>2, <1>3 DEF MatchInv
<1>5. ASSUME NEW cell \in Cells, cell \notin excused'
      PROVE  /\ wanted' => \A i \in Jobs : jobs'[i].kind # "teardown"
             /\ ~wanted' => \A i \in Jobs : jobs'[i].kind # "provision"
             /\ wanted' => \/ \E n \in 1..Lives : docker'[<<cell, n>>] # "none"
                           \/ \E i \in Jobs : Comes(jobs'[i], cell)
             /\ ~wanted' => \A n \in 1..Lives : docker'[<<cell, n>>] # "none" =>
                              \E i \in Jobs : Doomed(jobs'[i], <<cell, n>>, <<cell, n>> \in rows')
  <2>1. /\ wanted => \A i \in Jobs : jobs[i].kind # "teardown"
        /\ ~wanted => \A i \in Jobs : jobs[i].kind # "provision"
        /\ wanted => \/ \E n \in 1..Lives : docker[<<cell, n>>] # "none"
                     \/ \E i \in Jobs : Comes(jobs[i], cell)
        /\ ~wanted => \A n \in 1..Lives : docker[<<cell, n>>] # "none" =>
                        \E i \in Jobs : Doomed(jobs[i], <<cell, n>>, <<cell, n>> \in rows)
    BY <1>3, <1>5 DEF MatchInv
  <2>2. excused' # Cells
    BY <1>5
  <2>3. CASE kind = "provision"
    <3>1. \A i \in Jobs : jobs[i].kind # "teardown"
      BY <1>2, <2>2, <2>3, NoOtherRuns
    <3>2. Comes(jobs'[j], cell)
      BY <1>1, <2>3 DEF Comes
    <3> QED BY <1>1, <2>3, <3>1, <3>2
  <2>4. CASE kind = "teardown"
    <3>1. \A i \in Jobs : jobs[i].kind # "provision"
      BY <1>2, <2>2, <2>4, NoOtherRuns
    <3>2. ASSUME NEW n \in 1..Lives, docker[<<cell, n>>] # "none" PROVE <<cell, n>> \in rows
      <4>0. <<cell, n>> \in Containers /\ <<cell, n>>[1] = cell
        BY <1>5, <3>2 DEF Containers
      <4>1. PICK c \in Containers : c = <<cell, n>> /\ c[1] = cell
        BY <4>0
      <4>2. c \notin lost
        BY <1>2, <1>4, <1>5, <4>1
      <4> QED BY <3>1, <3>2, <4>1, <4>2, NothingElsewhere
    <3>3. \A n \in 1..Lives : docker[<<cell, n>>] # "none" =>
             Doomed(jobs'[j], <<cell, n>>, <<cell, n>> \in rows)
      BY <1>1, <2>4, <3>2 DEF Doomed
    <3> QED BY <1>1, <1>2, <2>4, <3>1, <3>3
  <2>5. CASE kind \notin {"provision", "teardown"}
    <3>1. wanted' => \A i \in Jobs : jobs'[i].kind # "teardown"
      BY <1>1, <2>1, <2>5
    <3>2. ~wanted' => \A i \in Jobs : jobs'[i].kind # "provision"
      BY <1>1, <2>1, <2>5
    <3>3. \A i \in Jobs : Comes(jobs[i], cell) => Comes(jobs'[i], cell)
      BY <1>1 DEF Comes
    <3>4. \A i \in Jobs : \A c, l : Doomed(jobs[i], c, l) => Doomed(jobs'[i], c, l)
      BY <1>1 DEF Doomed
    <3> QED BY <1>2, <2>1, <2>5, <3>1, <3>2, <3>3, <3>4
  <2> QED BY <2>3, <2>4, <2>5
<1> QED BY <1>4, <1>5 DEF MatchInv

\* What is known when a request starts a goroutine and nothing is disturbed by it.
LEMMA SpawnFits ==
  ASSUME TypeOK, TypeOK', NothingLost, StateInv, NEW kind \in Kinds, NEW sync \in BOOLEAN,
         kind = "provision" => sync = FALSE, Spawn(kind, sync),
         \/ /\ kind = "provision" /\ status \in {"draft", "running"}
            /\ status' \in {"draft", "running"}
         \/ kind = "pause" /\ status = "running" /\ status' = "paused"
         \/ kind = "unpause" /\ status = "paused" /\ status' = "running"
         \/ kind = "teardown" /\ status' = "finished"
         \/ kind = "teardown" /\ status \in {"finished", "draft"} /\ status' = "draft"
         \/ kind = "restart" /\ status' = status
  PROVE  StateInv'
<1> SUFFICES ASSUME ~disturbed'
             PROVE  /\ lost' = {}
                    /\ \A i, k \in Jobs : Changes(jobs'[i]) /\ Changes(jobs'[k]) => i = k
                    /\ \A i \in Jobs : JobFits(jobs[i], status)'
                    /\ status' = "draft" /\ (\E i \in Jobs : jobs'[i].kind = "pause") =>
                         \A c \in Containers : docker'[c] # "none" =>
                           \E i \in Jobs : Doomed(jobs'[i], c, c \in rows')
                    /\ status' # "finished" =>
                         \A c \in Containers : docker'[c] # "none" =>
                           \/ docker'[c] = RightState(status')
                           \/ \E i \in Jobs : \/ Doomed(jobs'[i], c, c \in rows')
                                              \/ Corrects(jobs'[i], c, c \in rows', status')
  BY DEF StateInv
<1>0. PICK j \in Jobs : Begun(j, kind)
  BY SpawnFields
<1>1. /\ jobs[j].kind = "none" /\ jobs'[j].kind = kind /\ jobs'[j].at = "find"
      /\ jobs'[j].todo = {} /\ jobs'[j].in = None
      /\ \A i \in Jobs : i # j => jobs'[i] = jobs[i]
  BY <1>0 DEF Begun
<1>2. /\ rows' = rows /\ docker' = docker /\ lost' = lost /\ ~disturbed
      /\ kind # "teardown" => ~Running(Kinds \ {"teardown"})
      /\ kind = "restart" => status = "running"
  BY DEF Spawn, store
<1>3. /\ lost = {}
      /\ \A i, k \in Jobs : Changes(jobs[i]) /\ Changes(jobs[k]) => i = k
      /\ \A i \in Jobs : JobFits(jobs[i], status)
      /\ status = "draft" /\ (\E i \in Jobs : jobs[i].kind = "pause") =>
           \A c \in Containers : docker[c] # "none" =>
             \E i \in Jobs : Doomed(jobs[i], c, c \in rows)
      /\ status # "finished" =>
           \A c \in Containers : docker[c] # "none" =>
             \/ docker[c] = RightState(status)
             \/ \E i \in Jobs : \/ Doomed(jobs[i], c, c \in rows)
                                \/ Corrects(jobs[i], c, c \in rows, status)
  BY <1>2 DEF StateInv
<1>4. kind # "teardown" => \A i \in Jobs : ~Changes(jobs[i])
  BY <1>2, NoOtherRuns DEF Changes, Kinds
<1>5. \A i \in Jobs : i # j /\ Changes(jobs'[i]) => kind = "teardown" /\ Changes(jobs[i])
  BY <1>1, <1>4
<1>6. Changes(jobs'[j]) => kind # "teardown"
  BY <1>1 DEF Changes
<1>7. \A i, k \in Jobs : Changes(jobs'[i]) /\ Changes(jobs'[k]) => i = k
  BY <1>1, <1>3, <1>5, <1>6
<1>8. \A i \in Jobs : JobFits(jobs[i], status)'
  <2> TAKE i \in Jobs
  <2>1. CASE i = j
    BY <1>1, <1>2, <1>6, <2>1 DEF JobFits
  <2>2. CASE i # j
    <3>1. JobFits(jobs[i], status)
      BY <1>3
    <3> QED BY <1>1, <1>2, <1>5, <2>2, <3>1 DEF JobFits
  <2> QED BY <2>1, <2>2
<1>9. \A i \in Jobs : \A c, l : Doomed(jobs[i], c, l) => Doomed(jobs'[i], c, l)
  BY <1>1 DEF Doomed
\* A container that nobody is making is on record, and the new job sees it.
<1>10. \A c \in Containers : docker[c] # "none" /\ c \notin rows =>
         \E i \in Jobs : /\ jobs[i].kind = "provision" /\ jobs[i].in = c
                         /\ jobs[i].at \in {"created", "started"}
  BY <1>3, NothingElsewhere
<1>11. CASE kind = "teardown"
  <2>1. \A c \in rows : Doomed(jobs'[j], c, c \in rows)
    BY <1>1, <1>11 DEF Doomed
  <2>2. ASSUME NEW c \in Containers, docker[c] # "none"
        PROVE  \/ docker[c] = "running"
               \/ \E i \in Jobs : \/ Doomed(jobs'[i], c, c \in rows)
                                  \/ Corrects(jobs'[i], c, c \in rows, "draft")
    <3>1. CASE c \in rows
      BY <2>1, <3>1
    <3>2. CASE c \notin rows
      <4>1. PICK i \in Jobs : /\ jobs[i].kind = "provision" /\ jobs[i].in = c
                              /\ jobs[i].at \in {"created", "started"}
        BY <1>10, <2>2, <3>2
      <4>2. CASE jobs[i].at = "created"
        <5>1. jobs'[i] = jobs[i]
          BY <1>1, <4>1
        <5> QED BY <4>1, <4>2, <5>1 DEF Corrects
      <4>3. CASE jobs[i].at = "started"
        <5>1. Changes(jobs[i]) /\ JobFits(jobs[i], status)
          BY <1>3, <4>1 DEF Changes, Kinds
        <5> QED BY <4>1, <4>3, <5>1 DEF JobFits
      <4> QED BY <4>1, <4>2, <4>3
    <3> QED BY <3>1, <3>2
  <2>3. ASSUME NEW i \in Jobs, jobs'[i].kind = "pause", NEW c \in Containers, docker[c] # "none"
        PROVE  c \in rows
    <3>1. i # j /\ jobs[i].kind = "pause"
      BY <1>1, <1>11, <2>3
    <3>2. ASSUME c \notin rows PROVE FALSE
      <4>1. PICK k \in Jobs : jobs[k].kind = "provision"
        BY <1>10, <2>3, <3>2
      <4>2. Changes(jobs[i]) /\ Changes(jobs[k])
        BY <3>1, <4>1 DEF Changes, Kinds
      <4> QED BY <1>3, <3>1, <4>1, <4>2
    <3> QED BY <3>2
  <2>4. status' \in {"draft", "finished"} /\ RightState("draft") = "running"
    BY <1>11 DEF RightState
  <2> QED BY <1>2, <1>3, <1>7, <1>8, <2>1, <2>2, <2>3, <2>4
<1>12. CASE kind \in {"pause", "unpause"}
  <2>1. \A c \in Containers : docker[c] # "none" => c \in rows
    BY <1>4, <1>10, <1>12 DEF Changes, Kinds
  <2>2. \A c \in rows : Corrects(jobs'[j], c, c \in rows, status')
    BY <1>1, <1>12 DEF Corrects, Turning
  <2>3. status' # "draft"
    BY <1>12
  <2> QED BY <1>2, <1>3, <1>7, <1>8, <2>1, <2>2, <2>3
<1>13. CASE kind \in {"provision", "restart"}
  <2>1. ASSUME NEW i \in Jobs, NEW c, NEW l PROVE ~Corrects(jobs[i], c, l, status)
    <3>1. jobs[i].kind \notin {"provision", "restart", "pause", "unpause"}
      BY <1>4, <1>13 DEF Changes, Kinds
    <3> QED BY <3>1 DEF Corrects, Turning
  <2>2. status # "finished" /\ RightState(status') = RightState(status)
    BY <1>2, <1>13 DEF RightState
  <2>3. \A i \in Jobs : jobs'[i].kind # "pause"
    BY <1>1, <1>4, <1>13 DEF Changes, Kinds
  <2> QED BY <1>2, <1>3, <1>7, <1>8, <1>9, <2>1, <2>2, <2>3
<1> QED BY <1>11, <1>12, <1>13 DEF Kinds

LEMMA RequestsKeep ==
  ASSUME TypeOK, TypeOK', NothingLost, MatchInv, StateInv, Requests \/ Recover
  PROVE  MatchInv' /\ StateInv'
<1>0. status \in {"running", "paused"} => wanted
  BY DEF MatchInv
<1>1. CASE StartGame
  <2>1. Spawn("provision", FALSE) /\ "provision" \in Kinds /\ FALSE \in BOOLEAN
    BY <1>1 DEF StartGame, Kinds
  <2> QED BY <1>1, <2>1, SpawnMatches, SpawnFits DEF StartGame
<1>2. CASE PauseGame
  <2>1. Spawn("pause", FALSE) /\ "pause" \in Kinds /\ FALSE \in BOOLEAN
    BY <1>2 DEF PauseGame, Kinds
  <2> QED BY <1>0, <1>2, <2>1, SpawnMatches, SpawnFits DEF PauseGame
<1>3. CASE ResumeGame
  <2>1. Spawn("unpause", FALSE) /\ "unpause" \in Kinds /\ FALSE \in BOOLEAN
    BY <1>3 DEF ResumeGame, Kinds
  <2> QED BY <1>0, <1>3, <2>1, SpawnMatches, SpawnFits DEF ResumeGame
<1>4. CASE StopGame
  <2>1. PICK engine \in BOOLEAN : Spawn("teardown", engine)
    BY <1>4 DEF StopGame
  <2>2. "teardown" \in Kinds
    BY DEF Kinds
  <2> QED BY <1>4, <2>1, <2>2, SpawnMatches, SpawnFits DEF StopGame
<1>5. CASE ResetGame
  <2>1. Spawn("teardown", FALSE) /\ "teardown" \in Kinds /\ FALSE \in BOOLEAN
    BY <1>5 DEF ResetGame, Kinds
  <2> QED BY <1>5, <2>1, SpawnMatches, SpawnFits DEF ResetGame
<1>6. CASE FinishGame
  <2>1. status' = "finished" /\ UNCHANGED <<docker, rows, jobs, wanted, lost, excused, disturbed>>
    BY <1>6 DEF FinishGame, store, history
  <2>2. MatchInv'
    BY <2>1 DEF MatchInv
  <2>3. \A j \in Jobs : JobFits(jobs[j], status) => JobFits(jobs[j], status)'
    BY <2>1 DEF JobFits
  <2>4. StateInv'
    BY <2>1, <2>3 DEF StateInv
  <2> QED BY <2>2, <2>4
<1>7. CASE Restart
  <2>1. Spawn("restart", FALSE) /\ "restart" \in Kinds /\ FALSE \in BOOLEAN
    BY <1>7 DEF Restart, Kinds
  <2> QED BY <1>0, <1>7, <2>1, SpawnMatches, SpawnFits DEF Restart
<1>8. CASE Recover
  <2>1. Spawn("provision", FALSE) /\ "provision" \in Kinds /\ FALSE \in BOOLEAN
    BY <1>8 DEF Recover, Kinds
  <2> QED BY <1>0, <1>8, <2>1, SpawnMatches, SpawnFits DEF Recover
<1> QED BY <1>1, <1>2, <1>3, <1>4, <1>5, <1>6, <1>7, <1>8 DEF Requests

LEMMA CrashKeeps ==
  ASSUME TypeOK, TypeOK', MatchInv, StateInv, Crash
  PROVE  MatchInv' /\ StateInv'
<1>1. UNCHANGED <<status, docker, rows, wanted>> /\ lost' = lost \cup Creating
  BY DEF Crash
<1>2. CASE Quiet
  <2>1. \A j \in Jobs : jobs[j] = NoJob
    BY <1>2 DEF Quiet, Active
  <2>2. jobs' = jobs
    BY <2>1 DEF Crash, TypeOK
  <2>3. Creating = {}
    BY <2>1 DEF Creating, NoJob
  <2>4. UNCHANGED <<excused, disturbed, lost>>
    BY <1>1, <1>2, <2>3 DEF Crash
  <2>5. \A j \in Jobs : JobFits(jobs[j], status) => JobFits(jobs[j], status)'
    BY <1>1, <2>2 DEF JobFits
  <2> QED BY <1>1, <2>2, <2>4, <2>5 DEF MatchInv, StateInv
<1>3. CASE ~Quiet
  <2>1. excused' = Cells /\ disturbed'
    BY <1>3 DEF Crash
  <2>2. \A c \in lost' : c[1] \in Cells
    BY DEF TypeOK, Containers
  <2> QED BY <1>1, <2>1, <2>2 DEF MatchInv, StateInv
<1> QED BY <1>2, <1>3
-----------------------------------------------------------------------------
\* The steps of a goroutine.  A failed call excuses its container and disturbs.
LEMMA FailureKeeps ==
  ASSUME TypeOK, TypeOK', MatchInv, NEW j \in Jobs, NEW d \in Containers,
         \A i \in Jobs : i # j => jobs'[i] = jobs[i],
         jobs'[j].kind = jobs[j].kind, UNCHANGED <<status, wanted>>,
         excused' = excused \cup {d[1]}, disturbed', lost' \subseteq lost \cup {d},
         \A c \in Containers : c # d => docker'[c] = docker[c] /\ (c \in rows => c \in rows'),
         \A c \in Containers : c # d =>
           (Doomed(jobs[j], c, c \in rows) => Doomed(jobs'[j], c, c \in rows')),
         \A cell \in Cells : cell # d[1] => (Comes(jobs[j], cell) => Comes(jobs'[j], cell))
  PROVE  MatchInv' /\ StateInv'
<1>1. \A c \in Containers : c[1] \notin excused' => c # d
  OBVIOUS
<1>2. \A cell \in Cells \ excused' : cell # d[1]
  OBVIOUS
<1>3. \A c \in Containers : c \in lost' => c \in lost \/ c[1] \in excused'
  OBVIOUS
<1>4. excused \subseteq excused' /\ jobs'[j].kind \in {jobs[j].kind, "none"}
  OBVIOUS
<1>5. \A c \in Containers : c[1] \notin excused' =>
        /\ docker[c] # "none" => docker'[c] # "none" \/ jobs[j].kind = "teardown"
        /\ docker'[c] # "none" => docker[c] # "none" \/ jobs[j].kind = "provision"
        /\ docker'[c] # "none" /\ c \in rows => c \in rows'
        /\ docker'[c] # "none" /\ Doomed(jobs[j], c, c \in rows)
             => Doomed(jobs'[j], c, c \in rows')
  BY <1>1
<1>6. \A cell \in Cells \ excused' : Comes(jobs[j], cell) =>
        \/ Comes(jobs'[j], cell)
        \/ \E n \in 1..Lives : docker'[<<cell, n>>] # "none"
  BY <1>2
<1>7. MatchInv'
  BY <1>3, <1>4, <1>5, <1>6, MatchKeeps
<1>8. StateInv'
  BY DEF StateInv
<1> QED BY <1>7, <1>8

LEMMA FindKeeps ==
  ASSUME TypeOK, TypeOK', MatchInv, StateInv, NEW j \in Jobs, Find(j)
  PROVE  MatchInv' /\ StateInv'
<1>1. jobs[j] \in ProvisionJobs \cup ListJobs /\ jobs[j].at = "find"
  BY JobShape DEF Find, TypeOK
<1>2. jobs[j].in = None
  BY <1>1 DEF ProvisionJobs, ListJobs
<1>3. PICK list \in Lists(jobs[j].kind) :
        jobs' = [jobs EXCEPT ![j] = [@ EXCEPT !.at = "next", !.todo = list]]
  BY DEF Find
<1>4. /\ jobs'[j].at = "next" /\ jobs'[j].kind = jobs[j].kind
      /\ jobs'[j].todo = list /\ jobs'[j].in = None
      /\ \A i \in Jobs : i # j => jobs'[i] = jobs[i]
  BY <1>2, <1>3, JobFields DEF TypeOK
<1>5. /\ jobs[j].kind = "provision" => list = Cells
      /\ jobs[j].kind \in {"teardown", "pause", "unpause"} => list = rows
  BY <1>3 DEF Lists
<1>6. UNCHANGED <<status, docker, rows, wanted, lost, excused, disturbed>>
  BY DEF Find, store, history
<1>7. \A c \in Containers : Doomed(jobs[j], c, c \in rows) => Doomed(jobs'[j], c, c \in rows)
  BY <1>1, <1>2, <1>4, <1>5, NoneIsNoContainer DEF Doomed
<1>8. \A cell \in Cells : Comes(jobs[j], cell) => Comes(jobs'[j], cell)
  BY <1>4, <1>5 DEF Comes
<1>9. \A c \in Containers : Corrects(jobs[j], c, c \in rows, status)
                              => Corrects(jobs'[j], c, c \in rows, status)
  BY <1>1, <1>2, <1>4, <1>5, NoneIsNoContainer DEF Corrects, Turning
<1>10. MatchInv'
  BY <1>4, <1>6, <1>7, <1>8, MatchKeeps
<1>11. StateInv'
  BY <1>4, <1>6, <1>7, <1>9, StateKeeps
<1> QED BY <1>10, <1>11

LEMMA EndKeeps ==
  ASSUME TypeOK, TypeOK', MatchInv, StateInv, NEW j \in Jobs, End(j)
  PROVE  MatchInv' /\ StateInv'
<1>1. jobs[j] \in ProvisionJobs \cup ListJobs /\ jobs[j].at = "next" /\ jobs[j].todo = {}
  BY JobShape DEF End, TypeOK
<1>2. jobs[j].in = None
  BY <1>1 DEF ProvisionJobs, ListJobs
<1>3. /\ jobs'[j].kind \in {jobs[j].kind, "none"} /\ jobs'[j].at \in {"find", "none"}
      /\ \A i \in Jobs : i # j => jobs'[i] = jobs[i]
  <2>1. jobs' = [jobs EXCEPT ![j] = IF jobs[j].sync
                   THEN [jobs[j] EXCEPT !.sync = FALSE, !.at = "find"] ELSE NoJob]
    BY DEF End, Over
  <2> QED BY <2>1, JobFields DEF TypeOK, NoJob
<1>4. UNCHANGED <<status, docker, rows, wanted, lost, excused, disturbed>>
  BY DEF End, store, history
<1>5. \A c \in Containers : ~Doomed(jobs[j], c, c \in rows)
  BY <1>1, <1>2, NoneIsNoContainer DEF Doomed
<1>6. \A cell \in Cells : ~Comes(jobs[j], cell)
  BY <1>1 DEF Comes
<1>7. \A c \in Containers : ~Corrects(jobs[j], c, c \in rows, status)
  BY <1>1, <1>2, NoneIsNoContainer DEF Corrects
<1>8. MatchInv'
  BY <1>3, <1>4, <1>5, <1>6, MatchKeeps
<1>9. StateInv'
  BY <1>3, <1>4, <1>5, <1>7, StateKeeps
<1> QED BY <1>8, <1>9

LEMMA FindFailsKeeps ==
  ASSUME TypeOK, TypeOK', MatchInv, NEW j \in Jobs, FindFails(j)
  PROVE  MatchInv' /\ StateInv'
<1>1. excused' = Cells /\ disturbed' /\ UNCHANGED <<status, wanted, lost>>
  BY DEF FindFails
<1>2. \A c \in lost' : c[1] \in Cells
  BY DEF TypeOK, Containers
<1> QED BY <1>1, <1>2 DEF MatchInv, StateInv

LEMMA CreateKeeps ==
  ASSUME TypeOK, TypeOK', MatchInv, StateInv, NEW j \in Jobs, Create(j)
  PROVE  MatchInv' /\ StateInv'
<1>1. /\ jobs[j].kind = "provision" /\ jobs[j].at = "next"
      /\ UNCHANGED <<status, rows, wanted, lost>>
  BY DEF Create, At
<1>2. jobs[j].todo \subseteq Cells
  <2>1. jobs[j] \in ProvisionJobs
    BY <1>1, JobShape DEF TypeOK
  <2> QED BY <2>1 DEF ProvisionJobs
<1>3. PICK cell \in Cells :
        \/ NameTaken(cell) /\ Take(j, cell, None, "next") /\ Fine /\ UNCHANGED docker
        \/ Take(j, cell, None, "next") /\ Excuse(<<cell, 1>>) /\ UNCHANGED docker
        \/ \E n \in 1..Lives :
             /\ ~NameTaken(cell) /\ <<cell, n>> \notin Known
             /\ Take(j, cell, <<cell, n>>, "created")
             /\ Put(<<cell, n>>, "created") /\ Fine
  BY <1>2 DEF Create
<1>4. \A c \in Containers : /\ ~Doomed(jobs[j], c, c \in rows)
                            /\ ~Corrects(jobs[j], c, c \in rows, status)
  BY <1>1 DEF Doomed, Corrects, Turning
<1>5. CASE NameTaken(cell) /\ Take(j, cell, None, "next") /\ Fine /\ UNCHANGED docker
  <2>1. /\ jobs'[j].at = "next" /\ jobs'[j].kind = jobs[j].kind
        /\ jobs'[j].todo = jobs[j].todo \ {cell}
        /\ \A i \in Jobs : i # j => jobs'[i] = jobs[i]
    BY <1>5, TakeFields DEF TypeOK
  <2>2. UNCHANGED <<excused, disturbed, docker>>
    BY <1>5 DEF Fine
  <2>3. \A x \in Cells : Comes(jobs[j], x) =>
          \/ Comes(jobs'[j], x)
          \/ \E n \in 1..Lives : docker'[<<x, n>>] # "none"
    BY <1>1, <1>5, <2>1, <2>2 DEF Comes, NameTaken
  <2>4. MatchInv'
    BY <1>1, <1>4, <2>1, <2>2, <2>3, MatchKeeps
  <2>5. StateInv'
    BY <1>1, <1>4, <2>1, <2>2, StateKeeps
  <2> QED BY <2>4, <2>5
<1>6. CASE Take(j, cell, None, "next") /\ Excuse(<<cell, 1>>) /\ UNCHANGED docker
  <2>1. /\ jobs'[j].at = "next" /\ jobs'[j].kind = jobs[j].kind
        /\ jobs'[j].todo = jobs[j].todo \ {cell}
        /\ \A i \in Jobs : i # j => jobs'[i] = jobs[i]
    BY <1>6, TakeFields DEF TypeOK
  <2>2. <<cell, 1>> \in Containers /\ <<cell, 1>>[1] = cell
    BY JobsAssumption DEF Containers
  <2>3. \A x \in Cells : x # cell => (Comes(jobs[j], x) => Comes(jobs'[j], x))
    BY <1>1, <2>1 DEF Comes
  <2>4. excused' = excused \cup {<<cell, 1>>[1]} /\ disturbed'
    BY <1>6 DEF Excuse
  <2> QED BY <1>1, <1>4, <1>6, <2>1, <2>2, <2>3, <2>4, FailureKeeps
<1>7. CASE \E n \in 1..Lives :
             /\ ~NameTaken(cell) /\ <<cell, n>> \notin Known
             /\ Take(j, cell, <<cell, n>>, "created")
             /\ Put(<<cell, n>>, "created") /\ Fine
  <2>0. PICK n \in 1..Lives :
             /\ ~NameTaken(cell) /\ <<cell, n>> \notin Known
             /\ Take(j, cell, <<cell, n>>, "created")
             /\ Put(<<cell, n>>, "created") /\ Fine
    BY <1>7
  <2>1. <<cell, n>> \in Containers
    BY DEF Containers
  <2>2. PICK c \in Containers : c = <<cell, n>>
    BY <2>1
  <2>3. /\ jobs'[j].at = "created" /\ jobs'[j].kind = jobs[j].kind
        /\ jobs'[j].todo = jobs[j].todo \ {cell} /\ jobs'[j].in = c
        /\ \A i \in Jobs : i # j => jobs'[i] = jobs[i]
    BY <2>0, <2>2, TakeFields DEF TypeOK
  <2>4. /\ docker[c] = "none" /\ docker'[c] = "created"
        /\ \A d \in Containers : d # c => docker'[d] = docker[d]
    BY <2>0, <2>2 DEF NameTaken, Put, TypeOK
  <2>5. UNCHANGED <<excused, disturbed>>
    BY <2>0 DEF Fine
  <2>6. \A x \in Cells : Comes(jobs[j], x) =>
          \/ Comes(jobs'[j], x)
          \/ \E m \in 1..Lives : docker'[<<x, m>>] # "none"
    <3> TAKE x \in Cells
    <3>1. CASE x = cell
      BY <2>2, <2>4, <3>1
    <3>2. CASE x # cell
      BY <1>1, <2>3, <3>2 DEF Comes
    <3> QED BY <3>1, <3>2
  <2>7. MatchInv'
    BY <1>1, <1>4, <2>3, <2>4, <2>5, <2>6, MatchKeeps
  <2>8. Corrects(jobs'[j], c, c \in rows', status)
    BY <1>1, <2>3 DEF Corrects
  <2>9. \A i \in Jobs : i # j /\ jobs[i].at \in {"created", "started"}
          => docker'[jobs[i].in] = docker[jobs[i].in]
    <3> TAKE i \in Jobs
    <3> HAVE i # j /\ jobs[i].at \in {"created", "started"}
    <3>1. jobs[i].in \in Containers
      BY MakerShape
    <3>2. jobs[i].in \in Known
      BY DEF Known, Active, NoJob
    <3> QED BY <2>0, <2>2, <2>4, <3>1, <3>2
  <2>10. \A d \in Containers : docker'[d] # "none" =>
           \/ d = c
           \/ docker[d] # "none" /\ docker'[d] = docker[d]
    BY <2>4
  <2>11. StateInv'
    BY <1>1, <1>4, <2>3, <2>4, <2>5, <2>8, <2>9, <2>10, StateKeeps
  <2> QED BY <2>7, <2>11
<1> QED BY <1>3, <1>5, <1>6, <1>7

LEMMA MakingKeeps ==
  ASSUME TypeOK, TypeOK', Apart, MatchInv, StateInv, NEW j \in Jobs, Launch(j) \/ Save(j)
  PROVE  MatchInv' /\ StateInv'
<1>1. jobs[j].kind = "provision" /\ jobs[j].at \in {"created", "started"}
  BY DEF Launch, Save, At
<1>2. jobs[j].in \in Containers
  BY <1>1, MakerShape
<1>3. PICK c \in Containers : c = jobs[j].in
  BY <1>2
<1>4. \A d \in Containers : ~Doomed(jobs[j], d, d \in rows)
  BY <1>1 DEF Doomed
<1>5. \A i \in Jobs : i # j => jobs[i].in # c
  BY <1>1, <1>3 DEF Apart
<1>6. ASSUME jobs'[j].kind = jobs[j].kind, jobs'[j].todo = jobs[j].todo
      PROVE  \A cell \in Cells : Comes(jobs[j], cell) => Comes(jobs'[j], cell)
  BY <1>1, <1>6 DEF Comes
<1>7. ASSUME GiveUp(j, c), UNCHANGED <<status, wanted>> PROVE MatchInv' /\ StateInv'
  <2>1. /\ jobs'[j].kind = jobs[j].kind /\ jobs'[j].todo = jobs[j].todo
        /\ \A i \in Jobs : i # j => jobs'[i] = jobs[i]
    BY <1>7, LeaveFields DEF GiveUp, TypeOK
  <2>2. /\ excused' = excused \cup {c[1]} /\ disturbed' /\ lost' \subseteq lost \cup {c}
        /\ rows' = rows
    BY <1>7 DEF GiveUp, Excuse
  <2>3. \A d \in Containers : d # c => docker'[d] = docker[d]
    BY <1>7 DEF GiveUp, Put, TypeOK
  <2> QED BY <1>4, <1>6, <1>7, <2>1, <2>2, <2>3, FailureKeeps
<1>8. CASE Launch(j)
  <2>1. \/ /\ Put(c, "running") /\ Move(j, "started") /\ Fine /\ UNCHANGED <<rows, lost>>
        \/ GiveUp(j, c)
    BY <1>3, <1>8 DEF Launch
  <2>2. jobs[j].at = "created" /\ UNCHANGED <<status, wanted>>
    BY <1>8 DEF Launch, At
  <2>3. CASE Put(c, "running") /\ Move(j, "started") /\ Fine /\ UNCHANGED <<rows, lost>>
    <3>1. /\ jobs'[j].at = "started" /\ jobs'[j].kind = jobs[j].kind
          /\ jobs'[j].todo = jobs[j].todo /\ jobs'[j].in = c
          /\ \A i \in Jobs : i # j => jobs'[i] = jobs[i]
      BY <1>3, <2>3, MoveFields DEF TypeOK
    <3>2. docker'[c] = "running" /\ \A d \in Containers : d # c => docker'[d] = docker[d]
      BY <2>3 DEF Put, TypeOK
    <3>3. UNCHANGED <<excused, disturbed, rows, lost>>
      BY <2>3 DEF Fine
    <3>4. MatchInv'
      BY <1>1, <1>4, <1>6, <2>2, <3>1, <3>2, <3>3, MatchKeeps
    <3>5. ~disturbed => /\ status # "paused" /\ docker[c] # "none"
                        /\ RightState(status) = "running"
      <4> HAVE ~disturbed
      <4>1. JobFits(jobs[j], status)
        BY DEF StateInv
      <4> QED BY <1>1, <1>3, <2>2, <4>1 DEF JobFits, Changes, Kinds, RightState
    <3>6. \A d \in Containers : d # c => ~Corrects(jobs[j], d, d \in rows, status)
      BY <1>1, <1>3 DEF Corrects, Turning
    <3>7. \A i \in Jobs : i # j /\ jobs[i].at \in {"created", "started"}
            => docker'[jobs[i].in] = docker[jobs[i].in]
      BY <1>5, <3>2, MakerShape
    <3>8. StateInv'
      BY <1>4, <2>2, <3>1, <3>2, <3>3, <3>5, <3>6, <3>7, StateKeeps
    <3> QED BY <3>4, <3>8
  <2> QED BY <1>7, <2>1, <2>2, <2>3
<1>9. CASE Save(j)
  <2>1. \/ rows' = rows \cup {c} /\ Leave(j) /\ Fine /\ UNCHANGED <<docker, lost>>
        \/ GiveUp(j, c)
    BY <1>3, <1>9 DEF Save
  <2>2. jobs[j].at = "started" /\ UNCHANGED <<status, wanted>>
    BY <1>9 DEF Save, At
  <2>3. CASE rows' = rows \cup {c} /\ Leave(j) /\ Fine /\ UNCHANGED <<docker, lost>>
    <3>1. /\ jobs'[j].at = "next" /\ jobs'[j].kind = jobs[j].kind
          /\ jobs'[j].todo = jobs[j].todo
          /\ \A i \in Jobs : i # j => jobs'[i] = jobs[i]
      BY <2>3, LeaveFields DEF TypeOK
    <3>2. UNCHANGED <<excused, disturbed, docker, lost>> /\ rows' = rows \cup {c}
      BY <2>3 DEF Fine
    <3>3. MatchInv'
      BY <1>1, <1>4, <1>6, <2>2, <3>1, <3>2, MatchKeeps
    <3>4. \A d \in Containers : ~Corrects(jobs[j], d, d \in rows, status)
      BY <1>1, <2>2 DEF Corrects, Turning
    <3>5. StateInv'
      BY <1>4, <2>2, <3>1, <3>2, <3>4, StateKeeps
    <3> QED BY <3>3, <3>5
  <2> QED BY <1>7, <2>1, <2>2, <2>3
<1> QED BY <1>8, <1>9

LEMMA LockKeeps ==
  ASSUME TypeOK, TypeOK', MatchInv, StateInv, NEW j \in Jobs, Lock(j)
  PROVE  MatchInv' /\ StateInv'
<1>1. /\ jobs[j].kind \in {"teardown", "restart"} /\ jobs[j].at = "next"
      /\ UNCHANGED <<status, docker, rows, wanted, lost, excused, disturbed>>
  BY DEF Lock, At, history
<1>2. jobs[j].in = None
  <2>1. jobs[j] \in ListJobs
    BY <1>1, JobShape DEF TypeOK
  <2> QED BY <2>1 DEF ListJobs
<1>3. PICK c \in jobs[j].todo : Take(j, c, c, "stopping")
  BY DEF Lock
<1>4. /\ jobs'[j].at = "stopping" /\ jobs'[j].kind = jobs[j].kind
      /\ jobs'[j].todo = jobs[j].todo \ {c} /\ jobs'[j].in = c
      /\ \A i \in Jobs : i # j => jobs'[i] = jobs[i]
  BY <1>3, TakeFields DEF TypeOK
<1>5. \A d \in Containers : Doomed(jobs[j], d, d \in rows) => Doomed(jobs'[j], d, d \in rows)
  BY <1>1, <1>2, <1>4, NoneIsNoContainer DEF Doomed
<1>6. \A d \in Containers : ~Corrects(jobs[j], d, d \in rows, status)
  BY <1>1, <1>2, NoneIsNoContainer DEF Corrects, Turning
<1>7. \A cell \in Cells : ~Comes(jobs[j], cell)
  BY <1>1 DEF Comes
<1>8. MatchInv'
  BY <1>1, <1>4, <1>5, <1>7, MatchKeeps
<1>9. StateInv'
  BY <1>1, <1>4, <1>5, <1>6, StateKeeps
<1> QED BY <1>8, <1>9

\* A goroutine with the mutex has one container in its hands, which nobody makes.
LEMMA InHand ==
  ASSUME TypeOK, Apart, NEW j \in Jobs, jobs[j].at \in Held
  PROVE  /\ jobs[j].in \in Containers /\ jobs[j].kind \in {"teardown", "restart"}
         /\ \A cell \in Cells : ~Comes(jobs[j], cell)
         /\ \A i \in Jobs : i # j /\ jobs[i].at \in {"created", "started"} =>
              jobs[i].in \in Containers /\ jobs[i].in # jobs[j].in
<1>1. jobs[j] \in HoldingJobs
  BY JobShape DEF TypeOK
<1>2. jobs[j].in \in Containers /\ jobs[j].kind \in {"teardown", "restart"}
  BY <1>1 DEF HoldingJobs
<1>3. \A cell \in Cells : ~Comes(jobs[j], cell)
  BY <1>2 DEF Comes
<1>4. \A i \in Jobs : i # j /\ jobs[i].at \in {"created", "started"} =>
        jobs[i].in \in Containers /\ jobs[i].in # jobs[j].in
  BY MakerShape DEF Apart
<1> QED BY <1>2, <1>3, <1>4

LEMMA HaltKeeps ==
  ASSUME TypeOK, TypeOK', Apart, MatchInv, StateInv, NEW j \in Jobs, Halt(j)
  PROVE  MatchInv' /\ StateInv'
<1>1. /\ jobs[j].at = "stopping" /\ jobs[j].at \in Held
      /\ UNCHANGED <<status, rows, wanted, lost, excused, disturbed>>
  BY DEF Halt, history, Held
<1>2. /\ jobs[j].in \in Containers /\ jobs[j].kind \in {"teardown", "restart"}
      /\ \A cell \in Cells : ~Comes(jobs[j], cell)
      /\ \A i \in Jobs : i # j /\ jobs[i].at \in {"created", "started"} =>
           jobs[i].in \in Containers /\ jobs[i].in # jobs[j].in
  BY <1>1, InHand
<1>3. PICK c \in Containers : c = jobs[j].in
  BY <1>2
<1>4. /\ \A d \in Containers : d # c => docker'[d] = docker[d]
      /\ docker'[c] # "none" <=> docker[c] # "none"
  BY <1>3 DEF Halt, Put, TypeOK
<1>5. PICK p : Move(j, p) /\ p = IF jobs[j].kind = "teardown" THEN "removing" ELSE "starting"
  BY DEF Halt
<1>6. /\ jobs'[j].kind = jobs[j].kind /\ jobs'[j].at = p
      /\ jobs'[j].todo = jobs[j].todo /\ jobs'[j].in = c
      /\ \A i \in Jobs : i # j => jobs'[i] = jobs[i]
  BY <1>3, <1>5, MoveFields DEF TypeOK
<1>7. \A d \in Containers : Doomed(jobs[j], d, d \in rows) => Doomed(jobs'[j], d, d \in rows)
  BY <1>1, <1>3, <1>5, <1>6 DEF Doomed
<1>8. Doomed(jobs'[j], c, c \in rows) \/ Corrects(jobs'[j], c, c \in rows, status)
  BY <1>2, <1>5, <1>6 DEF Doomed, Corrects
<1>9. \A d \in Containers : d # c => ~Corrects(jobs[j], d, d \in rows, status)
  BY <1>2, <1>3 DEF Corrects, Turning
<1>10. MatchInv'
  <2>1. \A d \in Containers : docker'[d] # "none" <=> docker[d] # "none"
    BY <1>4
  <2> QED BY <1>1, <1>2, <1>6, <1>7, <2>1, MatchKeeps
<1>11. StateInv'
  <2>1. jobs'[j].at \notin {"created", "started"}
    BY <1>5, <1>6
  <2>2. \A i \in Jobs : i # j /\ jobs[i].at \in {"created", "started"}
          => docker'[jobs[i].in] = docker[jobs[i].in]
    BY <1>2, <1>3, <1>4
  <2>3. \A d \in Containers : docker'[d] # "none" =>
          /\ docker[d] # "none"
          /\ docker[d] = RightState(status) \/ Corrects(jobs[j], d, d \in rows, status) =>
               \/ docker'[d] = RightState(status)
               \/ Doomed(jobs'[j], d, d \in rows)
               \/ Corrects(jobs'[j], d, d \in rows, status)
    BY <1>4, <1>8, <1>9
  <2> QED BY <1>1, <1>6, <1>7, <2>1, <2>2, <2>3, StateKeeps
<1> QED BY <1>10, <1>11

\* What a goroutine no longer has to do with a container once it is through with it.
LEMMA DoneWith ==
  ASSUME TypeOK, NEW j \in Jobs, jobs[j].at \in Held, NEW p,
         jobs'[j].kind = jobs[j].kind, jobs'[j].at = p, p \in {"next", "deleting"},
         jobs'[j].todo = jobs[j].todo, NEW c, c = jobs[j].in
  PROVE  \A d \in Containers : d # c =>
           (Doomed(jobs[j], d, d \in rows) => Doomed(jobs'[j], d, d \in rows'))
<1> TAKE d \in Containers
<1> QED BY DEF Doomed, Held

LEMMA RemoveKeeps ==
  ASSUME TypeOK, TypeOK', Apart, MatchInv, StateInv, NEW j \in Jobs, Remove(j)
  PROVE  MatchInv' /\ StateInv'
<1>1. /\ jobs[j].kind = "teardown" /\ jobs[j].at = "removing" /\ jobs[j].at \in Held
      /\ UNCHANGED <<status, rows, wanted, lost>>
  BY DEF Remove, At, Held
<1>2. /\ jobs[j].in \in Containers
      /\ \A cell \in Cells : ~Comes(jobs[j], cell)
      /\ \A i \in Jobs : i # j /\ jobs[i].at \in {"created", "started"} =>
           jobs[i].in \in Containers /\ jobs[i].in # jobs[j].in
  BY <1>1, InHand
<1>3. PICK c \in Containers : c = jobs[j].in
  BY <1>2
<1>4. \A d \in Containers : ~Corrects(jobs[j], d, d \in rows, status)
  BY <1>1 DEF Corrects, Turning
<1>5. CASE docker[c] # "none" /\ Put(c, "none") /\ Move(j, "deleting") /\ Fine
  <2>1. /\ jobs'[j].kind = jobs[j].kind /\ jobs'[j].at = "deleting"
        /\ jobs'[j].todo = jobs[j].todo
        /\ \A i \in Jobs : i # j => jobs'[i] = jobs[i]
    BY <1>5, MoveFields DEF TypeOK
  <2>2. docker'[c] = "none" /\ \A d \in Containers : d # c => docker'[d] = docker[d]
    BY <1>5 DEF Put, TypeOK
  <2>3. UNCHANGED <<excused, disturbed>>
    BY <1>5 DEF Fine
  <2>4. \A d \in Containers : d # c =>
          (Doomed(jobs[j], d, d \in rows) => Doomed(jobs'[j], d, d \in rows'))
    BY <1>1, <1>3, <2>1, DoneWith
  <2>5. \A d \in Containers : docker'[d] # "none" => d # c /\ docker'[d] = docker[d]
    BY <2>2
  <2>6. MatchInv'
    BY <1>1, <1>2, <2>1, <2>3, <2>4, <2>5, MatchKeeps
  <2>7. StateInv'
    <3>1. \A i \in Jobs : i # j /\ jobs[i].at \in {"created", "started"}
            => docker'[jobs[i].in] = docker[jobs[i].in]
      BY <1>2, <1>3, <2>2
    <3> QED BY <1>1, <1>4, <2>1, <2>3, <2>4, <2>5, <3>1, StateKeeps
  <2> QED BY <2>6, <2>7
<1>6. CASE Leave(j) /\ UNCHANGED docker /\ IF docker[c] = "none" THEN Fine ELSE Excuse(c)
  <2>1. /\ jobs'[j].kind = jobs[j].kind /\ jobs'[j].at = "next"
        /\ jobs'[j].todo = jobs[j].todo
        /\ \A i \in Jobs : i # j => jobs'[i] = jobs[i]
    BY <1>6, LeaveFields DEF TypeOK
  <2>2. \A d \in Containers : d # c =>
          (Doomed(jobs[j], d, d \in rows) => Doomed(jobs'[j], d, d \in rows'))
    BY <1>1, <1>3, <2>1, DoneWith
  <2>3. CASE docker[c] = "none"
    <3>1. UNCHANGED <<excused, disturbed, docker>>
      BY <1>6, <2>3 DEF Fine
    <3>2. \A d \in Containers : docker'[d] # "none" => d # c /\ docker'[d] = docker[d]
      BY <2>3, <3>1
    <3>3. MatchInv'
      BY <1>1, <1>2, <2>1, <2>2, <3>1, <3>2, MatchKeeps
    <3>4. StateInv'
      BY <1>1, <1>4, <2>1, <2>2, <3>1, <3>2, StateKeeps
    <3> QED BY <3>3, <3>4
  <2>4. CASE docker[c] # "none"
    <3>1. excused' = excused \cup {c[1]} /\ disturbed' /\ UNCHANGED docker
      BY <1>6, <2>4 DEF Excuse
    <3> QED BY <1>1, <1>2, <2>1, <2>2, <3>1, FailureKeeps
  <2> QED BY <2>3, <2>4
<1> QED BY <1>3, <1>5, <1>6 DEF Remove

LEMMA DeleteRowKeeps ==
  ASSUME TypeOK, TypeOK', Apart, MatchInv, StateInv, NEW j \in Jobs, DeleteRow(j)
  PROVE  MatchInv' /\ StateInv'
<1>1. /\ jobs[j].kind = "teardown" /\ jobs[j].at = "deleting" /\ jobs[j].at \in Held
      /\ UNCHANGED <<status, docker, wanted, lost>> /\ Leave(j)
  BY DEF DeleteRow, At, Held
<1>2. /\ jobs[j].in \in Containers
      /\ \A cell \in Cells : ~Comes(jobs[j], cell)
  BY <1>1, InHand
<1>3. PICK c \in Containers : c = jobs[j].in
  BY <1>2
<1>4. docker[c] = "none"
  BY <1>1, <1>3 DEF Apart
<1>5. /\ jobs'[j].kind = jobs[j].kind /\ jobs'[j].at = "next"
      /\ jobs'[j].todo = jobs[j].todo
      /\ \A i \in Jobs : i # j => jobs'[i] = jobs[i]
  BY <1>1, LeaveFields DEF TypeOK
<1>6. \A d \in Containers : d # c =>
        (Doomed(jobs[j], d, d \in rows) => Doomed(jobs'[j], d, d \in rows'))
  BY <1>1, <1>3, <1>5, DoneWith
<1>7. CASE rows' = rows \ {c} /\ Fine
  <2>1. UNCHANGED <<excused, disturbed>> /\ rows' = rows \ {c}
    BY <1>7 DEF Fine
  <2>2. \A d \in Containers : docker'[d] # "none" =>
          d # c /\ docker'[d] = docker[d] /\ (d \in rows => d \in rows')
    BY <1>1, <1>4, <2>1
  <2>3. \A d \in Containers : ~Corrects(jobs[j], d, d \in rows, status)
    BY <1>1 DEF Corrects, Turning
  <2>4. MatchInv'
    BY <1>1, <1>2, <1>5, <1>6, <2>1, <2>2, MatchKeeps
  <2>5. StateInv'
    BY <1>1, <1>5, <1>6, <2>1, <2>2, <2>3, StateKeeps
  <2> QED BY <2>4, <2>5
<1>8. CASE Excuse(c) /\ UNCHANGED rows
  <2>1. excused' = excused \cup {c[1]} /\ disturbed'
    BY <1>8 DEF Excuse
  <2> QED BY <1>1, <1>2, <1>5, <1>6, <1>8, <2>1, FailureKeeps
<1> QED BY <1>3, <1>7, <1>8 DEF DeleteRow

LEMMA RestartedKeeps ==
  ASSUME TypeOK, TypeOK', Apart, MatchInv, StateInv, NEW j \in Jobs, Restarted(j)
  PROVE  MatchInv' /\ StateInv'
<1>1. /\ jobs[j].kind = "restart" /\ jobs[j].at = "starting" /\ jobs[j].at \in Held
      /\ UNCHANGED <<status, rows, wanted, lost, excused>> /\ Leave(j)
  BY DEF Restarted, At, Held
<1>2. /\ jobs[j].in \in Containers
      /\ \A cell \in Cells : ~Comes(jobs[j], cell)
      /\ \A i \in Jobs : i # j /\ jobs[i].at \in {"created", "started"} =>
           jobs[i].in \in Containers /\ jobs[i].in # jobs[j].in
  BY <1>1, InHand
<1>3. PICK c \in Containers : c = jobs[j].in
  BY <1>2
<1>4. /\ jobs'[j].kind = jobs[j].kind /\ jobs'[j].at = "next"
      /\ jobs'[j].todo = jobs[j].todo
      /\ \A i \in Jobs : i # j => jobs'[i] = jobs[i]
  BY <1>1, LeaveFields DEF TypeOK
<1>5. \/ docker[c] # "none" /\ Put(c, "running") /\ UNCHANGED disturbed
      \/ UNCHANGED docker /\ disturbed'
  BY <1>3 DEF Restarted
<1>6. /\ \A d \in Containers : d # c => docker'[d] = docker[d]
      /\ \A d \in Containers : docker'[d] # "none" <=> docker[d] # "none"
      /\ ~disturbed' => docker'[c] = "running" /\ ~disturbed
  BY <1>5 DEF Put, TypeOK
<1>7. \A d \in Containers : ~Doomed(jobs[j], d, d \in rows)
  BY <1>1 DEF Doomed
<1>8. MatchInv'
  BY <1>1, <1>2, <1>4, <1>6, <1>7, MatchKeeps
<1>9. StateInv'
  <2>1. \A d \in Containers : d # c => ~Corrects(jobs[j], d, d \in rows, status)
    BY <1>1, <1>3 DEF Corrects, Turning
  <2>2. ~disturbed' => docker'[c] = RightState(status)
    <3> HAVE ~disturbed'
    <3>1. JobFits(jobs[j], status)
      BY <1>6 DEF StateInv
    <3>2. status # "paused"
      BY <1>1, <3>1 DEF JobFits, Changes, Kinds
    <3> QED BY <1>6, <3>2 DEF RightState
  <2>3. \A i \in Jobs : i # j /\ jobs[i].at \in {"created", "started"}
          => docker'[jobs[i].in] = docker[jobs[i].in]
    BY <1>2, <1>3, <1>6
  <2>4. ~disturbed' => \A d \in Containers : docker'[d] # "none" =>
          /\ docker[d] # "none"
          /\ docker[d] = RightState(status) \/ Corrects(jobs[j], d, d \in rows, status) =>
               docker'[d] = RightState(status)
    BY <1>6, <2>1, <2>2
  <2> QED BY <1>1, <1>4, <1>6, <1>7, <2>3, <2>4, StateKeeps
<1> QED BY <1>8, <1>9

LEMMA ToggleKeeps ==
  ASSUME TypeOK, TypeOK', Apart, MatchInv, StateInv, NEW j \in Jobs, Toggle(j)
  PROVE  MatchInv' /\ StateInv'
<1> DEFINE from == IF jobs[j].kind = "pause" THEN "running" ELSE "paused"
           to   == IF jobs[j].kind = "pause" THEN "paused" ELSE "running"
<1>1. /\ jobs[j].kind \in {"pause", "unpause"} /\ jobs[j].at = "next"
      /\ UNCHANGED <<status, rows, wanted, lost, excused>>
  BY DEF Toggle, At
<1>2. jobs[j] \in ListJobs
  BY <1>1, JobShape DEF TypeOK
<1>3. PICK c \in jobs[j].todo :
        /\ Take(j, c, None, "next")
        /\ \/ docker[c] = from /\ Put(c, to) /\ UNCHANGED disturbed
           \/ UNCHANGED docker /\ disturbed'
  BY DEF Toggle
<1>4. c \in Containers
  BY <1>2 DEF ListJobs
<1>5. /\ jobs'[j].kind = jobs[j].kind /\ jobs'[j].at = "next"
      /\ jobs'[j].todo = jobs[j].todo \ {c}
      /\ \A i \in Jobs : i # j => jobs'[i] = jobs[i]
  BY <1>3, TakeFields DEF TypeOK
<1>6. /\ from # "none" /\ to # "none" /\ from # to
      /\ jobs[j].kind = "pause" => from = "running" /\ to = "paused"
      /\ jobs[j].kind = "unpause" => from = "paused" /\ to = "running"
  OBVIOUS
<1> HIDE DEF from, to
<1>7. /\ \A d \in Containers : d # c => docker'[d] = docker[d]
      /\ \A d \in Containers : docker'[d] # "none" <=> docker[d] # "none"
      /\ ~disturbed' => docker[c] = from /\ docker'[c] = to /\ ~disturbed
  <2>1. CASE docker[c] = from /\ Put(c, to) /\ UNCHANGED disturbed
    <3>1. docker'[c] = to /\ \A d \in Containers : d # c => docker'[d] = docker[d]
      BY <1>4, <2>1 DEF Put, TypeOK
    <3> QED BY <1>6, <2>1, <3>1
  <2>2. CASE UNCHANGED docker /\ disturbed'
    BY <2>2
  <2> QED BY <1>3, <2>1, <2>2
<1>8. \A d \in Containers : ~Doomed(jobs[j], d, d \in rows)
  BY <1>1 DEF Doomed
<1>9. \A cell \in Cells : ~Comes(jobs[j], cell)
  BY <1>1 DEF Comes
<1>10. MatchInv'
  BY <1>1, <1>5, <1>7, <1>8, <1>9, MatchKeeps
<1>11. StateInv'
  <2>1. \A d \in Containers : d # c /\ Corrects(jobs[j], d, d \in rows, status)
          => Corrects(jobs'[j], d, d \in rows, status)
    BY <1>1, <1>5 DEF Corrects
  <2>2. ~disturbed' =>
          /\ status = "paused" => jobs[j].kind = "pause"
          /\ status = "running" => jobs[j].kind # "pause"
    <3> HAVE ~disturbed'
    <3>1. JobFits(jobs[j], status)
      BY <1>7 DEF StateInv
    <3> QED BY <1>1, <3>1 DEF JobFits, Changes, Kinds
  \* Who turns the container turns it into what is right, but for a pause of
  \* a game that is over.
  <2>3. ~disturbed' => \/ docker'[c] = RightState(status)
                       \/ status = "finished"
                       \/ status = "draft" /\ jobs[j].kind = "pause"
    BY <1>1, <1>6, <1>7, <2>2 DEF RightState, TypeOK
  <2>4. \A i \in Jobs : i # j /\ jobs[i].at \in {"created", "started"}
          => docker'[jobs[i].in] = docker[jobs[i].in]
    <3> TAKE i \in Jobs
    <3> HAVE i # j /\ jobs[i].at \in {"created", "started"}
    <3>1. jobs[i].in \in Containers
      BY MakerShape
    <3>2. jobs[i].in # c
      BY <1>1, <1>3 DEF Apart
    <3> QED BY <1>7, <3>1, <3>2
  <2>5. ~disturbed' => \A d \in Containers : docker'[d] # "none" =>
          /\ docker[d] # "none"
          /\ docker[d] = RightState(status) \/ Corrects(jobs[j], d, d \in rows, status) =>
               \/ docker'[d] = RightState(status)
               \/ Corrects(jobs'[j], d, d \in rows, status)
               \/ status = "finished"
               \/ status = "draft" /\ jobs[j].kind = "pause"
    <3> HAVE ~disturbed'
    <3> TAKE d \in Containers
    <3>1. CASE d = c
      BY <1>7, <2>3, <3>1
    <3>2. CASE d # c
      BY <1>7, <2>1, <3>2
    <3> QED BY <3>1, <3>2
  <2> QED BY <1>1, <1>5, <1>7, <1>8, <2>4, <2>5, StateKeeps
<1> QED BY <1>10, <1>11

LEMMA MatchStep == IInv /\ IInv' /\ MatchInv /\ StateInv /\ [Next]_vars => MatchInv' /\ StateInv'
<1> SUFFICES ASSUME TypeOK, TypeOK', Apart, NothingLost, MatchInv, StateInv, [Next]_vars
             PROVE  MatchInv' /\ StateInv'
  BY DEF IInv
<1>1. CASE Requests \/ Recover
  BY <1>1, RequestsKeep
<1>2. CASE Crash
  BY <1>2, CrashKeeps
<1>3. ASSUME NEW j \in Jobs, Job(j) PROVE MatchInv' /\ StateInv'
  BY <1>3, FindKeeps, FindFailsKeeps, EndKeeps, CreateKeeps, MakingKeeps, LockKeeps, HaltKeeps,
     RemoveKeeps, DeleteRowKeeps, RestartedKeeps, ToggleKeeps DEF Job
<1>4. CASE UNCHANGED vars
  <2>1. UNCHANGED <<status, docker, rows, jobs, wanted, lost, excused, disturbed>>
    BY <1>4 DEF vars, store, history
  <2>2. \A j \in Jobs : JobFits(jobs[j], status) => JobFits(jobs[j], status)'
    BY <2>1 DEF JobFits
  <2> QED BY <2>1, <2>2 DEF MatchInv, StateInv
<1> QED BY <1>1, <1>2, <1>3, <1>4 DEF Next

LEMMA MatchInductive == Spec => [](IInv /\ MatchInv /\ StateInv)
<1>1. Init => MatchInv /\ StateInv
  <2> SUFFICES ASSUME Init PROVE MatchInv /\ StateInv
    OBVIOUS
  <2>1. /\ status = "draft" /\ ~wanted /\ lost = {}
        /\ \A c \in Containers : docker[c] = "none"
        /\ \A j \in Jobs : jobs[j].kind = "none"
    BY DEF Init, NoJob
  <2>2. MatchInv
    BY <2>1 DEF MatchInv, Containers
  <2>3. \A j \in Jobs : ~Changes(jobs[j])
    BY <2>1 DEF Changes, Kinds
  <2> QED BY <2>1, <2>2, <2>3 DEF StateInv, JobFits
<1>2. IInv /\ IInv' /\ MatchInv /\ StateInv /\ [Next]_vars => MatchInv' /\ StateInv'
  BY MatchStep
<1> QED BY <1>1, <1>2, Inductive, PTL DEF Spec

\* When nothing is under way, each cell of a started game has a container and no
\* cell of a stopped or reset game has one, but for cells whose creation or
\* removal failed, was cut by a crash, or met a goroutine of the other kind.
THEOREM ContainersMatch == Spec => []ContainersMatchGame
<1>1. MatchInv => ContainersMatchGame
  <2> SUFFICES ASSUME MatchInv, Quiet, NEW cell \in Cells, cell \notin excused
               PROVE  NameTaken(cell) <=> wanted
    BY DEF ContainersMatchGame
  <2>1. \A j \in Jobs : jobs[j].kind = "none"
    BY DEF Quiet, Active, NoJob
  <2>2. \A j \in Jobs : ~Comes(jobs[j], cell) /\ \A c, l : ~Doomed(jobs[j], c, l)
    BY <2>1 DEF Comes, Doomed
  <2> QED BY <2>2 DEF MatchInv, NameTaken
<1> QED BY <1>1, MatchInductive, PTL

\* When nothing is under way, the containers run or are paused as the game is,
\* unless pauses, resumes and restarts overlapped or a call failed.
THEOREM StatesMatch == Spec => []RunStateMatchesGame
<1>1. StateInv => RunStateMatchesGame
  <2> SUFFICES ASSUME StateInv, Quiet, ~disturbed, NEW c \in Containers, docker[c] # "none",
                      status # "finished"
               PROVE  docker[c] = RightState(status)
    BY DEF RunStateMatchesGame, RightState
  <2>1. \A j \in Jobs : jobs[j].kind = "none"
    BY DEF Quiet, Active, NoJob
  <2>2. \A j \in Jobs : \A l : ~Doomed(jobs[j], c, l) /\ ~Corrects(jobs[j], c, l, status)
    BY <2>1 DEF Doomed, Corrects, Turning
  <2> QED BY <2>2 DEF StateInv
<1> QED BY <1>1, MatchInductive, PTL
=============================================================================
