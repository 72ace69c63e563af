------------------------------ MODULE Networks ------------------------------
(***************************************************************************)
(* The networks of teams: internal/network/manager.go, as Provision-       *)
(* Containers and TeardownContainers of internal/service/                  *)
(* container_service.go use it, and the host ports these give.             *)
(*                                                                         *)
(* A provisioning or a teardown is a goroutine nobody waits for: any of    *)
(* them run at once, of several games and of the same game.  A team has    *)
(* one network for all of its games, and that is where they meet: each     *)
(* call of the manager holds its mutex, between two calls others go on.    *)
(* The containers of a team in a game, one for each challenge, are told    *)
(* apart only by whether they are in the team's network.                   *)
(***************************************************************************)
EXTENDS Naturals, FiniteSets

CONSTANTS Games,
          GameTeams,   \* the teams of each game: ids, from 1
          Goroutines,  \* the provisionings and teardowns that run at once
          Subnets      \* number of /24 subnets under ipBase, 256

ASSUME NetworkAssumption ==
  /\ Subnets \in Nat \ {0}
  /\ GameTeams \in [Games -> SUBSET (Nat \ {0})]

VARIABLES
  networks,  \* Docker: teams whose network there is
  attached,  \* Docker: teams with containers of a game in their network
  outside,   \* Docker: teams with containers of a game made without a network
  teamNets,  \* the manager: teams whose network it knows, by name and by id
  job,       \* what a goroutine is at, for which game, and the teams it has to do
  unfounded, \* history: teams whose network could not be made, and is known
  robbed     \* history: game and team whose network a teardown took from a
             \* provisioning, after it was made and before its name was asked for

networkVars == <<networks, attached, outside, teamNets, job, unfounded, robbed>>

Team == UNION {GameTeams[g] : g \in Games}
NotRunning == [at |-> "idle"]
Job == {NotRunning} \cup
       [at : {"networks", "containers", "cleanup", "remove"},
        game : Games, teams : SUBSET Team]
       \cup [at : {"create"}, game : Games, teams : SUBSET Team, team : Team, named : BOOLEAN]

NetworksTypeOK ==
  /\ networks \subseteq Team /\ teamNets \subseteq Team
  /\ attached \in [Games -> SUBSET Team] /\ outside \in [Games -> SUBSET Team]
  /\ job \in [Goroutines -> Job]
  /\ unfounded \subseteq Team /\ robbed \subseteq Games \X Team

NetworkInit ==
  /\ networks = {} /\ teamNets = {}
  /\ attached = [g \in Games |-> {}] /\ outside = attached
  /\ job = [j \in Goroutines |-> NotRunning]
  /\ unfounded = {} /\ robbed = {}

JobAt(j, stage) == job[j].at = stage
Proceed(j, stage, g, teams) ==
  job' = [job EXCEPT ![j] = [at |-> stage, game |-> g, teams |-> teams]]
Returns(j) == job' = [job EXCEPT ![j] = NotRunning]

Subnet(t) == t % Subnets
-----------------------------------------------------------------------------
(***************************************************************************)
(* Addresses and ports: GetTeamIP, hostPortBase and portBase.              *)
(***************************************************************************)
GetTeamIP(t, index) == <<Subnet(t), index + 2>>

\* The first of the ten host ports of the container of a challenge.
PortBase(t, challenges, index) == 31000 + (challenges * (t - 1) + index) * 10
-----------------------------------------------------------------------------
(***************************************************************************)
(* IsolateTeams: the pairs of subnets between which iptables drops what is *)
(* forwarded.  Teams are told apart by their place in the list, so that    *)
(* two teams with one subnet get a rule that drops their own traffic.      *)
(***************************************************************************)
IsolateTeams(teams) ==
  IF Cardinality(teams) <= 1 THEN {}
  ELSE {<<Subnet(p[1]), Subnet(p[2])>> : p \in {q \in teams \X teams : q[1] # q[2]}}
-----------------------------------------------------------------------------
(***************************************************************************)
(* Provisioning.                                                           *)
(***************************************************************************)
Provision(j, g) ==
  /\ JobAt(j, "idle") /\ GameTeams[g] # {}
  /\ Proceed(j, "networks", g, GameTeams[g])
  /\ UNCHANGED <<networks, attached, outside, teamNets, unfounded, robbed>>

\* Docker makes a network unless one has its name or its subnet, or it fails.
Creatable(t) == t \notin networks /\ \A u \in networks : Subnet(u) # Subnet(t)

\* Mutant: a network that cannot be made is an error, and not tracked.
CreateTeamNetwork_Strict(j, t) ==
  /\ JobAt(j, "networks") /\ t \in job[j].teams
  /\ Proceed(j, "networks", job[j].game, job[j].teams \ {t})
  /\ IF t \notin teamNets /\ Creatable(t)
     THEN networks' = networks \cup {t} /\ teamNets' = teamNets \cup {t}
     ELSE UNCHANGED <<networks, teamNets>>
  /\ UNCHANGED <<attached, outside, unfounded, robbed>>

\* CreateTeamNetwork: any error counts as a network that was there already.
CreateTeamNetwork(j, t) ==
  /\ JobAt(j, "networks") /\ t \in job[j].teams
  /\ Proceed(j, "networks", job[j].game, job[j].teams \ {t})
  /\ \/ t \in teamNets /\ UNCHANGED <<networks, teamNets, unfounded>>
     \/ /\ t \notin teamNets /\ Creatable(t)
        /\ networks' = networks \cup {t} /\ teamNets' = teamNets \cup {t}
        /\ UNCHANGED unfounded
     \/ /\ t \notin teamNets
        /\ teamNets' = teamNets \cup {t}
        /\ unfounded' = IF t \in networks THEN unfounded ELSE unfounded \cup {t}
        /\ UNCHANGED networks
  /\ UNCHANGED <<attached, outside, robbed>>

NetworksMade(j) ==
  /\ JobAt(j, "networks") /\ job[j].teams = {}
  /\ Proceed(j, "containers", job[j].game, GameTeams[job[j].game])
  /\ UNCHANGED <<networks, attached, outside, teamNets, unfounded, robbed>>

\* The name of a team's network is asked for once, for all of its containers;
\* that there is none is not looked at.
GetTeamNetwork(j, t) ==
  /\ JobAt(j, "containers") /\ t \in job[j].teams
  /\ job' = [job EXCEPT ![j] = [at |-> "create", game |-> job[j].game, team |-> t,
                                teams |-> job[j].teams \ {t}, named |-> t \in teamNets]]
  /\ UNCHANGED <<networks, attached, outside, teamNets, unfounded, robbed>>

\* The container of a challenge: without a name it goes to Docker's own network,
\* with a name Docker does not know there is an error.
CreateContainer(j) ==
  /\ JobAt(j, "create")
  /\ LET g == job[j].game IN
     \/ /\ job[j].named /\ job[j].team \in networks
        /\ attached' = [attached EXCEPT ![g] = attached[g] \cup {job[j].team}]
        /\ UNCHANGED outside
     \/ /\ ~job[j].named
        /\ outside' = [outside EXCEPT ![g] = outside[g] \cup {job[j].team}]
        /\ UNCHANGED attached
  /\ UNCHANGED <<networks, teamNets, job, unfounded, robbed>>

\* All challenges have been tried.
TeamDone(j) ==
  /\ JobAt(j, "create")
  /\ Proceed(j, "containers", job[j].game, job[j].teams)
  /\ UNCHANGED <<networks, attached, outside, teamNets, unfounded, robbed>>

\* IsolateTeams follows, which changes nothing that is looked at again.
ContainersMade(j) ==
  /\ JobAt(j, "containers") /\ job[j].teams = {}
  /\ Returns(j)
  /\ UNCHANGED <<networks, attached, outside, teamNets, unfounded, robbed>>
-----------------------------------------------------------------------------
(***************************************************************************)
(* Teardown: CleanupAll first, then the networks of the teams that have a  *)
(* row when it is done.                                                    *)
(***************************************************************************)
Teardown(j, g) ==
  /\ JobAt(j, "idle")
  /\ Proceed(j, "cleanup", g, {})
  /\ UNCHANGED <<networks, attached, outside, teamNets, unfounded, robbed>>

\* Any container may stay: Docker refuses it, or it was made after the list of
\* them.  A row may outlive its container, be made meanwhile or not be read.
CleanupAll(j) ==
  /\ JobAt(j, "cleanup")
  /\ \E stays, out \in SUBSET Team, left \in SUBSET GameTeams[job[j].game] :
       /\ stays \subseteq attached[job[j].game] /\ out \subseteq outside[job[j].game]
       /\ attached' = [attached EXCEPT ![job[j].game] = stays]
       /\ outside' = [outside EXCEPT ![job[j].game] = out]
       /\ Proceed(j, "remove", job[j].game, left)
  /\ UNCHANGED <<networks, teamNets, unfounded, robbed>>

\* Docker keeps a network that a running container is in: those of the other
\* games run, those of the game being torn down may have been stopped.
InUse(g, t) == \E h \in Games : t \in attached[h] /\ h # g

\* A provisioning counts on a network it has been told of and will ask for.
CountsOn(j, t) ==
  \/ JobAt(j, "networks") /\ t \in GameTeams[job[j].game] \ job[j].teams
  \/ job[j].at \in {"containers", "create"} /\ t \in job[j].teams

\* RemoveTeamNetwork forgets the network whatever Docker does.
RemoveTeamNetwork(j, t) ==
  /\ JobAt(j, "remove") /\ t \in job[j].teams
  /\ Proceed(j, "remove", job[j].game, job[j].teams \ {t})
  /\ \/ networks' = IF t \in teamNets /\ ~InUse(job[j].game, t) THEN networks \ {t} ELSE networks
     \/ UNCHANGED networks
  /\ teamNets' = teamNets \ {t} /\ unfounded' = unfounded \ {t}
  /\ robbed' = robbed \cup {<<job[i].game, t>> : i \in {i \in Goroutines : CountsOn(i, t)}}
  /\ UNCHANGED <<attached, outside>>

\* CleanupAll may fail to read the rows, and then nothing more is done.
TeardownEnds(j) ==
  /\ JobAt(j, "cleanup") \/ (JobAt(j, "remove") /\ job[j].teams = {})
  /\ Returns(j)
  /\ UNCHANGED <<networks, attached, outside, teamNets, unfounded, robbed>>

\* The process ends: the manager forgets, Docker does not.
ForgetNetworks ==
  /\ teamNets' = {} /\ unfounded' = {}
  /\ job' = [j \in Goroutines |-> NotRunning]
  /\ robbed' = {p \in robbed : p[2] \in outside[p[1]]}
  /\ UNCHANGED <<networks, attached, outside>>

NetworkNext ==
  \/ \E j \in Goroutines :
       \/ \E g \in Games : Provision(j, g) \/ Teardown(j, g)
       \/ NetworksMade(j) \/ CreateContainer(j) \/ TeamDone(j) \/ ContainersMade(j)
       \/ CleanupAll(j) \/ TeardownEnds(j)
       \/ \E t \in Team : CreateTeamNetwork(j, t) \/ GetTeamNetwork(j, t) \/ RemoveTeamNetwork(j, t)
  \/ ForgetNetworks

NetworkSpec == NetworkInit /\ [][NetworkNext]_networkVars
-----------------------------------------------------------------------------
(***************************************************************************)
(* Properties.                                                             *)
(***************************************************************************)

\* Whatever provisionings and teardowns run at once, of one game or of games
\* that share a team, and through restarts: the manager knows no network that
\* Docker has not, but for one that Docker refused to make for another reason
\* than that it is there; and a container is outside its team's network only
\* where a teardown took that network between the moment the provisioning of
\* the container's game had made it and the moment it asked for its name.
ContainersInTeamNetworks ==
  /\ teamNets \subseteq networks \cup unfounded
  /\ \A g \in Games : {g} \X outside[g] \subseteq robbed
=============================================================================
