----------------------------- MODULE MCServices -----------------------------
(***************************************************************************)
(* The small services next to the games, each explored alone: focus names  *)
(* the one that moves.                                                     *)
(***************************************************************************)
EXTENDS Accounts, TeamAdmin, Hub, RateLimit, Networks, ZeroSum,
        HealthChecker, ServiceMonitor, AlertManager, GameStateMachine, TLC

VARIABLE focus

MCGameTeams == ("x" :> {1, 3}) @@ ("y" :> {3})

\* Which account seedAdmin made does not matter.
FirstAdmin == CHOOSE a \in Accounts : TRUE

MCInit ==
  /\ focus \in {"accounts", "teams", "hub", "rate", "networks", "zero", "health",
                "monitor", "alerts", "machines"}
  /\ AccountInit /\ TeamInit /\ HubInit /\ RateInit
  /\ NetworkInit /\ ZeroInit /\ HealthInit
  /\ MonitorInit /\ AlertInit /\ MachineInit
  /\ Present(FirstAdmin)
  /\ focus = "monitor" \/ recovery
  /\ focus = "machines" \/ row = Canonical["preparing"]

MCNext ==
  /\ \/ /\ focus = "accounts" /\ AccountNext
        /\ UNCHANGED <<teamVars, hubVars, rateVars, networkVars, zeroVars,
                       healthVars, monitorVars, alertVars, machineVars>>
     \/ /\ focus = "teams" /\ TeamNext
        /\ UNCHANGED <<accountVars, hubVars, rateVars, networkVars, zeroVars,
                       healthVars, monitorVars, alertVars, machineVars>>
     \/ /\ focus = "hub" /\ HubNext
        /\ UNCHANGED <<accountVars, teamVars, rateVars, networkVars, zeroVars,
                       healthVars, monitorVars, alertVars, machineVars>>
     \/ /\ focus = "rate" /\ RateNext
        /\ UNCHANGED <<accountVars, teamVars, hubVars, networkVars, zeroVars,
                       healthVars, monitorVars, alertVars, machineVars>>
     \/ /\ focus = "networks" /\ NetworkNext
        /\ UNCHANGED <<accountVars, teamVars, hubVars, rateVars, zeroVars,
                       healthVars, monitorVars, alertVars, machineVars>>
     \/ /\ focus = "zero" /\ ZeroNext
        /\ UNCHANGED <<accountVars, teamVars, hubVars, rateVars, networkVars,
                       healthVars, monitorVars, alertVars, machineVars>>
     \/ /\ focus = "health" /\ HealthNext
        /\ UNCHANGED <<accountVars, teamVars, hubVars, rateVars, networkVars,
                       zeroVars, monitorVars, alertVars, machineVars>>
     \/ /\ focus = "monitor" /\ MonitorNext
        /\ UNCHANGED <<accountVars, teamVars, hubVars, rateVars, networkVars,
                       zeroVars, healthVars, alertVars, machineVars>>
     \/ /\ focus = "alerts" /\ AlertNext
        /\ UNCHANGED <<accountVars, teamVars, hubVars, rateVars, networkVars,
                       zeroVars, healthVars, monitorVars, machineVars>>
     \/ /\ focus = "machines" /\ MachineNext
        /\ UNCHANGED <<accountVars, teamVars, hubVars, rateVars, networkVars,
                       zeroVars, healthVars, monitorVars, alertVars>>
  /\ UNCHANGED focus

Symmetry == Permutations(Workers) \cup Permutations(Goroutines)

\* Bound: teardowns take one network from one game's provisionings.
OneTaken == Cardinality(robbed) <= 1
=============================================================================
