---------------------------- MODULE ServiceMonitor ----------------------------
(***************************************************************************)
(* The monitor of target services: ServiceHealthChecker and its            *)
(* ServiceCheckers of internal/monitor/health_checker.go.                  *)
(*                                                                         *)
(* Each service added gets a goroutine that checks it and puts alerts into *)
(* a channel somebody else reads; a full channel drops them.  The records  *)
(* of the checks and the statistics over them are left out.                *)
(***************************************************************************)
EXTENDS Naturals, Sequences

CONSTANTS Services,
          Unsupported,   \* services whose protocol is neither http nor tcp
          Probes,        \* the ServiceCheckers the monitor makes
          NoProbe,
          FailureCount,  \* failures in a row that make an alert
          QueueLimit     \* capacity of alertChan

ASSUME MonitorAssumption ==
  /\ NoProbe \notin Probes \cup Services /\ Unsupported \subseteq Services
  /\ FailureCount \in Nat \ {0} /\ QueueLimit \in Nat

VARIABLES
  probes,     \* the ServiceCheckers and their goroutines
  checkers,   \* hc.checkers
  recovery,   \* config.RecoveryNotify
  alerts,     \* alertChan: checker and kind of each alert
  stopping,   \* the call of Stop: "none", "wait", "close" or "done"
  cancelled,  \* hc.ctx is done
  told,       \* history: the last alert of a checker that got into the channel
  lost,       \* history: checkers whose last alert was dropped
  twice       \* history: a stopChan was closed twice, which panics

monitorVars == <<probes, checkers, recovery, alerts, stopping, cancelled, told, lost, twice>>

Health == {"unknown", "healthy", "unhealthy"}
Probe == [at : {"new", "check", "report", "idle", "gone"}, service : Services \cup {NoProbe},
          saw : Health, last : Health, fails : 0..FailureCount, notified : BOOLEAN,
          closed : BOOLEAN]

MonitorTypeOK ==
  /\ probes \in [Probes -> Probe]
  /\ checkers \in [Services -> Probes \cup {NoProbe}]
  /\ recovery \in BOOLEAN /\ cancelled \in BOOLEAN /\ twice \in BOOLEAN
  /\ alerts \in Seq(Probes \X {"down", "recovered"})
  /\ stopping \in {"none", "wait", "close", "done"}
  /\ told \in [Probes -> {"none", "down", "recovered"}]
  /\ lost \subseteq Probes

Unmade == [at |-> "new", service |-> NoProbe, saw |-> "unknown", last |-> "unknown",
           fails |-> 0, notified |-> FALSE, closed |-> FALSE]

MonitorInit ==
  /\ probes = [p \in Probes |-> Unmade] /\ checkers = [s \in Services |-> NoProbe]
  /\ recovery \in BOOLEAN
  /\ alerts = <<>> /\ stopping = "none" /\ cancelled = FALSE
  /\ told = [p \in Probes |-> "none"] /\ lost = {} /\ twice = FALSE

Watching(p) == probes[p].at \in {"check", "report", "idle"}
Proceeds(p, fields) == probes' = [probes EXCEPT ![p] = fields]
-----------------------------------------------------------------------------
(***************************************************************************)
(* The monitor: what holds hc.mu is one step.                              *)
(***************************************************************************)

\* A service that is in the map is not added again; Start adds all of them.
AddService(s, p) ==
  /\ checkers[s] = NoProbe /\ probes[p] = Unmade
  /\ Proceeds(p, [Unmade EXCEPT !.at = "check", !.service = s])
  /\ checkers' = [checkers EXCEPT ![s] = p]
  /\ UNCHANGED <<recovery, alerts, stopping, cancelled, told, lost, twice>>

RemoveService(s) ==
  /\ checkers[s] # NoProbe
  /\ twice' = (twice \/ probes[checkers[s]].closed)
  /\ Proceeds(checkers[s], [probes[checkers[s]] EXCEPT !.closed = TRUE])
  /\ checkers' = [checkers EXCEPT ![s] = NoProbe]
  /\ UNCHANGED <<recovery, alerts, stopping, cancelled, told, lost>>

\* Stop cancels, waits for the goroutines without the mutex ...
StopMonitor ==
  /\ stopping \in {"none", "done"}
  /\ stopping' = "wait" /\ cancelled' = TRUE
  /\ UNCHANGED <<probes, checkers, recovery, alerts, told, lost, twice>>

WaitEnds ==
  /\ stopping = "wait" /\ \A p \in Probes : ~Watching(p)
  /\ stopping' = "close"
  /\ UNCHANGED <<probes, checkers, recovery, alerts, cancelled, told, lost, twice>>

\* ... and then closes the channels of those in the map.
CloseAll ==
  LET listed == {checkers[s] : s \in Services} \ {NoProbe} IN
  /\ stopping = "close" /\ stopping' = "done"
  /\ twice' = (twice \/ \E p \in listed : probes[p].closed)
  /\ probes' = [p \in Probes |->
                  IF p \in listed THEN [probes[p] EXCEPT !.closed = TRUE] ELSE probes[p]]
  /\ checkers' = [s \in Services |-> NoProbe]
  /\ UNCHANGED <<recovery, alerts, cancelled, told, lost>>
-----------------------------------------------------------------------------
(***************************************************************************)
(* The goroutine of a checker: run, check and handleStatusChange.          *)
(***************************************************************************)

\* performCheck.
PerformCheck(p) ==
  /\ probes[p].at = "check"
  /\ \E saw \in IF probes[p].service \in Unsupported THEN {"unknown"} ELSE {"healthy", "unhealthy"} :
       Proceeds(p, [probes[p] EXCEPT !.at = "report", !.saw = saw])
  /\ UNCHANGED <<checkers, recovery, alerts, stopping, cancelled, told, lost, twice>>

Fails(p) == IF probes[p].saw # "unhealthy" THEN 0
            ELSE IF probes[p].fails < FailureCount THEN probes[p].fails + 1 ELSE FailureCount

WentDown(p) ==
  probes[p].saw = "unhealthy" /\ Fails(p) >= FailureCount /\ ~probes[p].notified

Recovered(p) ==
  probes[p].saw = "healthy" /\ probes[p].last = "unhealthy" /\ recovery /\ probes[p].notified

Reported(p, notified) ==
  Proceeds(p, [probes[p] EXCEPT !.at = "idle", !.fails = Fails(p), !.last = probes[p].saw,
                                !.notified = notified])

\* The send does not wait: the default case drops the alert.
Alert(p, kind) ==
  \/ /\ Len(alerts) < QueueLimit
     /\ alerts' = Append(alerts, <<p, kind>>)
     /\ told' = [told EXCEPT ![p] = kind] /\ lost' = lost \ {p}
  \/ /\ Len(alerts) = QueueLimit
     /\ lost' = lost \cup {p}
     /\ UNCHANGED <<alerts, told>>

\* Mutant: that the outage was told is not remembered.
HandleStatusChange_Forgets(p) ==
  /\ probes[p].at = "report"
  /\ \/ WentDown(p) /\ Alert(p, "down") /\ Reported(p, FALSE)
     \/ ~WentDown(p) /\ Recovered(p) /\ Alert(p, "recovered") /\ Reported(p, FALSE)
     \/ ~WentDown(p) /\ ~Recovered(p) /\ Reported(p, probes[p].notified)
        /\ UNCHANGED <<alerts, told, lost>>
  /\ UNCHANGED <<checkers, recovery, stopping, cancelled, twice>>

HandleStatusChange(p) ==
  /\ probes[p].at = "report"
  /\ \/ WentDown(p) /\ Alert(p, "down") /\ Reported(p, TRUE)
     \/ Recovered(p) /\ Alert(p, "recovered") /\ Reported(p, FALSE)
     \/ ~WentDown(p) /\ ~Recovered(p) /\ Reported(p, probes[p].notified)
        /\ UNCHANGED <<alerts, told, lost>>
  /\ UNCHANGED <<checkers, recovery, stopping, cancelled, twice>>

\* The select may take the ticker although the checker was told to stop.
TickProbe(p) ==
  /\ probes[p].at = "idle"
  /\ Proceeds(p, [probes[p] EXCEPT !.at = "check"])
  /\ UNCHANGED <<checkers, recovery, alerts, stopping, cancelled, told, lost, twice>>

ProbeReturns(p) ==
  /\ probes[p].at = "idle" /\ (cancelled \/ probes[p].closed)
  /\ Proceeds(p, [probes[p] EXCEPT !.at = "gone"])
  /\ UNCHANGED <<checkers, recovery, alerts, stopping, cancelled, told, lost, twice>>

ReadAlert ==
  /\ alerts # <<>> /\ alerts' = Tail(alerts)
  /\ UNCHANGED <<probes, checkers, recovery, stopping, cancelled, told, lost, twice>>

MonitorNext ==
  \/ \E s \in Services : RemoveService(s) \/ \E p \in Probes : AddService(s, p)
  \/ StopMonitor \/ WaitEnds \/ CloseAll \/ ReadAlert
  \/ \E p \in Probes :
       PerformCheck(p) \/ HandleStatusChange(p) \/ TickProbe(p) \/ ProbeReturns(p)

MonitorSpec == MonitorInit /\ [][MonitorNext]_monitorVars
-----------------------------------------------------------------------------
(***************************************************************************)
(* Properties.                                                             *)
(***************************************************************************)

\* What the channel got last of a checker tells whether its service is down,
\* that is, failed FailureCount times in a row: an alert the full channel
\* dropped is made good by the next one, a removal or a stop in the middle of
\* a check changes nothing, and no channel is closed twice on the way.
\* Without RecoveryNotify the last word is that of the first outage, for ever.
AlertsTellTheState ==
  /\ ~twice
  /\ \A p \in Probes \ lost :
       LET down == probes[p].fails = FailureCount IN
       /\ down => told[p] = "down"
       /\ told[p] = "down" /\ recovery => down
=============================================================================
