----------------------------- MODULE AlertManager -----------------------------
(***************************************************************************)
(* The AlertManager of internal/notify/alert.go: an alert goes to all the  *)
(* notifiers, and the same alert (generateAlertID: a kind here) is not     *)
(* sent again while it is silenced.                                        *)
(*                                                                         *)
(* A step is what holds am.mu, or one call of a notifier, which takes the  *)
(* time it likes.  Silences are set up once (SetSilence).                  *)
(***************************************************************************)
EXTENDS Naturals

CONSTANTS Senders,     \* the callers of SendAlert
          AlertKinds,
          Notifiers,
          Silence      \* length of the silence of every kind, in ticks

ASSUME AlertAssumption == Silence \in Nat

VARIABLES
  enabled, dedupe, silencing,  \* the three switches
  notifiers,                   \* am.notifiers
  lastSent,                    \* am.silenceState: ticks since then, at most Silence
  senders,                     \* the calls of SendAlert under way
  heard,                       \* history: the notifiers that ever got a kind
  due                          \* history: those the kind's last full send was for

switches  == <<enabled, dedupe, silencing>>
alertVars == <<switches, notifiers, lastSent, senders, heard, due>>

\* quiet: history, how long the silence that was on when the call began lasts.
Sender == [at : {"idle", "check", "send"}, kind : AlertKinds, dedupe : BOOLEAN,
           list : SUBSET Notifiers, rest : SUBSET Notifiers, failed : BOOLEAN,
           quiet : 0..Silence]

AlertTypeOK ==
  /\ switches \in BOOLEAN \X BOOLEAN \X BOOLEAN
  /\ notifiers \subseteq Notifiers
  /\ lastSent \in [AlertKinds -> 0..Silence]
  /\ senders \in [Senders -> Sender]
  /\ heard \in [AlertKinds -> SUBSET Notifiers] /\ due \in [AlertKinds -> SUBSET Notifiers]

Unsent(k) == [at |-> "idle", kind |-> k, dedupe |-> TRUE, list |-> {}, rest |-> {},
              failed |-> FALSE, quiet |-> 0]

AlertInit ==
  /\ enabled = TRUE /\ dedupe = TRUE /\ silencing = TRUE /\ notifiers = {}
  /\ lastSent = [k \in AlertKinds |-> Silence]
  /\ senders = [s \in Senders |-> Unsent(CHOOSE k \in AlertKinds : TRUE)]
  /\ heard = [k \in AlertKinds |-> {}] /\ due = [k \in AlertKinds |-> {}]

Steps(s, fields) == senders' = [senders EXCEPT ![s] = fields]
Returned(s) == Steps(s, Unsent(CHOOSE k \in AlertKinds : TRUE))
-----------------------------------------------------------------------------
\* AddNotifier.
AddNotifier(n) ==
  /\ n \notin notifiers /\ notifiers' = notifiers \cup {n}
  /\ UNCHANGED <<switches, lastSent, senders, heard, due>>

\* Enable, SetDedupe and SetSilenceEnabled.  What was promised while a switch
\* was on is void when it goes off.
Switch ==
  /\ \/ enabled' = ~enabled /\ UNCHANGED <<dedupe, silencing>>
     \/ dedupe' = ~dedupe /\ UNCHANGED <<enabled, silencing>>
     \/ silencing' = ~silencing /\ UNCHANGED <<enabled, dedupe>>
  /\ senders' = [s \in Senders |-> IF silencing' THEN senders[s]
                                   ELSE [senders[s] EXCEPT !.quiet = 0]]
  /\ UNCHANGED <<notifiers, lastSent, heard, due>>

\* isSilenced.
isSilenced(k) == silencing /\ lastSent[k] < Silence

\* SendAlert reads enabled and enableDedupe in a section of their own ...
SendAlert(s, k) ==
  /\ enabled /\ senders[s].at = "idle"
  /\ Steps(s, [Unsent(k) EXCEPT
       !.at = "check", !.dedupe = dedupe,
       !.quiet = IF dedupe /\ silencing THEN Silence - lastSent[k] ELSE 0])
  /\ UNCHANGED <<switches, notifiers, lastSent, heard, due>>

Refuse(s) ==
  /\ senders[s].at = "check" /\ senders[s].dedupe /\ isSilenced(senders[s].kind)
  /\ Returned(s)
  /\ UNCHANGED <<switches, notifiers, lastSent, heard, due>>

\* ... and copies the list of the notifiers when the check has passed.
BeginSend(s) ==
  /\ senders[s].at = "check" /\ ~(senders[s].dedupe /\ isSilenced(senders[s].kind))
  /\ Steps(s, [senders[s] EXCEPT !.at = "send", !.list = notifiers, !.rest = notifiers])
  /\ UNCHANGED <<switches, notifiers, lastSent, heard, due>>

Deliver(s, n) ==
  LET call == [senders[s] EXCEPT !.rest = @ \ {n}] IN
  /\ senders[s].at = "send" /\ n \in senders[s].rest
  /\ \/ /\ Steps(s, call)
        /\ heard' = [heard EXCEPT ![call.kind] = @ \cup {n}]
     \/ Steps(s, [call EXCEPT !.failed = TRUE]) /\ UNCHANGED heard
  /\ UNCHANGED <<switches, notifiers, lastSent, due>>

\* Mutant: the silence begins although a notifier failed.
updateSilenceState_Always(s) ==
  LET k == senders[s].kind IN
  /\ lastSent' = [lastSent EXCEPT ![k] = 0]
  /\ due' = [due EXCEPT ![k] = senders[s].list]

updateSilenceState(s) ==
  LET k == senders[s].kind IN
  IF senders[s].failed THEN UNCHANGED <<lastSent, due>>
  ELSE /\ lastSent' = [lastSent EXCEPT ![k] = 0]
       /\ due' = [due EXCEPT ![k] = senders[s].list]

EndSend(s) ==
  /\ senders[s].at = "send" /\ senders[s].rest = {}
  /\ updateSilenceState(s) /\ Returned(s)
  /\ UNCHANGED <<switches, notifiers, heard>>

AlertTick ==
  /\ lastSent' = [k \in AlertKinds |-> IF lastSent[k] < Silence THEN lastSent[k] + 1 ELSE Silence]
  /\ senders' = [s \in Senders |-> [senders[s] EXCEPT !.quiet = IF @ > 0 THEN @ - 1 ELSE 0]]
  /\ UNCHANGED <<switches, notifiers, heard, due>>

AlertNext ==
  \/ \E n \in Notifiers : AddNotifier(n)
  \/ Switch \/ AlertTick
  \/ \E s \in Senders :
       \/ \E k \in AlertKinds : SendAlert(s, k)
       \/ Refuse(s) \/ BeginSend(s) \/ EndSend(s)
       \/ \E n \in Notifiers : Deliver(s, n)

AlertSpec == AlertInit /\ [][AlertNext]_alertVars
-----------------------------------------------------------------------------
(***************************************************************************)
(* Properties.                                                             *)
(***************************************************************************)

\* A kind of alert is held back only after everybody it was for has got it,
\* and as long as the silence of that send lasts, nobody who calls SendAlert
\* after it sends the kind again.  Calls that began before it ended do: the
\* check and the update are sections of their own.
SilencedAfterDelivery ==
  /\ \A k \in AlertKinds : isSilenced(k) => due[k] \subseteq heard[k]
  /\ \A s \in Senders : senders[s].at = "send" => senders[s].quiet = 0
=============================================================================
