--------------------------- MODULE SecurityAlerts ---------------------------
(***************************************************************************)
(* What becomes of a message, or of a click on a card, from a user outside *)
(* the whitelist: a row in security_alerts, a message to the owner, and    *)
(* the outcome marked in the row.  Redelivered messages are new attempts.  *)
(*                                                                         *)
(* The handler does all this without suspending.  Only the end of the      *)
(* process can come between two of its steps; that steps of other tasks    *)
(* may come there too changes nothing, as nobody else uses this state.     *)
(***************************************************************************)
CONSTANTS Attempts  \* what users outside the whitelist try

VARIABLES
  alerts,  \* table security_alerts: the status of each attempt's row (persistent)
  told,    \* Feishu: attempts of which the owner has received an alert
  step     \* what the handler of each attempt does next

vars == <<alerts, told, step>>

Init ==
  /\ alerts = [a \in Attempts |-> "none"]
  /\ told = {}
  /\ step = [a \in Attempts |-> "none"]

RecordUnauthorizedAttempt(a) ==
  /\ alerts' = [alerts EXCEPT ![a] = "blocked"]
  /\ step' = [step EXCEPT ![a] = "alert"]
  /\ UNCHANGED told

SendOwnerAlertUnchecked(a) ==  \* mutant: an error of the call goes unnoticed
  /\ step[a] = "alert"
  /\ step' = [step EXCEPT ![a] = "mark sent"]
  /\ told' \in {told, told \cup {a}}
  /\ UNCHANGED alerts

(* A call that raises may have delivered the alert all the same.           *)
SendOwnerAlert(a) ==
  /\ step[a] = "alert"
  /\ \/ step' = [step EXCEPT ![a] = "mark sent"] /\ told' = told \cup {a}
     \/ step' = [step EXCEPT ![a] = "mark failed"] /\ told' \in {told, told \cup {a}}
  /\ UNCHANGED alerts

MarkAlert(a) ==
  /\ step[a] \in {"mark sent", "mark failed"}
  /\ alerts' = [alerts EXCEPT ![a] = IF step[a] = "mark sent" THEN "alert_sent" ELSE "alert_failed"]
  /\ step' = [step EXCEPT ![a] = "over"]
  /\ UNCHANGED told

ProcessEnds ==
  /\ step' = [a \in Attempts |-> IF step[a] = "none" THEN "none" ELSE "over"]
  /\ UNCHANGED <<alerts, told>>

-----------------------------------------------------------------------------
AlertsTypeOK ==
  /\ alerts \in [Attempts -> {"none", "blocked", "alert_sent", "alert_failed"}]
  /\ told \subseteq Attempts
  /\ step \in [Attempts -> {"none", "alert", "mark sent", "mark failed", "over"}]
=============================================================================
