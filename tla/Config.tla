------------------------------- MODULE Config -------------------------------
(***************************************************************************)
(* The values of config.yaml the behaviour of module-engine depends on     *)
(* (internal/config/config.go), the addresses it deals with, and the       *)
(* failures its surroundings may show.                                     *)
(*                                                                         *)
(* Here and in the other modules a definition called Mutant_X is a wrong   *)
(* form of X: a mistake the properties must notice if it replaces X.       *)
(***************************************************************************)
EXTENDS Integers

CONSTANTS
  TriggerCount,     \* params.trigger_count: events that activate the scenario
  TriggerWindow,    \* params.trigger_window
  UnblockAfter,     \* params.unblock_after: length of a first block
  Timeout,          \* notifier.timeout: time a person has to press a button
  Minute,           \* clock units in a minute: 60 in the code, which keeps seconds
  NotifierEnabled,  \* notifier.enabled, and notifier.name is "slack"
  Actioners,        \* action.actioners: what the action "all" runs
  IPs,              \* the remote addresses events carry
  Faults            \* the failures of the surroundings that may happen

(* The keys of the map NewServer fills: the only actioners there are. *)
Registered == {"gcp_firewall", "gcp_storage", "sigmahq"}

(* Failures: a query, a GCP call or a Slack call that returns an error, the *)
(* process being restarted, the Go runtime stopping the process when it     *)
(* catches two goroutines in one map, and a port that cannot be opened.     *)
FaultKinds ==
  {"db", "firewall", "storage", "slack", "restart", "maprace", "port"}

ASSUME ConfigAssumption ==
  /\ TriggerCount \in Int
  /\ {TriggerWindow, UnblockAfter, Timeout} \subseteq Nat
  /\ Minute \in Nat \ {0}
  /\ NotifierEnabled \in BOOLEAN
  /\ Actioners \subseteq Registered
  /\ Faults \subseteq FaultKinds

(* HandleEvent takes a trigger_count that is not positive for 1. *)
Threshold == IF TriggerCount <= 0 THEN 1 ELSE TriggerCount

=============================================================================
