---------------------------- MODULE BlockPolicy -----------------------------
(***************************************************************************)
(* What the engine promises about the rules of the firewall whatever its   *)
(* goroutines do to each other: a rule is put up only for an address that  *)
(* was reported often enough, or that somebody wants blocked; a rule is    *)
(* taken down only for an address a block of which is over, or that        *)
(* somebody wants unblocked.                                               *)
(*                                                                         *)
(* The scenario manager implements this in every interleaving and with     *)
(* every failure (module Refinement).                                      *)
(***************************************************************************)
EXTENDS Naturals

CONSTANTS
  IPs,
  Threshold   \* the reports it takes to block an address

VARIABLES
  rules,     \* the addresses the firewall has a rule for
  reports,   \* how often each address was reported
  asked,     \* the addresses somebody pressed a button for
  due        \* those whose unblock is due: the time is over, or asked for

vars == <<rules, reports, asked, due>>

Init ==
  /\ rules = {}
  /\ reports = [ip \in IPs |-> 0]
  /\ asked = {}
  /\ due = {}

Report(ip) ==
  /\ reports' = [reports EXCEPT ![ip] = @ + 1]
  /\ UNCHANGED <<rules, asked, due>>

Ask(ip) ==
  /\ asked' = asked \cup {ip}
  /\ UNCHANGED <<rules, reports, due>>

Block(ip) ==
  /\ reports[ip] >= Threshold \/ ip \in asked
  /\ rules' = rules \cup {ip}
  /\ UNCHANGED <<reports, asked, due>>

Unblock(ip) ==
  /\ ip \in due
  /\ rules' = rules \ {ip}
  /\ due' \in SUBSET due
  /\ UNCHANGED <<reports, asked>>

(* Time passes, and people ask for an unblock or give up.                  *)
Due ==
  /\ due' \in SUBSET IPs
  /\ UNCHANGED <<rules, reports, asked>>

Next ==
  \/ \E ip \in IPs : Report(ip) \/ Ask(ip) \/ Block(ip) \/ Unblock(ip)
  \/ Due

Spec == Init /\ [][Next]_vars

=============================================================================
