---------------------------- MODULE GCPFirewall -----------------------------
(***************************************************************************)
(* The rules in the GCP project's firewall and the two calls that change   *)
(* them (internal/actioner/gcp_firewall.go).  The rule's name is made from *)
(* the address alone, so there is at most one per address: inserting a     *)
(* rule that exists and deleting one that does not are errors of the API.  *)
(* A call that fails may still have been carried out: its answer is lost.  *)
(* A rule is there, or gone, when the API has accepted the change: the     *)
(* code does not wait for the operation it is given.                       *)
(***************************************************************************)
EXTENDS Config

VARIABLE rules   \* the addresses a block-<ip> rule exists for

FirewallInit == rules = {}
FirewallTypeOK == rules \subseteq IPs

CallMayFail == "firewall" \in Faults

(* GCPFirewall.Execute returns nil.                                        *)
RuleInserted(ip) ==
  /\ ip \notin rules
  /\ rules' = rules \cup {ip}

(* GCPFirewall.Execute returns an error.                                   *)
InsertRefused(ip) ==
  \/ ip \in rules /\ UNCHANGED rules
  \/ CallMayFail /\ rules' \in {rules, rules \cup {ip}}

(* GCPFirewall.Unblock returns nil, or an error.                           *)
Mutant_RuleDeleted(ip) == ip \in rules /\ UNCHANGED rules

RuleDeleted(ip) ==
  /\ ip \in rules
  /\ rules' = rules \ {ip}

DeleteRefused(ip) ==
  \/ ip \notin rules /\ UNCHANGED rules
  \/ CallMayFail /\ rules' \in {rules, rules \ {ip}}

=============================================================================
