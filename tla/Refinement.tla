----------------------------- MODULE Refinement -----------------------------
(***************************************************************************)
(* How the scenario manager implements the two abstract specifications.    *)
(***************************************************************************)
EXTENDS ManagerProperties

(* A block of ip is over and its goroutine is about to unblock it, or a    *)
(* manual unblock of ip is on its way.                                     *)
UnblockDue(ip) ==
  \/ \E u \in Unblockers :
       /\ go[u].ip = ip
       /\ go[u].pc \in {"unblocker.waiting", "unblocker.unblock"}
       /\ now >= go[u].rec.unblockAfter
  \/ \E m \in Unblocks : go[m].ip = ip

Policy == INSTANCE BlockPolicy WITH
  reports <- handled,
  due     <- {ip \in IPs : UnblockDue(ip)}

(* Every interleaving of goroutines, with any failures: the firewall is    *)
(* changed only as BlockPolicy allows (scenario.go 79-83, 154-160, 193-    *)
(* 196, 238).                                                              *)
FollowsPolicy == Policy!Spec

(* What the row of an address says about it.                               *)
PhaseOf(r) ==
  IF r.blockedAt > 0 THEN "blocked"
  ELSE IF r.actionTaken THEN "acted"
  ELSE "free"

Cycle == INSTANCE BlockCycle WITH
  BlockTime <- UnblockAfter * Minute,
  phase     <- [ip \in IPs |-> PhaseOf(blocks[ip])],
  until     <- [ip \in IPs |-> blocks[ip].unblockAfter],
  count     <- [ip \in IPs |-> blocks[ip].blockCount],
  wanted    <- {ip \in IPs : \E m \in Unblocks : go[m].ip = ip}

(* Requests and timers that do not overlap: what the table says of an      *)
(* address goes through the cycles of BlockCycle, and every block ends     *)
(* (scenario.go 171-175, 193-205, 245-252).                                *)
FollowsCycle == Cycle!Spec

=============================================================================
