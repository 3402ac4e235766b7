----------------------------- MODULE BlockCycle -----------------------------
(***************************************************************************)
(* What the engine promises about the blocks of an address: an action of   *)
(* another kind may be taken first, a block lasts as many times BlockTime  *)
(* as there have been blocks of the address, it ends when that is over or  *)
(* when somebody asks for it, not before, and it does end.                 *)
(*                                                                         *)
(* The scenario manager implements this when its requests and timers do    *)
(* not overlap (module Refinement).                                        *)
(***************************************************************************)
EXTENDS Naturals

CONSTANTS
  IPs,
  BlockTime   \* how long the first block of an address lasts

VARIABLES
  now,      \* the clock
  phase,    \* "free", "acted" (without a block) or "blocked"
  until,    \* when the block ends, or the last one ended
  count,    \* the blocks of each address so far
  wanted    \* the addresses somebody asks to unblock

vars == <<now, phase, until, count, wanted>>

Init ==
  /\ now \in Nat
  /\ phase = [ip \in IPs |-> "free"]
  /\ until = [ip \in IPs |-> 0]
  /\ count = [ip \in IPs |-> 0]
  /\ wanted = {}

Enters(ip, p) == phase' = [phase EXCEPT ![ip] = p]

Act(ip) ==
  /\ phase[ip] = "free"
  /\ Enters(ip, "acted")
  /\ UNCHANGED <<now, until, count, wanted>>

(* An action counts for the cycle it was taken in.                         *)
Forget(ip) ==
  /\ phase[ip] = "acted"
  /\ Enters(ip, "free")
  /\ UNCHANGED <<now, until, count, wanted>>

Block(ip) ==
  /\ phase[ip] # "blocked"
  /\ Enters(ip, "blocked")
  /\ count' = [count EXCEPT ![ip] = @ + 1]
  /\ until' = [until EXCEPT ![ip] = now + BlockTime * (count[ip] + 1)]
  /\ UNCHANGED <<now, wanted>>

(* A request to unblock is answered in the same step.                      *)
Unblock(ip) ==
  /\ phase[ip] = "blocked"
  /\ \/ now >= until[ip] /\ UNCHANGED wanted
     \/ ip \in wanted /\ wanted' = wanted \ {ip}
  /\ Enters(ip, "free")
  /\ UNCHANGED <<now, until, count>>

(* The rest of the world: requests to unblock come and are given up, and   *)
(* time goes on.                                                           *)
Want ==
  /\ wanted' \in SUBSET IPs
  /\ UNCHANGED <<now, phase, until, count>>

Blocked == {ip \in IPs : phase[ip] = "blocked"}

Tick ==
  /\ now' = now + 1
  /\ UNCHANGED <<phase, until, count, wanted>>

Next ==
  \/ \E ip \in IPs : Act(ip) \/ Forget(ip) \/ Block(ip) \/ Unblock(ip)
  \/ Want \/ Tick

(* While an address is blocked time does not stop before the block is over. *)
AwaitedTick ==
  /\ \E ip \in Blocked : now < until[ip]
  /\ Tick

Fairness ==
  /\ WF_vars(AwaitedTick)
  /\ \A ip \in IPs : WF_vars(Unblock(ip))

Spec == Init /\ [][Next]_vars /\ Fairness

=============================================================================
