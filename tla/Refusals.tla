------------------------------ MODULE Refusals ------------------------------
(***************************************************************************)
(* The scenario manager with firewall calls that fail.  scheduleUnblock    *)
(* ignores a failed Unblock, ManualUnblock gives up after it has cancelled *)
(* the scheduled one, and ExecuteAction takes a lost answer for a rule     *)
(* that is not there: each of them leaves a rule nobody will remove.  A    *)
(* history variable keeps these rules apart from all others.               *)
(***************************************************************************)
EXTENDS Refinement

VARIABLE leftOver   \* history: addresses whose rule a failed call has left

(* g's firewall call for ip failed in this step and there is a rule that g *)
(* does not look after.                                                    *)
CallLeaves(g, ip) ==
  /\ go[g].ip = ip
  /\ go'[g] # go[g]
  /\ \/ go[g].pc \in {"unblocker.unblock", "manual.unblock"}
     \/ /\ At(g, "action.execute") /\ ip \notin rules
        /\ go'[g].pc # "action.lookup"

RefusalsInit == Init /\ leftOver = {}

RefusalsNext ==
  /\ Next
  /\ leftOver' = {ip \in rules' :
       ip \in leftOver \/ \E g \in Goroutines : CallLeaves(g, ip)}

RefusalsSpec == RefusalsInit /\ [][RefusalsNext]_<<vars, leftOver>>

(* Failing firewall calls do no more damage than that: a rule that stays   *)
(* without anybody to remove it is one that the very call for it has left  *)
(* (scenario.go, 160, 196, 240).  What failed for one caller, or for one   *)
(* address, takes nobody away from another rule.                           *)
OnlyFailuresLeaveRules ==
  crashed \/
    \A ip \in rules \ leftOver : \E g \in Goroutines : Removes(g, ip)

=============================================================================
