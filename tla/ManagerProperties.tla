------------------------- MODULE ManagerProperties --------------------------
(***************************************************************************)
(* What the scenario manager is to guarantee: for every interleaving of    *)
(* its goroutines first, then for requests and timers that do not overlap. *)
(***************************************************************************)
EXTENDS Manager

(* The goroutines themselves: once started, each goes on to its end, and   *)
(* time passes.  No request has to arrive, and nothing has to fail.        *)
Fairness ==
  /\ WF_vars(Tick)
  /\ \A e \in Events : WF_vars(EventSteps(e) \/ ActionSteps(e))
  /\ \A p \in Presses : WF_vars(ActionSteps(p))
  /\ \A m \in Unblocks : WF_vars(ManualSteps(m))
  /\ \A t \in Timers : WF_vars(TimerSteps(t) \/ ActionSteps(t))
  /\ \A u \in Unblockers : WF_vars(UnblockerSteps(u))

FairSpec == Spec /\ Fairness

(* A goroutine that is started and not ended works on an address.          *)
FramesHaveAddress ==
  \A g \in Goroutines : go[g].pc \in Ended \cup {"new"} \/ go[g].ip \in IPs

(* The variables have their types: the maps hold channels of the kind they *)
(* are for, and a goroutine that runs works on an address.                 *)
TypeOK ==
  /\ TableTypeOK
  /\ FirewallTypeOK
  /\ now \in Nat
  /\ go \in [Goroutines -> Frames]
  /\ cancel \in [IPs -> Timers \cup {None}]
  /\ unblockCancel \in [IPs -> Unblockers \cup {None}]
  /\ closed \subseteq Timers \cup Unblockers
  /\ posted \subseteq IPs
  /\ handled \in [IPs -> Nat]
  /\ asked \subseteq IPs
  /\ crashed \in BOOLEAN
  /\ FramesHaveAddress

-----------------------------------------------------------------------------
(* Any interleaving *)

(* A record that says blocked is one an action was taken for, and its end  *)
(* is its start and one unblock_after per block so far.                    *)
Coherent(r) ==
  r.blockedAt > 0 =>
    /\ r.actionTaken
    /\ r.blockCount >= 1
    /\ r.unblockAfter = r.blockedAt + (UnblockAfter * Minute) * r.blockCount

(* However the reads and writes of the goroutines interleave, neither the  *)
(* table nor a goroutine holds a record mixed from two of them: a block    *)
(* has the length its own count gives it (scenario.go, 169-175).           *)
RecordsCoherent ==
  /\ \A ip \in IPs : Coherent(blocks[ip])
  /\ \A g \in Goroutines : Coherent(go[g].rec) /\ Coherent(go[g].arec)

(* An address nobody pressed a button for gets a firewall rule only after  *)
(* trigger_count of its events were counted: no interleaving of stale      *)
(* records, no restart and no failure blocks it earlier.                   *)
NoPrematureBlock ==
  \A ip \in rules \ asked : handled[ip] >= Threshold

(* g is going to take the entry of ip out of cancel, or unblockCancel.     *)
DeletesTimer(g, ip) ==
  go[g].pc \in {"action.delete", "manual.delete"} /\ go[g].ip = ip
DeletesUnblock(g, ip) == At(g, "manual.delete2") /\ go[g].ip = ip

(* A map keeps a closed channel only until the goroutine that closed it    *)
(* has deleted the entry: a close that panics is always a race with that   *)
(* goroutine, never the second of two calls one after the other.           *)
ClosedChannelsLeaveMaps ==
  \A ip \in IPs :
    /\ cancel[ip] \in closed => \E g \in Goroutines : DeletesTimer(g, ip)
    /\ unblockCancel[ip] \in closed => \E g \in Goroutines : DeletesUnblock(g, ip)

(* g is bound to remove the rule of ip, or to schedule its removal, with   *)
(* nothing that can still turn it away.                                    *)
Removes(g, ip) ==
  /\ go[g].ip = ip
  /\ \/ go[g].pc \in {"action.lookup", "action.delete", "action.spawn",
                      "unblocker.unblock", "manual.delete", "manual.lookup2",
                      "manual.delete2", "manual.unblock"}
     \/ go[g].pc \in {"action.close", "manual.close2"} /\ go[g].chan \notin closed
     \/ At(g, "unblocker.waiting") /\ g \notin closed

(* While the firewall answers and the process lives, every rule has a      *)
(* goroutine that is going to remove it: no race over the channels, no     *)
(* panic of a request and no database error leaves an address blocked      *)
(* with nobody to unblock it.                                              *)
EveryRuleHasRemover ==
  CallMayFail \/ crashed \/
    \A ip \in rules : \E g \in Goroutines : Removes(g, ip)

(* And it is removed: whatever the requests do to each other, no address   *)
(* stays blocked for ever.                                                 *)
EveryRuleIsRemoved ==
  \A ip \in IPs : ip \in rules ~> (ip \notin rules \/ crashed)

(* Where a notification timer waits an action will be recorded for its     *)
(* address, by a person or by the timer, unless somebody is unblocking the *)
(* address by hand, which closes the timer: no race between a pressed      *)
(* button and the timer loses both.                                        *)
TimerIsAnswered ==
  \A t \in Timers, ip \in IPs :
    (At(t, "timer.armed") /\ go[t].ip = ip /\ t \notin closed)
      ~> \/ blocks[ip].actionTaken
         \/ crashed
         \/ \E m \in Unblocks : go[m].ip = ip

(* A button of a message this program sent is understood (server.go, 191). *)
ButtonsUnderstood == \A p \in Presses : ~At(p, "unparsed")

-----------------------------------------------------------------------------
(* Requests and timers that do not overlap (Serial)                        *)

Quiet == \A g \in Goroutines : Idle(g)

(* Between requests the firewall has a rule exactly for the addresses the  *)
(* table shows as blocked.                                                 *)
RuleMatchesRecord ==
  Quiet => \A ip \in IPs : ip \in rules <=> blocks[ip].blockedAt > 0

(* The notification timers of ip that will still act.                      *)
LiveTimers(ip) ==
  {t \in Timers : At(t, "timer.armed") /\ go[t].ip = ip /\ t \notin closed}

(* A cycle activates the scenario once: no second timer is armed while one *)
(* waits.                                                                  *)
ScenarioOncePerCycle ==
  \A ip \in IPs : \A s, t \in LiveTimers(ip) : s = t

(* A rule goes away when the time in the record has come, or by hand.      *)
NotUnblockedEarly ==
  [][\A ip \in rules \ rules' :
       \/ now >= blocks[ip].unblockAfter
       \/ \E m \in Unblocks : At(m, "manual.unblock") /\ go[m].ip = ip]_vars

=============================================================================
