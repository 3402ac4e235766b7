---------------------------- MODULE PolicyProofs ----------------------------
(***************************************************************************)
(* Proof that the scenario manager implements BlockPolicy: FollowsPolicy.  *)
(*                                                                         *)
(* Almost every step leaves rules, reports and requests alone; it may      *)
(* change which unblocks are due, which BlockPolicy allows at any time.    *)
(* What remains are the steps that count an event, take a pressed button,  *)
(* or call the firewall.  A rule is inserted by a goroutine that CountOK   *)
(* says is justified, and removed by one whose unblock is due: WakeOK.     *)
(***************************************************************************)
EXTENDS CountProofs, Refinement

(* An unblock goroutine calls the firewall only after the end of the block *)
(* it was started for.                                                     *)
WakeOK ==
  \A u \in Unblockers :
    At(u, "unblocker.unblock") => now >= go[u].rec.unblockAfter

DueNow == {ip \in IPs : UnblockDue(ip)}

-----------------------------------------------------------------------------
(* WakeOK is an invariant *)

(* No goroutine gets to the firewall call in this step.                    *)
NobodyWakes ==
  \A u \in Unblockers : go'[u] = go[u] \/ go'[u].pc # "unblocker.unblock"

(* Then those that are there stay as they were, and time does not go back. *)
LEMMA NobodyWakesKeeps ==
  ASSUME WakeOK, NobodyWakes, now' = now PROVE WakeOK'
BY DEF WakeOK, NobodyWakes, At

(* A step of a goroutine of another kind wakes nobody.                     *)
LEMMA OtherKindWakes ==
  ASSUME StateOK, NEW g \in Goroutines \ Unblockers, NEW f, go' = [go EXCEPT ![g] = f]
  PROVE  NobodyWakes
BY DEF NobodyWakes, StateOK, GoOK

(* A process that stops wakes nobody.                                      *)
LEMMA StopsWakes ==
  ASSUME StateOK, Stops PROVE NobodyWakes
<1>1. \A u \in Unblockers : u \in Goroutines
  BY DEF Goroutines
<1>. QED BY <1>1 DEF Stops, NobodyWakes, Frame

(* Nor does a goroutine that panics.                                       *)
LEMMA PanicsWakes ==
  ASSUME StateOK, NEW g \in Goroutines, Panics(g) PROVE NobodyWakes
<1>1. CASE g \in Requests /\ End(g, "failed")
  <2>1. \A u \in Unblockers : u \in Goroutines
    BY DEF Goroutines
  <2>. QED BY <1>1, <2>1 DEF End, Frame, NobodyWakes, StateOK, GoOK
<1>. QED BY <1>1, StopsWakes DEF Panics

(* handleEvent and the timer it starts.                                    *)
LEMMA EventWakes ==
  ASSUME StateOK, NEW e \in Events, EventArrives(e) \/ EventSteps(e)
  PROVE  NobodyWakes /\ now' = now
<1>0. /\ e \notin Unblockers /\ e \in Goroutines /\ go \in [Goroutines -> Frames]
      /\ Unblockers \subseteq Goroutines
  BY KindsDiffer DEF StateOK, GoOK, Goroutines, Requests
<1>1. CASE EventArrives(e)
  BY <1>0, <1>1 DEF EventArrives, End, outside, NobodyWakes
<1>2. CASE EventSelects(e)
  BY <1>0, <1>2 DEF EventSelects, EventCounts, Goto, End, NobodyWakes
<1>3. CASE EventInserts(e)
  BY <1>0, <1>3 DEF EventInserts, EventCounts, Goto, End, NobodyWakes
<1>4. CASE EventNotifies(e)
  BY <1>0, <1>4 DEF EventNotifies, Goto, NobodyWakes
<1>5. CASE EventArms(e)
  <2>1. PICK t \in Timers :
          go' = [go EXCEPT
                   ![e].pc = "event.save",
                   ![t] = [Frame("timer.armed") EXCEPT
                             !.ip = go[e].ip, !.due = now + Timeout * Minute]]
    BY <1>5 DEF EventArms
  <2>2. t \notin Unblockers
    BY KindsDiffer
  <2>. QED BY <1>0, <1>5, <2>1, <2>2 DEF EventArms, outside, NobodyWakes
<1>6. CASE EventSaves(e)
  BY <1>0, <1>6 DEF EventSaves, End, NobodyWakes
<1>. QED BY <1>1, <1>2, <1>3, <1>4, <1>5, <1>6 DEF EventSteps

(* ExecuteAction: the goroutine it starts waits.                           *)
LEMMA ActionWakes ==
  ASSUME StateOK, NEW g \in Callers, ActionSteps(g)
  PROVE  NobodyWakes /\ now' = now
<1>0. /\ g \notin Unblockers /\ g \in Goroutines /\ go \in [Goroutines -> Frames]
      /\ Unblockers \subseteq Goroutines
  BY KindsDiffer DEF StateOK, GoOK, Goroutines, Requests, Callers
<1>r. Returns(g) => NobodyWakes
  BY <1>0 DEF Returns, End, NobodyWakes
<1>s. ASSUME NEW row, ActionStarts(g, row) PROVE NobodyWakes
  BY <1>0, <1>r, <1>s DEF ActionStarts, NobodyWakes
<1>p. Panics(g) => NobodyWakes
  BY <1>0, PanicsWakes
<1>1. CASE ActionSelects(g)
  BY <1>0, <1>1, <1>s, <1>p DEF ActionSelects, Goto, outside, NobodyWakes
<1>2. CASE ActionInserts(g)
  BY <1>0, <1>2, <1>s, <1>p DEF ActionInserts
<1>3. CASE ActionExecutes(g)
  <2>1. Executed(g) => NobodyWakes
    BY <1>0 DEF Executed, NobodyWakes
  <2>. QED BY <1>3, <1>r, <2>1 DEF ActionExecutes
<1>4. CASE ActionLooksUp(g)
  BY <1>0, <1>4 DEF ActionLooksUp, outside, NobodyWakes
<1>5. CASE ActionCloses(g)
  BY <1>0, <1>5, <1>p DEF ActionCloses, Closes, Goto, outside, NobodyWakes
<1>6. CASE ActionDeletes(g)
  BY <1>0, <1>6 DEF ActionDeletes, Goto, outside, NobodyWakes
<1>7. CASE ActionSpawns(g)
  <2>1. PICK u \in Unblockers :
          go' = [go EXCEPT
                   ![g].pc = "action.save",
                   ![u] = [Frame("unblocker.waiting") EXCEPT
                             !.ip = go[g].ip, !.rec = go[g].arec]]
    BY <1>7 DEF ActionSpawns
  <2>2. go'[u].pc = "unblocker.waiting"
    BY <1>0, <2>1 DEF Frame
  <2>3. \A v \in Unblockers : v # u => go'[v] = go[v]
    BY <1>0, <2>1
  <2>. QED BY <1>7, <2>2, <2>3 DEF ActionSpawns, outside, NobodyWakes
<1>8. CASE ActionSaves(g)
  BY <1>8, <1>r DEF ActionSaves
<1>. QED BY <1>1, <1>2, <1>3, <1>4, <1>5, <1>6, <1>7, <1>8 DEF ActionSteps

(* The notification timer.                                                 *)
LEMMA TimerWakes ==
  ASSUME StateOK, NEW t \in Timers, TimerSteps(t)
  PROVE  NobodyWakes /\ now' = now
<1>0. /\ t \notin Unblockers /\ t \in Goroutines /\ go \in [Goroutines -> Frames]
      /\ Unblockers \subseteq Goroutines
  BY KindsDiffer DEF StateOK, GoOK, Goroutines, Requests
<1>1. CASE TimerFires(t)
  BY <1>0, <1>1 DEF TimerFires, Goto, End, outside, NobodyWakes
<1>2. CASE TimerSelects(t)
  BY <1>0, <1>2, PanicsWakes DEF TimerSelects, Goto, outside, NobodyWakes
<1>3. CASE TimerUpdates(t)
  BY <1>0, <1>3 DEF TimerUpdates, Goto, outside, NobodyWakes
<1>4. CASE TimerDeletes(t)
  BY <1>0, <1>4 DEF TimerDeletes, End, outside, NobodyWakes
<1>. QED BY <1>1, <1>2, <1>3, <1>4 DEF TimerSteps

(* handleSlackCallback.                                                    *)
LEMMA PressWakes ==
  ASSUME StateOK, NEW p \in Presses, PressArrives(p)
  PROVE  NobodyWakes /\ now' = now
<1>0. /\ p \notin Unblockers /\ p \in Goroutines /\ go \in [Goroutines -> Frames]
      /\ Unblockers \subseteq Goroutines
  BY KindsDiffer DEF StateOK, GoOK, Goroutines, Requests
<1>. QED BY <1>0 DEF PressArrives, End, NobodyWakes

(* ManualUnblock.                                                          *)
LEMMA ManualWakes ==
  ASSUME StateOK, NEW m \in Unblocks, ManualArrives(m) \/ ManualSteps(m)
  PROVE  NobodyWakes /\ now' = now
<1>0. /\ m \notin Unblockers /\ m \in Goroutines /\ go \in [Goroutines -> Frames]
      /\ Unblockers \subseteq Goroutines
  BY KindsDiffer DEF StateOK, GoOK, Goroutines, Requests
<1>p. Panics(m) => NobodyWakes
  BY <1>0, PanicsWakes
<1>1. CASE ManualArrives(m)
  BY <1>0, <1>1 DEF ManualArrives, End, outside, NobodyWakes
<1>2. CASE ManualSelects(m) \/ ManualInserts(m)
  BY <1>0, <1>2 DEF ManualSelects, ManualInserts, ManualStarts, Goto, End, outside, NobodyWakes
<1>3. CASE ManualLooksUpTimer(m) \/ ManualLooksUpUnblock(m)
  BY <1>0, <1>3 DEF ManualLooksUpTimer, ManualLooksUpUnblock, LooksUp, outside, NobodyWakes
<1>4. CASE ManualClosesTimer(m) \/ ManualClosesUnblock(m)
  BY <1>0, <1>4, <1>p
     DEF ManualClosesTimer, ManualClosesUnblock, Closes, Goto, outside, NobodyWakes
<1>5. CASE ManualDeletesTimer(m) \/ ManualDeletesUnblock(m)
  BY <1>0, <1>5 DEF ManualDeletesTimer, ManualDeletesUnblock, Goto, outside, NobodyWakes
<1>6. CASE ManualUnblocks(m) \/ ManualSaves(m)
  BY <1>0, <1>6 DEF ManualUnblocks, ManualSaves, End, NobodyWakes
<1>. QED BY <1>1, <1>2, <1>3, <1>4, <1>5, <1>6 DEF ManualSteps

(* scheduleUnblock: it wakes up when the block is over.                    *)
LEMMA UnblockerWakeOK ==
  ASSUME StateOK, WakeOK, NEW u \in Unblockers, UnblockerSteps(u)
  PROVE  WakeOK'
<1>0. /\ u \in Goroutines /\ go \in [Goroutines -> Frames]
      /\ Unblockers \subseteq Goroutines
  BY DEF StateOK, GoOK, Goroutines
<1>1. CASE UnblockerWakes(u)
  <2>1. \A v \in Unblockers : v # u => go'[v] = go[v]
    BY <1>0, <1>1 DEF UnblockerWakes, Goto
  <2>2. go'[u].pc = "unblocker.unblock" => now >= go[u].rec.unblockAfter
    BY <1>0, <1>1 DEF UnblockerWakes, Goto, Frames
  <2>3. go'[u].rec = go[u].rec
    BY <1>0, <1>1 DEF UnblockerWakes, Goto, Frames
  <2>4. now' = now
    BY <1>1 DEF UnblockerWakes, outside
  <2>. QED BY <2>1, <2>2, <2>3, <2>4 DEF WakeOK, At
<1>2. CASE UnblockerUnblocks(u)
  BY <1>0, <1>2, NobodyWakesKeeps DEF UnblockerUnblocks, NobodyWakes, Frames
<1>3. CASE UnblockerSaves(u)
  BY <1>0, <1>3, NobodyWakesKeeps DEF UnblockerSaves, Goto, NobodyWakes, Frames
<1>4. CASE UnblockerDeletes(u)
  BY <1>0, <1>4, NobodyWakesKeeps DEF UnblockerDeletes, End, Frame, outside, NobodyWakes
<1>. QED BY <1>1, <1>2, <1>3, <1>4 DEF UnblockerSteps

(* Every step keeps it.                                                    *)
LEMMA NextWakes == StateOK /\ WakeOK /\ [Next]_vars => WakeOK'
<1>. SUFFICES ASSUME StateOK, WakeOK, [Next]_vars PROVE WakeOK'
  OBVIOUS
<1>1. CASE Tick
  <2>1. \A u \in Unblockers : go[u].rec.unblockAfter \in Nat
    BY DEF StateOK, GoOK, FrameOK, RowOK, Records, Goroutines
  <2>2. now \in Nat /\ now' = now + 1 /\ go' = go
    BY <1>1 DEF Tick, memory, StateOK, OutsideOK
  <2>. QED BY <2>1, <2>2 DEF WakeOK, At
<1>2. CASE Restart \/ MapRace
  BY <1>2, StopsWakes, NobodyWakesKeeps DEF Restart, MapRace, outside
<1>3. ASSUME NEW e \in Events, EventArrives(e) \/ EventSteps(e) PROVE WakeOK'
  BY <1>3, EventWakes, NobodyWakesKeeps
<1>4. ASSUME NEW p \in Presses, PressArrives(p) PROVE WakeOK'
  BY <1>4, PressWakes, NobodyWakesKeeps
<1>5. ASSUME NEW m \in Unblocks, ManualArrives(m) \/ ManualSteps(m) PROVE WakeOK'
  BY <1>5, ManualWakes, NobodyWakesKeeps
<1>6. ASSUME NEW t \in Timers, TimerSteps(t) PROVE WakeOK'
  BY <1>6, TimerWakes, NobodyWakesKeeps
<1>7. ASSUME NEW u \in Unblockers, UnblockerSteps(u) PROVE WakeOK'
  BY <1>7, UnblockerWakeOK
<1>8. ASSUME NEW g \in Events \cup Presses \cup Timers, ActionSteps(g) PROVE WakeOK'
  BY <1>8, ActionWakes, NobodyWakesKeeps DEF Callers
<1>9. CASE UNCHANGED vars
  BY <1>9 DEF vars, memory, outside, WakeOK, At
<1>. QED BY <1>1, <1>2, <1>3, <1>4, <1>5, <1>6, <1>7, <1>8, <1>9 DEF Next

-----------------------------------------------------------------------------
(* The refinement *)

(* A step that changes no rule, counts no event and takes no button is one *)
(* of the surroundings of BlockPolicy.                                     *)
LEMMA Quietly ==
  ASSUME rules' = rules, handled' = handled, asked' = asked
  PROVE  Policy!Next
BY DEF Policy!Next, Policy!Due

(* What is due does not change where the goroutines that unblock do not.   *)
LEMMA DueKept ==
  ASSUME now' = now, \A g \in Unblockers \cup Unblocks : go'[g] = go[g]
  PROVE  DueNow' = DueNow
BY DEF DueNow, UnblockDue

(* An event is counted: a report.                                          *)
LEMMA ReportsEvent ==
  ASSUME StateOK, NEW e \in Events, EventSelects(e) \/ EventInserts(e)
  PROVE  Policy!Next
<1>0. e \in Goroutines /\ go[e].ip \in IPs /\ go \in [Goroutines -> Frames]
  BY Running DEF Goroutines, Requests, StateOK, GoOK, EventSelects, EventInserts, At, Ended
<1>1. rules' = rules /\ asked' = asked /\ now' = now
  BY DEF EventSelects, EventInserts
<1>2. handled' = handled \/ handled' = [handled EXCEPT ![go[e].ip] = @ + 1]
  BY DEF EventSelects, EventInserts, EventCounts
<1>3. \A g \in Goroutines : g # e => go'[g] = go[g]
  BY <1>0 DEF EventSelects, EventInserts, EventCounts, Goto, End
<1>4. DueNow' = DueNow
  BY <1>1, <1>3, DueKept, KindsDiffer DEF Goroutines, Requests
<1>5. CASE handled' = handled
  BY <1>1, <1>5, Quietly
<1>6. CASE handled' = [handled EXCEPT ![go[e].ip] = @ + 1]
  BY <1>0, <1>1, <1>4, <1>6 DEF Policy!Next, Policy!Report, DueNow
<1>. QED BY <1>2, <1>5, <1>6

(* A pressed button is understood: somebody asks.                          *)
LEMMA AsksPress ==
  ASSUME StateOK, NEW p \in Presses, PressArrives(p)
  PROVE  Policy!Next
<1>0. p \in Goroutines /\ go \in [Goroutines -> Frames]
  BY DEF Goroutines, Requests, StateOK, GoOK
<1>1. rules' = rules /\ handled' = handled /\ now' = now
  BY DEF PressArrives
<1>2. \A g \in Goroutines : g # p => go'[g] = go[g]
  BY <1>0 DEF PressArrives, End
<1>3. DueNow' = DueNow
  BY <1>1, <1>2, DueKept, KindsDiffer DEF Goroutines, Requests
<1>4. CASE asked' = asked
  BY <1>1, <1>4, Quietly
<1>5. ASSUME NEW ip \in IPs, asked' = asked \cup {ip} PROVE Policy!Next
  BY <1>1, <1>3, <1>5 DEF Policy!Next, Policy!Ask, DueNow
<1>. QED BY <1>4, <1>5 DEF PressArrives

(* An action inserts a rule: its goroutine is justified.                   *)
LEMMA BlocksJustified ==
  ASSUME StateOK, CountOK, NEW g \in Callers, ActionExecutes(g)
  PROVE  Policy!Next
<1>0. g \in Goroutines /\ go[g].ip \in IPs /\ go \in [Goroutines -> Frames]
  BY Running DEF Goroutines, Requests, Callers, StateOK, GoOK, ActionExecutes, At, Ended
<1>1. handled' = handled /\ asked' = asked /\ now' = now
  BY DEF ActionExecutes
<1>2. rules' = rules \/ rules' = rules \cup {go[g].ip}
  BY DEF ActionExecutes, RuleInserted, InsertRefused
<1>3. \A h \in Goroutines : h # g => go'[h] = go[h]
  BY <1>0 DEF ActionExecutes, Executed, Returns, End
<1>4. DueNow' = DueNow
  BY <1>1, <1>3, DueKept, KindsDiffer DEF Goroutines, Requests, Callers
<1>5. go[g].ip \in asked \/ handled[go[g].ip] >= Threshold
  BY <1>0 DEF CountOK, GoCounted, Counted, Justified, ActionExecutes, At, Acting
<1>6. CASE rules' = rules
  BY <1>1, <1>6, Quietly
<1>7. CASE rules' = rules \cup {go[g].ip}
  BY <1>0, <1>1, <1>4, <1>5, <1>7 DEF Policy!Next, Policy!Block, DueNow
<1>. QED BY <1>2, <1>6, <1>7

(* A rule is removed by a goroutine whose unblock is due, or by hand.      *)
LEMMA UnblocksDue ==
  ASSUME StateOK, WakeOK, NEW g \in Unblockers \cup Unblocks,
         \/ g \in Unblockers /\ UnblockerUnblocks(g)
         \/ g \in Unblocks /\ ManualUnblocks(g)
  PROVE  Policy!Next
<1>0. g \in Goroutines /\ go[g].ip \in IPs /\ go \in [Goroutines -> Frames]
  BY Running DEF Goroutines, Requests, StateOK, GoOK, UnblockerUnblocks, ManualUnblocks, At, Ended
<1>1. handled' = handled /\ asked' = asked /\ now' = now
  BY DEF UnblockerUnblocks, ManualUnblocks
<1>2. rules' = rules \/ rules' = rules \ {go[g].ip}
  BY DEF UnblockerUnblocks, ManualUnblocks, RuleDeleted, DeleteRefused
<1>3. UnblockDue(go[g].ip)
  BY DEF WakeOK, UnblockDue, UnblockerUnblocks, ManualUnblocks, At
<1>4. \A h \in Goroutines : h # g => go'[h] = go[h]
  BY <1>0 DEF UnblockerUnblocks, ManualUnblocks, End
<1>5. g \in Unblockers => go'[g].pc = "unblocker.save"
  BY <1>0, KindsDiffer DEF UnblockerUnblocks, Frames
<1>6. g \in Unblocks => go'[g].ip \in {go[g].ip, None}
  BY <1>0, KindsDiffer DEF ManualUnblocks, End, Frame, Frames
<1>7. DueNow' \subseteq DueNow
  <2>. SUFFICES ASSUME NEW ip \in IPs, UnblockDue(ip)' PROVE UnblockDue(ip)
    BY DEF DueNow
  <2>1. None \notin IPs
    BY ManagerAssumption
  <2>2. CASE \E u \in Unblockers :
               /\ go'[u].ip = ip
               /\ go'[u].pc \in {"unblocker.waiting", "unblocker.unblock"}
               /\ now' >= go'[u].rec.unblockAfter
    BY <1>1, <1>4, <1>5, <2>2 DEF UnblockDue, Goroutines
  <2>3. CASE \E m \in Unblocks : go'[m].ip = ip
    BY <1>4, <1>6, <2>1, <2>3 DEF UnblockDue, Goroutines, Requests
  <2>. QED BY <2>2, <2>3 DEF UnblockDue
<1>8. CASE rules' = rules
  BY <1>1, <1>8, Quietly
<1>9. CASE rules' = rules \ {go[g].ip}
  BY <1>0, <1>1, <1>3, <1>7, <1>9 DEF Policy!Next, Policy!Unblock, DueNow
<1>. QED BY <1>2, <1>8, <1>9

(* The first state maps to a first state.                                  *)
LEMMA InitPolicy == Init => Policy!Init /\ WakeOK
<1>. SUFFICES ASSUME Init PROVE Policy!Init /\ WakeOK
  OBVIOUS
<1>1. \A g \in Goroutines : go[g].pc = "new" /\ go[g].ip = None
  BY DEF Init, Frame
<1>2. \A u \in Unblockers : u \in Goroutines
  BY DEF Goroutines
<1>3. \A m \in Unblocks : m \in Goroutines
  BY DEF Goroutines, Requests
<1>4. DueNow = {}
  BY <1>1, <1>2, <1>3, ManagerAssumption DEF DueNow, UnblockDue
<1>5. Policy!Init
  BY <1>4 DEF Init, FirewallInit, Policy!Init, DueNow
<1>. QED BY <1>1, <1>2, <1>5 DEF WakeOK, At

(* Every step maps to a step of BlockPolicy, or to none.                   *)
LEMMA NextPolicy ==
  StateOK /\ CountOK /\ WakeOK /\ [Next]_vars => [Policy!Next]_(Policy!vars)
<1>. SUFFICES ASSUME StateOK, CountOK, WakeOK, [Next]_vars
              PROVE  [Policy!Next]_(Policy!vars)
  OBVIOUS
<1>1. CASE Tick
  BY <1>1, Quietly DEF Tick
<1>2. CASE Restart \/ MapRace
  BY <1>2, Quietly DEF Restart, MapRace, outside
<1>3. ASSUME NEW e \in Events, EventArrives(e) \/ EventSteps(e) PROVE Policy!Next
  BY <1>3, ReportsEvent, Quietly
     DEF EventSteps, EventArrives, EventNotifies, EventArms, EventSaves, outside
<1>4. ASSUME NEW p \in Presses, PressArrives(p) PROVE Policy!Next
  BY <1>4, AsksPress
<1>5. ASSUME NEW m \in Unblocks, ManualArrives(m) \/ ManualSteps(m) PROVE Policy!Next
  BY <1>5, UnblocksDue, Quietly
     DEF ManualSteps, ManualArrives, ManualSelects, ManualInserts, ManualLooksUpTimer,
         ManualClosesTimer, ManualDeletesTimer, ManualLooksUpUnblock,
         ManualClosesUnblock, ManualDeletesUnblock, ManualSaves, outside
<1>6. ASSUME NEW t \in Timers, TimerSteps(t) PROVE Policy!Next
  BY <1>6, Quietly
     DEF TimerSteps, TimerFires, TimerSelects, TimerUpdates, TimerDeletes, outside
<1>7. ASSUME NEW u \in Unblockers, UnblockerSteps(u) PROVE Policy!Next
  <2>1. UnblockerUnblocks(u) => Policy!Next
    BY UnblocksDue
  <2>. QED BY <1>7, <2>1, Quietly
           DEF UnblockerSteps, UnblockerWakes, UnblockerSaves, UnblockerDeletes, outside
<1>8. ASSUME NEW g \in Events \cup Presses \cup Timers, ActionSteps(g) PROVE Policy!Next
  BY <1>8, BlocksJustified, Quietly
     DEF Callers, ActionSteps, ActionSelects, ActionInserts, ActionLooksUp, ActionCloses,
         ActionDeletes, ActionSpawns, ActionSaves, outside
<1>9. CASE UNCHANGED vars
  BY <1>9, Quietly DEF vars, outside
<1>. QED BY <1>1, <1>2, <1>3, <1>4, <1>5, <1>6, <1>7, <1>8, <1>9 DEF Next

(* The scenario manager implements BlockPolicy, for any number of          *)
(* goroutines and addresses, any parameters and any failures: the firewall *)
(* is changed only for reasons the policy knows.                           *)
THEOREM ImplementsPolicy == Spec => FollowsPolicy
<1>1. Spec => []CountOK
  BY InitCounted, NextCounted, StateInvariant, PTL DEF Spec
<1>2. Spec => []WakeOK
  BY InitPolicy, NextWakes, StateInvariant, PTL DEF Spec
<1>. QED BY <1>1, <1>2, InitPolicy, NextPolicy, StateInvariant, PTL
         DEF Spec, FollowsPolicy, Policy!Spec

=============================================================================
