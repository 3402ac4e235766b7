---------------------------- MODULE RemoverProofs ---------------------------
(***************************************************************************)
(* Proof of EveryRuleHasRemover and of OnlyFailuresLeaveRules: while the   *)
(* process lives, every rule has a goroutine that is going to remove it,   *)
(* or one call of the firewall failed, and for this very rule.             *)
(*                                                                         *)
(* The goroutine that inserts a rule is its first remover; from there the  *)
(* task is handed on.  Two steps hand it to another goroutine: the start   *)
(* of the scheduled unblock, and the close of the channel it waits on, or  *)
(* that its remover was about to close.  Whoever closes works on the same  *)
(* address (Bound), and whoever finds the channel closed has lost to a     *)
(* goroutine that still has to delete it (ClosedChannelsLeaveMaps).        *)
(*                                                                         *)
(* All of it is about one address at a time: what a step does to others    *)
(* takes no remover away from it.                                          *)
(***************************************************************************)
EXTENDS ChannelProofs, Refusals

LookedAfter(ip) == ip \in rules => \E g \in Goroutines : Removes(g, ip)

(* The labels at which a goroutine can be a remover.                       *)
Able == {"action.lookup", "action.close", "action.delete", "action.spawn",
         "unblocker.waiting", "unblocker.unblock", "manual.delete", "manual.lookup2",
         "manual.close2", "manual.delete2", "manual.unblock"}

-----------------------------------------------------------------------------
(* The kinds of steps *)

(* A remover is at one of these labels.                                    *)
LEMMA RemoversAble ==
  ASSUME NEW g, NEW ip, Removes(g, ip) PROVE go[g].pc \in Able /\ go[g].ip = ip
BY DEF Removes, Able, At

(* A step of g that closes nothing: the others go on being removers.  g    *)
(* may start a new goroutine, may insert a rule of which it is a remover,  *)
(* and must leave a remover of the rule if it was one.                     *)
LEMMA HandedOn ==
  ASSUME NEW ip, LookedAfter(ip), NEW g \in Goroutines, closed' = closed,
         \A h \in Goroutines : h # g => go'[h] = go[h] \/ go[h].pc = "new",
         ip \in rules' => ip \in rules \/ Removes(g, ip)',
         ip \in rules' /\ Removes(g, ip) => \E h \in Goroutines : Removes(h, ip)'
  PROVE  LookedAfter(ip)'
<1>. SUFFICES ASSUME ip \in rules' PROVE \E h \in Goroutines : Removes(h, ip)'
  BY DEF LookedAfter
<1>1. CASE ip \notin rules
  BY <1>1
<1>2. CASE ip \in rules
  <2>1. PICK h \in Goroutines : Removes(h, ip)
    BY <1>2 DEF LookedAfter
  <2>2. CASE h = g
    BY <2>1, <2>2
  <2>3. CASE h # g
    <3>1. go'[h] = go[h]
      BY <2>1, <2>3, RemoversAble DEF Able
    <3>. QED BY <2>1, <3>1 DEF Removes, At
  <2>. QED BY <2>2, <2>3
<1>. QED BY <1>1, <1>2

(* A step of a goroutine that is no remover, and inserts no rule.          *)
LEMMA Bystander ==
  ASSUME NEW ip, LookedAfter(ip), NEW g \in Goroutines, closed' = closed,
         ip \in rules' => ip \in rules,
         \A h \in Goroutines : h # g => go'[h] = go[h] \/ go[h].pc = "new",
         go[g].pc \notin Able \/ go[g].ip # ip
  PROVE  LookedAfter(ip)'
BY RemoversAble, HandedOn

(* A panic of a goroutine that is no remover.                              *)
LEMMA PanicRemovers ==
  ASSUME StateOK, NEW ip, LookedAfter(ip), NEW g \in Goroutines, Panics(g), rules' = rules,
         ~Removes(g, ip)
  PROVE  LookedAfter(ip)' \/ crashed'
<1>1. CASE g \in Requests /\ End(g, "failed") /\ UNCHANGED <<maps, crashed>>
  <2>1. \A h \in Goroutines : h # g => go'[h] = go[h]
    BY <1>1 DEF End, StateOK, GoOK
  <2>. QED BY <1>1, <2>1, HandedOn DEF maps
<1>2. CASE Stops
  BY <1>2 DEF Stops
<1>. QED BY <1>1, <1>2 DEF Panics

(* A close: the goroutine has yet to delete the entry, and is a remover of *)
(* the address the channel was made for.                                   *)
LEMMA CloseRemovers ==
  ASSUME StateOK, ChannelsOK, NEW ip, LookedAfter(ip), NEW g \in Goroutines,
         go[g].pc \in Closing, NEW l \in Deleting, Goto(g, l),
         closed' = closed \cup {go[g].chan}, rules' = rules
  PROVE  LookedAfter(ip)'
<1>0. /\ \A h \in Goroutines : h # g => go'[h] = go[h]
      /\ go'[g].pc = l /\ go'[g].ip = go[g].ip
  BY DEF StateOK, GoOK, Goto, Frames
<1>1. go[g].ip = ip => Removes(g, ip)'
  BY <1>0 DEF Removes, Deleting
<1>2. PICK home \in [Channels -> IPs \cup {None}] : BoundTo(home)
  BY DEF ChannelsOK, Bound
<1>3. home[go[g].chan] = go[g].ip
  BY <1>2 DEF BoundTo
<1>. SUFFICES ASSUME ip \in rules PROVE \E h \in Goroutines : Removes(h, ip)'
  BY DEF LookedAfter
<1>4. PICK h \in Goroutines : Removes(h, ip)
  BY DEF LookedAfter
<1>5. CASE go[g].ip = ip
  BY <1>1, <1>5
<1>6. CASE go[g].ip # ip
  <2>1. h # g /\ go'[h] = go[h] /\ go[h].ip = ip
    BY <1>0, <1>4, <1>6, RemoversAble
  <2>2. ip \in IPs
    BY DEF StateOK, OutsideOK, FirewallTypeOK
  <2>3. go[h].pc \in Closing => go[h].chan # go[g].chan
    BY <1>2, <1>3, <1>6, <2>1 DEF BoundTo
  <2>4. At(h, "unblocker.waiting") => h # go[g].chan
    BY <1>2, <1>3, <1>6, <2>1, <2>2, HeldChannel DEF BoundTo
  <2>5. Removes(h, ip)'
    BY <1>4, <2>1, <2>3, <2>4 DEF Removes, At, Closing
  <2>. QED BY <2>5
<1>. QED BY <1>5, <1>6

(* close(ch), of a channel that may be closed already.                     *)
LEMMA ClosesRemovers ==
  ASSUME StateOK, ChannelsOK, NEW ip, LookedAfter(ip), NEW g \in Goroutines,
         go[g].pc \in Closing, NEW l \in Deleting, Closes(g, l), rules' = rules
  PROVE  LookedAfter(ip)' \/ crashed'
<1>1. CASE go[g].chan \notin closed
  BY <1>1, CloseRemovers DEF Closes
<1>2. CASE go[g].chan \in closed
  <2>1. ~Removes(g, ip)
    BY <1>2 DEF Removes, Closing, At
  <2>. QED BY <1>2, <2>1, PanicRemovers DEF Closes
<1>. QED BY <1>1, <1>2

(* A goroutine that looks up the channel of its address: it can close it,  *)
(* or the one that has closed it is a remover.                             *)
LEMMA FindsRemover ==
  ASSUME StateOK, ChannelsOK, NEW g \in Goroutines, NEW map,
         NEW ip \in IPs, ip = go[g].ip,
         \/ map = cancel /\ go'[g].pc = "action.close"
         \/ map = unblockCancel /\ go'[g].pc = "manual.close2",
         go[g].pc \notin Deleting, map[go[g].ip] # None, closed' = closed,
         \A h \in Goroutines : h # g => go'[h] = go[h],
         go'[g].ip = go[g].ip, go'[g].chan = map[go[g].ip]
  PROVE  \E h \in Goroutines : Removes(h, ip)'
<1>1. CASE map[go[g].ip] \notin closed
  BY <1>1 DEF Removes
<1>2. CASE map[go[g].ip] \in closed
  <2>1. PICK h \in Goroutines : go[h].pc \in Deleting /\ go[h].ip = go[g].ip
    BY <1>2 DEF ChannelsOK, ClosedChannelsLeaveMaps, DeletesTimer, DeletesUnblock, Deleting, At
  <2>2. go'[h] = go[h]
    BY <2>1
  <2>. QED BY <2>1, <2>2 DEF Removes, Deleting
<1>. QED BY <1>1, <1>2

-----------------------------------------------------------------------------
(* The actions *)

(* handleEvent and the timer it starts.                                    *)
LEMMA EventRemovers ==
  ASSUME StateOK, NEW ip, LookedAfter(ip), NEW e \in Events,
         EventArrives(e) \/ EventSteps(e)
  PROVE  LookedAfter(ip)'
<1>0. e \in Goroutines /\ go \in [Goroutines -> Frames]
  BY DEF StateOK, GoOK, Goroutines, Requests
<1>1. closed' = closed /\ rules' = rules
  BY DEF EventSteps, EventArrives, EventSelects, EventInserts, EventNotifies, EventArms,
         EventSaves, maps, outside
<1>2. go[e].pc \in {"new", "event.select", "event.insert", "event.notify", "event.arm",
                    "event.save"}
  BY DEF EventSteps, EventArrives, Arrives, Fresh, EventSelects, EventInserts, EventNotifies,
         EventArms, EventSaves, At
<1>3. \A h \in Goroutines : h # e => go'[h] = go[h] \/ go[h].pc = "new"
  <2>1. CASE EventArms(e)
    BY <1>0, <2>1 DEF EventArms, Fresh, At
  <2>2. CASE EventSelects(e) \/ EventInserts(e)
    BY <1>0, <2>2 DEF EventSelects, EventInserts, EventCounts, Goto, End
  <2>3. CASE EventArrives(e) \/ EventNotifies(e) \/ EventSaves(e)
    BY <1>0, <2>3 DEF EventArrives, EventNotifies, EventSaves, Goto, End
  <2>. QED BY <2>1, <2>2, <2>3 DEF EventSteps
<1>. QED BY <1>0, <1>1, <1>2, <1>3, Bystander DEF Able

(* The call of the firewall that inserts the rule.  "all" goes on whatever *)
(* it returns, and is a remover; "gcp_firewall" takes a lost answer for no *)
(* rule.                                                                   *)
LEMMA ExecuteRemovers ==
  ASSUME StateOK, NEW ip, LookedAfter(ip), NEW g \in Callers, ActionExecutes(g)
  PROVE  LookedAfter(ip)' \/ (CallMayFail /\ CallLeaves(g, ip))
<1>0. g \in Goroutines /\ go \in [Goroutines -> Frames]
  BY DEF StateOK, GoOK, Goroutines, Requests, Callers
<1>1. go[g].pc = "action.execute" /\ closed' = closed
  BY DEF ActionExecutes, At, maps
<1>2. Executed(g) => \A h \in Goroutines : h # g => go'[h] = go[h]
  BY <1>0 DEF Executed
<1>3. Returns(g) => /\ \A h \in Goroutines : h # g => go'[h] = go[h]
                    /\ go'[g].pc \notin {"action.execute", "action.lookup"}
  BY <1>0 DEF Returns, End, Frames, Frame
<1>4. \A h \in Goroutines : h # g => go'[h] = go[h]
  BY <1>2, <1>3 DEF ActionExecutes
<1>5. CASE ip \in rules' => ip \in rules
  BY <1>0, <1>1, <1>4, <1>5, Bystander DEF Able
<1>6. CASE ip \in rules' /\ ip \notin rules
  <2>1. ip = go[g].ip /\ go[g].action \in Blocking
    BY <1>6 DEF ActionExecutes, RuleInserted, InsertRefused, Blocking
  <2>2. CASE Executed(g)
    <3>1. go'[g].pc = "action.lookup" /\ go'[g].ip = go[g].ip
      BY <1>0, <2>1, <2>2 DEF Executed, Frames
    <3>2. Removes(g, ip)'
      BY <2>1, <3>1 DEF Removes
    <3>. QED BY <1>0, <3>2 DEF LookedAfter
  <2>3. CASE InsertRefused(go[g].ip) /\ Returns(g)
    <3>1. CallMayFail
      BY <1>6, <2>3 DEF InsertRefused
    <3>2. go'[g] # go[g]
      BY <1>1, <1>3, <2>3
    <3>3. CallLeaves(g, ip)
      BY <1>1, <1>3, <1>6, <2>1, <2>3, <3>2 DEF CallLeaves, At
    <3>. QED BY <3>1, <3>3
  <2>. QED BY <1>6, <2>2, <2>3 DEF ActionExecutes
<1>. QED BY <1>5, <1>6

(* The rest of ExecuteAction.                                              *)
LEMMA ActionRemovers ==
  ASSUME StateOK, ChannelsOK, NEW ip, LookedAfter(ip), NEW g \in Callers, ActionSteps(g)
  PROVE  LookedAfter(ip)' \/ crashed' \/ (CallMayFail /\ CallLeaves(g, ip))
<1>0. g \in Goroutines /\ g \notin Unblockers /\ go \in [Goroutines -> Frames]
  BY KindsDiffer DEF StateOK, GoOK, Goroutines, Requests, Callers
<1>. DEFINE Alone1 == \A h \in Goroutines : h # g => go'[h] = go[h]
<1>r. Returns(g) => Alone1
  BY <1>0 DEF Returns, End
<1>s. ASSUME NEW row, ActionStarts(g, row) PROVE Alone1
  BY <1>0, <1>r, <1>s DEF ActionStarts
<1>1. CASE ActionSelects(g) \/ ActionInserts(g)
  <2>1. go[g].pc \in {"action.select", "action.insert"} /\ rules' = rules
    BY <1>1 DEF ActionSelects, ActionInserts, At, outside
  <2>2. go[g].pc \notin Able
    BY <2>1 DEF Able
  <2>3. CASE Panics(g)
    BY <1>0, <2>1, <2>2, <2>3, RemoversAble, PanicRemovers
  <2>4. CASE UNCHANGED maps /\ Alone1
    BY <1>0, <2>1, <2>2, <2>4, Bystander DEF maps
  <2>5. Goto(g, "action.insert") => Alone1
    BY <1>0 DEF Goto
  <2>. QED BY <1>1, <1>s, <2>3, <2>4, <2>5 DEF ActionSelects, ActionInserts
<1>2. CASE ActionExecutes(g)
  BY <1>2, ExecuteRemovers
<1>3. CASE ActionLooksUp(g)
  <2>1. go[g].ip \in IPs /\ go[g].pc = "action.lookup"
    BY <1>0, <1>3, Running DEF ActionLooksUp, At, Ended, StateOK
  <2>2. closed' = closed /\ rules' = rules /\ Alone1
    BY <1>0, <1>3 DEF ActionLooksUp, maps, outside
  <2>3. CASE go[g].ip # ip
    BY <1>0, <2>2, <2>3, Bystander
  <2>4. CASE go[g].ip = ip /\ cancel[ip] # None
    <3>1. /\ go'[g].ip = go[g].ip /\ go'[g].pc = "action.close"
          /\ go'[g].chan = cancel[go[g].ip]
      BY <1>0, <1>3, <2>4 DEF ActionLooksUp, Frames
    <3>2. \E h \in Goroutines : Removes(h, ip)'
      BY <1>0, <2>1, <2>2, <2>4, <3>1, FindsRemover DEF Deleting
    <3>. QED BY <3>2 DEF LookedAfter
  <2>5. CASE go[g].ip = ip /\ cancel[ip] = None
    <3>1. go'[g].ip = go[g].ip /\ go'[g].pc = "action.spawn"
      BY <1>0, <1>3, <2>5 DEF ActionLooksUp, Frames
    <3>2. Removes(g, ip)'
      BY <2>5, <3>1 DEF Removes
    <3>. QED BY <1>0, <3>2 DEF LookedAfter
  <2>. QED BY <2>3, <2>4, <2>5
<1>4. CASE ActionCloses(g)
  BY <1>0, <1>4, ClosesRemovers DEF ActionCloses, At, Closing, Deleting, outside
<1>5. CASE ActionDeletes(g)
  <2>1. closed' = closed /\ rules' = rules /\ Alone1
    BY <1>0, <1>5 DEF ActionDeletes, Goto, outside
  <2>2. go'[g].ip = go[g].ip /\ go'[g].pc = "action.spawn"
    BY <1>0, <1>5 DEF ActionDeletes, Goto, Frames
  <2>3. go[g].ip = ip => Removes(g, ip)'
    BY <2>2 DEF Removes
  <2>. QED BY <1>0, <2>1, <2>3, HandedOn, RemoversAble
<1>6. CASE ActionSpawns(g)
  <2>1. PICK u \in Unblockers :
          /\ Fresh(u, Unblockers)
          /\ go' = [go EXCEPT
                      ![g].pc = "action.save",
                      ![u] = [Frame("unblocker.waiting") EXCEPT
                                !.ip = go[g].ip, !.rec = go[g].arec]]
    BY <1>6 DEF ActionSpawns
  <2>2. u \in Goroutines /\ u # g /\ go[u].pc = "new"
    BY <1>0, <2>1 DEF Goroutines, Fresh, At
  <2>3. closed' = closed /\ rules' = rules
    BY <1>6 DEF ActionSpawns, outside
  <2>4. /\ \A h \in Goroutines : h # g => go'[h] = go[h] \/ go[h].pc = "new"
        /\ go'[u].pc = "unblocker.waiting" /\ go'[u].ip = go[g].ip
    BY <1>0, <2>1, <2>2 DEF Frame
  <2>5. u \notin closed
    BY <2>2 DEF ChannelsOK, InUse
  <2>6. go[g].ip = ip => Removes(u, ip)'
    BY <2>3, <2>4, <2>5 DEF Removes, At
  <2>. QED BY <1>0, <2>2, <2>3, <2>4, <2>6, HandedOn, RemoversAble
<1>7. CASE ActionSaves(g)
  <2>1. closed' = closed /\ rules' = rules /\ go[g].pc = "action.save" /\ Alone1
    BY <1>7, <1>r DEF ActionSaves, At, maps
  <2>. QED BY <1>0, <2>1, Bystander DEF Able
<1>. QED BY <1>1, <1>2, <1>3, <1>4, <1>5, <1>6, <1>7 DEF ActionSteps

(* The notification timer.                                                 *)
LEMMA TimerRemovers ==
  ASSUME StateOK, NEW ip, LookedAfter(ip), NEW t \in Timers, TimerSteps(t)
  PROVE  LookedAfter(ip)' \/ crashed'
<1>0. t \in Goroutines /\ go \in [Goroutines -> Frames]
  BY DEF StateOK, GoOK, Goroutines
<1>1. go[t].pc \notin Able /\ rules' = rules
  BY DEF TimerSteps, TimerFires, TimerSelects, TimerUpdates, TimerDeletes, At, Able, outside
<1>2. CASE Panics(t)
  BY <1>0, <1>1, <1>2, PanicRemovers, RemoversAble
<1>3. CASE closed' = closed /\ \A h \in Goroutines : h # t => go'[h] = go[h]
  BY <1>0, <1>1, <1>3, Bystander
<1>4. CASE TimerSelects(t)
  BY <1>0, <1>2, <1>3, <1>4 DEF TimerSelects, Goto, maps
<1>5. CASE TimerFires(t) \/ TimerUpdates(t) \/ TimerDeletes(t)
  BY <1>0, <1>3, <1>5 DEF TimerFires, TimerUpdates, TimerDeletes, Goto, End, maps
<1>. QED BY <1>4, <1>5 DEF TimerSteps

(* scheduleUnblock.  Its call removes the rule, or fails and leaves it.    *)
LEMMA UnblockerRemovers ==
  ASSUME StateOK, NEW ip, LookedAfter(ip), NEW u \in Unblockers, UnblockerSteps(u)
  PROVE  LookedAfter(ip)' \/ (CallMayFail /\ CallLeaves(u, ip))
<1>0. u \in Goroutines /\ go \in [Goroutines -> Frames]
  BY DEF StateOK, GoOK, Goroutines
<1>1. closed' = closed /\ \A h \in Goroutines : h # u => go'[h] = go[h]
  BY <1>0 DEF UnblockerSteps, UnblockerWakes, UnblockerUnblocks, UnblockerSaves,
              UnblockerDeletes, Goto, End, maps
<1>2. CASE UnblockerWakes(u)
  <2>1. go'[u].ip = go[u].ip /\ rules' = rules
    BY <1>0, <1>2 DEF UnblockerWakes, Goto, Frames, outside
  <2>2. u \notin closed => go'[u].pc = "unblocker.unblock"
    BY <1>0, <1>2 DEF UnblockerWakes, Goto, Frames
  <2>3. Removes(u, ip) => Removes(u, ip)'
    BY <1>2, <2>1, <2>2 DEF Removes, UnblockerWakes, At
  <2>. QED BY <1>0, <1>1, <2>1, <2>3, HandedOn
<1>3. CASE UnblockerUnblocks(u)
  <2>1. rules' \subseteq rules
    BY <1>3 DEF UnblockerUnblocks, RuleDeleted, DeleteRefused
  <2>2. CASE go[u].ip # ip
    BY <1>0, <1>1, <2>1, <2>2, Bystander
  <2>3. CASE ip \notin rules'
    BY <2>3 DEF LookedAfter
  <2>4. CASE go[u].ip = ip /\ ip \in rules'
    <3>1. CallMayFail
      BY <1>3, <2>1, <2>4 DEF UnblockerUnblocks, RuleDeleted, DeleteRefused
    <3>2. go[u].pc = "unblocker.unblock" /\ go'[u].pc = "unblocker.save"
      BY <1>0, <1>3 DEF UnblockerUnblocks, At, Frames
    <3>. QED BY <2>4, <3>1, <3>2 DEF CallLeaves
  <2>. QED BY <2>2, <2>3, <2>4
<1>4. CASE UnblockerSaves(u) \/ UnblockerDeletes(u)
  <2>1. go[u].pc \notin Able /\ rules' = rules
    BY <1>4 DEF UnblockerSaves, UnblockerDeletes, At, Able, outside
  <2>. QED BY <1>0, <1>1, <2>1, Bystander
<1>. QED BY <1>2, <1>3, <1>4 DEF UnblockerSteps

(* handleSlackCallback.                                                    *)
LEMMA PressRemovers ==
  ASSUME StateOK, NEW ip, LookedAfter(ip), NEW p \in Presses, PressArrives(p)
  PROVE  LookedAfter(ip)'
<1>0. p \in Goroutines /\ go \in [Goroutines -> Frames]
  BY DEF StateOK, GoOK, Goroutines, Requests
<1>1. closed' = closed /\ rules' = rules
  BY DEF PressArrives, maps
<1>2. \A h \in Goroutines : h # p => go'[h] = go[h]
  BY <1>0 DEF PressArrives, End
<1>3. go[p].pc \notin Able
  BY DEF PressArrives, Arrives, Fresh, At, Able
<1>. QED BY <1>0, <1>1, <1>2, <1>3, Bystander

(* ManualUnblock.  When its call fails it gives up, and has cancelled the  *)
(* scheduled unblock before.                                               *)
LEMMA ManualRemovers ==
  ASSUME StateOK, ChannelsOK, NEW ip, LookedAfter(ip), NEW m \in Unblocks,
         ManualArrives(m) \/ ManualSteps(m)
  PROVE  LookedAfter(ip)' \/ crashed' \/ (CallMayFail /\ CallLeaves(m, ip))
<1>0. m \in Goroutines /\ go \in [Goroutines -> Frames]
  BY DEF StateOK, GoOK, Goroutines, Requests
<1>. DEFINE Alone1 == \A h \in Goroutines : h # m => go'[h] = go[h]
<1>1. CASE ManualArrives(m)
  <2>1. go[m].pc \notin Able
    BY <1>1 DEF ManualArrives, Arrives, Fresh, At, Able
  <2>2. closed' = closed /\ rules' = rules /\ Alone1
    BY <1>0, <1>1 DEF ManualArrives, End, maps, outside
  <2>. QED BY <1>0, <2>1, <2>2, Bystander
<1>2. CASE ManualSelects(m) \/ ManualInserts(m) \/ ManualLooksUpTimer(m) \/ ManualSaves(m)
  <2>1. go[m].pc \notin Able
    BY <1>2 DEF ManualSelects, ManualInserts, ManualLooksUpTimer, ManualSaves, At, Able
  <2>2. closed' = closed /\ rules' = rules
    BY <1>2 DEF ManualSelects, ManualInserts, ManualLooksUpTimer, ManualSaves, maps, outside
  <2>3. Alone1
    BY <1>0, <1>2 DEF ManualSelects, ManualInserts, ManualLooksUpTimer, ManualSaves,
                      ManualStarts, LooksUp, Goto, End
  <2>. QED BY <1>0, <2>1, <2>2, <2>3, Bystander
<1>3. CASE ManualClosesTimer(m)
  BY <1>0, <1>3, ClosesRemovers DEF ManualClosesTimer, At, Closing, Deleting, outside
<1>4. CASE ManualClosesUnblock(m)
  BY <1>0, <1>4, ClosesRemovers DEF ManualClosesUnblock, At, Closing, Deleting, outside
<1>5. CASE ManualDeletesTimer(m) \/ ManualDeletesUnblock(m)
  <2>1. closed' = closed /\ rules' = rules /\ Alone1
    BY <1>0, <1>5 DEF ManualDeletesTimer, ManualDeletesUnblock, Goto, outside
  <2>2. go'[m].ip = go[m].ip /\ go'[m].pc \in {"manual.lookup2", "manual.unblock"}
    BY <1>0, <1>5 DEF ManualDeletesTimer, ManualDeletesUnblock, Goto, Frames
  <2>3. go[m].ip = ip => Removes(m, ip)'
    BY <2>2 DEF Removes
  <2>. QED BY <1>0, <2>1, <2>3, HandedOn, RemoversAble
<1>6. CASE ManualLooksUpUnblock(m)
  <2>1. go[m].ip \in IPs /\ go[m].pc = "manual.lookup2"
    BY <1>0, <1>6, Running DEF ManualLooksUpUnblock, At, Ended, StateOK
  <2>2. closed' = closed /\ rules' = rules /\ Alone1
    BY <1>0, <1>6 DEF ManualLooksUpUnblock, LooksUp, maps, outside
  <2>3. CASE go[m].ip # ip
    BY <1>0, <2>2, <2>3, Bystander
  <2>4. CASE go[m].ip = ip /\ unblockCancel[ip] # None
    <3>1. /\ go'[m].ip = go[m].ip /\ go'[m].pc = "manual.close2"
          /\ go'[m].chan = unblockCancel[go[m].ip]
      BY <1>0, <1>6, <2>4 DEF ManualLooksUpUnblock, LooksUp, Frames
    <3>2. \E h \in Goroutines : Removes(h, ip)'
      BY <1>0, <2>1, <2>2, <2>4, <3>1, FindsRemover DEF Deleting
    <3>. QED BY <3>2 DEF LookedAfter
  <2>5. CASE go[m].ip = ip /\ unblockCancel[ip] = None
    <3>1. go'[m].ip = go[m].ip /\ go'[m].pc = "manual.unblock"
      BY <1>0, <1>6, <2>5 DEF ManualLooksUpUnblock, LooksUp, Frames
    <3>2. Removes(m, ip)'
      BY <2>5, <3>1 DEF Removes
    <3>. QED BY <1>0, <3>2 DEF LookedAfter
  <2>. QED BY <2>3, <2>4, <2>5
<1>7. CASE ManualUnblocks(m)
  <2>1. rules' \subseteq rules
    BY <1>7 DEF ManualUnblocks, RuleDeleted, DeleteRefused
  <2>2. closed' = closed /\ Alone1
    BY <1>0, <1>7 DEF ManualUnblocks, End, maps
  <2>3. CASE go[m].ip # ip
    BY <1>0, <2>1, <2>2, <2>3, Bystander
  <2>4. CASE ip \notin rules'
    BY <2>4 DEF LookedAfter
  <2>5. CASE go[m].ip = ip /\ ip \in rules'
    <3>1. CallMayFail
      BY <1>7, <2>1, <2>5 DEF ManualUnblocks, RuleDeleted, DeleteRefused
    <3>2. go[m].pc = "manual.unblock" /\ go'[m].pc # "manual.unblock"
      BY <1>0, <1>7 DEF ManualUnblocks, End, Frame, At, Frames
    <3>. QED BY <2>5, <3>1, <3>2 DEF CallLeaves
  <2>. QED BY <2>3, <2>4, <2>5
<1>. QED BY <1>1, <1>2, <1>3, <1>4, <1>5, <1>6, <1>7 DEF ManualSteps

-----------------------------------------------------------------------------
(* The theorems *)

(* That the process has stopped once is not forgotten.                     *)
LEMMA CrashStays == StateOK /\ crashed /\ [Next]_vars => crashed'
<1>. SUFFICES ASSUME StateOK, crashed, [Next]_vars PROVE crashed'
  OBVIOUS
<1>s. Stops => crashed'
  BY DEF Stops
<1>p. ASSUME NEW g, Panics(g) PROVE crashed'
  BY <1>p, <1>s DEF Panics
<1>c. ASSUME NEW g, NEW l, Closes(g, l) PROVE crashed'
  BY <1>c, <1>p DEF Closes
<1>1. ASSUME NEW e \in Events, EventArrives(e) \/ EventSteps(e) PROVE crashed'
  BY <1>1 DEF EventArrives, EventSteps, EventSelects, EventInserts, EventNotifies,
              EventArms, EventSaves
<1>2. ASSUME NEW g, ActionSteps(g) PROVE crashed'
  BY <1>2, <1>p, <1>c DEF ActionSteps, ActionSelects, ActionInserts, ActionExecutes,
     ActionLooksUp, ActionCloses, ActionDeletes, ActionSpawns, ActionSaves
<1>3. ASSUME NEW t, TimerSteps(t) PROVE crashed'
  BY <1>3, <1>p DEF TimerSteps, TimerFires, TimerSelects, TimerUpdates, TimerDeletes
<1>4. ASSUME NEW u, UnblockerSteps(u) PROVE crashed'
  BY <1>4 DEF UnblockerSteps, UnblockerWakes, UnblockerUnblocks, UnblockerSaves,
              UnblockerDeletes
<1>5. ASSUME NEW p, PressArrives(p) PROVE crashed'
  BY <1>5 DEF PressArrives
<1>6. ASSUME NEW m, ManualArrives(m) \/ ManualSteps(m) PROVE crashed'
  BY <1>6, <1>c DEF ManualArrives, ManualSteps, ManualSelects, ManualInserts,
     ManualLooksUpTimer, ManualClosesTimer, ManualDeletesTimer, ManualLooksUpUnblock,
     ManualClosesUnblock, ManualDeletesUnblock, ManualUnblocks, ManualSaves
<1>7. Tick \/ Restart \/ MapRace \/ UNCHANGED vars => crashed'
  BY <1>s DEF Tick, Restart, MapRace, vars, memory
<1>. QED BY <1>1, <1>2, <1>3, <1>4, <1>5, <1>6, <1>7 DEF Next

(* Every step leaves a rule that is looked after a remover, unless its     *)
(* call fails.                                                             *)
LEMMA NextRemovers ==
  ASSUME StateOK, ChannelsOK, NEW ip, LookedAfter(ip), [Next]_vars
  PROVE  \/ LookedAfter(ip)'
         \/ crashed'
         \/ CallMayFail /\ \E g \in Goroutines : CallLeaves(g, ip)
<1>0. Callers \subseteq Goroutines /\ Unblockers \subseteq Goroutines /\ Unblocks \subseteq Goroutines
  BY DEF Callers, Goroutines, Requests
<1>1. CASE Tick \/ UNCHANGED vars
  <2>1. UNCHANGED <<go, closed, rules>>
    BY <1>1 DEF Tick, vars, memory, maps, outside
  <2>. QED BY <2>1 DEF LookedAfter, Removes, At
<1>2. CASE Restart \/ MapRace
  BY <1>2 DEF Restart, MapRace, Stops
<1>3. ASSUME NEW e \in Events, EventArrives(e) \/ EventSteps(e) PROVE LookedAfter(ip)'
  BY <1>3, EventRemovers
<1>4. ASSUME NEW p \in Presses, PressArrives(p) PROVE LookedAfter(ip)'
  BY <1>4, PressRemovers
<1>5. ASSUME NEW t \in Timers, TimerSteps(t) PROVE LookedAfter(ip)' \/ crashed'
  BY <1>5, TimerRemovers
<1>6. ASSUME NEW g \in Callers, ActionSteps(g)
      PROVE  LookedAfter(ip)' \/ crashed' \/ (CallMayFail /\ CallLeaves(g, ip))
  BY <1>6, ActionRemovers
<1>7. ASSUME NEW m \in Unblocks, ManualArrives(m) \/ ManualSteps(m)
      PROVE  LookedAfter(ip)' \/ crashed' \/ (CallMayFail /\ CallLeaves(m, ip))
  BY <1>7, ManualRemovers
<1>8. ASSUME NEW u \in Unblockers, UnblockerSteps(u)
      PROVE  LookedAfter(ip)' \/ (CallMayFail /\ CallLeaves(u, ip))
  BY <1>8, UnblockerRemovers
<1>. QED BY <1>0, <1>1, <1>2, <1>3, <1>4, <1>5, <1>6, <1>7, <1>8 DEF Next, Callers

(* In every interleaving, and with any failures but those of the firewall, *)
(* every rule has a goroutine that is going to remove it, as long as the   *)
(* process lives.                                                          *)
THEOREM RulesHaveRemovers == Spec => []EveryRuleHasRemover
<1>1. Init => EveryRuleHasRemover
  BY DEF Init, FirewallInit, EveryRuleHasRemover
<1>2. StateOK /\ ChannelsOK /\ EveryRuleHasRemover /\ [Next]_vars => EveryRuleHasRemover'
  <2>. SUFFICES ASSUME StateOK, ChannelsOK, EveryRuleHasRemover, [Next]_vars,
                       ~CallMayFail, ~crashed', NEW ip \in rules'
                PROVE  \E g \in Goroutines : Removes(g, ip)'
    BY DEF EveryRuleHasRemover, CallMayFail
  <2>1. LookedAfter(ip)
    BY CrashStays DEF EveryRuleHasRemover, LookedAfter
  <2>2. LookedAfter(ip)'
    BY <2>1, NextRemovers
  <2>. QED BY <2>2 DEF LookedAfter
<1>. QED BY <1>1, <1>2, ChannelsInvariant, StateInvariant, PTL DEF Spec

(* When the firewall fails too, a rule without a remover is one that the   *)
(* call for it has left (scenario.go, 160, 196, 240): no failure takes the *)
(* remover of another rule away.                                           *)
THEOREM RefusalsLeaveTheirRules == RefusalsSpec => []OnlyFailuresLeaveRules
<1>1. RefusalsInit => OnlyFailuresLeaveRules
  BY DEF RefusalsInit, Init, FirewallInit, OnlyFailuresLeaveRules
<1>2. /\ StateOK /\ ChannelsOK /\ OnlyFailuresLeaveRules
      /\ [RefusalsNext]_<<vars, leftOver>>
      => OnlyFailuresLeaveRules'
  <2>. SUFFICES ASSUME StateOK, ChannelsOK, OnlyFailuresLeaveRules,
                       [RefusalsNext]_<<vars, leftOver>>, ~crashed',
                       NEW ip \in rules' \ leftOver'
                PROVE  \E g \in Goroutines : Removes(g, ip)'
    BY DEF OnlyFailuresLeaveRules
  <2>1. [Next]_vars
    BY DEF RefusalsNext
  <2>2. ip \notin leftOver
    BY DEF RefusalsNext
  <2>3. LookedAfter(ip)
    BY <2>1, <2>2, CrashStays DEF OnlyFailuresLeaveRules, LookedAfter
  <2>4. CASE UNCHANGED <<vars, leftOver>>
    <3>1. UNCHANGED <<go, closed, rules>>
      BY <2>4 DEF vars, memory, maps, outside
    <3>. QED BY <2>3, <3>1 DEF LookedAfter, Removes, At
  <2>5. CASE RefusalsNext
    <3>1. ~\E g \in Goroutines : CallLeaves(g, ip)
      BY <2>5 DEF RefusalsNext
    <3>2. LookedAfter(ip)'
      BY <2>1, <2>3, <3>1, NextRemovers
    <3>. QED BY <3>2 DEF LookedAfter
  <2>. QED BY <2>4, <2>5
<1>3. RefusalsSpec => Spec
  <2>1. RefusalsInit => Init
    BY DEF RefusalsInit
  <2>2. [RefusalsNext]_<<vars, leftOver>> => [Next]_vars
    BY DEF RefusalsNext
  <2>. QED BY <2>1, <2>2, PTL DEF RefusalsSpec, Spec
<1>. QED BY <1>1, <1>2, <1>3, ChannelsInvariant, StateInvariant, PTL DEF RefusalsSpec

=============================================================================
