------------------------------ MODULE Manager -------------------------------
(***************************************************************************)
(* The scenario manager (internal/scenario/scenario.go) and the goroutines *)
(* that run its methods: one per HTTP request (an event, a pressed Slack   *)
(* button, a manual unblock), one per notification timer and one per       *)
(* scheduled unblock.  They share the table, the firewall and two maps of  *)
(* channels, and no lock orders them.                                      *)
(*                                                                         *)
(* A step of a goroutine is one access to something shared, with the local *)
(* computation up to the next one.  Every goroutine of the sets below runs *)
(* at most once, so the sets bound a behaviour: requests stop when theirs  *)
(* are used up.  A channel is named after the goroutine that waits on it.  *)
(***************************************************************************)
EXTENDS SQLiteDB, GCPFirewall

CONSTANTS
  Events, Presses, Unblocks,  \* requests: events, pressed buttons, manual unblocks
  Timers, Unblockers,         \* goroutines and channels the manager makes
  None,                       \* no channel, no address
  Texts,                      \* message texts the callbacks carry
  Buttons,                    \* button values the callbacks carry
  Serial,                     \* TRUE: requests and timers never overlap
  Horizon                     \* bound: the last time a request may arrive

Requests == Events \cup Presses \cup Unblocks
Goroutines == Requests \cup Timers \cup Unblockers

(* The text executeScenario sends, and the one handleSlackCallback scans.  *)
SentText == "Dlya IP %s aktyvovano stsenarij %s"
ScannedText == "IP %s triggered scenario block_ip"

(* "none of these" stands for a value no actioner is registered under.     *)
ActionValues == Registered \cup {"all", "none of these"}

(* The actions that block the address; the others only store something.    *)
Mutant_Blocking == {"gcp_firewall"}
Blocking == {"all", "gcp_firewall"}

(* The addresses handleEvent and unblockHandler accept: any but "".        *)
Mutant_Accepted == IPs \cup {None}
Accepted == IPs

ASSUME ManagerAssumption ==
  /\ LET kinds == <<Events, Presses, Unblocks, Timers, Unblockers>>
     IN \A i, j \in 1..5 : i # j => kinds[i] \cap kinds[j] = {}
  /\ None \notin Goroutines \cup IPs
  /\ Texts \subseteq {SentText, ScannedText}
  /\ Buttons \subseteq ActionValues
  /\ Serial \in BOOLEAN
  /\ Horizon \in Nat

VARIABLES
  now,            \* the clock
  go,             \* the state of each goroutine
  cancel,         \* Manager.cancel: the channel of an address's timer
  unblockCancel,  \* Manager.unblockCancel: that of its scheduled unblock
  closed,         \* the channels that are closed
  posted,         \* history: addresses a message with buttons was sent for
  handled,        \* history: events counted for each address
  asked,          \* history: addresses a button was pressed for
  crashed         \* history: the process has stopped and started again

maps == <<cancel, unblockCancel, closed>>
memory == <<go, maps, crashed>>
outside == <<now, dbVars, rules, posted, handled, asked>>
vars == <<memory, outside>>

(* "unparsed": a pressed button the text of whose message does not match.  *)
(* "failed": given up on an error, panicked, or stopped with the process.  *)
Ended == {"done", "unparsed", "failed"}

Labels == Ended \cup
  {"new", "event.select", "event.insert", "event.notify", "event.arm",
   "event.save", "action.select", "action.insert", "action.execute",
   "action.lookup", "action.close", "action.delete", "action.spawn",
   "action.save", "timer.armed", "timer.select", "timer.update",
   "timer.delete", "unblocker.waiting", "unblocker.unblock",
   "unblocker.save", "unblocker.delete", "manual.select", "manual.insert",
   "manual.lookup", "manual.close", "manual.delete", "manual.lookup2",
   "manual.close2", "manual.delete2", "manual.unblock", "manual.save"}

Frames == [pc     : Labels,
           ip     : IPs \cup {None},
           rec    : Records,          \* record of the method at the bottom
           arec   : Records,          \* record of ExecuteAction
           chan   : Timers \cup Unblockers \cup {None},
           due    : Nat,              \* when a timer fires
           action : ActionValues]     \* argument of ExecuteAction

Frame(label) == [pc |-> label, ip |-> None, rec |-> NewRecord,
                 arec |-> NewRecord, chan |-> None, due |-> 0,
                 action |-> "all"]

Init ==
  /\ TableInit
  /\ FirewallInit
  /\ now = 1
  /\ go = [g \in Goroutines |-> Frame("new")]
  /\ cancel = [ip \in IPs |-> None]
  /\ unblockCancel = [ip \in IPs |-> None]
  /\ closed = {}
  /\ posted = {}
  /\ handled = [ip \in IPs |-> 0]
  /\ asked = {}
  /\ crashed = FALSE

-----------------------------------------------------------------------------
(* Control *)

At(g, label) == go[g].pc = label
Goto(g, label) == go' = [go EXCEPT ![g].pc = label]
End(g, label) == go' = [go EXCEPT ![g] = Frame(label)]

(* The goroutines of a kind are interchangeable: they start in one order.  *)
Fresh(g, kind) == At(g, "new") /\ g = CHOOSE h \in kind : At(h, "new")

(* Nothing of g is running.                                                *)
Idle(g) ==
  \/ go[g].pc \in Ended \cup {"new", "timer.armed"}
  \/ At(g, "unblocker.waiting") /\ g \notin closed

Alone(g) == Serial => \A h \in Goroutines \ {g} : Idle(h)

Arrives(g, kind) == Fresh(g, kind) /\ now <= Horizon /\ Alone(g)

(* The process stops: goroutines and maps are gone, the table, the rules   *)
(* and the Slack messages stay.  Nothing is rebuilt when it starts again.  *)
Stops ==
  /\ go' = [g \in Goroutines |->
              IF go[g].pc \in Ended \cup {"new"} THEN go[g] ELSE Frame("failed")]
  /\ cancel' = [ip \in IPs |-> None]
  /\ unblockCancel' = [ip \in IPs |-> None]
  /\ closed' = {}
  /\ crashed' = TRUE

(* A panic ends the request that runs into it; net/http recovers.  In a    *)
(* goroutine of the manager it stops the process.                          *)
Panics(g) ==
  \/ g \in Requests /\ End(g, "failed") /\ UNCHANGED <<maps, crashed>>
  \/ g \notin Requests /\ Stops

(* close(ch) *)
Closes(g, next) ==
  \/ /\ go[g].chan \notin closed
     /\ closed' = closed \cup {go[g].chan}
     /\ Goto(g, next)
     /\ UNCHANGED <<cancel, unblockCancel, crashed>>
  \/ /\ go[g].chan \in closed
     /\ Panics(g)

(* if ch, ok := m[ip]; ok *)
LooksUp(g, map, found, missing) ==
  go' = IF map[go[g].ip] # None
          THEN [go EXCEPT ![g].chan = map[go[g].ip], ![g].pc = found]
          ELSE [go EXCEPT ![g].pc = missing]

-----------------------------------------------------------------------------
(* HandleEvent and executeScenario *)

(* handleEvent: a body it cannot use or an event of another rule, which    *)
(* change nothing, or an event of the scenario's rule.                     *)
EventArrives(e) ==
  /\ Arrives(e, Events)
  /\ \/ End(e, "done")
     \/ \E ip \in Accepted :
          go' = [go EXCEPT ![e].ip = ip, ![e].pc = "event.select"]
  /\ UNCHANGED <<maps, crashed, outside>>

Mutant_AfterCount_early(r) ==
  IF r.triggerCount + 1 # Threshold THEN "event.save"
  ELSE IF NotifierEnabled THEN "event.notify"
  ELSE "action.select"

Mutant_AfterCount_again(r) ==
  IF r.triggerCount < Threshold THEN "event.save"
  ELSE IF NotifierEnabled THEN "event.notify"
  ELSE "action.select"

AfterCount(r) ==
  IF r.triggerCount # Threshold THEN "event.save"
  ELSE IF NotifierEnabled THEN "event.notify"
  ELSE "action.select"

(* From the record read to the next access; skipped while action_taken.    *)
EventCounts(e, row) ==
  LET r == AfterWindow(row, now)
      c == CountEvent(r, now)
  IN \/ /\ r.actionTaken
        /\ End(e, "done")
        /\ UNCHANGED handled
     \/ /\ ~r.actionTaken
        /\ go' = [go EXCEPT ![e].rec = c, ![e].pc = AfterCount(c)]
        /\ handled' = [handled EXCEPT ![go[e].ip] = @ + 1]

EventSelects(e) ==
  /\ At(e, "event.select")
  /\ \/ Finds(go[e].ip) /\ EventCounts(e, blocks[go[e].ip])
     \/ ~Finds(go[e].ip) /\ Goto(e, "event.insert") /\ UNCHANGED handled
     \/ QueryMayFail /\ End(e, "failed") /\ UNCHANGED handled
  /\ UNCHANGED <<maps, crashed, now, dbVars, rules, posted, asked>>

EventInserts(e) ==
  /\ At(e, "event.insert")
  /\ \/ Insert(go[e].ip) /\ EventCounts(e, NewRecord)
     \/ InsertFails(go[e].ip) /\ End(e, "failed") /\ UNCHANGED handled
  /\ UNCHANGED <<maps, crashed, now, rules, posted, asked>>

(* SendMessageWithButtons; its error is logged and ignored.                *)
EventNotifies(e) ==
  /\ At(e, "event.notify")
  /\ \/ posted' = posted \cup {go[e].ip}
     \/ "slack" \in Faults /\ UNCHANGED posted
  /\ Goto(e, "event.arm")
  /\ UNCHANGED <<maps, crashed, now, dbVars, rules, handled, asked>>

EventArms(e) ==
  /\ At(e, "event.arm")
  /\ \E t \in Timers :
       /\ Fresh(t, Timers)
       /\ cancel' = [cancel EXCEPT ![go[e].ip] = t]
       /\ go' = [go EXCEPT
                   ![e].pc = "event.save",
                   ![t] = [Frame("timer.armed") EXCEPT
                             !.ip = go[e].ip, !.due = now + Timeout * Minute]]
  /\ UNCHANGED <<unblockCancel, closed, crashed, outside>>

EventSaves(e) ==
  /\ At(e, "event.save")
  /\ Update(go[e].ip, go[e].rec) \/ UpdateFails
  /\ End(e, "done")
  /\ UNCHANGED <<maps, crashed, now, rules, posted, handled, asked>>

-----------------------------------------------------------------------------
(* ExecuteAction, called by HandleEvent, a timer or a pressed button *)

(* Back in the caller.                                                     *)
Returns(g) ==
  \/ g \in Presses /\ End(g, "done")
  \/ /\ g \notin Presses
     /\ go' = [go EXCEPT
                 ![g].arec = NewRecord, ![g].chan = None,
                 ![g].pc = IF g \in Events THEN "event.save" ELSE "timer.update"]

Mutant_Skips(g, row) ==
  /\ go[g].action # "all"
  /\ row.actionTaken \/ go[g].action \notin Registered

(* An address that is blocked already, or a value that names no actioner.  *)
Skips(g, row) ==
  /\ go[g].action # "all"
  /\ row.blockedAt > 0 \/ go[g].action \notin Registered

ActionStarts(g, row) ==
  \/ Skips(g, row) /\ Returns(g)
  \/ /\ ~Skips(g, row)
     /\ go' = [go EXCEPT ![g].arec = row, ![g].pc = "action.execute"]

(* The error of GetOrCreateBlockRecord is dropped and its nil record used. *)
ActionSelects(g) ==
  /\ At(g, "action.select")
  /\ \/ /\ \/ Finds(go[g].ip) /\ ActionStarts(g, blocks[go[g].ip])
           \/ ~Finds(go[g].ip) /\ Goto(g, "action.insert")
        /\ UNCHANGED <<maps, crashed>>
     \/ QueryMayFail /\ Panics(g)
  /\ UNCHANGED outside

ActionInserts(g) ==
  /\ At(g, "action.insert")
  /\ \/ /\ Insert(go[g].ip)
        /\ ActionStarts(g, NewRecord)
        /\ UNCHANGED <<maps, crashed>>
     \/ InsertFails(go[g].ip) /\ Panics(g)
  /\ UNCHANGED <<now, rules, posted, handled, asked>>

Executed(g) ==
  go' = [go EXCEPT ![g].arec = MarkTaken(@),
                   ![g].pc = IF go[g].action \in Blocking THEN "action.lookup"
                                                          ELSE "action.save"]

(* "all" ignores the errors of the actioners; a single action returns on   *)
(* one.  What the storage actioners write, nothing here reads.             *)
ActionExecutes(g) ==
  /\ At(g, "action.execute")
  /\ \/ /\ go[g].action = "all"
        /\ \/ /\ "gcp_firewall" \in Actioners
              /\ RuleInserted(go[g].ip) \/ InsertRefused(go[g].ip)
           \/ "gcp_firewall" \notin Actioners /\ UNCHANGED rules
        /\ Executed(g)
     \/ /\ go[g].action = "gcp_firewall"
        /\ \/ RuleInserted(go[g].ip) /\ Executed(g)
           \/ InsertRefused(go[g].ip) /\ Returns(g)
     \/ /\ go[g].action \notin {"all", "gcp_firewall"}
        /\ Executed(g) \/ ("storage" \in Faults /\ Returns(g))
        /\ UNCHANGED rules
  /\ UNCHANGED <<maps, crashed, now, dbVars, posted, handled, asked>>

ActionLooksUp(g) ==
  /\ At(g, "action.lookup")
  /\ LET ip == go[g].ip
         r  == MarkBlocked(go[g].arec, now)
     IN go' = IF cancel[ip] # None
                THEN [go EXCEPT ![g].arec = r, ![g].chan = cancel[ip],
                                ![g].pc = "action.close"]
                ELSE [go EXCEPT ![g].arec = r, ![g].pc = "action.spawn"]
  /\ UNCHANGED <<maps, crashed, outside>>

Mutant_ActionCloses(g) ==
  /\ At(g, "action.close")
  /\ Closes(g, "action.spawn")
  /\ UNCHANGED outside

ActionCloses(g) ==
  /\ At(g, "action.close")
  /\ Closes(g, "action.delete")
  /\ UNCHANGED outside

ActionDeletes(g) ==
  /\ At(g, "action.delete")
  /\ cancel' = [cancel EXCEPT ![go[g].ip] = None]
  /\ Goto(g, "action.spawn")
  /\ UNCHANGED <<unblockCancel, closed, crashed, outside>>

Mutant_ActionSpawns(g) ==
  /\ At(g, "action.spawn")
  /\ Goto(g, "action.save")
  /\ UNCHANGED <<maps, crashed, outside>>

(* The goroutine gets the record by reference and changes it only after a  *)
(* timer and a GCP call; the values UpdateBlockRecord writes are read at   *)
(* once.  So from here on each of the two has a copy of its own.           *)
ActionSpawns(g) ==
  /\ At(g, "action.spawn")
  /\ \E u \in Unblockers :
       /\ Fresh(u, Unblockers)
       /\ unblockCancel' = [unblockCancel EXCEPT ![go[g].ip] = u]
       /\ go' = [go EXCEPT
                   ![g].pc = "action.save",
                   ![u] = [Frame("unblocker.waiting") EXCEPT
                             !.ip = go[g].ip, !.rec = go[g].arec]]
  /\ UNCHANGED <<cancel, closed, crashed, outside>>

ActionSaves(g) ==
  /\ At(g, "action.save")
  /\ Update(go[g].ip, go[g].arec) \/ UpdateFails
  /\ Returns(g)
  /\ UNCHANGED <<maps, crashed, now, rules, posted, handled, asked>>

-----------------------------------------------------------------------------
(* The notification timer *)

TimerFires(t) ==
  /\ At(t, "timer.armed")
  /\ now >= go[t].due
  /\ Alone(t)
  /\ \/ t \in closed /\ End(t, "done")
     \/ t \notin closed /\ Goto(t, "timer.select")
  /\ UNCHANGED <<maps, crashed, outside>>

Mutant_TimerSelects(t) ==
  /\ At(t, "timer.select")
  /\ \/ /\ Goto(t, IF blocks[go[t].ip].actionTaken THEN "timer.delete"
                                                   ELSE "timer.update")
        /\ UNCHANGED <<maps, crashed>>
     \/ QueryMayFail /\ Panics(t)
  /\ UNCHANGED outside

(* The row exists: the event that armed the timer read it.                 *)
TimerSelects(t) ==
  /\ At(t, "timer.select")
  /\ \/ /\ Goto(t, IF blocks[go[t].ip].actionTaken THEN "timer.delete"
                                                   ELSE "action.select")
        /\ UNCHANGED <<maps, crashed>>
     \/ QueryMayFail /\ Panics(t)
  /\ UNCHANGED outside

(* UpdateMessage asks Slack to take the buttons off this one message; its  *)
(* error is logged and ignored.  A button pressed before may still arrive. *)
TimerUpdates(t) ==
  /\ At(t, "timer.update")
  /\ Goto(t, "timer.delete")
  /\ UNCHANGED <<maps, crashed, outside>>

TimerDeletes(t) ==
  /\ At(t, "timer.delete")
  /\ cancel' = [cancel EXCEPT ![go[t].ip] = None]
  /\ End(t, "done")
  /\ UNCHANGED <<unblockCancel, closed, crashed, outside>>

-----------------------------------------------------------------------------
(* scheduleUnblock *)

Mutant_UnblockerWakes(u) ==
  /\ At(u, "unblocker.waiting")
  /\ Alone(u)
  /\ \/ Goto(u, "unblocker.unblock")
     \/ u \in closed /\ Goto(u, "unblocker.delete")
  /\ UNCHANGED <<maps, crashed, outside>>

(* Its select: the time has come, or the channel is closed; either if both. *)
UnblockerWakes(u) ==
  /\ At(u, "unblocker.waiting")
  /\ Alone(u)
  /\ \/ now >= go[u].rec.unblockAfter /\ Goto(u, "unblocker.unblock")
     \/ u \in closed /\ Goto(u, "unblocker.delete")
  /\ UNCHANGED <<maps, crashed, outside>>

(* The error is logged and ignored.                                        *)
UnblockerUnblocks(u) ==
  /\ At(u, "unblocker.unblock")
  /\ RuleDeleted(go[u].ip) \/ DeleteRefused(go[u].ip)
  /\ go' = [go EXCEPT ![u].rec = Unblocked(@), ![u].pc = "unblocker.save"]
  /\ UNCHANGED <<maps, crashed, now, dbVars, posted, handled, asked>>

UnblockerSaves(u) ==
  /\ At(u, "unblocker.save")
  /\ Update(go[u].ip, go[u].rec) \/ UpdateFails
  /\ Goto(u, "unblocker.delete")
  /\ UNCHANGED <<maps, crashed, now, rules, posted, handled, asked>>

UnblockerDeletes(u) ==
  /\ At(u, "unblocker.delete")
  /\ unblockCancel' = [unblockCancel EXCEPT ![go[u].ip] = None]
  /\ End(u, "done")
  /\ UNCHANGED <<cancel, closed, crashed, outside>>

-----------------------------------------------------------------------------
(* handleSlackCallback *)

Scans(text) == text = ScannedText

(* A request it cannot use, a callback of something else, a pressed button *)
(* of a message: one this program sent, or one with the text it scans.     *)
PressArrives(p) ==
  /\ Arrives(p, Presses)
  /\ \/ End(p, "done") /\ UNCHANGED asked
     \/ \E text \in Texts, ip \in IPs, button \in Buttons :
          /\ text = SentText => ip \in posted
          /\ \/ /\ Scans(text)
                /\ go' = [go EXCEPT ![p].ip = ip, ![p].action = button,
                                    ![p].pc = "action.select"]
                /\ asked' = asked \cup {ip}
             \/ ~Scans(text) /\ End(p, "unparsed") /\ UNCHANGED asked
  /\ UNCHANGED <<maps, crashed, now, dbVars, rules, posted, handled>>

-----------------------------------------------------------------------------
(* unblockHandler and ManualUnblock *)

ManualArrives(m) ==
  /\ Arrives(m, Unblocks)
  /\ \/ End(m, "done")
     \/ \E ip \in Accepted :
          go' = [go EXCEPT ![m].ip = ip, ![m].pc = "manual.select"]
  /\ UNCHANGED <<maps, crashed, outside>>

ManualStarts(m, row) ==
  \/ row.blockedAt = 0 /\ End(m, "done")
  \/ /\ row.blockedAt # 0
     /\ go' = [go EXCEPT ![m].rec = row, ![m].pc = "manual.lookup"]

ManualSelects(m) ==
  /\ At(m, "manual.select")
  /\ \/ Finds(go[m].ip) /\ ManualStarts(m, blocks[go[m].ip])
     \/ ~Finds(go[m].ip) /\ Goto(m, "manual.insert")
     \/ QueryMayFail /\ End(m, "failed")
  /\ UNCHANGED <<maps, crashed, outside>>

ManualInserts(m) ==
  /\ At(m, "manual.insert")
  /\ \/ Insert(go[m].ip) /\ ManualStarts(m, NewRecord)
     \/ InsertFails(go[m].ip) /\ End(m, "failed")
  /\ UNCHANGED <<maps, crashed, now, rules, posted, handled, asked>>

ManualLooksUpTimer(m) ==
  /\ At(m, "manual.lookup")
  /\ LooksUp(m, cancel, "manual.close", "manual.lookup2")
  /\ UNCHANGED <<maps, crashed, outside>>

ManualClosesTimer(m) ==
  /\ At(m, "manual.close")
  /\ Closes(m, "manual.delete")
  /\ UNCHANGED outside

ManualDeletesTimer(m) ==
  /\ At(m, "manual.delete")
  /\ cancel' = [cancel EXCEPT ![go[m].ip] = None]
  /\ Goto(m, "manual.lookup2")
  /\ UNCHANGED <<unblockCancel, closed, crashed, outside>>

Mutant_ManualLooksUpUnblock(m) ==
  /\ At(m, "manual.lookup2")
  /\ Goto(m, "manual.unblock")
  /\ UNCHANGED <<maps, crashed, outside>>

ManualLooksUpUnblock(m) ==
  /\ At(m, "manual.lookup2")
  /\ LooksUp(m, unblockCancel, "manual.close2", "manual.unblock")
  /\ UNCHANGED <<maps, crashed, outside>>

Mutant_ManualClosesUnblock(m) ==
  /\ At(m, "manual.close2")
  /\ Closes(m, "manual.unblock")
  /\ UNCHANGED outside

ManualClosesUnblock(m) ==
  /\ At(m, "manual.close2")
  /\ Closes(m, "manual.delete2")
  /\ UNCHANGED outside

ManualDeletesUnblock(m) ==
  /\ At(m, "manual.delete2")
  /\ unblockCancel' = [unblockCancel EXCEPT ![go[m].ip] = None]
  /\ Goto(m, "manual.unblock")
  /\ UNCHANGED <<cancel, closed, crashed, outside>>

(* On an error it returns: the channels are closed, the record stays.      *)
ManualUnblocks(m) ==
  /\ At(m, "manual.unblock")
  /\ \/ /\ RuleDeleted(go[m].ip)
        /\ go' = [go EXCEPT ![m].rec = Unblocked(@), ![m].pc = "manual.save"]
     \/ DeleteRefused(go[m].ip) /\ End(m, "failed")
  /\ UNCHANGED <<maps, crashed, now, dbVars, posted, handled, asked>>

ManualSaves(m) ==
  /\ At(m, "manual.save")
  /\ \/ Update(go[m].ip, go[m].rec) /\ End(m, "done")
     \/ UpdateFails /\ End(m, "failed")
  /\ UNCHANGED <<maps, crashed, now, rules, posted, handled, asked>>

-----------------------------------------------------------------------------
(* The clock and the process *)

Deadlines ==
  {go[t].due : t \in {t \in Timers : At(t, "timer.armed")}} \cup
  {go[u].rec.unblockAfter : u \in {u \in Unblockers : At(u, "unblocker.waiting")}}

(* Time goes on while something may still arrive or is still awaited.      *)
Tick ==
  /\ now < Horizon \/ \E d \in Deadlines : now < d
  /\ Serial => /\ \A g \in Goroutines : Idle(g)
               /\ \A d \in Deadlines : now < d
  /\ now' = now + 1
  /\ UNCHANGED <<memory, dbVars, rules, posted, handled, asked>>

Restart ==
  /\ "restart" \in Faults
  /\ Stops
  /\ UNCHANGED outside

(* The next access of g is to Manager.cancel, or to Manager.unblockCancel. *)
WritesCancel(g) ==
  go[g].pc \in {"event.arm", "action.delete", "timer.delete", "manual.delete"}
ReadsCancel(g) == go[g].pc \in {"action.lookup", "manual.lookup"}
WritesUnblock(g) ==
  go[g].pc \in {"action.spawn", "unblocker.delete", "manual.delete2"}
ReadsUnblock(g) == At(g, "manual.lookup2")

(* The maps have no lock.  The runtime stops the process when it catches a *)
(* write together with another access, and does not always catch it.       *)
MapRace ==
  /\ "maprace" \in Faults
  /\ \E g \in Goroutines : \E h \in Goroutines \ {g} :
       \/ WritesCancel(g) /\ (WritesCancel(h) \/ ReadsCancel(h))
       \/ WritesUnblock(g) /\ (WritesUnblock(h) \/ ReadsUnblock(h))
  /\ Stops
  /\ UNCHANGED outside

-----------------------------------------------------------------------------

(* What a goroutine does once it has been started.                         *)
EventSteps(e) ==
  \/ EventSelects(e) \/ EventInserts(e) \/ EventNotifies(e)
  \/ EventArms(e) \/ EventSaves(e)

ActionSteps(g) ==
  \/ ActionSelects(g) \/ ActionInserts(g) \/ ActionExecutes(g)
  \/ ActionLooksUp(g) \/ ActionCloses(g) \/ ActionDeletes(g)
  \/ ActionSpawns(g) \/ ActionSaves(g)

TimerSteps(t) ==
  TimerFires(t) \/ TimerSelects(t) \/ TimerUpdates(t) \/ TimerDeletes(t)

UnblockerSteps(u) ==
  \/ UnblockerWakes(u) \/ UnblockerUnblocks(u)
  \/ UnblockerSaves(u) \/ UnblockerDeletes(u)

ManualSteps(m) ==
  \/ ManualSelects(m) \/ ManualInserts(m)
  \/ ManualLooksUpTimer(m) \/ ManualClosesTimer(m) \/ ManualDeletesTimer(m)
  \/ ManualLooksUpUnblock(m) \/ ManualClosesUnblock(m)
  \/ ManualDeletesUnblock(m) \/ ManualUnblocks(m) \/ ManualSaves(m)

Next ==
  \/ Tick \/ Restart \/ MapRace
  \/ \E e \in Events : EventArrives(e) \/ EventSteps(e)
  \/ \E p \in Presses : PressArrives(p)
  \/ \E m \in Unblocks : ManualArrives(m) \/ ManualSteps(m)
  \/ \E t \in Timers : TimerSteps(t)
  \/ \E u \in Unblockers : UnblockerSteps(u)
  \/ \E g \in Events \cup Presses \cup Timers : ActionSteps(g)

Spec == Init /\ [][Next]_vars

=============================================================================
