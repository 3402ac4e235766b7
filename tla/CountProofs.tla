---------------------------- MODULE CountProofs -----------------------------
(***************************************************************************)
(* Proof that nothing is blocked before trigger_count of its events were   *)
(* counted, unless a button was pressed for it: NoPrematureBlock.          *)
(*                                                                         *)
(* The invariant: no record, in the table or held by a goroutine, counts   *)
(* more events than were handled for its address, and a goroutine on its   *)
(* way to a firewall call has the events, or the button, that allow it.    *)
(* Both only grow, so a stale record can be too low but never too high.    *)
(***************************************************************************)
EXTENDS ManagerProofs

(* The labels between the decision to act on an address and the end of it. *)
Acting == {"event.notify", "event.arm", "action.select", "action.insert",
           "action.execute", "action.lookup", "action.close", "action.delete",
           "action.spawn", "action.save", "timer.armed", "timer.select",
           "timer.update", "timer.delete"}

(* h are the events handled, a the addresses asked for.                    *)
Justified(ip, h, a) == ip \in a \/ h[ip] >= Threshold

(* The two records of a frame, and what it may do.                         *)
Counted(f, h, a) ==
  /\ f.ip \in IPs => /\ f.rec.triggerCount <= h[f.ip]
                     /\ f.arec.triggerCount <= h[f.ip]
  /\ f.pc = "new" => f.rec.triggerCount = 0 /\ f.arec.triggerCount = 0
  /\ f.pc \in Acting => Justified(f.ip, h, a)

(* The invariant: goroutines, table and rules.                             *)
GoCounted == \A g \in Goroutines : Counted(go[g], handled, asked)
TableCounted == \A ip \in IPs : blocks[ip].triggerCount <= handled[ip]

CountOK == GoCounted /\ TableCounted /\ NoPrematureBlock

-----------------------------------------------------------------------------
(* One frame *)

(* A goroutine that has ended holds a new record and acts on nothing.      *)
LEMMA EndedCounted ==
  ASSUME NEW l \in Ended \cup {"new"}, NEW h, NEW a
  PROVE  Counted(Frame(l), h, a)
<1>1. l \notin Acting
  BY DEF Ended, Acting
<1>. QED BY <1>1, ManagerAssumption DEF Counted, Frame, NewRecord

(* More events and more pressed buttons allow what fewer allow.            *)
LEMMA CountedGrows ==
  ASSUME NEW f, FrameOK(f), NEW h \in [IPs -> Nat], NEW k \in [IPs -> Nat],
         NEW a, NEW b, \A ip \in IPs : h[ip] <= k[ip], a \subseteq b,
         Counted(f, h, a)
  PROVE  Counted(f, k, b)
<1>1. f.rec.triggerCount \in Nat /\ f.arec.triggerCount \in Nat
  BY DEF FrameOK, RowOK, Records
<1>2. Threshold \in Int
  BY ConfigAssumption DEF Threshold
<1>3. f.pc \in Acting => f.ip \in IPs
  BY DEF FrameOK, Acting, Ended
<1>. QED BY <1>1, <1>2, <1>3 DEF Counted, Justified

(* A step changes one frame, by one that is counted.                       *)
LEMMA SetCounted ==
  ASSUME StateOK, GoCounted, NEW g \in Goroutines, NEW f,
         Counted(f, handled, asked), go' = [go EXCEPT ![g] = f],
         UNCHANGED <<handled, asked>>
  PROVE  GoCounted'
BY DEF GoCounted, StateOK, GoOK

(* A goroutine ends.                                                       *)
LEMMA EndCounted ==
  ASSUME StateOK, GoCounted, NEW g \in Goroutines, NEW l \in Ended, End(g, l),
         UNCHANGED <<handled, asked>>
  PROVE  GoCounted'
BY EndedCounted, SetCounted DEF End

(* A goroutine goes on; only an acting one to an acting label.             *)
LEMMA GotoCounted ==
  ASSUME StateOK, GoCounted, NEW g \in Goroutines,
         NEW l, l # "new", l \notin Acting \/ go[g].pc \in Acting, Goto(g, l),
         UNCHANGED <<handled, asked>>
  PROVE  GoCounted'
<1>. DEFINE f == [go[g] EXCEPT !.pc = l]
<1>1. go' = [go EXCEPT ![g] = f]
  BY DEF Goto, StateOK, GoOK
<1>2. Counted(f, handled, asked)
  BY DEF GoCounted, Counted, StateOK, GoOK, Frames
<1>. QED BY <1>1, <1>2, SetCounted

(* A goroutine goes on with a record that counts no more than was handled. *)
LEMMA RecordCounted ==
  ASSUME StateOK, GoCounted, NEW g \in Goroutines, go[g].ip \in IPs,
         NEW l, l # "new", l \notin Acting \/ go[g].pc \in Acting,
         NEW r, r.triggerCount <= handled[go[g].ip],
         \/ go' = [go EXCEPT ![g].rec = r, ![g].pc = l]
         \/ go' = [go EXCEPT ![g].arec = r, ![g].pc = l],
         UNCHANGED <<handled, asked>>
  PROVE  GoCounted'
<1>1. CASE go' = [go EXCEPT ![g].rec = r, ![g].pc = l]
  <2>. DEFINE f == [go[g] EXCEPT !.rec = r, !.pc = l]
  <2>1. go' = [go EXCEPT ![g] = f]
    BY <1>1 DEF StateOK, GoOK
  <2>2. Counted(f, handled, asked)
    BY DEF GoCounted, Counted, StateOK, GoOK, Frames
  <2>. QED BY <2>1, <2>2, SetCounted
<1>2. CASE go' = [go EXCEPT ![g].arec = r, ![g].pc = l]
  <2>. DEFINE f == [go[g] EXCEPT !.arec = r, !.pc = l]
  <2>1. go' = [go EXCEPT ![g] = f]
    BY <1>2 DEF StateOK, GoOK
  <2>2. Counted(f, handled, asked)
    BY DEF GoCounted, Counted, StateOK, GoOK, Frames
  <2>. QED BY <2>1, <2>2, SetCounted
<1>. QED BY <1>1, <1>2

(* The process stops: the events handled stay.                             *)
LEMMA StopsCounted ==
  ASSUME StateOK, GoCounted, Stops, UNCHANGED <<handled, asked>> PROVE GoCounted'
<1>1. Counted(Frame("failed"), handled, asked)
  BY EndedCounted DEF Ended
<1>. QED BY <1>1 DEF Stops, GoCounted

(* A panic ends one request, or the process.                               *)
LEMMA PanicsCounted ==
  ASSUME StateOK, GoCounted, NEW g \in Goroutines, Panics(g),
         UNCHANGED <<handled, asked>>
  PROVE  GoCounted'
BY EndCounted, StopsCounted DEF Panics, Ended

(* close(ch), whether it panics or not.                                    *)
LEMMA ClosesCounted ==
  ASSUME StateOK, GoCounted, NEW g \in Goroutines,
         NEW l, l # "new", l \notin Acting \/ go[g].pc \in Acting, Closes(g, l),
         UNCHANGED <<handled, asked>>
  PROVE  GoCounted'
BY GotoCounted, PanicsCounted DEF Closes

(* ExecuteAction returns to its caller.                                    *)
LEMMA ReturnsCounted ==
  ASSUME StateOK, GoCounted, NEW g \in Callers, go[g].ip \in IPs,
         go[g].pc \in Acting, Returns(g), UNCHANGED <<handled, asked>>
  PROVE  GoCounted'
<1>0. g \in Goroutines
  BY DEF Callers, Goroutines, Requests
<1>1. CASE g \in Presses /\ End(g, "done")
  BY <1>0, <1>1, EndCounted DEF Ended
<1>2. CASE g \notin Presses
  <2>. DEFINE l == IF g \in Events THEN "event.save" ELSE "timer.update"
              f == [go[g] EXCEPT !.arec = NewRecord, !.chan = None, !.pc = l]
  <2>1. go' = [go EXCEPT ![g].arec = NewRecord, ![g].chan = None, ![g].pc = l]
    BY <1>2 DEF Returns
  <2>2. go' = [go EXCEPT ![g] = f]
    BY <1>0, <2>1 DEF StateOK, GoOK
  <2>3. NewRecord.triggerCount <= handled[go[g].ip]
    BY DEF NewRecord, StateOK, OutsideOK
  <2>4. Counted(f, handled, asked)
    BY <1>0, <2>3 DEF GoCounted, Counted, StateOK, GoOK, Frames
  <2>. QED BY <1>0, <2>2, <2>4, SetCounted
<1>. QED BY <1>1, <1>2 DEF Returns

-----------------------------------------------------------------------------
(* The table and the rules *)

(* A step within the process leaves table and rules alone.                 *)
LEMMA SameCounted ==
  ASSUME TableCounted, NoPrematureBlock, UNCHANGED outside
  PROVE  TableCounted' /\ NoPrematureBlock'
BY DEF TableCounted, NoPrematureBlock, outside, dbVars

(* A step that leaves the table alone.                                     *)
LEMMA SameTable ==
  ASSUME TableCounted, UNCHANGED <<dbVars, handled>> PROVE TableCounted'
BY DEF TableCounted, dbVars

(* UpdateBlockRecord writes a record, stale or not, that counts no more    *)
(* than was handled.                                                       *)
LEMMA UpdateCounted ==
  ASSUME StateOK, TableCounted, NEW ip \in IPs, NEW r,
         r.triggerCount <= handled[ip],
         Update(ip, r) \/ UpdateFails, UNCHANGED handled
  PROVE  TableCounted'
<1>1. CASE Update(ip, r)
  BY <1>1 DEF TableCounted, Update, StateOK, TableOK, TableTypeOK
<1>2. CASE UpdateFails
  BY <1>2 DEF TableCounted, UpdateFails, dbVars
<1>. QED BY <1>1, <1>2

(* A new row counts nothing.                                               *)
LEMMA InsertCounted ==
  ASSUME StateOK, TableCounted, NEW ip \in IPs, Insert(ip) \/ InsertFails(ip),
         UNCHANGED handled
  PROVE  TableCounted'
<1>1. CASE Insert(ip)
  <2>1. NewRecord.triggerCount <= handled[ip]
    BY DEF NewRecord, StateOK, OutsideOK
  <2>. QED BY <1>1, <2>1 DEF TableCounted, Insert, StateOK, TableOK, TableTypeOK
<1>2. CASE InsertFails(ip)
  BY <1>2 DEF TableCounted, InsertFails, dbVars
<1>. QED BY <1>1, <1>2

(* Where the rules do not grow, or grow by a justified address.            *)
LEMMA RulesKept ==
  ASSUME NoPrematureBlock, rules' \subseteq rules, UNCHANGED <<handled, asked>>
  PROVE  NoPrematureBlock'
BY DEF NoPrematureBlock

(* A rule inserted for a justified address.                                *)
LEMMA RuleAdded ==
  ASSUME NoPrematureBlock, NEW ip \in IPs, Justified(ip, handled, asked),
         rules' \subseteq rules \cup {ip}, UNCHANGED <<handled, asked>>
  PROVE  NoPrematureBlock'
BY DEF NoPrematureBlock, Justified

-----------------------------------------------------------------------------
(* Events *)

(* HandleEvent counts the event in its copy: the only place where a record *)
(* counts one more, and one more is handled. It goes on to act only if the *)
(* copy has reached trigger_count, and the events handled are at least as  *)
(* many.                                                                   *)
LEMMA EventCountsCounted ==
  ASSUME StateOK, GoCounted, NEW e \in Events, go[e].ip \in IPs,
         NEW row, RowOK(row), row.triggerCount <= handled[go[e].ip],
         EventCounts(e, row), UNCHANGED asked
  PROVE  /\ GoCounted'
         /\ \A ip \in IPs : handled'[ip] >= handled[ip]
<1>0. e \in Goroutines /\ handled \in [IPs -> Nat] /\ Threshold \in Int
  BY ConfigAssumption DEF Goroutines, Requests, StateOK, OutsideOK, Threshold
<1>. DEFINE ip == go[e].ip
            r == AfterWindow(row, now)
            c == CountEvent(r, now)
<1>1. CASE End(e, "done") /\ UNCHANGED handled
  BY <1>0, <1>1, EndCounted DEF Ended
<1>2. CASE /\ go' = [go EXCEPT ![e].rec = c, ![e].pc = AfterCount(c)]
           /\ handled' = [handled EXCEPT ![ip] = @ + 1]
  <2>. DEFINE f == [go[e] EXCEPT !.rec = c, !.pc = AfterCount(c)]
  <2>1. /\ handled' \in [IPs -> Nat]
        /\ \A i \in IPs : handled[i] <= handled'[i]
        /\ handled'[ip] = handled[ip] + 1
    BY <1>0, <1>2
  <2>2. /\ c.triggerCount \in Nat
        /\ c.triggerCount <= handled'[ip]
    <3>1. r \in Records /\ row \in Records
      BY EventRecordOK DEF RowOK, StateOK, OutsideOK
    <3>2. r.triggerCount <= row.triggerCount
      BY <3>1 DEF AfterWindow, Records
    <3>3. c.triggerCount = r.triggerCount + 1
      BY <3>1 DEF CountEvent, Records
    <3>. QED BY <1>0, <2>1, <3>1, <3>2, <3>3 DEF Records
  <2>3. go' = [go EXCEPT ![e] = f]
    BY <1>0, <1>2 DEF StateOK, GoOK
  <2>4. AfterCount(c) # "new" /\ (AfterCount(c) \in Acting => c.triggerCount = Threshold)
    BY DEF AfterCount, Acting
  <2>. HIDE DEF c
  <2>5. /\ f.ip = ip /\ f.rec = c /\ f.arec = go[e].arec /\ f.pc = AfterCount(c)
        /\ go[e].arec.triggerCount <= handled[ip]
        /\ go[e].arec.triggerCount \in Nat
    BY <1>0 DEF StateOK, GoOK, FrameOK, Frames, RowOK, Records, GoCounted, Counted
  <2>6. Counted(f, handled', asked')
    BY <1>0, <2>1, <2>2, <2>4, <2>5 DEF Counted, Justified
  <2>7. \A g \in Goroutines : Counted(go[g], handled', asked')
    BY <1>0, <2>1, CountedGrows DEF GoCounted, StateOK, GoOK
  <2>. HIDE DEF f
  <2>8. GoCounted'
    BY <1>0, <2>3, <2>6, <2>7 DEF GoCounted, StateOK, GoOK
  <2>. QED BY <1>0, <2>1, <2>8
<1>. QED BY <1>1, <1>2 DEF EventCounts, r, c

(* The invariant where only an event's own count moves.                    *)
LEMMA HandledGrows ==
  ASSUME StateOK, StateOK', CountOK, UNCHANGED <<blocks, rules, asked>>,
         \A ip \in IPs : handled'[ip] >= handled[ip]
  PROVE  TableCounted' /\ NoPrematureBlock'
<1>1. Threshold \in Int
  BY ConfigAssumption DEF Threshold
<1>2. \A ip \in IPs : handled[ip] \in Nat /\ handled'[ip] \in Nat
                      /\ blocks[ip].triggerCount \in Nat
  BY DEF StateOK, OutsideOK, TableOK, RowOK, Records
<1>3. TableCounted'
  BY <1>2 DEF CountOK, TableCounted
<1>4. rules \subseteq IPs
  BY DEF StateOK, OutsideOK, FirewallTypeOK
<1>5. NoPrematureBlock'
  BY <1>1, <1>2, <1>4 DEF CountOK, NoPrematureBlock
<1>. QED BY <1>3, <1>5

(* A new record counts nothing.                                            *)
LEMMA NewCounted ==
  ASSUME StateOK, NEW ip \in IPs
  PROVE  RowOK(NewRecord) /\ NewRecord.triggerCount <= handled[ip]
BY NewRecordOK DEF NewRecord, StateOK, OutsideOK

(* handleEvent receives an event.                                          *)
LEMMA EventArrivesCounted ==
  ASSUME StateOK, CountOK, NEW e \in Events, EventArrives(e) PROVE CountOK'
<1>0. e \in Goroutines /\ At(e, "new") /\ UNCHANGED outside
  BY DEF Goroutines, Requests, EventArrives, Arrives, Fresh
<1>1. UNCHANGED <<handled, asked>>
  BY <1>0 DEF outside
<1>2. ASSUME End(e, "done") PROVE GoCounted'
  BY <1>0, <1>1, <1>2, EndCounted DEF Ended, CountOK
<1>3. ASSUME NEW ip \in IPs, go' = [go EXCEPT ![e].ip = ip, ![e].pc = "event.select"]
      PROVE  GoCounted'
  <2>. DEFINE f == [go[e] EXCEPT !.ip = ip, !.pc = "event.select"]
  <2>1. go' = [go EXCEPT ![e] = f]
    BY <1>0, <1>3 DEF StateOK, GoOK
  <2>2. Counted(f, handled, asked)
    <3>1. go[e].rec.triggerCount = 0 /\ go[e].arec.triggerCount = 0
      BY <1>0 DEF CountOK, GoCounted, Counted, At
    <3>2. handled[ip] >= 0
      BY DEF StateOK, OutsideOK
    <3>3. "event.select" \notin Acting
      BY DEF Acting
    <3>. QED BY <1>0, <3>1, <3>2, <3>3 DEF Counted, StateOK, GoOK, Frames
  <2>. QED BY <1>0, <1>1, <2>1, <2>2, SetCounted DEF CountOK
<1>4. GoCounted'
  BY <1>2, <1>3 DEF EventArrives, Accepted
<1>. QED BY <1>0, <1>4, SameCounted DEF CountOK

(* HandleEvent reads or makes the row and counts.                          *)
LEMMA EventReadsCounted ==
  ASSUME StateOK, StateOK', CountOK, NEW e \in Events, EventSelects(e) \/ EventInserts(e)
  PROVE  CountOK'
<1>0. e \in Goroutines /\ go[e].ip \in IPs /\ UNCHANGED <<rules, asked>>
  BY Running DEF Goroutines, Requests, StateOK, EventSelects, EventInserts, At, Ended
<1>1. CASE EventSelects(e)
  <2>1. ASSUME EventCounts(e, blocks[go[e].ip])
        PROVE  GoCounted' /\ \A ip \in IPs : handled'[ip] >= handled[ip]
    <3>1. RowOK(blocks[go[e].ip]) /\ blocks[go[e].ip].triggerCount <= handled[go[e].ip]
      BY <1>0 DEF StateOK, TableOK, CountOK, TableCounted
    <3>. QED BY <1>0, <2>1, <3>1, EventCountsCounted DEF CountOK
  <2>2. ASSUME Goto(e, "event.insert"), UNCHANGED handled
        PROVE  GoCounted' /\ \A ip \in IPs : handled'[ip] >= handled[ip]
    BY <1>0, <2>2, GotoCounted DEF CountOK, Acting, StateOK, OutsideOK
  <2>3. ASSUME End(e, "failed"), UNCHANGED handled
        PROVE  GoCounted' /\ \A ip \in IPs : handled'[ip] >= handled[ip]
    BY <1>0, <2>3, EndCounted DEF CountOK, Ended, StateOK, OutsideOK
  <2>4. GoCounted' /\ \A ip \in IPs : handled'[ip] >= handled[ip]
    BY <1>1, <2>1, <2>2, <2>3 DEF EventSelects
  <2>. QED BY <1>0, <1>1, <2>4, HandledGrows DEF CountOK, EventSelects, dbVars
<1>2. CASE EventInserts(e)
  <2>1. ASSUME EventCounts(e, NewRecord)
        PROVE  GoCounted' /\ \A ip \in IPs : handled'[ip] >= handled[ip]
    BY <1>0, <2>1, NewCounted, EventCountsCounted DEF CountOK
  <2>2. ASSUME End(e, "failed"), UNCHANGED handled
        PROVE  GoCounted' /\ \A ip \in IPs : handled'[ip] >= handled[ip]
    BY <1>0, <2>2, EndCounted DEF CountOK, Ended, StateOK, OutsideOK
  <2>3. GoCounted' /\ \A ip \in IPs : handled'[ip] >= handled[ip]
    BY <1>2, <2>1, <2>2 DEF EventInserts
  <2>4. \A ip \in IPs : blocks'[ip].triggerCount <= handled[ip]
    <3>1. \A ip \in IPs : blocks'[ip] \in {blocks[ip], NewRecord}
      BY <1>0, <1>2 DEF EventInserts, Insert, InsertFails, dbVars, StateOK, TableOK, TableTypeOK
    <3>. QED BY <3>1, NewCounted DEF CountOK, TableCounted
  <2>5. \A ip \in IPs : handled[ip] \in Nat /\ handled'[ip] \in Nat
                        /\ blocks'[ip].triggerCount \in Nat
    BY DEF StateOK, OutsideOK, TableOK, RowOK, Records
  <2>6. TableCounted'
    BY <2>3, <2>4, <2>5 DEF TableCounted
  <2>7. NoPrematureBlock'
    <3>1. Threshold \in Int /\ rules \subseteq IPs
      BY ConfigAssumption DEF Threshold, StateOK, OutsideOK, FirewallTypeOK
    <3>. QED BY <1>0, <2>3, <2>5, <3>1 DEF CountOK, NoPrematureBlock
  <2>. QED BY <2>3, <2>6, <2>7 DEF CountOK
<1>. QED BY <1>1, <1>2

(* A goroutine with a frame of its own is started by one that acts.        *)
LEMMA StartCounted ==
  ASSUME StateOK, GoCounted, NEW g \in Goroutines, NEW l, l # "new",
         l \notin Acting \/ go[g].pc \in Acting,
         NEW h \in Goroutines, h # g, NEW f, Counted(f, handled, asked),
         go' = [go EXCEPT ![g].pc = l, ![h] = f], UNCHANGED <<handled, asked>>
  PROVE  GoCounted'
<1>1. Counted([go[g] EXCEPT !.pc = l], handled, asked)
  BY DEF GoCounted, Counted, StateOK, GoOK, Frames
<1>2. \A k \in Goroutines :
        go'[k] = IF k = h THEN f ELSE IF k = g THEN [go[g] EXCEPT !.pc = l] ELSE go[k]
  BY DEF StateOK, GoOK
<1>. QED BY <1>1, <1>2 DEF GoCounted

(* The other steps of an event; the timer it starts inherits what justifies*)
(* it.                                                                     *)
LEMMA EventStepsCounted ==
  ASSUME StateOK, StateOK', CountOK, NEW e \in Events, EventSteps(e) PROVE CountOK'
<1>0. e \in Goroutines /\ go[e].ip \in IPs
  BY Running DEF Goroutines, Requests, StateOK, EventSteps, EventSelects, EventInserts,
                 EventNotifies, EventArms, EventSaves, At, Ended
<1>1. CASE EventNotifies(e)
  <2>1. GoCounted'
    BY <1>0, <1>1, GotoCounted DEF CountOK, EventNotifies, At, Acting
  <2>. QED BY <1>1, <2>1, SameTable, RulesKept DEF CountOK, EventNotifies
<1>2. CASE EventArms(e)
  <2>0. UNCHANGED outside /\ UNCHANGED <<handled, asked>> /\ go[e].pc = "event.arm"
    BY <1>2 DEF EventArms, outside, At
  <2>1. PICK t \in Timers :
          /\ At(t, "new")
          /\ go' = [go EXCEPT
                      ![e].pc = "event.save",
                      ![t] = [Frame("timer.armed") EXCEPT
                                !.ip = go[e].ip, !.due = now + Timeout * Minute]]
    BY <1>2 DEF EventArms, Fresh
  <2>2. t \in Goroutines /\ t # e
    BY <2>0, <2>1 DEF Goroutines, At
  <2>. DEFINE f == [Frame("timer.armed") EXCEPT
                      !.ip = go[e].ip, !.due = now + Timeout * Minute]
  <2>3. Counted(f, handled, asked)
    <3>1. Justified(go[e].ip, handled, asked)
      BY <1>0, <2>0 DEF CountOK, GoCounted, Counted, Acting
    <3>2. /\ f.ip = go[e].ip /\ f.rec = NewRecord /\ f.arec = NewRecord
          /\ f.pc = "timer.armed"
      BY DEF Frame
    <3>. QED BY <1>0, <3>1, <3>2, NewCounted DEF Counted
  <2>4. go' = [go EXCEPT ![e].pc = "event.save", ![t] = f]
    BY <2>1
  <2>. HIDE DEF f
  <2>5. GoCounted'
    <3>1. "event.save" \notin Acting /\ "event.save" # "new"
      BY DEF Acting
    <3>. QED BY <1>0, <2>0, <2>2, <2>3, <2>4, <3>1, StartCounted DEF CountOK
  <2>. QED BY <2>0, <2>5, SameCounted DEF CountOK
<1>3. CASE EventSaves(e)
  <2>1. GoCounted'
    BY <1>0, <1>3, EndCounted DEF CountOK, EventSaves, Ended
  <2>2. TableCounted'
    BY <1>0, <1>3, UpdateCounted DEF CountOK, EventSaves, GoCounted, Counted
  <2>. QED BY <1>3, <2>1, <2>2, RulesKept DEF CountOK, EventSaves
<1>. QED BY <1>1, <1>2, <1>3, EventReadsCounted DEF EventSteps

-----------------------------------------------------------------------------
(* ExecuteAction *)

(* ExecuteAction skips the action or goes on with the row.                 *)
LEMMA ActionStartsCounted ==
  ASSUME StateOK, GoCounted, NEW g \in Callers, go[g].ip \in IPs, go[g].pc \in Acting,
         NEW row, row.triggerCount <= handled[go[g].ip], ActionStarts(g, row),
         UNCHANGED <<handled, asked>>
  PROVE  GoCounted'
<1>0. g \in Goroutines
  BY DEF Callers, Goroutines, Requests
<1>1. CASE Returns(g)
  BY <1>1, ReturnsCounted
<1>2. CASE go' = [go EXCEPT ![g].arec = row, ![g].pc = "action.execute"]
  BY <1>0, <1>2, RecordCounted DEF Acting
<1>. QED BY <1>1, <1>2 DEF ActionStarts

(* ExecuteAction reads or makes the row.                                   *)
LEMMA ActionReadsCounted ==
  ASSUME StateOK, CountOK, NEW g \in Callers, ActionSelects(g) \/ ActionInserts(g)
  PROVE  CountOK'
<1>0. g \in Goroutines /\ go[g].ip \in IPs /\ go[g].pc \in Acting
  BY Running DEF Goroutines, Requests, Callers, StateOK, ActionSelects, ActionInserts,
                 At, Ended, Acting
<1>1. CASE ActionSelects(g)
  <2>0. UNCHANGED outside /\ UNCHANGED <<handled, asked>>
    BY <1>1 DEF ActionSelects, outside
  <2>1. ASSUME ActionStarts(g, blocks[go[g].ip]) PROVE GoCounted'
    <3>1. blocks[go[g].ip].triggerCount <= handled[go[g].ip]
      BY <1>0 DEF CountOK, TableCounted
    <3>. QED BY <1>0, <2>0, <2>1, <3>1, ActionStartsCounted DEF CountOK
  <2>2. ASSUME Goto(g, "action.insert") PROVE GoCounted'
    BY <1>0, <2>0, <2>2, GotoCounted DEF CountOK
  <2>3. ASSUME Panics(g) PROVE GoCounted'
    BY <1>0, <2>0, <2>3, PanicsCounted DEF CountOK
  <2>4. GoCounted'
    BY <1>1, <2>1, <2>2, <2>3 DEF ActionSelects
  <2>. QED BY <2>0, <2>4, SameCounted DEF CountOK
<1>2. CASE ActionInserts(g)
  <2>0. UNCHANGED <<handled, asked, rules>>
    BY <1>2 DEF ActionInserts
  <2>1. ASSUME ActionStarts(g, NewRecord) PROVE GoCounted'
    BY <1>0, <2>0, <2>1, NewCounted, ActionStartsCounted DEF CountOK
  <2>2. ASSUME Panics(g) PROVE GoCounted'
    BY <1>0, <2>0, <2>2, PanicsCounted DEF CountOK
  <2>3. GoCounted'
    BY <1>2, <2>1, <2>2 DEF ActionInserts
  <2>4. TableCounted'
    BY <1>0, <1>2, <2>0, InsertCounted DEF CountOK, ActionInserts
  <2>. QED BY <2>0, <2>3, <2>4, RulesKept DEF CountOK
<1>. QED BY <1>1, <1>2

(* ExecuteAction calls the firewall: the step that adds a rule.            *)
LEMMA ActionExecutesCounted ==
  ASSUME StateOK, CountOK, NEW g \in Callers, ActionExecutes(g) PROVE CountOK'
<1>0. g \in Goroutines /\ go[g].ip \in IPs /\ go[g].pc \in Acting
  BY Running DEF Goroutines, Requests, Callers, StateOK, ActionExecutes, At, Ended, Acting
<1>1. UNCHANGED <<handled, asked, dbVars>>
  BY DEF ActionExecutes
<1>2. ASSUME Executed(g) PROVE GoCounted'
  <2>. DEFINE l == IF go[g].action \in Blocking THEN "action.lookup" ELSE "action.save"
  <2>1. l # "new" /\ l \in Acting
    BY DEF Acting
  <2>2. MarkTaken(go[g].arec).triggerCount <= handled[go[g].ip]
    BY <1>0 DEF MarkTaken, CountOK, GoCounted, Counted, StateOK, GoOK, FrameOK, RowOK, Records
  <2>3. go' = [go EXCEPT ![g].arec = MarkTaken(go[g].arec), ![g].pc = l]
    BY <1>0, <1>2 DEF Executed, StateOK, GoOK
  <2>. HIDE DEF l
  <2>. QED BY <1>0, <1>1, <2>1, <2>2, <2>3, RecordCounted DEF CountOK
<1>3. GoCounted'
  <2>1. Executed(g) \/ Returns(g)
    BY DEF ActionExecutes
  <2>. QED BY <1>0, <1>1, <1>2, <2>1, ReturnsCounted DEF CountOK
<1>4. rules' \subseteq rules \cup {go[g].ip}
  BY DEF ActionExecutes, RuleInserted, InsertRefused
<1>5. Justified(go[g].ip, handled, asked)
  BY <1>0 DEF CountOK, GoCounted, Counted
<1>. QED BY <1>0, <1>1, <1>3, <1>4, <1>5, RuleAdded, SameTable DEF CountOK

(* Marking a record blocked leaves its count alone.                        *)
LEMMA ActionLooksUpCounted ==
  ASSUME StateOK, CountOK, NEW g \in Callers, ActionLooksUp(g) PROVE CountOK'
<1>0. g \in Goroutines /\ go[g].ip \in IPs /\ go[g].pc \in Acting
  BY Running DEF Goroutines, Requests, Callers, StateOK, ActionLooksUp, At, Ended, Acting
<1>1. UNCHANGED outside /\ UNCHANGED <<handled, asked>>
  BY DEF ActionLooksUp, outside
<1>. DEFINE r == MarkBlocked(go[g].arec, now)
            c == cancel[go[g].ip]
<1>2. r.triggerCount <= handled[go[g].ip]
  <2>1. go[g].arec \in Records
    BY <1>0 DEF StateOK, GoOK, FrameOK, RowOK
  <2>2. r.triggerCount = go[g].arec.triggerCount
    BY <2>1 DEF MarkBlocked, Records
  <2>. QED BY <1>0, <2>2 DEF CountOK, GoCounted, Counted
<1>3. CASE c # None
  <2>. DEFINE f == [go[g] EXCEPT !.arec = r, !.chan = c, !.pc = "action.close"]
  <2>1. go' = [go EXCEPT ![g] = f]
    BY <1>0, <1>3 DEF ActionLooksUp, StateOK, GoOK
  <2>. HIDE DEF r, c
  <2>2. /\ f.ip = go[g].ip /\ f.rec = go[g].rec /\ f.arec = r /\ f.pc = "action.close"
    BY <1>0 DEF StateOK, GoOK, Frames
  <2>3. Counted(f, handled, asked)
    BY <1>0, <1>2, <2>2 DEF CountOK, GoCounted, Counted
  <2>. HIDE DEF f
  <2>4. GoCounted'
    BY <1>0, <1>1, <2>1, <2>3, SetCounted DEF CountOK
  <2>. QED BY <1>1, <2>4, SameCounted DEF CountOK
<1>4. CASE c = None
  <2>1. go' = [go EXCEPT ![g].arec = r, ![g].pc = "action.spawn"]
    BY <1>4 DEF ActionLooksUp
  <2>. HIDE DEF r
  <2>2. GoCounted'
    BY <1>0, <1>1, <1>2, <2>1, RecordCounted DEF CountOK
  <2>. QED BY <1>1, <2>2, SameCounted DEF CountOK
<1>. QED BY <1>3, <1>4

(* ExecuteAction cancels the timer and starts the unblock.                 *)
LEMMA ActionMapsCounted ==
  ASSUME StateOK, CountOK, NEW g \in Callers,
         ActionCloses(g) \/ ActionDeletes(g) \/ ActionSpawns(g)
  PROVE  CountOK'
<1>0. g \in Goroutines /\ go[g].ip \in IPs /\ go[g].pc \in Acting
  BY Running DEF Goroutines, Requests, Callers, StateOK, ActionCloses, ActionDeletes,
                 ActionSpawns, At, Ended, Acting
<1>1. UNCHANGED outside /\ UNCHANGED <<handled, asked>>
  BY DEF ActionCloses, ActionDeletes, ActionSpawns, outside
<1>2. CASE ActionCloses(g)
  <2>1. GoCounted'
    BY <1>0, <1>1, <1>2, ClosesCounted DEF CountOK, ActionCloses
  <2>. QED BY <1>1, <2>1, SameCounted DEF CountOK
<1>3. CASE ActionDeletes(g)
  <2>1. GoCounted'
    BY <1>0, <1>1, <1>3, GotoCounted DEF CountOK, ActionDeletes
  <2>. QED BY <1>1, <2>1, SameCounted DEF CountOK
<1>4. CASE ActionSpawns(g)
  <2>1. PICK u \in Unblockers :
          /\ At(u, "new")
          /\ go' = [go EXCEPT
                      ![g].pc = "action.save",
                      ![u] = [Frame("unblocker.waiting") EXCEPT
                                !.ip = go[g].ip, !.rec = go[g].arec]]
    BY <1>4 DEF ActionSpawns, Fresh
  <2>2. u \in Goroutines /\ u # g
    BY <1>4, <2>1 DEF Goroutines, ActionSpawns, At
  <2>. DEFINE f == [Frame("unblocker.waiting") EXCEPT !.ip = go[g].ip, !.rec = go[g].arec]
  <2>3. Counted(f, handled, asked)
    <3>1. /\ f.ip = go[g].ip /\ f.rec = go[g].arec /\ f.arec = NewRecord
          /\ f.pc = "unblocker.waiting"
      BY DEF Frame
    <3>2. "unblocker.waiting" \notin Acting
      BY DEF Acting
    <3>. QED BY <1>0, <3>1, <3>2, NewCounted DEF CountOK, GoCounted, Counted
  <2>4. go' = [go EXCEPT ![g].pc = "action.save", ![u] = f]
    BY <2>1
  <2>. HIDE DEF f
  <2>5. GoCounted'
    BY <1>0, <1>1, <2>2, <2>3, <2>4, StartCounted DEF CountOK
  <2>. QED BY <1>1, <2>5, SameCounted DEF CountOK
<1>. QED BY <1>2, <1>3, <1>4

(* ExecuteAction saves its record.                                         *)
LEMMA ActionSavesCounted ==
  ASSUME StateOK, CountOK, NEW g \in Callers, ActionSaves(g) PROVE CountOK'
<1>0. g \in Goroutines /\ go[g].ip \in IPs /\ go[g].pc \in Acting
  BY Running DEF Goroutines, Requests, Callers, StateOK, ActionSaves, At, Ended, Acting
<1>1. UNCHANGED <<handled, asked, rules>>
  BY DEF ActionSaves
<1>2. GoCounted'
  BY <1>0, <1>1, ReturnsCounted DEF CountOK, ActionSaves
<1>3. TableCounted'
  BY <1>0, <1>1, UpdateCounted DEF CountOK, ActionSaves, GoCounted, Counted
<1>. QED BY <1>1, <1>2, <1>3, RulesKept DEF CountOK

-----------------------------------------------------------------------------
(* Timers, unblock goroutines, buttons and manual unblocks *)

(* The steps of the notification timer.                                    *)
LEMMA TimerStepsCounted ==
  ASSUME StateOK, CountOK, NEW t \in Timers, TimerSteps(t) PROVE CountOK'
<1>0. t \in Goroutines /\ go[t].pc \in Acting
  BY DEF Goroutines, TimerSteps, TimerFires, TimerSelects, TimerUpdates, TimerDeletes,
         At, Acting
<1>1. UNCHANGED outside /\ UNCHANGED <<handled, asked>>
  BY DEF TimerSteps, TimerFires, TimerSelects, TimerUpdates, TimerDeletes, outside
<1>. DEFINE l == IF blocks[go[t].ip].actionTaken THEN "timer.delete" ELSE "action.select"
<1>2. l # "new"
  OBVIOUS
<1>3. \/ End(t, "done") \/ Goto(t, "timer.select") \/ Goto(t, l) \/ Panics(t)
      \/ Goto(t, "timer.delete")
  BY DEF TimerSteps, TimerFires, TimerSelects, TimerUpdates, TimerDeletes
<1>. HIDE DEF l
<1>4. GoCounted'
  BY <1>0, <1>1, <1>2, <1>3, EndCounted, GotoCounted, PanicsCounted DEF CountOK, Ended
<1>. QED BY <1>1, <1>4, SameCounted DEF CountOK

(* A record that is unblocked counts nothing.                              *)
LEMMA UnblockedCounted ==
  ASSUME StateOK, NEW r, RowOK(r), NEW ip \in IPs
  PROVE  Unblocked(r).triggerCount <= handled[ip]
<1>1. Unblocked(r).triggerCount = 0
  BY DEF Unblocked, RowOK, Records
<1>. QED BY <1>1 DEF StateOK, OutsideOK

(* The steps of the goroutine that unblocks.                               *)
LEMMA UnblockerStepsCounted ==
  ASSUME StateOK, CountOK, NEW u \in Unblockers, UnblockerSteps(u) PROVE CountOK'
<1>0. u \in Goroutines /\ go[u].ip \in IPs /\ FrameOK(go[u])
  BY Running DEF Goroutines, StateOK, UnblockerSteps, UnblockerWakes, UnblockerUnblocks,
                 UnblockerSaves, UnblockerDeletes, At, Ended
<1>1. UNCHANGED <<handled, asked>>
  BY DEF UnblockerSteps, UnblockerWakes, UnblockerUnblocks, UnblockerSaves,
         UnblockerDeletes, outside
<1>2. CASE UnblockerWakes(u) \/ UnblockerDeletes(u)
  <2>1. GoCounted'
    BY <1>0, <1>1, <1>2, EndCounted, GotoCounted
       DEF CountOK, UnblockerWakes, UnblockerDeletes, Acting, Ended
  <2>. QED BY <1>2, <2>1, SameCounted DEF CountOK, UnblockerWakes, UnblockerDeletes
<1>3. CASE UnblockerUnblocks(u)
  <2>1. Unblocked(go[u].rec).triggerCount <= handled[go[u].ip]
    BY <1>0, UnblockedCounted DEF FrameOK
  <2>2. go' = [go EXCEPT ![u].rec = Unblocked(go[u].rec), ![u].pc = "unblocker.save"]
    BY <1>0, <1>3 DEF UnblockerUnblocks, StateOK, GoOK
  <2>3. "unblocker.save" \notin Acting
    BY DEF Acting
  <2>4. GoCounted'
    BY <1>0, <1>1, <2>1, <2>2, <2>3, RecordCounted DEF CountOK
  <2>5. rules' \subseteq rules
    BY <1>3 DEF UnblockerUnblocks, RuleDeleted, DeleteRefused
  <2>. QED BY <1>1, <1>3, <2>4, <2>5, SameTable, RulesKept DEF CountOK, UnblockerUnblocks
<1>4. CASE UnblockerSaves(u)
  <2>1. GoCounted'
    BY <1>0, <1>1, <1>4, GotoCounted DEF CountOK, UnblockerSaves, Acting
  <2>2. TableCounted'
    BY <1>0, <1>1, <1>4, UpdateCounted DEF CountOK, UnblockerSaves, GoCounted, Counted
  <2>. QED BY <1>1, <1>4, <2>1, <2>2, RulesKept DEF CountOK, UnblockerSaves
<1>. QED BY <1>2, <1>3, <1>4 DEF UnblockerSteps

(* A pressed button justifies an action by itself.                         *)
LEMMA PressArrivesCounted ==
  ASSUME StateOK, StateOK', CountOK, NEW p \in Presses, PressArrives(p) PROVE CountOK'
<1>0. p \in Goroutines /\ At(p, "new") /\ UNCHANGED <<handled, rules, dbVars>>
  BY DEF Goroutines, Requests, PressArrives, Arrives, Fresh
<1>1. ASSUME End(p, "done") \/ End(p, "unparsed"), UNCHANGED asked
      PROVE  GoCounted' /\ asked \subseteq asked'
  BY <1>0, <1>1, EndCounted DEF CountOK, Ended
<1>2. ASSUME NEW ip \in IPs, NEW button,
             go' = [go EXCEPT ![p].ip = ip, ![p].action = button, ![p].pc = "action.select"],
             asked' = asked \cup {ip}
      PROVE  GoCounted' /\ asked \subseteq asked'
  <2>. DEFINE f == [go[p] EXCEPT !.ip = ip, !.action = button, !.pc = "action.select"]
  <2>1. go' = [go EXCEPT ![p] = f]
    BY <1>0, <1>2 DEF StateOK, GoOK
  <2>2. f.ip = ip /\ f.rec = go[p].rec /\ f.arec = go[p].arec /\ f.pc = "action.select"
    BY <1>0 DEF StateOK, GoOK, Frames
  <2>3. /\ go[p].rec.triggerCount = 0 /\ go[p].arec.triggerCount = 0
        /\ handled[ip] >= 0
    BY <1>0 DEF CountOK, GoCounted, Counted, At, StateOK, OutsideOK
  <2>. HIDE DEF f
  <2>4. Counted(f, handled, asked')
    BY <1>2, <2>2, <2>3 DEF Counted, Justified
  <2>5. \A g \in Goroutines : Counted(go[g], handled, asked')
    <3>1. handled \in [IPs -> Nat] /\ asked \subseteq asked'
      BY <1>2 DEF StateOK, OutsideOK
    <3>2. \A i \in IPs : handled[i] <= handled[i]
      BY <3>1
    <3>. QED BY <3>1, <3>2, CountedGrows DEF CountOK, GoCounted, StateOK, GoOK
  <2>6. \A g \in Goroutines : Counted(go'[g], handled, asked')
    BY <1>0, <2>1, <2>4, <2>5 DEF StateOK, GoOK
  <2>. QED BY <1>0, <1>2, <2>6 DEF GoCounted
<1>3. GoCounted' /\ asked \subseteq asked'
  BY <1>1, <1>2 DEF PressArrives
<1>4. NoPrematureBlock'
  BY <1>0, <1>3 DEF CountOK, NoPrematureBlock
<1>. QED BY <1>0, <1>3, <1>4, SameTable DEF CountOK

(* unblockHandler receives a manual unblock.                               *)
LEMMA ManualArrivesCounted ==
  ASSUME StateOK, CountOK, NEW m \in Unblocks, ManualArrives(m) PROVE CountOK'
<1>0. m \in Goroutines /\ At(m, "new") /\ UNCHANGED outside /\ UNCHANGED <<handled, asked>>
  BY DEF Goroutines, Requests, ManualArrives, Arrives, Fresh, outside
<1>1. ASSUME End(m, "done") PROVE GoCounted'
  BY <1>0, <1>1, EndCounted DEF Ended, CountOK
<1>2. ASSUME NEW ip \in IPs, go' = [go EXCEPT ![m].ip = ip, ![m].pc = "manual.select"]
      PROVE  GoCounted'
  <2>. DEFINE f == [go[m] EXCEPT !.ip = ip, !.pc = "manual.select"]
  <2>1. go' = [go EXCEPT ![m] = f]
    BY <1>0, <1>2 DEF StateOK, GoOK
  <2>2. Counted(f, handled, asked)
    <3>1. /\ go[m].rec.triggerCount = 0 /\ go[m].arec.triggerCount = 0
          /\ handled[ip] >= 0
      BY <1>0 DEF CountOK, GoCounted, Counted, At, StateOK, OutsideOK
    <3>2. "manual.select" \notin Acting
      BY DEF Acting
    <3>. QED BY <1>0, <3>1, <3>2 DEF Counted, StateOK, GoOK, Frames
  <2>. QED BY <1>0, <2>1, <2>2, SetCounted DEF CountOK
<1>3. GoCounted'
  BY <1>1, <1>2 DEF ManualArrives, Accepted
<1>. QED BY <1>0, <1>3, SameCounted DEF CountOK

(* ManualUnblock reads or makes the row.                                   *)
LEMMA ManualReadsCounted ==
  ASSUME StateOK, CountOK, NEW m \in Unblocks, ManualSelects(m) \/ ManualInserts(m)
  PROVE  CountOK'
<1>0. m \in Goroutines /\ go[m].ip \in IPs
  BY Running DEF Goroutines, Requests, StateOK, ManualSelects, ManualInserts, At, Ended
<1>1. UNCHANGED <<handled, asked, rules>>
  BY DEF ManualSelects, ManualInserts, outside
<1>2. ASSUME NEW row, row.triggerCount <= handled[go[m].ip], ManualStarts(m, row)
      PROVE  GoCounted'
  BY <1>0, <1>1, <1>2, EndCounted, RecordCounted DEF CountOK, ManualStarts, Ended, Acting
<1>3. CASE ManualSelects(m)
  <2>1. blocks[go[m].ip].triggerCount <= handled[go[m].ip]
    BY <1>0 DEF CountOK, TableCounted
  <2>2. GoCounted'
    BY <1>0, <1>1, <1>2, <1>3, <2>1, EndCounted, GotoCounted
       DEF CountOK, ManualSelects, Ended, Acting
  <2>. QED BY <1>3, <2>2, SameCounted DEF CountOK, ManualSelects
<1>4. CASE ManualInserts(m)
  <2>1. GoCounted'
    BY <1>0, <1>1, <1>2, <1>4, NewCounted, EndCounted DEF CountOK, ManualInserts, Ended
  <2>2. TableCounted'
    BY <1>0, <1>1, <1>4, InsertCounted DEF CountOK, ManualInserts
  <2>. QED BY <1>1, <2>1, <2>2, RulesKept DEF CountOK
<1>. QED BY <1>3, <1>4

(* A channel is looked up.                                                 *)
LEMMA LooksUpCounted ==
  ASSUME StateOK, GoCounted, NEW g \in Goroutines, NEW map, NEW l, NEW k,
         LooksUp(g, map, l, k), l # "new", k # "new", l \notin Acting, k \notin Acting,
         UNCHANGED <<handled, asked>>
  PROVE  GoCounted'
<1>1. CASE map[go[g].ip] # None
  <2>. DEFINE f == [go[g] EXCEPT !.chan = map[go[g].ip], !.pc = l]
  <2>1. go' = [go EXCEPT ![g] = f]
    BY <1>1 DEF LooksUp, StateOK, GoOK
  <2>2. Counted(f, handled, asked)
    BY DEF GoCounted, Counted, StateOK, GoOK, Frames
  <2>. QED BY <2>1, <2>2, SetCounted
<1>2. CASE map[go[g].ip] = None
  <2>1. Goto(g, k)
    BY <1>2 DEF LooksUp, Goto
  <2>. QED BY <2>1, GotoCounted
<1>. QED BY <1>1, <1>2

(* ManualUnblock closes and deletes channels.                              *)
LEMMA ManualMapsCounted ==
  ASSUME StateOK, CountOK, NEW m \in Unblocks,
         \/ ManualLooksUpTimer(m) \/ ManualClosesTimer(m) \/ ManualDeletesTimer(m)
         \/ ManualLooksUpUnblock(m) \/ ManualClosesUnblock(m) \/ ManualDeletesUnblock(m)
  PROVE  CountOK'
<1>0. m \in Goroutines /\ UNCHANGED outside /\ UNCHANGED <<handled, asked>>
  BY DEF Goroutines, Requests, outside, ManualLooksUpTimer, ManualClosesTimer,
         ManualDeletesTimer, ManualLooksUpUnblock, ManualClosesUnblock, ManualDeletesUnblock
<1>1. CASE ManualLooksUpTimer(m) \/ ManualLooksUpUnblock(m)
  <2>1. GoCounted'
    BY <1>0, <1>1, LooksUpCounted
       DEF CountOK, ManualLooksUpTimer, ManualLooksUpUnblock, Acting
  <2>. QED BY <1>0, <2>1, SameCounted DEF CountOK
<1>2. CASE ManualClosesTimer(m) \/ ManualClosesUnblock(m)
  <2>1. GoCounted'
    BY <1>0, <1>2, ClosesCounted DEF CountOK, ManualClosesTimer, ManualClosesUnblock, Acting
  <2>. QED BY <1>0, <2>1, SameCounted DEF CountOK
<1>3. CASE ManualDeletesTimer(m) \/ ManualDeletesUnblock(m)
  <2>1. GoCounted'
    BY <1>0, <1>3, GotoCounted DEF CountOK, ManualDeletesTimer, ManualDeletesUnblock, Acting
  <2>. QED BY <1>0, <2>1, SameCounted DEF CountOK
<1>. QED BY <1>1, <1>2, <1>3

(* ManualUnblock removes the rule and saves.                               *)
LEMMA ManualUnblocksCounted ==
  ASSUME StateOK, CountOK, NEW m \in Unblocks, ManualUnblocks(m) \/ ManualSaves(m)
  PROVE  CountOK'
<1>0. m \in Goroutines /\ go[m].ip \in IPs /\ FrameOK(go[m]) /\ UNCHANGED <<handled, asked>>
  BY Running DEF Goroutines, Requests, StateOK, ManualUnblocks, ManualSaves, At, Ended
<1>1. CASE ManualUnblocks(m)
  <2>1. ASSUME go' = [go EXCEPT ![m].rec = Unblocked(@), ![m].pc = "manual.save"]
        PROVE  GoCounted'
    <3>1. Unblocked(go[m].rec).triggerCount <= handled[go[m].ip]
      BY <1>0, UnblockedCounted DEF FrameOK
    <3>2. go' = [go EXCEPT ![m].rec = Unblocked(go[m].rec), ![m].pc = "manual.save"]
      BY <1>0, <2>1 DEF StateOK, GoOK
    <3>3. "manual.save" \notin Acting
      BY DEF Acting
    <3>. QED BY <1>0, <3>1, <3>2, <3>3, RecordCounted DEF CountOK
  <2>2. GoCounted'
    BY <1>0, <1>1, <2>1, EndCounted DEF CountOK, ManualUnblocks, Ended
  <2>3. rules' \subseteq rules
    BY <1>1 DEF ManualUnblocks, RuleDeleted, DeleteRefused
  <2>. QED BY <1>0, <1>1, <2>2, <2>3, SameTable, RulesKept DEF CountOK, ManualUnblocks
<1>2. CASE ManualSaves(m)
  <2>1. GoCounted'
    BY <1>0, <1>2, EndCounted DEF CountOK, ManualSaves, Ended
  <2>2. TableCounted'
    BY <1>0, <1>2, UpdateCounted DEF CountOK, ManualSaves, GoCounted, Counted
  <2>. QED BY <1>0, <1>2, <2>1, <2>2, RulesKept DEF CountOK, ManualSaves
<1>. QED BY <1>1, <1>2

-----------------------------------------------------------------------------

(* Nothing is counted or blocked when the program starts first.            *)
LEMMA InitCounted == Init => CountOK
<1>. SUFFICES ASSUME Init PROVE CountOK
  OBVIOUS
<1>1. GoCounted
  BY EndedCounted DEF Init, GoCounted
<1>2. TableCounted
  BY DEF Init, TableInit, TableCounted, NewRecord
<1>3. NoPrematureBlock
  BY DEF Init, FirewallInit, NoPrematureBlock
<1>. QED BY <1>1, <1>2, <1>3 DEF CountOK

(* Every step keeps the invariant, where the types are in order before and *)
(* after it.                                                               *)
LEMMA NextCounted == StateOK /\ StateOK' /\ CountOK /\ [Next]_vars => CountOK'
<1>. SUFFICES ASSUME StateOK, StateOK', CountOK, [Next]_vars PROVE CountOK'
  OBVIOUS
<1>1. CASE Tick
  <2>1. GoCounted'
    BY <1>1 DEF CountOK, GoCounted, Tick, memory
  <2>. QED BY <1>1, <2>1, SameTable, RulesKept DEF CountOK, Tick
<1>2. CASE Restart \/ MapRace
  <2>1. Stops /\ UNCHANGED outside /\ UNCHANGED <<handled, asked>>
    BY <1>2 DEF Restart, MapRace, outside
  <2>. QED BY <2>1, StopsCounted, SameCounted DEF CountOK
<1>3. ASSUME NEW e \in Events, EventArrives(e) \/ EventSteps(e) PROVE CountOK'
  BY <1>3, EventArrivesCounted, EventStepsCounted
<1>4. ASSUME NEW p \in Presses, PressArrives(p) PROVE CountOK'
  BY <1>4, PressArrivesCounted
<1>5. ASSUME NEW m \in Unblocks, ManualArrives(m) \/ ManualSteps(m) PROVE CountOK'
  BY <1>5, ManualArrivesCounted, ManualReadsCounted, ManualMapsCounted,
     ManualUnblocksCounted DEF ManualSteps
<1>6. ASSUME NEW t \in Timers, TimerSteps(t) PROVE CountOK'
  BY <1>6, TimerStepsCounted
<1>7. ASSUME NEW u \in Unblockers, UnblockerSteps(u) PROVE CountOK'
  BY <1>7, UnblockerStepsCounted
<1>8. ASSUME NEW g \in Events \cup Presses \cup Timers, ActionSteps(g) PROVE CountOK'
  BY <1>8, ActionReadsCounted, ActionExecutesCounted, ActionLooksUpCounted,
     ActionMapsCounted, ActionSavesCounted DEF ActionSteps, Callers
<1>9. CASE UNCHANGED vars
  <2>1. GoCounted'
    BY <1>9 DEF CountOK, GoCounted, vars, memory, outside
  <2>. QED BY <1>9, <2>1, SameCounted DEF CountOK, vars
<1>. QED BY <1>1, <1>2, <1>3, <1>4, <1>5, <1>6, <1>7, <1>8, <1>9 DEF Next

(* No interleaving, failure or restart blocks an address nobody pressed a  *)
(* button for before trigger_count of its events were counted.             *)
THEOREM NothingBlockedEarly == Spec => []NoPrematureBlock
<1>1. StateOK /\ CountOK => NoPrematureBlock
  BY DEF CountOK
<1>2. Spec => []CountOK
  BY InitCounted, NextCounted, StateInvariant, PTL DEF Spec
<1>. QED BY <1>1, <1>2, StateInvariant, PTL

=============================================================================
