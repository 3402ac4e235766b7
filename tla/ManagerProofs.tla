--------------------------- MODULE ManagerProofs ----------------------------
(***************************************************************************)
(* Proof of the type invariant of the scenario manager and of the          *)
(* coherence of its records, TypeOK and RecordsCoherent, for any number of *)
(* requests, timers and addresses, any parameters and any failures.        *)
(*                                                                         *)
(* Neither is inductive.  A goroutine that marks a record blocked relies   *)
(* on having set action_taken before, and a close on its channel being of  *)
(* the kind of its map: FrameOK says both, for the labels they concern.    *)
(* Every record that is written back was read or made by the goroutine     *)
(* that writes it and is coherent, whatever the table holds by then.       *)
(***************************************************************************)
EXTENDS ManagerProperties, TLAPS

(* A row of the right type that is coherent.                               *)
RowOK(r) == r \in Records /\ Coherent(r)

(* The labels at which a frame promises more than its type.                *)
TimerClosing == {"action.close", "manual.close"}
Special == TimerClosing \cup {"manual.close2", "action.lookup"}

(* The local state of one goroutine.                                       *)
FrameOK(f) ==
  /\ f \in Frames
  /\ RowOK(f.rec)
  /\ RowOK(f.arec)
  /\ f.pc \in Ended \cup {"new"} \/ f.ip \in IPs
  /\ f.pc \in TimerClosing => f.chan \in Timers
  /\ f.pc = "manual.close2" => f.chan \in Unblockers
  /\ f.pc = "action.lookup" => f.arec.actionTaken

(* The parts of the invariant: goroutines, table, maps and the rest.       *)
GoOK == go \in [Goroutines -> Frames] /\ \A g \in Goroutines : FrameOK(go[g])

TableOK == TableTypeOK /\ \A ip \in IPs : RowOK(blocks[ip])

MapsOK ==
  /\ cancel \in [IPs -> Timers \cup {None}]
  /\ unblockCancel \in [IPs -> Unblockers \cup {None}]
  /\ closed \subseteq Timers \cup Unblockers
  /\ crashed \in BOOLEAN

OutsideOK ==
  /\ FirewallTypeOK
  /\ now \in Nat
  /\ posted \subseteq IPs
  /\ handled \in [IPs -> Nat]
  /\ asked \subseteq IPs

(* The inductive invariant.                                                *)
StateOK == TableOK /\ GoOK /\ MapsOK /\ OutsideOK

-----------------------------------------------------------------------------

(* The goroutines of the kinds are different ones.                         *)
LEMMA KindsDiffer ==
  /\ Events \cap Unblocks = {} /\ Events \cap Unblockers = {}
  /\ Presses \cap Unblocks = {} /\ Presses \cap Unblockers = {}
  /\ Events \cap Timers = {} /\ Presses \cap Timers = {}
  /\ Timers \cap Unblocks = {} /\ Timers \cap Unblockers = {}
  /\ Unblocks \cap Unblockers = {}
<1>. DEFINE kinds == <<Events, Presses, Unblocks, Timers, Unblockers>>
<1>1. \A i, j \in 1..5 : i # j => kinds[i] \cap kinds[j] = {}
  BY ManagerAssumption
<1>2. /\ kinds[1] = Events /\ kinds[2] = Presses /\ kinds[3] = Unblocks
      /\ kinds[4] = Timers /\ kinds[5] = Unblockers
  OBVIOUS
<1>. HIDE DEF kinds
<1>3. /\ kinds[1] \cap kinds[3] = {} /\ kinds[1] \cap kinds[5] = {}
      /\ kinds[2] \cap kinds[3] = {} /\ kinds[2] \cap kinds[5] = {}
      /\ kinds[1] \cap kinds[4] = {} /\ kinds[2] \cap kinds[4] = {}
      /\ kinds[4] \cap kinds[3] = {} /\ kinds[4] \cap kinds[5] = {}
      /\ kinds[3] \cap kinds[5] = {}
  BY <1>1
<1>. QED BY <1>2, <1>3

(* The length of a first block is a number of clock units.                 *)
LEMMA BaseType == UnblockAfter * Minute \in Nat
<1>1. UnblockAfter \in Nat /\ Minute \in Nat
  BY ConfigAssumption
<1>. QED BY <1>1

(* The row GetOrCreateBlockRecord inserts is coherent.                     *)
LEMMA NewRecordOK == RowOK(NewRecord)
BY DEF RowOK, NewRecord, Records, Coherent

(* HandleEvent keeps a record coherent: it clears action_taken only where  *)
(* the address is not blocked.                                             *)
LEMMA EventRecordOK ==
  ASSUME NEW r, RowOK(r), NEW t \in Nat
  PROVE  /\ RowOK(AfterWindow(r, t))
         /\ RowOK(CountEvent(r, t))
<1>1. r.triggerCount + 1 \in Nat
  BY DEF RowOK, Records
<1>2. RowOK(CountEvent(r, t))
  BY <1>1 DEF RowOK, Records, Coherent, CountEvent
<1>. DEFINE z == [r EXCEPT !.triggerCount = 0, !.actionTaken = FALSE]
<1>3. z \in Records /\ z.blockedAt = r.blockedAt
  BY DEF RowOK, Records
<1>4. r.blockedAt = 0 => RowOK(z)
  BY <1>3 DEF RowOK, Coherent
<1>5. RowOK(AfterWindow(r, t))
  BY <1>4 DEF AfterWindow, WindowPassed
<1>. QED BY <1>2, <1>5

(* ExecuteAction may set action_taken on any record.                       *)
LEMMA TakenOK ==
  ASSUME NEW r, RowOK(r) PROVE RowOK(MarkTaken(r))
BY DEF RowOK, Records, Coherent, MarkTaken

(* What scheduleUnblock and ManualUnblock write back is not blocked.       *)
LEMMA UnblockedOK ==
  ASSUME NEW r, RowOK(r) PROVE RowOK(Unblocked(r))
<1>1. Unblocked(r) \in Records /\ Unblocked(r).blockedAt = 0
  BY DEF RowOK, Records, Unblocked
<1>. QED BY <1>1 DEF RowOK, Coherent

(* A record marked as taken may be marked as blocked: its end is then its  *)
(* start and one unblock_after per block.                                  *)
LEMMA BlockedOK ==
  ASSUME NEW r, RowOK(r), NEW t \in Nat, r.actionTaken
  PROVE  RowOK(MarkBlocked(r, t))
<1>. DEFINE B == UnblockAfter * Minute
<1>1. B \in Nat
  BY BaseType
<1>. HIDE DEF B
<1>2. r.blockCount \in Nat /\ r.blockCount + 1 \in Nat
  BY DEF RowOK, Records
<1>3. B * (r.blockCount + 1) \in Nat
  BY <1>1, <1>2
<1>4. t + B * (r.blockCount + 1) \in Nat
  BY <1>3
<1>. DEFINE b == [r EXCEPT !.blockedAt = t,
                           !.unblockAfter = t + B * (r.blockCount + 1),
                           !.blockCount = r.blockCount + 1]
<1>5. b \in Records
  BY <1>2, <1>4 DEF RowOK, Records
<1>6. /\ b.actionTaken
      /\ b.blockCount = r.blockCount + 1
      /\ b.blockedAt = t
      /\ b.unblockAfter = t + B * (r.blockCount + 1)
  BY DEF RowOK, Records
<1>7. b.blockCount >= 1 /\ b.unblockAfter = b.blockedAt + B * b.blockCount
  BY <1>2, <1>6
<1>8. b = MarkBlocked(r, t)
  BY DEF MarkBlocked, B
<1>9. Coherent(b)
  BY <1>6, <1>7 DEF Coherent, B
<1>. QED BY <1>5, <1>8, <1>9 DEF RowOK

-----------------------------------------------------------------------------

(* A goroutine that starts, waits or has ended has a frame of the right    *)
(* type.                                                                   *)
LEMMA FrameLabelOK ==
  ASSUME NEW l \in Ended \cup {"new", "timer.armed", "unblocker.waiting"}
  PROVE  Frame(l) \in Frames
<1>1. l \in Labels
  BY DEF Labels
<1>2. "all" \in ActionValues
  BY DEF ActionValues
<1>3. NewRecord \in Records
  BY NewRecordOK DEF RowOK
<1>. QED BY <1>1, <1>2, <1>3 DEF Frame, Frames

(* So a goroutine that has ended satisfies the invariant.                  *)
LEMMA EndedOK ==
  ASSUME NEW l \in Ended \cup {"new"} PROVE FrameOK(Frame(l))
<1>1. Frame(l) \in Frames
  BY FrameLabelOK
<1>2. l \notin Special
  BY DEF Ended, Special, TimerClosing
<1>. QED BY <1>1, <1>2, NewRecordOK DEF FrameOK, Frame, Special, TimerClosing

(* Moving a running goroutine on keeps its frame in order, except to a     *)
(* label that promises something.                                          *)
LEMMA LabelOK ==
  ASSUME NEW f, FrameOK(f), f.ip \in IPs, NEW l \in Labels \ Special
  PROVE  FrameOK([f EXCEPT !.pc = l])
BY DEF FrameOK, Frames, Special, TimerClosing

(* So does giving it another coherent record.                              *)
LEMMA RecordFrameOK ==
  ASSUME NEW f, FrameOK(f), f.ip \in IPs, NEW l \in Labels \ Special, NEW r, RowOK(r)
  PROVE  /\ FrameOK([f EXCEPT !.rec = r, !.pc = l])
         /\ FrameOK([f EXCEPT !.arec = r, !.pc = l])
BY DEF FrameOK, Frames, Special, TimerClosing, RowOK

(* A step changes one frame: the others stay as they are.                  *)
LEMMA GoStep ==
  ASSUME GoOK, NEW g \in Goroutines, NEW f, FrameOK(f), go' = [go EXCEPT ![g] = f]
  PROVE  GoOK'
<1>1. go' \in [Goroutines -> Frames]
  BY DEF GoOK, FrameOK
<1>2. ASSUME NEW h \in Goroutines PROVE FrameOK(go'[h])
  BY DEF GoOK
<1>. QED BY <1>1, <1>2 DEF GoOK

(* A goroutine that is running works on an address.                        *)
LEMMA Running ==
  ASSUME GoOK, NEW g \in Goroutines, go[g].pc \notin Ended \cup {"new"}
  PROVE  go[g].ip \in IPs /\ FrameOK(go[g])
BY DEF GoOK, FrameOK

(* A goroutine ends.                                                       *)
LEMMA EndStep ==
  ASSUME GoOK, NEW g \in Goroutines, NEW l \in Ended, End(g, l)
  PROVE  GoOK'
<1>1. FrameOK(Frame(l))
  BY EndedOK
<1>. QED BY <1>1, GoStep DEF End

(* A goroutine goes on.                                                    *)
LEMMA GotoStep ==
  ASSUME GoOK, NEW g \in Goroutines, go[g].ip \in IPs,
         NEW l \in Labels \ Special, Goto(g, l)
  PROVE  GoOK'
<1>1. FrameOK([go[g] EXCEPT !.pc = l])
  BY LabelOK DEF GoOK
<1>2. go' = [go EXCEPT ![g] = [go[g] EXCEPT !.pc = l]]
  BY DEF Goto, GoOK
<1>. QED BY <1>1, <1>2, GoStep

(* A goroutine goes on with a record it has read or changed.               *)
LEMMA RecordStep ==
  ASSUME GoOK, NEW g \in Goroutines, go[g].ip \in IPs,
         NEW l \in Labels \ Special, NEW r, RowOK(r),
         \/ go' = [go EXCEPT ![g].rec = r, ![g].pc = l]
         \/ go' = [go EXCEPT ![g].arec = r, ![g].pc = l]
  PROVE  GoOK'
<1>1. FrameOK(go[g])
  BY DEF GoOK
<1>2. CASE go' = [go EXCEPT ![g].rec = r, ![g].pc = l]
  <2>. DEFINE f == [go[g] EXCEPT !.rec = r, !.pc = l]
  <2>1. FrameOK(f)
    BY <1>1, RecordFrameOK
  <2>2. go' = [go EXCEPT ![g] = f]
    BY <1>2 DEF GoOK
  <2>. QED BY <2>1, <2>2, GoStep
<1>3. CASE go' = [go EXCEPT ![g].arec = r, ![g].pc = l]
  <2>. DEFINE f == [go[g] EXCEPT !.arec = r, !.pc = l]
  <2>1. FrameOK(f)
    BY <1>1, RecordFrameOK
  <2>2. go' = [go EXCEPT ![g] = f]
    BY <1>3 DEF GoOK
  <2>. QED BY <2>1, <2>2, GoStep
<1>. QED BY <1>2, <1>3

(* The process stops: no frame, no channel is left.                        *)
LEMMA StopsStep ==
  ASSUME GoOK, Stops PROVE GoOK' /\ MapsOK'
<1>1. FrameOK(Frame("failed"))
  BY EndedOK DEF Ended
<1>2. \A g \in Goroutines : go'[g] \in Frames /\ FrameOK(go'[g])
  BY <1>1 DEF Stops, GoOK, FrameOK
<1>3. go' \in [Goroutines -> Frames]
  BY <1>2 DEF Stops
<1>. QED BY <1>2, <1>3 DEF Stops, GoOK, MapsOK

(* A panic ends one request, or the process.                               *)
LEMMA PanicsStep ==
  ASSUME GoOK, MapsOK, NEW g \in Goroutines, Panics(g)
  PROVE  GoOK' /\ MapsOK'
<1>1. CASE g \in Requests /\ End(g, "failed") /\ UNCHANGED <<maps, crashed>>
  <2>1. GoOK'
    BY <1>1, EndStep DEF Ended
  <2>. QED BY <1>1, <2>1 DEF MapsOK, maps
<1>. QED BY <1>1, StopsStep DEF Panics

(* close(ch), whether it panics or not.                                    *)
LEMMA ClosesStep ==
  ASSUME GoOK, MapsOK, NEW g \in Goroutines,
         go[g].pc \in TimerClosing \cup {"manual.close2"},
         NEW l \in Labels \ Special, Closes(g, l)
  PROVE  GoOK' /\ MapsOK'
<1>0. go[g].ip \in IPs /\ FrameOK(go[g])
  BY Running DEF TimerClosing, Ended
<1>1. CASE Panics(g)
  BY <1>1, PanicsStep
<1>2. CASE /\ closed' = closed \cup {go[g].chan}
           /\ Goto(g, l)
           /\ UNCHANGED <<cancel, unblockCancel, crashed>>
  <2>1. GoOK'
    BY <1>0, <1>2, GotoStep
  <2>2. go[g].chan \in Timers \cup Unblockers
    BY <1>0 DEF FrameOK
  <2>. QED BY <1>2, <2>1, <2>2 DEF MapsOK
<1>. QED BY <1>1, <1>2 DEF Closes

(* ExecuteAction returns to its caller.                                    *)
LEMMA ReturnsStep ==
  ASSUME GoOK, NEW g \in Events \cup Presses \cup Timers, go[g].ip \in IPs, Returns(g)
  PROVE  GoOK'
<1>0. g \in Goroutines
  BY DEF Goroutines, Requests
<1>1. CASE g \in Presses /\ End(g, "done")
  BY <1>0, <1>1, EndStep DEF Ended
<1>2. CASE g \notin Presses
  <2>. DEFINE l == IF g \in Events THEN "event.save" ELSE "timer.update"
              f == [go[g] EXCEPT !.arec = NewRecord, !.chan = None, !.pc = l]
  <2>1. l \in Labels \ Special
    BY DEF Labels, Special, TimerClosing
  <2>. HIDE DEF l
  <2>2. FrameOK(f)
    BY <1>0, <2>1, NewRecordOK DEF GoOK, FrameOK, Frames, Special, TimerClosing, RowOK
  <2>3. go' = [go EXCEPT ![g].arec = NewRecord, ![g].chan = None, ![g].pc = l]
    BY <1>2 DEF Returns, l
  <2>4. go' = [go EXCEPT ![g] = f]
    BY <1>0, <2>3 DEF GoOK
  <2>. QED BY <1>0, <2>2, <2>4, GoStep
<1>. QED BY <1>1, <1>2 DEF Returns

-----------------------------------------------------------------------------

(* A step within the process leaves table, firewall and clock alone.       *)
LEMMA SameOutside ==
  ASSUME TableOK, OutsideOK, UNCHANGED outside PROVE TableOK' /\ OutsideOK'
BY DEF TableOK, OutsideOK, outside, dbVars, TableTypeOK, FirewallTypeOK

(* A step that leaves the maps and channels alone.                         *)
LEMMA SameMaps ==
  ASSUME MapsOK, UNCHANGED <<maps, crashed>> PROVE MapsOK'
BY DEF MapsOK, maps

(* UpdateBlockRecord keeps the table coherent if the record written is.    *)
LEMMA UpdateStep ==
  ASSUME TableOK, NEW ip, NEW r, RowOK(r), Update(ip, r) \/ UpdateFails
  PROVE  TableOK'
<1>1. CASE Update(ip, r)
  BY <1>1 DEF TableOK, TableTypeOK, RowOK, Update
<1>2. CASE UpdateFails
  BY <1>2 DEF TableOK, TableTypeOK, UpdateFails, dbVars
<1>. QED BY <1>1, <1>2

(* So does the INSERT of GetOrCreateBlockRecord.                           *)
LEMMA InsertStep ==
  ASSUME TableOK, NEW ip \in IPs, Insert(ip) \/ InsertFails(ip)
  PROVE  TableOK'
<1>1. CASE Insert(ip)
  BY <1>1, NewRecordOK DEF TableOK, TableTypeOK, RowOK, Insert
<1>2. CASE InsertFails(ip)
  BY <1>2 DEF TableOK, TableTypeOK, InsertFails, dbVars
<1>. QED BY <1>1, <1>2

(* The firewall calls deal with addresses.                                 *)
LEMMA FirewallStep ==
  ASSUME FirewallTypeOK, NEW ip \in IPs,
         \/ RuleInserted(ip) \/ InsertRefused(ip)
         \/ RuleDeleted(ip) \/ DeleteRefused(ip)
  PROVE  FirewallTypeOK'
BY DEF FirewallTypeOK, RuleInserted, InsertRefused, RuleDeleted, DeleteRefused

-----------------------------------------------------------------------------

(* A request arrives and starts a goroutine.                               *)
LEMMA ArrivesStep ==
  ASSUME GoOK, NEW g \in Goroutines, At(g, "new"), NEW ip \in IPs,
         NEW l \in Labels \ Special, NEW a \in ActionValues,
         \/ go' = [go EXCEPT ![g].ip = ip, ![g].pc = l]
         \/ go' = [go EXCEPT ![g].ip = ip, ![g].action = a, ![g].pc = l]
  PROVE  GoOK'
<1>1. FrameOK(go[g])
  BY DEF GoOK
<1>2. CASE go' = [go EXCEPT ![g].ip = ip, ![g].pc = l]
  <2>. DEFINE f == [go[g] EXCEPT !.ip = ip, !.pc = l]
  <2>1. FrameOK(f)
    BY <1>1 DEF FrameOK, Frames, Special, TimerClosing
  <2>2. go' = [go EXCEPT ![g] = f]
    BY <1>2 DEF GoOK
  <2>. QED BY <2>1, <2>2, GoStep
<1>3. CASE go' = [go EXCEPT ![g].ip = ip, ![g].action = a, ![g].pc = l]
  <2>. DEFINE f == [go[g] EXCEPT !.ip = ip, !.action = a, !.pc = l]
  <2>1. FrameOK(f)
    BY <1>1 DEF FrameOK, Frames, Special, TimerClosing
  <2>2. go' = [go EXCEPT ![g] = f]
    BY <1>3 DEF GoOK
  <2>. QED BY <2>1, <2>2, GoStep
<1>. QED BY <1>2, <1>3

(* handleEvent receives an event.                                          *)
LEMMA EventArrivesOK ==
  ASSUME StateOK, NEW e \in Events, EventArrives(e) PROVE StateOK'
<1>0. e \in Goroutines /\ At(e, "new") /\ "event.select" \in Labels \ Special
  BY DEF Goroutines, Requests, EventArrives, Arrives, Fresh, Labels, Special, TimerClosing
<1>1. ASSUME End(e, "done") PROVE GoOK'
  BY <1>0, <1>1, EndStep DEF Ended, StateOK
<1>2. ASSUME NEW ip \in IPs, go' = [go EXCEPT ![e].ip = ip, ![e].pc = "event.select"]
      PROVE  GoOK'
  BY <1>0, <1>2, ArrivesStep DEF ActionValues, StateOK
<1>3. GoOK'
  BY <1>1, <1>2 DEF EventArrives, Accepted
<1>. QED BY <1>3, SameOutside, SameMaps DEF StateOK, EventArrives

(* HandleEvent skips or counts an event.                                   *)
LEMMA EventCountsStep ==
  ASSUME GoOK, now \in Nat, handled \in [IPs -> Nat], NEW e \in Events,
         go[e].ip \in IPs, NEW row, RowOK(row), EventCounts(e, row)
  PROVE  GoOK' /\ handled' \in [IPs -> Nat]
<1>0. e \in Goroutines
  BY DEF Goroutines, Requests
<1>. DEFINE r == AfterWindow(row, now)
            c == CountEvent(r, now)
<1>1. RowOK(c)
  BY EventRecordOK
<1>2. AfterCount(c) \in Labels \ Special
  BY DEF AfterCount, Labels, Special, TimerClosing
<1>. HIDE DEF r, c
<1>3. CASE End(e, "done") /\ UNCHANGED handled
  BY <1>0, <1>3, EndStep DEF Ended
<1>4. CASE /\ go' = [go EXCEPT ![e].rec = c, ![e].pc = AfterCount(c)]
           /\ handled' = [handled EXCEPT ![go[e].ip] = @ + 1]
  <2>1. GoOK'
    BY <1>0, <1>1, <1>2, <1>4, RecordStep
  <2>. QED BY <1>4, <2>1
<1>. QED BY <1>3, <1>4 DEF EventCounts, r, c

(* HandleEvent reads the row of the address.                               *)
LEMMA EventSelectsOK ==
  ASSUME StateOK, NEW e \in Events, EventSelects(e) PROVE StateOK'
<1>0. e \in Goroutines /\ go[e].ip \in IPs
  BY Running DEF Goroutines, Requests, StateOK, EventSelects, At, Ended
<1>1. ASSUME EventCounts(e, blocks[go[e].ip])
      PROVE  GoOK' /\ handled' \in [IPs -> Nat]
  BY <1>0, <1>1, EventCountsStep DEF StateOK, TableOK, OutsideOK
<1>2. ASSUME Goto(e, "event.insert") /\ UNCHANGED handled
      PROVE  GoOK' /\ handled' \in [IPs -> Nat]
  BY <1>0, <1>2, GotoStep DEF StateOK, OutsideOK, Labels, Special, TimerClosing
<1>3. ASSUME End(e, "failed") /\ UNCHANGED handled
      PROVE  GoOK' /\ handled' \in [IPs -> Nat]
  BY <1>0, <1>3, EndStep DEF StateOK, OutsideOK, Ended
<1>4. GoOK' /\ handled' \in [IPs -> Nat]
  BY <1>1, <1>2, <1>3 DEF EventSelects
<1>. QED BY <1>4, SameMaps
         DEF StateOK, EventSelects, TableOK, TableTypeOK, OutsideOK, FirewallTypeOK, dbVars

(* HandleEvent makes the row of the address.                               *)
LEMMA EventInsertsOK ==
  ASSUME StateOK, NEW e \in Events, EventInserts(e) PROVE StateOK'
<1>0. e \in Goroutines /\ go[e].ip \in IPs
  BY Running DEF Goroutines, Requests, StateOK, EventInserts, At, Ended
<1>1. ASSUME EventCounts(e, NewRecord)
      PROVE  GoOK' /\ handled' \in [IPs -> Nat]
  BY <1>0, <1>1, NewRecordOK, EventCountsStep DEF StateOK, OutsideOK
<1>2. ASSUME End(e, "failed") /\ UNCHANGED handled
      PROVE  GoOK' /\ handled' \in [IPs -> Nat]
  BY <1>0, <1>2, EndStep DEF StateOK, OutsideOK, Ended
<1>3. GoOK' /\ handled' \in [IPs -> Nat]
  BY <1>1, <1>2 DEF EventInserts
<1>4. TableOK'
  BY <1>0, InsertStep DEF StateOK, EventInserts
<1>. QED BY <1>3, <1>4, SameMaps
         DEF StateOK, EventInserts, OutsideOK, FirewallTypeOK

(* executeScenario sends its message.                                      *)
LEMMA EventNotifiesOK ==
  ASSUME StateOK, NEW e \in Events, EventNotifies(e) PROVE StateOK'
<1>0. e \in Goroutines /\ go[e].ip \in IPs
  BY Running DEF Goroutines, Requests, StateOK, EventNotifies, At, Ended
<1>1. GoOK'
  BY <1>0, GotoStep DEF StateOK, EventNotifies, Labels, Special, TimerClosing
<1>2. posted' \subseteq IPs
  BY <1>0 DEF StateOK, OutsideOK, EventNotifies
<1>. QED BY <1>1, <1>2, SameMaps
         DEF StateOK, EventNotifies, TableOK, TableTypeOK, OutsideOK, FirewallTypeOK, dbVars

(* The goroutine started by g has a frame of its own.                      *)
LEMMA StartStep ==
  ASSUME GoOK, NEW g \in Goroutines, go[g].ip \in IPs, NEW l \in Labels \ Special,
         NEW h \in Goroutines, h # g, NEW f, FrameOK(f),
         go' = [go EXCEPT ![g].pc = l, ![h] = f]
  PROVE  GoOK'
<1>1. FrameOK([go[g] EXCEPT !.pc = l])
  BY LabelOK DEF GoOK
<1>2. \A k \in Goroutines :
        go'[k] = IF k = h THEN f ELSE IF k = g THEN [go[g] EXCEPT !.pc = l] ELSE go[k]
  BY DEF GoOK
<1>3. \A k \in Goroutines : FrameOK(go'[k])
  BY <1>1, <1>2 DEF GoOK
<1>4. \A k \in Goroutines : go'[k] \in Frames
  BY <1>3 DEF FrameOK
<1>5. go' \in [Goroutines -> Frames]
  BY <1>4 DEF GoOK
<1>. QED BY <1>3, <1>5 DEF GoOK

(* executeScenario starts the notification timer.                          *)
LEMMA EventArmsOK ==
  ASSUME StateOK, NEW e \in Events, EventArms(e) PROVE StateOK'
<1>0. e \in Goroutines /\ go[e].ip \in IPs
  BY Running DEF Goroutines, Requests, StateOK, EventArms, At, Ended
<1>1. PICK t \in Timers :
        /\ At(t, "new")
        /\ cancel' = [cancel EXCEPT ![go[e].ip] = t]
        /\ go' = [go EXCEPT
                    ![e].pc = "event.save",
                    ![t] = [Frame("timer.armed") EXCEPT
                              !.ip = go[e].ip, !.due = now + Timeout * Minute]]
  BY DEF EventArms, Fresh
<1>2. t \in Goroutines /\ t # e
  BY <1>1 DEF Goroutines, EventArms, At
<1>. DEFINE d == now + Timeout * Minute
            f == [Frame("timer.armed") EXCEPT !.ip = go[e].ip, !.due = d]
<1>3. d \in Nat
  <2>1. Timeout \in Nat /\ Minute \in Nat /\ now \in Nat
    BY ConfigAssumption DEF StateOK, OutsideOK
  <2>2. Timeout * Minute \in Nat
    BY <2>1
  <2>. QED BY <2>1, <2>2
<1>. HIDE DEF d
<1>4. FrameOK(f)
  <2>1. Frame("timer.armed") \in Frames
    BY FrameLabelOK
  <2>. QED BY <1>0, <1>3, <2>1, NewRecordOK DEF FrameOK, Frame, Frames, Special, TimerClosing
<1>5. go' = [go EXCEPT ![e].pc = "event.save", ![t] = f]
  BY <1>1 DEF d
<1>. HIDE DEF f
<1>6. GoOK'
  <2>1. "event.save" \in Labels \ Special
    BY DEF Labels, Special, TimerClosing
  <2>. QED BY <1>0, <1>2, <1>4, <1>5, <2>1, StartStep DEF StateOK
<1>7. MapsOK'
  BY <1>1, <1>0 DEF StateOK, MapsOK, EventArms
<1>. QED BY <1>6, <1>7, SameOutside DEF StateOK, EventArms

(* HandleEvent saves the record it counted in.                             *)
LEMMA EventSavesOK ==
  ASSUME StateOK, NEW e \in Events, EventSaves(e) PROVE StateOK'
<1>0. e \in Goroutines /\ RowOK(go[e].rec)
  BY DEF Goroutines, Requests, StateOK, GoOK, FrameOK
<1>1. TableOK'
  BY <1>0, UpdateStep DEF StateOK, EventSaves
<1>2. GoOK'
  BY <1>0, EndStep DEF StateOK, EventSaves, Ended
<1>. QED BY <1>1, <1>2, SameMaps DEF StateOK, EventSaves, OutsideOK, FirewallTypeOK

-----------------------------------------------------------------------------

(* The goroutines that call ExecuteAction.                                 *)
Callers == Events \cup Presses \cup Timers

(* ExecuteAction skips the action or goes on with the row.                 *)
LEMMA ActionStartsStep ==
  ASSUME GoOK, NEW g \in Callers, go[g].ip \in IPs,
         NEW row, RowOK(row), ActionStarts(g, row)
  PROVE  GoOK'
<1>0. g \in Goroutines /\ "action.execute" \in Labels \ Special
  BY DEF Goroutines, Requests, Callers, Labels, Special, TimerClosing
<1>1. CASE Returns(g)
  BY <1>1, ReturnsStep DEF Callers
<1>2. CASE go' = [go EXCEPT ![g].arec = row, ![g].pc = "action.execute"]
  BY <1>0, <1>2, RecordStep
<1>. QED BY <1>1, <1>2 DEF ActionStarts

(* ExecuteAction reads the row of the address.                             *)
LEMMA ActionSelectsOK ==
  ASSUME StateOK, NEW g \in Callers, ActionSelects(g) PROVE StateOK'
<1>0. g \in Goroutines /\ go[g].ip \in IPs
  BY Running DEF Goroutines, Requests, Callers, StateOK, ActionSelects, At, Ended
<1>1. ASSUME ActionStarts(g, blocks[go[g].ip]) PROVE GoOK'
  BY <1>0, <1>1, ActionStartsStep DEF StateOK, TableOK
<1>2. ASSUME Goto(g, "action.insert") PROVE GoOK'
  BY <1>0, <1>2, GotoStep DEF StateOK, Labels, Special, TimerClosing
<1>3. GoOK' /\ MapsOK'
  BY <1>0, <1>1, <1>2, PanicsStep, SameMaps DEF ActionSelects, StateOK
<1>. QED BY <1>3, SameOutside DEF StateOK, ActionSelects

(* ExecuteAction makes the row of the address.                             *)
LEMMA ActionInsertsOK ==
  ASSUME StateOK, NEW g \in Callers, ActionInserts(g) PROVE StateOK'
<1>0. g \in Goroutines /\ go[g].ip \in IPs
  BY Running DEF Goroutines, Requests, Callers, StateOK, ActionInserts, At, Ended
<1>1. ASSUME ActionStarts(g, NewRecord) PROVE GoOK'
  BY <1>0, <1>1, NewRecordOK, ActionStartsStep DEF StateOK
<1>2. GoOK' /\ MapsOK'
  BY <1>0, <1>1, PanicsStep, SameMaps DEF ActionInserts, StateOK
<1>3. TableOK'
  BY <1>0, InsertStep DEF StateOK, ActionInserts
<1>. QED BY <1>2, <1>3 DEF StateOK, ActionInserts, OutsideOK, FirewallTypeOK

(* After the actioners action_taken is set: what the look-up of the channel*)
(* relies on.                                                              *)
LEMMA ExecutedStep ==
  ASSUME GoOK, NEW g \in Goroutines, go[g].ip \in IPs, Executed(g)
  PROVE  GoOK'
<1>. DEFINE l == IF go[g].action \in Blocking THEN "action.lookup" ELSE "action.save"
            r == MarkTaken(go[g].arec)
            f == [go[g] EXCEPT !.arec = r, !.pc = l]
<1>1. l \in {"action.lookup", "action.save"} /\ l \in Labels
  BY DEF Labels
<1>2. RowOK(r) /\ r.actionTaken
  BY TakenOK DEF GoOK, FrameOK, RowOK, Records, MarkTaken
<1>3. go' = [go EXCEPT ![g] = f]
  BY DEF Executed, GoOK
<1>. HIDE DEF l, r
<1>4. FrameOK(f)
  BY <1>1, <1>2 DEF GoOK, FrameOK, Frames, RowOK, TimerClosing
<1>. QED BY <1>3, <1>4, GoStep

(* ExecuteAction calls the actioners.                                      *)
LEMMA ActionExecutesOK ==
  ASSUME StateOK, NEW g \in Callers, ActionExecutes(g) PROVE StateOK'
<1>0. g \in Goroutines /\ go[g].ip \in IPs
  BY Running DEF Goroutines, Requests, Callers, StateOK, ActionExecutes, At, Ended
<1>1. Executed(g) \/ Returns(g)
  BY DEF ActionExecutes
<1>2. GoOK'
  BY <1>0, <1>1, ExecutedStep, ReturnsStep DEF StateOK, Callers
<1>3. FirewallTypeOK'
  <2>1. CASE UNCHANGED rules
    BY <2>1 DEF StateOK, OutsideOK, FirewallTypeOK
  <2>2. CASE RuleInserted(go[g].ip) \/ InsertRefused(go[g].ip)
    BY <1>0, <2>2, FirewallStep DEF StateOK, OutsideOK
  <2>. QED BY <2>1, <2>2 DEF ActionExecutes
<1>. QED BY <1>2, <1>3, SameMaps
         DEF StateOK, ActionExecutes, TableOK, TableTypeOK, OutsideOK, dbVars

(* ExecuteAction marks the record blocked and looks for a timer to cancel. *)
LEMMA ActionLooksUpOK ==
  ASSUME StateOK, NEW g \in Callers, ActionLooksUp(g) PROVE StateOK'
<1>0. g \in Goroutines /\ go[g].ip \in IPs /\ FrameOK(go[g]) /\ go[g].pc = "action.lookup"
  BY Running DEF Goroutines, Requests, Callers, StateOK, ActionLooksUp, At, Ended
<1>. DEFINE r == MarkBlocked(go[g].arec, now)
            c == cancel[go[g].ip]
<1>1. RowOK(r)
  BY <1>0, BlockedOK DEF FrameOK, StateOK, OutsideOK
<1>2. c \in Timers \cup {None}
  BY <1>0 DEF StateOK, MapsOK
<1>3. CASE c # None
  <2>. DEFINE f == [go[g] EXCEPT !.arec = r, !.chan = c, !.pc = "action.close"]
  <2>1. go' = [go EXCEPT ![g] = f]
    BY <1>0, <1>3 DEF ActionLooksUp, StateOK, GoOK
  <2>2. "action.close" \in Labels
    BY DEF Labels
  <2>. HIDE DEF r, c
  <2>3. FrameOK(f)
    BY <1>0, <1>1, <1>2, <1>3, <2>2 DEF FrameOK, Frames, RowOK
  <2>. HIDE DEF f
  <2>4. GoOK'
    BY <1>0, <2>1, <2>3, GoStep DEF StateOK
  <2>. QED BY <2>4, SameMaps, SameOutside DEF StateOK, ActionLooksUp
<1>4. CASE c = None
  <2>1. go' = [go EXCEPT ![g].arec = r, ![g].pc = "action.spawn"]
    BY <1>4 DEF ActionLooksUp
  <2>2. "action.spawn" \in Labels \ Special
    BY DEF Labels, Special, TimerClosing
  <2>3. GoOK'
    BY <1>0, <1>1, <2>1, <2>2, RecordStep DEF StateOK
  <2>. QED BY <2>3, SameMaps, SameOutside DEF StateOK, ActionLooksUp
<1>. QED BY <1>3, <1>4

(* ExecuteAction closes the channel of the timer.                          *)
LEMMA ActionClosesOK ==
  ASSUME StateOK, NEW g \in Callers, ActionCloses(g) PROVE StateOK'
<1>0. g \in Goroutines /\ "action.delete" \in Labels \ Special
  BY DEF Goroutines, Requests, Callers, Labels, Special, TimerClosing
<1>1. GoOK' /\ MapsOK'
  BY <1>0, ClosesStep DEF StateOK, ActionCloses, At, TimerClosing
<1>. QED BY <1>1, SameOutside DEF StateOK, ActionCloses

(* ExecuteAction takes the timer out of the map.                           *)
LEMMA ActionDeletesOK ==
  ASSUME StateOK, NEW g \in Callers, ActionDeletes(g) PROVE StateOK'
<1>0. g \in Goroutines /\ go[g].ip \in IPs
  BY Running DEF Goroutines, Requests, Callers, StateOK, ActionDeletes, At, Ended
<1>1. GoOK'
  BY <1>0, GotoStep DEF StateOK, ActionDeletes, Labels, Special, TimerClosing
<1>2. MapsOK'
  BY DEF StateOK, MapsOK, ActionDeletes
<1>. QED BY <1>1, <1>2, SameOutside DEF StateOK, ActionDeletes

(* ExecuteAction starts the goroutine of the unblock.                      *)
LEMMA ActionSpawnsOK ==
  ASSUME StateOK, NEW g \in Callers, ActionSpawns(g) PROVE StateOK'
<1>0. g \in Goroutines /\ go[g].ip \in IPs /\ FrameOK(go[g])
  BY Running DEF Goroutines, Requests, Callers, StateOK, ActionSpawns, At, Ended
<1>1. PICK u \in Unblockers :
        /\ At(u, "new")
        /\ unblockCancel' = [unblockCancel EXCEPT ![go[g].ip] = u]
        /\ go' = [go EXCEPT
                    ![g].pc = "action.save",
                    ![u] = [Frame("unblocker.waiting") EXCEPT
                              !.ip = go[g].ip, !.rec = go[g].arec]]
  BY DEF ActionSpawns, Fresh
<1>2. u \in Goroutines /\ u # g
  BY <1>1 DEF Goroutines, ActionSpawns, At
<1>. DEFINE f == [Frame("unblocker.waiting") EXCEPT !.ip = go[g].ip, !.rec = go[g].arec]
<1>3. FrameOK(f)
  <2>1. Frame("unblocker.waiting") \in Frames
    BY FrameLabelOK
  <2>. QED BY <1>0, <2>1, NewRecordOK DEF FrameOK, Frame, Frames, RowOK, TimerClosing
<1>4. go' = [go EXCEPT ![g].pc = "action.save", ![u] = f]
  BY <1>1
<1>. HIDE DEF f
<1>5. GoOK'
  <2>1. "action.save" \in Labels \ Special
    BY DEF Labels, Special, TimerClosing
  <2>. QED BY <1>0, <1>2, <1>3, <1>4, <2>1, StartStep DEF StateOK
<1>6. MapsOK'
  BY <1>1, <1>0 DEF StateOK, MapsOK, ActionSpawns
<1>. QED BY <1>5, <1>6, SameOutside DEF StateOK, ActionSpawns

(* ExecuteAction saves its record.                                         *)
LEMMA ActionSavesOK ==
  ASSUME StateOK, NEW g \in Callers, ActionSaves(g) PROVE StateOK'
<1>0. g \in Goroutines /\ go[g].ip \in IPs /\ FrameOK(go[g])
  BY Running DEF Goroutines, Requests, Callers, StateOK, ActionSaves, At, Ended
<1>1. TableOK'
  BY <1>0, UpdateStep DEF StateOK, ActionSaves, FrameOK
<1>2. GoOK'
  BY <1>0, ReturnsStep DEF StateOK, ActionSaves, Callers
<1>. QED BY <1>1, <1>2, SameMaps DEF StateOK, ActionSaves, OutsideOK, FirewallTypeOK

-----------------------------------------------------------------------------

(* The steps of the notification timer.                                    *)
LEMMA TimerStepsOK ==
  ASSUME StateOK, NEW t \in Timers, TimerSteps(t) PROVE StateOK'
<1>0. t \in Goroutines /\ go[t].ip \in IPs
  BY Running DEF Goroutines, StateOK, TimerSteps, TimerFires, TimerSelects,
                 TimerUpdates, TimerDeletes, At, Ended
<1>1. CASE TimerFires(t)
  <2>1. GoOK'
    BY <1>0, <1>1, EndStep, GotoStep DEF StateOK, TimerFires, Ended, Labels, Special, TimerClosing
  <2>. QED BY <1>1, <2>1, SameMaps, SameOutside DEF StateOK, TimerFires
<1>2. CASE TimerSelects(t)
  <2>. DEFINE l == IF blocks[go[t].ip].actionTaken THEN "timer.delete" ELSE "action.select"
  <2>1. l \in Labels \ Special
    BY DEF Labels, Special, TimerClosing
  <2>. HIDE DEF l
  <2>2. (Goto(t, l) /\ UNCHANGED <<maps, crashed>>) \/ Panics(t)
    BY <1>2 DEF TimerSelects, l
  <2>3. GoOK' /\ MapsOK'
    BY <1>0, <2>1, <2>2, GotoStep, PanicsStep, SameMaps DEF StateOK
  <2>. QED BY <1>2, <2>3, SameOutside DEF StateOK, TimerSelects
<1>3. CASE TimerUpdates(t)
  <2>1. GoOK'
    BY <1>0, <1>3, GotoStep DEF StateOK, TimerUpdates, Labels, Special, TimerClosing
  <2>. QED BY <1>3, <2>1, SameMaps, SameOutside DEF StateOK, TimerUpdates
<1>4. CASE TimerDeletes(t)
  <2>1. GoOK'
    BY <1>0, <1>4, EndStep DEF StateOK, TimerDeletes, Ended
  <2>2. MapsOK'
    BY <1>4 DEF StateOK, MapsOK, TimerDeletes
  <2>. QED BY <1>4, <2>1, <2>2, SameOutside DEF StateOK, TimerDeletes
<1>. QED BY <1>1, <1>2, <1>3, <1>4 DEF TimerSteps

(* The steps of the goroutine that unblocks.                               *)
LEMMA UnblockerStepsOK ==
  ASSUME StateOK, NEW u \in Unblockers, UnblockerSteps(u) PROVE StateOK'
<1>0. u \in Goroutines /\ go[u].ip \in IPs /\ FrameOK(go[u])
  BY Running DEF Goroutines, StateOK, UnblockerSteps, UnblockerWakes, UnblockerUnblocks,
                 UnblockerSaves, UnblockerDeletes, At, Ended
<1>1. CASE UnblockerWakes(u)
  <2>1. GoOK'
    BY <1>0, <1>1, GotoStep DEF StateOK, UnblockerWakes, Labels, Special, TimerClosing
  <2>. QED BY <1>1, <2>1, SameMaps, SameOutside DEF StateOK, UnblockerWakes
<1>2. CASE UnblockerUnblocks(u)
  <2>1. RowOK(Unblocked(go[u].rec))
    BY <1>0, UnblockedOK DEF FrameOK
  <2>2. go' = [go EXCEPT ![u].rec = Unblocked(go[u].rec), ![u].pc = "unblocker.save"]
    BY <1>0, <1>2 DEF UnblockerUnblocks, StateOK, GoOK
  <2>3. "unblocker.save" \in Labels \ Special
    BY DEF Labels, Special, TimerClosing
  <2>4. GoOK'
    BY <1>0, <2>1, <2>2, <2>3, RecordStep DEF StateOK
  <2>5. FirewallTypeOK'
    BY <1>0, <1>2, FirewallStep DEF StateOK, OutsideOK, UnblockerUnblocks
  <2>. QED BY <1>2, <2>4, <2>5, SameMaps
           DEF StateOK, UnblockerUnblocks, TableOK, TableTypeOK, OutsideOK, dbVars
<1>3. CASE UnblockerSaves(u)
  <2>1. GoOK'
    BY <1>0, <1>3, GotoStep DEF StateOK, UnblockerSaves, Labels, Special, TimerClosing
  <2>2. TableOK'
    BY <1>0, <1>3, UpdateStep DEF StateOK, UnblockerSaves, FrameOK
  <2>. QED BY <1>3, <2>1, <2>2, SameMaps DEF StateOK, UnblockerSaves, OutsideOK, FirewallTypeOK
<1>4. CASE UnblockerDeletes(u)
  <2>1. GoOK'
    BY <1>0, <1>4, EndStep DEF StateOK, UnblockerDeletes, Ended
  <2>2. MapsOK'
    BY <1>4 DEF StateOK, MapsOK, UnblockerDeletes
  <2>. QED BY <1>4, <2>1, <2>2, SameOutside DEF StateOK, UnblockerDeletes
<1>. QED BY <1>1, <1>2, <1>3, <1>4 DEF UnblockerSteps

(* handleSlackCallback receives a pressed button.                          *)
LEMMA PressArrivesOK ==
  ASSUME StateOK, NEW p \in Presses, PressArrives(p) PROVE StateOK'
<1>0. p \in Goroutines /\ At(p, "new") /\ "action.select" \in Labels \ Special
  BY DEF Goroutines, Requests, PressArrives, Arrives, Fresh, Labels, Special, TimerClosing
<1>1. ASSUME End(p, "done") \/ End(p, "unparsed"), UNCHANGED asked
      PROVE  GoOK' /\ asked' \subseteq IPs
  BY <1>0, <1>1, EndStep DEF StateOK, OutsideOK, Ended
<1>2. ASSUME NEW ip \in IPs, NEW button \in Buttons,
             go' = [go EXCEPT ![p].ip = ip, ![p].action = button, ![p].pc = "action.select"],
             asked' = asked \cup {ip}
      PROVE  GoOK' /\ asked' \subseteq IPs
  <2>1. button \in ActionValues
    BY ManagerAssumption
  <2>. QED BY <1>0, <1>2, <2>1, ArrivesStep DEF StateOK, OutsideOK
<1>3. GoOK' /\ asked' \subseteq IPs
  BY <1>1, <1>2 DEF PressArrives
<1>. QED BY <1>3, SameMaps
         DEF StateOK, PressArrives, TableOK, TableTypeOK, OutsideOK, FirewallTypeOK, dbVars

(* unblockHandler receives a manual unblock.                               *)
LEMMA ManualArrivesOK ==
  ASSUME StateOK, NEW m \in Unblocks, ManualArrives(m) PROVE StateOK'
<1>0. m \in Goroutines /\ At(m, "new") /\ "manual.select" \in Labels \ Special
  BY DEF Goroutines, Requests, ManualArrives, Arrives, Fresh, Labels, Special, TimerClosing
<1>1. ASSUME End(m, "done") PROVE GoOK'
  BY <1>0, <1>1, EndStep DEF Ended, StateOK
<1>2. ASSUME NEW ip \in IPs, go' = [go EXCEPT ![m].ip = ip, ![m].pc = "manual.select"]
      PROVE  GoOK'
  BY <1>0, <1>2, ArrivesStep DEF ActionValues, StateOK
<1>3. GoOK'
  BY <1>1, <1>2 DEF ManualArrives, Accepted
<1>. QED BY <1>3, SameOutside, SameMaps DEF StateOK, ManualArrives

(* ManualUnblock returns for a row that is not blocked.                    *)
LEMMA ManualStartsStep ==
  ASSUME GoOK, NEW m \in Unblocks, go[m].ip \in IPs,
         NEW row, RowOK(row), ManualStarts(m, row)
  PROVE  GoOK'
<1>0. m \in Goroutines /\ "manual.lookup" \in Labels \ Special
  BY DEF Goroutines, Requests, Labels, Special, TimerClosing
<1>1. CASE End(m, "done")
  BY <1>0, <1>1, EndStep DEF Ended
<1>2. CASE go' = [go EXCEPT ![m].rec = row, ![m].pc = "manual.lookup"]
  BY <1>0, <1>2, RecordStep
<1>. QED BY <1>1, <1>2 DEF ManualStarts

(* ManualUnblock reads or makes the row.                                   *)
LEMMA ManualReadsOK ==
  ASSUME StateOK, NEW m \in Unblocks, ManualSelects(m) \/ ManualInserts(m)
  PROVE  StateOK'
<1>0. m \in Goroutines /\ go[m].ip \in IPs
  BY Running DEF Goroutines, Requests, StateOK, ManualSelects, ManualInserts, At, Ended
<1>1. CASE ManualSelects(m)
  <2>1. ASSUME ManualStarts(m, blocks[go[m].ip]) PROVE GoOK'
    BY <1>0, <2>1, ManualStartsStep DEF StateOK, TableOK
  <2>2. ASSUME Goto(m, "manual.insert") PROVE GoOK'
    BY <1>0, <2>2, GotoStep DEF StateOK, Labels, Special, TimerClosing
  <2>3. ASSUME End(m, "failed") PROVE GoOK'
    BY <1>0, <2>3, EndStep DEF StateOK, Ended
  <2>4. GoOK'
    BY <1>1, <2>1, <2>2, <2>3 DEF ManualSelects
  <2>. QED BY <1>1, <2>4, SameMaps, SameOutside DEF StateOK, ManualSelects
<1>2. CASE ManualInserts(m)
  <2>1. ASSUME ManualStarts(m, NewRecord) PROVE GoOK'
    BY <1>0, <2>1, NewRecordOK, ManualStartsStep DEF StateOK
  <2>2. ASSUME End(m, "failed") PROVE GoOK'
    BY <1>0, <2>2, EndStep DEF StateOK, Ended
  <2>3. GoOK'
    BY <1>2, <2>1, <2>2 DEF ManualInserts
  <2>4. TableOK'
    BY <1>0, <1>2, InsertStep DEF StateOK, ManualInserts
  <2>. QED BY <1>2, <2>3, <2>4, SameMaps DEF StateOK, ManualInserts, OutsideOK, FirewallTypeOK
<1>. QED BY <1>1, <1>2

(* LooksUp finds a channel of the kind its map holds.                      *)
LEMMA LooksUpStep ==
  ASSUME GoOK, NEW m \in Goroutines, go[m].ip \in IPs, NEW map,
         NEW found, NEW missing \in Labels \ Special, LooksUp(m, map, found, missing),
         \/ found = "manual.close"  /\ map \in [IPs -> Timers \cup {None}]
         \/ found = "manual.close2" /\ map \in [IPs -> Unblockers \cup {None}]
  PROVE  GoOK'
<1>. DEFINE c == map[go[m].ip]
            f == [go[m] EXCEPT !.chan = c, !.pc = found]
<1>0. FrameOK(go[m])
  BY DEF GoOK
<1>1. CASE c # None
  <2>1. go' = [go EXCEPT ![m] = f]
    BY <1>1 DEF LooksUp, GoOK
  <2>2. c \in Timers \cup Unblockers
    BY <1>1
  <2>3. found \in Labels /\ (found = "manual.close" => c \in Timers)
                         /\ (found = "manual.close2" => c \in Unblockers)
    BY <1>1 DEF Labels
  <2>. HIDE DEF c
  <2>4. FrameOK(f)
    <3>1. f \in Frames /\ f.pc = found /\ f.chan = c
      BY <1>0, <2>2, <2>3 DEF FrameOK, Frames
    <3>2. f.ip = go[m].ip /\ f.rec = go[m].rec /\ f.arec = go[m].arec
      BY <1>0 DEF FrameOK, Frames
    <3>. QED BY <1>0, <2>3, <3>1, <3>2 DEF FrameOK, TimerClosing
  <2>. QED BY <2>1, <2>4, GoStep
<1>2. CASE c = None
  <2>1. Goto(m, missing)
    BY <1>2 DEF LooksUp, Goto
  <2>. QED BY <2>1, GotoStep
<1>. QED BY <1>1, <1>2

(* ManualUnblock closes both channels and takes them out of their maps.    *)
LEMMA ManualMapsOK ==
  ASSUME StateOK, NEW m \in Unblocks,
         \/ ManualLooksUpTimer(m) \/ ManualClosesTimer(m) \/ ManualDeletesTimer(m)
         \/ ManualLooksUpUnblock(m) \/ ManualClosesUnblock(m) \/ ManualDeletesUnblock(m)
  PROVE  StateOK'
<1>0. m \in Goroutines /\ go[m].ip \in IPs
  BY Running DEF Goroutines, Requests, StateOK, At, Ended, ManualLooksUpTimer,
                 ManualClosesTimer, ManualDeletesTimer, ManualLooksUpUnblock,
                 ManualClosesUnblock, ManualDeletesUnblock
<1>l. {"manual.lookup2", "manual.unblock", "manual.delete", "manual.delete2"}
        \subseteq Labels \ Special
  BY DEF Labels, Special, TimerClosing
<1>1. CASE ManualLooksUpTimer(m)
  <2>1. LooksUp(m, cancel, "manual.close", "manual.lookup2")
    BY <1>1 DEF ManualLooksUpTimer
  <2>2. GoOK'
    BY <1>0, <1>l, <2>1, LooksUpStep DEF StateOK, MapsOK
  <2>. QED BY <1>1, <2>2, SameMaps, SameOutside DEF StateOK, ManualLooksUpTimer
<1>2. CASE ManualClosesTimer(m)
  <2>1. GoOK' /\ MapsOK'
    BY <1>0, <1>l, <1>2, ClosesStep DEF StateOK, ManualClosesTimer, At, TimerClosing
  <2>. QED BY <1>2, <2>1, SameOutside DEF StateOK, ManualClosesTimer
<1>3. CASE ManualDeletesTimer(m)
  <2>1. GoOK'
    BY <1>0, <1>l, <1>3, GotoStep DEF StateOK, ManualDeletesTimer
  <2>2. MapsOK'
    BY <1>3 DEF StateOK, MapsOK, ManualDeletesTimer
  <2>. QED BY <1>3, <2>1, <2>2, SameOutside DEF StateOK, ManualDeletesTimer
<1>4. CASE ManualLooksUpUnblock(m)
  <2>1. LooksUp(m, unblockCancel, "manual.close2", "manual.unblock")
    BY <1>4 DEF ManualLooksUpUnblock
  <2>2. GoOK'
    BY <1>0, <1>l, <2>1, LooksUpStep DEF StateOK, MapsOK
  <2>. QED BY <1>4, <2>2, SameMaps, SameOutside DEF StateOK, ManualLooksUpUnblock
<1>5. CASE ManualClosesUnblock(m)
  <2>1. GoOK' /\ MapsOK'
    BY <1>0, <1>l, <1>5, ClosesStep DEF StateOK, ManualClosesUnblock, At
  <2>. QED BY <1>5, <2>1, SameOutside DEF StateOK, ManualClosesUnblock
<1>6. CASE ManualDeletesUnblock(m)
  <2>1. GoOK'
    BY <1>0, <1>l, <1>6, GotoStep DEF StateOK, ManualDeletesUnblock
  <2>2. MapsOK'
    BY <1>6 DEF StateOK, MapsOK, ManualDeletesUnblock
  <2>. QED BY <1>6, <2>1, <2>2, SameOutside DEF StateOK, ManualDeletesUnblock
<1>. QED BY <1>1, <1>2, <1>3, <1>4, <1>5, <1>6

(* ManualUnblock removes the rule and saves the record.                    *)
LEMMA ManualUnblocksOK ==
  ASSUME StateOK, NEW m \in Unblocks, ManualUnblocks(m) \/ ManualSaves(m)
  PROVE  StateOK'
<1>0. m \in Goroutines /\ go[m].ip \in IPs /\ FrameOK(go[m])
  BY Running DEF Goroutines, Requests, StateOK, ManualUnblocks, ManualSaves, At, Ended
<1>1. CASE ManualUnblocks(m)
  <2>1. ASSUME RuleDeleted(go[m].ip),
               go' = [go EXCEPT ![m].rec = Unblocked(@), ![m].pc = "manual.save"]
        PROVE  GoOK'
    <3>1. RowOK(Unblocked(go[m].rec))
      BY <1>0, UnblockedOK DEF FrameOK
    <3>2. go' = [go EXCEPT ![m].rec = Unblocked(go[m].rec), ![m].pc = "manual.save"]
      BY <1>0, <2>1 DEF StateOK, GoOK
    <3>3. "manual.save" \in Labels \ Special
      BY DEF Labels, Special, TimerClosing
    <3>. QED BY <1>0, <3>1, <3>2, <3>3, RecordStep DEF StateOK
  <2>2. ASSUME End(m, "failed") PROVE GoOK'
    BY <1>0, <2>2, EndStep DEF StateOK, Ended
  <2>3. GoOK'
    BY <1>1, <2>1, <2>2 DEF ManualUnblocks
  <2>4. FirewallTypeOK'
    BY <1>0, <1>1, FirewallStep DEF StateOK, OutsideOK, ManualUnblocks
  <2>. QED BY <1>1, <2>3, <2>4, SameMaps
           DEF StateOK, ManualUnblocks, TableOK, TableTypeOK, OutsideOK, dbVars
<1>2. CASE ManualSaves(m)
  <2>1. GoOK'
    BY <1>0, <1>2, EndStep DEF StateOK, ManualSaves, Ended
  <2>2. TableOK'
    BY <1>0, <1>2, UpdateStep DEF StateOK, ManualSaves, FrameOK
  <2>. QED BY <1>2, <2>1, <2>2, SameMaps DEF StateOK, ManualSaves, OutsideOK, FirewallTypeOK
<1>. QED BY <1>1, <1>2

-----------------------------------------------------------------------------

(* The invariant holds when the program starts for the first time.         *)
LEMMA InitOK == Init => StateOK
<1>. SUFFICES ASSUME Init PROVE StateOK
  OBVIOUS
<1>1. TableOK
  BY NewRecordOK DEF Init, TableInit, TableOK, TableTypeOK, RowOK
<1>2. GoOK
  <2>1. \A g \in Goroutines : FrameOK(go[g]) /\ go[g] \in Frames
    BY EndedOK DEF Init, FrameOK
  <2>. QED BY <2>1 DEF Init, GoOK
<1>3. MapsOK
  BY DEF Init, MapsOK
<1>4. OutsideOK
  BY DEF Init, OutsideOK, FirewallInit, FirewallTypeOK
<1>. QED BY <1>1, <1>2, <1>3, <1>4 DEF StateOK

(* Every step of every goroutine, of the clock and of the surroundings     *)
(* keeps it.                                                               *)
LEMMA NextOK == StateOK /\ [Next]_vars => StateOK'
<1>. SUFFICES ASSUME StateOK, [Next]_vars PROVE StateOK'
  OBVIOUS
<1>1. CASE Tick
  <2>1. GoOK' /\ MapsOK'
    BY <1>1, SameMaps DEF StateOK, GoOK, Tick, memory
  <2>2. now' \in Nat
    BY <1>1 DEF StateOK, OutsideOK, Tick
  <2>. QED BY <1>1, <2>1, <2>2
           DEF StateOK, Tick, TableOK, TableTypeOK, OutsideOK, FirewallTypeOK, dbVars
<1>2. CASE Restart \/ MapRace
  BY <1>2, StopsStep, SameOutside DEF StateOK, Restart, MapRace
<1>3. ASSUME NEW e \in Events, EventArrives(e) \/ EventSteps(e) PROVE StateOK'
  BY <1>3, EventArrivesOK, EventSelectsOK, EventInsertsOK, EventNotifiesOK,
     EventArmsOK, EventSavesOK DEF EventSteps
<1>4. ASSUME NEW p \in Presses, PressArrives(p) PROVE StateOK'
  BY <1>4, PressArrivesOK
<1>5. ASSUME NEW m \in Unblocks, ManualArrives(m) \/ ManualSteps(m) PROVE StateOK'
  BY <1>5, ManualArrivesOK, ManualReadsOK, ManualMapsOK, ManualUnblocksOK DEF ManualSteps
<1>6. ASSUME NEW t \in Timers, TimerSteps(t) PROVE StateOK'
  BY <1>6, TimerStepsOK
<1>7. ASSUME NEW u \in Unblockers, UnblockerSteps(u) PROVE StateOK'
  BY <1>7, UnblockerStepsOK
<1>8. ASSUME NEW g \in Events \cup Presses \cup Timers, ActionSteps(g) PROVE StateOK'
  BY <1>8, ActionSelectsOK, ActionInsertsOK, ActionExecutesOK, ActionLooksUpOK,
     ActionClosesOK, ActionDeletesOK, ActionSpawnsOK, ActionSavesOK DEF ActionSteps, Callers
<1>9. CASE UNCHANGED vars
  <2>1. GoOK'
    BY <1>9 DEF StateOK, GoOK, vars, memory
  <2>. QED BY <1>9, <2>1, SameMaps, SameOutside DEF StateOK, vars, memory
<1>. QED BY <1>1, <1>2, <1>3, <1>4, <1>5, <1>6, <1>7, <1>8, <1>9 DEF Next

(* In every reachable state of every behaviour StateOK holds.              *)
THEOREM StateInvariant == Spec => []StateOK
BY InitOK, NextOK, PTL DEF Spec

(* The type invariant, for every size of the pools and every parameter.    *)
THEOREM TypeInvariant == Spec => []TypeOK
<1>1. StateOK => TypeOK
  BY DEF StateOK, TableOK, GoOK, MapsOK, OutsideOK, FrameOK, TypeOK, FramesHaveAddress
<1>. QED BY <1>1, StateInvariant, PTL

(* No record, in the table or in memory, is a mixture of two.              *)
THEOREM RecordsStayCoherent == Spec => []RecordsCoherent
<1>1. StateOK => RecordsCoherent
  BY DEF StateOK, TableOK, GoOK, FrameOK, RowOK, RecordsCoherent
<1>. QED BY <1>1, StateInvariant, PTL

=============================================================================
