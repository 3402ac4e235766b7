---------------------------- MODULE SerialProofs ----------------------------
(***************************************************************************)
(* Proof of what the scenario manager promises for requests and timers     *)
(* that do not overlap: RuleMatchesRecord, PageMatchesFirewall,            *)
(* NotUnblockedEarly, ScenarioOncePerCycle, and the steps of BlockCycle.   *)
(*                                                                         *)
(* One goroutine runs at a time (OneAtATime), so what it has read is still *)
(* there when it writes (RowStep).  Between two of them an address is in   *)
(* order: its rule, its row and the goroutine that waits to unblock it say *)
(* the same (Agrees).  A goroutine that has changed the firewall and not   *)
(* yet the row is Behind: then they agree with the record it will write.   *)
(*                                                                         *)
(* One goroutine may be left over: the one whose channel a manual unblock  *)
(* has closed.  Nothing else can start before it has ended, and it may     *)
(* still take the wrong branch of its select and write its old record,     *)
(* which then says what the row says (LeftOK).                             *)
(***************************************************************************)
EXTENDS RemoverProofs, Dashboard, Refinement

(* The setting these properties hold in: notifications on, an "all" that   *)
(* blocks and that nobody presses, or not so that it is understood, and a  *)
(* firewall and a table that answer.                                       *)
Setting ==
  /\ Serial /\ NotifierEnabled
  /\ "gcp_firewall" \in Actioners
  /\ "all" \notin Buttons \/ ScannedText \notin Texts
  /\ Faults \cap {"db", "firewall", "restart"} = {}

(* Groups of labels: a goroutine that does not run; that may make the row; *)
(* that counts an event, executes an action, has the record of a manual    *)
(* unblock, is ending one, or a scheduled unblock; and one that has        *)
(* changed the firewall and not yet written the row.                       *)
Resting == Ended \cup {"new", "timer.armed", "unblocker.waiting"}
Asking == {"event.select", "event.insert", "action.select", "action.insert",
           "manual.select", "manual.insert"}
Counting == {"event.notify", "event.arm", "event.save"}
Blocked == {"action.close", "action.delete", "action.spawn"}
Handing == {"action.lookup"} \cup Blocked
Acting == {"action.select", "action.insert", "action.execute", "action.save"} \cup Handing
Leaving == {"manual.delete2", "manual.unblock", "manual.save"}
Holding == {"manual.lookup", "manual.close", "manual.delete", "manual.lookup2",
            "manual.close2", "manual.delete2", "manual.unblock"}
Finishing == {"unblocker.unblock", "unblocker.save", "unblocker.delete"}
Behind == Handing \cup {"action.save", "unblocker.save", "manual.save"}

Runs(g) == go[g].pc \notin Resting

(* A scheduled unblock that waits, and one whose channel is closed.        *)
Open(u) == At(u, "unblocker.waiting") /\ u \notin closed
Left(u) == At(u, "unblocker.waiting") /\ u \in closed

OneAtATime ==
  /\ \A g, h \in Goroutines : Runs(g) /\ Runs(h) => g = h
  /\ \A u \in Unblockers, g \in Goroutines : Left(u) /\ Runs(g) => go[g].pc \in Leaving

NoOpen(ip) == \A u \in Unblockers : Open(u) => go[u].ip # ip

(* Rule, waiting goroutine and the record r say the same of ip.            *)
Waits(u, ip, r) ==
  unblockCancel[ip] = u /\ go[u].rec = r /\ r.blockedAt > 0 /\ now <= r.unblockAfter

Agrees(ip, r) ==
  /\ ip \in rules <=> r.blockedAt > 0
  /\ \A u \in Unblockers : Open(u) /\ go[u].ip = ip => Waits(u, ip, r)

(* What a frame has read or made of the row.                               *)
Continues(r, row) ==
  /\ r.blockedAt = 0 /\ row.blockedAt = 0
  /\ r.unblockAfter = row.unblockAfter
  /\ r.blockCount = row.blockCount
  /\ ~r.actionTaken

Blocks(r, row) == row.blockedAt = 0 /\ r = MarkBlocked(MarkTaken(row), now)

RowStep(f, row) ==
  /\ f.pc \in {"action.select", "action.insert"} /\ f.action = "all" => row.blockedAt = 0
  /\ f.pc \in Counting => Continues(f.rec, row)
  /\ f.pc = "action.execute" => f.arec = row /\ row.blockedAt = 0
  /\ f.pc = "action.lookup" => f.arec = MarkTaken(row) /\ row.blockedAt = 0
  /\ f.pc \in Blocked => Blocks(f.arec, row)
  /\ f.pc = "action.save" =>
       Blocks(f.arec, row) \/ (f.arec = MarkTaken(row) /\ row.blockedAt = 0)
  /\ f.pc \in Holding => f.rec = row /\ row.blockedAt > 0
  /\ f.pc = "manual.save" => f.rec = Unblocked(row) /\ row.blockedAt > 0
  /\ f.pc = "unblocker.unblock" =>
       \/ row = Unblocked(f.rec)
       \/ f.rec = row /\ row.blockedAt > 0 /\ row.unblockAfter <= now
  /\ f.pc = "unblocker.save" =>
       \/ f.rec = row
       \/ f.rec = Unblocked(row) /\ row.blockedAt > 0 /\ row.unblockAfter <= now

(* And how the rest of the address stands.                                 *)
FrameSync(g, f, ip) ==
  /\ RowStep(f, blocks[ip])
  /\ g \in Events => f.pc \notin Acting
  /\ f.pc \notin Asking => ip \in known
  /\ f.pc \in {"event.insert", "action.insert", "manual.insert"} => ip \notin known
  /\ f.pc \in Handing => ip \in rules
  /\ f.pc \in Handing \cup Leaving \cup Finishing => NoOpen(ip)
  /\ f.pc = "action.save" => Agrees(ip, f.arec)
  /\ f.pc \in {"unblocker.save", "manual.save"} => Agrees(ip, f.rec)
  /\ f.pc = "manual.close2" => f.chan = unblockCancel[ip]
  /\ f.pc \in Closing => f.chan \notin closed

FramesSync == \A g \in Goroutines : Runs(g) => FrameSync(g, go[g], go[g].ip)

InSync ==
  \A ip \in IPs :
    (\A g \in Goroutines : go[g].ip = ip => go[g].pc \notin Behind) => Agrees(ip, blocks[ip])

LeftOK ==
  \A u \in Unblockers : Left(u) =>
    /\ NoOpen(go[u].ip)
    /\ \/ blocks[go[u].ip] = Unblocked(go[u].rec)
       \/ /\ blocks[go[u].ip] = go[u].rec
          /\ \E m \in Goroutines : go[m].ip = go[u].ip /\ go[m].pc \in Leaving

(* Rows are not forgotten, the process does not stop.                      *)
RowsOK ==
  /\ \A g \in Goroutines :
       go[g].pc \in {"timer.armed", "unblocker.waiting"} => go[g].ip \in known
  /\ \A g \in Goroutines : go[g].pc = "unblocker.waiting" => g \in Unblockers
  /\ \A ip \in IPs : ip \notin known => blocks[ip] = NewRecord
  /\ now >= 1
  /\ ~crashed

(* The inductive invariant.                                                *)
SerialOK == OneAtATime /\ FramesSync /\ InSync /\ LeftOK /\ RowsOK

-----------------------------------------------------------------------------
(* One goroutine at a time *)

(* While g runs nothing else does, and its address is in order unless g is *)
(* behind.                                                                 *)
LEMMA RunsAlone ==
  ASSUME StateOK, SerialOK, NEW g \in Goroutines, Runs(g)
  PROVE  /\ go[g].ip \in IPs
         /\ FrameSync(g, go[g], go[g].ip)
         /\ \A h \in Goroutines : h # g => ~Runs(h)
         /\ go[g].pc \notin Leaving => \A u \in Unblockers : ~Left(u)
         /\ go[g].pc \notin Behind => Agrees(go[g].ip, blocks[go[g].ip])
<1>1. go[g].ip \in IPs
  BY Running DEF StateOK, Runs, Resting
<1>2. \A h \in Goroutines : h # g => ~Runs(h)
  BY DEF SerialOK, OneAtATime
<1>3. go[g].pc \notin Behind => Agrees(go[g].ip, blocks[go[g].ip])
  <2>. SUFFICES ASSUME go[g].pc \notin Behind PROVE Agrees(go[g].ip, blocks[go[g].ip])
    OBVIOUS
  <2>1. \A h \in Goroutines : go[h].pc \notin Behind
    BY <1>2 DEF Runs, Resting, Ended, Behind, Handing, Blocked
  <2>. QED BY <1>1, <2>1 DEF SerialOK, InSync
<1>. QED BY <1>1, <1>2, <1>3 DEF SerialOK, FramesSync, OneAtATime

(* When g starts nothing runs, nothing is left, all addresses are in order. *)
LEMMA StartsAlone ==
  ASSUME StateOK, SerialOK, Serial, NEW g \in Goroutines, ~Runs(g), Alone(g)
  PROVE  /\ \A h \in Goroutines : ~Runs(h)
         /\ \A u \in Unblockers : u # g => ~Left(u)
         /\ \A ip \in IPs : Agrees(ip, blocks[ip])
<1>1. \A h \in Goroutines : ~Runs(h)
  BY DEF Alone, Idle, At, Runs, Resting
<1>2. \A u \in Unblockers : u # g => ~Left(u)
  BY DEF Alone, Idle, At, Left, Ended, Goroutines
<1>3. \A h \in Goroutines : go[h].pc \notin Behind
  BY <1>1 DEF Runs, Resting, Ended, Behind, Handing, Blocked
<1>. QED BY <1>1, <1>2, <1>3 DEF SerialOK, InSync

(* A step of g, for ip: the others stay at rest, other addresses as they   *)
(* are, and g leaves its own in order or is behind.                        *)
LEMMA StepSync ==
  ASSUME StateOK, SerialOK, NEW g \in Goroutines, NEW ip,
         \A h \in Goroutines : h # g => ~Runs(h) /\ ~Runs(h)',
         Runs(g) => go[g].ip = ip,
         Runs(g)' => go'[g].ip = ip /\ FrameSync(g, go[g], ip)',
         ip \in IPs => go'[g].pc \in Behind \/ Agrees(ip, blocks[ip])',
         \A u \in Unblockers : Left(u)' /\ Runs(g)' => go'[g].pc \in Leaving,
         LeftOK', RowsOK', now' = now,
         \A i \in IPs : i # ip =>
           /\ i \in rules' <=> i \in rules
           /\ blocks'[i] = blocks[i] /\ unblockCancel'[i] = unblockCancel[i],
         \A u \in Unblockers : Open(u)' /\ go'[u].ip # ip => Open(u) /\ go'[u] = go[u]
  PROVE  SerialOK'
<1>1. OneAtATime'
  BY DEF OneAtATime
<1>2. FramesSync'
  BY DEF FramesSync
<1>3. InSync'
  <2>. SUFFICES ASSUME NEW i \in IPs,
                       (\A h \in Goroutines : go[h].ip = i => go[h].pc \notin Behind)'
                PROVE  Agrees(i, blocks[i])'
    BY DEF InSync
  <2>1. CASE i = ip
    <3>1. go'[g].pc \in Behind => Runs(g)'
      BY DEF Runs, Resting, Ended, Behind, Handing, Blocked
    <3>. QED BY <2>1, <3>1
  <2>2. CASE i # ip
    <3>1. \A h \in Goroutines : go[h].ip = i => go[h].pc \notin Behind
      BY <2>2 DEF Runs, Resting, Ended, Behind, Handing, Blocked
    <3>2. Agrees(i, blocks[i])
      BY <3>1 DEF SerialOK, InSync
    <3>. QED BY <2>2, <3>2 DEF Agrees, Waits
  <2>. QED BY <2>1, <2>2
<1>. QED BY <1>1, <1>2, <1>3 DEF SerialOK

(* The usual step: of g alone, and no scheduled unblock is left or loses   *)
(* its channel.                                                            *)
LEMMA PlainSync ==
  ASSUME StateOK, SerialOK, NEW g \in Goroutines, NEW ip,
         \A h \in Goroutines : h # g => ~Runs(h) /\ go'[h] = go[h],
         \A u \in Unblockers : ~Left(u) /\ (u \in closed' <=> u \in closed),
         go[g].pc # "unblocker.waiting",
         go'[g].pc \notin {"timer.armed", "unblocker.waiting"},
         Runs(g) => go[g].ip = ip,
         Runs(g)' => go'[g].ip = ip /\ FrameSync(g, go[g], ip)',
         ip \in IPs => go'[g].pc \in Behind \/ Agrees(ip, blocks[ip])',
         now' = now, crashed' = crashed, known \subseteq known',
         \A i \in IPs : i # ip =>
           /\ i \in rules' <=> i \in rules
           /\ blocks'[i] = blocks[i] /\ unblockCancel'[i] = unblockCancel[i],
         ip \in IPs \ known' => blocks'[ip] = NewRecord
  PROVE  SerialOK'
<1>1. \A u \in Unblockers : Open(u)' => Open(u) /\ go'[u] = go[u]
  BY DEF Open, At, Goroutines
<1>2. \A u \in Unblockers : ~Left(u)'
  BY DEF Left, At, Goroutines
<1>3. \A h \in Goroutines : h # g => ~Runs(h)'
  BY DEF Runs
<1>4. RowsOK'
  BY DEF SerialOK, RowsOK
<1>5. LeftOK'
  BY <1>2 DEF LeftOK
<1>. QED BY <1>1, <1>2, <1>3, <1>4, <1>5, StepSync

(* A step that leaves table, firewall and unblock channels alone: what g   *)
(* needs at its next label can be shown of the state before.               *)
LEMMA MoveSync ==
  ASSUME StateOK, SerialOK, NEW g \in Goroutines, NEW ip,
         \A h \in Goroutines : h # g => ~Runs(h) /\ go'[h] = go[h],
         \A u \in Unblockers : ~Left(u) /\ (u \in closed' <=> u \in closed),
         UNCHANGED <<dbVars, rules, now, crashed, unblockCancel>>,
         go[g].pc # "unblocker.waiting",
         go'[g].pc \notin {"timer.armed", "unblocker.waiting"},
         Runs(g) => go[g].ip = ip,
         Runs(g)' => go'[g].ip = ip /\ FrameSync(g, go'[g], ip),
         closed' = closed \/ go'[g].pc \notin Closing,
         ip \in IPs => go'[g].pc \in Behind \/ Agrees(ip, blocks[ip])
  PROVE  SerialOK'
<1>0. /\ known' = known /\ blocks' = blocks /\ rules' = rules /\ now' = now
      /\ unblockCancel' = unblockCancel /\ crashed' = crashed
  BY DEF dbVars
<1>1. \A u \in Unblockers : Open(u)' => Open(u) /\ go'[u] = go[u]
  BY DEF Open, At, Goroutines
<1>2. NoOpen(ip) => NoOpen(ip)'
  BY <1>1 DEF NoOpen
<1>3. ASSUME NEW r, Agrees(ip, r) PROVE Agrees(ip, r)'
  BY <1>0, <1>1, <1>3 DEF Agrees, Waits
<1>4. PICK row : row = blocks[ip]
  OBVIOUS
<1>5. ip \in IPs => go'[g].pc \in Behind \/ Agrees(ip, blocks[ip])'
  <2>1. Agrees(ip, row) => Agrees(ip, row)'
    BY <1>3
  <2>2. blocks'[ip] = row
    BY <1>0, <1>4
  <2>3. Agrees(ip, row)' => Agrees(ip, blocks[ip])'
    BY <2>2
  <2>. QED BY <1>4, <2>1, <2>3
<1>6. ASSUME Runs(g)' PROVE FrameSync(g, go[g], ip)'
  <2>1. PICK f : f = go'[g]
    OBVIOUS
  <2>2. FrameSync(g, f, ip)
    BY <1>6, <2>1
  <2>3. RowStep(f, blocks[ip]) => RowStep(f, blocks[ip])'
    BY <1>0 DEF RowStep, Blocks
  <2>4. f.pc \in Closing => closed' = closed
    BY <2>1
  <2>5. FrameSync(g, f, ip)'
    BY <1>0, <1>2, <1>3, <2>2, <2>3, <2>4 DEF FrameSync
  <2>. QED BY <2>1, <2>5
<1>7. ip \in IPs \ known' => blocks'[ip] = NewRecord
  BY <1>0 DEF SerialOK, RowsOK
<1>. QED BY <1>0, <1>5, <1>6, <1>7, PlainSync

(* GetOrCreateBlockRecord makes a row: it says what no row says.           *)
LEMMA InsertSync ==
  ASSUME StateOK, SerialOK, NEW g \in Goroutines, NEW ip \in IPs,
         Runs(g), go[g].ip = ip, go[g].pc \in Asking, Insert(ip),
         \A h \in Goroutines : h # g => ~Runs(h) /\ go'[h] = go[h],
         \A u \in Unblockers : ~Left(u),
         UNCHANGED <<rules, now, crashed, unblockCancel, closed>>,
         Runs(g)' =>
           /\ go'[g].ip = ip /\ RowStep(go'[g], NewRecord)
           /\ go'[g].pc \in Counting \cup {"action.execute", "manual.lookup", "timer.update"}
           /\ g \in Events => go'[g].pc \notin Acting,
         go'[g].pc \notin {"timer.armed", "unblocker.waiting"}
  PROVE  SerialOK'
<1>0. /\ known' = known \cup {ip}
      /\ \A i \in IPs : blocks'[i] = IF i = ip THEN NewRecord ELSE blocks[i]
      /\ blocks[ip] = NewRecord
      /\ rules' = rules /\ now' = now /\ crashed' = crashed
      /\ unblockCancel' = unblockCancel /\ closed' = closed
  BY DEF Insert, StateOK, TableOK, TableTypeOK, SerialOK, RowsOK
<1>1. \A i \in IPs : blocks'[i] = blocks[i]
  BY <1>0
<1>2. Agrees(ip, NewRecord)
  BY <1>0, RunsAlone DEF Asking, Behind, Handing, Blocked
<1>3. Agrees(ip, blocks[ip])'
  <2>1. PICK row : row = NewRecord
    OBVIOUS
  <2>2. \A u \in Unblockers : Open(u)' => Open(u) /\ go'[u] = go[u]
    BY <1>0 DEF Open, At, Goroutines, Runs, Resting
  <2>3. Agrees(ip, row)'
    BY <1>0, <1>2, <2>1, <2>2 DEF Agrees, Waits
  <2>4. blocks'[ip] = row
    BY <1>0, <2>1
  <2>5. Agrees(ip, row)' => Agrees(ip, blocks[ip])'
    BY <2>4
  <2>. QED BY <2>3, <2>5
<1>4. ASSUME Runs(g)' PROVE FrameSync(g, go[g], ip)'
  <2>1. PICK f : f = go'[g]
    OBVIOUS
  <2>2. RowStep(f, NewRecord) => RowStep(f, blocks[ip])'
    BY <1>0 DEF RowStep, Blocks
  <2>3. FrameSync(g, f, ip)'
    BY <1>0, <1>4, <2>1, <2>2 DEF FrameSync, Counting, Acting, Asking, Blocked, Handing,
       Leaving, Finishing, Closing
  <2>. QED BY <2>1, <2>3
<1>5. go[g].pc # "unblocker.waiting"
  BY DEF Asking
<1>. QED BY <1>0, <1>1, <1>3, <1>4, <1>5, PlainSync

(* UpdateBlockRecord: the address is in order with the record written.     *)
LEMMA SaveSync ==
  ASSUME StateOK, SerialOK, NEW g \in Goroutines, NEW ip \in IPs, NEW r,
         Runs(g), go[g].ip = ip, Update(ip, r), ip \in known, Agrees(ip, r),
         \A h \in Goroutines : h # g => ~Runs(h) /\ go'[h] = go[h],
         \A u \in Unblockers : ~Left(u),
         UNCHANGED <<rules, now, crashed, unblockCancel, closed>>,
         Runs(g)' =>
           /\ go'[g].ip = ip
           /\ \/ go'[g].pc = "timer.update"
              \/ go'[g].pc = "unblocker.delete" /\ NoOpen(ip),
         go'[g].pc \notin {"timer.armed", "unblocker.waiting"}
  PROVE  SerialOK'
<1>0. /\ known' = known
      /\ \A i \in IPs : blocks'[i] = IF i = ip THEN r ELSE blocks[i]
      /\ rules' = rules /\ now' = now /\ crashed' = crashed
      /\ unblockCancel' = unblockCancel /\ closed' = closed
  BY DEF Update, StateOK, TableOK, TableTypeOK
<1>1. \A u \in Unblockers : Open(u)' => Open(u) /\ go'[u] = go[u]
  BY <1>0 DEF Open, At, Goroutines, Runs, Resting
<1>2. Agrees(ip, blocks[ip])'
  <2>1. Agrees(ip, r)'
    BY <1>0, <1>1 DEF Agrees, Waits
  <2>2. blocks'[ip] = r
    BY <1>0
  <2>3. Agrees(ip, r)' => Agrees(ip, blocks[ip])'
    BY <2>2
  <2>. QED BY <2>1, <2>3
<1>3. ASSUME Runs(g)' PROVE FrameSync(g, go[g], ip)'
  <2>1. PICK f : f = go'[g]
    OBVIOUS
  <2>2. NoOpen(ip) => NoOpen(ip)'
    BY <1>1 DEF NoOpen
  <2>3. FrameSync(g, f, ip)'
    BY <1>0, <1>3, <2>1, <2>2 DEF FrameSync, RowStep, Counting, Acting, Asking, Blocked,
       Handing, Leaving, Finishing, Holding, Closing
  <2>. QED BY <2>1, <2>3
<1>4. go[g].pc # "unblocker.waiting"
  BY DEF Runs, Resting
<1>. QED BY <1>0, <1>2, <1>3, <1>4, PlainSync

-----------------------------------------------------------------------------
(* HandleEvent and executeScenario *)

(* An event that is counted leaves the address as blocked as it was: not.  *)
LEMMA CountContinues ==
  ASSUME NEW row, RowOK(row), NEW t, ~AfterWindow(row, t).actionTaken
  PROVE  Continues(CountEvent(AfterWindow(row, t), t), row)
<1>1. row.blockedAt = 0
  BY DEF RowOK, Coherent, Records, AfterWindow, WindowPassed
<1>2. CASE WindowPassed(row, t)
  BY <1>1, <1>2 DEF AfterWindow, CountEvent, Continues, RowOK, Records
<1>3. CASE ~WindowPassed(row, t)
  BY <1>1, <1>3 DEF AfterWindow, CountEvent, Continues, RowOK, Records
<1>. QED BY <1>2, <1>3

(* What HandleEvent knows while it counts.                                 *)
LEMMA CountingSync ==
  ASSUME NEW g, NEW f, NEW ip, f.pc \in Counting, Continues(f.rec, blocks[ip]), ip \in known
  PROVE  FrameSync(g, f, ip)
BY DEF FrameSync, RowStep, Counting, Acting, Asking, Blocked, Handing, Leaving, Finishing,
       Holding, Closing

(* It counts the event, or skips it.                                       *)
LEMMA CountsFrame ==
  ASSUME NotifierEnabled, StateOK, NEW e \in Events, NEW row, RowOK(row), EventCounts(e, row)
  PROVE  /\ \A h \in Goroutines : h # e => go'[h] = go[h]
         /\ \/ go'[e] = Frame("done")
            \/ /\ go'[e].pc \in Counting /\ go'[e].ip = go[e].ip
               /\ Continues(go'[e].rec, row)
<1>0. e \in Goroutines /\ go \in [Goroutines -> Frames]
  BY DEF Goroutines, Requests, StateOK, GoOK
<1>1. CASE End(e, "done")
  BY <1>0, <1>1 DEF End
<1>2. CASE /\ ~AfterWindow(row, now).actionTaken
           /\ go' = [go EXCEPT ![e].rec = CountEvent(AfterWindow(row, now), now),
                               ![e].pc = AfterCount(CountEvent(AfterWindow(row, now), now))]
  <2>1. PICK c : c = CountEvent(AfterWindow(row, now), now)
    OBVIOUS
  <2>2. Continues(c, row)
    BY <1>2, <2>1, CountContinues
  <2>3. PICK l : l = AfterCount(c)
    OBVIOUS
  <2>4. l \in Counting
    BY <2>3 DEF AfterCount, Counting
  <2>5. go' = [go EXCEPT ![e].rec = c, ![e].pc = l]
    BY <1>2, <2>1, <2>3
  <2>6. go'[e].rec = c /\ go'[e].pc = l /\ go'[e].ip = go[e].ip
    BY <1>0, <2>5 DEF Frames
  <2>7. \A h \in Goroutines : h # e => go'[h] = go[h]
    BY <1>0, <2>5
  <2>. QED BY <2>2, <2>4, <2>6, <2>7
<1>. QED BY <1>1, <1>2 DEF EventCounts

(* handleEvent.                                                            *)
LEMMA EventArrivesSync ==
  ASSUME Setting, StateOK, SerialOK, NEW e \in Events, EventArrives(e) PROVE SerialOK'
<1>0. /\ e \in Goroutines /\ e \notin Unblockers /\ go \in [Goroutines -> Frames]
      /\ go[e].pc = "new" /\ ~Runs(e) /\ Alone(e) /\ Serial
  BY KindsDiffer DEF Goroutines, Requests, StateOK, GoOK, EventArrives, Arrives, Fresh, At,
                     Runs, Resting, Setting
<1>1. /\ \A h \in Goroutines : h # e => ~Runs(h) /\ go'[h] = go[h]
      /\ \A u \in Unblockers : ~Left(u) /\ (u \in closed' <=> u \in closed)
      /\ \A ip \in IPs : Agrees(ip, blocks[ip])
      /\ UNCHANGED <<dbVars, rules, now, crashed, unblockCancel>> /\ closed' = closed
  BY <1>0, StartsAlone DEF EventArrives, End, outside, maps
<1>2. CASE End(e, "done")
  <2>1. go'[e].pc = "done"
    BY <1>0, <1>2 DEF End, Frame
  <2>2. ~Runs(e)'
    BY <2>1 DEF Runs, Resting, Ended
  <2>. QED BY <1>0, <1>1, <2>1, <2>2, MoveSync
<1>3. ASSUME NEW ip \in IPs, go' = [go EXCEPT ![e].ip = ip, ![e].pc = "event.select"]
      PROVE  SerialOK'
  <2>1. PICK f : f = go'[e]
    OBVIOUS
  <2>2. f.pc = "event.select" /\ f.ip = ip
    BY <1>0, <1>3, <2>1 DEF Frames
  <2>3. FrameSync(e, f, ip)
    BY <2>2 DEF FrameSync, RowStep, Counting, Acting, Asking, Blocked, Handing, Leaving,
                Finishing, Holding, Closing
  <2>. QED BY <1>0, <1>1, <2>1, <2>2, <2>3, MoveSync
<1>. QED BY <1>2, <1>3 DEF EventArrives, Accepted

(* HandleEvent reads the row of the address.                               *)
LEMMA EventSelectsSync ==
  ASSUME Setting, StateOK, SerialOK, NEW e \in Events, EventSelects(e) PROVE SerialOK'
<1>0. /\ e \in Goroutines /\ e \notin Unblockers /\ go \in [Goroutines -> Frames]
      /\ go[e].pc = "event.select" /\ Runs(e)
  BY KindsDiffer DEF Goroutines, Requests, StateOK, GoOK, EventSelects, At, Runs, Resting, Ended
<1>1. PICK ip \in IPs : go[e].ip = ip
  BY <1>0, RunsAlone
<1>2. /\ \A h \in Goroutines : h # e => ~Runs(h)
      /\ \A u \in Unblockers : ~Left(u)
      /\ Agrees(ip, blocks[ip]) /\ RowOK(blocks[ip])
  BY <1>0, <1>1, RunsAlone DEF Leaving, Behind, Handing, Blocked, StateOK, TableOK
<1>3. UNCHANGED <<dbVars, rules, now, crashed, unblockCancel>> /\ closed' = closed
  BY DEF EventSelects, maps
<1>4. CASE ip \in known /\ EventCounts(e, blocks[ip])
  <2>1. PICK f : f = go'[e]
    OBVIOUS
  <2>2. /\ \A h \in Goroutines : h # e => go'[h] = go[h]
        /\ \/ f = Frame("done")
           \/ f.pc \in Counting /\ f.ip = ip /\ Continues(f.rec, blocks[ip])
    BY <1>1, <1>2, <1>4, <2>1, CountsFrame DEF Setting
  <2>3. CASE f = Frame("done")
    <3>1. f.pc = "done"
      BY <2>3 DEF Frame
    <3>2. ~Runs(e)'
      BY <2>1, <3>1 DEF Runs, Resting, Ended
    <3>. QED BY <1>0, <1>1, <1>2, <1>3, <2>1, <2>2, <3>1, <3>2, MoveSync
  <2>4. CASE f.pc \in Counting /\ f.ip = ip /\ Continues(f.rec, blocks[ip])
    <3>1. FrameSync(e, f, ip)
      BY <1>4, <2>4, CountingSync
    <3>2. f.pc \notin {"timer.armed", "unblocker.waiting"}
      BY <2>4 DEF Counting
    <3>. QED BY <1>0, <1>1, <1>2, <1>3, <2>1, <2>2, <2>4, <3>1, <3>2, MoveSync
  <2>. QED BY <2>2, <2>3, <2>4
<1>5. CASE ip \notin known /\ Goto(e, "event.insert")
  <2>1. PICK f : f = go'[e]
    OBVIOUS
  <2>2. /\ f.pc = "event.insert" /\ f.ip = ip
        /\ \A h \in Goroutines : h # e => go'[h] = go[h]
    BY <1>0, <1>1, <1>5, <2>1 DEF Goto, Frames
  <2>3. FrameSync(e, f, ip)
    BY <1>5, <2>2 DEF FrameSync, RowStep, Counting, Acting, Asking, Blocked, Handing, Leaving,
                Finishing, Holding, Closing
  <2>. QED BY <1>0, <1>1, <1>2, <1>3, <2>1, <2>2, <2>3, MoveSync
<1>. QED BY <1>1, <1>4, <1>5 DEF EventSelects, Finds, QueryMayFail, Setting

(* HandleEvent makes it.                                                   *)
LEMMA EventInsertsSync ==
  ASSUME Setting, StateOK, SerialOK, NEW e \in Events, EventInserts(e) PROVE SerialOK'
<1>0. /\ e \in Goroutines /\ e \notin Unblockers /\ go \in [Goroutines -> Frames]
      /\ go[e].pc = "event.insert" /\ Runs(e)
  BY KindsDiffer DEF Goroutines, Requests, StateOK, GoOK, EventInserts, At, Runs, Resting, Ended
<1>1. PICK ip \in IPs : go[e].ip = ip
  BY <1>0, RunsAlone
<1>2. /\ \A h \in Goroutines : h # e => ~Runs(h)
      /\ \A u \in Unblockers : ~Left(u)
      /\ ip \notin known
  BY <1>0, <1>1, RunsAlone DEF Leaving, FrameSync
<1>3. UNCHANGED <<rules, now, crashed, unblockCancel, closed>>
  BY DEF EventInserts, maps
<1>4. Insert(ip) /\ EventCounts(e, NewRecord)
  BY <1>1, <1>2 DEF EventInserts, InsertFails, QueryMayFail, Setting
<1>5. PICK f : f = go'[e]
  OBVIOUS
<1>6. /\ \A h \in Goroutines : h # e => go'[h] = go[h]
      /\ \/ f = Frame("done")
         \/ f.pc \in Counting /\ f.ip = ip /\ Continues(f.rec, NewRecord)
  BY <1>1, <1>4, <1>5, CountsFrame, NewRecordOK DEF Setting
<1>7. f.pc \notin {"timer.armed", "unblocker.waiting"}
  BY <1>6 DEF Frame, Counting
<1>8. f = Frame("done") => ~Runs(e)'
  BY <1>5 DEF Frame, Runs, Resting, Ended
<1>9. f.pc \in Counting /\ Continues(f.rec, NewRecord) =>
        RowStep(f, NewRecord) /\ f.pc \notin Acting
  BY DEF RowStep, Counting, Acting, Blocked, Handing, Holding
<1>10. go[e].pc \in Asking
  BY <1>0 DEF Asking
<1>. QED BY <1>0, <1>1, <1>2, <1>3, <1>4, <1>5, <1>6, <1>7, <1>8, <1>9, <1>10, InsertSync

(* executeScenario sends its message.                                      *)
LEMMA EventNotifiesSync ==
  ASSUME Setting, StateOK, SerialOK, NEW e \in Events, EventNotifies(e) PROVE SerialOK'
<1>0. /\ e \in Goroutines /\ go \in [Goroutines -> Frames]
      /\ go[e].pc = "event.notify" /\ Runs(e)
  BY DEF Goroutines, Requests, StateOK, GoOK, EventNotifies, At, Runs, Resting, Ended
<1>1. PICK ip \in IPs : go[e].ip = ip
  BY <1>0, RunsAlone
<1>2. /\ \A h \in Goroutines : h # e => ~Runs(h)
      /\ \A u \in Unblockers : ~Left(u)
      /\ Agrees(ip, blocks[ip]) /\ FrameSync(e, go[e], ip)
  BY <1>0, <1>1, RunsAlone DEF Leaving, Behind, Handing, Blocked
<1>3. PICK f : f = go'[e]
  OBVIOUS
<1>4. /\ f.pc = "event.arm" /\ f.ip = ip /\ f.rec = go[e].rec
      /\ \A h \in Goroutines : h # e => go'[h] = go[h]
  BY <1>0, <1>1, <1>3 DEF EventNotifies, Goto, Frames
<1>5. FrameSync(e, f, ip)
  <2>1. f.pc \in Counting
    BY <1>4 DEF Counting
  <2>2. Continues(f.rec, blocks[ip]) /\ ip \in known
    BY <1>0, <1>2, <1>4 DEF FrameSync, RowStep, Counting, Asking
  <2>. QED BY <2>1, <2>2, CountingSync
<1>6. UNCHANGED <<dbVars, rules, now, crashed, unblockCancel>> /\ closed' = closed
  BY DEF EventNotifies, maps
<1>. QED BY <1>0, <1>1, <1>2, <1>3, <1>4, <1>5, <1>6, MoveSync

(* executeScenario starts the notification timer.                          *)
LEMMA EventArmsSync ==
  ASSUME Setting, StateOK, SerialOK, NEW e \in Events, EventArms(e) PROVE SerialOK'
<1>0. /\ e \in Goroutines /\ e \notin Unblockers /\ go \in [Goroutines -> Frames]
      /\ go[e].pc = "event.arm" /\ Runs(e)
  BY KindsDiffer DEF Goroutines, Requests, StateOK, GoOK, EventArms, At, Runs, Resting, Ended
<1>1. PICK ip \in IPs : go[e].ip = ip
  BY <1>0, RunsAlone
<1>2. /\ \A h \in Goroutines : h # e => ~Runs(h)
      /\ \A u \in Unblockers : ~Left(u)
      /\ Agrees(ip, blocks[ip]) /\ FrameSync(e, go[e], ip)
  BY <1>0, <1>1, RunsAlone DEF Leaving, Behind, Handing, Blocked
<1>3. PICK t \in Timers :
        /\ go[t].pc = "new"
        /\ go' = [go EXCEPT
                    ![e].pc = "event.save",
                    ![t] = [Frame("timer.armed") EXCEPT
                              !.ip = ip, !.due = now + Timeout * Minute]]
  BY <1>1 DEF EventArms, Fresh, At
<1>4. t \in Goroutines /\ t # e /\ t \notin Unblockers
  BY <1>0, <1>3, KindsDiffer DEF Goroutines
<1>5. /\ go'[e].pc = "event.save" /\ go'[e].ip = ip /\ go'[e].rec = go[e].rec
      /\ go'[t].pc = "timer.armed" /\ go'[t].ip = ip
      /\ \A h \in Goroutines : h \notin {e, t} => go'[h] = go[h]
  BY <1>0, <1>1, <1>3, <1>4 DEF Frames, Frame
<1>6. /\ known' = known /\ blocks' = blocks /\ rules' = rules /\ now' = now
      /\ crashed' = crashed /\ unblockCancel' = unblockCancel /\ closed' = closed
  BY DEF EventArms, outside, dbVars
<1>7. \A u \in Unblockers : go'[u] = go[u]
  BY <1>0, <1>4, <1>5 DEF Goroutines
<1>8. Continues(go[e].rec, blocks[ip]) /\ ip \in known
  BY <1>0, <1>2 DEF FrameSync, RowStep, Counting, Asking
<1>9. FrameSync(e, go[e], ip)'
  BY <1>5, <1>6, <1>8 DEF FrameSync, RowStep, Continues, Counting, Acting, Asking, Blocked,
     Handing, Leaving, Finishing, Holding, Closing
<1>10. Agrees(ip, blocks[ip])'
  BY <1>2, <1>6, <1>7 DEF Agrees, Waits, Open, At
<1>11. \A h \in Goroutines : h # e => ~Runs(h)'
  BY <1>2, <1>5 DEF Runs, Resting
<1>12. \A u \in Unblockers : ~Left(u)' /\ (Open(u)' => Open(u))
  BY <1>2, <1>6, <1>7 DEF Left, Open, At
<1>13. RowsOK'
  BY <1>5, <1>6, <1>8 DEF SerialOK, RowsOK
<1>14. LeftOK'
  BY <1>12 DEF LeftOK
<1>. QED BY <1>0, <1>1, <1>2, <1>5, <1>6, <1>7, <1>9, <1>10, <1>11, <1>12, <1>13, <1>14, StepSync

(* HandleEvent writes the record it counted in.                            *)
LEMMA EventSavesSync ==
  ASSUME Setting, StateOK, SerialOK, NEW e \in Events, EventSaves(e) PROVE SerialOK'
<1>0. /\ e \in Goroutines /\ go \in [Goroutines -> Frames]
      /\ go[e].pc = "event.save" /\ Runs(e)
  BY DEF Goroutines, Requests, StateOK, GoOK, EventSaves, At, Runs, Resting, Ended
<1>1. PICK ip \in IPs : go[e].ip = ip
  BY <1>0, RunsAlone
<1>2. /\ \A h \in Goroutines : h # e => ~Runs(h)
      /\ \A u \in Unblockers : ~Left(u)
      /\ Agrees(ip, blocks[ip]) /\ FrameSync(e, go[e], ip)
  BY <1>0, <1>1, RunsAlone DEF Leaving, Behind, Handing, Blocked
<1>3. Continues(go[e].rec, blocks[ip]) /\ ip \in known
  BY <1>0, <1>2 DEF FrameSync, RowStep, Counting, Asking
<1>4. PICK r : r = go[e].rec
  OBVIOUS
<1>5. Agrees(ip, r)
  BY <1>2, <1>3, <1>4 DEF Agrees, Waits, Continues
<1>6. Update(ip, r)
  BY <1>1, <1>4 DEF EventSaves, UpdateFails, QueryMayFail, Setting
<1>7. go'[e].pc = "done" /\ \A h \in Goroutines : h # e => go'[h] = go[h]
  BY <1>0 DEF EventSaves, End, Frame
<1>8. ~Runs(e)'
  BY <1>7 DEF Runs, Resting, Ended
<1>9. UNCHANGED <<rules, now, crashed, unblockCancel, closed>>
  BY DEF EventSaves, maps
<1>. QED BY <1>0, <1>1, <1>2, <1>3, <1>5, <1>6, <1>7, <1>8, <1>9, SaveSync

-----------------------------------------------------------------------------
(* ExecuteAction *)

(* What is common to its steps.                                            *)
LEMMA ActsAlone ==
  ASSUME StateOK, SerialOK, NEW g \in Callers, go[g].pc \in Acting
  PROVE  /\ g \in Goroutines /\ g \notin Unblockers /\ g \notin Events
         /\ go \in [Goroutines -> Frames] /\ Runs(g)
         /\ go[g].ip \in IPs /\ FrameSync(g, go[g], go[g].ip) /\ FrameOK(go[g])
         /\ \A h \in Goroutines : h # g => ~Runs(h)
         /\ \A u \in Unblockers : ~Left(u)
         /\ go[g].pc \notin Behind => Agrees(go[g].ip, blocks[go[g].ip])
         /\ RowOK(blocks[go[g].ip])
<1>1. g \in Goroutines /\ g \notin Unblockers
  BY KindsDiffer DEF Callers, Goroutines, Requests
<1>2. Runs(g) /\ go[g].pc \notin Leaving
  BY DEF Runs, Resting, Ended, Acting, Handing, Blocked, Leaving
<1>. QED BY <1>1, <1>2, RunsAlone DEF StateOK, GoOK, TableOK, FrameSync

(* Back in the caller, a pressed button has ended, a timer goes on.        *)
LEMMA ReturnsFrame ==
  ASSUME StateOK, NEW g \in Callers, g \notin Events, Returns(g)
  PROVE  /\ \A h \in Goroutines : h # g => go'[h] = go[h]
         /\ go'[g].pc = "done" \/ (go'[g].pc = "timer.update" /\ go'[g].ip = go[g].ip)
<1>0. g \in Goroutines /\ go \in [Goroutines -> Frames]
  BY DEF Callers, Goroutines, Requests, StateOK, GoOK
<1>1. CASE End(g, "done")
  BY <1>0, <1>1 DEF End, Frame
<1>2. CASE go' = [go EXCEPT ![g].arec = NewRecord, ![g].chan = None, ![g].pc = "timer.update"]
  BY <1>0, <1>2 DEF Frames
<1>. QED BY <1>1, <1>2 DEF Returns

(* It returns without having changed anything.                             *)
LEMMA ReturnSync ==
  ASSUME StateOK, SerialOK, NEW g \in Callers, go[g].pc \in Acting \ Behind, Returns(g),
         go[g].ip \in known,
         UNCHANGED <<dbVars, rules, now, crashed, unblockCancel, closed>>
  PROVE  SerialOK'
<1>0. PICK ip : ip = go[g].ip
  OBVIOUS
<1>1. PICK f : f = go'[g]
  OBVIOUS
<1>2. /\ \A h \in Goroutines : h # g => go'[h] = go[h]
      /\ f.pc = "done" \/ (f.pc = "timer.update" /\ f.ip = ip)
  BY <1>0, <1>1, ActsAlone, ReturnsFrame
<1>3. f.pc = "done" => ~Runs(g)'
  BY <1>1 DEF Runs, Resting, Ended
<1>4. f.pc = "timer.update" => FrameSync(g, f, ip)
  BY <1>0 DEF FrameSync, RowStep, Counting, Acting, Asking, Blocked, Handing, Leaving,
              Finishing, Holding, Closing
<1>5. go[g].pc # "unblocker.waiting"
  BY DEF Acting, Handing, Blocked
<1>. QED BY <1>0, <1>1, <1>2, <1>3, <1>4, <1>5, ActsAlone, MoveSync

(* It goes on with a row that is not blocked, or returns.                  *)
LEMMA StartsFrame ==
  ASSUME StateOK, NEW g \in Callers, NEW row, RowOK(row), ActionStarts(g, row),
         go[g].action = "all" => row.blockedAt = 0
  PROVE  \/ Returns(g)
         \/ /\ \A h \in Goroutines : h # g => go'[h] = go[h]
            /\ go'[g].pc = "action.execute" /\ go'[g].ip = go[g].ip
            /\ go'[g].arec = row /\ row.blockedAt = 0
<1>0. g \in Goroutines /\ go \in [Goroutines -> Frames]
  BY DEF Callers, Goroutines, Requests, StateOK, GoOK
<1>1. ~Skips(g, row) => row.blockedAt = 0
  BY DEF Skips, RowOK, Records
<1>2. CASE ~Skips(g, row) /\ go' = [go EXCEPT ![g].arec = row, ![g].pc = "action.execute"]
  BY <1>0, <1>1, <1>2 DEF Frames
<1>. QED BY <1>2 DEF ActionStarts

(* GetOrCreateBlockRecord finds the row, or not.                           *)
LEMMA ActionSelectsSync ==
  ASSUME Setting, StateOK, SerialOK, NEW g \in Callers, ActionSelects(g) PROVE SerialOK'
<1>0. go[g].pc = "action.select" /\ go[g].pc \in Acting \ Behind
  BY DEF ActionSelects, At, Acting, Behind, Handing, Blocked
<1>1. PICK ip \in IPs : go[g].ip = ip
  BY <1>0, ActsAlone
<1>2. /\ UNCHANGED <<dbVars, rules, now, crashed, unblockCancel>> /\ closed' = closed
      /\ \/ ip \in known /\ ActionStarts(g, blocks[ip])
         \/ ip \notin known /\ Goto(g, "action.insert")
  BY <1>1 DEF ActionSelects, QueryMayFail, Setting, outside, maps, Finds
<1>3. go[g].action = "all" => blocks[ip].blockedAt = 0
  BY <1>0, <1>1, ActsAlone DEF FrameSync, RowStep
<1>4. PICK f : f = go'[g]
  OBVIOUS
<1>5. CASE ip \in known /\ Returns(g)
  BY <1>0, <1>1, <1>2, <1>5, ReturnSync
<1>6. CASE /\ ip \in known
           /\ \A h \in Goroutines : h # g => go'[h] = go[h]
           /\ f.pc = "action.execute" /\ f.ip = ip
           /\ f.arec = blocks[ip] /\ blocks[ip].blockedAt = 0
  <2>1. FrameSync(g, f, ip)
    BY <1>0, <1>6, ActsAlone DEF FrameSync, RowStep, Counting, Acting, Asking, Blocked,
       Handing, Leaving, Finishing, Holding, Closing
  <2>. QED BY <1>0, <1>1, <1>2, <1>4, <1>6, <2>1, ActsAlone, MoveSync
<1>7. CASE ip \notin known /\ Goto(g, "action.insert")
  <2>1. /\ f.pc = "action.insert" /\ f.ip = ip /\ f.action = go[g].action
        /\ \A h \in Goroutines : h # g => go'[h] = go[h]
    BY <1>0, <1>1, <1>4, <1>7, ActsAlone DEF Goto, Frames
  <2>2. FrameSync(g, f, ip)
    BY <1>0, <1>3, <1>7, <2>1, ActsAlone DEF FrameSync, RowStep, Counting, Acting, Asking,
       Blocked, Handing, Leaving, Finishing, Holding, Closing
  <2>. QED BY <1>0, <1>1, <1>2, <1>4, <2>1, <2>2, ActsAlone, MoveSync
<1>. QED BY <1>0, <1>1, <1>2, <1>3, <1>4, <1>5, <1>6, <1>7, ActsAlone, StartsFrame

(* It makes the row.                                                       *)
LEMMA ActionInsertsSync ==
  ASSUME Setting, StateOK, SerialOK, NEW g \in Callers, ActionInserts(g) PROVE SerialOK'
<1>0. go[g].pc = "action.insert" /\ go[g].pc \in Acting \ Behind /\ go[g].pc \in Asking
  BY DEF ActionInserts, At, Acting, Behind, Handing, Blocked, Asking
<1>1. PICK ip \in IPs : go[g].ip = ip
  BY <1>0, ActsAlone
<1>2. ip \notin known
  BY <1>0, <1>1, ActsAlone DEF FrameSync
<1>3. /\ Insert(ip) /\ ActionStarts(g, NewRecord)
      /\ UNCHANGED <<rules, now, crashed, unblockCancel, closed>>
  BY <1>1, <1>2 DEF ActionInserts, InsertFails, QueryMayFail, Setting, maps
<1>4. PICK f : f = go'[g]
  OBVIOUS
<1>5. \/ Returns(g)
      \/ /\ \A h \in Goroutines : h # g => go'[h] = go[h]
         /\ f.pc = "action.execute" /\ f.ip = ip
         /\ f.arec = NewRecord
  BY <1>1, <1>3, <1>4, NewRecordOK, StartsFrame DEF NewRecord
<1>6. /\ \A h \in Goroutines : h # g => go'[h] = go[h]
      /\ \/ f.pc = "done"
         \/ f.pc = "timer.update" /\ f.ip = ip
         \/ f.pc = "action.execute" /\ f.ip = ip /\ f.arec = NewRecord
  BY <1>0, <1>1, <1>4, <1>5, ActsAlone, ReturnsFrame
<1>7. f.pc = "done" => ~Runs(g)'
  BY <1>4 DEF Runs, Resting, Ended
<1>8. f.pc # "done" => RowStep(f, NewRecord)
  BY <1>6 DEF RowStep, Counting, Blocked, Holding, NewRecord
<1>. QED BY <1>0, <1>1, <1>3, <1>4, <1>6, <1>7, <1>8, ActsAlone, InsertSync

(* The actioner is called.  A rule it inserts was not there; a store's     *)
(* answer leaves the address as it is.                                     *)
LEMMA ActionExecutesSync ==
  ASSUME Setting, StateOK, SerialOK, NEW g \in Callers, ActionExecutes(g) PROVE SerialOK'
<1>0. go[g].pc = "action.execute" /\ go[g].pc \in Acting \ Behind
  BY DEF ActionExecutes, At, Acting, Behind, Handing, Blocked
<1>1. PICK ip \in IPs : go[g].ip = ip
  BY <1>0, ActsAlone
<1>2. /\ go[g].arec = blocks[ip] /\ blocks[ip].blockedAt = 0 /\ ip \in known
      /\ Agrees(ip, blocks[ip])
  BY <1>0, <1>1, ActsAlone DEF FrameSync, RowStep, Asking
<1>3. ip \notin rules /\ NoOpen(ip)
  BY <1>2 DEF Agrees, Waits, NoOpen
<1>4. /\ known' = known /\ blocks' = blocks /\ now' = now /\ crashed' = crashed
      /\ cancel' = cancel /\ unblockCancel' = unblockCancel /\ closed' = closed
  BY DEF ActionExecutes, dbVars, maps
<1>5. \/ g \in Callers /\ Returns(g) /\ rules' = rules
      \/ go[g].action \in Blocking /\ Executed(g) /\ rules' = rules \cup {ip}
      \/ go[g].action \notin Blocking /\ Executed(g) /\ rules' = rules
  BY <1>1, <1>3 DEF ActionExecutes, RuleInserted, InsertRefused, CallMayFail, Setting, Blocking
<1>6. CASE Returns(g) /\ rules' = rules
  BY <1>0, <1>1, <1>2, <1>4, <1>6, ReturnSync DEF dbVars
<1>7. PICK f : f = go'[g]
  OBVIOUS
<1>8. CASE go[g].action \in Blocking /\ Executed(g) /\ rules' = rules \cup {ip}
  <2>1. PICK r : r = MarkTaken(blocks[ip])
    OBVIOUS
  <2>2. /\ f.pc = "action.lookup" /\ f.ip = ip /\ f.arec = r
        /\ \A h \in Goroutines : h # g => go'[h] = go[h]
    <3>1. go' = [go EXCEPT ![g].arec = r, ![g].pc = "action.lookup"]
      BY <1>2, <1>8, <2>1, ActsAlone, <1>0 DEF Executed
    <3>. QED BY <1>0, <1>1, <1>7, <3>1, ActsAlone DEF Frames
  <2>3. NoOpen(ip)'
    BY <1>0, <1>3, <1>4, <2>2, ActsAlone DEF NoOpen, Open, At, Goroutines
  <2>4. FrameSync(g, f, ip)'
    BY <1>0, <1>2, <1>4, <1>8, <2>1, <2>2, <2>3, ActsAlone DEF FrameSync, RowStep, Counting,
       Acting, Asking, Blocked, Handing, Leaving, Finishing, Holding, Closing
  <2>5. f.pc \in Behind
    BY <2>2 DEF Behind, Handing
  <2>6. ip \in IPs \ known' => blocks'[ip] = NewRecord
    BY <1>4 DEF SerialOK, RowsOK
  <2>. QED BY <1>0, <1>1, <1>4, <1>7, <1>8, <2>2, <2>4, <2>5, <2>6, ActsAlone, PlainSync
<1>9. CASE go[g].action \notin Blocking /\ Executed(g) /\ rules' = rules
  <2>1. PICK r : r = MarkTaken(blocks[ip])
    OBVIOUS
  <2>2. /\ f.pc = "action.save" /\ f.ip = ip /\ f.arec = r
        /\ \A h \in Goroutines : h # g => go'[h] = go[h]
    <3>1. go' = [go EXCEPT ![g].arec = r, ![g].pc = "action.save"]
      BY <1>2, <1>9, <2>1, ActsAlone, <1>0 DEF Executed
    <3>. QED BY <1>0, <1>1, <1>7, <3>1, ActsAlone DEF Frames
  <2>3. r.blockedAt = 0
    BY <1>0, <1>1, <1>2, <2>1, ActsAlone DEF MarkTaken, RowOK, Records
  <2>4. Agrees(ip, r)
    BY <1>3, <2>3 DEF Agrees, NoOpen
  <2>5. FrameSync(g, f, ip)
    BY <1>0, <1>2, <2>1, <2>2, <2>4, ActsAlone DEF FrameSync, RowStep, Counting,
       Acting, Asking, Blocked, Handing, Leaving, Finishing, Holding, Closing
  <2>6. f.pc \in Behind
    BY <2>2 DEF Behind
  <2>. QED BY <1>0, <1>1, <1>4, <1>7, <1>9, <2>2, <2>5, <2>6, ActsAlone, MoveSync DEF dbVars
<1>. QED BY <1>5, <1>6, <1>8, <1>9

(* The entry of the timer is looked up: its channel is open.               *)
LEMMA ActionLooksUpSync ==
  ASSUME Setting, StateOK, SerialOK, ChannelsOK, NEW g \in Callers, ActionLooksUp(g)
  PROVE  SerialOK'
<1>0. go[g].pc = "action.lookup" /\ go[g].pc \in Acting
  BY DEF ActionLooksUp, At, Acting, Handing
<1>1. PICK ip \in IPs : go[g].ip = ip
  BY <1>0, ActsAlone
<1>2. /\ go[g].arec = MarkTaken(blocks[ip]) /\ blocks[ip].blockedAt = 0
      /\ ip \in known /\ ip \in rules /\ NoOpen(ip)
  BY <1>0, <1>1, ActsAlone DEF FrameSync, RowStep, Asking, Handing
<1>3. cancel[ip] \notin closed
  BY <1>0, ActsAlone DEF ChannelsOK, ClosedChannelsLeaveMaps, DeletesTimer, Runs, Resting, Ended
<1>4. PICK f : f = go'[g]
  OBVIOUS
<1>5. PICK r : r = MarkBlocked(MarkTaken(blocks[ip]), now)
  OBVIOUS
<1>6. /\ f.ip = ip /\ f.arec = r
      /\ \/ f.pc = "action.close" /\ f.chan = cancel[ip]
         \/ f.pc = "action.spawn"
      /\ \A h \in Goroutines : h # g => go'[h] = go[h]
  <2>1. \/ go' = [go EXCEPT ![g].arec = r, ![g].chan = cancel[ip], ![g].pc = "action.close"]
        \/ go' = [go EXCEPT ![g].arec = r, ![g].pc = "action.spawn"]
    BY <1>1, <1>2, <1>5 DEF ActionLooksUp
  <2>. QED BY <1>0, <1>1, <1>4, <2>1, ActsAlone DEF Frames
<1>7. FrameSync(g, f, ip)
  BY <1>0, <1>2, <1>3, <1>5, <1>6, ActsAlone DEF FrameSync, RowStep, Blocks, Counting,
     Acting, Asking, Blocked, Handing, Leaving, Finishing, Holding, Closing
<1>8. f.pc \in Behind /\ f.pc \notin {"timer.armed", "unblocker.waiting"}
  BY <1>6 DEF Behind, Handing, Blocked
<1>9. /\ UNCHANGED <<dbVars, rules, now, crashed, unblockCancel>> /\ closed' = closed
      /\ go[g].pc # "unblocker.waiting"
  BY <1>0 DEF ActionLooksUp, outside, maps
<1>. QED BY <1>0, <1>1, <1>4, <1>6, <1>7, <1>8, <1>9, ActsAlone, MoveSync

(* The channel is closed and its entry deleted.                            *)
LEMMA ActionClosesSync ==
  ASSUME Setting, StateOK, SerialOK, NEW g \in Callers, ActionCloses(g) \/ ActionDeletes(g)
  PROVE  SerialOK'
<1>0. go[g].pc \in {"action.close", "action.delete"} /\ go[g].pc \in Acting
  BY DEF ActionCloses, ActionDeletes, At, Acting, Handing, Blocked
<1>1. PICK ip \in IPs : go[g].ip = ip
  BY <1>0, ActsAlone
<1>2. /\ Blocks(go[g].arec, blocks[ip]) /\ ip \in known /\ ip \in rules /\ NoOpen(ip)
      /\ go[g].pc = "action.close" => go[g].chan \notin closed /\ go[g].chan \in Timers
  BY <1>0, <1>1, ActsAlone
     DEF FrameSync, RowStep, Asking, Handing, Blocked, Closing, FrameOK, TimerClosing
<1>3. \E l \in {"action.delete", "action.spawn"} : Goto(g, l)
  BY <1>0, <1>2 DEF ActionCloses, ActionDeletes, Closes, At
<1>4. closed' = closed \/ (closed' = closed \cup {go[g].chan} /\ go[g].chan \in Timers)
  BY <1>0, <1>2 DEF ActionCloses, ActionDeletes, Closes, At
<1>5. UNCHANGED <<dbVars, rules, now, crashed, unblockCancel>>
  BY <1>0, <1>2 DEF ActionCloses, ActionDeletes, Closes, At, outside
<1>6. PICK f : f = go'[g]
  OBVIOUS
<1>7. /\ f.ip = ip /\ f.arec = go[g].arec /\ f.pc \in {"action.delete", "action.spawn"}
      /\ \A h \in Goroutines : h # g => go'[h] = go[h]
  BY <1>0, <1>1, <1>3, <1>6, ActsAlone DEF Goto, Frames
<1>8. FrameSync(g, f, ip)
  BY <1>0, <1>2, <1>7, ActsAlone DEF FrameSync, RowStep, Counting,
     Acting, Asking, Blocked, Handing, Leaving, Finishing, Holding, Closing
<1>9. /\ f.pc \in Behind /\ f.pc \notin {"timer.armed", "unblocker.waiting"} \cup Closing
      /\ go[g].pc # "unblocker.waiting"
  BY <1>0, <1>7 DEF Behind, Handing, Blocked, Closing
<1>10. \A u \in Unblockers : u \in closed' <=> u \in closed
  BY <1>4, KindsDiffer
<1>. QED BY <1>0, <1>1, <1>5, <1>6, <1>7, <1>8, <1>9, <1>10, ActsAlone, MoveSync

(* The scheduled unblock is started: it waits for what will be written.    *)
LEMMA ActionSpawnsSync ==
  ASSUME Setting, StateOK, SerialOK, ChannelsOK, NEW g \in Callers, ActionSpawns(g)
  PROVE  SerialOK'
<1>0. go[g].pc = "action.spawn" /\ go[g].pc \in Acting
  BY DEF ActionSpawns, At, Acting, Handing, Blocked
<1>1. PICK ip \in IPs : go[g].ip = ip
  BY <1>0, ActsAlone
<1>2. PICK r : r = go[g].arec
  OBVIOUS
<1>3. Blocks(r, blocks[ip]) /\ ip \in known /\ ip \in rules /\ NoOpen(ip)
  BY <1>0, <1>1, <1>2, ActsAlone DEF FrameSync, RowStep, Asking, Handing, Blocked
<1>4. PICK u \in Unblockers :
        /\ go[u].pc = "new"
        /\ unblockCancel' = [unblockCancel EXCEPT ![ip] = u]
        /\ go' = [go EXCEPT
                    ![g].pc = "action.save",
                    ![u] = [Frame("unblocker.waiting") EXCEPT !.ip = ip, !.rec = r]]
  BY <1>1, <1>2 DEF ActionSpawns, Fresh, At
<1>5. u \in Goroutines /\ u # g /\ u \notin closed
  BY <1>0, <1>4 DEF Goroutines, ChannelsOK, InUse
<1>6. /\ go'[g].pc = "action.save" /\ go'[g].ip = ip /\ go'[g].arec = r
      /\ go'[u].pc = "unblocker.waiting" /\ go'[u].ip = ip /\ go'[u].rec = r
      /\ \A h \in Goroutines : h \notin {g, u} => go'[h] = go[h]
  BY <1>0, <1>1, <1>2, <1>4, <1>5, ActsAlone DEF Frames, Frame
<1>7. /\ known' = known /\ blocks' = blocks /\ rules' = rules /\ now' = now
      /\ crashed' = crashed /\ closed' = closed
      /\ \A i \in IPs : unblockCancel'[i] = IF i = ip THEN u ELSE unblockCancel[i]
  BY <1>4 DEF ActionSpawns, outside, dbVars, StateOK, MapsOK
<1>8. r.blockedAt > 0 /\ now <= r.unblockAfter
  <2>1. RowOK(MarkTaken(blocks[ip])) /\ MarkTaken(blocks[ip]).actionTaken
    BY <1>0, <1>1, ActsAlone, TakenOK DEF MarkTaken, RowOK, Records
  <2>2. r.blockedAt = now /\ now >= 1 /\ now \in Nat
    BY <1>3, <2>1 DEF Blocks, MarkBlocked, SerialOK, RowsOK, StateOK, OutsideOK, RowOK, Records
  <2>3. r.unblockAfter = r.blockedAt + (UnblockAfter * Minute) * r.blockCount
        /\ r.blockCount \in Nat
    <3>1. RowOK(r)
      BY <1>3, <2>1, BlockedOK DEF Blocks, StateOK, OutsideOK
    <3>. QED BY <2>2, <3>1 DEF RowOK, Coherent, Records
  <2>4. (UnblockAfter * Minute) * r.blockCount \in Nat
    BY <2>3, BaseType
  <2>. QED BY <2>2, <2>3, <2>4
<1>9. \A v \in Unblockers : Open(v)' => v = u \/ (Open(v) /\ go'[v] = go[v])
  BY <1>0, <1>6, <1>7, ActsAlone DEF Open, At, Goroutines
<1>10. Agrees(ip, r)'
  BY <1>3, <1>6, <1>7, <1>8, <1>9 DEF Agrees, Waits, NoOpen
<1>11. FrameSync(g, go[g], ip)'
  <2>1. PICK f : f = go'[g]
    OBVIOUS
  <2>2. FrameSync(g, f, ip)'
    BY <1>0, <1>3, <1>6, <1>7, <1>10, <2>1, ActsAlone DEF FrameSync, RowStep, Blocks, Counting,
       Acting, Asking, Blocked, Handing, Leaving, Finishing, Holding, Closing
  <2>. QED BY <2>1, <2>2
<1>12. \A h \in Goroutines : h # g => ~Runs(h)'
  BY <1>0, <1>6, ActsAlone DEF Runs, Resting
<1>13. \A v \in Unblockers : ~Left(v)'
  BY <1>0, <1>5, <1>6, <1>7, ActsAlone DEF Left, At, Goroutines
<1>14. RowsOK' /\ LeftOK' /\ go'[g].pc \in Behind
  BY <1>3, <1>6, <1>7, <1>13 DEF SerialOK, RowsOK, LeftOK, Behind
<1>. QED BY <1>0, <1>1, <1>6, <1>7, <1>9, <1>11, <1>12, <1>13, <1>14, ActsAlone, StepSync

(* The record is written.                                                  *)
LEMMA ActionSavesSync ==
  ASSUME Setting, StateOK, SerialOK, NEW g \in Callers, ActionSaves(g) PROVE SerialOK'
<1>0. go[g].pc = "action.save" /\ go[g].pc \in Acting
  BY DEF ActionSaves, At, Acting
<1>1. PICK ip \in IPs : go[g].ip = ip
  BY <1>0, ActsAlone
<1>2. PICK r : r = go[g].arec
  OBVIOUS
<1>3. Agrees(ip, r) /\ ip \in known
  BY <1>0, <1>1, <1>2, ActsAlone DEF FrameSync, Asking
<1>4. Update(ip, r) /\ Returns(g) /\ UNCHANGED <<rules, now, crashed, unblockCancel, closed>>
  BY <1>1, <1>2 DEF ActionSaves, UpdateFails, QueryMayFail, Setting, maps
<1>5. /\ \A h \in Goroutines : h # g => go'[h] = go[h]
      /\ go'[g].pc = "done" \/ (go'[g].pc = "timer.update" /\ go'[g].ip = ip)
  BY <1>0, <1>1, <1>4, ActsAlone, ReturnsFrame
<1>6. go'[g].pc = "done" => ~Runs(g)'
  BY DEF Runs, Resting, Ended
<1>. QED BY <1>0, <1>1, <1>3, <1>4, <1>5, <1>6, ActsAlone, SaveSync

(* All of them.                                                            *)
LEMMA ActionSync ==
  ASSUME Setting, StateOK, SerialOK, ChannelsOK, NEW g \in Callers, ActionSteps(g)
  PROVE  SerialOK'
BY ActionSelectsSync, ActionInsertsSync, ActionExecutesSync, ActionLooksUpSync,
   ActionClosesSync, ActionSpawnsSync, ActionSavesSync DEF ActionSteps

-----------------------------------------------------------------------------
(* The goroutines of the manager *)

(* The notification timer fires.                                           *)
LEMMA TimerFiresSync ==
  ASSUME Setting, StateOK, SerialOK, NEW t \in Timers, TimerFires(t) PROVE SerialOK'
<1>0. /\ t \in Goroutines /\ t \notin Unblockers /\ go \in [Goroutines -> Frames]
      /\ go[t].pc = "timer.armed" /\ ~Runs(t) /\ Alone(t) /\ Serial /\ t \notin Events
  BY KindsDiffer DEF Goroutines, StateOK, GoOK, TimerFires, At, Runs, Resting, Setting
<1>1. PICK ip \in IPs : go[t].ip = ip
  BY <1>0, Running DEF StateOK, Ended
<1>2. /\ \A h \in Goroutines : ~Runs(h)
      /\ \A u \in Unblockers : ~Left(u) /\ (u \in closed' <=> u \in closed)
      /\ Agrees(ip, blocks[ip])
      /\ UNCHANGED <<dbVars, rules, now, crashed, unblockCancel>> /\ closed' = closed
  BY <1>0, StartsAlone DEF TimerFires, outside, maps
<1>3. ip \in known
  BY <1>0, <1>1 DEF SerialOK, RowsOK
<1>4. PICK f : f = go'[t]
  OBVIOUS
<1>5. /\ \A h \in Goroutines : h # t => go'[h] = go[h]
      /\ f.pc = "done" \/ (f.pc = "timer.select" /\ f.ip = ip)
  BY <1>0, <1>1, <1>4 DEF TimerFires, End, Goto, Frame, Frames
<1>6. f.pc = "done" => ~Runs(t)'
  BY <1>4 DEF Runs, Resting, Ended
<1>7. f.pc = "timer.select" => FrameSync(t, f, ip)
  BY <1>0, <1>3 DEF FrameSync, RowStep, Counting, Acting, Asking, Blocked, Handing, Leaving,
     Finishing, Holding, Closing
<1>. QED BY <1>0, <1>1, <1>2, <1>4, <1>5, <1>6, <1>7, MoveSync

(* It finds an action taken, or has one taken; then it goes on to its end. *)
LEMMA TimerRunsSync ==
  ASSUME Setting, StateOK, SerialOK, NEW t \in Timers,
         TimerSelects(t) \/ TimerUpdates(t) \/ TimerDeletes(t)
  PROVE  SerialOK'
<1>0. /\ t \in Goroutines /\ t \notin Unblockers /\ go \in [Goroutines -> Frames]
      /\ go[t].pc \in {"timer.select", "timer.update", "timer.delete"}
      /\ Runs(t) /\ t \notin Events
  BY KindsDiffer DEF Goroutines, StateOK, GoOK, TimerSelects, TimerUpdates, TimerDeletes, At,
                     Runs, Resting, Ended
<1>1. PICK ip \in IPs : go[t].ip = ip
  BY <1>0, RunsAlone
<1>2. /\ \A h \in Goroutines : h # t => ~Runs(h)
      /\ \A u \in Unblockers : ~Left(u)
      /\ Agrees(ip, blocks[ip]) /\ ip \in known
  BY <1>0, <1>1, RunsAlone DEF Leaving, Behind, Handing, Blocked, FrameSync, Asking
<1>3. UNCHANGED <<dbVars, rules, now, crashed, unblockCancel, closed>>
  BY DEF TimerSelects, TimerUpdates, TimerDeletes, QueryMayFail, Setting, outside, maps
<1>4. PICK f : f = go'[t]
  OBVIOUS
<1>5. /\ \A h \in Goroutines : h # t => go'[h] = go[h]
      /\ \/ f.pc = "done"
         \/ f.pc = "timer.delete" /\ f.ip = ip
         \/ f.pc = "timer.update" /\ f.ip = ip
         \/ f.pc = "action.select" /\ f.ip = ip /\ ~blocks[ip].actionTaken
  BY <1>0, <1>1, <1>4 DEF TimerSelects, TimerUpdates, TimerDeletes, QueryMayFail, Setting,
     End, Goto, Frame, Frames
<1>6. f.pc = "done" => ~Runs(t)'
  BY <1>4 DEF Runs, Resting, Ended
<1>7. ~blocks[ip].actionTaken => blocks[ip].blockedAt = 0
  <2>1. RowOK(blocks[ip])
    BY DEF StateOK, TableOK
  <2>. QED BY <2>1 DEF RowOK, Coherent, Records
<1>8. f.pc # "done" => FrameSync(t, f, ip)
  BY <1>0, <1>2, <1>5, <1>7 DEF FrameSync, RowStep, Counting, Acting, Asking, Blocked, Handing,
     Leaving, Finishing, Holding, Closing
<1>. QED BY <1>0, <1>1, <1>2, <1>3, <1>4, <1>5, <1>6, <1>8, MoveSync

(* A scheduled unblock wakes: its time has come, or it was left over.  Its *)
(* address had no other one waiting.                                       *)
LEMMA UnblockerWakesSync ==
  ASSUME Setting, StateOK, SerialOK, NEW u \in Unblockers, UnblockerWakes(u) PROVE SerialOK'
<1>0. /\ u \in Goroutines /\ go \in [Goroutines -> Frames]
      /\ go[u].pc = "unblocker.waiting" /\ ~Runs(u) /\ Alone(u) /\ Serial /\ u \notin Events
  BY KindsDiffer DEF Goroutines, StateOK, GoOK, UnblockerWakes, At, Runs, Resting, Setting
<1>1. PICK ip \in IPs : go[u].ip = ip
  BY <1>0, Running DEF StateOK, Ended
<1>2. /\ \A h \in Goroutines : ~Runs(h)
      /\ \A v \in Unblockers : v # u => ~Left(v)
      /\ Agrees(ip, blocks[ip]) /\ ip \in known
  BY <1>0, <1>1, StartsAlone DEF SerialOK, RowsOK
<1>3. /\ known' = known /\ blocks' = blocks /\ rules' = rules /\ now' = now
      /\ crashed' = crashed /\ unblockCancel' = unblockCancel /\ closed' = closed
  BY DEF UnblockerWakes, outside, dbVars, maps
<1>4. PICK f : f = go'[u]
  OBVIOUS
<1>5. /\ \A h \in Goroutines : h # u => go'[h] = go[h]
      /\ f.ip = ip /\ f.rec = go[u].rec
      /\ \/ f.pc = "unblocker.unblock" /\ now >= go[u].rec.unblockAfter
         \/ f.pc = "unblocker.delete"
  BY <1>0, <1>1, <1>4 DEF UnblockerWakes, Goto, Frames
<1>6. \A v \in Unblockers : Open(v)' => Open(v) /\ v # u /\ go'[v] = go[v]
  BY <1>0, <1>3, <1>4, <1>5 DEF Open, At, Goroutines
<1>7. NoOpen(ip)'
  <2>1. CASE Open(u)
    BY <1>0, <1>1, <1>2, <1>6, <2>1 DEF Agrees, Waits, NoOpen
  <2>2. CASE Left(u)
    BY <1>0, <1>1, <1>6, <2>2 DEF SerialOK, LeftOK, NoOpen
  <2>. QED BY <1>0, <2>1, <2>2 DEF Open, Left, At
<1>8. Agrees(ip, blocks[ip])'
  BY <1>2, <1>3, <1>7 DEF Agrees, NoOpen
<1>9. blocks[ip] = Unblocked(f.rec) \/ (f.rec = blocks[ip] /\ blocks[ip].blockedAt > 0)
  <2>1. CASE Open(u)
    BY <1>1, <1>2, <1>5, <2>1 DEF Agrees, Waits
  <2>2. CASE Left(u)
    <3>1. \A m \in Goroutines : go[m].pc \notin Leaving
      BY <1>2 DEF Runs, Resting, Ended, Leaving
    <3>. QED BY <1>1, <1>5, <2>2, <3>1 DEF SerialOK, LeftOK
  <2>. QED BY <1>0, <2>1, <2>2 DEF Open, Left, At
<1>10. FrameSync(u, go[u], ip)'
  <2>1. RowStep(f, blocks[ip])'
    <3>1. f.pc = "unblocker.unblock" /\ f.rec = blocks[ip] => blocks[ip].unblockAfter <= now
      <4>1. now \in Nat /\ blocks[ip].unblockAfter \in Nat
        BY DEF StateOK, OutsideOK, TableOK, RowOK, Records
      <4>. QED BY <1>5, <4>1
    <3>. QED BY <1>3, <1>5, <1>9, <3>1 DEF RowStep, Counting, Blocked, Holding
  <2>2. FrameSync(u, f, ip)'
    BY <1>0, <1>2, <1>3, <1>5, <1>7, <2>1 DEF FrameSync, Acting, Asking, Blocked, Handing,
       Leaving, Finishing, Closing
  <2>. QED BY <1>4, <2>2
<1>11. \A v \in Unblockers : ~Left(v)'
  BY <1>2, <1>3, <1>4, <1>5 DEF Left, At, Goroutines
<1>12. RowsOK' /\ LeftOK'
  BY <1>3, <1>4, <1>5, <1>11 DEF SerialOK, RowsOK, LeftOK
<1>13. \A h \in Goroutines : h # u => ~Runs(h)'
  BY <1>2, <1>5 DEF Runs
<1>. QED BY <1>0, <1>1, <1>2, <1>3, <1>4, <1>5, <1>6, <1>8, <1>10, <1>11, <1>12, <1>13, StepSync

(* What is common to the steps of a scheduled unblock that has woken.      *)
LEMMA UnblocksAlone ==
  ASSUME StateOK, SerialOK, NEW u \in Unblockers, go[u].pc \in Finishing
  PROVE  /\ u \in Goroutines /\ u \notin Events /\ go \in [Goroutines -> Frames] /\ Runs(u)
         /\ go[u].ip \in IPs /\ FrameSync(u, go[u], go[u].ip) /\ FrameOK(go[u])
         /\ \A h \in Goroutines : h # u => ~Runs(h)
         /\ \A v \in Unblockers : ~Left(v)
         /\ go[u].pc \notin Behind => Agrees(go[u].ip, blocks[go[u].ip])
         /\ RowOK(blocks[go[u].ip]) /\ go[u].ip \in known /\ NoOpen(go[u].ip)
         /\ go[u].pc # "unblocker.waiting"
<1>1. u \in Goroutines /\ u \notin Events
  BY KindsDiffer DEF Goroutines
<1>2. Runs(u) /\ go[u].pc \notin Leaving \cup Asking /\ go[u].pc # "unblocker.waiting"
  BY DEF Runs, Resting, Ended, Finishing, Leaving, Asking
<1>. QED BY <1>1, <1>2, RunsAlone DEF StateOK, GoOK, TableOK, FrameSync

(* Its call: the rule is gone, by it or before it.                         *)
LEMMA UnblockerUnblocksSync ==
  ASSUME Setting, StateOK, SerialOK, NEW u \in Unblockers, UnblockerUnblocks(u)
  PROVE  SerialOK'
<1>0. go[u].pc = "unblocker.unblock" /\ go[u].pc \in Finishing /\ go[u].pc \notin Behind
  BY DEF UnblockerUnblocks, At, Finishing, Behind, Handing, Blocked
<1>1. PICK ip \in IPs : go[u].ip = ip
  BY <1>0, UnblocksAlone
<1>2. /\ rules' = rules \ {ip}
      /\ known' = known /\ blocks' = blocks /\ now' = now
      /\ crashed' = crashed /\ unblockCancel' = unblockCancel /\ closed' = closed
  BY <1>1 DEF UnblockerUnblocks, RuleDeleted, DeleteRefused, CallMayFail, Setting, dbVars, maps
<1>3. PICK f : f = go'[u]
  OBVIOUS
<1>4. /\ f.pc = "unblocker.save" /\ f.ip = ip /\ f.rec = Unblocked(go[u].rec)
      /\ \A h \in Goroutines : h # u => go'[h] = go[h]
  BY <1>0, <1>1, <1>3, UnblocksAlone DEF UnblockerUnblocks, Frames
<1>5. NoOpen(ip)'
  BY <1>0, <1>1, <1>2, <1>3, <1>4, UnblocksAlone DEF NoOpen, Open, At, Goroutines
<1>6. f.rec.blockedAt = 0
  BY <1>0, <1>4, UnblocksAlone DEF Unblocked, FrameOK, RowOK, Records
<1>7. Agrees(ip, f.rec)'
  BY <1>2, <1>5, <1>6 DEF Agrees, NoOpen
<1>8. RowStep(f, blocks[ip])'
  <2>1. \/ f.rec = blocks[ip]
        \/ /\ f.rec = Unblocked(blocks[ip])
           /\ blocks[ip].blockedAt > 0 /\ blocks[ip].unblockAfter <= now
    BY <1>0, <1>1, <1>4, UnblocksAlone DEF FrameSync, RowStep
  <2>. QED BY <1>2, <1>4, <2>1 DEF RowStep, Counting, Blocked, Holding
<1>9. FrameSync(u, go[u], ip)'
  <2>1. FrameSync(u, f, ip)'
    BY <1>0, <1>1, <1>2, <1>4, <1>5, <1>7, <1>8, UnblocksAlone DEF FrameSync, Acting, Asking,
       Blocked, Handing, Leaving, Finishing, Closing
  <2>. QED BY <1>3, <2>1
<1>10. f.pc \in Behind /\ (ip \in IPs \ known' => blocks'[ip] = NewRecord)
  BY <1>2, <1>4 DEF Behind, SerialOK, RowsOK
<1>. QED BY <1>0, <1>1, <1>2, <1>3, <1>4, <1>9, <1>10, UnblocksAlone, PlainSync

(* It writes its record.                                                   *)
LEMMA UnblockerSavesSync ==
  ASSUME Setting, StateOK, SerialOK, NEW u \in Unblockers, UnblockerSaves(u) PROVE SerialOK'
<1>0. go[u].pc = "unblocker.save" /\ go[u].pc \in Finishing
  BY DEF UnblockerSaves, At, Finishing
<1>1. PICK ip \in IPs : go[u].ip = ip
  BY <1>0, UnblocksAlone
<1>2. PICK r : r = go[u].rec
  OBVIOUS
<1>3. Agrees(ip, r)
  BY <1>0, <1>1, <1>2, UnblocksAlone DEF FrameSync
<1>4. Update(ip, r) /\ UNCHANGED <<rules, now, crashed, unblockCancel, closed>>
  BY <1>1, <1>2 DEF UnblockerSaves, UpdateFails, QueryMayFail, Setting, maps
<1>5. /\ go'[u].pc = "unblocker.delete" /\ go'[u].ip = ip
      /\ \A h \in Goroutines : h # u => go'[h] = go[h]
  BY <1>0, <1>1, UnblocksAlone DEF UnblockerSaves, Goto, Frames
<1>. QED BY <1>0, <1>1, <1>3, <1>4, <1>5, UnblocksAlone, SaveSync

(* It deletes the entry of its address: nobody waits on it.                *)
LEMMA UnblockerDeletesSync ==
  ASSUME Setting, StateOK, SerialOK, NEW u \in Unblockers, UnblockerDeletes(u) PROVE SerialOK'
<1>0. go[u].pc = "unblocker.delete" /\ go[u].pc \in Finishing /\ go[u].pc \notin Behind
  BY DEF UnblockerDeletes, At, Finishing, Behind, Handing, Blocked
<1>1. PICK ip \in IPs : go[u].ip = ip
  BY <1>0, UnblocksAlone
<1>2. /\ known' = known /\ blocks' = blocks /\ rules' = rules /\ now' = now
      /\ crashed' = crashed /\ closed' = closed
      /\ \A i \in IPs : i # ip => unblockCancel'[i] = unblockCancel[i]
  BY <1>1 DEF UnblockerDeletes, outside, dbVars, StateOK, MapsOK
<1>3. go'[u].pc = "done" /\ \A h \in Goroutines : h # u => go'[h] = go[h]
  BY <1>0, UnblocksAlone DEF UnblockerDeletes, End, Frame
<1>4. ~Runs(u)'
  BY <1>3 DEF Runs, Resting, Ended
<1>5. \A v \in Unblockers : Open(v)' => Open(v) /\ go'[v] = go[v]
  BY <1>2, <1>3 DEF Open, At, Goroutines
<1>6. Agrees(ip, blocks[ip])'
  BY <1>0, <1>1, <1>2, <1>5, UnblocksAlone DEF Agrees, NoOpen
<1>7. ip \in IPs \ known' => blocks'[ip] = NewRecord
  BY <1>2 DEF SerialOK, RowsOK
<1>. QED BY <1>0, <1>1, <1>2, <1>3, <1>4, <1>6, <1>7, UnblocksAlone, PlainSync

-----------------------------------------------------------------------------
(* Pressed buttons *)

(* A pressed button is no event.                                           *)
LEMMA PressesAreNoEvents == Presses \cap Events = {}
<1>. DEFINE kinds == <<Events, Presses, Unblocks, Timers, Unblockers>>
<1>1. \A i, j \in 1..5 : i # j => kinds[i] \cap kinds[j] = {}
  BY ManagerAssumption
<1>2. kinds[1] = Events /\ kinds[2] = Presses
  OBVIOUS
<1>. HIDE DEF kinds
<1>3. kinds[1] \cap kinds[2] = {}
  BY <1>1
<1>. QED BY <1>2, <1>3

(* handleSlackCallback: no button that is understood says "all".           *)
LEMMA PressArrivesSync ==
  ASSUME Setting, StateOK, SerialOK, NEW p \in Presses, PressArrives(p) PROVE SerialOK'
<1>0. /\ p \in Goroutines /\ p \notin Unblockers /\ go \in [Goroutines -> Frames]
      /\ go[p].pc = "new" /\ ~Runs(p) /\ Alone(p) /\ Serial
  BY KindsDiffer DEF Goroutines, Requests, StateOK, GoOK, PressArrives, Arrives, Fresh, At,
                     Runs, Resting, Setting
<1>1. /\ \A h \in Goroutines : h # p => ~Runs(h)
      /\ \A u \in Unblockers : ~Left(u) /\ (u \in closed' <=> u \in closed)
      /\ \A ip \in IPs : Agrees(ip, blocks[ip])
      /\ UNCHANGED <<dbVars, rules, now, crashed, unblockCancel>> /\ closed' = closed
  BY <1>0, StartsAlone DEF PressArrives, maps
<1>2. ASSUME NEW l \in {"done", "unparsed"}, End(p, l) PROVE SerialOK'
  <2>1. go'[p].pc = l /\ \A h \in Goroutines : h # p => go'[h] = go[h]
    BY <1>0, <1>2 DEF End, Frame
  <2>2. ~Runs(p)'
    BY <1>2, <2>1 DEF Runs, Resting, Ended
  <2>3. go'[p].pc \notin {"timer.armed", "unblocker.waiting"}
    BY <1>2, <2>1
  <2>. QED BY <1>0, <1>1, <2>1, <2>2, <2>3, MoveSync
<1>3. ASSUME NEW ip \in IPs, NEW button \in Buttons, ScannedText \in Texts,
             go' = [go EXCEPT ![p].ip = ip, ![p].action = button, ![p].pc = "action.select"]
      PROVE  SerialOK'
  <2>1. PICK f : f = go'[p]
    OBVIOUS
  <2>2. /\ f.pc = "action.select" /\ f.ip = ip /\ f.action = button
        /\ \A h \in Goroutines : h # p => go'[h] = go[h]
    BY <1>0, <1>3, <2>1 DEF Frames
  <2>3. button # "all" /\ p \notin Events
    BY <1>3, PressesAreNoEvents DEF Setting
  <2>4. FrameSync(p, f, ip)
    BY <2>2, <2>3 DEF FrameSync, RowStep, Counting, Acting, Asking, Blocked, Handing, Leaving,
                Finishing, Holding, Closing
  <2>. QED BY <1>0, <1>1, <2>1, <2>2, <2>4, MoveSync
<1>. QED BY <1>2, <1>3 DEF PressArrives, Scans

-----------------------------------------------------------------------------
(* ManualUnblock *)

(* unblockHandler.                                                         *)
LEMMA ManualArrivesSync ==
  ASSUME Setting, StateOK, SerialOK, NEW m \in Unblocks, ManualArrives(m) PROVE SerialOK'
<1>0. /\ m \in Goroutines /\ m \notin Unblockers /\ go \in [Goroutines -> Frames]
      /\ go[m].pc = "new" /\ ~Runs(m) /\ Alone(m) /\ Serial
  BY KindsDiffer DEF Goroutines, Requests, StateOK, GoOK, ManualArrives, Arrives, Fresh, At,
                     Runs, Resting, Setting
<1>1. /\ \A h \in Goroutines : h # m => ~Runs(h)
      /\ \A u \in Unblockers : ~Left(u) /\ (u \in closed' <=> u \in closed)
      /\ \A ip \in IPs : Agrees(ip, blocks[ip])
      /\ UNCHANGED <<dbVars, rules, now, crashed, unblockCancel>> /\ closed' = closed
  BY <1>0, StartsAlone DEF ManualArrives, outside, maps
<1>2. CASE End(m, "done")
  <2>1. go'[m].pc = "done" /\ \A h \in Goroutines : h # m => go'[h] = go[h]
    BY <1>0, <1>2 DEF End, Frame
  <2>2. ~Runs(m)'
    BY <2>1 DEF Runs, Resting, Ended
  <2>. QED BY <1>0, <1>1, <2>1, <2>2, MoveSync
<1>3. ASSUME NEW ip \in IPs, go' = [go EXCEPT ![m].ip = ip, ![m].pc = "manual.select"]
      PROVE  SerialOK'
  <2>1. PICK f : f = go'[m]
    OBVIOUS
  <2>2. /\ f.pc = "manual.select" /\ f.ip = ip
        /\ \A h \in Goroutines : h # m => go'[h] = go[h]
    BY <1>0, <1>3, <2>1 DEF Frames
  <2>3. FrameSync(m, f, ip)
    BY <2>2 DEF FrameSync, RowStep, Counting, Acting, Asking, Blocked, Handing, Leaving,
                Finishing, Holding, Closing
  <2>. QED BY <1>0, <1>1, <2>1, <2>2, <2>3, MoveSync
<1>. QED BY <1>2, <1>3 DEF ManualArrives, Accepted

(* The labels before a scheduled unblock can be left over.                 *)
Manual == {"manual.select", "manual.insert", "manual.lookup", "manual.close",
           "manual.delete", "manual.lookup2", "manual.close2"}

(* What is common to the steps up to the close of its channel.             *)
LEMMA ManualAlone ==
  ASSUME StateOK, SerialOK, NEW m \in Unblocks, go[m].pc \in Manual
  PROVE  /\ m \in Goroutines /\ m \notin Unblockers /\ m \notin Events
         /\ go \in [Goroutines -> Frames] /\ Runs(m)
         /\ go[m].ip \in IPs /\ FrameSync(m, go[m], go[m].ip) /\ FrameOK(go[m])
         /\ \A h \in Goroutines : h # m => ~Runs(h)
         /\ \A u \in Unblockers : ~Left(u)
         /\ Agrees(go[m].ip, blocks[go[m].ip])
         /\ go[m].pc # "unblocker.waiting"
<1>1. m \in Goroutines /\ m \notin Unblockers /\ m \notin Events
  BY KindsDiffer DEF Goroutines, Requests
<1>2. Runs(m) /\ go[m].pc \notin Leaving \cup Behind /\ go[m].pc # "unblocker.waiting"
  BY DEF Runs, Resting, Ended, Manual, Leaving, Behind, Handing, Blocked
<1>. QED BY <1>1, <1>2, RunsAlone DEF StateOK, GoOK

(* ManualUnblock reads the row: an address that is not blocked stays so.   *)
LEMMA ManualSelectsSync ==
  ASSUME Setting, StateOK, SerialOK, NEW m \in Unblocks, ManualSelects(m) PROVE SerialOK'
<1>0. go[m].pc = "manual.select" /\ go[m].pc \in Manual
  BY DEF ManualSelects, At, Manual
<1>1. PICK ip \in IPs : go[m].ip = ip
  BY <1>0, ManualAlone
<1>2. PICK f : f = go'[m]
  OBVIOUS
<1>3. UNCHANGED <<dbVars, rules, now, crashed, unblockCancel>> /\ closed' = closed
  BY DEF ManualSelects, outside, maps
<1>4. /\ \A h \in Goroutines : h # m => go'[h] = go[h]
      /\ \/ f.pc = "done"
         \/ f.pc = "manual.insert" /\ f.ip = ip /\ ip \notin known
         \/ /\ f.pc = "manual.lookup" /\ f.ip = ip /\ ip \in known
            /\ f.rec = blocks[ip] /\ blocks[ip].blockedAt # 0
  <2>1. CASE ip \in known /\ ManualStarts(m, blocks[ip])
    BY <1>0, <1>1, <1>2, <2>1, ManualAlone DEF ManualStarts, End, Frame, Frames
  <2>2. CASE ip \notin known /\ Goto(m, "manual.insert")
    BY <1>0, <1>1, <1>2, <2>2, ManualAlone DEF Goto, Frames
  <2>. QED BY <1>1, <2>1, <2>2 DEF ManualSelects, Finds, QueryMayFail, Setting
<1>5. f.pc = "done" => ~Runs(m)'
  BY <1>2 DEF Runs, Resting, Ended
<1>6. blocks[ip].blockedAt # 0 => blocks[ip].blockedAt > 0
  <2>1. blocks[ip].blockedAt \in Nat
    BY DEF StateOK, TableOK, RowOK, Records
  <2>. QED BY <2>1
<1>7. f.pc # "done" => FrameSync(m, f, ip)
  BY <1>0, <1>4, <1>6, ManualAlone DEF FrameSync, RowStep, Counting, Acting, Asking, Blocked,
     Handing, Leaving, Finishing, Holding, Closing
<1>. QED BY <1>0, <1>1, <1>2, <1>3, <1>4, <1>5, <1>7, ManualAlone, MoveSync

(* It makes the row, which is not blocked.                                 *)
LEMMA ManualInsertsSync ==
  ASSUME Setting, StateOK, SerialOK, NEW m \in Unblocks, ManualInserts(m) PROVE SerialOK'
<1>0. go[m].pc = "manual.insert" /\ go[m].pc \in Manual \cap Asking
  BY DEF ManualInserts, At, Manual, Asking
<1>1. PICK ip \in IPs : go[m].ip = ip
  BY <1>0, ManualAlone
<1>2. ip \notin known
  BY <1>0, <1>1, ManualAlone DEF FrameSync
<1>3. /\ Insert(ip) /\ End(m, "done")
      /\ UNCHANGED <<rules, now, crashed, unblockCancel, closed>>
  BY <1>1, <1>2 DEF ManualInserts, ManualStarts, NewRecord, InsertFails, QueryMayFail, Setting, maps
<1>4. go'[m].pc = "done" /\ \A h \in Goroutines : h # m => go'[h] = go[h]
  BY <1>0, <1>3, ManualAlone DEF End, Frame
<1>5. ~Runs(m)'
  BY <1>4 DEF Runs, Resting, Ended
<1>. QED BY <1>0, <1>1, <1>3, <1>4, <1>5, ManualAlone, InsertSync

(* The entry of the timer is looked up: its channel is open.               *)
LEMMA ManualLooksUpTimerSync ==
  ASSUME Setting, StateOK, SerialOK, ChannelsOK, NEW m \in Unblocks, ManualLooksUpTimer(m)
  PROVE  SerialOK'
<1>0. go[m].pc = "manual.lookup" /\ go[m].pc \in Manual
  BY DEF ManualLooksUpTimer, At, Manual
<1>1. PICK ip \in IPs : go[m].ip = ip
  BY <1>0, ManualAlone
<1>2. go[m].rec = blocks[ip] /\ blocks[ip].blockedAt > 0 /\ ip \in known
  BY <1>0, <1>1, ManualAlone DEF FrameSync, RowStep, Holding, Asking
<1>3. cancel[ip] \notin closed
  BY <1>0, ManualAlone DEF ChannelsOK, ClosedChannelsLeaveMaps, DeletesTimer, Runs, Resting, Ended
<1>4. PICK f : f = go'[m]
  OBVIOUS
<1>5. /\ f.ip = ip /\ f.rec = go[m].rec
      /\ \/ f.pc = "manual.close" /\ f.chan = cancel[ip]
         \/ f.pc = "manual.lookup2"
      /\ \A h \in Goroutines : h # m => go'[h] = go[h]
  <2>1. \/ go' = [go EXCEPT ![m].chan = cancel[ip], ![m].pc = "manual.close"]
        \/ go' = [go EXCEPT ![m].pc = "manual.lookup2"]
    BY <1>1 DEF ManualLooksUpTimer, LooksUp
  <2>. QED BY <1>0, <1>1, <1>4, <2>1, ManualAlone DEF Frames
<1>6. FrameSync(m, f, ip)
  BY <1>0, <1>2, <1>3, <1>5, ManualAlone DEF FrameSync, RowStep, Counting, Acting, Asking,
     Blocked, Handing, Leaving, Finishing, Holding, Closing
<1>7. UNCHANGED <<dbVars, rules, now, crashed, unblockCancel>> /\ closed' = closed
  BY DEF ManualLooksUpTimer, outside, maps
<1>. QED BY <1>0, <1>1, <1>4, <1>5, <1>6, <1>7, ManualAlone, MoveSync

(* It is closed and its entry deleted.                                     *)
LEMMA ManualClosesTimerSync ==
  ASSUME Setting, StateOK, SerialOK, NEW m \in Unblocks,
         ManualClosesTimer(m) \/ ManualDeletesTimer(m)
  PROVE  SerialOK'
<1>0. go[m].pc \in {"manual.close", "manual.delete"} /\ go[m].pc \in Manual
  BY DEF ManualClosesTimer, ManualDeletesTimer, At, Manual
<1>1. PICK ip \in IPs : go[m].ip = ip
  BY <1>0, ManualAlone
<1>2. /\ go[m].rec = blocks[ip] /\ blocks[ip].blockedAt > 0 /\ ip \in known
      /\ go[m].pc = "manual.close" => go[m].chan \notin closed /\ go[m].chan \in Timers
  BY <1>0, <1>1, ManualAlone
     DEF FrameSync, RowStep, Asking, Holding, Closing, FrameOK, TimerClosing
<1>3. \E l \in {"manual.delete", "manual.lookup2"} : Goto(m, l)
  BY <1>0, <1>2 DEF ManualClosesTimer, ManualDeletesTimer, Closes, At
<1>4. closed' = closed \/ (closed' = closed \cup {go[m].chan} /\ go[m].chan \in Timers)
  BY <1>0, <1>2 DEF ManualClosesTimer, ManualDeletesTimer, Closes, At
<1>5. UNCHANGED <<dbVars, rules, now, crashed, unblockCancel>>
  BY <1>0, <1>2 DEF ManualClosesTimer, ManualDeletesTimer, Closes, At, outside
<1>6. PICK f : f = go'[m]
  OBVIOUS
<1>7. /\ f.ip = ip /\ f.rec = go[m].rec /\ f.pc \in {"manual.delete", "manual.lookup2"}
      /\ \A h \in Goroutines : h # m => go'[h] = go[h]
  BY <1>0, <1>1, <1>3, <1>6, ManualAlone DEF Goto, Frames
<1>8. FrameSync(m, f, ip)
  BY <1>0, <1>2, <1>7, ManualAlone DEF FrameSync, RowStep, Counting, Acting, Asking, Blocked,
     Handing, Leaving, Finishing, Holding, Closing
<1>9. f.pc \notin {"timer.armed", "unblocker.waiting"} \cup Closing
  BY <1>7 DEF Closing
<1>10. \A u \in Unblockers : u \in closed' <=> u \in closed
  BY <1>4, KindsDiffer
<1>. QED BY <1>0, <1>1, <1>5, <1>6, <1>7, <1>8, <1>9, <1>10, ManualAlone, MoveSync

(* The entry of the scheduled unblock is looked up: it has one if one      *)
(* waits, and its channel is open.                                         *)
LEMMA ManualLooksUpUnblockSync ==
  ASSUME Setting, StateOK, SerialOK, ChannelsOK, NEW m \in Unblocks, ManualLooksUpUnblock(m)
  PROVE  SerialOK'
<1>0. go[m].pc = "manual.lookup2" /\ go[m].pc \in Manual
  BY DEF ManualLooksUpUnblock, At, Manual
<1>1. PICK ip \in IPs : go[m].ip = ip
  BY <1>0, ManualAlone
<1>2. go[m].rec = blocks[ip] /\ blocks[ip].blockedAt > 0 /\ ip \in known
  BY <1>0, <1>1, ManualAlone DEF FrameSync, RowStep, Holding, Asking
<1>3. unblockCancel[ip] \notin closed
  BY <1>0, ManualAlone
     DEF ChannelsOK, ClosedChannelsLeaveMaps, DeletesUnblock, At, Runs, Resting, Ended
<1>4. unblockCancel[ip] = None => NoOpen(ip)
  BY <1>0, <1>1, ManualAlone, ManagerAssumption DEF Agrees, Waits, NoOpen, Goroutines
<1>5. PICK f : f = go'[m]
  OBVIOUS
<1>6. /\ f.ip = ip /\ f.rec = go[m].rec
      /\ \/ f.pc = "manual.close2" /\ f.chan = unblockCancel[ip]
         \/ f.pc = "manual.unblock" /\ NoOpen(ip)
      /\ \A h \in Goroutines : h # m => go'[h] = go[h]
  <2>1. \/ go' = [go EXCEPT ![m].chan = unblockCancel[ip], ![m].pc = "manual.close2"]
        \/ go' = [go EXCEPT ![m].pc = "manual.unblock"] /\ NoOpen(ip)
    BY <1>1, <1>4 DEF ManualLooksUpUnblock, LooksUp
  <2>. QED BY <1>0, <1>1, <1>5, <2>1, ManualAlone DEF Frames
<1>7. FrameSync(m, f, ip)
  BY <1>0, <1>2, <1>3, <1>6, ManualAlone DEF FrameSync, RowStep, Counting, Acting, Asking,
     Blocked, Handing, Leaving, Finishing, Holding, Closing
<1>8. UNCHANGED <<dbVars, rules, now, crashed, unblockCancel>> /\ closed' = closed
  BY DEF ManualLooksUpUnblock, outside, maps
<1>. QED BY <1>0, <1>1, <1>5, <1>6, <1>7, <1>8, ManualAlone, MoveSync

(* Its channel is closed: from here on the goroutine is left over.         *)
LEMMA ManualClosesUnblockSync ==
  ASSUME Setting, StateOK, SerialOK, ChannelsOK, NEW m \in Unblocks, ManualClosesUnblock(m)
  PROVE  SerialOK'
<1>0. go[m].pc = "manual.close2" /\ go[m].pc \in Manual
  BY DEF ManualClosesUnblock, At, Manual
<1>1. PICK ip \in IPs : go[m].ip = ip
  BY <1>0, ManualAlone
<1>2. /\ go[m].rec = blocks[ip] /\ blocks[ip].blockedAt > 0 /\ ip \in known
      /\ go[m].chan = unblockCancel[ip] /\ go[m].chan \notin closed /\ go[m].chan \in Unblockers
  BY <1>0, <1>1, ManualAlone DEF FrameSync, RowStep, Asking, Holding, Closing, FrameOK
<1>3. PICK u \in Unblockers : u = go[m].chan
  BY <1>2
<1>4. /\ closed' = closed \cup {u} /\ Goto(m, "manual.delete2")
      /\ known' = known /\ blocks' = blocks /\ rules' = rules /\ now' = now
      /\ crashed' = crashed /\ unblockCancel' = unblockCancel
  BY <1>2, <1>3 DEF ManualClosesUnblock, Closes, outside, dbVars
<1>5. PICK f : f = go'[m]
  OBVIOUS
<1>6. /\ f.ip = ip /\ f.rec = go[m].rec /\ f.pc = "manual.delete2"
      /\ \A h \in Goroutines : h # m => go'[h] = go[h]
  BY <1>0, <1>1, <1>4, <1>5, ManualAlone DEF Goto, Frames
<1>7. Agrees(ip, blocks[ip]) /\ \A v \in Unblockers : ~Left(v)
  BY <1>0, <1>1, ManualAlone
<1>8. \A v \in Unblockers : Open(v)' => Open(v) /\ v # u /\ go'[v] = go[v]
  BY <1>0, <1>4, <1>6, ManualAlone DEF Open, At, Goroutines
<1>9. NoOpen(ip)'
  BY <1>2, <1>3, <1>7, <1>8 DEF NoOpen, Agrees, Waits
<1>10. ASSUME NEW v \in Unblockers, Left(v)'
       PROVE  v = u /\ Open(u) /\ go'[u] = go[u] /\ go[u].ip = ip /\ go[u].rec = blocks[ip]
  <2>1. v = u /\ Open(u) /\ go'[u] = go[u] /\ u \in Goroutines
    BY <1>0, <1>2, <1>3, <1>4, <1>6, <1>7, <1>10, ManualAlone DEF Left, Open, At, Goroutines
  <2>2. go[u].ip \in IPs
    BY <2>1, Running DEF Open, At, StateOK, Ended
  <2>3. go[u].ip = ip
    BY <1>0, <1>1, <1>3, <2>2, ManualAlone DEF ChannelsOK, Bound, BoundTo, Closing, Channels
  <2>4. go[u].rec = blocks[ip]
    BY <1>7, <2>1, <2>3 DEF Agrees, Waits
  <2>. QED BY <2>1, <2>3, <2>4
<1>11. LeftOK'
  <2>. SUFFICES ASSUME NEW v \in Unblockers, Left(v)'
                PROVE  /\ NoOpen(go[v].ip)'
                       /\ blocks'[go'[v].ip] = go'[v].rec
                       /\ go'[m].ip = go'[v].ip /\ go'[m].pc \in Leaving /\ m \in Goroutines
    BY DEF LeftOK
  <2>1. go'[v].ip = ip /\ go'[v].rec = blocks[ip]
    BY <1>10
  <2>2. NoOpen(go[v].ip)'
    BY <1>9, <2>1 DEF NoOpen
  <2>. QED BY <1>0, <1>4, <1>5, <1>6, <2>1, <2>2, ManualAlone DEF Leaving
<1>12. FrameSync(m, go[m], ip)'
  <2>1. FrameSync(m, f, ip)'
    BY <1>0, <1>2, <1>4, <1>6, <1>9, ManualAlone DEF FrameSync, RowStep, Counting, Acting,
       Asking, Blocked, Handing, Leaving, Finishing, Holding, Closing
  <2>. QED BY <1>5, <2>1
<1>13. Agrees(ip, blocks[ip])'
  BY <1>4, <1>7, <1>9 DEF Agrees, NoOpen
<1>14. f.pc \in Leaving /\ RowsOK'
  BY <1>0, <1>4, <1>5, <1>6, ManualAlone DEF Leaving, SerialOK, RowsOK
<1>15. \A h \in Goroutines : h # m => ~Runs(h)'
  BY <1>0, <1>6, ManualAlone DEF Runs
<1>. QED BY <1>0, <1>1, <1>4, <1>5, <1>6, <1>8, <1>11, <1>12, <1>13, <1>14, <1>15, ManualAlone,
            StepSync

(* What is common to its steps after that.                                 *)
LEMMA LeavesAlone ==
  ASSUME StateOK, SerialOK, NEW m \in Unblocks, go[m].pc \in Leaving
  PROVE  /\ m \in Goroutines /\ m \notin Unblockers /\ m \notin Events
         /\ go \in [Goroutines -> Frames] /\ Runs(m)
         /\ go[m].ip \in IPs /\ FrameSync(m, go[m], go[m].ip) /\ FrameOK(go[m])
         /\ \A h \in Goroutines : h # m => ~Runs(h)
         /\ go[m].pc \notin Behind => Agrees(go[m].ip, blocks[go[m].ip])
         /\ go[m].ip \in known /\ NoOpen(go[m].ip) /\ blocks[go[m].ip].blockedAt > 0
<1>1. m \in Goroutines /\ m \notin Unblockers /\ m \notin Events
  BY KindsDiffer DEF Goroutines, Requests
<1>2. Runs(m) /\ go[m].pc \notin Asking
  BY DEF Runs, Resting, Ended, Leaving, Asking
<1>3. FrameSync(m, go[m], go[m].ip)
  BY <1>1, <1>2, RunsAlone
<1>4. blocks[go[m].ip].blockedAt > 0
  BY <1>3 DEF FrameSync, RowStep, Leaving, Holding
<1>. QED BY <1>1, <1>2, <1>3, <1>4, RunsAlone DEF StateOK, GoOK, FrameSync

(* A step of it that changes no row leaves the one left over as it is.     *)
LEMMA LeavingSync ==
  ASSUME StateOK, SerialOK, NEW m \in Unblocks, go[m].pc \in Leaving,
         \A h \in Goroutines : h # m => go'[h] = go[h],
         go'[m].pc \in Leaving, go'[m].ip = go[m].ip,
         FrameSync(m, go[m], go[m].ip)',
         go'[m].pc \in Behind \/ Agrees(go[m].ip, blocks[go[m].ip])',
         UNCHANGED <<dbVars, now, crashed, closed>>,
         \A i \in IPs : i # go[m].ip =>
           (i \in rules' <=> i \in rules) /\ unblockCancel'[i] = unblockCancel[i]
  PROVE  SerialOK'
<1>0. PICK ip \in IPs : go[m].ip = ip
  BY LeavesAlone
<1>1. known' = known /\ blocks' = blocks /\ now' = now /\ crashed' = crashed /\ closed' = closed
  BY DEF dbVars
<1>2. \A u \in Unblockers : go'[u] = go[u]
  BY LeavesAlone DEF Goroutines
<1>3. \A u \in Unblockers : (Open(u)' <=> Open(u)) /\ (Left(u)' <=> Left(u))
  BY <1>1, <1>2 DEF Open, Left, At
<1>4. LeftOK'
  <2>. SUFFICES ASSUME NEW u \in Unblockers, Left(u)'
                PROVE  /\ NoOpen(go[u].ip)'
                       /\ \/ blocks'[go'[u].ip] = Unblocked(go'[u].rec)
                          \/ /\ blocks'[go'[u].ip] = go'[u].rec
                             /\ \E k \in Goroutines : go'[k].ip = go'[u].ip /\ go'[k].pc \in Leaving
    BY DEF LeftOK
  <2>1. NoOpen(go[u].ip)'
    BY <1>2, <1>3 DEF SerialOK, LeftOK, NoOpen
  <2>2. \A k \in Goroutines : go[k].pc \in Leaving => go'[k].ip = go[k].ip /\ go'[k].pc \in Leaving
    OBVIOUS
  <2>3. ASSUME NEW k \in Goroutines, go[k].ip = go[u].ip, go[k].pc \in Leaving
        PROVE  \E j \in Goroutines : go'[j].ip = go'[u].ip /\ go'[j].pc \in Leaving
    BY <1>2, <2>2, <2>3
  <2>. QED BY <1>1, <1>2, <1>3, <2>1, <2>3 DEF SerialOK, LeftOK
<1>5. RowsOK'
  BY <1>1 DEF SerialOK, RowsOK, Leaving
<1>6. \A h \in Goroutines : h # m => ~Runs(h) /\ ~Runs(h)'
  BY LeavesAlone DEF Runs
<1>. QED BY <1>0, <1>1, <1>2, <1>3, <1>4, <1>5, <1>6, LeavesAlone, StepSync

(* The entry is deleted.                                                   *)
LEMMA ManualDeletesUnblockSync ==
  ASSUME Setting, StateOK, SerialOK, NEW m \in Unblocks, ManualDeletesUnblock(m)
  PROVE  SerialOK'
<1>0. go[m].pc = "manual.delete2" /\ go[m].pc \in Leaving
  BY DEF ManualDeletesUnblock, At, Leaving
<1>1. PICK ip \in IPs : go[m].ip = ip
  BY <1>0, LeavesAlone
<1>2. /\ known' = known /\ blocks' = blocks /\ rules' = rules /\ now' = now
      /\ crashed' = crashed /\ closed' = closed
      /\ \A i \in IPs : i # ip => unblockCancel'[i] = unblockCancel[i]
  BY <1>1 DEF ManualDeletesUnblock, outside, dbVars, StateOK, MapsOK
<1>3. PICK f : f = go'[m]
  OBVIOUS
<1>4. /\ f.ip = ip /\ f.rec = go[m].rec /\ f.pc = "manual.unblock"
      /\ \A h \in Goroutines : h # m => go'[h] = go[h]
  BY <1>0, <1>1, <1>3, LeavesAlone DEF ManualDeletesUnblock, Goto, Frames
<1>5. \A v \in Unblockers : Open(v)' => Open(v) /\ go'[v] = go[v]
  BY <1>0, <1>2, <1>4, LeavesAlone DEF Open, At, Goroutines
<1>6. NoOpen(ip)'
  BY <1>0, <1>1, <1>5, LeavesAlone DEF NoOpen
<1>7. Agrees(ip, blocks[ip])'
  <2>1. Agrees(ip, blocks[ip])
    BY <1>0, <1>1, LeavesAlone DEF Behind, Handing, Blocked
  <2>. QED BY <1>2, <1>6, <2>1 DEF Agrees, NoOpen
<1>8. FrameSync(m, go[m], ip)'
  <2>1. go[m].rec = blocks[ip]
    BY <1>0, <1>1, LeavesAlone DEF FrameSync, RowStep, Holding
  <2>2. FrameSync(m, f, ip)'
    BY <1>0, <1>1, <1>2, <1>4, <1>6, <2>1, LeavesAlone DEF FrameSync, RowStep, Counting, Acting,
       Asking, Blocked, Handing, Leaving, Finishing, Holding, Closing
  <2>. QED BY <1>3, <2>2
<1>9. f.pc \in Leaving
  BY <1>4 DEF Leaving
<1>. QED BY <1>0, <1>1, <1>2, <1>3, <1>4, <1>7, <1>8, <1>9, LeavingSync DEF dbVars

(* The rule is deleted: it was there.                                      *)
LEMMA ManualUnblocksSync ==
  ASSUME Setting, StateOK, SerialOK, NEW m \in Unblocks, ManualUnblocks(m) PROVE SerialOK'
<1>0. go[m].pc = "manual.unblock" /\ go[m].pc \in Leaving
  BY DEF ManualUnblocks, At, Leaving
<1>1. PICK ip \in IPs : go[m].ip = ip
  BY <1>0, LeavesAlone
<1>2. Agrees(ip, blocks[ip]) /\ ip \in rules /\ go[m].rec = blocks[ip]
  <2>1. Agrees(ip, blocks[ip])
    BY <1>0, <1>1, LeavesAlone DEF Behind, Handing, Blocked
  <2>2. go[m].rec = blocks[ip]
    BY <1>0, <1>1, LeavesAlone DEF FrameSync, RowStep, Holding
  <2>. QED BY <1>0, <1>1, <2>1, <2>2, LeavesAlone DEF Agrees
<1>3. PICK r : r = Unblocked(blocks[ip])
  OBVIOUS
<1>4. /\ rules' = rules \ {ip}
      /\ go' = [go EXCEPT ![m].rec = r, ![m].pc = "manual.save"]
      /\ known' = known /\ blocks' = blocks /\ now' = now
      /\ crashed' = crashed /\ unblockCancel' = unblockCancel /\ closed' = closed
  BY <1>0, <1>1, <1>2, <1>3, LeavesAlone
     DEF ManualUnblocks, RuleDeleted, DeleteRefused, CallMayFail, Setting, dbVars, maps
<1>5. PICK f : f = go'[m]
  OBVIOUS
<1>6. /\ f.ip = ip /\ f.rec = r /\ f.pc = "manual.save"
      /\ \A h \in Goroutines : h # m => go'[h] = go[h]
  BY <1>0, <1>1, <1>4, <1>5, LeavesAlone DEF Frames
<1>7. \A v \in Unblockers : Open(v)' => Open(v) /\ go'[v] = go[v]
  BY <1>0, <1>4, <1>6, LeavesAlone DEF Open, At, Goroutines
<1>8. NoOpen(ip)'
  BY <1>0, <1>1, <1>7, LeavesAlone DEF NoOpen
<1>9. Agrees(ip, r)'
  <2>1. r.blockedAt = 0
    BY <1>3 DEF Unblocked, StateOK, TableOK, RowOK, Records
  <2>2. ip \notin rules'
    BY <1>4
  <2>. QED BY <1>8, <2>1, <2>2 DEF Agrees, NoOpen
<1>10. FrameSync(m, go[m], ip)'
  <2>1. FrameSync(m, f, ip)'
    BY <1>0, <1>1, <1>3, <1>4, <1>6, <1>8, <1>9, LeavesAlone DEF FrameSync, RowStep, Counting,
       Acting, Asking, Blocked, Handing, Leaving, Finishing, Holding, Closing
  <2>. QED BY <1>5, <2>1
<1>11. f.pc \in Leaving /\ f.pc \in Behind
  BY <1>6 DEF Leaving, Behind
<1>. QED BY <1>0, <1>1, <1>4, <1>5, <1>6, <1>10, <1>11, LeavingSync DEF dbVars

(* The record is written: that of a goroutine left over is old now, and    *)
(* what it would make of it is what the row says.                          *)
LEMMA ManualSavesSync ==
  ASSUME Setting, StateOK, SerialOK, NEW m \in Unblocks, ManualSaves(m) PROVE SerialOK'
<1>0. go[m].pc = "manual.save" /\ go[m].pc \in Leaving
  BY DEF ManualSaves, At, Leaving
<1>1. PICK ip \in IPs : go[m].ip = ip
  BY <1>0, LeavesAlone
<1>2. PICK r : r = go[m].rec
  OBVIOUS
<1>3. r = Unblocked(blocks[ip]) /\ Agrees(ip, r)
  BY <1>0, <1>1, <1>2, LeavesAlone DEF FrameSync, RowStep
<1>4. /\ known' = known
      /\ \A i \in IPs : blocks'[i] = IF i = ip THEN r ELSE blocks[i]
      /\ rules' = rules /\ now' = now /\ crashed' = crashed
      /\ unblockCancel' = unblockCancel /\ closed' = closed
  BY <1>0, <1>1, <1>2, LeavesAlone
     DEF ManualSaves, Update, UpdateFails, QueryMayFail, Setting, StateOK, TableOK, TableTypeOK, maps
<1>5. go'[m].pc = "done" /\ \A h \in Goroutines : h # m => go'[h] = go[h]
  BY <1>0, LeavesAlone DEF ManualSaves, UpdateFails, QueryMayFail, Setting, End, Frame
<1>6. ~Runs(m)' /\ \A h \in Goroutines : h # m => ~Runs(h) /\ ~Runs(h)'
  BY <1>0, <1>5, LeavesAlone DEF Runs, Resting, Ended
<1>7. \A u \in Unblockers : go'[u] = go[u]
  BY <1>0, <1>5, LeavesAlone DEF Goroutines
<1>8. \A u \in Unblockers : (Open(u)' <=> Open(u)) /\ (Left(u)' <=> Left(u))
  BY <1>4, <1>7 DEF Open, Left, At
<1>9. Agrees(ip, blocks[ip])'
  <2>1. Agrees(ip, r)'
    BY <1>3, <1>4, <1>7, <1>8 DEF Agrees, Waits
  <2>2. blocks'[ip] = r
    BY <1>4
  <2>3. Agrees(ip, r)' => Agrees(ip, blocks[ip])'
    BY <2>2
  <2>. QED BY <2>1, <2>3
<1>10. LeftOK'
  <2>. SUFFICES ASSUME NEW u \in Unblockers, Left(u)'
                PROVE  NoOpen(go[u].ip)' /\ blocks'[go'[u].ip] = Unblocked(go'[u].rec)
    BY DEF LeftOK
  <2>1. NoOpen(go[u].ip)'
    BY <1>7, <1>8 DEF SerialOK, LeftOK, NoOpen
  <2>2. go[u].ip \in IPs
    BY <1>8, Running DEF Left, At, StateOK, Ended, Goroutines
  <2>3. CASE go[u].ip = ip
    <3>1. blocks[ip] # Unblocked(go[u].rec)
      <4>1. Unblocked(go[u].rec).blockedAt = 0
        BY DEF Unblocked, StateOK, GoOK, FrameOK, RowOK, Records, Goroutines
      <4>2. blocks[ip].blockedAt > 0
        BY <1>0, <1>1, LeavesAlone
      <4>. QED BY <4>1, <4>2
    <3>2. blocks[ip] = go[u].rec
      BY <1>8, <2>3, <3>1 DEF SerialOK, LeftOK
    <3>. QED BY <1>3, <1>4, <1>7, <2>1, <2>3, <3>2
  <2>4. CASE go[u].ip # ip
    <3>1. \A k \in Goroutines : go[k].pc \in Leaving => k = m
      BY <1>6 DEF Runs, Resting, Ended, Leaving
    <3>2. blocks[go[u].ip] = Unblocked(go[u].rec)
      BY <1>1, <1>8, <2>4, <3>1 DEF SerialOK, LeftOK
    <3>. QED BY <1>4, <1>7, <2>1, <2>2, <2>4, <3>2
  <2>. QED BY <2>3, <2>4
<1>11. RowsOK'
  <2>1. ip \in known
    BY <1>0, <1>1, LeavesAlone
  <2>. QED BY <1>4, <1>5, <2>1 DEF SerialOK, RowsOK
<1>. QED BY <1>0, <1>1, <1>4, <1>5, <1>6, <1>7, <1>8, <1>9, <1>10, <1>11, LeavesAlone, StepSync

(* All of them.                                                            *)
LEMMA ManualSync ==
  ASSUME Setting, StateOK, SerialOK, ChannelsOK, NEW m \in Unblocks, ManualSteps(m)
  PROVE  SerialOK'
BY ManualSelectsSync, ManualInsertsSync, ManualLooksUpTimerSync, ManualClosesTimerSync,
   ManualLooksUpUnblockSync, ManualClosesUnblockSync, ManualDeletesUnblockSync,
   ManualUnblocksSync, ManualSavesSync DEF ManualSteps

-----------------------------------------------------------------------------
(* All steps *)

(* Between two goroutines the clock may tick: no block is over yet.        *)
LEMMA TickSync ==
  ASSUME Setting, StateOK, SerialOK, Tick PROVE SerialOK'
<1>1. /\ go' = go /\ unblockCancel' = unblockCancel /\ closed' = closed /\ crashed' = crashed
      /\ known' = known /\ blocks' = blocks /\ rules' = rules
      /\ now' = now + 1 /\ now \in Nat
  BY DEF Tick, memory, maps, dbVars, StateOK, OutsideOK
<1>2. \A g \in Goroutines : ~Runs(g)
  BY DEF Tick, Setting, Idle, At, Runs, Resting
<1>3. \A u \in Unblockers : ~Left(u)
  BY DEF Tick, Setting, Idle, At, Left, Ended, Goroutines
<1>4. \A u \in Unblockers : Open(u) => now' <= go[u].rec.unblockAfter
  <2>. SUFFICES ASSUME NEW u \in Unblockers, Open(u) PROVE now' <= go[u].rec.unblockAfter
    OBVIOUS
  <2>1. now < go[u].rec.unblockAfter
    BY DEF Tick, Setting, Deadlines, Open
  <2>2. go[u].rec.unblockAfter \in Nat
    BY DEF StateOK, GoOK, FrameOK, RowOK, Records, Goroutines
  <2>. QED BY <1>1, <2>1, <2>2
<1>5. InSync'
  <2>. SUFFICES ASSUME NEW ip \in IPs PROVE Agrees(ip, blocks[ip])'
    BY DEF InSync
  <2>1. Agrees(ip, blocks[ip])
    BY <1>2 DEF SerialOK, InSync, Runs, Resting, Ended, Behind, Handing, Blocked
  <2>2. \A u \in Unblockers : Open(u)' <=> Open(u)
    BY <1>1 DEF Open, At
  <2>. QED BY <1>1, <1>4, <2>1, <2>2 DEF Agrees, Waits
<1>6. \A g \in Goroutines : ~Runs(g)'
  BY <1>1, <1>2 DEF Runs
<1>7. \A u \in Unblockers : ~Left(u)'
  BY <1>1, <1>3 DEF Left, At
<1>8. RowsOK'
  BY <1>1 DEF SerialOK, RowsOK
<1>. QED BY <1>5, <1>6, <1>7, <1>8 DEF SerialOK, OneAtATime, FramesSync, LeftOK

(* The process does not stop: only one goroutine runs.                     *)
LEMMA GoesOn ==
  ASSUME Setting, SerialOK PROVE ~Restart /\ ~MapRace
<1>1. ~Restart
  BY DEF Restart, Setting
<1>2. ASSUME NEW g \in Goroutines, NEW h \in Goroutines \ {g},
             \/ WritesCancel(g) /\ (WritesCancel(h) \/ ReadsCancel(h))
             \/ WritesUnblock(g) /\ (WritesUnblock(h) \/ ReadsUnblock(h))
      PROVE  FALSE
  BY <1>2 DEF SerialOK, OneAtATime, Runs, Resting, Ended, At,
     WritesCancel, ReadsCancel, WritesUnblock, ReadsUnblock
<1>. QED BY <1>1, <1>2 DEF MapRace

(* Nothing moves.                                                          *)
LEMMA StutterSync ==
  ASSUME SerialOK, UNCHANGED vars PROVE SerialOK'
<1>1. /\ go' = go /\ unblockCancel' = unblockCancel /\ closed' = closed /\ crashed' = crashed
      /\ known' = known /\ blocks' = blocks /\ rules' = rules /\ now' = now
  BY DEF vars, memory, maps, outside, dbVars
<1>2. /\ \A g \in Goroutines : Runs(g)' <=> Runs(g)
      /\ \A u \in Unblockers : (Open(u)' <=> Open(u)) /\ (Left(u)' <=> Left(u))
  BY <1>1 DEF Runs, Open, Left, At
<1>3. \A ip : NoOpen(ip)' <=> NoOpen(ip)
  BY <1>1, <1>2 DEF NoOpen
<1>4. \A ip, r : Agrees(ip, r) => Agrees(ip, r)'
  BY <1>1, <1>2 DEF Agrees, Waits
<1>5. OneAtATime'
  BY <1>1, <1>2 DEF SerialOK, OneAtATime
<1>6. FramesSync'
  BY <1>1, <1>2, <1>3, <1>4 DEF SerialOK, FramesSync, FrameSync, RowStep, Blocks
<1>7. InSync'
  BY <1>1, <1>4 DEF SerialOK, InSync
<1>8. LeftOK' /\ RowsOK'
  BY <1>1, <1>2, <1>3 DEF SerialOK, LeftOK, RowsOK
<1>. QED BY <1>5, <1>6, <1>7, <1>8 DEF SerialOK

(* Nothing has been started.                                               *)
LEMMA InitSync == Init => SerialOK
<1>. SUFFICES ASSUME Init PROVE SerialOK
  OBVIOUS
<1>1. /\ \A g \in Goroutines : go[g].pc = "new"
      /\ \A ip \in IPs : blocks[ip] = NewRecord
      /\ rules = {} /\ now = 1 /\ ~crashed
  BY DEF Init, TableInit, FirewallInit, Frame
<1>2. \A g \in Goroutines : ~Runs(g)
  BY <1>1 DEF Runs, Resting
<1>3. \A u \in Unblockers : ~Open(u) /\ ~Left(u)
  BY <1>1 DEF Open, Left, At, Goroutines
<1>4. InSync
  BY <1>1, <1>3 DEF InSync, Agrees, NewRecord
<1>5. RowsOK
  BY <1>1 DEF RowsOK
<1>. QED BY <1>2, <1>3, <1>4, <1>5 DEF SerialOK, OneAtATime, FramesSync, LeftOK

(* Every step keeps the invariant.                                         *)
LEMMA NextSync == Setting /\ StateOK /\ ChannelsOK /\ SerialOK /\ [Next]_vars => SerialOK'
<1>. SUFFICES ASSUME Setting, StateOK, ChannelsOK, SerialOK, [Next]_vars PROVE SerialOK'
  OBVIOUS
<1>1. CASE UNCHANGED vars
  BY <1>1, StutterSync
<1>2. CASE Tick
  BY <1>2, TickSync
<1>3. CASE Restart \/ MapRace
  BY <1>3, GoesOn
<1>4. ASSUME NEW e \in Events, EventArrives(e) \/ EventSteps(e) PROVE SerialOK'
  BY <1>4, EventArrivesSync, EventSelectsSync, EventInsertsSync, EventNotifiesSync,
     EventArmsSync, EventSavesSync DEF EventSteps
<1>5. ASSUME NEW t \in Timers, TimerSteps(t) PROVE SerialOK'
  BY <1>5, TimerFiresSync, TimerRunsSync DEF TimerSteps
<1>6. ASSUME NEW u \in Unblockers, UnblockerSteps(u) PROVE SerialOK'
  BY <1>6, UnblockerWakesSync, UnblockerUnblocksSync, UnblockerSavesSync,
     UnblockerDeletesSync DEF UnblockerSteps
<1>. QED BY <1>1, <1>2, <1>3, <1>4, <1>5, <1>6, PressArrivesSync, ManualArrivesSync,
            ManualSync, ActionSync DEF Next, Callers

(* The invariant.                                                          *)
LEMMA SerialInvariant ==
  ASSUME Setting PROVE Spec => []SerialOK
<1>1. StateOK /\ ChannelsOK /\ SerialOK /\ [Next]_vars => SerialOK'
  BY NextSync
<1>. QED BY <1>1, InitSync, StateInvariant, ChannelsInvariant, PTL DEF Spec

-----------------------------------------------------------------------------
(* What the invariant gives *)

(* Between requests rule, row and waiting goroutine say the same.          *)
LEMMA QuietAgrees ==
  ASSUME SerialOK, Quiet, NEW ip \in IPs PROVE Agrees(ip, blocks[ip])
<1>1. \A g \in Goroutines : go[g].pc \notin Behind
  BY DEF Quiet, Idle, At, Ended, Behind, Handing, Blocked
<1>. QED BY <1>1 DEF SerialOK, InSync

(* Requests and timers that do not overlap, in the setting above: between  *)
(* them the firewall has a rule exactly for the addresses the table shows  *)
(* as blocked (scenario.go, 140-248).                                      *)
THEOREM RulesMatchRecords == Setting /\ Spec => []RuleMatchesRecord
<1>. SUFFICES ASSUME Setting PROVE Spec => []RuleMatchesRecord
  OBVIOUS
<1>1. SerialOK => RuleMatchesRecord
  BY QuietAgrees DEF RuleMatchesRecord, Agrees
<1>. QED BY <1>1, SerialInvariant, PTL

(* There too a rule goes away only when the time in the record has come,   *)
(* or by hand: no goroutine that has outlived its block ends a later one.  *)
THEOREM RulesStayUntilTime == Setting /\ Spec => NotUnblockedEarly
<1>. DEFINE InTime ==
       \A ip \in rules \ rules' :
         \/ now >= blocks[ip].unblockAfter
         \/ \E m \in Unblocks : At(m, "manual.unblock") /\ go[m].ip = ip
<1>. SUFFICES ASSUME Setting PROVE Spec => [][InTime]_vars
  BY DEF NotUnblockedEarly
<1>1. ASSUME StateOK, SerialOK, [Next]_vars, UNCHANGED rules \/ rules \subseteq rules' PROVE InTime
  BY <1>1
<1>2. ASSUME StateOK, SerialOK, NEW u \in Unblockers, UnblockerUnblocks(u) PROVE InTime
  <2>0. go[u].pc = "unblocker.unblock" /\ go[u].pc \in Finishing /\ go[u].pc \notin Behind
    BY <1>2 DEF UnblockerUnblocks, At, Finishing, Behind, Handing, Blocked
  <2>1. PICK ip \in IPs : go[u].ip = ip
    BY <1>2, <2>0, UnblocksAlone
  <2>2. Agrees(ip, blocks[ip]) /\ RowStep(go[u], blocks[ip]) /\ RowOK(go[u].rec) /\ RowOK(blocks[ip])
    BY <1>2, <2>0, <2>1, UnblocksAlone DEF FrameSync, FrameOK
  <2>3. ip \in rules => blocks[ip].blockedAt > 0
    BY <2>2 DEF Agrees
  <2>4. blocks[ip] # Unblocked(go[u].rec) => blocks[ip].unblockAfter <= now
    BY <2>0, <2>2 DEF RowStep
  <2>5. Unblocked(go[u].rec).blockedAt = 0
    BY <2>2 DEF Unblocked, RowOK, Records
  <2>6. rules \ rules' \subseteq {ip}
    BY <1>2, <2>1 DEF UnblockerUnblocks, RuleDeleted, DeleteRefused, CallMayFail, Setting
  <2>7. ip \in rules => now >= blocks[ip].unblockAfter
    <3>1. now \in Nat /\ blocks[ip].unblockAfter \in Nat
      BY <1>2, <2>2 DEF StateOK, OutsideOK, RowOK, Records
    <3>. QED BY <2>3, <2>4, <2>5, <3>1
  <2>. QED BY <2>6, <2>7
<1>3. ASSUME StateOK, NEW m \in Unblocks, ManualUnblocks(m) PROVE InTime
  BY <1>3 DEF ManualUnblocks, RuleDeleted, DeleteRefused, CallMayFail, Setting
<1>4. ASSUME StateOK, SerialOK, [Next]_vars
      PROVE  \/ UNCHANGED rules \/ rules \subseteq rules'
             \/ \E u \in Unblockers : UnblockerUnblocks(u)
             \/ \E m \in Unblocks : ManualUnblocks(m)
  <2>1. CASE Tick \/ Restart \/ MapRace \/ UNCHANGED vars
    BY <2>1 DEF Tick, Restart, MapRace, vars, outside
  <2>2. ASSUME NEW e \in Events, EventArrives(e) \/ EventSteps(e) PROVE UNCHANGED rules
    BY <2>2 DEF EventArrives, EventSteps, EventSelects, EventInserts, EventNotifies, EventArms,
       EventSaves, outside
  <2>3. ASSUME NEW p \in Presses, PressArrives(p) PROVE UNCHANGED rules
    BY <2>3 DEF PressArrives
  <2>4. ASSUME NEW t \in Timers, TimerSteps(t) PROVE UNCHANGED rules
    BY <2>4 DEF TimerSteps, TimerFires, TimerSelects, TimerUpdates, TimerDeletes, outside
  <2>5. ASSUME NEW g \in Callers, ActionSteps(g) PROVE rules \subseteq rules'
    BY <2>5 DEF ActionSteps, ActionSelects, ActionInserts, ActionExecutes, ActionLooksUp,
       ActionCloses, ActionDeletes, ActionSpawns, ActionSaves, outside,
       RuleInserted, InsertRefused, CallMayFail, Setting
  <2>6. ASSUME NEW m \in Unblocks, ManualArrives(m) \/ ManualSteps(m)
        PROVE  UNCHANGED rules \/ ManualUnblocks(m)
    BY <2>6 DEF ManualArrives, ManualSteps, ManualSelects, ManualInserts, ManualLooksUpTimer,
       ManualClosesTimer, ManualDeletesTimer, ManualLooksUpUnblock, ManualClosesUnblock,
       ManualDeletesUnblock, ManualSaves, outside
  <2>7. ASSUME NEW u \in Unblockers, UnblockerSteps(u)
        PROVE  UNCHANGED rules \/ UnblockerUnblocks(u)
    BY <2>7 DEF UnblockerSteps, UnblockerWakes, UnblockerSaves, UnblockerDeletes, outside
  <2>. QED BY <1>4, <2>1, <2>2, <2>3, <2>4, <2>5, <2>6, <2>7 DEF Next, Callers
<1>5. StateOK /\ SerialOK /\ [Next]_vars => [InTime]_vars
  BY <1>1, <1>2, <1>3, <1>4
<1>. QED BY <1>5, StateInvariant, SerialInvariant, PTL DEF Spec

(* And there whoever looks at the page between requests finds a button for *)
(* every address that has a rule, but in the second its block ends, and    *)
(* for no other one (web/handler.go, 66-79).                               *)
THEOREM PageShowsFirewall == Setting /\ Spec => []PageMatchesFirewall
<1>. SUFFICES ASSUME Setting PROVE Spec => []PageMatchesFirewall
  OBVIOUS
<1>1. ASSUME StateOK, SerialOK, EveryRuleHasRemover PROVE PageMatchesFirewall
  <2>. SUFFICES ASSUME Quiet
                PROVE  /\ Offers(Page(known)) \subseteq rules
                       /\ \A ip \in rules :
                            ip \in Offers(Page(known)) \/ now = blocks[ip].unblockAfter
    BY DEF PageMatchesFirewall, RowSets, QueryMayFail, Setting
  <2>1. known \subseteq IPs /\ rules \subseteq IPs
    BY <1>1 DEF StateOK, TableOK, TableTypeOK, OutsideOK, FirewallTypeOK
  <2>2. \A ip \in known : ip \in Offers(Page(known)) <=>
          blocks[ip].blockedAt > 0 /\ blocks[ip].unblockAfter > now
    BY DEF Offers, Page, Status
  <2>3. Offers(Page(known)) \subseteq known
    BY DEF Offers, Page
  <2>4. \A ip \in IPs : ip \in rules <=> blocks[ip].blockedAt > 0
    BY <1>1, QuietAgrees DEF Agrees
  <2>5. ASSUME NEW ip \in rules PROVE now <= blocks[ip].unblockAfter /\ ip \in known
    <3>1. PICK g \in Goroutines : Removes(g, ip)
      BY <1>1 DEF EveryRuleHasRemover, CallMayFail, Setting, SerialOK, RowsOK
    <3>2. go[g].ip = ip /\ At(g, "unblocker.waiting") /\ g \notin closed
      BY <3>1 DEF Removes, Quiet, Idle, At, Ended
    <3>3. g \in Unblockers /\ ip \in known
      BY <1>1, <3>2 DEF SerialOK, RowsOK, At
    <3>4. Waits(g, ip, blocks[ip])
      BY <1>1, <2>1, <2>5, <3>2, <3>3, QuietAgrees DEF Agrees, Open
    <3>. QED BY <3>3, <3>4 DEF Waits
  <2>6. \A ip \in IPs : now \in Nat /\ blocks[ip].unblockAfter \in Nat
    BY <1>1 DEF StateOK, OutsideOK, TableOK, RowOK, Records
  <2>. QED BY <2>1, <2>2, <2>3, <2>4, <2>5, <2>6
<1>2. StateOK /\ SerialOK /\ EveryRuleHasRemover => PageMatchesFirewall
  BY <1>1
<1>. QED BY <1>2, StateInvariant, SerialInvariant, RulesHaveRemovers, PTL

-----------------------------------------------------------------------------
(* Notification timers *)

(* A timer of ip that will still act, and the record r it fits: cancel has *)
(* it, its event has reached the threshold, and it fires inside the window *)
(* of the last one, so that no event before that can reach it again.       *)
Live(t) == At(t, "timer.armed") /\ t \notin closed

NoLive(ip) == \A t \in Timers : Live(t) => go[t].ip # ip

Fits(ip, r) ==
  \A t \in Timers : Live(t) /\ go[t].ip = ip =>
    /\ cancel[ip] = t
    /\ r.blockedAt = 0
    /\ r.triggerCount >= Threshold
    /\ go[t].due <= r.lastEventTime + TriggerWindow * Minute

TimerFrame(g, f, ip) ==
  /\ f.pc \in {"event.notify", "event.arm"} =>
       f.rec.triggerCount = Threshold /\ f.rec.lastEventTime = now /\ NoLive(ip)
  /\ f.pc = "event.save" => Fits(ip, f.rec)
  /\ g \in Timers \/ f.pc \in {"action.delete", "action.spawn"} => NoLive(ip)
  /\ f.pc = "action.close" => f.chan = cancel[ip]
  /\ f.pc = "action.save" /\ f.arec.blockedAt > 0 => NoLive(ip)

ArmedOK ==
  \A t \in Timers : At(t, "timer.armed") =>
    now <= go[t].due /\ go[t].due <= now + Timeout * Minute

FramesFit == \A g \in Goroutines : Runs(g) => TimerFrame(g, go[g], go[g].ip)

RowsFit ==
  \A ip \in IPs :
    (\A e \in Events : go[e].ip = ip => go[e].pc # "event.save") => Fits(ip, blocks[ip])

(* The inductive invariant.                                                *)
TimersOK == ArmedOK /\ FramesFit /\ RowsFit

(* A timer that has been armed is due before the window has passed.        *)
LEMMA TimeoutInWindow ==
  ASSUME Timeout <= TriggerWindow
  PROVE  /\ Timeout * Minute \in Nat /\ TriggerWindow * Minute \in Nat
         /\ Timeout * Minute <= TriggerWindow * Minute
<1>1. Timeout \in Nat /\ TriggerWindow \in Nat /\ Minute \in Nat
  BY ConfigAssumption
<1>2. \A a, d, m \in Nat : a * m \in Nat /\ d * m \in Nat /\ (a + d) * m = a * m + d * m
  OBVIOUS
<1>3. PICK d \in Nat : TriggerWindow = Timeout + d
  <2>1. TriggerWindow - Timeout \in Nat /\ TriggerWindow = Timeout + (TriggerWindow - Timeout)
    BY <1>1
  <2>. QED BY <2>1
<1>4. /\ TriggerWindow * Minute = Timeout * Minute + d * Minute
      /\ Timeout * Minute \in Nat /\ d * Minute \in Nat
  BY <1>1, <1>2, <1>3
<1>. QED BY <1>4

(* What the invariant says of the goroutine that runs, or that starts.     *)
LEMMA RunsFit ==
  ASSUME StateOK, SerialOK, TimersOK, NEW g \in Goroutines, Runs(g)
  PROVE  /\ TimerFrame(g, go[g], go[g].ip)
         /\ \/ g \in Events /\ go[g].pc = "event.save"
            \/ Fits(go[g].ip, blocks[go[g].ip])
<1>1. \A e \in Events : go[e].pc = "event.save" => e = g
  BY DEF SerialOK, OneAtATime, Runs, Resting, Ended, Goroutines, Requests
<1>. QED BY <1>1, RunsAlone DEF TimersOK, FramesFit, RowsFit

LEMMA StartsFit ==
  ASSUME TimersOK, \A g \in Goroutines : ~Runs(g)
  PROVE  \A ip \in IPs : Fits(ip, blocks[ip])
<1>1. \A e \in Events : go[e].pc # "event.save"
  BY DEF Runs, Resting, Ended, Goroutines, Requests
<1>. QED BY <1>1 DEF TimersOK, RowsFit

(* A step of g, for ip: it arms no timer but one of ip.                    *)
LEMMA StepTimers ==
  ASSUME StateOK, SerialOK, TimersOK, NEW g \in Goroutines, NEW ip,
         \A h \in Goroutines : h # g => ~Runs(h) /\ ~Runs(h)',
         Runs(g) => go[g].ip = ip,
         Runs(g)' => go'[g].ip = ip /\ TimerFrame(g, go[g], ip)',
         \/ g \in Events /\ go'[g].pc = "event.save"
         \/ ip \in IPs => Fits(ip, blocks[ip])',
         now' = now, closed \subseteq closed',
         \A i \in IPs : i # ip => blocks'[i] = blocks[i] /\ cancel'[i] = cancel[i],
         \A t \in Timers : go'[t].pc = "timer.armed" =>
           \/ go'[t] = go[t]
           \/ go'[t].ip = ip /\ go'[t].due = now + Timeout * Minute
  PROVE  TimersOK'
<1>1. ArmedOK'
  <2>1. now \in Nat /\ Timeout * Minute \in Nat
    <3>1. Timeout \in Nat /\ Minute \in Nat
      BY ConfigAssumption
    <3>. QED BY <3>1 DEF StateOK, OutsideOK
  <2>2. PICK k \in Nat : k = Timeout * Minute
    BY <2>1
  <2>3. ASSUME NEW t \in Timers, go'[t].pc = "timer.armed"
        PROVE  now <= go'[t].due /\ go'[t].due <= now + k
    <3>1. CASE go'[t] = go[t]
      BY <2>2, <2>3, <3>1 DEF TimersOK, ArmedOK, At
    <3>2. CASE go'[t].due = now + k
      BY <2>1, <2>2, <3>2
    <3>. QED BY <2>2, <2>3, <3>1, <3>2
  <2>. QED BY <2>2, <2>3 DEF ArmedOK, At
<1>2. FramesFit'
  BY DEF FramesFit
<1>3. RowsFit'
  <2>. SUFFICES ASSUME NEW i \in IPs, (\A e \in Events : go[e].ip = i => go[e].pc # "event.save")'
                PROVE  Fits(i, blocks[i])'
    BY DEF RowsFit
  <2>1. CASE i = ip
    <3>1. go'[g].pc = "event.save" => Runs(g)'
      BY DEF Runs, Resting, Ended
    <3>. QED BY <2>1, <3>1
  <2>2. CASE i # ip
    <3>1. \A e \in Events : go[e].ip = i => go[e].pc # "event.save"
      BY <2>2 DEF Runs, Resting, Ended, Goroutines, Requests
    <3>2. Fits(i, blocks[i])
      BY <3>1 DEF TimersOK, RowsFit
    <3>3. \A t \in Timers : Live(t)' /\ go'[t].ip = i => Live(t) /\ go'[t] = go[t]
      BY <2>2 DEF Live, At
    <3>. QED BY <2>2, <3>2, <3>3 DEF Fits
  <2>. QED BY <2>1, <2>2
<1>. QED BY <1>1, <1>2, <1>3 DEF TimersOK

(* Where no timer is armed and cancel stays, what was true of the timers   *)
(* of an address is true.                                                  *)
LEMMA FewerTimers ==
  ASSUME NEW ip, cancel'[ip] = cancel[ip], closed \subseteq closed',
         \A t \in Timers : go'[t].pc = "timer.armed" => go'[t] = go[t]
  PROVE  /\ NoLive(ip) => NoLive(ip)'
         /\ \A r : Fits(ip, r) => Fits(ip, r)'
<1>1. \A t \in Timers : Live(t)' => Live(t) /\ go'[t] = go[t]
  BY DEF Live, At
<1>. QED BY <1>1 DEF NoLive, Fits

(* Without a timer of its own an address fits any record.                  *)
LEMMA NoLiveFits ==
  ASSUME NEW ip, NoLive(ip), NEW r PROVE Fits(ip, r)
BY DEF NoLive, Fits

(* A blocked one has none.                                                 *)
LEMMA BlockedHasNone ==
  ASSUME NEW ip, NEW r, Fits(ip, r), r.blockedAt > 0 PROVE NoLive(ip)
BY DEF NoLive, Fits

(* A step of g alone that changes neither row nor cancel: what g needs at  *)
(* its next label can be shown of the state before.                        *)
LEMMA MoveTimers ==
  ASSUME StateOK, SerialOK, TimersOK, NEW g \in Goroutines, NEW ip \in IPs,
         \A h \in Goroutines : h # g => ~Runs(h) /\ go'[h] = go[h],
         go'[g].pc # "timer.armed",
         Runs(g) => go[g].ip = ip,
         Runs(g)' => go'[g].ip = ip /\ TimerFrame(g, go'[g], ip),
         (g \in Events /\ go'[g].pc = "event.save") \/ Fits(ip, blocks[ip]),
         now' = now, cancel' = cancel, closed \subseteq closed',
         \A i \in IPs : blocks'[i] = blocks[i]
  PROVE  TimersOK'
<1>1. \A t \in Timers : go'[t].pc = "timer.armed" => go'[t] = go[t]
  BY DEF Goroutines
<1>2. /\ NoLive(ip) => NoLive(ip)'
      /\ \A r : Fits(ip, r) => Fits(ip, r)'
  BY <1>1, FewerTimers
<1>3. PICK row : row = blocks[ip]
  OBVIOUS
<1>4. Fits(ip, row)' => Fits(ip, blocks[ip])'
  <2>1. blocks'[ip] = row
    BY <1>3
  <2>. QED BY <2>1
<1>5. ASSUME Runs(g)' PROVE TimerFrame(g, go[g], ip)'
  <2>1. PICK f : f = go'[g]
    OBVIOUS
  <2>2. TimerFrame(g, f, ip)
    BY <1>5, <2>1
  <2>3. TimerFrame(g, f, ip)'
    BY <1>2, <2>2 DEF TimerFrame
  <2>. QED BY <2>1, <2>3
<1>6. \A h \in Goroutines : h # g => ~Runs(h)'
  BY DEF Runs
<1>7. Fits(ip, blocks[ip]) => Fits(ip, blocks[ip])'
  BY <1>2, <1>3, <1>4
<1>. QED BY <1>1, <1>5, <1>6, <1>7, StepTimers

(* The labels at which a goroutine promises something of the timers.       *)
Tracked == {"event.notify", "event.arm", "event.save", "timer.armed",
            "action.close", "action.delete", "action.spawn"}

(* The usual step: to a label that promises nothing.                       *)
LEMMA CalmTimers ==
  ASSUME StateOK, SerialOK, TimersOK, NEW g \in Goroutines,
         \A h \in Goroutines : h # g => ~Runs(h) /\ go'[h] = go[h],
         go[g].pc # "event.save", go'[g].pc \notin Tracked,
         go'[g].pc = "action.save" => go'[g].arec.blockedAt = 0,
         Runs(g) /\ Runs(g)' => go'[g].ip = go[g].ip,
         go'[g].ip \in IPs \/ ~Runs(g)',
         g \in Timers => Runs(g),
         now' = now, cancel' = cancel, closed \subseteq closed',
         \A i \in IPs : blocks'[i] = blocks[i]
  PROVE  TimersOK'
<1>1. CASE Runs(g)
  <2>1. PICK ip \in IPs : go[g].ip = ip
    BY <1>1, RunsAlone
  <2>2. TimerFrame(g, go[g], ip) /\ Fits(ip, blocks[ip])
    BY <1>1, <2>1, RunsFit
  <2>3. TimerFrame(g, go'[g], ip)
    BY <2>2 DEF TimerFrame, Tracked
  <2>. QED BY <1>1, <2>1, <2>2, <2>3, MoveTimers DEF Tracked
<1>2. CASE ~Runs(g)
  <2>1. \A ip \in IPs : Fits(ip, blocks[ip])
    BY <1>2, StartsFit
  <2>2. \A ip : TimerFrame(g, go'[g], ip)
    BY <1>2 DEF TimerFrame, Tracked
  <2>3. CASE go'[g].ip \in IPs
    BY <1>2, <2>1, <2>2, <2>3, MoveTimers DEF Tracked
  <2>4. CASE ~Runs(g)'
    <3>1. \A h \in Goroutines : h # g => ~Runs(h)'
      BY DEF Runs
    <3>2. \A t \in Timers : go'[t].pc = "timer.armed" => go'[t] = go[t]
      BY DEF Goroutines, Tracked
    <3>3. PICK ip : ip \notin IPs
      <4>. QED BY ManagerAssumption
    <3>. QED BY <1>2, <2>4, <3>1, <3>2, <3>3, StepTimers
  <2>. QED BY <2>3, <2>4
<1>. QED BY <1>1, <1>2

(* A row is written that fits.                                             *)
LEMMA SaveTimers ==
  ASSUME StateOK, SerialOK, TimersOK, NEW g \in Goroutines, NEW ip \in IPs, NEW r,
         Runs(g), go[g].ip = ip, Update(ip, r), ip \in known, Fits(ip, r),
         \A h \in Goroutines : h # g => ~Runs(h) /\ go'[h] = go[h],
         Runs(g)' => go'[g].ip = ip /\ go'[g].pc \in {"timer.update", "unblocker.delete"},
         go'[g].pc # "timer.armed",
         UNCHANGED <<now, cancel, closed>>
  PROVE  TimersOK'
<1>1. \A i \in IPs : blocks'[i] = IF i = ip THEN r ELSE blocks[i]
  BY DEF Update, StateOK, TableOK, TableTypeOK
<1>2. \A t \in Timers : go'[t].pc = "timer.armed" => go'[t] = go[t]
  BY DEF Goroutines
<1>3. Fits(ip, r)' /\ (NoLive(ip) => NoLive(ip)')
  BY <1>2, FewerTimers
<1>4. Fits(ip, blocks[ip])'
  <2>1. blocks'[ip] = r
    BY <1>1
  <2>2. Fits(ip, r)' => Fits(ip, blocks[ip])'
    BY <2>1
  <2>. QED BY <1>3, <2>2
<1>5. ASSUME Runs(g)' PROVE TimerFrame(g, go[g], ip)'
  <2>1. g \in Timers => NoLive(ip)
    BY RunsFit DEF TimerFrame
  <2>. QED BY <1>3, <1>5, <2>1 DEF TimerFrame
<1>6. \A h \in Goroutines : h # g => ~Runs(h)'
  BY DEF Runs
<1>. QED BY <1>1, <1>2, <1>4, <1>5, <1>6, StepTimers

(* The entry of an address without a timer is deleted.                     *)
LEMMA DeleteTimers ==
  ASSUME StateOK, SerialOK, TimersOK, NEW g \in Goroutines, NEW ip \in IPs,
         Runs(g), go[g].ip = ip, NoLive(ip),
         \A h \in Goroutines : h # g => ~Runs(h) /\ go'[h] = go[h],
         Runs(g)' => go'[g].ip = ip /\ go'[g].pc \in {"action.spawn", "manual.lookup2"},
         go'[g].pc # "timer.armed",
         UNCHANGED <<now, closed, blocks>>,
         \A i \in IPs : i # ip => cancel'[i] = cancel[i]
  PROVE  TimersOK'
<1>1. \A t \in Timers : go'[t].pc = "timer.armed" => go'[t] = go[t]
  BY DEF Goroutines
<1>2. NoLive(ip)'
  BY <1>1 DEF NoLive, Live, At
<1>3. Fits(ip, blocks[ip])'
  BY <1>2 DEF NoLive, Fits
<1>4. ASSUME Runs(g)' PROVE TimerFrame(g, go[g], ip)'
  BY <1>2, <1>4 DEF TimerFrame
<1>5. \A h \in Goroutines : h # g => ~Runs(h)'
  BY DEF Runs
<1>. QED BY <1>1, <1>3, <1>4, <1>5, StepTimers

(* An event counted while a timer waits is one more of its cycle: it does  *)
(* not reach the threshold again.                                          *)
LEMMA CountFits ==
  ASSUME StateOK, TimersOK, Timeout <= TriggerWindow, NEW ip \in IPs, NEW row, RowOK(row),
         Fits(ip, row), NEW c, c = CountEvent(AfterWindow(row, now), now)
  PROVE  c.lastEventTime = now /\ (NoLive(ip) \/ (c.triggerCount # Threshold /\ Fits(ip, c)))
<1>1. PICK w : w = TriggerWindow * Minute
  OBVIOUS
<1>2. PICK k : k = Timeout * Minute
  OBVIOUS
<1>3. k \in Nat /\ w \in Nat /\ k <= w
  BY <1>1, <1>2, TimeoutInWindow
<1>4. now \in Nat /\ Threshold \in Nat
  BY ConfigAssumption DEF Threshold, StateOK, OutsideOK
<1>5. c.lastEventTime = now
  BY DEF CountEvent, AfterWindow, RowOK, Records
<1>6. ASSUME NEW t \in Timers, Live(t), go[t].ip = ip
      PROVE  /\ c.triggerCount # Threshold
             /\ cancel[ip] = t /\ c.blockedAt = 0 /\ c.triggerCount >= Threshold
             /\ go[t].due <= now + w
  <2>1. /\ cancel[ip] = t /\ row.blockedAt = 0 /\ row.triggerCount >= Threshold
        /\ go[t].due <= row.lastEventTime + w
    BY <1>1, <1>6 DEF Fits
  <2>2. now <= go[t].due /\ go[t].due <= now + k /\ go[t].due \in Nat
    BY <1>2, <1>6 DEF TimersOK, ArmedOK, Live, StateOK, GoOK, Frames, Goroutines
  <2>3. row.lastEventTime \in Nat /\ row.triggerCount \in Nat
    BY DEF RowOK, Records
  <2>4. ~(now - row.lastEventTime > w)
    BY <1>3, <1>4, <2>1, <2>2, <2>3
  <2>5. AfterWindow(row, now) = row
    BY <1>1, <2>4 DEF AfterWindow, WindowPassed
  <2>6. c.triggerCount = row.triggerCount + 1 /\ c.blockedAt = row.blockedAt
    BY <2>5 DEF CountEvent, RowOK, Records
  <2>. QED BY <1>3, <1>4, <2>1, <2>2, <2>3, <2>6
<1>7. Fits(ip, c)
  BY <1>1, <1>5, <1>6 DEF Fits
<1>. QED BY <1>5, <1>6, <1>7 DEF NoLive

(* HandleEvent: the message is sent when the threshold is reached, and no  *)
(* timer waits then.                                                       *)
LEMMA EventCountsTimers ==
  ASSUME Setting, StateOK, SerialOK, TimersOK, Timeout <= TriggerWindow,
         NEW e \in Events, Runs(e), go[e].pc # "event.save",
         EventCounts(e, blocks[go[e].ip]),
         now' = now, cancel' = cancel, closed' = closed, \A i \in IPs : blocks'[i] = blocks[i]
  PROVE  TimersOK'
<1>0. e \in Goroutines /\ e \notin Timers /\ go \in [Goroutines -> Frames]
  BY KindsDiffer DEF Goroutines, Requests, StateOK, GoOK
<1>1. PICK ip \in IPs : go[e].ip = ip
  BY <1>0, RunsAlone
<1>2. PICK row : row = blocks[ip]
  OBVIOUS
<1>3. RowOK(row) /\ Fits(ip, row) /\ \A h \in Goroutines : h # e => ~Runs(h)
  BY <1>0, <1>1, <1>2, RunsAlone, RunsFit DEF StateOK, TableOK
<1>4. PICK f : f = go'[e]
  OBVIOUS
<1>5. CASE End(e, "done")
  <2>1. f.pc = "done" /\ \A h \in Goroutines : h # e => go'[h] = go[h]
    BY <1>0, <1>4, <1>5 DEF End, Frame
  <2>2. ~Runs(e)'
    BY <1>4, <2>1 DEF Runs, Resting, Ended
  <2>. QED BY <1>0, <1>1, <1>2, <1>3, <1>4, <2>1, <2>2, MoveTimers
<1>6. CASE go' = [go EXCEPT ![e].rec = CountEvent(AfterWindow(row, now), now),
                            ![e].pc = AfterCount(CountEvent(AfterWindow(row, now), now))]
  <2>1. PICK c : c = CountEvent(AfterWindow(row, now), now)
    OBVIOUS
  <2>2. c.lastEventTime = now /\ (NoLive(ip) \/ (c.triggerCount # Threshold /\ Fits(ip, c)))
    BY <1>3, <2>1, CountFits
  <2>3. PICK l : l = AfterCount(c)
    OBVIOUS
  <2>4. \/ l = "event.save" /\ Fits(ip, c)
        \/ l = "event.notify" /\ NoLive(ip) /\ c.triggerCount = Threshold
    BY <2>2, <2>3, NoLiveFits DEF AfterCount, Setting
  <2>5. go' = [go EXCEPT ![e].rec = c, ![e].pc = l]
    BY <1>6, <2>1, <2>3
  <2>6. /\ f.rec = c /\ f.pc = l /\ f.ip = ip
        /\ \A h \in Goroutines : h # e => go'[h] = go[h]
    BY <1>0, <1>1, <1>4, <2>5 DEF Frames
  <2>7. TimerFrame(e, f, ip)
    BY <1>0, <2>2, <2>4, <2>6 DEF TimerFrame
  <2>. QED BY <1>0, <1>1, <1>2, <1>3, <1>4, <2>4, <2>6, <2>7, MoveTimers
<1>. QED BY <1>1, <1>2, <1>5, <1>6 DEF EventCounts

(* The events.                                                             *)
LEMMA EventTimers ==
  ASSUME Setting, StateOK, SerialOK, TimersOK, Timeout <= TriggerWindow,
         NEW e \in Events, EventArrives(e) \/ EventSteps(e)
  PROVE  TimersOK'
<1>0. e \in Goroutines /\ e \notin Timers /\ go \in [Goroutines -> Frames]
  BY KindsDiffer DEF Goroutines, Requests, StateOK, GoOK
<1>. DEFINE alone == \A h \in Goroutines : h # e => ~Runs(h)
<1>1. CASE EventArrives(e)
  <2>1. go[e].pc = "new" /\ ~Runs(e) /\ Alone(e) /\ Serial
    BY <1>1 DEF EventArrives, Arrives, Fresh, At, Runs, Resting, Setting
  <2>2. now' = now /\ cancel' = cancel /\ closed' = closed /\ blocks' = blocks
    BY <1>1 DEF EventArrives, outside, maps, dbVars
  <2>3. /\ \A h \in Goroutines : h # e => go'[h] = go[h]
        /\ \/ go'[e].pc = "done"
           \/ go'[e].pc = "event.select" /\ go'[e].ip \in IPs
    <3>1. CASE End(e, "done")
      BY <1>0, <3>1 DEF End, Frame
    <3>2. ASSUME NEW ip \in IPs, go' = [go EXCEPT ![e].ip = ip, ![e].pc = "event.select"]
          PROVE  /\ \A h \in Goroutines : h # e => go'[h] = go[h]
                 /\ go'[e].pc = "event.select" /\ go'[e].ip \in IPs
      BY <1>0, <3>2 DEF Frames
    <3>. QED BY <1>1, <3>1, <3>2 DEF EventArrives, Accepted
  <2>4. go'[e].ip \in IPs \/ ~Runs(e)'
    BY <2>3 DEF Runs, Resting, Ended
  <2>5. alone
    BY <1>0, <2>1, StartsAlone
  <2>. QED BY <1>0, <2>1, <2>2, <2>3, <2>4, <2>5, CalmTimers DEF Tracked
<1>2. CASE EventSteps(e)
  <2>0. Runs(e) /\ alone
    <3>1. Runs(e)
      BY <1>2 DEF EventSteps, EventSelects, EventInserts, EventNotifies, EventArms, EventSaves,
         At, Runs, Resting, Ended
    <3>. QED BY <1>0, <3>1, RunsAlone
  <2>1. PICK ip \in IPs : go[e].ip = ip
    BY <1>0, <2>0, RunsAlone
  <2>2. CASE EventSelects(e)
    <3>1. /\ go[e].pc = "event.select" /\ now' = now
          /\ cancel' = cancel /\ closed' = closed /\ blocks' = blocks
      BY <2>2 DEF EventSelects, At, maps, dbVars
    <3>2. CASE EventCounts(e, blocks[ip])
      BY <2>0, <2>1, <3>1, <3>2, EventCountsTimers
    <3>3. CASE Goto(e, "event.insert")
      <4>1. /\ \A h \in Goroutines : h # e => go'[h] = go[h]
            /\ go'[e].pc = "event.insert" /\ go'[e].ip = ip
        BY <1>0, <2>1, <3>3 DEF Goto, Frames
      <4>. QED BY <1>0, <2>0, <2>1, <3>1, <4>1, CalmTimers DEF Tracked
    <3>. QED BY <2>1, <2>2, <3>2, <3>3 DEF EventSelects, QueryMayFail, Setting
  <2>3. CASE EventInserts(e)
    <3>1. go[e].pc = "event.insert" /\ ip \notin known
      BY <1>0, <2>0, <2>1, <2>3, RunsAlone DEF EventInserts, At, FrameSync
    <3>2. Insert(ip) /\ EventCounts(e, NewRecord)
      BY <2>1, <2>3, <3>1 DEF EventInserts, InsertFails, QueryMayFail, Setting
    <3>3. blocks[ip] = NewRecord /\ \A i \in IPs : blocks'[i] = blocks[i]
      BY <3>1, <3>2 DEF Insert, StateOK, TableOK, TableTypeOK, SerialOK, RowsOK
    <3>4. now' = now /\ cancel' = cancel /\ closed' = closed
      BY <2>3 DEF EventInserts, maps
    <3>. QED BY <2>0, <2>1, <3>1, <3>2, <3>3, <3>4, EventCountsTimers
  <2>4. CASE EventNotifies(e)
    <3>1. /\ go[e].pc = "event.notify" /\ now' = now
          /\ cancel' = cancel /\ closed' = closed /\ blocks' = blocks
      BY <2>4 DEF EventNotifies, At, maps, dbVars
    <3>2. PICK f : f = go'[e]
      OBVIOUS
    <3>3. /\ \A h \in Goroutines : h # e => go'[h] = go[h]
          /\ f.pc = "event.arm" /\ f.ip = ip /\ f.rec = go[e].rec
      BY <1>0, <2>1, <2>4, <3>2 DEF EventNotifies, Goto, Frames
    <3>4. TimerFrame(e, go[e], ip) /\ Fits(ip, blocks[ip])
      BY <1>0, <2>0, <2>1, <3>1, RunsFit
    <3>5. TimerFrame(e, f, ip)
      BY <1>0, <3>1, <3>3, <3>4 DEF TimerFrame
    <3>. QED BY <1>0, <2>0, <2>1, <3>1, <3>2, <3>3, <3>4, <3>5, MoveTimers
  <2>5. CASE EventArms(e)
    <3>1. /\ go[e].pc = "event.arm" /\ now' = now /\ closed' = closed /\ blocks' = blocks
      BY <2>5 DEF EventArms, At, outside, dbVars
    <3>2. PICK t \in Timers :
            /\ go[t].pc = "new"
            /\ cancel' = [cancel EXCEPT ![ip] = t]
            /\ go' = [go EXCEPT
                        ![e].pc = "event.save",
                        ![t] = [Frame("timer.armed") EXCEPT
                                  !.ip = ip, !.due = now + Timeout * Minute]]
      BY <2>1, <2>5 DEF EventArms, Fresh, At
    <3>3. t \in Goroutines /\ t # e
      BY <1>0, <3>2 DEF Goroutines
    <3>4. /\ go'[e].pc = "event.save" /\ go'[e].ip = ip /\ go'[e].rec = go[e].rec
          /\ go'[t].pc = "timer.armed" /\ go'[t].ip = ip /\ go'[t].due = now + Timeout * Minute
          /\ \A h \in Goroutines : h \notin {e, t} => go'[h] = go[h]
      BY <1>0, <2>1, <3>2, <3>3 DEF Frames, Frame
    <3>5. /\ go[e].rec.triggerCount = Threshold /\ go[e].rec.lastEventTime = now /\ NoLive(ip)
          /\ go[e].rec.blockedAt = 0
      BY <1>0, <2>0, <2>1, <3>1, RunsAlone, RunsFit
         DEF TimerFrame, FrameSync, RowStep, Counting, Continues
    <3>6. PICK f : f = go'[e]
      OBVIOUS
    <3>7. Fits(ip, f.rec)'
      <4>1. PICK r : r = go[e].rec
        OBVIOUS
      <4>2. PICK k : k = Timeout * Minute
        OBVIOUS
      <4>3. PICK w : w = TriggerWindow * Minute
        OBVIOUS
      <4>4. now + k <= now + w /\ Threshold \in Nat
        <5>1. k \in Nat /\ w \in Nat /\ k <= w
          BY <4>2, <4>3, TimeoutInWindow
        <5>2. now \in Nat /\ Threshold \in Nat
          BY ConfigAssumption DEF Threshold, StateOK, OutsideOK
        <5>. QED BY <5>1, <5>2
      <4>5. cancel'[ip] = t
        BY <3>2 DEF StateOK, MapsOK
      <4>6. \A s \in Timers : Live(s)' /\ go'[s].ip = ip => s = t
        BY <1>0, <3>1, <3>4, <3>5 DEF NoLive, Live, At, Goroutines
      <4>7. Fits(ip, r)'
        BY <3>4, <3>5, <4>1, <4>2, <4>3, <4>4, <4>5, <4>6 DEF Fits
      <4>8. f.rec = r
        BY <3>4, <3>6, <4>1
      <4>. QED BY <4>7, <4>8
    <3>8. TimerFrame(e, go[e], ip)'
      <4>1. TimerFrame(e, f, ip)'
        BY <1>0, <3>4, <3>7, <3>6 DEF TimerFrame
      <4>. QED BY <3>6, <4>1
    <3>9. \A h \in Goroutines : h # e => ~Runs(h)'
      BY <2>0, <3>4 DEF Runs, Resting
    <3>10. \A i \in IPs : i # ip => cancel'[i] = cancel[i]
      BY <3>2 DEF StateOK, MapsOK
    <3>11. \A s \in Timers : s # t => go'[s] = go[s]
      BY <1>0, <3>4 DEF Goroutines
    <3>. QED BY <1>0, <2>0, <2>1, <3>1, <3>4, <3>8, <3>9, <3>10, <3>11, StepTimers
  <2>6. CASE EventSaves(e)
    <3>1. PICK r : r = go[e].rec
      OBVIOUS
    <3>2. go[e].pc = "event.save" /\ ip \in known /\ Fits(ip, r)
      BY <1>0, <2>0, <2>1, <2>6, <3>1, RunsAlone, RunsFit
         DEF EventSaves, At, FrameSync, TimerFrame, Asking
    <3>3. Update(ip, r) /\ UNCHANGED <<now, cancel, closed>>
      BY <2>1, <2>6, <3>1 DEF EventSaves, UpdateFails, QueryMayFail, Setting, maps
    <3>4. go'[e].pc = "done" /\ \A h \in Goroutines : h # e => go'[h] = go[h]
      BY <1>0, <2>6 DEF EventSaves, End, Frame
    <3>5. ~Runs(e)'
      BY <3>4 DEF Runs, Resting, Ended
    <3>. QED BY <1>0, <2>0, <2>1, <3>2, <3>3, <3>4, <3>5, SaveTimers
  <2>. QED BY <1>2, <2>2, <2>3, <2>4, <2>5, <2>6 DEF EventSteps
<1>. QED BY <1>1, <1>2

(* ExecuteAction: a channel it finds is that of the one timer that waits;  *)
(* from its close on none does.                                            *)
LEMMA ActionTimers ==
  ASSUME Setting, StateOK, SerialOK, ChannelsOK, TimersOK, NEW g \in Callers, ActionSteps(g)
  PROVE  TimersOK'
<1>0. go[g].pc \in Acting
  BY DEF ActionSteps, ActionSelects, ActionInserts, ActionExecutes, ActionLooksUp, ActionCloses,
         ActionDeletes, ActionSpawns, ActionSaves, At, Acting, Handing, Blocked
<1>1. PICK ip \in IPs : go[g].ip = ip
  BY <1>0, ActsAlone
<1>2. /\ g \in Goroutines /\ g \notin Events /\ Runs(g) /\ go \in [Goroutines -> Frames]
      /\ \A h \in Goroutines : h # g => ~Runs(h)
      /\ go[g].pc # "event.save"
  BY <1>0, ActsAlone DEF Acting, Handing, Blocked
<1>3. TimerFrame(g, go[g], ip) /\ Fits(ip, blocks[ip])
  BY <1>1, <1>2, RunsFit
<1>4. PICK f : f = go'[g]
  OBVIOUS
<1>5. ASSUME \A h \in Goroutines : h # g => go'[h] = go[h],
             \/ f.pc = "done"
             \/ f.pc \in {"timer.update", "action.insert", "action.execute", "action.lookup"} /\ f.ip = ip
             \/ f.pc = "action.save" /\ f.ip = ip /\ f.arec.blockedAt = 0,
             now' = now, cancel' = cancel, closed' = closed, \A i \in IPs : blocks'[i] = blocks[i]
      PROVE  TimersOK'
  <2>1. f.pc = "done" => ~Runs(g)'
    BY <1>4 DEF Runs, Resting, Ended
  <2>. QED BY <1>1, <1>2, <1>4, <1>5, <2>1, CalmTimers DEF Tracked
<1>6. ASSUME Returns(g)
      PROVE  /\ \A h \in Goroutines : h # g => go'[h] = go[h]
             /\ f.pc = "done" \/ (f.pc = "timer.update" /\ f.ip = ip)
  BY <1>1, <1>2, <1>4, <1>6, ReturnsFrame
<1>7. ASSUME NEW row, ActionStarts(g, row)
      PROVE  /\ \A h \in Goroutines : h # g => go'[h] = go[h]
             /\ \/ f.pc = "done"
                \/ f.pc \in {"timer.update", "action.execute"} /\ f.ip = ip
  <2>1. CASE go' = [go EXCEPT ![g].arec = row, ![g].pc = "action.execute"]
    BY <1>1, <1>2, <1>4, <2>1 DEF Frames
  <2>. QED BY <1>6, <1>7, <2>1 DEF ActionStarts
<1>8. CASE ActionSelects(g)
  <2>1. now' = now /\ cancel' = cancel /\ closed' = closed /\ blocks' = blocks
    BY <1>8 DEF ActionSelects, outside, maps, dbVars, QueryMayFail, Setting
  <2>2. CASE Goto(g, "action.insert")
    <3>1. /\ \A h \in Goroutines : h # g => go'[h] = go[h]
          /\ f.pc = "action.insert" /\ f.ip = ip
      BY <1>1, <1>2, <1>4, <2>2 DEF Goto, Frames
    <3>. QED BY <1>5, <2>1, <3>1
  <2>3. ActionStarts(g, blocks[ip]) \/ Goto(g, "action.insert")
    BY <1>1, <1>8 DEF ActionSelects, QueryMayFail, Setting
  <2>4. CASE ActionStarts(g, blocks[ip])
    BY <1>5, <1>7, <2>1, <2>4
  <2>. QED BY <2>2, <2>3, <2>4
<1>9. CASE ActionInserts(g)
  <2>1. ip \notin known
    BY <1>0, <1>1, <1>9, ActsAlone DEF ActionInserts, At, FrameSync
  <2>2. Insert(ip) /\ ActionStarts(g, NewRecord)
    BY <1>1, <1>9, <2>1 DEF ActionInserts, InsertFails, QueryMayFail, Setting
  <2>3. now' = now /\ cancel' = cancel /\ closed' = closed
    BY <1>9, <2>1, <1>1 DEF ActionInserts, maps, InsertFails, QueryMayFail, Setting
  <2>4. \A i \in IPs : blocks'[i] = blocks[i]
    BY <2>1, <2>2 DEF Insert, StateOK, TableOK, TableTypeOK, SerialOK, RowsOK
  <2>. QED BY <1>5, <1>7, <2>2, <2>3, <2>4
<1>10. CASE ActionExecutes(g)
  <2>1. now' = now /\ cancel' = cancel /\ closed' = closed /\ blocks' = blocks
    BY <1>10 DEF ActionExecutes, maps, dbVars
  <2>2. /\ go[g].arec = blocks[ip] /\ blocks[ip].blockedAt = 0 /\ RowOK(blocks[ip])
    BY <1>0, <1>1, <1>10, ActsAlone DEF ActionExecutes, At, FrameSync, RowStep
  <2>3. CASE Executed(g)
    <3>1. PICK r : r = MarkTaken(blocks[ip])
      OBVIOUS
    <3>2. r.blockedAt = 0
      BY <2>2, <3>1 DEF MarkTaken, RowOK, Records
    <3>3. \/ go' = [go EXCEPT ![g].arec = r, ![g].pc = "action.lookup"]
          \/ go' = [go EXCEPT ![g].arec = r, ![g].pc = "action.save"]
      BY <1>2, <2>2, <2>3, <3>1 DEF Executed
    <3>4. /\ \A h \in Goroutines : h # g => go'[h] = go[h]
          /\ f.pc \in {"action.lookup", "action.save"} /\ f.ip = ip /\ f.arec = r
      BY <1>1, <1>2, <1>4, <3>3 DEF Frames
    <3>. QED BY <1>5, <2>1, <3>2, <3>4
  <2>4. CASE Returns(g)
    BY <1>5, <1>6, <2>1, <2>4
  <2>. QED BY <1>10, <2>3, <2>4 DEF ActionExecutes
<1>11. CASE ActionLooksUp(g)
  <2>1. now' = now /\ cancel' = cancel /\ closed' = closed /\ blocks' = blocks
    BY <1>11 DEF ActionLooksUp, outside, maps, dbVars
  <2>2. PICK r : r = MarkBlocked(go[g].arec, now)
    OBVIOUS
  <2>3. \/ go' = [go EXCEPT ![g].arec = r, ![g].chan = cancel[ip], ![g].pc = "action.close"]
        \/ cancel[ip] = None /\ go' = [go EXCEPT ![g].arec = r, ![g].pc = "action.spawn"]
    BY <1>1, <1>11, <2>2 DEF ActionLooksUp
  <2>4. /\ \A h \in Goroutines : h # g => go'[h] = go[h]
        /\ f.ip = ip
        /\ \/ f.pc = "action.close" /\ f.chan = cancel[ip]
           \/ f.pc = "action.spawn" /\ cancel[ip] = None
    BY <1>1, <1>2, <1>4, <2>3 DEF Frames
  <2>5. cancel[ip] = None => NoLive(ip)
    BY <1>3, ManagerAssumption DEF Fits, NoLive, Goroutines
  <2>6. TimerFrame(g, f, ip)
    BY <1>3, <2>4, <2>5 DEF TimerFrame
  <2>. QED BY <1>1, <1>2, <1>3, <1>4, <2>1, <2>4, <2>6, MoveTimers
<1>12. CASE ActionCloses(g)
  <2>1. go[g].pc = "action.close" /\ go[g].chan = cancel[ip] /\ go[g].chan \notin closed
    BY <1>0, <1>1, <1>3, <1>12, ActsAlone DEF ActionCloses, At, TimerFrame, FrameSync, Closing
  <2>2. /\ closed' = closed \cup {cancel[ip]} /\ Goto(g, "action.delete")
        /\ now' = now /\ cancel' = cancel /\ blocks' = blocks
    BY <1>12, <2>1 DEF ActionCloses, Closes, outside, dbVars
  <2>3. /\ \A h \in Goroutines : h # g => go'[h] = go[h]
        /\ f.pc = "action.delete" /\ f.ip = ip
    BY <1>1, <1>2, <1>4, <2>2 DEF Goto, Frames
  <2>4. \A t \in Timers : Live(t)' => Live(t) /\ t # cancel[ip] /\ go'[t] = go[t]
    BY <1>4, <2>2, <2>3 DEF Live, At, Goroutines
  <2>5. NoLive(ip)'
    BY <1>3, <2>4 DEF NoLive, Fits
  <2>6. Fits(ip, blocks[ip])'
    BY <2>5 DEF NoLive, Fits
  <2>7. TimerFrame(g, go[g], ip)'
    BY <1>4, <2>3, <2>5 DEF TimerFrame
  <2>8. \A t \in Timers : go'[t].pc = "timer.armed" => go'[t] = go[t]
    BY <1>4, <2>3 DEF Goroutines
  <2>9. \A h \in Goroutines : h # g => ~Runs(h)'
    BY <1>2, <2>3 DEF Runs
  <2>. QED BY <1>1, <1>2, <1>4, <2>2, <2>3, <2>6, <2>7, <2>8, <2>9, StepTimers
<1>13. CASE ActionDeletes(g)
  <2>1. go[g].pc = "action.delete" /\ NoLive(ip)
    BY <1>3, <1>13 DEF ActionDeletes, At, TimerFrame
  <2>2. /\ UNCHANGED <<now, closed, blocks>>
        /\ \A i \in IPs : i # ip => cancel'[i] = cancel[i]
    BY <1>1, <1>13 DEF ActionDeletes, outside, dbVars, StateOK, MapsOK
  <2>3. /\ \A h \in Goroutines : h # g => go'[h] = go[h]
        /\ f.pc = "action.spawn" /\ f.ip = ip
    BY <1>1, <1>2, <1>4, <1>13 DEF ActionDeletes, Goto, Frames
  <2>. QED BY <1>1, <1>2, <1>4, <2>1, <2>2, <2>3, DeleteTimers
<1>14. CASE ActionSpawns(g)
  <2>1. /\ go[g].pc = "action.spawn" /\ NoLive(ip)
        /\ now' = now /\ cancel' = cancel /\ closed' = closed /\ blocks' = blocks
    BY <1>3, <1>14 DEF ActionSpawns, At, TimerFrame, outside, dbVars
  <2>2. PICK u \in Unblockers :
          go' = [go EXCEPT ![g].pc = "action.save",
                           ![u] = [Frame("unblocker.waiting") EXCEPT
                                     !.ip = go[g].ip, !.rec = go[g].arec]]
    BY <1>14 DEF ActionSpawns
  <2>3. u \in Goroutines /\ u \notin Timers /\ u # g
    BY <1>0, <2>2, ActsAlone, KindsDiffer DEF Goroutines
  <2>4. /\ go'[g].pc = "action.save" /\ go'[g].ip = ip /\ go'[u].pc = "unblocker.waiting"
        /\ \A h \in Goroutines : h \notin {g, u} => go'[h] = go[h]
    BY <1>1, <1>2, <2>2, <2>3 DEF Frames, Frame
  <2>5. \A t \in Timers : go'[t].pc = "timer.armed" => go'[t] = go[t]
    BY <2>3, <2>4 DEF Goroutines
  <2>6. NoLive(ip)'
    BY <2>1, <2>5, FewerTimers
  <2>7. Fits(ip, blocks[ip])'
    BY <2>6 DEF NoLive, Fits
  <2>8. TimerFrame(g, go[g], ip)'
    BY <2>4, <2>6 DEF TimerFrame
  <2>9. \A h \in Goroutines : h # g => ~Runs(h)'
    BY <1>2, <2>4 DEF Runs, Resting
  <2>. QED BY <1>1, <1>2, <2>1, <2>4, <2>5, <2>7, <2>8, <2>9, StepTimers
<1>15. CASE ActionSaves(g)
  <2>1. PICK r : r = go[g].arec
    OBVIOUS
  <2>2. /\ go[g].pc = "action.save" /\ ip \in known /\ RowOK(blocks[ip]) /\ RowOK(r)
        /\ Blocks(r, blocks[ip]) \/ r = MarkTaken(blocks[ip])
    BY <1>0, <1>1, <1>15, <2>1, ActsAlone
       DEF ActionSaves, At, FrameSync, RowStep, FrameOK, Asking
  <2>3. Fits(ip, r)
    <3>1. CASE r = MarkTaken(blocks[ip])
      <4>1. /\ r.blockedAt = blocks[ip].blockedAt /\ r.triggerCount = blocks[ip].triggerCount
            /\ r.lastEventTime = blocks[ip].lastEventTime
        BY <2>2, <3>1 DEF MarkTaken, RowOK, Records
      <4>. QED BY <1>3, <4>1 DEF Fits
    <3>2. CASE Blocks(r, blocks[ip])
      <4>1. r.blockedAt = now
        <5>1. MarkTaken(blocks[ip]) \in Records
          BY <2>2, TakenOK DEF RowOK
        <5>. QED BY <3>2, <5>1 DEF Blocks, MarkBlocked, Records
      <4>2. now > 0
        BY DEF SerialOK, RowsOK, StateOK, OutsideOK
      <4>3. NoLive(ip)
        BY <1>3, <2>1, <2>2, <4>1, <4>2 DEF TimerFrame
      <4>. QED BY <4>3, NoLiveFits
    <3>. QED BY <2>2, <3>1, <3>2
  <2>4. Update(ip, r) /\ Returns(g) /\ UNCHANGED <<now, cancel, closed>>
    BY <1>1, <1>15, <2>1 DEF ActionSaves, UpdateFails, QueryMayFail, Setting, maps
  <2>5. f.pc = "done" => ~Runs(g)'
    BY <1>4 DEF Runs, Resting, Ended
  <2>. QED BY <1>1, <1>2, <1>4, <1>6, <2>2, <2>3, <2>4, <2>5, SaveTimers
<1>. QED BY <1>8, <1>9, <1>10, <1>11, <1>12, <1>13, <1>14, <1>15 DEF ActionSteps

(* The goroutine of a timer: when it has fired its address has none.       *)
LEMMA TimerTimers ==
  ASSUME Setting, StateOK, SerialOK, TimersOK, NEW t \in Timers, TimerSteps(t)
  PROVE  TimersOK'
<1>0. t \in Goroutines /\ t \notin Events /\ go \in [Goroutines -> Frames]
  BY KindsDiffer DEF Goroutines, StateOK, GoOK
<1>1. PICK f : f = go'[t]
  OBVIOUS
<1>2. CASE TimerFires(t)
  <2>1. go[t].pc = "timer.armed" /\ ~Runs(t) /\ Alone(t) /\ Serial
    BY <1>2 DEF TimerFires, At, Runs, Resting, Setting
  <2>2. PICK ip \in IPs : go[t].ip = ip
    BY <1>0, <2>1, Running DEF StateOK, Ended
  <2>3. Fits(ip, blocks[ip]) /\ \A h \in Goroutines : ~Runs(h)
    BY <1>0, <2>1, StartsAlone, StartsFit
  <2>4. now' = now /\ cancel' = cancel /\ closed' = closed /\ blocks' = blocks
    BY <1>2 DEF TimerFires, outside, maps, dbVars
  <2>5. /\ \A h \in Goroutines : h # t => go'[h] = go[h]
        /\ \/ f.pc = "done"
           \/ f.pc = "timer.select" /\ f.ip = ip /\ t \notin closed
    BY <1>0, <1>1, <1>2, <2>2 DEF TimerFires, End, Goto, Frame, Frames
  <2>6. \A s \in Timers : go'[s].pc = "timer.armed" => go'[s] = go[s] /\ s # t
    BY <1>1, <2>5 DEF Goroutines
  <2>7. t \notin closed => NoLive(ip)'
    <3>. SUFFICES ASSUME t \notin closed, NEW s \in Timers, Live(s)', go'[s].ip = ip PROVE FALSE
      BY DEF NoLive
    <3>1. Live(s) /\ go[s].ip = ip /\ s # t
      BY <2>4, <2>6 DEF Live, At
    <3>2. Live(t)
      BY <2>1 DEF Live, At
    <3>. QED BY <2>2, <2>3, <3>1, <3>2 DEF Fits
  <2>8. Fits(ip, blocks[ip])'
    <3>1. PICK row : row = blocks[ip]
      OBVIOUS
    <3>2. Fits(ip, row)'
      BY <2>3, <2>4, <2>6, <3>1, FewerTimers
    <3>3. blocks'[ip] = row
      BY <2>4, <3>1
    <3>4. Fits(ip, row)' => Fits(ip, blocks[ip])'
      BY <3>3
    <3>. QED BY <3>2, <3>4
  <2>9. Runs(t)' => go'[t].ip = ip /\ TimerFrame(t, go[t], ip)'
    <3>1. Runs(t)' => f.pc = "timer.select" /\ f.ip = ip /\ t \notin closed
      BY <1>1, <2>5 DEF Runs, Resting, Ended
    <3>. QED BY <1>1, <2>7, <3>1 DEF TimerFrame
  <2>10. \A h \in Goroutines : h # t => ~Runs(h)'
    BY <2>3, <2>5 DEF Runs
  <2>. QED BY <1>0, <2>1, <2>3, <2>4, <2>6, <2>8, <2>9, <2>10, StepTimers
<1>3. CASE TimerSelects(t) \/ TimerUpdates(t) \/ TimerDeletes(t)
  <2>1. Runs(t) /\ go[t].pc # "event.save"
    BY <1>3 DEF TimerSelects, TimerUpdates, TimerDeletes, At, Runs, Resting, Ended
  <2>2. PICK ip \in IPs : go[t].ip = ip
    BY <1>0, <2>1, RunsAlone
  <2>3. NoLive(ip) /\ \A h \in Goroutines : h # t => ~Runs(h)
    BY <1>0, <2>1, <2>2, RunsAlone, RunsFit DEF TimerFrame
  <2>4. now' = now /\ closed' = closed /\ blocks' = blocks
    BY <1>3 DEF TimerSelects, TimerUpdates, TimerDeletes, outside, maps, dbVars,
       QueryMayFail, Setting
  <2>5. CASE TimerDeletes(t)
    <3>1. /\ f.pc = "done" /\ \A h \in Goroutines : h # t => go'[h] = go[h]
          /\ \A i \in IPs : i # ip => cancel'[i] = cancel[i]
      BY <1>0, <1>1, <2>2, <2>5 DEF TimerDeletes, End, Frame, StateOK, MapsOK
    <3>2. ~Runs(t)'
      BY <1>1, <3>1 DEF Runs, Resting, Ended
    <3>. QED BY <1>0, <1>1, <2>1, <2>2, <2>3, <2>4, <3>1, <3>2, DeleteTimers
  <2>6. CASE TimerSelects(t) \/ TimerUpdates(t)
    <3>1. /\ cancel' = cancel /\ \A h \in Goroutines : h # t => go'[h] = go[h]
          /\ f.pc \in {"timer.delete", "timer.update", "action.select"} /\ f.ip = ip
      BY <1>0, <1>1, <2>2, <2>6 DEF TimerSelects, TimerUpdates, Goto, Frames, maps,
         QueryMayFail, Setting
    <3>. QED BY <1>0, <1>1, <2>1, <2>2, <2>3, <2>4, <3>1, CalmTimers DEF Tracked
  <2>. QED BY <1>3, <2>5, <2>6
<1>. QED BY <1>2, <1>3 DEF TimerSteps

(* The goroutine of a scheduled unblock: a blocked address has no timer.   *)
LEMMA UnblockerTimers ==
  ASSUME Setting, StateOK, SerialOK, TimersOK, NEW u \in Unblockers, UnblockerSteps(u)
  PROVE  TimersOK'
<1>0. u \in Goroutines /\ u \notin Events \cup Timers /\ go \in [Goroutines -> Frames]
  BY KindsDiffer DEF Goroutines, StateOK, GoOK
<1>1. PICK f : f = go'[u]
  OBVIOUS
<1>2. CASE UnblockerWakes(u)
  <2>1. go[u].pc = "unblocker.waiting" /\ ~Runs(u) /\ Alone(u) /\ Serial
    BY <1>2 DEF UnblockerWakes, At, Runs, Resting, Setting
  <2>2. go[u].ip \in IPs
    BY <1>0, <2>1, Running DEF StateOK, Ended
  <2>3. now' = now /\ cancel' = cancel /\ closed' = closed /\ blocks' = blocks
    BY <1>2 DEF UnblockerWakes, outside, maps, dbVars
  <2>4. /\ \A h \in Goroutines : h # u => go'[h] = go[h]
        /\ f.pc \in {"unblocker.unblock", "unblocker.delete"} /\ f.ip = go[u].ip
    BY <1>0, <1>1, <1>2 DEF UnblockerWakes, Goto, Frames
  <2>5. \A h \in Goroutines : ~Runs(h)
    BY <1>0, <2>1, StartsAlone
  <2>. QED BY <1>0, <1>1, <2>1, <2>2, <2>3, <2>4, <2>5, CalmTimers DEF Tracked
<1>3. CASE UnblockerUnblocks(u) \/ UnblockerDeletes(u)
  <2>1. go[u].pc \in Finishing /\ go[u].pc # "event.save"
    BY <1>3 DEF UnblockerUnblocks, UnblockerDeletes, At, Finishing
  <2>2. now' = now /\ cancel' = cancel /\ closed' = closed /\ blocks' = blocks
    BY <1>3 DEF UnblockerUnblocks, UnblockerDeletes, outside, maps, dbVars
  <2>3. /\ \A h \in Goroutines : h # u => go'[h] = go[h]
        /\ f.pc = "done" \/ (f.pc = "unblocker.save" /\ f.ip = go[u].ip)
    BY <1>0, <1>1, <1>3 DEF UnblockerUnblocks, UnblockerDeletes, End, Frame, Frames
  <2>4. f.pc = "done" => ~Runs(u)'
    BY <1>1 DEF Runs, Resting, Ended
  <2>. QED BY <1>0, <1>1, <2>1, <2>2, <2>3, <2>4, UnblocksAlone, CalmTimers DEF Tracked
<1>4. CASE UnblockerSaves(u)
  <2>0. go[u].pc = "unblocker.save" /\ go[u].pc \in Finishing
    BY <1>4 DEF UnblockerSaves, At, Finishing
  <2>1. PICK ip \in IPs : go[u].ip = ip
    BY <2>0, UnblocksAlone
  <2>2. PICK r : r = go[u].rec
    OBVIOUS
  <2>3. r = blocks[ip] \/ blocks[ip].blockedAt > 0
    BY <2>0, <2>1, <2>2, UnblocksAlone DEF FrameSync, RowStep
  <2>4. Fits(ip, r)
    <3>1. Fits(ip, blocks[ip])
      BY <1>0, <2>0, <2>1, UnblocksAlone, RunsFit
    <3>. QED BY <2>3, <3>1, BlockedHasNone, NoLiveFits
  <2>5. Update(ip, r) /\ UNCHANGED <<now, cancel, closed>>
    BY <1>4, <2>1, <2>2 DEF UnblockerSaves, UpdateFails, QueryMayFail, Setting, maps
  <2>6. /\ \A h \in Goroutines : h # u => go'[h] = go[h]
        /\ f.pc = "unblocker.delete" /\ f.ip = ip
    BY <1>0, <1>1, <1>4, <2>1 DEF UnblockerSaves, Goto, Frames
  <2>. QED BY <1>1, <2>0, <2>1, <2>4, <2>5, <2>6, UnblocksAlone, SaveTimers
<1>. QED BY <1>2, <1>3, <1>4 DEF UnblockerSteps

(* A request starts.                                                       *)
LEMMA ArrivesTimers ==
  ASSUME Setting, StateOK, SerialOK, TimersOK,
         NEW g \in Presses \cup Unblocks, PressArrives(g) \/ ManualArrives(g)
  PROVE  TimersOK'
<1>0. g \in Goroutines /\ g \notin Timers /\ go \in [Goroutines -> Frames]
  BY KindsDiffer DEF Goroutines, Requests, StateOK, GoOK
<1>1. go[g].pc = "new" /\ ~Runs(g) /\ Alone(g) /\ Serial
  BY DEF PressArrives, ManualArrives, Arrives, Fresh, At, Runs, Resting, Setting
<1>2. now' = now /\ cancel' = cancel /\ closed' = closed /\ blocks' = blocks
  BY DEF PressArrives, ManualArrives, outside, maps, dbVars
<1>3. PICK f : f = go'[g]
  OBVIOUS
<1>4. /\ \A h \in Goroutines : h # g => go'[h] = go[h]
      /\ \/ f.pc \in {"done", "unparsed"}
         \/ f.pc \in {"action.select", "manual.select"} /\ f.ip \in IPs
  <2>1. CASE End(g, "done") \/ End(g, "unparsed")
    BY <1>0, <1>3, <2>1 DEF End, Frame
  <2>2. ASSUME NEW ip \in IPs, NEW button,
               \/ go' = [go EXCEPT ![g].ip = ip, ![g].action = button, ![g].pc = "action.select"]
               \/ go' = [go EXCEPT ![g].ip = ip, ![g].pc = "manual.select"]
        PROVE  /\ \A h \in Goroutines : h # g => go'[h] = go[h]
               /\ f.pc \in {"action.select", "manual.select"} /\ f.ip \in IPs
    BY <1>0, <1>3, <2>2 DEF Frames
  <2>3. CASE PressArrives(g)
    BY <2>1, <2>2, <2>3 DEF PressArrives
  <2>4. CASE ManualArrives(g)
    BY <2>1, <2>2, <2>4 DEF ManualArrives, Accepted
  <2>. QED BY <2>3, <2>4
<1>5. f.pc \in {"done", "unparsed"} => ~Runs(g)'
  BY <1>3 DEF Runs, Resting, Ended
<1>6. \A h \in Goroutines : ~Runs(h)
  BY <1>0, <1>1, StartsAlone
<1>. QED BY <1>0, <1>1, <1>2, <1>3, <1>4, <1>5, <1>6, CalmTimers DEF Tracked

(* ManualUnblock: its address is blocked when it deletes and writes.       *)
LEMMA ManualTimers ==
  ASSUME Setting, StateOK, SerialOK, ChannelsOK, TimersOK, NEW m \in Unblocks, ManualSteps(m)
  PROVE  TimersOK'
<1>0. /\ m \in Goroutines /\ m \notin Events \cup Timers /\ go \in [Goroutines -> Frames]
      /\ go[m].pc \in Manual \cup Leaving /\ go[m].pc # "event.save"
  BY KindsDiffer
     DEF Goroutines, Requests, StateOK, GoOK, ManualSteps, ManualSelects, ManualInserts,
         ManualLooksUpTimer, ManualClosesTimer, ManualDeletesTimer, ManualLooksUpUnblock,
         ManualClosesUnblock, ManualDeletesUnblock, ManualUnblocks, ManualSaves, At, Manual, Leaving
<1>1. Runs(m) /\ \A h \in Goroutines : h # m => ~Runs(h)
  BY <1>0, ManualAlone, LeavesAlone
<1>2. PICK ip \in IPs : go[m].ip = ip
  BY <1>0, <1>1, RunsAlone
<1>3. FrameSync(m, go[m], ip) /\ Fits(ip, blocks[ip])
  BY <1>0, <1>1, <1>2, RunsAlone, RunsFit
<1>4. PICK f : f = go'[m]
  OBVIOUS
<1>5. f.pc \in {"done", "failed"} => ~Runs(m)'
  BY <1>4 DEF Runs, Resting, Ended
<1>6. ASSUME \A h \in Goroutines : h # m => go'[h] = go[h],
             f.pc = "done" \/ (f.pc \in Manual \cup Leaving /\ f.ip = ip),
             now' = now, cancel' = cancel, closed \subseteq closed',
             \A i \in IPs : blocks'[i] = blocks[i]
      PROVE  TimersOK'
  <2>1. f.pc \notin Tracked /\ f.pc # "action.save"
    BY <1>6 DEF Tracked, Manual, Leaving
  <2>. QED BY <1>0, <1>1, <1>2, <1>4, <1>5, <1>6, <2>1, CalmTimers
<1>7. CASE ManualSelects(m)
  <2>1. now' = now /\ cancel' = cancel /\ closed' = closed /\ blocks' = blocks
    BY <1>7 DEF ManualSelects, outside, maps, dbVars
  <2>2. \/ End(m, "done") \/ Goto(m, "manual.insert")
        \/ go' = [go EXCEPT ![m].rec = blocks[ip], ![m].pc = "manual.lookup"]
    BY <1>2, <1>7 DEF ManualSelects, ManualStarts, QueryMayFail, Setting
  <2>3. /\ \A h \in Goroutines : h # m => go'[h] = go[h]
        /\ \/ f.pc = "done"
           \/ f.pc \in {"manual.insert", "manual.lookup"} /\ f.ip = ip
    BY <1>0, <1>2, <1>4, <2>2 DEF End, Goto, Frame, Frames
  <2>. QED BY <1>6, <2>1, <2>3 DEF Manual
<1>8. CASE ManualInserts(m)
  <2>1. ip \notin known
    BY <1>3, <1>8 DEF ManualInserts, At, FrameSync
  <2>2. Insert(ip) /\ End(m, "done") /\ now' = now /\ cancel' = cancel /\ closed' = closed
    BY <1>2, <1>8, <2>1
       DEF ManualInserts, ManualStarts, NewRecord, InsertFails, QueryMayFail, Setting, maps
  <2>3. \A i \in IPs : blocks'[i] = blocks[i]
    BY <2>1, <2>2 DEF Insert, StateOK, TableOK, TableTypeOK, SerialOK, RowsOK
  <2>4. f.pc = "done" /\ \A h \in Goroutines : h # m => go'[h] = go[h]
    BY <1>0, <1>4, <2>2 DEF End, Frame
  <2>. QED BY <1>6, <2>2, <2>3, <2>4
<1>9. CASE ManualLooksUpTimer(m) \/ ManualLooksUpUnblock(m)
  <2>1. now' = now /\ cancel' = cancel /\ closed' = closed /\ blocks' = blocks
    BY <1>9 DEF ManualLooksUpTimer, ManualLooksUpUnblock, outside, maps, dbVars
  <2>2. \E c, l : /\ l \in {"manual.close", "manual.lookup2", "manual.close2", "manual.unblock"}
                  /\ \/ go' = [go EXCEPT ![m].chan = c, ![m].pc = l]
                     \/ go' = [go EXCEPT ![m].pc = l]
    BY <1>9 DEF ManualLooksUpTimer, ManualLooksUpUnblock, LooksUp
  <2>3. /\ \A h \in Goroutines : h # m => go'[h] = go[h]
        /\ f.pc \in {"manual.close", "manual.lookup2", "manual.close2", "manual.unblock"}
        /\ f.ip = ip
    BY <1>0, <1>2, <1>4, <2>2 DEF Frames
  <2>. QED BY <1>6, <2>1, <2>3 DEF Manual, Leaving
<1>10. CASE ManualClosesTimer(m) \/ ManualClosesUnblock(m)
  <2>1. go[m].chan \notin closed
    BY <1>3, <1>10 DEF ManualClosesTimer, ManualClosesUnblock, At, FrameSync, Closing
  <2>2. /\ now' = now /\ cancel' = cancel /\ closed \subseteq closed' /\ blocks' = blocks
        /\ Goto(m, "manual.delete") \/ Goto(m, "manual.delete2")
    BY <1>10, <2>1 DEF ManualClosesTimer, ManualClosesUnblock, Closes, outside, dbVars
  <2>3. /\ \A h \in Goroutines : h # m => go'[h] = go[h]
        /\ f.pc \in {"manual.delete", "manual.delete2"} /\ f.ip = ip
    BY <1>0, <1>2, <1>4, <2>2 DEF Goto, Frames
  <2>. QED BY <1>6, <2>2, <2>3 DEF Manual, Leaving
<1>11. CASE ManualDeletesTimer(m)
  <2>1. NoLive(ip)
    BY <1>3, <1>11, BlockedHasNone DEF ManualDeletesTimer, At, FrameSync, RowStep, Holding
  <2>2. /\ UNCHANGED <<now, closed, blocks>> /\ \A i \in IPs : i # ip => cancel'[i] = cancel[i]
    BY <1>2, <1>11 DEF ManualDeletesTimer, outside, dbVars, StateOK, MapsOK
  <2>3. /\ \A h \in Goroutines : h # m => go'[h] = go[h]
        /\ f.pc = "manual.lookup2" /\ f.ip = ip
    BY <1>0, <1>2, <1>4, <1>11 DEF ManualDeletesTimer, Goto, Frames
  <2>. QED BY <1>0, <1>1, <1>2, <1>4, <2>1, <2>2, <2>3, DeleteTimers
<1>12. CASE ManualDeletesUnblock(m) \/ ManualUnblocks(m)
  <2>1. now' = now /\ cancel' = cancel /\ closed' = closed /\ blocks' = blocks
    BY <1>12 DEF ManualDeletesUnblock, ManualUnblocks, outside, maps, dbVars
  <2>2. CASE End(m, "failed")
    <3>1. f.pc = "failed" /\ \A h \in Goroutines : h # m => go'[h] = go[h]
      BY <1>0, <1>4, <2>2 DEF End, Frame
    <3>. QED BY <1>0, <1>1, <1>4, <1>5, <2>1, <3>1, CalmTimers DEF Tracked
  <2>3. CASE \/ Goto(m, "manual.unblock")
             \/ go' = [go EXCEPT ![m].rec = Unblocked(@), ![m].pc = "manual.save"]
    <3>1. /\ \A h \in Goroutines : h # m => go'[h] = go[h]
          /\ f.pc \in {"manual.unblock", "manual.save"} /\ f.ip = ip
      BY <1>0, <1>2, <1>4, <2>3 DEF Goto, Frames
    <3>. QED BY <1>6, <2>1, <3>1 DEF Leaving
  <2>. QED BY <1>12, <2>2, <2>3 DEF ManualDeletesUnblock, ManualUnblocks
<1>13. CASE ManualSaves(m)
  <2>1. PICK r : r = go[m].rec
    OBVIOUS
  <2>2. /\ Update(ip, r) /\ End(m, "done") /\ UNCHANGED <<now, cancel, closed>>
        /\ go[m].pc = "manual.save"
    BY <1>2, <1>13, <2>1 DEF ManualSaves, At, UpdateFails, QueryMayFail, Setting, maps
  <2>3. ip \in known /\ Fits(ip, r)
    BY <1>3, <2>2, BlockedHasNone, NoLiveFits DEF FrameSync, RowStep, Asking
  <2>4. f.pc = "done" /\ \A h \in Goroutines : h # m => go'[h] = go[h]
    BY <1>0, <1>4, <2>2 DEF End, Frame
  <2>. QED BY <1>0, <1>1, <1>2, <1>4, <1>5, <2>2, <2>3, <2>4, SaveTimers
<1>. QED BY <1>7, <1>8, <1>9, <1>10, <1>11, <1>12, <1>13 DEF ManualSteps

(* Between two goroutines the clock may tick: no timer is due yet.         *)
LEMMA TickTimers ==
  ASSUME Setting, StateOK, SerialOK, TimersOK, Tick PROVE TimersOK'
<1>1. /\ go' = go /\ cancel' = cancel /\ closed' = closed /\ blocks' = blocks
      /\ now' = now + 1 /\ now \in Nat
  BY DEF Tick, memory, maps, dbVars, StateOK, OutsideOK
<1>2. \A g \in Goroutines : ~Runs(g)
  BY DEF Tick, Setting, Idle, At, Runs, Resting
<1>3. PICK k \in Nat : k = Timeout * Minute
  <2>1. Timeout \in Nat /\ Minute \in Nat
    BY ConfigAssumption
  <2>. QED BY <2>1
<1>4. ArmedOK'
  <2>1. ASSUME NEW t \in Timers, go[t].pc = "timer.armed"
        PROVE  now + 1 <= go[t].due /\ go[t].due <= now + 1 + k
    <3>1. now < go[t].due
      BY <2>1 DEF Tick, Setting, Deadlines, At
    <3>2. go[t].due \in Nat /\ go[t].due <= now + k
      BY <1>3, <2>1 DEF TimersOK, ArmedOK, At, StateOK, GoOK, Frames, Goroutines
    <3>. QED BY <1>1, <1>3, <3>1, <3>2
  <2>. QED BY <1>1, <1>3, <2>1 DEF ArmedOK, At
<1>5. \A ip \in IPs : Fits(ip, blocks[ip])'
  <2>1. \A ip \in IPs : Fits(ip, blocks[ip])
    BY <1>2, StartsFit
  <2>. QED BY <1>1, <2>1 DEF Fits, Live, At
<1>6. \A g \in Goroutines : ~Runs(g)'
  BY <1>1, <1>2 DEF Runs
<1>. QED BY <1>4, <1>5, <1>6 DEF TimersOK, FramesFit, RowsFit

(* Every step keeps the invariant.                                         *)
LEMMA NextTimers ==
  ASSUME Setting, Timeout <= TriggerWindow
  PROVE  StateOK /\ ChannelsOK /\ SerialOK /\ TimersOK /\ [Next]_vars => TimersOK'
<1>. SUFFICES ASSUME StateOK, ChannelsOK, SerialOK, TimersOK, [Next]_vars PROVE TimersOK'
  OBVIOUS
<1>1. CASE UNCHANGED vars
  <2>1. /\ go' = go /\ cancel' = cancel /\ closed' = closed /\ blocks' = blocks /\ now' = now
    BY <1>1 DEF vars, memory, maps, outside, dbVars
  <2>. QED BY <2>1 DEF TimersOK, ArmedOK, FramesFit, RowsFit, TimerFrame, Fits, NoLive, Live, At, Runs
<1>2. CASE Tick
  BY <1>2, TickTimers
<1>3. CASE Restart \/ MapRace
  BY <1>3, GoesOn
<1>. QED BY <1>1, <1>2, <1>3, EventTimers, ArrivesTimers, ManualTimers, TimerTimers,
            UnblockerTimers, ActionTimers DEF Next, Callers

(* Nothing has been started.                                               *)
LEMMA InitTimers == Init => TimersOK
<1>. SUFFICES ASSUME Init PROVE TimersOK
  OBVIOUS
<1>1. \A g \in Goroutines : go[g].pc = "new"
  BY DEF Init, Frame
<1>2. \A g \in Goroutines : ~Runs(g)
  BY <1>1 DEF Runs, Resting
<1>3. \A t \in Timers : ~At(t, "timer.armed")
  BY <1>1 DEF At, Goroutines
<1>. QED BY <1>2, <1>3 DEF TimersOK, ArmedOK, FramesFit, RowsFit, Fits, Live

(* Where a timer fires within the window of the event that armed it, a     *)
(* cycle activates the scenario once: an address never has two timers that *)
(* will act (scenario.go, 79-84, 106-109).                                 *)
THEOREM OneScenarioPerCycle ==
  Setting /\ Timeout <= TriggerWindow /\ Spec => []ScenarioOncePerCycle
<1>. SUFFICES ASSUME Setting, Timeout <= TriggerWindow PROVE Spec => []ScenarioOncePerCycle
  OBVIOUS
<1>1. ASSUME StateOK, SerialOK, TimersOK PROVE ScenarioOncePerCycle
  <2>. SUFFICES ASSUME NEW ip \in IPs, NEW s \in LiveTimers(ip), NEW t \in LiveTimers(ip)
                PROVE  s = t
    BY DEF ScenarioOncePerCycle
  <2>1. /\ s \in Timers /\ Live(s) /\ go[s].ip = ip
        /\ t \in Timers /\ Live(t) /\ go[t].ip = ip
    BY DEF LiveTimers, Live
  <2>2. CASE \A e \in Events : go[e].ip = ip => go[e].pc # "event.save"
    BY <1>1, <2>1, <2>2 DEF TimersOK, RowsFit, Fits
  <2>3. ASSUME NEW e \in Events, go[e].ip = ip, go[e].pc = "event.save" PROVE s = t
    <3>1. e \in Goroutines /\ Runs(e)
      BY <2>3 DEF Goroutines, Requests, Runs, Resting, Ended
    <3>2. Fits(ip, go[e].rec)
      BY <1>1, <2>3, <3>1, RunsFit DEF TimerFrame
    <3>. QED BY <2>1, <3>2 DEF Fits
  <2>. QED BY <2>2, <2>3
<1>2. StateOK /\ SerialOK /\ TimersOK => ScenarioOncePerCycle
  BY <1>1
<1>3. StateOK /\ ChannelsOK /\ SerialOK /\ TimersOK /\ [Next]_vars => TimersOK'
  BY NextTimers
<1>. QED BY <1>2, <1>3, InitTimers, StateInvariant, ChannelsInvariant, SerialInvariant, PTL DEF Spec


-----------------------------------------------------------------------------
(* The steps of BlockCycle *)

(* What Refinement reads off the table, and the addresses with a manual    *)
(* unblock on its way.                                                     *)
Phases == [ip \in IPs |-> PhaseOf(blocks[ip])]
Ends   == [ip \in IPs |-> blocks[ip].unblockAfter]
Counts == [ip \in IPs |-> blocks[ip].blockCount]
Wanted == {ip \in IPs : \E m \in Unblocks : go[m].ip = ip}

(* A manual unblock wants an address only while it runs.                   *)
WantsOK == \A m \in Unblocks : Runs(m) \/ go[m].ip = None

(* It keeps its address until it ends.                                     *)
LEMMA ManualWants ==
  ASSUME StateOK, NEW m \in Unblocks, WantsOK, ManualArrives(m) \/ ManualSteps(m)
  PROVE  WantsOK'
<1>0. m \in Goroutines /\ m \in Requests /\ go \in [Goroutines -> Frames]
  BY DEF Goroutines, Requests, StateOK, GoOK
<1>1. ASSUME NEW l, End(m, l) PROVE go'[m].ip = None /\ \A h \in Goroutines : h # m => go'[h] = go[h]
  BY <1>0, <1>1 DEF End, Frame
<1>2. ASSUME NEW l, l \notin Resting, Goto(m, l)
      PROVE  Runs(m)' /\ \A h \in Goroutines : h # m => go'[h] = go[h]
  BY <1>0, <1>2 DEF Goto, Runs, Frames
<1>3. ASSUME NEW l, l \notin Resting, Closes(m, l)
      PROVE  /\ Runs(m)' \/ go'[m].ip = None
             /\ \A h \in Goroutines : h # m => go'[h] = go[h]
  BY <1>0, <1>1, <1>2, <1>3 DEF Closes, Panics
<1>4. ASSUME NEW map, NEW found, found \notin Resting, NEW missing, missing \notin Resting,
             LooksUp(m, map, found, missing)
      PROVE  Runs(m)' /\ \A h \in Goroutines : h # m => go'[h] = go[h]
  BY <1>0, <1>4 DEF LooksUp, Runs, Frames
<1>5. ASSUME NEW row, ManualStarts(m, row)
      PROVE  /\ Runs(m)' \/ go'[m].ip = None
             /\ \A h \in Goroutines : h # m => go'[h] = go[h]
  <2>1. CASE go' = [go EXCEPT ![m].rec = row, ![m].pc = "manual.lookup"]
    BY <1>0, <2>1 DEF Runs, Resting, Ended, Frames
  <2>. QED BY <1>1, <1>5, <2>1 DEF ManualStarts
<1>6. ASSUME ManualArrives(m)
      PROVE  /\ Runs(m)' \/ go'[m].ip = None
             /\ \A h \in Goroutines : h # m => go'[h] = go[h]
  <2>1. ASSUME NEW ip \in Accepted, go' = [go EXCEPT ![m].ip = ip, ![m].pc = "manual.select"]
        PROVE  Runs(m)' /\ \A h \in Goroutines : h # m => go'[h] = go[h]
    BY <1>0, <2>1 DEF Runs, Resting, Ended, Frames
  <2>. QED BY <1>1, <1>6, <2>1 DEF ManualArrives
<1>7. ASSUME ManualUnblocks(m)
      PROVE  /\ Runs(m)' \/ go'[m].ip = None
             /\ \A h \in Goroutines : h # m => go'[h] = go[h]
  <2>1. PICK r : r = Unblocked(go[m].rec)
    OBVIOUS
  <2>2. CASE go' = [go EXCEPT ![m].rec = r, ![m].pc = "manual.save"]
    BY <1>0, <2>2 DEF Runs, Resting, Ended, Frames
  <2>. QED BY <1>1, <1>7, <2>1, <2>2 DEF ManualUnblocks
<1>8. /\ Runs(m)' \/ go'[m].ip = None
      /\ \A h \in Goroutines : h # m => go'[h] = go[h]
  BY <1>1, <1>2, <1>3, <1>4, <1>5, <1>6, <1>7
     DEF ManualSteps, ManualSelects, ManualInserts, ManualLooksUpTimer, ManualClosesTimer,
         ManualDeletesTimer, ManualLooksUpUnblock, ManualClosesUnblock, ManualDeletesUnblock,
         ManualSaves, Resting, Ended
<1>. QED BY <1>8 DEF WantsOK, Runs, Goroutines, Requests

(* No other step changes a manual unblock, unless it ends the process.     *)
LEMMA NextWants == StateOK /\ WantsOK /\ [Next]_vars => WantsOK'
<1>. SUFFICES ASSUME StateOK, WantsOK, [Next]_vars PROVE WantsOK'
  OBVIOUS
<1>0. go \in [Goroutines -> Frames]
  BY DEF StateOK, GoOK
<1>1. ASSUME \A m \in Unblocks : go'[m] = go[m] \/ go'[m].ip = None PROVE WantsOK'
  BY <1>1 DEF WantsOK, Runs
<1>2. ASSUME Stops PROVE WantsOK'
  <2>1. \A m \in Unblocks : m \in Goroutines
    BY DEF Goroutines, Requests
  <2>. QED BY <1>0, <1>1, <1>2, <2>1 DEF Stops, Frame
<1>3. ASSUME NEW g \in Goroutines \ Unblocks, NEW l,
             End(g, l) \/ Goto(g, l) \/ Closes(g, l) \/ Panics(g) \/ Returns(g)
      PROVE  WantsOK'
  BY <1>0, <1>1, <1>2, <1>3 DEF End, Goto, Closes, Panics, Returns, Goroutines, Requests
<1>4. CASE Tick \/ Restart \/ MapRace \/ UNCHANGED vars
  BY <1>1, <1>2, <1>4 DEF Tick, Restart, MapRace, vars, memory
<1>5. ASSUME NEW e \in Events, EventArrives(e) \/ EventSteps(e) PROVE WantsOK'
  <2>0. e \in Goroutines \ Unblocks
    BY KindsDiffer DEF Goroutines, Requests
  <2>1. ASSUME NEW row, EventCounts(e, row) PROVE WantsOK'
    BY <1>0, <1>1, <1>3, <2>0, <2>1 DEF EventCounts, Goroutines, Requests
  <2>2. EventArrives(e) => WantsOK'
    BY <1>0, <1>1, <1>3, <2>0 DEF EventArrives, Goroutines, Requests
  <2>3. EventArms(e) => WantsOK'
    BY <1>0, <1>1, <2>0, KindsDiffer DEF EventArms, Goroutines, Requests
  <2>. QED BY <1>3, <1>5, <2>0, <2>1, <2>2, <2>3
           DEF EventSteps, EventSelects, EventInserts, EventNotifies, EventSaves
<1>6. ASSUME NEW p \in Presses, PressArrives(p) PROVE WantsOK'
  <2>0. p \in Goroutines \ Unblocks
    BY KindsDiffer DEF Goroutines, Requests
  <2>. QED BY <1>0, <1>1, <1>3, <1>6, <2>0 DEF PressArrives, Goroutines, Requests
<1>7. ASSUME NEW t \in Timers, TimerSteps(t) PROVE WantsOK'
  <2>0. t \in Goroutines \ Unblocks
    BY KindsDiffer DEF Goroutines
  <2>. QED BY <1>3, <1>7, <2>0
           DEF TimerSteps, TimerFires, TimerSelects, TimerUpdates, TimerDeletes
<1>8. ASSUME NEW u \in Unblockers, UnblockerSteps(u) PROVE WantsOK'
  <2>0. u \in Goroutines \ Unblocks
    BY KindsDiffer DEF Goroutines
  <2>1. UnblockerUnblocks(u) => WantsOK'
    BY <1>0, <1>1, <2>0 DEF UnblockerUnblocks, Goroutines, Requests
  <2>. QED BY <1>3, <1>8, <2>0, <2>1
           DEF UnblockerSteps, UnblockerWakes, UnblockerSaves, UnblockerDeletes
<1>9. ASSUME NEW g \in Callers, ActionSteps(g) PROVE WantsOK'
  <2>0. g \in Goroutines \ Unblocks
    BY KindsDiffer DEF Callers, Goroutines, Requests
  <2>1. ASSUME NEW row, ActionStarts(g, row) PROVE WantsOK'
    BY <1>0, <1>1, <1>3, <2>0, <2>1 DEF ActionStarts, Goroutines, Requests
  <2>2. ActionExecutes(g) => WantsOK'
    BY <1>0, <1>1, <1>3, <2>0 DEF ActionExecutes, Executed, Goroutines, Requests
  <2>3. ActionLooksUp(g) => WantsOK'
    BY <1>0, <1>1, <2>0 DEF ActionLooksUp, Goroutines, Requests
  <2>4. ActionSpawns(g) => WantsOK'
    BY <1>0, <1>1, <2>0, KindsDiffer DEF ActionSpawns, Goroutines, Requests
  <2>. QED BY <1>3, <1>9, <2>0, <2>1, <2>2, <2>3, <2>4
           DEF ActionSteps, ActionSelects, ActionInserts, ActionCloses, ActionDeletes, ActionSaves
<1>. QED BY <1>4, <1>5, <1>6, <1>7, <1>8, <1>9, ManualWants DEF Next, Callers

(* A row is written.                                                       *)
LEMMA RowWritten ==
  ASSUME NEW ip \in IPs, NEW r, \A i \in IPs : blocks'[i] = IF i = ip THEN r ELSE blocks[i]
  PROVE  /\ Phases' = [Phases EXCEPT ![ip] = PhaseOf(r)]
         /\ Ends' = [Ends EXCEPT ![ip] = r.unblockAfter]
         /\ Counts' = [Counts EXCEPT ![ip] = r.blockCount]
<1>1. \A i \in IPs : PhaseOf(blocks'[i]) = IF i = ip THEN PhaseOf(r) ELSE PhaseOf(blocks[i])
  OBVIOUS
<1>. QED BY <1>1 DEF Phases, Ends, Counts

(* One that keeps end and count changes the phase only.                    *)
LEMMA PhaseWritten ==
  ASSUME NEW ip \in IPs, NEW r, \A i \in IPs : blocks'[i] = IF i = ip THEN r ELSE blocks[i],
         r.unblockAfter = blocks[ip].unblockAfter, r.blockCount = blocks[ip].blockCount
  PROVE  Phases' = [Phases EXCEPT ![ip] = PhaseOf(r)] /\ Ends' = Ends /\ Counts' = Counts
<1>1. \A i \in IPs : /\ blocks'[i].unblockAfter = blocks[i].unblockAfter
                     /\ blocks'[i].blockCount = blocks[i].blockCount
  OBVIOUS
<1>. QED BY <1>1, RowWritten DEF Ends, Counts

(* None is.                                                                *)
LEMMA RowsStay ==
  ASSUME \A i \in IPs : blocks'[i] = blocks[i]
  PROVE  Phases' = Phases /\ Ends' = Ends /\ Counts' = Counts
<1>1. \A i \in IPs : PhaseOf(blocks'[i]) = PhaseOf(blocks[i])
  OBVIOUS
<1>. QED BY <1>1 DEF Phases, Ends, Counts

(* An event saved: the action that was taken before is forgotten.          *)
LEMMA EventSavesCycle ==
  ASSUME Setting, StateOK, SerialOK, NEW e \in Events, EventSaves(e)
  PROVE  [Cycle!Next]_(Cycle!vars)
<1>0. /\ e \in Goroutines /\ e \notin Unblocks /\ go \in [Goroutines -> Frames]
      /\ go[e].pc = "event.save" /\ Runs(e)
  BY KindsDiffer DEF Goroutines, Requests, StateOK, GoOK, EventSaves, At, Runs, Resting, Ended
<1>1. PICK ip \in IPs : go[e].ip = ip
  BY <1>0, RunsAlone
<1>2. PICK r : r = go[e].rec
  OBVIOUS
<1>3. Continues(r, blocks[ip]) /\ ip \in known
  BY <1>0, <1>1, <1>2, RunsAlone DEF FrameSync, RowStep, Counting, Asking
<1>4. /\ \A i \in IPs : blocks'[i] = IF i = ip THEN r ELSE blocks[i]
      /\ now' = now
  BY <1>1, <1>2, <1>3 DEF EventSaves, Update, UpdateFails, QueryMayFail, Setting,
     StateOK, TableOK, TableTypeOK
<1>5. \A m \in Unblocks : go'[m] = go[m]
  BY <1>0 DEF EventSaves, End, Goroutines, Requests
<1>6. Wanted' = Wanted
  BY <1>5 DEF Wanted
<1>7. Phases' = [Phases EXCEPT ![ip] = "free"] /\ Ends' = Ends /\ Counts' = Counts
  BY <1>3, <1>4, PhaseWritten DEF PhaseOf, Continues
<1>8. Phases[ip] \in {"free", "acted"}
  BY <1>3 DEF Phases, PhaseOf, Continues
<1>9. CASE Phases[ip] = "acted"
  BY <1>1, <1>4, <1>6, <1>7, <1>9
     DEF Cycle!Next, Cycle!Forget, Cycle!Enters, Phases, Ends, Counts, Wanted
<1>10. CASE Phases[ip] = "free"
  <2>1. Phases' = Phases
    BY <1>7, <1>10 DEF Phases
  <2>. QED BY <1>4, <1>6, <1>7, <2>1 DEF Cycle!vars, Phases, Ends, Counts, Wanted
<1>. QED BY <1>8, <1>9, <1>10

(* ExecuteAction has written its record: the address is blocked, for one   *)
(* time more than before, or an action of another kind was taken.          *)
LEMMA ActionSavesCycle ==
  ASSUME Setting, StateOK, SerialOK, NEW g \in Callers, ActionSaves(g)
  PROVE  [Cycle!Next]_(Cycle!vars)
<1>0. /\ go[g].pc = "action.save" /\ go[g].pc \in Acting
      /\ g \in Goroutines /\ g \notin Unblocks
  BY KindsDiffer DEF ActionSaves, At, Acting, Callers, Goroutines, Requests
<1>1. PICK ip \in IPs : go[g].ip = ip
  BY <1>0, ActsAlone
<1>2. PICK r : r = go[g].arec
  OBVIOUS
<1>3. PICK row : row = blocks[ip]
  OBVIOUS
<1>4. ip \in known /\ RowOK(row) /\ (Blocks(r, row) \/ (r = MarkTaken(row) /\ row.blockedAt = 0))
  BY <1>0, <1>1, <1>2, <1>3, ActsAlone DEF FrameSync, RowStep, Asking
<1>5. /\ \A i \in IPs : blocks'[i] = IF i = ip THEN r ELSE blocks[i]
      /\ now' = now /\ Returns(g)
  BY <1>1, <1>2, <1>4 DEF ActionSaves, Update, UpdateFails, QueryMayFail, Setting,
     StateOK, TableOK, TableTypeOK
<1>6. \A m \in Unblocks : go'[m] = go[m]
  BY <1>0, <1>5, ActsAlone, ReturnsFrame DEF Goroutines, Requests
<1>7. Wanted' = Wanted
  BY <1>6 DEF Wanted
<1>8. Phases[ip] = PhaseOf(row) /\ Ends[ip] = row.unblockAfter /\ Counts[ip] = row.blockCount
  BY <1>3 DEF Phases, Ends, Counts
<1>9. CASE Blocks(r, row)
  <2>1. now > 0
    BY DEF SerialOK, RowsOK, StateOK, OutsideOK
  <2>2. /\ r.blockedAt = now /\ r.blockCount = row.blockCount + 1
        /\ r.unblockAfter = now + (UnblockAfter * Minute) * (row.blockCount + 1)
    BY <1>4, <1>9 DEF Blocks, MarkBlocked, MarkTaken, RowOK, Records
  <2>3. PhaseOf(r) = "blocked" /\ PhaseOf(row) # "blocked"
    BY <1>9, <2>1, <2>2 DEF PhaseOf, Blocks
  <2>4. /\ Phases' = [Phases EXCEPT ![ip] = "blocked"]
        /\ Counts' = [Counts EXCEPT ![ip] = @ + 1]
        /\ Ends' = [Ends EXCEPT ![ip] = now + (UnblockAfter * Minute) * (Counts[ip] + 1)]
    BY <1>5, <1>8, <2>2, <2>3, RowWritten
  <2>. QED BY <1>1, <1>5, <1>7, <1>8, <2>3, <2>4
           DEF Cycle!Next, Cycle!Block, Cycle!Enters, Phases, Ends, Counts, Wanted
<1>10. CASE r = MarkTaken(row) /\ row.blockedAt = 0
  <2>1. /\ PhaseOf(r) = "acted" /\ r.unblockAfter = row.unblockAfter
        /\ r.blockCount = row.blockCount /\ PhaseOf(row) \in {"free", "acted"}
    BY <1>4, <1>10 DEF PhaseOf, MarkTaken, RowOK, Records
  <2>2. Phases' = [Phases EXCEPT ![ip] = "acted"] /\ Ends' = Ends /\ Counts' = Counts
    BY <1>3, <1>5, <2>1, PhaseWritten
  <2>3. CASE PhaseOf(row) = "free"
    BY <1>1, <1>5, <1>7, <1>8, <2>2, <2>3
       DEF Cycle!Next, Cycle!Act, Cycle!Enters, Phases, Ends, Counts, Wanted
  <2>4. CASE PhaseOf(row) = "acted"
    <3>1. Phases' = Phases
      BY <1>8, <2>2, <2>4 DEF Phases
    <3>. QED BY <1>5, <1>7, <2>2, <3>1 DEF Cycle!vars, Phases, Ends, Counts, Wanted
  <2>. QED BY <2>1, <2>3, <2>4
<1>. QED BY <1>4, <1>9, <1>10

(* A scheduled unblock has written its record: its time had come.          *)
LEMMA UnblockerSavesCycle ==
  ASSUME Setting, StateOK, SerialOK, NEW u \in Unblockers, UnblockerSaves(u)
  PROVE  [Cycle!Next]_(Cycle!vars)
<1>0. /\ go[u].pc = "unblocker.save" /\ go[u].pc \in Finishing
      /\ u \in Goroutines /\ u \notin Unblocks
  BY KindsDiffer DEF UnblockerSaves, At, Finishing, Goroutines, Requests
<1>1. PICK ip \in IPs : go[u].ip = ip
  BY <1>0, UnblocksAlone
<1>2. PICK r : r = go[u].rec
  OBVIOUS
<1>3. PICK row : row = blocks[ip]
  OBVIOUS
<1>4. /\ ip \in known /\ RowOK(row)
      /\ r = row \/ (r = Unblocked(row) /\ row.blockedAt > 0 /\ row.unblockAfter <= now)
  BY <1>0, <1>1, <1>2, <1>3, UnblocksAlone DEF FrameSync, RowStep
<1>5. /\ \A i \in IPs : blocks'[i] = IF i = ip THEN r ELSE blocks[i]
      /\ now' = now
  BY <1>1, <1>2, <1>4 DEF UnblockerSaves, Update, UpdateFails, QueryMayFail, Setting,
     StateOK, TableOK, TableTypeOK
<1>6. \A m \in Unblocks : go'[m] = go[m]
  BY <1>0, UnblocksAlone DEF UnblockerSaves, Goto, Goroutines, Requests
<1>7. Wanted' = Wanted
  BY <1>6 DEF Wanted
<1>8. CASE r = row
  <2>1. Phases' = Phases /\ Ends' = Ends /\ Counts' = Counts
    BY <1>3, <1>5, <1>8, RowsStay
  <2>. QED BY <1>5, <1>7, <2>1 DEF Cycle!vars, Phases, Ends, Counts, Wanted
<1>9. CASE r = Unblocked(row) /\ row.blockedAt > 0 /\ row.unblockAfter <= now
  <2>1. /\ PhaseOf(r) = "free" /\ r.unblockAfter = row.unblockAfter
        /\ r.blockCount = row.blockCount
    BY <1>4, <1>9 DEF PhaseOf, Unblocked, RowOK, Records
  <2>2. Phases' = [Phases EXCEPT ![ip] = "free"] /\ Ends' = Ends /\ Counts' = Counts
    BY <1>3, <1>5, <2>1, PhaseWritten
  <2>3. Phases[ip] = "blocked" /\ now >= Ends[ip]
    BY <1>3, <1>4, <1>9 DEF Phases, Ends, PhaseOf, StateOK, OutsideOK, RowOK, Records
  <2>. QED BY <1>1, <1>5, <1>7, <2>2, <2>3
           DEF Cycle!Next, Cycle!Unblock, Cycle!Enters, Phases, Ends, Counts, Wanted
<1>. QED BY <1>4, <1>8, <1>9

(* A manual unblock has written its record: nobody else wants the address. *)
LEMMA ManualSavesCycle ==
  ASSUME Setting, StateOK, SerialOK, WantsOK, NEW m \in Unblocks, ManualSaves(m)
  PROVE  [Cycle!Next]_(Cycle!vars)
<1>0. /\ go[m].pc = "manual.save" /\ go[m].pc \in Leaving
      /\ m \in Goroutines /\ go \in [Goroutines -> Frames]
  BY DEF ManualSaves, At, Leaving, Goroutines, Requests, StateOK, GoOK
<1>1. PICK ip \in IPs : go[m].ip = ip
  BY <1>0, LeavesAlone
<1>2. PICK r : r = go[m].rec
  OBVIOUS
<1>3. PICK row : row = blocks[ip]
  OBVIOUS
<1>4. ip \in known /\ RowOK(row) /\ r = Unblocked(row) /\ row.blockedAt > 0
  BY <1>0, <1>1, <1>2, <1>3, LeavesAlone DEF FrameSync, RowStep, StateOK, TableOK
<1>5. /\ \A i \in IPs : blocks'[i] = IF i = ip THEN r ELSE blocks[i]
      /\ now' = now /\ End(m, "done")
  BY <1>1, <1>2, <1>4 DEF ManualSaves, Update, UpdateFails, QueryMayFail, Setting,
     StateOK, TableOK, TableTypeOK
<1>6. /\ go'[m].ip = None
      /\ \A k \in Unblocks : k # m => go'[k] = go[k] /\ go[k].ip = None
  <2>1. \A k \in Unblocks : k # m => ~Runs(k)
    BY <1>0, LeavesAlone DEF Goroutines, Requests
  <2>. QED BY <1>0, <1>5, <2>1 DEF End, Frame, WantsOK, Goroutines, Requests
<1>7. Wanted = {ip} /\ Wanted' = {}
  BY <1>1, <1>6, ManagerAssumption DEF Wanted
<1>8. /\ PhaseOf(r) = "free" /\ r.unblockAfter = row.unblockAfter
      /\ r.blockCount = row.blockCount
  BY <1>4 DEF PhaseOf, Unblocked, RowOK, Records
<1>9. Phases' = [Phases EXCEPT ![ip] = "free"] /\ Ends' = Ends /\ Counts' = Counts
  BY <1>3, <1>5, <1>8, PhaseWritten
<1>10. Phases[ip] = "blocked"
  BY <1>3, <1>4 DEF Phases, PhaseOf
<1>11. ip \in Wanted /\ Wanted' = Wanted \ {ip}
  BY <1>7
<1>. QED BY <1>1, <1>5, <1>9, <1>10, <1>11
         DEF Cycle!Next, Cycle!Unblock, Cycle!Enters, Phases, Ends, Counts, Wanted

(* A step that changes no row and takes no time at most changes what is    *)
(* wanted.                                                                 *)
LEMMA QuietCycle ==
  ASSUME now' = now, \A i \in IPs : blocks'[i] = blocks[i] PROVE Cycle!Next
<1>1. Phases' = Phases /\ Ends' = Ends /\ Counts' = Counts
  BY RowsStay
<1>2. Wanted' \in SUBSET IPs
  BY DEF Wanted
<1>. QED BY <1>1, <1>2 DEF Cycle!Next, Cycle!Want, Phases, Ends, Counts, Wanted

(* The INSERT of a new row says what no row says.                          *)
LEMMA InsertCycle ==
  ASSUME StateOK, SerialOK, now' = now, NEW ip, Insert(ip) \/ UNCHANGED dbVars
  PROVE  Cycle!Next
<1>1. \A i \in IPs : blocks'[i] = blocks[i]
  BY DEF Insert, dbVars, SerialOK, RowsOK, StateOK, TableOK, TableTypeOK
<1>. QED BY <1>1, QuietCycle

(* Every step maps to a step of BlockCycle, or to none.                    *)
LEMMA NextCycle ==
  ASSUME Setting, StateOK, SerialOK, WantsOK, [Next]_vars
  PROVE  [Cycle!Next]_(Cycle!vars)
<1>1. CASE Tick
  <2>1. /\ blocks' = blocks /\ now' = now + 1
        /\ \A m \in Unblocks : go'[m] = go[m]
    BY <1>1 DEF Tick, dbVars, memory
  <2>2. Phases' = Phases /\ Ends' = Ends /\ Counts' = Counts /\ Wanted' = Wanted
    BY <2>1, RowsStay DEF Wanted
  <2>. QED BY <2>1, <2>2 DEF Cycle!Next, Cycle!Tick, Phases, Ends, Counts, Wanted
<1>2. CASE Restart \/ MapRace \/ UNCHANGED vars
  BY <1>2, QuietCycle DEF Restart, MapRace, vars, outside, dbVars
<1>3. ASSUME NEW e \in Events, EventArrives(e) \/ EventSteps(e)
      PROVE  [Cycle!Next]_(Cycle!vars)
  BY <1>3, EventSavesCycle, InsertCycle
     DEF EventArrives, EventSteps, EventSelects, EventInserts, EventNotifies, EventArms,
         InsertFails, outside
<1>4. ASSUME NEW p \in Presses, PressArrives(p) PROVE Cycle!Next
  BY <1>4, InsertCycle DEF PressArrives
<1>5. ASSUME NEW t \in Timers, TimerSteps(t) PROVE Cycle!Next
  BY <1>5, InsertCycle
     DEF TimerSteps, TimerFires, TimerSelects, TimerUpdates, TimerDeletes, outside
<1>6. ASSUME NEW u \in Unblockers, UnblockerSteps(u) PROVE [Cycle!Next]_(Cycle!vars)
  BY <1>6, UnblockerSavesCycle, InsertCycle
     DEF UnblockerSteps, UnblockerWakes, UnblockerUnblocks, UnblockerDeletes, outside
<1>7. ASSUME NEW m \in Unblocks, ManualArrives(m) \/ ManualSteps(m)
      PROVE  [Cycle!Next]_(Cycle!vars)
  BY <1>7, ManualSavesCycle, InsertCycle
     DEF ManualArrives, ManualSteps, ManualSelects, ManualInserts, ManualLooksUpTimer,
         ManualClosesTimer, ManualDeletesTimer, ManualLooksUpUnblock, ManualClosesUnblock,
         ManualDeletesUnblock, ManualUnblocks, InsertFails, outside
<1>8. ASSUME NEW g \in Callers, ActionSteps(g) PROVE [Cycle!Next]_(Cycle!vars)
  BY <1>8, ActionSavesCycle, InsertCycle
     DEF ActionSteps, ActionSelects, ActionInserts, ActionExecutes, ActionLooksUp,
         ActionCloses, ActionDeletes, ActionSpawns, InsertFails, outside
<1>. QED BY <1>1, <1>2, <1>3, <1>4, <1>5, <1>6, <1>7, <1>8 DEF Next, Callers

(* The first state maps to a first state.                                  *)
LEMMA InitCycle == Init => Cycle!Init /\ WantsOK
<1>. SUFFICES ASSUME Init PROVE Cycle!Init /\ WantsOK
  OBVIOUS
<1>1. /\ \A m \in Unblocks : go[m].ip = None
      /\ \A ip \in IPs : blocks[ip] = NewRecord
      /\ now = 1
  BY DEF Init, TableInit, Frame, Goroutines, Requests
<1>2. /\ Phases = [ip \in IPs |-> "free"] /\ Ends = [ip \in IPs |-> 0]
      /\ Counts = [ip \in IPs |-> 0]
  BY <1>1 DEF Phases, Ends, Counts, PhaseOf, NewRecord
<1>3. Wanted = {}
  BY <1>1, ManagerAssumption DEF Wanted
<1>. QED BY <1>1, <1>2, <1>3 DEF Cycle!Init, WantsOK, Phases, Ends, Counts, Wanted

(* In the setting above, what the table says of an address goes through    *)
(* the cycles of BlockCycle: it is blocked for as many times unblock_after *)
(* as it has been blocked, and free again when that is over or somebody    *)
(* has asked, not before (scenario.go, 171-175, 193-205, 245-252).  That   *)
(* every block ends is the liveness of FollowsCycle, and not part of this. *)
THEOREM RowsFollowCycle ==
  Setting /\ Spec => Cycle!Init /\ [][Cycle!Next]_(Cycle!vars)
<1>. SUFFICES ASSUME Setting PROVE Spec => Cycle!Init /\ [][Cycle!Next]_(Cycle!vars)
  OBVIOUS
<1>1. Spec => []WantsOK
  BY InitCycle, NextWants, StateInvariant, PTL DEF Spec
<1>2. StateOK /\ SerialOK /\ WantsOK /\ [Next]_vars => [Cycle!Next]_(Cycle!vars)
  BY NextCycle
<1>. QED BY <1>1, <1>2, InitCycle, StateInvariant, SerialInvariant, PTL DEF Spec

=============================================================================
