# A TLA+ model of SETMaster

SETMaster answers detections with blocks.  Falco sends an event; `module-engine`
counts the events of each remote address in SQLite; when an address reaches
`trigger_count` it asks a person in Slack, or acts at once; the action inserts a
rule into the GCP firewall, and the rule goes away after `unblock_after`, or by
hand from a dashboard.  A second program, a Falco plugin, feeds Hubble flows to
Falco.  This directory models both programs, checks the models with TLC and
proves the safety properties it checks with TLAPS.

All paths below are relative to `src/module-engine/` unless they say otherwise;
`scenario.go` is `internal/scenario/scenario.go`, and so on.

## 1. The system

| Component | State | Operations | Talks to |
|---|---|---|---|
| Scenario manager `internal/scenario/scenario.go` | `cancel`, `unblockCancel` (maps address → channel), the goroutines it starts | `HandleEvent`, `executeScenario`, notification timer, `ExecuteAction`, `scheduleUnblock`, `ManualUnblock` | table, actioners, notifier |
| Block table `internal/db/sqlite.go`, `pkg/models/models.go` | table `blocks`, one row per address | `GetOrCreateBlockRecord` (SELECT, then INSERT), `UpdateBlockRecord` (all columns), `GetAllRecords`; `WasActionTaken` has no caller | SQLite file |
| GCP firewall actioner `internal/actioner/gcp_firewall.go` | rules in the GCP project | `Execute` (insert), `Unblock` (delete) | GCP API |
| GCP storage, SigmaHQ actioners `internal/actioner/` | objects in a bucket | `Execute` | GCP API |
| Actioner registry `internal/actioner/actioner.go` | the map `NewServer` fills | constructors | |
| Slack notifier `internal/notifier/slack.go` | messages in Slack | `SendMessageWithButtons`, `UpdateMessage` | Slack API |
| Server `internal/server/server.go`, `cmd/server/main.go` | the mux | `NewServer`, `Start`, `handleEvent`, `handleSlackCallback` | manager |
| Dashboard `internal/web/` | none of its own | `StartDashboard`, `dashboardHandler`, `unblockHandler` | table, manager |
| Configuration `internal/config/config.go`, `config.yaml` | parameters, read once | `LoadConfig` | |
| Hubble plugin `src/hubble-pugin/` | a connection, a channel and a goroutine per instance | `Init`, `Open`, next batch, close | Hubble relay, Falco |
| Deployment files `src/config-files/` | | | |

Interaction is by calls and by shared state.  Each HTTP request runs in a
goroutine of its own (`net/http`), each notification timer in one
(`time.AfterFunc`), each scheduled unblock in one (`go m.scheduleUnblock`).  All of
them read and write the table, the firewall and the two maps; nothing locks.
Channels serve for cancelling only: whoever closes a channel tells the timer or
the unblock goroutine that waits on it to give up.  In the plugin a goroutine and
Falco meet on an unbuffered channel.

What is hard here:

- **Read, work, write back.**  Every operation reads a row, works on it in memory
  while it talks to Slack or GCP, and writes *all* columns back.  Between the two
  any other goroutine may do the same.
- **Look up, close, delete.**  Three unlocked steps, in three places; closing a
  closed channel panics.  A panic ends one request, or, in a timer or unblock
  goroutine, the process.
- **Memory against disk.**  Rows, rules and messages survive a restart; timers and
  scheduled unblocks do not.  Two servers share the process, and a failure of
  either ends it.
- **Partial failure.**  Some errors end the operation, some are logged and ignored,
  some are dropped and the nil record is used; answers of calls that were carried
  out get lost.
- **Time.**  A button pressed while the timer fires, a second block during the
  first, a counter window that ends.

What makes each component correct:

- manager: no block before the count is reached; no record that mixes two; every
  rule has somebody who removes it, and is removed; a notification leads to an
  action; one notification per cycle; a block lasts as long as its row says;
- table: one coherent row per address, whatever is written; it says an action was
  taken only where one was;
- firewall: a rule exactly for the blocked addresses, where nothing overlaps;
- server: an engine that serves has the routes of its configuration; what a
  callback is told is done is done, where its button names an actioner;
- notifier: a message loses its buttons only when something was done;
- dashboard: the page offers an unblock exactly for the addresses with a rule;
- plugin: flows reach Falco in order, each once and none lost while the instance
  lives; it connects where it was told to.

## 2. The modules

| Module | Models |
|---|---|
| `Config` | parameters with their units, registered actioners, kinds of failure |
| `BlockRecord` | a row, and every change the manager makes to one in memory |
| `SQLiteDB` | the table: each SQL statement one atomic step |
| `GCPFirewall` | the rules and the two calls, lost answers included |
| `Manager` | the scenario manager and the handlers that call it; `Init`, `Next`, `Spec` |
| `ManagerProperties` | fairness, type invariant, safety, action and liveness properties |
| `BlockPolicy` | abstract: what rules may be put up and taken down for |
| `BlockCycle` | abstract: the cycle of blocks of an address, with its liveness |
| `Refinement` | the manager mapped to each of the two |
| `Refusals` | the manager with a history of the rules failed calls left behind |
| `Dashboard` | the page, as a function of the table and the clock |
| `Startup` | configuration, routes and listeners; how the process ends itself |
| `SlackNotifier` | messages in Slack and the two calls |
| `Storage` | the bucket and the two actioners that write to it |
| `Engine` | all of the engine: `Manager` composed with the last three |
| `EngineProperties` | what the engine promises to those around it |
| `HubblePlugin` | the Falco plugin, its goroutines, Falco and the plugin SDK |
| `HubbleProperties` | what it promises to Falco |
| `MCManager`, `MCRefusals`, `MCEngine` | constants for TLC, symmetry of addresses |
| `ManagerProofs` | types and records: `TypeOK`, `RecordsCoherent` |
| `CountProofs` | `NoPrematureBlock` |
| `ChannelProofs` | `ClosedChannelsLeaveMaps` |
| `RemoverProofs` | `EveryRuleHasRemover`, `OnlyFailuresLeaveRules` |
| `PolicyProofs` | the refinement of `BlockPolicy` |
| `SerialProofs` | `RuleMatchesRecord`, `NotUnblockedEarly`, `PageMatchesFirewall`, `ScenarioOncePerCycle`, the steps of `BlockCycle` |
| `EngineProofs` | `Engine` implements `Manager`; `EngineTypeOK`, `RoutesComplete`, `TakenHasEffect`, `ToldIsDone`, `ButtonsStayUntilActed` |
| `HubbleProofs` | the plugin's `TypeOK`, `FlowsInOrder`, `ConnectsAsConfigured` |

`Manager` composes `SQLiteDB` (which extends `BlockRecord`, which extends `Config`)
and `GCPFirewall`, whose operators are conjuncts of its actions.  `Engine` composes
`Manager` with `Startup`, `SlackNotifier` and `Storage`: each of its steps is a step
of the manager together with what it does to the others, or a step of the start
alone.  `Refusals` conjoins a history variable to `Manager`.

Definitions called `Mutant_X` stand before `X` and are wrong forms of it: each
property is known to fail when one of them takes `X`'s place.

### How state and actions correspond to the code

`go[g]` is the local state of goroutine `g`: the label of its next step, the address
it works on, the record of its outer method (`rec`) and of `ExecuteAction` (`arec`;
`HandleEvent` and the timer hold one while `ExecuteAction` reads another), the
channel it has looked up, when it is due, and the action.  `cancel`,
`unblockCancel`, `known`/`blocks` and `rules` are the maps, the table and the
firewall; a channel is named after the goroutine that waits on it.  `posted`,
`handled`, `asked` and `crashed` are history: what was sent to Slack, counted,
pressed, and whether the process ever stopped.

A step is one access to something shared, with the local computation up to the next
one.  So `HandleEvent` is select – (insert) – count – notify – arm – save, and every
other goroutine may go between.  `ExecuteAction` is a chain of its own that events,
timers and pressed buttons enter, and leave towards their own caller (`Returns`).

| Code | Actions |
|---|---|
| `handleEvent`, `HandleEvent`, `executeScenario` | `EventArrives`, `EventSelects`, `EventInserts`, `EventNotifies`, `EventArms`, `EventSaves` |
| `ExecuteAction` | `ActionSelects`, `ActionInserts`, `ActionExecutes`, `ActionLooksUp`, `ActionCloses`, `ActionDeletes`, `ActionSpawns`, `ActionSaves` |
| function of `time.AfterFunc` | `TimerFires`, `TimerSelects`, (ExecuteAction), `TimerUpdates`, `TimerDeletes` |
| `scheduleUnblock` | `UnblockerWakes`, `UnblockerUnblocks`, `UnblockerSaves`, `UnblockerDeletes` |
| `handleSlackCallback` | `PressArrives`, (ExecuteAction), `Tells` |
| `unblockHandler`, `ManualUnblock` | `ManualArrives`, `ManualSelects`, `ManualInserts`, three steps for each map, `ManualUnblocks`, `ManualSaves` |
| `dashboardHandler`, `GetAllRecords`, `dashboard.html` | `RowSets`, `Status`, `Page`, `Offers` (operators: asking for the page changes nothing) |
| `main`, `LoadConfig`, `NewServer`, `Start`, `StartDashboard` | `LoadsConfig`, `OpensDatabase`, `RegistersAlias`, `RegistersCallback`, `Listens`, `DashboardListens`; every `log.Fatal` and panic of them: `EndsItself` |
| `SendMessageWithButtons`, `UpdateMessage` | `Sends`, `SendFails`, `Updates`, in `Notifies` and `Rewrites` |
| `Execute` of the storage and SigmaHQ actioners | `Object`, `Outcomes`, `Writes`, in `Executes` |
| clock, operating system, Go runtime | `Tick`, `Restart`, `MapRace`, `Exits` |
| plugin `Init`, `Open`, its goroutine | `InitPlugin`; `DialFails`, `GetFlowsFails`, `OpenStarts`, `OpenEnds`; `ReaderReceives`, `ReaderFails`, `ReaderReturns` (the return and its deferred close of the channel) |
| plugin SDK and Falco: next batch, close | `TakesFlow`, `TakesError`, `Close` |

In `Engine`, `stage`, `routes`, `pending`, `dashboard` and `file` are how far the
start has got; `message` is what Slack shows, `ts` the timestamps the calls returned,
`notice` the one a timer's closure holds, `objects` the bucket; `answers` and
`effects` are history.  In `HubblePlugin`, `seen` is Hubble, and `position`,
`holding`, `reader` and `channel` are, per instance, the stream, what the goroutine
is sending, the goroutine and the Go channel; `delivered` is what Falco got.

### The abstract specifications

`BlockPolicy` has the rules, how often an address was reported, who was asked for
and whose unblock is due; a rule goes up only for an address reported `Threshold`
times or asked for, and down only where an unblock is due.  The mapping takes
`handled` for the reports and, for what is due, the addresses with an unblock
goroutine whose time has come or with a manual unblock on its way.  The manager
implements it in every interleaving, with every failure: proved.

`BlockCycle` has, for each address, a phase (free, acted, blocked), the end of the
block, the number of blocks, who wants it unblocked, and the clock; its fairness
says that every block ends.  The mapping reads all that off the row.  The manager
implements it, liveness included, when requests and timers do not overlap: its
initial states and steps are proved, its fairness, which is implemented by the
manager's, is checked by TLC.

### What is abstracted

- **Clock.**  `now` goes up by one; `Minute` is how many units a minute has, so the
  code's factors of 60 stay visible.  A step that calls `time.Now()` twice reads
  the clock once.
- **`"all"`** runs its actioners in one step: only one of them, the firewall,
  changes anything the program reads again.
- **The record given to `scheduleUnblock`** is shared with `ExecuteAction` by
  reference.  The goroutine changes it after a timer and a GCP call;
  `UpdateBlockRecord` reads its fields at once when it is called.  The model gives
  each a copy.
- **GCP calls** return when GCP has accepted the change; the code drops the
  operation it is given.  `rules` is the set of accepted changes.  Rule names are
  made from IPv4 addresses and are one to one.
- **Messages** are the text template and the address.  Text `SentText` can arrive
  only for an address a message was sent for; `ScannedText`, which the program never
  sends (see Disagreements), is input from outside.  A message stays pressable after
  the timer has updated it: a press may be on its way.  The answer to a callback also
  asks Slack to replace the message it came from (`replace_original`); `message`
  does not follow that, which only concerns messages with the text the program never
  sends.
- **Configuration** is one scenario, `block_ip`, with registered actioners only
  (an unregistered name in `actioners` is a nil interface and a panic), and, for
  the start, the aliases, their paths and the path of the callback.
- **The row** exists when a timer reads it: the event that armed it had read it,
  and nothing deletes rows.
- **A flow** is its number.  Putting it into JSON may fail.

### Bounds

`Events`, `Presses`, `Unblocks` are the requests of a behaviour, each goroutine
running once; `Timers` and `Unblockers` are at least as many as the requests can
start in a run.  They start in a fixed order.  Behaviours end when the requests are
used up, so deadlock is not an error (`CHECK_DEADLOCK FALSE` in every `.cfg`: a
server without requests rests).  `Horizon` is the last time a request may arrive;
the clock goes on while somebody still waits for it.  In the plugin, `Opens` bounds
the instances and `MaxFlows` the flows.  These are the only bounds; the theorems
hold for every value of them, and for sets of any size.

`Serial = TRUE` restricts the *surroundings*: a request arrives, a timer or an unblock
goroutine starts, and the clock moves, only when nothing else runs.  It is how the
program behaves under light load, and what its simple correctness is stated for;
`Serial = FALSE` lets everything overlap.

## 3. What is checked

| Run | Instance | Properties | Shows |
|---|---|---|---|
| `notified` | 2 events, 1 press, 1 timer, 2 unblock goroutines, 1 address, count 2; all failures but the firewall's, restarts, map races; both texts | `TypeOK`, `RecordsCoherent`, `NoPrematureBlock`, `EveryRuleHasRemover`, `FollowsPolicy` | stale counts, a pressed button, failing calls, in all interleavings, block nothing early and leave no rule alone |
| `unblocking` | 1 event, press, manual unblock and timer, 2 unblock goroutines, `unblock_after` 0; `"all"` without the firewall | `ClosedChannelsLeaveMaps`, `EveryRuleHasRemover`, `TimerIsAnswered` | timer, button and manual unblock race for one address; no notification is lost between them |
| `refused` | notifications off, `trigger_count` 0 (which counts as 1), 2 addresses (symmetric), 1 event, press and manual unblock; firewall, storage, database failures, map races | `RecordsCoherent`, `ClosedChannelsLeaveMaps`, `OnlyFailuresLeaveRules`, `FollowsPolicy` | refused and lost firewall calls leave the rules they were made for, and no other |
| `cycles` | serial, 4 events, 2 presses, 2 manual unblocks, 2 timers, 4 unblock goroutines, times to 4, `unblock_after` 2 | `RuleMatchesRecord`, `ScenarioOncePerCycle`, `PageMatchesFirewall`, `NotUnblockedEarly`, `FollowsCycle` | several block cycles, the counter's window, lengthening blocks, the page |
| `ending` | 2 presses, 2 manual unblocks, `unblock_after` 0: an unblock goroutine may wake at any moment | `ClosedChannelsLeaveMaps`, `EveryRuleHasRemover`, `EveryRuleIsRemoved` | double closes panic, and still every rule is removed |
| `engine` | 1 event, press (of `gcp_storage` or of a value no actioner has), manual unblock and timer, 2 unblock goroutines, 4 configuration files; Slack, database and port failures, restarts, map races | `EngineTypeOK`, `RoutesComplete`, `TakenHasEffect`, `ToldIsDone`, `ButtonsStayUntilActed` | an engine that starts, fails and starts again: what table, message and answer say of an action was done |
| `answered` | 2 presses, each of `"all"`, `gcp_firewall`, `gcp_storage` or a value no actioner has, 1 manual unblock, 2 unblock goroutines, "all" without `gcp_storage`; database failures, restarts, map races | `ToldIsDone` | a press that names an actioner is answered with the truth, also when it is skipped because of the other one and that one's block is undone meanwhile |
| `hubble` | 2 instances, 3 flows, 4 configurations | `TypeOK`, `FlowsInOrder`, `ConnectsAsConfigured`, `FlowsGetThrough` | a goroutine that outlives its instance, broken streams, instances that fail or are closed |
| `button_text`, `direct_stale`, `notified_twice`, `second_block` | as small as shows it | one each | violated: see Disagreements |

Why the instances are enough for what they show: the interleaving properties need
two goroutines holding the same channel or the same count, and a third that writes
in between; each run has those for one address.  Addresses share nothing but the maps
(and their races), so a second one adds something only in `refused`, where a
failure for one must not touch the rule of the other.  `hubble` needs one instance
that follows another and a goroutine that is a flow behind.  What grows without
bound (counts, times, numbers of requests, of addresses, of flows) is the subject
of the theorems.

Where `Horizon` is 1 requests arrive at the first instant only.  An arrival reads
nothing, and whatever follows it may be delayed past any timer, so later arrivals
add no order of accesses.

The properties, by what they relate:

- `RecordsCoherent`: a blocked record was acted on and its end is its start plus
  `unblock_after` for each block so far — in the table and in every goroutine, so no
  late write can mix two blocks.
- `NoPrematureBlock`: a rule nobody pressed a button for has `trigger_count` counted
  events behind it.  Stale records lose events; they never gain any.
- `ClosedChannelsLeaveMaps`: a closed channel in a map has a goroutine on its way to
  delete the entry; so a close can panic only in a race with that goroutine.
- `EveryRuleHasRemover`: each rule has a goroutine that will remove it and that
  nobody can stop without taking over.  A hand-over chain: press → unblock
  goroutine → manual unblock, with a panic possible at every close.
  `EveryRuleIsRemoved` is its temporal form.  Both are stated for a firewall that
  answers and a process that lives.
- `OnlyFailuresLeaveRules`: what remains of it when the firewall does not answer: a
  rule without a remover is one whose own call failed.
- `FollowsPolicy`: every change of the firewall, whatever fails, is one `BlockPolicy`
  allows; in particular no rule is taken down that is neither over nor asked for.
- `TimerIsAnswered`: where a timer waits an action gets recorded, by it or by a
  press that cancels it.
- `FollowsCycle`, `RuleMatchesRecord`, `ScenarioOncePerCycle`, `NotUnblockedEarly`:
  rows go through the cycles of `BlockCycle` and every block ends; rules and rows
  agree between requests; a cycle notifies once; blocks last as long as shown.
  They are stated for requests that do not overlap, in the setting of `cycles`
  (buttons stand for single actions, notifications are on, nothing fails); the
  violations below show which overlap, failure, setting or button breaks them.
- `PageMatchesFirewall`: the page is computed from two columns, one of which is
  never reset; between requests its buttons are still those of the rules, except in
  the second in which a block ends.
- `TakenHasEffect`, `ButtonsStayUntilActed`: what the table and a message in Slack
  say is confirmed by the firewall or the bucket, over restarts, lost answers of
  Slack and database errors.  They are stated for firewall and storage calls that
  succeed.
- `ToldIsDone`: a callback that is told done for `"all"` had every actioner run for
  its address; for a single action, that actioner had run, or the address is, or was,
  blocked and the action skipped.  It has two conditions, without which the code's
  answer is false (see Disagreements): calls succeed, and the button's value names an
  actioner.
- `RoutesComplete`: the routes of a serving engine are its configuration's,
  though aliases are registered in any order and a clash ends the process at any of
  them.
- `FlowsInOrder`, `FlowsGetThrough`, `ConnectsAsConfigured`: no flow twice or out of
  order, across instances too, though the goroutine of a closed one still holds a
  flow; no flow lost and no wait for ever while the instance is kept.

### Fairness

`ManagerProperties!Fairness` is weak fairness of the clock and of the steps of every
goroutine once it has been started: Go's scheduler runs a goroutine that can run, and
timers expire.  Arrivals, restarts and failures have none: no request has to come,
and no property relies on a fault.  `HubblePlugin!Fairness` is weak fairness of the
end of `Open`, of the goroutine, and of Falco's asking for the next batch of an
instance it keeps; streams need not break, and Falco need not open or close
anything.  No strong fairness is used.

### Disagreements between code and text

Each of the first four has a run in which TLC finds the violation.

1. `button_text`.  `handleSlackCallback` scans the message for
   `IP %s triggered scenario block_ip` (server.go:192), `executeScenario` sends
   `Для ІР %s активовано сценарій %s` (scenario.go:102): no button of a message of
   this program works, every notification ends with the timer's "all".
2. `direct_stale`.  With notifications off, `HandleEvent` writes its own record
   over the one `ExecuteAction` saved (scenario.go:85): a rule, and a row that says
   the address is not blocked, with count and `action_taken` lost.
3. `notified_twice`.  Two events read one count and both activate the scenario
   (scenario.go:80), against the comment in line 79.
4. `second_block`.  "all" on a blocked address starts a second block and leaves the
   first goroutine waiting (scenario.go:182), which ends the second block early.

The models show these too; no run is spent on them:

- The struct tag of an update's text is misspelt (slack.go:129), so the text goes out
  under a key Slack does not know: a message the timer updates loses its buttons at
  most and never shows the new text.
- No code reads `unblock_after` back after a restart (scenario.go:184): the address
  stays blocked for ever, where config.go:36 speaks of a time after which it is not.
- The callback is told that the action is done whatever `ExecuteAction` did
  (server.go:214): also when no actioner has the button's value (scenario.go:164) or
  the actioner's call failed (scenario.go:160).
- config.go:35, 36 and 50 give `trigger_window`, `unblock_after` and the timeout in
  seconds; the code multiplies by 60 and by `time.Minute` (scenario.go:58, 114, 171).
- "all" marks an address blocked though the firewall refused (scenario.go:154), and
  calls an actioner that is not registered, which panics.
- `ManualUnblock` of a row whose rule is gone fails every time, and the row stays
  (scenario.go:238).
- Two first events of an address: the second INSERT breaks UNIQUE and its event is
  not counted (sqlite.go:52).
- `gcp_storage` or `sigmahq` for an address whose `trigger_count` is zero sets
  `action_taken`; line 58 then never clears it and line 65 skips all its events.
- The dashboard shows the rows read before a query broke off as if they were all:
  `rows.Err` is not asked for (sqlite.go:95).
- The unique identifier and name of a Sigma rule are made of the address and a time
  in seconds (sigmahq.go:54, 101).
- The plugin's goroutine and connection stay after `Close`, after a failed
  `NewPushInstance`, and the connection after a failed `GetFlows` (hubble.go:130-160);
  `SetInfo` stores everything but the description (hubble.go:43-49).

## 4. What is proved

All theorems hold for every number of requests, timers, addresses, instances and
flows, and, where they name no hypothesis of their own (see `SerialProofs` and
`EngineProofs` below), for every value of the parameters and every set of failures.
They assume
`ConfigAssumption`, `ManagerAssumption`, `EngineAssumption` and `HubbleAssumption`:
the parameters are numbers of the right kind, the kinds of goroutines are disjoint,
`None` is none of them, messages are named after events.  TLC evaluates each of them
in the runs.  Hardly any property of the list is inductive by itself; the proofs
have stronger invariants.

**`TypeInvariant`, `RecordsStayCoherent`** (`ManagerProofs`).  Closing a channel needs
the looked-up channel to be of the kind of its map; `MarkBlocked` makes a coherent
record only of one whose `action_taken` is set, which the step before did.  `StateOK`
adds both facts to the frame of a goroutine at the labels concerned.  The argument
is then that every record written back was read, or made, coherent by the goroutine
that writes it, so that overwriting, however late, replaces one coherent row by
another.

**`NothingBlockedEarly`** (`CountProofs`).  `NoPrematureBlock` speaks of rules; the
steps that insert them rely on a decision made long before, on a record that may be
stale.  `CountOK` says that no record counts more events than were handled for its
address, and that a goroutine between the decision and its end is justified: by the
events handled, or by a pressed button.  Both justifications only grow, so they
survive everything the others do; only `EventCounts` creates the first, only
`PressArrives` the second, and the timer and the unblock goroutine inherit.

**`ClosedChannelsAreDeleted`** (`ChannelProofs`).  The step that matters is a close: of
all entries that hold the channel the goroutine deletes that of its own address.
`ChannelsOK` says that there is a function from channels to addresses with which
maps, goroutines that have looked a channel up, and those that wait on one all
agree (`Bound`), and that a channel nobody has made yet is neither closed nor held
(`InUse`), so that making one cannot put a closed channel into a map.

**`RulesHaveRemovers`** (`RemoverProofs`).  `EveryRuleHasRemover` is inductive on top of
`ChannelsOK`.  The goroutine that inserts a rule is its first remover.  Two steps hand
the task to another goroutine: the start of the scheduled unblock, and the close of
a channel, whose closer works on the same address by `Bound`.  A goroutine that looks
a closed channel up, and is going to panic, is none by itself; but then, by
`ClosedChannelsLeaveMaps`, another one still has to delete the entry, and is.

**`RefusalsLeaveTheirRules`** (`RemoverProofs`).  The same argument with a second
excuse: where the firewall refuses, a rule may also be one of `leftOver`, which the
failing call of its own address put there.  No failure makes a goroutine give up the
rule of another address, and no step takes the excuse away.

**`ImplementsPolicy`** (`PolicyProofs`).  Initial states map to initial states and every
step to a step of `BlockPolicy` or to a stutter.  Inserting a rule needs `CountOK`,
removing one needs `WakeOK`: an unblock goroutine gets to its call only when its time
has come.  All other steps at most change what is due.

**`RulesMatchRecords`, `RulesStayUntilTime`, `PageShowsFirewall`, `RowsFollowCycle`**
(`SerialProofs`).  What the manager promises for requests that do not overlap, for
any number of them.  The hypothesis `Setting` has five parts.  Four are there because
the property fails without them, in a run or at once:

| Part of `Setting` | Without it |
|---|---|
| `Serial` | two goroutines act on one row (`notified_twice`) |
| `NotifierEnabled` | `HandleEvent` overwrites what `ExecuteAction` saved (`direct_stale`) |
| no understood button says "all" (`"all" \notin Buttons \/ ScannedText \notin Texts`) | a second block within the first (`second_block`) |
| `"gcp_firewall" \in Actioners` | "all" marks a row blocked and makes no rule |

The fifth excludes restarts and failures of the database and the firewall: a restart or a
failing write can come between the firewall and the row, and "all" and the scheduled
unblock write their records though the firewall has refused.  Slack and storage may
fail.  The run `cycles` is one such setting.  The shipped `config.yaml` with the
messages this program sends (`Texts = {SentText}`, every button) is another: its
notifications end with the timer's "all".

None of the properties is inductive: they speak of the moments between requests, and
a request is many steps.  `SerialOK` says of every state in between how far the
running goroutine has got.  An address is in order when its rule, its row and the
goroutine that waits to unblock it say the same (`Agrees`).  A goroutine that has
changed the firewall and not yet the row is behind, and then rule and waiting
goroutine agree with the record it is going to write; `RowStep` says at each label
what that record is to the row.  The hard part is the manual unblock: it closes the
channel of the scheduled one and goes on without waiting for it.  The two overlap
even in a serial environment, and if the time of the block has come as well the
`select` may take the other branch, unblock a second time and write its old record.
`LeftOK` says that this record, unblocked, is what the row says by then, and that
nothing of the address waits.  `RowsFollowCycle` reads the steps of `BlockCycle` off
`SerialOK`: of the steps that write a row, those that change what it says of the
address are `Forget`, `Act`, `Block` or `Unblock`.

**`OneScenarioPerCycle`** (`SerialProofs`).  It adds `Timeout <= TriggerWindow` (in
`config.yaml` 1 and 60): a timer that waits longer than the window is one that a
second activation can overtake.  `TimersOK` says that an address with a timer that will act has
`cancel` pointing to it, is not blocked, counts at least `trigger_count` and has an
event within the window of the timer's end (`Fits`).  So the next event either does not
reset the count, or comes after the timer.

**`EngineRunsManager`, `EngineFollowsPolicy`** (`EngineProofs`).  Each step of `Engine`
is a step of `Manager`, or leaves it alone, so what is proved of the manager holds in
the engine.  The process can end of itself there, so these two are about instances in
which it may restart (`Restarts`).

**`RoutesAreComplete`, `EngineTypes`** (`EngineProofs`).  `RoutesOK` says what the mux
holds at each stage of the start; the types of the other variables follow from it and
from the manager's invariant, step by step.

**`TakenHasEffects`, `ToldWhatIsDone`, `ButtonsStay`** (`EngineProofs`).  All three hold
in every interleaving, over restarts and failures of Slack and the database.
`EffectsOK` says that whatever the records in the table and in all goroutines claim
was carried out, as are the actions of goroutines behind their calls, and that the
answers given are; what was carried out stays carried out, so stale records do no
harm.  `NoticeOK` ties a timer's message to the timer's own address, and says that
nobody posts it again; `ts` may be missing, never another message's.  Their
hypotheses are conditions on the configuration: with no actioner at all (`Actioners =
{}`) "all" marks a row taken and does nothing, so `TakenHasEffects` and `ButtonsStay`
ask for one.  Where the actioners do not include the firewall, "all" marks a row
blocked without a rule, and a button pressed for the firewall is skipped and reported
as done; so `ToldWhatIsDone` asks for the firewall.  Both go back to scenario.go:154.
`ToldWhatIsDone` says nothing of an answer to a value no actioner has: there nothing
was done.

**`FlowsStayInOrder`, `ConnectsWhereTold`, `HubbleTypes`** (`HubbleProofs`).  `OrderOK`
relates what an instance was given last to the position of its stream and to what
its goroutine holds, and says that one instance at most is alive; a new stream
starts at or after everything that was delivered.  `AddressOK` relates the address to
what `Init` was given.

Each proof has one lemma per action or group of similar actions, above lemmas for
the control operators (`Goto`, `End`, `Stops`, `Panics`, `Closes`, `Returns`) or for
the kinds of steps; a case split over `Next` combines them.

Only model-checked, because liveness, fairness and ENABLED are out of the prover's
reach: `TimerIsAnswered`, `EveryRuleIsRemoved`, `FlowsGetThrough` and the fairness
of `FollowsCycle`.  Every invariant and every action property of the passing runs is
proved.  The disagreements of section 3 are runs of TLC.

## 5. What is not modelled

- The layout of payloads: buttons, attachments, the fields of a Sigma rule, the
  request and response bodies but for what decides a step.
- What becomes of an operation GCP has accepted: the code does not look at it.
- In the plugin: `SetInfo`, `Info`, `InitSchema`, `Fields` and `Extract`, which access
  constants or one event and change nothing anybody reads again.  That is why its
  component is marked partly modelled.
- `WasActionTaken`, which nothing calls.
- Configurations with an actioner that is not registered: the first automatic
  action panics, and nothing can be stated beyond that.
- Deployment files: no program.

## 6. Plan

1. *(done)* `Config`, `BlockRecord`, `SQLiteDB`, `GCPFirewall`, `Manager` with its
   properties and runs; types, records and counts proved.
2. *(done)* `BlockPolicy`, `BlockCycle` and `Refinement`; `Refusals`; `Dashboard`;
   `Startup`, `SlackNotifier`, `Storage` and their composition `Engine`;
   `HubblePlugin`.
3. *(done)* Proofs of the channel properties, of the refinement of `BlockPolicy`, of
   the composition, of the routes and of the plugin's order.
4. *(done)* Proofs of the properties of requests that do not overlap, of the steps of
   `BlockCycle`, of `OnlyFailuresLeaveRules`, and of what the engine tells its
   surroundings.
5. Open: how much of `Setting` each serial property needs on its own, in particular
   with a firewall that refuses; the safety facts the liveness properties lean on
   (for `EveryRuleIsRemoved`, that a step of a remover leaves a remover closer to the
   call); the facts proved of the manager that `EngineProofs` does not yet repeat for
   the engine.
