------------------------------- MODULE Engine -------------------------------
(***************************************************************************)
(* module-engine as a whole: the scenario manager of module Manager, the   *)
(* start of the process, the messages in Slack and the objects in the      *)
(* bucket.  Every step of the engine is a step of the manager together     *)
(* with what it does to the others, or a step of the start alone.          *)
(***************************************************************************)
EXTENDS Refinement, Startup, SlackNotifier, Storage

VARIABLES
  notice,    \* the ts a timer's function has in its closure
  answers,   \* history: what callbacks were told is done
  effects    \* history: addresses that have had a rule

ASSUME EngineAssumption == Messages = Events

sideVars == <<slackVars, notice, objects, answers, effects>>
engineVars == <<vars, startupVars, sideVars>>

EngineInit ==
  /\ Init
  /\ StartupInit
  /\ SlackInit
  /\ StorageInit
  /\ notice = [t \in Timers |-> NoTs]
  /\ answers = {}
  /\ effects = {}

-----------------------------------------------------------------------------
(* Steps of the manager that change something else too *)

Notifies(e) ==
  /\ EventNotifies(e)
  /\ \/ Sends(e, go[e].ip) /\ go[e].ip \in posted'
     \/ /\ SendFails(e, go[e].ip)
        /\ IF message' = message THEN posted' = posted
                                 ELSE go[e].ip \in posted'
  /\ UNCHANGED <<startupVars, notice, objects, answers, effects>>

(* The function of the timer keeps ts.                                     *)
Arms(e) ==
  /\ EventArms(e)
  /\ notice' = [t \in Timers |-> IF go'[t] # go[t] THEN ts[e] ELSE notice[t]]
  /\ UNCHANGED <<startupVars, slackVars, objects, answers, effects>>

Rewrites(t) ==
  /\ TimerUpdates(t)
  /\ Updates(notice[t])
  /\ UNCHANGED <<startupVars, ts, notice, objects, answers, effects>>

Mutant_Answer(g) == [ip |-> go'[g].ip, action |-> go[g].action]

Answer(g) == [ip |-> go[g].ip, action |-> go[g].action]

Mutant_Tells(g) ==
  answers' = answers \cup IF g \in Presses THEN {Answer(g)} ELSE {}

(* The callback is answered when ExecuteAction is back, whatever it did.   *)
Tells(g) ==
  answers' = answers \cup
    IF g \in Presses /\ go'[g].pc = "done" THEN {Answer(g)} ELSE {}

(* The actioners an action runs, and the storing ones among them.          *)
RunBy(action) == IF action = "all" THEN Actioners ELSE {action}
StoresOf(action) == Stores \cap RunBy(action)

(* A single store that fails is the action that fails; "all" ignores it.   *)
Executes(g) ==
  /\ ActionExecutes(g)
  /\ LET failed == go'[g].pc \notin {"action.lookup", "action.save"}
     IN \E done \in Outcomes(StoresOf(go[g].action),
                             failed \/ go[g].action = "all") :
          Writes(done, go[g].ip, now)
  /\ effects' = effects \cup rules'
  /\ Tells(g)
  /\ UNCHANGED <<startupVars, slackVars, notice>>

(* The rest of ExecuteAction, and of a goroutine.  A panic of a timer ends *)
(* the process.                                                            *)
Acts(g) ==
  /\ \/ ActionSelects(g) \/ ActionInserts(g) \/ ActionLooksUp(g)
     \/ ActionCloses(g) \/ ActionDeletes(g) \/ ActionSpawns(g) \/ ActionSaves(g)
     \/ g \in Timers /\ TimerSelects(g)
  /\ IF g \in Timers /\ go'[g].pc = "failed" THEN StartsOver
                                             ELSE UNCHANGED startupVars
  /\ Tells(g)
  /\ UNCHANGED <<slackVars, notice, objects, effects>>

-----------------------------------------------------------------------------
(* Requests, and the process *)

Serves(handler) ==
  stage = "serving" /\ \E path \in DOMAIN routes : routes[path] = handler

Arrival ==
  \/ Serves("handleEvent") /\ \E e \in Events : EventArrives(e)
  \/ Serves("handleSlackCallback") /\ \E p \in Presses : PressArrives(p)
  \/ dashboard = "serving" /\ \E m \in Unblocks : ManualArrives(m)

OwnSteps ==
  \/ Tick
  \/ \E e \in Events : EventSelects(e) \/ EventInserts(e) \/ EventSaves(e)
  \/ \E t \in Timers : TimerFires(t) \/ TimerDeletes(t)
  \/ \E u \in Unblockers : UnblockerSteps(u)
  \/ \E m \in Unblocks : ManualSteps(m)

Exits ==
  /\ \/ EndsItself /\ Stops /\ UNCHANGED outside
     \/ Restart \/ MapRace
  /\ StartsOver
  /\ UNCHANGED sideVars

EngineNext ==
  \/ \E e \in Events : Notifies(e) \/ Arms(e)
  \/ \E t \in Timers : Rewrites(t)
  \/ \E g \in Events \cup Presses \cup Timers : Executes(g) \/ Acts(g)
  \/ (Arrival \/ OwnSteps) /\ UNCHANGED <<startupVars, sideVars>>
  \/ StartupSteps /\ UNCHANGED <<vars, sideVars>>
  \/ Exits

EngineSpec == EngineInit /\ [][EngineNext]_engineVars

=============================================================================
