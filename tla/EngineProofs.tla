---------------------------- MODULE EngineProofs ----------------------------
(***************************************************************************)
(* Proof that the engine runs the scenario manager: every step of module   *)
(* Engine is a step of module Manager, or none, so all that is proved of   *)
(* the manager holds in the engine.  And of what the engine promises those *)
(* around it: EngineTypeOK, RoutesComplete, TakenHasEffect, ToldIsDone and *)
(* ButtonsStayUntilActed.                                                  *)
(*                                                                         *)
(* A record is backed when what it claims was carried out.  Whatever stale *)
(* record a goroutine writes back, it was backed when it was read, and     *)
(* what was carried out stays so (EffectsOK).  A timer knows no message    *)
(* but one of its own address, and changes it only behind its action       *)
(* (NoticeOK).                                                             *)
(***************************************************************************)
EXTENDS EngineProperties, PolicyProofs, RemoverProofs

-----------------------------------------------------------------------------
(* The manager in the engine *)

(* A process that ends itself is one that may have to be started again.    *)
Restarts == "restart" \in Faults

(* Every step of the engine is one of the manager, or leaves it alone, or  *)
(* the process ends itself.                                                *)
LEMMA EngineNextIsNext ==
  [EngineNext]_engineVars => [Next]_vars \/ (Stops /\ UNCHANGED outside)
<1>. SUFFICES ASSUME [EngineNext]_engineVars
              PROVE  Next \/ UNCHANGED vars \/ (Stops /\ UNCHANGED outside)
  OBVIOUS
<1>1. ASSUME NEW e \in Events, Notifies(e) \/ Arms(e) PROVE Next
  BY <1>1 DEF Notifies, Arms, Next, EventSteps
<1>2. ASSUME NEW t \in Timers, Rewrites(t) PROVE Next
  BY <1>2 DEF Rewrites, Next, TimerSteps
<1>3. ASSUME NEW g \in Events \cup Presses \cup Timers, Executes(g) PROVE Next
  BY <1>3 DEF Executes, Next, ActionSteps
<1>4. ASSUME NEW g \in Events \cup Presses \cup Timers, Acts(g) PROVE Next
  <2>1. CASE g \in Timers /\ TimerSelects(g)
    BY <2>1 DEF Next, TimerSteps
  <2>2. CASE ActionSteps(g)
    BY <2>2 DEF Next
  <2>. QED BY <1>4, <2>1, <2>2 DEF Acts, ActionSteps
<1>5. CASE Arrival
  BY <1>5 DEF Arrival, Next
<1>6. CASE OwnSteps
  BY <1>6 DEF OwnSteps, Next, EventSteps, TimerSteps
<1>7. CASE StartupSteps /\ UNCHANGED <<vars, sideVars>>
  BY <1>7
<1>8. CASE Exits
  BY <1>8 DEF Exits, Restart, Next
<1>9. CASE UNCHANGED engineVars
  BY <1>9 DEF engineVars
<1>. QED BY <1>1, <1>2, <1>3, <1>4, <1>5, <1>6, <1>7, <1>8, <1>9 DEF EngineNext

(* Where the process may be restarted, ending itself is a restart.         *)
LEMMA EngineSteps == Restarts /\ [EngineNext]_engineVars => [Next]_vars
<1>1. Restarts /\ Stops /\ UNCHANGED outside => Next
  BY DEF Restarts, Restart, Next
<1>. QED BY <1>1, EngineNextIsNext

(* The engine implements the manager (server.go, scenario.go).             *)
THEOREM EngineRunsManager == Restarts /\ EngineSpec => Spec
<1>. SUFFICES ASSUME Restarts PROVE EngineSpec => Spec
  OBVIOUS
<1>1. EngineInit => Init
  BY DEF EngineInit
<1>2. [EngineNext]_engineVars => [Next]_vars
  BY EngineSteps
<1>. QED BY <1>1, <1>2, PTL DEF EngineSpec, Spec

(* So the engine, too, changes the firewall only as BlockPolicy allows and *)
(* leaves no rule without a goroutine that is going to remove it.          *)
THEOREM EngineFollowsPolicy ==
  Restarts /\ EngineSpec => FollowsPolicy /\ []EveryRuleHasRemover
BY EngineRunsManager, ImplementsPolicy, RulesHaveRemovers, PTL

-----------------------------------------------------------------------------
(* The routes *)

(* The paths of the aliases that have a handler.                           *)
Served(f, p) == {f.aliases[a] : a \in DOMAIN f.aliases \ p}

(* Every alias of f has its handler, the callback has one, and no other.   *)
AllRouted(f, r) ==
  LET callback == CallbackOf(f)
      paths    == {f.aliases[a] : a \in DOMAIN f.aliases}
  IN /\ callback \notin paths
     /\ r = [p \in paths \cup {callback} |->
              IF p = callback THEN "handleSlackCallback"
                              ELSE "handleEvent"]

(* A function says of its arguments what its values are.                   *)
IsMap(r) == r = [p \in DOMAIN r |-> r[p]]

(* The mux while the server starts: nothing, the aliases so far, and all   *)
(* of it, each with its handler.                                           *)
RoutesOK ==
  /\ IsMap(routes)
  /\ stage \in Stages
  /\ stage # "routes" => pending = {}
  /\ stage \in {"config", "database"} => DOMAIN routes = {}
  /\ stage = "routes" =>
       /\ pending \subseteq DOMAIN file.aliases
       /\ DOMAIN routes = Served(file, pending)
       /\ \A p \in DOMAIN routes : routes[p] = "handleEvent"
  /\ stage \in {"listen", "serving"} => AllRouted(file, routes)

(* The start of the process keeps the routes in order.                     *)
LEMMA StartupRoutes == RoutesOK /\ StartupSteps => RoutesOK'
<1>. SUFFICES ASSUME RoutesOK, StartupSteps PROVE RoutesOK'
  OBVIOUS
<1>1. CASE LoadsConfig
  BY <1>1 DEF LoadsConfig, RoutesOK, Stages
<1>2. CASE OpensDatabase
  <2>1. Served(file', pending') = {}
    BY <1>2 DEF OpensDatabase, Served
  <2>. QED BY <1>2, <2>1 DEF OpensDatabase, RoutesOK, Stages
<1>3. ASSUME NEW a \in pending, RegistersAlias(a) PROVE RoutesOK'
  <2>1. stage = "routes" /\ stage' = stage /\ file' = file /\ pending' = pending \ {a}
    BY <1>3 DEF RegistersAlias, RoutesOK
  <2>2. /\ routes' = [p \in DOMAIN routes \cup {file.aliases[a]} |->
                        IF p = file.aliases[a] THEN "handleEvent" ELSE routes[p]]
    BY <1>3 DEF RegistersAlias, Adds
  <2>3. Served(file', pending') = Served(file, pending) \cup {file.aliases[a]}
    BY <2>1 DEF Served, RoutesOK
  <2>4. IsMap(routes')
    BY <2>2 DEF IsMap
  <2>. QED BY <2>1, <2>2, <2>3, <2>4 DEF RoutesOK
<1>4. CASE RegistersCallback
  <2>. DEFINE callback == CallbackOf(file)
              paths == {file.aliases[a] : a \in DOMAIN file.aliases}
  <2>1. /\ stage = "routes" /\ stage' = "listen" /\ file' = file
        /\ pending = {} /\ pending' = {}
    BY <1>4 DEF RegistersCallback
  <2>2. /\ callback \notin DOMAIN routes
        /\ routes' = [p \in DOMAIN routes \cup {callback} |->
                        IF p = callback THEN "handleSlackCallback" ELSE routes[p]]
    BY <1>4 DEF RegistersCallback, Adds, Clashes
  <2>3. DOMAIN routes = paths /\ \A p \in DOMAIN routes : routes[p] = "handleEvent"
    BY <2>1 DEF RoutesOK, Served
  <2>. HIDE DEF callback, paths
  <2>4. routes' = [p \in paths \cup {callback} |->
                     IF p = callback THEN "handleSlackCallback" ELSE "handleEvent"]
    BY <2>2, <2>3
  <2>5. AllRouted(file, routes')
    BY <2>2, <2>3, <2>4 DEF AllRouted, callback, paths
  <2>6. IsMap(routes')
    BY <2>4 DEF IsMap
  <2>. QED BY <2>1, <2>5, <2>6 DEF RoutesOK, Stages
<1>5. CASE Listens
  BY <1>5 DEF Listens, RoutesOK, Stages
<1>6. CASE DashboardListens
  BY <1>6 DEF DashboardListens, RoutesOK, Stages
<1>. QED BY <1>1, <1>2, <1>3, <1>4, <1>5, <1>6 DEF StartupSteps

(* So does every other step of the engine.                                 *)
LEMMA NextRoutes == RoutesOK /\ [EngineNext]_engineVars => RoutesOK'
<1>. SUFFICES ASSUME RoutesOK, [EngineNext]_engineVars PROVE RoutesOK'
  OBVIOUS
<1>1. CASE UNCHANGED startupVars
  BY <1>1 DEF startupVars, RoutesOK
<1>2. CASE StartsOver
  BY <1>2 DEF StartsOver, RoutesOK, Stages, IsMap
<1>3. CASE StartupSteps
  BY <1>3, StartupRoutes
<1>. QED BY <1>1, <1>2, <1>3
         DEF EngineNext, engineVars, Notifies, Arms, Rewrites, Executes, Acts, Exits

(* An engine that serves has a handler for every alias and one for the     *)
(* callback, and no other (server.go, 63-87).                              *)
THEOREM RoutesAreComplete == EngineSpec => []RoutesComplete
<1>1. EngineInit => RoutesOK
  BY DEF EngineInit, StartupInit, RoutesOK, Stages, IsMap
<1>2. RoutesOK => RoutesComplete
  BY DEF RoutesOK, RoutesComplete, AllRouted
<1>. QED BY <1>1, <1>2, NextRoutes, PTL DEF EngineSpec

-----------------------------------------------------------------------------
(* The types *)

(* The manager's part of the state keeps its types, however the engine     *)
(* stops.                                                                  *)
LEMMA EngineState == StateOK /\ [EngineNext]_engineVars => StateOK'
<1>. SUFFICES ASSUME StateOK, [EngineNext]_engineVars PROVE StateOK'
  OBVIOUS
<1>1. CASE Stops /\ UNCHANGED outside
  BY <1>1, StopsStep, SameOutside DEF StateOK
<1>2. CASE [Next]_vars
  BY <1>2, NextOK
<1>. QED BY <1>1, <1>2, EngineNextIsNext

(* The steps of ExecuteAction, and the one of the timer before them.       *)
InAction(g) ==
  \/ ActionSteps(g)
  \/ g \in Timers /\ TimerSelects(g)

(* A step that executes actioners is one of them.                           *)
LEMMA ExecutesInAction ==
  ASSUME NEW g \in Callers, Executes(g) PROVE InAction(g) /\ Tells(g)
<1>1. ActionExecutes(g) /\ Tells(g)
  BY DEF Executes
<1>2. ActionSteps(g)
  BY <1>1, Zenon DEF ActionSteps
<1>. QED BY <1>1, <1>2, Zenon DEF InAction

(* The other steps of ExecuteAction are too.                               *)
LEMMA ActsInAction ==
  ASSUME NEW g \in Callers, Acts(g) PROVE InAction(g) /\ Tells(g)
<1>1. Tells(g)
  BY DEF Acts
<1>2. CASE g \in Timers /\ TimerSelects(g)
  BY <1>1, <1>2, Zenon DEF InAction
<1>3. CASE ActionSteps(g)
  BY <1>1, <1>3, Zenon DEF InAction
<1>. QED BY <1>2, <1>3 DEF Acts, ActionSteps

(* A goroutine that runs ExecuteAction works on an address, for an action. *)
LEMMA ActsOnAddress ==
  ASSUME StateOK, NEW g \in Callers, InAction(g)
  PROVE  /\ g \in Goroutines /\ go \in [Goroutines -> Frames]
         /\ go[g].ip \in IPs /\ go[g].action \in ActionValues
<1>1. g \in Goroutines /\ go \in [Goroutines -> Frames]
  BY DEF StateOK, GoOK, Goroutines, Requests, Callers
<1>2. go[g].pc \notin Ended \cup {"new"}
  BY DEF InAction, ActionSteps, ActionSelects, ActionInserts, ActionExecutes,
         ActionLooksUp, ActionCloses, ActionDeletes, ActionSpawns, ActionSaves, TimerSelects, At, Ended
<1>. QED BY <1>1, <1>2, Running DEF StateOK, Frames

(* What the callback is told has the type of an answer.                    *)
LEMMA TellsTyped ==
  ASSUME StateOK, EngineTypeOK, NEW g \in Callers, InAction(g), Tells(g)
  PROVE  answers' \subseteq [ip : IPs, action : ActionValues]
BY ActsOnAddress DEF Tells, Answer, EngineTypeOK

(* The start of the process keeps the types.                               *)
LEMMA StartupTyped ==
  ASSUME RoutesOK, EngineTypeOK, StartupSteps, UNCHANGED sideVars PROVE EngineTypeOK'
<1>. DEFINE Typed == /\ stage \in Stages
                     /\ file \in ConfigFiles \cup {NoFile}
                     /\ pending \subseteq DOMAIN file.aliases
                     /\ \A path \in DOMAIN routes :
                          routes[path] \in {"handleEvent", "handleSlackCallback"}
                     /\ dashboard \in {"off", "starting", "serving"}
<1>1. CASE LoadsConfig \/ OpensDatabase \/ Listens \/ DashboardListens
  <2>1. LoadsConfig => pending = {}
    BY DEF RoutesOK, LoadsConfig
  <2>. QED BY <1>1, <2>1 DEF LoadsConfig, OpensDatabase, Listens, DashboardListens,
              EngineTypeOK, Stages, sideVars, slackVars
<1>2. ASSUME NEW a \in pending, RegistersAlias(a) PROVE EngineTypeOK'
  <2>1. Typed'
    BY <1>2 DEF RegistersAlias, Adds, EngineTypeOK
  <2>. QED BY <2>1 DEF EngineTypeOK, sideVars, slackVars
<1>3. CASE RegistersCallback
  <2>1. Typed'
    BY <1>3 DEF RegistersCallback, Adds, EngineTypeOK, Stages
  <2>. QED BY <2>1 DEF EngineTypeOK, sideVars, slackVars
<1>. QED BY <1>1, <1>2, <1>3 DEF StartupSteps

(* A process that starts has no configuration and no routes.               *)
LEMMA StartsOverTyped ==
  StartsOver =>
    /\ stage' \in Stages
    /\ file' \in ConfigFiles \cup {NoFile}
    /\ pending' \subseteq DOMAIN file'.aliases
    /\ \A path \in DOMAIN routes' :
         routes'[path] \in {"handleEvent", "handleSlackCallback"}
    /\ dashboard' \in {"off", "starting", "serving"}
<1>1. DOMAIN <<>> = {}
  OBVIOUS
<1>. QED BY <1>1 DEF StartsOver, Stages

(* Every step of the engine keeps the types.                               *)
LEMMA NextEngineTyped ==
  StateOK /\ StateOK' /\ RoutesOK /\ EngineTypeOK /\ [EngineNext]_engineVars => EngineTypeOK'
<1>. SUFFICES ASSUME StateOK, StateOK', RoutesOK, EngineTypeOK, [EngineNext]_engineVars
              PROVE  EngineTypeOK'
  OBVIOUS
<1>1. ASSUME NEW e \in Events, Notifies(e) PROVE EngineTypeOK'
  <2>1. go[e].ip \in IPs /\ e \in Messages
    BY <1>1, Running, EngineAssumption
       DEF Notifies, EventNotifies, At, Ended, StateOK, Goroutines, Requests
  <2>2. [shows |-> "asking", ip |-> go[e].ip] \in [shows : Shown, ip : IPs \cup {NoIP}]
    BY <2>1 DEF Shown
  <2>3. message' \in [Messages -> [shows : Shown, ip : IPs \cup {NoIP}]]
    BY <1>1, <2>1, <2>2 DEF Notifies, Sends, SendFails, Posts, EngineTypeOK
  <2>4. ts' \in [Messages -> Messages \cup {NoTs}]
    BY <1>1, <2>1 DEF Notifies, Sends, SendFails, EngineTypeOK
  <2>. QED BY <1>1, <2>3, <2>4 DEF Notifies, EngineTypeOK, startupVars
<1>2. ASSUME NEW e \in Events, Arms(e) PROVE EngineTypeOK'
  <2>1. notice' \in [Timers -> Messages \cup {NoTs}]
    BY <1>2, EngineAssumption DEF Arms, EngineTypeOK
  <2>. QED BY <1>2, <2>1 DEF Arms, EngineTypeOK, startupVars, slackVars
<1>3. ASSUME NEW t \in Timers, Rewrites(t) PROVE EngineTypeOK'
  <2>1. message' \in [Messages -> [shows : Shown, ip : IPs \cup {NoIP}]]
    BY <1>3 DEF Rewrites, Updates, EngineTypeOK, Shown
  <2>. QED BY <1>3, <2>1 DEF Rewrites, EngineTypeOK, startupVars
<1>4. ASSUME NEW g \in Callers, Executes(g) PROVE EngineTypeOK'
  <2>1. InAction(g) /\ Tells(g)
    BY <1>4, ExecutesInAction
  <2>2. answers' \subseteq [ip : IPs, action : ActionValues]
    BY <2>1, TellsTyped
  <2>3. effects' \subseteq IPs
    <3>1. effects \subseteq IPs /\ rules' \subseteq IPs
      BY DEF EngineTypeOK, StateOK, OutsideOK, FirewallTypeOK
    <3>. QED BY <1>4, <3>1 DEF Executes
  <2>4. go[g].ip \in IPs /\ now \in Nat
    BY <2>1, ActsOnAddress DEF StateOK, OutsideOK
  <2>5. PICK done \in Outcomes(StoresOf(go[g].action),
                               go'[g].pc \notin {"action.lookup", "action.save"}
                                 \/ go[g].action = "all") :
          Writes(done, go[g].ip, now)
    BY <1>4 DEF Executes
  <2>6. done \subseteq Stores
    BY DEF Outcomes, StoresOf
  <2>7. \A s \in done : Object(s, go[g].ip, now) \in [store : Stores, ip : IPs, at : Nat]
    BY <2>4, <2>6 DEF Object
  <2>8. objects' \subseteq [store : Stores, ip : IPs, at : Nat]
    BY <2>5, <2>7 DEF Writes, EngineTypeOK
  <2>. QED BY <1>4, <2>2, <2>3, <2>8 DEF Executes, EngineTypeOK, startupVars, slackVars
<1>5. ASSUME NEW g \in Callers, Acts(g) PROVE EngineTypeOK'
  <2>1. InAction(g) /\ Tells(g)
    BY <1>5, ActsInAction
  <2>2. answers' \subseteq [ip : IPs, action : ActionValues]
    BY <2>1, TellsTyped
  <2>3. CASE UNCHANGED startupVars
    BY <1>5, <2>2, <2>3 DEF Acts, EngineTypeOK, startupVars, slackVars
  <2>4. CASE StartsOver
    BY <1>5, <2>2, <2>4, StartsOverTyped DEF Acts, EngineTypeOK, slackVars
  <2>. QED BY <1>5, <2>3, <2>4 DEF Acts
<1>6. CASE UNCHANGED <<startupVars, sideVars>>
  BY <1>6 DEF EngineTypeOK, startupVars, sideVars, slackVars
<1>7. CASE StartupSteps /\ UNCHANGED sideVars
  BY <1>7, StartupTyped
<1>8. CASE Exits
  BY <1>8, StartsOverTyped DEF Exits, EngineTypeOK, sideVars, slackVars
<1>. QED BY <1>1, <1>2, <1>3, <1>4, <1>5, <1>6, <1>7, <1>8
         DEF EngineNext, engineVars, Callers

(* The engine's variables keep their types, through any number of starts   *)
(* and failures.                                                           *)
THEOREM EngineTypes == EngineSpec => []EngineTypeOK
<1>1. EngineInit => StateOK /\ RoutesOK /\ EngineTypeOK
  <2>1. EngineInit => StateOK
    BY InitOK DEF EngineInit
  <2>2. EngineInit => RoutesOK
    BY DEF EngineInit, StartupInit, RoutesOK, Stages, IsMap
  <2>3. EngineInit => EngineTypeOK
    <3>. SUFFICES ASSUME EngineInit PROVE EngineTypeOK
      OBVIOUS
    <3>1. /\ stage \in Stages /\ file \in ConfigFiles \cup {NoFile}
          /\ pending \subseteq DOMAIN file.aliases
          /\ DOMAIN routes = {} /\ dashboard \in {"off", "starting", "serving"}
      BY DEF EngineInit, StartupInit, Stages
    <3>2. /\ message \in [Messages -> [shows : Shown, ip : IPs \cup {NoIP}]]
          /\ ts \in [Messages -> Messages \cup {NoTs}]
      BY DEF EngineInit, SlackInit, Shown
    <3>3. notice \in [Timers -> Messages \cup {NoTs}]
      BY DEF EngineInit
    <3>. QED BY <3>1, <3>2, <3>3 DEF EngineInit, StorageInit, EngineTypeOK
  <2>. QED BY <2>1, <2>2, <2>3
<1>. QED BY <1>1, EngineState, NextRoutes, NextEngineTyped, PTL DEF EngineSpec

-----------------------------------------------------------------------------
(* What was carried out *)

(* The addresses, with the actions that are done about them.               *)
Carried == {d \in IPs \X ActionValues : Done(d[1], d[2])}

(* What a record of ip claims, D accounts for.                             *)
Backed(r, ip, D) ==
  /\ r.actionTaken => \E a \in Registered \cup {"all"} : <<ip, a>> \in D
  /\ r.blockedAt > 0 => \E a \in Blocking : <<ip, a>> \in D

(* The labels behind the call of the actioners.                            *)
Behind == {"action.lookup", "action.close", "action.delete", "action.spawn",
           "action.save", "timer.update"}

(* What a frame claims, too.  A goroutine executes only what is registered.*)
FrameBacked(f, D) ==
  /\ Backed(f.rec, f.ip, D) /\ Backed(f.arec, f.ip, D)
  /\ f.pc = "new" => f.rec = NewRecord /\ f.arec = NewRecord
  /\ f.pc \in Behind \cup {"action.execute"} => f.action \in Registered \cup {"all"}
  /\ f.pc \in Behind => <<f.ip, f.action>> \in D
  /\ f.pc = "action.lookup" => f.action \in Blocking

RowsBacked(rows, D) == \A ip \in IPs : Backed(rows[ip], ip, D)
GoBacked(frames, D) == \A g \in Goroutines : FrameBacked(frames[g], D)

(* Only a pressed button names an action: events and timers run all.       *)
RunsAll(frames) == \A g \in Goroutines \ Presses : frames[g].action = "all"

(* Nothing is claimed by a new record.                                     *)
LEMMA NewBacked == ASSUME NEW ip, NEW D PROVE Backed(NewRecord, ip, D)
BY DEF Backed, NewRecord

(* More that is done accounts for what less does.                          *)
LEMMA BackedGrows ==
  ASSUME NEW D, NEW E, D \subseteq E
  PROVE  /\ \A rows : RowsBacked(rows, D) => RowsBacked(rows, E)
         /\ \A frames : GoBacked(frames, D) => GoBacked(frames, E)
BY DEF RowsBacked, GoBacked, FrameBacked, Backed

(* HandleEvent claims no more than the row it read.                        *)
LEMMA EventBacked ==
  ASSUME NEW r \in Records, NEW ip, NEW D, Backed(r, ip, D), NEW t
  PROVE  Backed(CountEvent(AfterWindow(r, t), t), ip, D)
<1>. DEFINE w == AfterWindow(r, t)
<1>1. w \in Records /\ Backed(w, ip, D)
  BY DEF AfterWindow, Records, Backed
<1>. HIDE DEF w
<1>2. /\ CountEvent(w, t).actionTaken = w.actionTaken
      /\ CountEvent(w, t).blockedAt = w.blockedAt
  BY <1>1 DEF CountEvent, Records
<1>. QED BY <1>1, <1>2 DEF Backed, w

(* What is unblocked claims nothing.                                       *)
LEMMA UnblockedBacked ==
  ASSUME NEW r \in Records, NEW ip, NEW D PROVE Backed(Unblocked(r), ip, D)
BY DEF Backed, Unblocked, Records

-----------------------------------------------------------------------------
(* One frame *)

(* A goroutine that has ended claims nothing.                              *)
LEMMA EndedBacked ==
  ASSUME NEW l \in Ended, NEW D
  PROVE  FrameBacked(Frame(l), D) /\ Frame(l).action = "all"
BY NewBacked DEF FrameBacked, Frame, Behind, Ended

(* A step changes one frame.                                               *)
LEMMA SetBacked ==
  ASSUME StateOK, NEW D, GoBacked(go, D), RunsAll(go), NEW g \in Goroutines, NEW f,
         FrameBacked(f, D), f.action = go[g].action \/ f.action = "all",
         go' = [go EXCEPT ![g] = f]
  PROVE  GoBacked(go', D) /\ RunsAll(go')
BY DEF GoBacked, RunsAll, StateOK, GoOK

(* A goroutine ends.                                                       *)
LEMMA EndBacked ==
  ASSUME StateOK, NEW D, GoBacked(go, D), RunsAll(go), NEW g \in Goroutines,
         NEW l \in Ended, End(g, l)
  PROVE  GoBacked(go', D) /\ RunsAll(go')
BY EndedBacked, SetBacked DEF End

(* The labels at which a frame claims something that its records do not.   *)
Claiming == Behind \cup {"new", "action.execute"}

(* A goroutine goes on; behind the call only from behind it.               *)
LEMMA GotoBacked ==
  ASSUME StateOK, NEW D, GoBacked(go, D), RunsAll(go), NEW g \in Goroutines,
         NEW l, l \notin Claiming \/ (go[g].pc \in Behind /\ l \in Behind \ {"action.lookup"}),
         Goto(g, l)
  PROVE  GoBacked(go', D) /\ RunsAll(go')
<1>. DEFINE f == [go[g] EXCEPT !.pc = l]
<1>1. go' = [go EXCEPT ![g] = f]
  BY DEF Goto, StateOK, GoOK
<1>2. FrameBacked(f, D) /\ f.action = go[g].action
  BY DEF GoBacked, FrameBacked, StateOK, GoOK, Frames, Claiming, Behind
<1>. QED BY <1>1, <1>2, SetBacked

(* A goroutine goes on with a record whose claims are accounted for.       *)
LEMMA RecordBacked ==
  ASSUME StateOK, NEW D, GoBacked(go, D), RunsAll(go), NEW g \in Goroutines,
         NEW l, l \notin Claiming \/ (go[g].pc \in Behind /\ l \in Behind \ {"action.lookup"}),
         NEW r, Backed(r, go[g].ip, D),
         \/ go' = [go EXCEPT ![g].rec = r, ![g].pc = l]
         \/ go' = [go EXCEPT ![g].arec = r, ![g].pc = l]
  PROVE  GoBacked(go', D) /\ RunsAll(go')
<1>1. CASE go' = [go EXCEPT ![g].rec = r, ![g].pc = l]
  <2>. DEFINE f == [go[g] EXCEPT !.rec = r, !.pc = l]
  <2>1. go' = [go EXCEPT ![g] = f]
    BY <1>1 DEF StateOK, GoOK
  <2>2. FrameBacked(f, D) /\ f.action = go[g].action
    BY DEF GoBacked, FrameBacked, StateOK, GoOK, Frames, Claiming, Behind
  <2>. QED BY <2>1, <2>2, SetBacked
<1>2. CASE go' = [go EXCEPT ![g].arec = r, ![g].pc = l]
  <2>. DEFINE f == [go[g] EXCEPT !.arec = r, !.pc = l]
  <2>1. go' = [go EXCEPT ![g] = f]
    BY <1>2 DEF StateOK, GoOK
  <2>2. FrameBacked(f, D) /\ f.action = go[g].action
    BY DEF GoBacked, FrameBacked, StateOK, GoOK, Frames, Claiming, Behind
  <2>. QED BY <2>1, <2>2, SetBacked
<1>. QED BY <1>1, <1>2

(* The process stops.                                                      *)
LEMMA StopsBacked ==
  ASSUME StateOK, NEW D, GoBacked(go, D), RunsAll(go), Stops
  PROVE  GoBacked(go', D) /\ RunsAll(go')
<1>1. FrameBacked(Frame("failed"), D) /\ Frame("failed").action = "all"
  BY EndedBacked DEF Ended
<1>. QED BY <1>1 DEF Stops, GoBacked, RunsAll

(* A panic ends one request, or the process.                               *)
LEMMA PanicsBacked ==
  ASSUME StateOK, NEW D, GoBacked(go, D), RunsAll(go), NEW g \in Goroutines, Panics(g)
  PROVE  GoBacked(go', D) /\ RunsAll(go')
BY EndBacked, StopsBacked DEF Panics, Ended

(* close(ch), whether it panics or not.                                    *)
LEMMA ClosesBacked ==
  ASSUME StateOK, NEW D, GoBacked(go, D), RunsAll(go), NEW g \in Goroutines,
         NEW l, l \notin Claiming \/ (go[g].pc \in Behind /\ l \in Behind \ {"action.lookup"}),
         Closes(g, l)
  PROVE  GoBacked(go', D) /\ RunsAll(go')
BY GotoBacked, PanicsBacked DEF Closes

(* ExecuteAction returns; to a timer only with its action done.            *)
LEMMA ReturnsBacked ==
  ASSUME StateOK, NEW D, GoBacked(go, D), RunsAll(go), NEW g \in Callers,
         g \in Timers => <<go[g].ip, go[g].action>> \in D, Returns(g)
  PROVE  GoBacked(go', D) /\ RunsAll(go')
<1>0. g \in Goroutines
  BY DEF Callers, Goroutines, Requests
<1>1. CASE g \in Presses /\ End(g, "done")
  BY <1>0, <1>1, EndBacked DEF Ended
<1>2. CASE g \notin Presses
  <2>. DEFINE l == IF g \in Events THEN "event.save" ELSE "timer.update"
              f == [go[g] EXCEPT !.arec = NewRecord, !.chan = None, !.pc = l]
  <2>1. go' = [go EXCEPT ![g].arec = NewRecord, ![g].chan = None, ![g].pc = l]
    BY <1>2 DEF Returns
  <2>2. go' = [go EXCEPT ![g] = f]
    BY <1>0, <2>1 DEF StateOK, GoOK
  <2>3. go[g].action = "all"
    BY <1>0, <1>2 DEF RunsAll
  <2>4. l \notin Claiming \/ (g \in Timers /\ l = "timer.update")
    BY <1>2 DEF Claiming, Behind, Callers
  <2>5. f.ip = go[g].ip /\ f.rec = go[g].rec /\ f.arec = NewRecord /\ f.pc = l
          /\ f.action = go[g].action
    BY <1>0 DEF StateOK, GoOK, Frames
  <2>. HIDE DEF l, f
  <2>6. FrameBacked(f, D)
    BY <1>0, <2>3, <2>4, <2>5, NewBacked DEF GoBacked, FrameBacked, Claiming, Behind
  <2>. QED BY <1>0, <2>2, <2>5, <2>6, SetBacked
<1>. QED BY <1>1, <1>2 DEF Returns

-----------------------------------------------------------------------------
(* The steps of the manager, but for the call of the actioners             *)

(* HandleEvent counts in its copy of a row.                                *)
LEMMA EventCountsBacked ==
  ASSUME StateOK, NEW D, GoBacked(go, D), RunsAll(go), NEW e \in Events, NEW row,
         RowOK(row), Backed(row, go[e].ip, D), EventCounts(e, row)
  PROVE  GoBacked(go', D) /\ RunsAll(go')
<1>0. e \in Goroutines
  BY DEF Goroutines, Requests
<1>. DEFINE c == CountEvent(AfterWindow(row, now), now)
<1>1. Backed(c, go[e].ip, D)
  BY EventBacked DEF RowOK
<1>2. AfterCount(c) \notin Claiming
  BY DEF AfterCount, Claiming, Behind
<1>3. \/ End(e, "done")
      \/ go' = [go EXCEPT ![e].rec = c, ![e].pc = AfterCount(c)]
  BY DEF EventCounts
<1>. HIDE DEF c
<1>. QED BY <1>0, <1>1, <1>2, <1>3, EndBacked, RecordBacked DEF Ended

(* A goroutine of a request starts with nothing.                           *)
LEMMA ArrivesBacked ==
  ASSUME StateOK, NEW D, GoBacked(go, D), RunsAll(go), NEW g \in Goroutines,
         At(g, "new"), NEW ip, NEW l, l \notin Claiming, NEW a,
         \/ go' = [go EXCEPT ![g].ip = ip, ![g].pc = l]
         \/ g \in Presses /\ go' = [go EXCEPT ![g].ip = ip, ![g].action = a, ![g].pc = l]
  PROVE  GoBacked(go', D) /\ RunsAll(go')
<1>0. go \in [Goroutines -> Frames] /\ go[g].rec = NewRecord /\ go[g].arec = NewRecord
  BY DEF GoBacked, FrameBacked, StateOK, GoOK, At
<1>. DEFINE f == go[g]
            b == [[f EXCEPT !.ip = ip] EXCEPT !.pc = l]
            c == [[[f EXCEPT !.ip = ip] EXCEPT !.action = a] EXCEPT !.pc = l]
<1>1. go' = [go EXCEPT ![g] = b] \/ (g \in Presses /\ go' = [go EXCEPT ![g] = c])
  OBVIOUS
<1>2. DOMAIN f = {"pc", "ip", "rec", "arec", "chan", "due", "action"}
  BY <1>0 DEF Frames
<1>3. /\ b.pc = l /\ b.rec = NewRecord /\ b.arec = NewRecord /\ b.action = go[g].action
      /\ c.pc = l /\ c.rec = NewRecord /\ c.arec = NewRecord
  BY <1>0, <1>2
<1>. HIDE DEF b, c
<1>4. FrameBacked(b, D) /\ FrameBacked(c, D)
  BY <1>3, NewBacked DEF FrameBacked, Claiming, Behind
<1>5. \A h \in Goroutines : go'[h] = go[h] \/ (h = g /\ go'[h] \in {b, c})
  BY <1>0, <1>1
<1>6. \A h \in Goroutines \ Presses : go'[h].action = go[h].action
  BY <1>0, <1>1, <1>3
<1>. QED BY <1>4, <1>5, <1>6 DEF GoBacked, RunsAll

(* A goroutine starts another one.                                         *)
LEMMA StartBacked ==
  ASSUME StateOK, NEW D, GoBacked(go, D), RunsAll(go), NEW g \in Goroutines,
         NEW l, l \notin Claiming \/ (go[g].pc \in Behind /\ l \in Behind \ {"action.lookup"}),
         NEW h \in Goroutines, h # g, NEW f, FrameBacked(f, D), f.action = "all",
         go' = [go EXCEPT ![g].pc = l, ![h] = f]
  PROVE  GoBacked(go', D) /\ RunsAll(go')
<1>. DEFINE b == [go[g] EXCEPT !.pc = l]
<1>1. FrameBacked(b, D) /\ b.action = go[g].action
  BY DEF GoBacked, FrameBacked, StateOK, GoOK, Frames, Claiming, Behind
<1>2. \A k \in Goroutines :
        go'[k] = IF k = h THEN f ELSE IF k = g THEN b ELSE go[k]
  BY DEF StateOK, GoOK
<1>. QED BY <1>1, <1>2 DEF GoBacked, RunsAll

(* The steps of an event.                                                  *)
LEMMA EventStepsBacked ==
  ASSUME StateOK, NEW D, RowsBacked(blocks, D), GoBacked(go, D), RunsAll(go),
         NEW e \in Events, EventArrives(e) \/ EventSteps(e)
  PROVE  RowsBacked(blocks', D) /\ GoBacked(go', D) /\ RunsAll(go')
<1>0. e \in Goroutines /\ blocks \in [IPs -> Records]
  BY DEF Goroutines, Requests, StateOK, TableOK, TableTypeOK
<1>1. CASE EventArrives(e)
  <2>1. At(e, "new") /\ "event.select" \notin Claiming /\ UNCHANGED blocks
    BY <1>1 DEF EventArrives, Arrives, Fresh, Claiming, Behind, outside, dbVars
  <2>2. \/ End(e, "done")
        \/ \E ip \in IPs : go' = [go EXCEPT ![e].ip = ip, ![e].pc = "event.select"]
    BY <1>1 DEF EventArrives, Accepted
  <2>. QED BY <1>0, <2>1, <2>2, EndBacked, ArrivesBacked DEF Ended, RowsBacked
<1>2. CASE EventSelects(e)
  <2>1. go[e].ip \in IPs /\ UNCHANGED blocks
    BY <1>0, <1>2, Running DEF EventSelects, At, Ended, StateOK, dbVars
  <2>2. RowOK(blocks[go[e].ip]) /\ Backed(blocks[go[e].ip], go[e].ip, D)
    BY <2>1 DEF StateOK, TableOK, RowsBacked
  <2>3. \/ EventCounts(e, blocks[go[e].ip])
        \/ Goto(e, "event.insert") \/ End(e, "failed")
    BY <1>2 DEF EventSelects
  <2>. QED BY <1>0, <2>1, <2>2, <2>3, EventCountsBacked, GotoBacked, EndBacked
           DEF Ended, Claiming, Behind, RowsBacked
<1>3. CASE EventInserts(e)
  <2>1. EventCounts(e, NewRecord) \/ End(e, "failed")
    BY <1>3 DEF EventInserts
  <2>2. RowsBacked(blocks', D)
    BY <1>0, <1>3, NewBacked DEF EventInserts, Insert, InsertFails, dbVars, RowsBacked
  <2>. QED BY <1>0, <2>1, <2>2, NewBacked, NewRecordOK, EventCountsBacked, EndBacked DEF Ended
<1>4. CASE EventNotifies(e)
  BY <1>0, <1>4, GotoBacked DEF EventNotifies, Claiming, Behind, dbVars, RowsBacked
<1>5. CASE EventArms(e)
  <2>1. PICK t \in Timers :
          /\ At(t, "new")
          /\ go' = [go EXCEPT
                      ![e].pc = "event.save",
                      ![t] = [Frame("timer.armed") EXCEPT
                                !.ip = go[e].ip, !.due = now + Timeout * Minute]]
    BY <1>5 DEF EventArms, Fresh
  <2>2. t \in Goroutines /\ t # e /\ UNCHANGED blocks /\ "event.save" \notin Claiming
    BY <1>5, <2>1 DEF Goroutines, EventArms, At, outside, dbVars, Claiming, Behind
  <2>. DEFINE f == [Frame("timer.armed") EXCEPT
                      !.ip = go[e].ip, !.due = now + Timeout * Minute]
  <2>3. /\ f.rec = NewRecord /\ f.arec = NewRecord /\ f.pc = "timer.armed"
        /\ f.action = "all"
    BY DEF Frame
  <2>4. go' = [go EXCEPT ![e].pc = "event.save", ![t] = f]
    BY <2>1
  <2>. HIDE DEF f
  <2>5. FrameBacked(f, D)
    BY <2>3, NewBacked DEF FrameBacked, Behind
  <2>. QED BY <1>0, <2>2, <2>3, <2>4, <2>5, StartBacked DEF RowsBacked
<1>6. CASE EventSaves(e)
  <2>1. Backed(go[e].rec, go[e].ip, D)
    BY <1>0 DEF GoBacked, FrameBacked
  <2>2. RowsBacked(blocks', D)
    BY <1>0, <1>6, <2>1 DEF EventSaves, Update, UpdateFails, dbVars, RowsBacked
  <2>. QED BY <1>0, <1>6, <2>2, EndBacked DEF EventSaves, Ended
<1>. QED BY <1>1, <1>2, <1>3, <1>4, <1>5, <1>6 DEF EventSteps

(* A button is pressed.                                                    *)
LEMMA PressArrivesBacked ==
  ASSUME StateOK, NEW D, RowsBacked(blocks, D), GoBacked(go, D), RunsAll(go),
         NEW p \in Presses, PressArrives(p)
  PROVE  RowsBacked(blocks', D) /\ GoBacked(go', D) /\ RunsAll(go')
<1>1. /\ p \in Goroutines /\ At(p, "new") /\ "action.select" \notin Claiming
      /\ UNCHANGED blocks
  BY DEF Goroutines, Requests, PressArrives, Arrives, Fresh, Claiming, Behind, dbVars
<1>2. \/ End(p, "done") \/ End(p, "unparsed")
      \/ \E ip \in IPs, a \in Buttons :
           go' = [go EXCEPT ![p].ip = ip, ![p].action = a, ![p].pc = "action.select"]
  BY DEF PressArrives
<1>. QED BY <1>1, <1>2, EndBacked, ArrivesBacked DEF Ended, RowsBacked

(* The steps of a timer before and after ExecuteAction.                    *)
LEMMA TimerStepsBacked ==
  ASSUME StateOK, NEW D, RowsBacked(blocks, D), GoBacked(go, D), RunsAll(go),
         NEW t \in Timers, TimerSteps(t)
  PROVE  RowsBacked(blocks', D) /\ GoBacked(go', D) /\ RunsAll(go')
<1>1. t \in Goroutines /\ UNCHANGED blocks
  BY DEF Goroutines, TimerSteps, TimerFires, TimerSelects, TimerUpdates, TimerDeletes,
         outside, dbVars
<1>2. \/ End(t, "done") \/ Panics(t)
      \/ \E l \in {"timer.select", "timer.delete", "action.select"} : Goto(t, l)
  BY DEF TimerSteps, TimerFires, TimerSelects, TimerUpdates, TimerDeletes
<1>. QED BY <1>1, <1>2, EndBacked, PanicsBacked, GotoBacked
         DEF Ended, Claiming, Behind, RowsBacked

(* The steps of a scheduled unblock.                                       *)
LEMMA UnblockerStepsBacked ==
  ASSUME StateOK, NEW D, RowsBacked(blocks, D), GoBacked(go, D), RunsAll(go),
         NEW u \in Unblockers, UnblockerSteps(u)
  PROVE  RowsBacked(blocks', D) /\ GoBacked(go', D) /\ RunsAll(go')
<1>0. /\ u \in Goroutines /\ go \in [Goroutines -> Frames]
      /\ blocks \in [IPs -> Records] /\ go[u].rec \in Records
  BY DEF Goroutines, StateOK, GoOK, TableOK, TableTypeOK, Frames
<1>1. CASE UnblockerWakes(u) \/ UnblockerDeletes(u)
  <2>1. \/ End(u, "done")
        \/ \E l \in {"unblocker.unblock", "unblocker.delete"} : Goto(u, l)
    BY <1>1 DEF UnblockerWakes, UnblockerDeletes
  <2>2. UNCHANGED blocks
    BY <1>1 DEF UnblockerWakes, UnblockerDeletes, outside, dbVars
  <2>. QED BY <1>0, <2>1, <2>2, EndBacked, GotoBacked DEF Ended, Claiming, Behind, RowsBacked
<1>2. CASE UnblockerUnblocks(u)
  <2>1. go' = [go EXCEPT ![u].rec = Unblocked(go[u].rec), ![u].pc = "unblocker.save"]
    BY <1>0, <1>2 DEF UnblockerUnblocks
  <2>2. "unblocker.save" \notin Claiming /\ UNCHANGED blocks
    BY <1>2 DEF UnblockerUnblocks, Claiming, Behind, dbVars
  <2>. QED BY <1>0, <2>1, <2>2, UnblockedBacked, RecordBacked DEF RowsBacked
<1>3. CASE UnblockerSaves(u)
  <2>1. Backed(go[u].rec, go[u].ip, D)
    BY <1>0 DEF GoBacked, FrameBacked
  <2>2. RowsBacked(blocks', D)
    BY <1>0, <1>3, <2>1 DEF UnblockerSaves, Update, UpdateFails, dbVars, RowsBacked
  <2>. QED BY <1>0, <1>3, <2>2, GotoBacked DEF UnblockerSaves, Claiming, Behind
<1>. QED BY <1>1, <1>2, <1>3 DEF UnblockerSteps

(* The steps of a manual unblock.                                          *)
LEMMA ManualStepsBacked ==
  ASSUME StateOK, NEW D, RowsBacked(blocks, D), GoBacked(go, D), RunsAll(go),
         NEW m \in Unblocks, ManualArrives(m) \/ ManualSteps(m)
  PROVE  RowsBacked(blocks', D) /\ GoBacked(go', D) /\ RunsAll(go')
<1>0. /\ m \in Goroutines /\ go \in [Goroutines -> Frames]
      /\ blocks \in [IPs -> Records] /\ go[m].rec \in Records
  BY DEF Goroutines, Requests, StateOK, GoOK, TableOK, TableTypeOK, Frames
<1>1. CASE ManualArrives(m)
  <2>1. At(m, "new") /\ "manual.select" \notin Claiming /\ UNCHANGED blocks
    BY <1>1 DEF ManualArrives, Arrives, Fresh, Claiming, Behind, outside, dbVars
  <2>2. \/ End(m, "done")
        \/ \E ip \in IPs : go' = [go EXCEPT ![m].ip = ip, ![m].pc = "manual.select"]
    BY <1>1 DEF ManualArrives, Accepted
  <2>. QED BY <1>0, <2>1, <2>2, EndBacked, ArrivesBacked DEF Ended, RowsBacked
<1>2. ASSUME NEW row, Backed(row, go[m].ip, D), ManualStarts(m, row)
      PROVE  GoBacked(go', D) /\ RunsAll(go')
  BY <1>0, <1>2, EndBacked, RecordBacked DEF ManualStarts, Ended, Claiming, Behind
<1>3. CASE ManualSelects(m)
  <2>1. go[m].ip \in IPs /\ UNCHANGED blocks
    BY <1>0, <1>3, Running DEF ManualSelects, At, Ended, StateOK, outside, dbVars
  <2>2. Backed(blocks[go[m].ip], go[m].ip, D)
    BY <2>1 DEF RowsBacked
  <2>3. \/ ManualStarts(m, blocks[go[m].ip])
        \/ Goto(m, "manual.insert") \/ End(m, "failed")
    BY <1>3 DEF ManualSelects
  <2>. QED BY <1>0, <1>2, <2>1, <2>2, <2>3, GotoBacked, EndBacked
           DEF Ended, Claiming, Behind, RowsBacked
<1>4. CASE ManualInserts(m)
  <2>1. ManualStarts(m, NewRecord) \/ End(m, "failed")
    BY <1>4 DEF ManualInserts
  <2>2. RowsBacked(blocks', D)
    BY <1>0, <1>4, NewBacked DEF ManualInserts, Insert, InsertFails, dbVars, RowsBacked
  <2>. QED BY <1>0, <1>2, <2>1, <2>2, NewBacked, EndBacked DEF Ended
<1>5. ASSUME NEW map, NEW l, NEW k, LooksUp(m, map, l, k),
             l \notin Claiming, k \notin Claiming
      PROVE  GoBacked(go', D) /\ RunsAll(go')
  <2>1. CASE map[go[m].ip] # None
    <3>. DEFINE f == [go[m] EXCEPT !.chan = map[go[m].ip], !.pc = l]
    <3>1. go' = [go EXCEPT ![m] = f]
      BY <1>0, <1>5, <2>1 DEF LooksUp
    <3>2. FrameBacked(f, D) /\ f.action = go[m].action
      BY <1>0, <1>5 DEF GoBacked, FrameBacked, Frames, Claiming, Behind
    <3>. QED BY <1>0, <3>1, <3>2, SetBacked
  <2>2. CASE map[go[m].ip] = None
    <3>1. Goto(m, k)
      BY <1>5, <2>2 DEF LooksUp, Goto
    <3>. QED BY <1>0, <1>5, <3>1, GotoBacked
  <2>. QED BY <2>1, <2>2
<1>6. CASE \/ ManualLooksUpTimer(m) \/ ManualClosesTimer(m) \/ ManualDeletesTimer(m)
           \/ ManualLooksUpUnblock(m) \/ ManualClosesUnblock(m) \/ ManualDeletesUnblock(m)
  <2>1. UNCHANGED blocks
    BY <1>6 DEF ManualLooksUpTimer, ManualClosesTimer, ManualDeletesTimer,
       ManualLooksUpUnblock, ManualClosesUnblock, ManualDeletesUnblock, outside, dbVars
  <2>2. \/ LooksUp(m, cancel, "manual.close", "manual.lookup2")
        \/ LooksUp(m, unblockCancel, "manual.close2", "manual.unblock")
        \/ Closes(m, "manual.delete") \/ Closes(m, "manual.delete2")
        \/ Goto(m, "manual.lookup2") \/ Goto(m, "manual.unblock")
    BY <1>6 DEF ManualLooksUpTimer, ManualClosesTimer, ManualDeletesTimer,
       ManualLooksUpUnblock, ManualClosesUnblock, ManualDeletesUnblock
  <2>. QED BY <1>0, <1>5, <2>1, <2>2, ClosesBacked, GotoBacked
           DEF Claiming, Behind, RowsBacked
<1>7. CASE ManualUnblocks(m)
  <2>1. \/ End(m, "failed")
        \/ go' = [go EXCEPT ![m].rec = Unblocked(go[m].rec), ![m].pc = "manual.save"]
    BY <1>0, <1>7 DEF ManualUnblocks
  <2>2. "manual.save" \notin Claiming /\ UNCHANGED blocks
    BY <1>7 DEF ManualUnblocks, Claiming, Behind, dbVars
  <2>. QED BY <1>0, <2>1, <2>2, UnblockedBacked, RecordBacked, EndBacked
           DEF Ended, RowsBacked
<1>8. CASE ManualSaves(m)
  <2>1. Backed(go[m].rec, go[m].ip, D)
    BY <1>0 DEF GoBacked, FrameBacked
  <2>2. RowsBacked(blocks', D)
    BY <1>0, <1>8, <2>1 DEF ManualSaves, Update, UpdateFails, dbVars, RowsBacked
  <2>. QED BY <1>0, <1>8, <2>2, EndBacked DEF ManualSaves, Ended
<1>. QED BY <1>1, <1>3, <1>4, <1>6, <1>7, <1>8 DEF ManualSteps

-----------------------------------------------------------------------------
(* ExecuteAction *)

(* What a call of ExecuteAction leaves: the action is one of those in D,   *)
(* which are done about an address; or it names no actioner; or it is a    *)
(* single one and was skipped because the address is blocked.              *)
Answered(ip, action, D) ==
  \/ <<ip, action>> \in D
  \/ action \notin Registered \cup {"all"}
  \/ action # "all" /\ \E a \in Blocking : <<ip, a>> \in D

(* ExecuteAction skips the action or goes on with the row.                 *)
LEMMA ActionStartsBacked ==
  ASSUME StateOK, NEW D, GoBacked(go, D), RunsAll(go), NEW g \in Callers,
         NEW row, RowOK(row), Backed(row, go[g].ip, D), ActionStarts(g, row)
  PROVE  /\ GoBacked(go', D) /\ RunsAll(go')
         /\ go'[g].pc = "done" => Answered(go[g].ip, go[g].action, D)
<1>0. g \in Goroutines /\ go \in [Goroutines -> Frames] /\ row.blockedAt \in Nat
  BY DEF Callers, Goroutines, Requests, StateOK, GoOK, RowOK, Records
<1>1. CASE Skips(g, row) /\ Returns(g)
  <2>1. g \notin Timers
    BY <1>0, <1>1, KindsDiffer DEF Skips, RunsAll
  <2>2. GoBacked(go', D) /\ RunsAll(go')
    BY <1>1, <2>1, ReturnsBacked
  <2>3. Answered(go[g].ip, go[g].action, D)
    BY <1>0, <1>1 DEF Skips, Answered, Backed
  <2>. QED BY <2>2, <2>3
<1>2. CASE ~Skips(g, row) /\ go' = [go EXCEPT ![g].arec = row, ![g].pc = "action.execute"]
  <2>. DEFINE f == [go[g] EXCEPT !.arec = row, !.pc = "action.execute"]
  <2>1. go' = [go EXCEPT ![g] = f]
    BY <1>0, <1>2
  <2>2. /\ f.ip = go[g].ip /\ f.rec = go[g].rec /\ f.arec = row
        /\ f.pc = "action.execute" /\ f.action = go[g].action
    BY <1>0 DEF Frames
  <2>3. go[g].action \in Registered \cup {"all"}
    BY <1>2 DEF Skips
  <2>. HIDE DEF f
  <2>4. FrameBacked(f, D)
    BY <1>0, <2>2, <2>3 DEF GoBacked, FrameBacked, Behind
  <2>5. go'[g].pc = "action.execute"
    BY <1>0, <2>1, <2>2
  <2>. QED BY <1>0, <2>1, <2>2, <2>4, <2>5, SetBacked
<1>. QED BY <1>1, <1>2 DEF ActionStarts

(* ExecuteAction but for the call of the actioners.                        *)
LEMMA ActionStepsBacked ==
  ASSUME StateOK, NEW D, RowsBacked(blocks, D), GoBacked(go, D), RunsAll(go),
         NEW g \in Callers, ActionSteps(g), ~ActionExecutes(g)
  PROVE  /\ RowsBacked(blocks', D) /\ GoBacked(go', D) /\ RunsAll(go')
         /\ go'[g].pc = "done" => Answered(go[g].ip, go[g].action, D)
<1>. DEFINE Answers == go'[g].pc = "done" => Answered(go[g].ip, go[g].action, D)
<1>0. /\ g \in Goroutines /\ go \in [Goroutines -> Frames]
      /\ blocks \in [IPs -> Records] /\ go[g].arec \in Records
  BY DEF Callers, Goroutines, Requests, StateOK, GoOK, TableOK, TableTypeOK, Frames
<1>a. go[g].pc \notin Ended \cup {"new"}
  BY DEF ActionSteps, ActionSelects, ActionInserts, ActionExecutes, ActionLooksUp,
         ActionCloses, ActionDeletes, ActionSpawns, ActionSaves, At, Ended
<1>1. ASSUME Panics(g) PROVE Answers
  BY <1>0, <1>1, <1>a DEF Panics, End, Stops, Frame
<1>2. CASE ActionSelects(g)
  <2>1. go[g].ip \in IPs /\ UNCHANGED blocks
    BY <1>0, <1>2, Running DEF ActionSelects, At, Ended, StateOK, outside, dbVars
  <2>2. RowOK(blocks[go[g].ip]) /\ Backed(blocks[go[g].ip], go[g].ip, D)
    BY <2>1 DEF StateOK, TableOK, RowsBacked
  <2>3. ASSUME Goto(g, "action.insert") PROVE GoBacked(go', D) /\ RunsAll(go') /\ Answers
    BY <1>0, <2>3, GotoBacked DEF Claiming, Behind, Goto, Frames
  <2>4. ASSUME Panics(g) PROVE GoBacked(go', D) /\ RunsAll(go') /\ Answers
    BY <1>0, <1>1, <2>4, PanicsBacked
  <2>5. ActionStarts(g, blocks[go[g].ip]) \/ Goto(g, "action.insert") \/ Panics(g)
    BY <1>2 DEF ActionSelects
  <2>. QED BY <2>1, <2>2, <2>3, <2>4, <2>5, ActionStartsBacked DEF RowsBacked
<1>3. CASE ActionInserts(g)
  <2>1. RowsBacked(blocks', D)
    BY <1>0, <1>3, NewBacked DEF ActionInserts, Insert, InsertFails, dbVars, RowsBacked
  <2>2. ASSUME Panics(g) PROVE GoBacked(go', D) /\ RunsAll(go') /\ Answers
    BY <1>0, <1>1, <2>2, PanicsBacked
  <2>3. ActionStarts(g, NewRecord) \/ Panics(g)
    BY <1>3 DEF ActionInserts
  <2>. QED BY <2>1, <2>2, <2>3, NewBacked, NewRecordOK, ActionStartsBacked
<1>4. CASE ActionLooksUp(g)
  <2>. DEFINE r == MarkBlocked(go[g].arec, now)
              c == cancel[go[g].ip]
              l == IF c # None THEN "action.close" ELSE "action.spawn"
              f == [go[g] EXCEPT !.arec = r, !.chan = IF c # None THEN c ELSE @, !.pc = l]
  <2>1. go[g].pc = "action.lookup" /\ UNCHANGED blocks
    BY <1>4 DEF ActionLooksUp, At, outside, dbVars
  <2>2. Backed(r, go[g].ip, D)
    <3>1. go[g].action \in Blocking /\ <<go[g].ip, go[g].action>> \in D
      BY <1>0, <2>1 DEF GoBacked, FrameBacked, Behind
    <3>2. r.actionTaken = go[g].arec.actionTaken
      BY <1>0 DEF MarkBlocked, Records
    <3>. HIDE DEF r
    <3>. QED BY <1>0, <3>1, <3>2 DEF GoBacked, FrameBacked, Backed
  <2>3. go' = [go EXCEPT ![g] = f]
    BY <1>0, <1>4 DEF ActionLooksUp, Frames
  <2>4. /\ f.ip = go[g].ip /\ f.rec = go[g].rec /\ f.arec = r
        /\ f.pc = l /\ f.action = go[g].action
    BY <1>0 DEF Frames
  <2>. HIDE DEF f, r
  <2>5. FrameBacked(f, D)
    BY <1>0, <2>1, <2>2, <2>4 DEF GoBacked, FrameBacked, Behind
  <2>6. Answers
    BY <1>0, <2>3, <2>4
  <2>. QED BY <1>0, <2>1, <2>3, <2>4, <2>5, <2>6, SetBacked DEF RowsBacked
<1>5. CASE ActionCloses(g) \/ ActionDeletes(g)
  <2>1. go[g].pc \in Behind /\ UNCHANGED blocks
    BY <1>5 DEF ActionCloses, ActionDeletes, At, Behind, outside, dbVars
  <2>2. Panics(g) \/ Goto(g, "action.delete") \/ Goto(g, "action.spawn")
    BY <1>5 DEF ActionCloses, ActionDeletes, Closes
  <2>3. Answers
    BY <1>0, <1>1, <2>2 DEF Goto, Frames
  <2>. QED BY <1>0, <2>1, <2>2, <2>3, PanicsBacked, GotoBacked DEF Behind, RowsBacked
<1>6. CASE ActionSpawns(g)
  <2>1. PICK u \in Unblockers :
          /\ At(u, "new")
          /\ go' = [go EXCEPT
                      ![g].pc = "action.save",
                      ![u] = [Frame("unblocker.waiting") EXCEPT
                                !.ip = go[g].ip, !.rec = go[g].arec]]
    BY <1>6 DEF ActionSpawns, Fresh
  <2>2. /\ u \in Goroutines /\ u # g /\ UNCHANGED blocks
        /\ go[g].pc \in Behind /\ "action.save" \in Behind \ {"action.lookup"}
    BY <1>6, <2>1 DEF Goroutines, ActionSpawns, At, outside, dbVars, Behind
  <2>. DEFINE f == [Frame("unblocker.waiting") EXCEPT !.ip = go[g].ip, !.rec = go[g].arec]
  <2>3. /\ f.ip = go[g].ip /\ f.rec = go[g].arec /\ f.arec = NewRecord
        /\ f.pc = "unblocker.waiting" /\ f.action = "all"
    BY DEF Frame
  <2>4. go' = [go EXCEPT ![g].pc = "action.save", ![u] = f]
    BY <2>1
  <2>. HIDE DEF f
  <2>5. FrameBacked(f, D)
    BY <1>0, <2>3, NewBacked DEF GoBacked, FrameBacked, Behind
  <2>6. Answers
    BY <1>0, <2>2, <2>4 DEF Frames
  <2>. QED BY <1>0, <2>2, <2>3, <2>4, <2>5, <2>6, StartBacked DEF RowsBacked
<1>7. CASE ActionSaves(g)
  <2>1. go[g].pc \in Behind /\ Returns(g)
    BY <1>7 DEF ActionSaves, At, Behind
  <2>2. Backed(go[g].arec, go[g].ip, D) /\ <<go[g].ip, go[g].action>> \in D
    BY <1>0, <2>1 DEF GoBacked, FrameBacked
  <2>3. RowsBacked(blocks', D)
    BY <1>0, <1>7, <2>2 DEF ActionSaves, Update, UpdateFails, dbVars, RowsBacked
  <2>. QED BY <2>1, <2>2, <2>3, ReturnsBacked DEF Answered
<1>. QED BY <1>2, <1>3, <1>4, <1>5, <1>6, <1>7 DEF ActionSteps

-----------------------------------------------------------------------------
(* What the engine has done *)

(* The invariant: every record, in the table or in a goroutine, claims     *)
(* what was carried out, and so does every answer; what was a rule was     *)
(* noted.                                                                  *)
EffectsOK ==
  /\ RowsBacked(blocks, Carried)
  /\ GoBacked(go, Carried)
  /\ RunsAll(go)
  /\ rules \subseteq effects
  /\ \A a \in answers : Answered(a.ip, a.action, Carried)

(* What is done stays done.                                                *)
LEMMA CarriedGrows ==
  ASSUME effects \subseteq effects', objects \subseteq objects' PROVE Carried \subseteq Carried'
<1>1. \A x, ip : Ran(x, ip) => Ran(x, ip)'
  BY DEF Ran
<1>2. \A ip, action : Done(ip, action) => Done(ip, action)'
  BY <1>1 DEF Done
<1>. QED BY <1>2 DEF Carried

(* More that is done answers what less does.                               *)
LEMMA AnsweredGrows ==
  ASSUME NEW ip, NEW action, NEW D, NEW E, D \subseteq E, Answered(ip, action, D)
  PROVE  Answered(ip, action, E)
BY DEF Answered

(* A step that only moves goroutines and rows.                             *)
LEMMA QuietEffects ==
  ASSUME EffectsOK, rules' \subseteq rules, UNCHANGED <<objects, effects, answers>>,
         RowsBacked(blocks', Carried), GoBacked(go', Carried), RunsAll(go')
  PROVE  EffectsOK'
<1>1. Carried' = Carried
  BY DEF Carried, Done, Ran
<1>. QED BY <1>1 DEF EffectsOK

(* Where no call fails, the action that is executed is done.               *)
LEMMA ExecutesDone ==
  ASSUME ~Calls, StateOK, EffectsOK, NEW g \in Callers, Executes(g)
  PROVE  /\ <<go[g].ip, go[g].action>> \in Carried'
         /\ Carried \subseteq Carried' /\ rules' \subseteq effects'
<1>0. PICK ip, action : ip = go[g].ip /\ action = go[g].action
  OBVIOUS
<1>1. /\ g \in Goroutines /\ ip \in IPs /\ action \in Registered \cup {"all"}
  <2>1. InAction(g) /\ go[g].pc = "action.execute"
    BY ExecutesInAction DEF Executes, ActionExecutes, At
  <2>. QED BY <1>0, <2>1, ActsOnAddress DEF EffectsOK, GoBacked, FrameBacked
<1>2. /\ effects' = effects \cup rules'
      /\ ActionExecutes(g)
  BY DEF Executes
<1>3. \E mayFail : \E done \in Outcomes(StoresOf(action), mayFail) : Writes(done, ip, now)
  BY <1>0 DEF Executes
<1>4. Writes(StoresOf(action), ip, now)
  BY <1>3 DEF Outcomes, Calls
<1>5. objects \subseteq objects'
  BY <1>4 DEF Writes
<1>6. \A s \in StoresOf(action) : \E o \in objects' : o.store = s /\ o.ip = ip
  <2>1. ASSUME NEW s \in StoresOf(action) PROVE \E o \in objects' : o.store = s /\ o.ip = ip
    <3>1. Object(s, ip, now) \in objects'
      BY <1>4 DEF Writes
    <3>2. Object(s, ip, now).store = s /\ Object(s, ip, now).ip = ip
      BY DEF Object
    <3>. QED BY <3>1, <3>2
  <2>. QED BY <2>1
<1>7. "gcp_firewall" \in RunBy(action) => ip \in rules'
  BY <1>0, <1>1, <1>2 DEF RunBy, ActionExecutes, RuleInserted, InsertRefused, Calls
<1>8. Done(ip, action)'
  <2>1. RunBy(action) \subseteq Registered
    BY <1>1, ConfigAssumption DEF RunBy
  <2>2. ASSUME NEW x \in RunBy(action) PROVE Ran(x, ip)'
    <3>1. CASE x = "gcp_firewall"
      BY <1>2, <1>7, <2>2, <3>1 DEF Ran
    <3>2. CASE x # "gcp_firewall"
      <4>1. x \in StoresOf(action)
        BY <2>1, <2>2, <3>2 DEF StoresOf, Stores, Registered
      <4>. QED BY <1>6, <3>2, <4>1 DEF Ran
    <3>. QED BY <3>1, <3>2
  <2>. QED BY <2>2 DEF Done
<1>9. <<ip, action>> \in Carried'
  BY <1>1, <1>8 DEF Carried, ActionValues
<1>. QED BY <1>0, <1>2, <1>5, <1>9, CarriedGrows

(* So the call of the actioners keeps the invariant.                       *)
LEMMA ExecutesEffects ==
  ASSUME ~Calls, StateOK, EffectsOK, NEW g \in Callers, Executes(g) PROVE EffectsOK'
<1>1. PICK D : D = Carried'
  OBVIOUS
<1>2. /\ <<go[g].ip, go[g].action>> \in D
      /\ Carried \subseteq D /\ rules' \subseteq effects'
  BY <1>1, ExecutesDone
<1>3. RowsBacked(blocks, D) /\ GoBacked(go, D) /\ RunsAll(go)
  BY <1>2, BackedGrows DEF EffectsOK
<1>4. g \in Goroutines /\ go \in [Goroutines -> Frames] /\ go[g].arec \in Records
  BY DEF Callers, Goroutines, Requests, StateOK, GoOK, Frames
<1>5. /\ go[g].pc = "action.execute" /\ UNCHANGED blocks
      /\ Executed(g) \/ Returns(g)
  BY DEF Executes, ActionExecutes, At, dbVars
<1>6. CASE Executed(g)
  <2>. DEFINE r == MarkTaken(go[g].arec)
              l == IF go[g].action \in Blocking THEN "action.lookup" ELSE "action.save"
              f == [go[g] EXCEPT !.arec = r, !.pc = l]
  <2>1. go' = [go EXCEPT ![g] = f]
    BY <1>4, <1>6 DEF Executed
  <2>2. /\ f.ip = go[g].ip /\ f.rec = go[g].rec /\ f.arec = r
        /\ f.pc = l /\ f.action = go[g].action
    BY <1>4 DEF Frames
  <2>3. /\ Backed(go[g].arec, go[g].ip, D) /\ Backed(go[g].rec, go[g].ip, D)
        /\ go[g].action \in Registered \cup {"all"}
    BY <1>3, <1>4, <1>5 DEF GoBacked, FrameBacked
  <2>4. r.blockedAt = go[g].arec.blockedAt
    BY <1>4 DEF MarkTaken, Records
  <2>. HIDE DEF f, r
  <2>5. Backed(r, go[g].ip, D)
    BY <1>2, <2>3, <2>4 DEF Backed
  <2>6. FrameBacked(f, D)
    BY <1>2, <2>2, <2>3, <2>5 DEF FrameBacked, Behind
  <2>7. GoBacked(go', D) /\ RunsAll(go')
    BY <1>3, <1>4, <2>1, <2>2, <2>6, SetBacked
  <2>8. answers' = answers
    <3>1. go'[g].pc # "done"
      BY <1>4, <2>1, <2>2
    <3>. QED BY <3>1 DEF Executes, Tells
  <2>. QED BY <1>1, <1>2, <1>3, <1>5, <2>7, <2>8, AnsweredGrows DEF EffectsOK
<1>7. CASE Returns(g)
  <2>1. GoBacked(go', D) /\ RunsAll(go')
    BY <1>2, <1>3, <1>7, ReturnsBacked
  <2>2. answers' \subseteq answers \cup {Answer(g)}
    BY DEF Executes, Tells
  <2>3. Answered(Answer(g).ip, Answer(g).action, D)
    BY <1>2 DEF Answer, Answered
  <2>. QED BY <1>1, <1>2, <1>3, <1>5, <2>1, <2>2, <2>3, AnsweredGrows DEF EffectsOK
<1>. QED BY <1>5, <1>6, <1>7

(* So does the rest of ExecuteAction.                                      *)
LEMMA ActsEffects ==
  ASSUME StateOK, EffectsOK, NEW g \in Callers, Acts(g) PROVE EffectsOK'
<1>0. /\ RowsBacked(blocks, Carried) /\ GoBacked(go, Carried) /\ RunsAll(go)
      /\ UNCHANGED <<effects, objects>> /\ Tells(g)
  BY DEF EffectsOK, Acts
<1>1. CASE g \in Timers /\ TimerSelects(g)
  <2>1. RowsBacked(blocks', Carried) /\ GoBacked(go', Carried) /\ RunsAll(go')
    BY <1>0, <1>1, TimerStepsBacked DEF TimerSteps
  <2>2. UNCHANGED <<rules, answers>>
    BY <1>0, <1>1, KindsDiffer DEF TimerSelects, outside, Tells
  <2>. QED BY <1>0, <2>1, <2>2, QuietEffects
<1>2. CASE ActionSteps(g) /\ ~ActionExecutes(g)
  <2>1. /\ RowsBacked(blocks', Carried) /\ GoBacked(go', Carried) /\ RunsAll(go')
        /\ go'[g].pc = "done" => Answered(go[g].ip, go[g].action, Carried)
    BY <1>0, <1>2, ActionStepsBacked
  <2>2. rules' = rules
    BY <1>2 DEF ActionSteps, ActionSelects, ActionInserts, ActionLooksUp, ActionCloses,
                ActionDeletes, ActionSpawns, ActionSaves, outside
  <2>3. \A a \in answers' : Answered(a.ip, a.action, Carried)
    BY <1>0, <2>1 DEF EffectsOK, Tells, Answer
  <2>4. Carried' = Carried
    BY <1>0 DEF Carried, Done, Ran
  <2>. QED BY <1>0, <2>1, <2>2, <2>3, <2>4 DEF EffectsOK
<1>. QED BY <1>1, <1>2
         DEF Acts, ActionSteps, ActionSelects, ActionInserts, ActionExecutes, ActionLooksUp,
             ActionCloses, ActionDeletes, ActionSpawns, ActionSaves, At

(* And the steps that leave messages, answers and objects alone.           *)
LEMMA OtherEffects ==
  ASSUME StateOK, EffectsOK, Arrival \/ OwnSteps, UNCHANGED sideVars PROVE EffectsOK'
<1>0. /\ RowsBacked(blocks, Carried) /\ GoBacked(go, Carried) /\ RunsAll(go)
      /\ UNCHANGED <<effects, objects, answers>>
  BY DEF EffectsOK, sideVars
<1>1. ASSUME NEW e \in Events, EventArrives(e) \/ EventSelects(e) \/ EventInserts(e) \/ EventSaves(e)
      PROVE  EffectsOK'
  <2>1. RowsBacked(blocks', Carried) /\ GoBacked(go', Carried) /\ RunsAll(go')
    BY <1>0, <1>1, EventStepsBacked DEF EventSteps
  <2>2. rules' = rules
    BY <1>1 DEF EventArrives, EventSelects, EventInserts, EventSaves, outside
  <2>. QED BY <1>0, <2>1, <2>2, QuietEffects
<1>2. ASSUME NEW p \in Presses, PressArrives(p) PROVE EffectsOK'
  <2>1. RowsBacked(blocks', Carried) /\ GoBacked(go', Carried) /\ RunsAll(go')
    BY <1>0, <1>2, PressArrivesBacked
  <2>2. rules' = rules
    BY <1>2 DEF PressArrives
  <2>. QED BY <1>0, <2>1, <2>2, QuietEffects
<1>3. ASSUME NEW m \in Unblocks, ManualArrives(m) \/ ManualSteps(m) PROVE EffectsOK'
  <2>1. RowsBacked(blocks', Carried) /\ GoBacked(go', Carried) /\ RunsAll(go')
    BY <1>0, <1>3, ManualStepsBacked
  <2>2. rules' \subseteq rules
    BY <1>3 DEF ManualArrives, ManualSteps, ManualSelects, ManualInserts, ManualLooksUpTimer,
       ManualClosesTimer, ManualDeletesTimer, ManualLooksUpUnblock, ManualClosesUnblock,
       ManualDeletesUnblock, ManualUnblocks, ManualSaves, RuleDeleted, DeleteRefused, outside
  <2>. QED BY <1>0, <2>1, <2>2, QuietEffects
<1>4. ASSUME NEW t \in Timers, TimerFires(t) \/ TimerDeletes(t) PROVE EffectsOK'
  <2>1. RowsBacked(blocks', Carried) /\ GoBacked(go', Carried) /\ RunsAll(go')
    BY <1>0, <1>4, TimerStepsBacked DEF TimerSteps
  <2>2. rules' = rules
    BY <1>4 DEF TimerFires, TimerDeletes, outside
  <2>. QED BY <1>0, <2>1, <2>2, QuietEffects
<1>5. ASSUME NEW u \in Unblockers, UnblockerSteps(u) PROVE EffectsOK'
  <2>1. RowsBacked(blocks', Carried) /\ GoBacked(go', Carried) /\ RunsAll(go')
    BY <1>0, <1>5, UnblockerStepsBacked
  <2>2. rules' \subseteq rules
    BY <1>5 DEF UnblockerSteps, UnblockerWakes, UnblockerUnblocks, UnblockerSaves,
                UnblockerDeletes, RuleDeleted, DeleteRefused, outside
  <2>. QED BY <1>0, <2>1, <2>2, QuietEffects
<1>6. CASE Tick
  BY <1>0, <1>6, QuietEffects DEF Tick, memory, dbVars
<1>. QED BY <1>1, <1>2, <1>3, <1>4, <1>5, <1>6 DEF Arrival, OwnSteps

(* Every step of the engine keeps the invariant, where no call fails.      *)
LEMMA NextEffects ==
  ASSUME ~Calls PROVE StateOK /\ EffectsOK /\ [EngineNext]_engineVars => EffectsOK'
<1>. SUFFICES ASSUME StateOK, EffectsOK, [EngineNext]_engineVars PROVE EffectsOK'
  OBVIOUS
<1>0. RowsBacked(blocks, Carried) /\ GoBacked(go, Carried) /\ RunsAll(go)
  BY DEF EffectsOK
<1>1. ASSUME NEW e \in Events, Notifies(e) \/ Arms(e) PROVE EffectsOK'
  <2>1. EventSteps(e) /\ UNCHANGED <<rules, objects, effects, answers>>
    BY <1>1 DEF Notifies, Arms, EventSteps, EventNotifies, EventArms, outside
  <2>2. RowsBacked(blocks', Carried) /\ GoBacked(go', Carried) /\ RunsAll(go')
    BY <1>0, <2>1, EventStepsBacked
  <2>. QED BY <2>1, <2>2, QuietEffects
<1>2. ASSUME NEW t \in Timers, Rewrites(t) PROVE EffectsOK'
  <2>1. TimerSteps(t) /\ UNCHANGED <<rules, objects, effects, answers>>
    BY <1>2 DEF Rewrites, TimerSteps, TimerUpdates, outside
  <2>2. RowsBacked(blocks', Carried) /\ GoBacked(go', Carried) /\ RunsAll(go')
    BY <1>0, <2>1, TimerStepsBacked
  <2>. QED BY <2>1, <2>2, QuietEffects
<1>3. ASSUME NEW g \in Callers, Executes(g) \/ Acts(g) PROVE EffectsOK'
  BY <1>3, ExecutesEffects, ActsEffects
<1>4. CASE (Arrival \/ OwnSteps) /\ UNCHANGED <<startupVars, sideVars>>
  BY <1>4, OtherEffects
<1>5. CASE UNCHANGED <<vars, sideVars>>
  <2>1. UNCHANGED <<blocks, go, rules, objects, effects, answers>>
    BY <1>5 DEF vars, memory, outside, dbVars, sideVars
  <2>. QED BY <1>0, <2>1, QuietEffects
<1>6. CASE Exits
  <2>1. Stops /\ UNCHANGED <<rules, blocks, objects, effects, answers>>
    BY <1>6 DEF Exits, Restart, MapRace, outside, dbVars, sideVars
  <2>. QED BY <1>0, <2>1, StopsBacked, QuietEffects
<1>. QED BY <1>1, <1>2, <1>3, <1>4, <1>5, <1>6 DEF EngineNext, engineVars, Callers

(* Nothing is claimed before the first start.                              *)
LEMMA InitEffects == EngineInit => EffectsOK
<1>. SUFFICES ASSUME EngineInit PROVE EffectsOK
  OBVIOUS
<1>1. FrameBacked(Frame("new"), Carried) /\ Frame("new").action = "all"
  BY NewBacked DEF FrameBacked, Frame, Behind
<1>2. GoBacked(go, Carried) /\ RunsAll(go)
  BY <1>1 DEF EngineInit, Init, GoBacked, RunsAll
<1>3. RowsBacked(blocks, Carried)
  BY NewBacked DEF EngineInit, Init, TableInit, RowsBacked
<1>. QED BY <1>2, <1>3 DEF EngineInit, Init, FirewallInit, EffectsOK

(* The engine's types and effects, together.                               *)
LEMMA EngineStates == EngineSpec => []StateOK
<1>1. EngineInit => StateOK
  BY InitOK DEF EngineInit
<1>. QED BY <1>1, EngineState, PTL DEF EngineSpec

(* In every reachable state of every behaviour EffectsOK holds.            *)
LEMMA EffectsInvariant == ~Calls /\ EngineSpec => []EffectsOK
<1>. SUFFICES ASSUME ~Calls PROVE EngineSpec => []EffectsOK
  OBVIOUS
<1>1. StateOK /\ EffectsOK /\ [EngineNext]_engineVars => EffectsOK'
  BY NextEffects
<1>. QED BY <1>1, InitEffects, EngineStates, PTL DEF EngineSpec

(* Where there is an actioner to run, what is done has had an effect.      *)
LEMMA DoneHappened ==
  ASSUME Actioners # {}, NEW ip, NEW a \in Registered \cup {"all"}, <<ip, a>> \in Carried
  PROVE  Happened(ip)
<1>1. Done(ip, a)
  BY DEF Carried
<1>2. RunBy(a) # {}
  BY DEF RunBy
<1>3. PICK x \in RunBy(a) : Ran(x, ip)
  BY <1>1, <1>2 DEF Done
<1>. QED BY <1>3 DEF Ran, Happened

(* A row that says action_taken is one something was done about, whichever *)
(* goroutine wrote it and however stale its record (scenario.go, 151-169). *)
THEOREM TakenHasEffects == Actioners # {} /\ EngineSpec => []TakenHasEffect
<1>. SUFFICES ASSUME Actioners # {} PROVE EngineSpec => []TakenHasEffect
  OBVIOUS
<1>1. EffectsOK => TakenHasEffect
  BY DoneHappened DEF EffectsOK, RowsBacked, Backed, TakenHasEffect
<1>2. CASE Calls
  <2>1. TakenHasEffect
    BY <1>2 DEF TakenHasEffect
  <2>. QED BY <2>1, PTL
<1>3. CASE ~Calls
  BY <1>1, <1>3, EffectsInvariant, PTL
<1>. QED BY <1>2, <1>3

(* A callback that is told done for an action that names an actioner, or   *)
(* for "all", is told the truth: every actioner it stands for has run for  *)
(* the address, or it was a single one and the address is, or was, blocked *)
(* (server.go, 200-215).  The firewall has to be an actioner of "all".     *)
THEOREM ToldWhatIsDone == "gcp_firewall" \in Actioners /\ EngineSpec => []ToldIsDone
<1>. SUFFICES ASSUME "gcp_firewall" \in Actioners PROVE EngineSpec => []ToldIsDone
  OBVIOUS
<1>1. EffectsOK => ToldIsDone
  <2>. SUFFICES ASSUME EffectsOK, NEW a \in answers, a.action \in Registered \cup {"all"}
                PROVE  AnswerTrue(a)
    BY DEF ToldIsDone
  <2>1. Answered(a.ip, a.action, Carried)
    BY DEF EffectsOK
  <2>2. CASE <<a.ip, a.action>> \in Carried
    BY <2>2 DEF Carried, AnswerTrue
  <2>3. ASSUME a.action # "all", NEW b \in Blocking, <<a.ip, b>> \in Carried
        PROVE  AnswerTrue(a)
    <3>1. "gcp_firewall" \in RunBy(b) /\ Done(a.ip, b)
      BY <2>3 DEF Carried, RunBy, Blocking
    <3>. QED BY <2>3, <3>1 DEF Done, Ran, AnswerTrue
  <2>. QED BY <2>1, <2>2, <2>3 DEF Answered
<1>2. CASE Calls
  <2>1. ToldIsDone
    BY <1>2 DEF ToldIsDone
  <2>. QED BY <2>1, PTL
<1>3. CASE ~Calls
  BY <1>1, <1>3, EffectsInvariant, PTL
<1>. QED BY <1>2, <1>3

-----------------------------------------------------------------------------
(* The messages *)

(* An event that has not posted its message, or has it still to post.      *)
Early == {"new", "event.select", "event.insert", "event.notify"}

(* A goroutine that does nothing.                                          *)
Gone == Ended \cup {"new"}

(* What no step but two does: let an event post again or arm a timer, or   *)
(* make a timer run, or run for another address.                           *)
Settles(h, f) ==
  /\ h \in Events /\ f.pc \in Early => go[h].pc \in Early
  /\ h \in Events /\ f.pc = "event.arm" => go[h].pc = "event.arm" /\ f.ip = go[h].ip
  /\ h \in Timers /\ f.pc \notin Gone => go[h].pc \notin Gone /\ f.ip = go[h].ip

Settled == \A h \in Goroutines : Settles(h, go'[h])

(* Events and timers are neither of the other kinds.                       *)
LEMMA NoEventNoTimer ==
  /\ (Presses \cup Unblocks \cup Unblockers) \cap (Events \cup Timers) = {}
  /\ Events \cap Timers = {}
<1>. DEFINE kinds == <<Events, Presses, Unblocks, Timers, Unblockers>>
<1>1. \A i, j \in 1..5 : i # j => kinds[i] \cap kinds[j] = {}
  BY ManagerAssumption
<1>2. /\ kinds[1] = Events /\ kinds[2] = Presses /\ kinds[3] = Unblocks
      /\ kinds[4] = Timers /\ kinds[5] = Unblockers
  OBVIOUS
<1>. HIDE DEF kinds
<1>3. kinds[1] \cap kinds[2] = {}
  BY <1>1
<1>. QED BY <1>2, <1>3, KindsDiffer

(* A step that changes one goroutine, and may start an unblock.            *)
LEMMA OneSettles ==
  ASSUME NEW g \in Goroutines, Settles(g, go'[g]),
         \A h \in Goroutines : h # g /\ h \notin Unblockers => go'[h] = go[h]
  PROVE  Settled
BY NoEventNoTimer DEF Settled, Settles, Gone, Ended

(* A step of another kind of goroutine.                                    *)
LEMMA OtherSettles ==
  ASSUME NEW g \in Presses \cup Unblocks \cup Unblockers,
         \A h \in Goroutines : h # g /\ h \notin Unblockers => go'[h] = go[h]
  PROVE  Settled
BY NoEventNoTimer, OneSettles DEF Settles, Goroutines, Requests

(* The process stops.                                                      *)
LEMMA StopsSettles == ASSUME Stops PROVE Settled
BY DEF Stops, Settled, Settles, Frame, Gone, Ended, Early

(* A goroutine ends, or the process.                                       *)
LEMMA EndSettles ==
  ASSUME StateOK, NEW g \in Goroutines, NEW l \in Ended, End(g, l) PROVE Settled
<1>1. go'[g] = Frame(l) /\ \A h \in Goroutines : h # g => go'[h] = go[h]
  BY DEF End, StateOK, GoOK
<1>. QED BY <1>1, OneSettles DEF Settles, Frame, Gone, Ended, Early

(* So it does on a panic.                                                  *)
LEMMA PanicsSettles ==
  ASSUME StateOK, NEW g \in Goroutines, Panics(g) PROVE Settled
BY EndSettles, StopsSettles DEF Panics, Ended

(* A goroutine goes on to a later label.                                   *)
LEMMA LaterSettles ==
  ASSUME NEW g \in Goroutines,
         \A h \in Goroutines : h # g /\ h \notin Unblockers => go'[h] = go[h],
         go'[g].ip = go[g].ip, go'[g].pc \notin Early \cup {"event.arm"},
         go[g].pc \notin Gone
  PROVE  Settled
BY OneSettles DEF Settles

(* ExecuteAction.                                                          *)
LEMMA ActionSettles ==
  ASSUME StateOK, NEW g \in Callers, InAction(g) PROVE Settled
<1>0. /\ g \in Goroutines /\ go \in [Goroutines -> Frames] /\ go[g].pc \notin Gone
  BY DEF StateOK, GoOK, Callers, Goroutines, Requests, InAction, ActionSteps, ActionSelects,
         ActionInserts, ActionExecutes, ActionLooksUp, ActionCloses, ActionDeletes,
         ActionSpawns, ActionSaves, TimerSelects, At, Gone, Ended
<1>1. ASSUME NEW l, l \notin Early \cup {"event.arm"}, Goto(g, l) PROVE Settled
  <2>1. /\ go'[g].pc = l /\ go'[g].ip = go[g].ip
        /\ \A h \in Goroutines : h # g => go'[h] = go[h]
    BY <1>0, <1>1 DEF Goto, Frames
  <2>. QED BY <1>0, <1>1, <2>1, LaterSettles
<1>2. ASSUME Returns(g) PROVE Settled
  <2>1. CASE End(g, "done")
    BY <1>0, <2>1, EndSettles DEF Ended
  <2>2. CASE go' = [go EXCEPT
                      ![g].arec = NewRecord, ![g].chan = None,
                      ![g].pc = IF g \in Events THEN "event.save" ELSE "timer.update"]
    <3>1. /\ go'[g].pc \in {"event.save", "timer.update"} /\ go'[g].ip = go[g].ip
          /\ \A h \in Goroutines : h # g => go'[h] = go[h]
      BY <1>0, <2>2 DEF Frames
    <3>. QED BY <1>0, <3>1, LaterSettles DEF Early
  <2>. QED BY <1>2, <2>1, <2>2 DEF Returns
<1>3. ASSUME NEW row, ActionStarts(g, row) PROVE Settled
  <2>1. CASE go' = [go EXCEPT ![g].arec = row, ![g].pc = "action.execute"]
    <3>1. /\ go'[g].pc = "action.execute" /\ go'[g].ip = go[g].ip
          /\ \A h \in Goroutines : h # g => go'[h] = go[h]
      BY <1>0, <2>1 DEF Frames
    <3>. QED BY <1>0, <3>1, LaterSettles DEF Early
  <2>. QED BY <1>2, <1>3, <2>1 DEF ActionStarts
<1>4. CASE ActionSelects(g) \/ ActionInserts(g)
  BY <1>0, <1>1, <1>3, <1>4, PanicsSettles DEF ActionSelects, ActionInserts, Early
<1>5. CASE ActionExecutes(g)
  <2>1. ASSUME Executed(g) PROVE Settled
    <3>1. /\ go'[g].pc \in {"action.lookup", "action.save"} /\ go'[g].ip = go[g].ip
          /\ \A h \in Goroutines : h # g => go'[h] = go[h]
      BY <1>0, <2>1 DEF Executed, Frames
    <3>. QED BY <1>0, <3>1, LaterSettles DEF Early
  <2>. QED BY <1>2, <1>5, <2>1 DEF ActionExecutes
<1>6. CASE ActionLooksUp(g)
  <2>1. /\ go'[g].pc \in {"action.close", "action.spawn"} /\ go'[g].ip = go[g].ip
        /\ \A h \in Goroutines : h # g => go'[h] = go[h]
    BY <1>0, <1>6 DEF ActionLooksUp, Frames
  <2>. QED BY <1>0, <2>1, LaterSettles DEF Early
<1>7. CASE ActionCloses(g) \/ ActionDeletes(g)
  BY <1>0, <1>1, <1>7, PanicsSettles DEF ActionCloses, ActionDeletes, Closes, Early
<1>8. CASE ActionSpawns(g)
  <2>0. PICK u \in Unblockers :
          \E f : go' = [go EXCEPT ![g].pc = "action.save", ![u] = f]
    BY <1>8 DEF ActionSpawns
  <2>1. PICK f : go' = [go EXCEPT ![g].pc = "action.save", ![u] = f]
    BY <2>0
  <2>2. g # u /\ u \in Goroutines
    BY KindsDiffer DEF Callers, Goroutines
  <2>3. /\ go'[g].pc = "action.save" /\ go'[g].ip = go[g].ip
        /\ \A h \in Goroutines : h # g /\ h \notin Unblockers => go'[h] = go[h]
    BY <1>0, <2>1, <2>2 DEF Frames
  <2>. QED BY <1>0, <2>3, LaterSettles DEF Early
<1>9. CASE ActionSaves(g)
  BY <1>2, <1>9 DEF ActionSaves
<1>10. CASE g \in Timers /\ TimerSelects(g)
  <2>1. \/ Goto(g, "timer.delete") \/ Goto(g, "action.select") \/ Panics(g)
    BY <1>10 DEF TimerSelects
  <2>. QED BY <1>0, <1>1, <2>1, PanicsSettles DEF Early
<1>. QED BY <1>4, <1>5, <1>6, <1>7, <1>8, <1>9, <1>10 DEF InAction, ActionSteps

(* handleEvent receives an event.                                          *)
LEMMA EventArrivesSettles ==
  ASSUME StateOK, NEW e \in Events, EventArrives(e) PROVE Settled
<1>0. e \in Goroutines /\ go \in [Goroutines -> Frames]
  BY DEF Goroutines, Requests, StateOK, GoOK
<1>1. go[e].pc = "new"
  BY DEF Goroutines, Requests, EventArrives, Arrives, Fresh, At, StateOK, GoOK
<1>2. CASE End(e, "done")
  BY <1>0, <1>2, EndSettles DEF Ended
<1>3. ASSUME NEW ip, go' = [go EXCEPT ![e].ip = ip, ![e].pc = "event.select"]
      PROVE  Settled
  <2>1. /\ \A h \in Goroutines : h # e => go'[h] = go[h]
        /\ go'[e].pc = "event.select"
    BY <1>0, <1>3, PlainStep
  <2>. QED BY <1>0, <1>1, <2>1, NoEventNoTimer, OneSettles DEF Settles, Early
<1>. QED BY <1>2, <1>3 DEF EventArrives

(* The other steps that neither post a message nor arm a timer.            *)
LEMMA QuietSettles ==
  ASSUME StateOK, \/ Arrival \/ OwnSteps
                  \/ \E t \in Timers : TimerUpdates(t)
  PROVE  Settled
<1>0. go \in [Goroutines -> Frames]
  BY DEF StateOK, GoOK
<1>1. ASSUME NEW e \in Events, EventArrives(e) PROVE Settled
  BY <1>1, EventArrivesSettles
<1>2. ASSUME NEW e \in Events, EventSelects(e) \/ EventInserts(e) PROVE Settled
  <2>1. e \in Goroutines /\ go[e].pc \in {"event.select", "event.insert"}
    BY <1>2 DEF Goroutines, Requests, EventSelects, EventInserts, At
  <2>2. ASSUME NEW row, EventCounts(e, row) PROVE Settled
    <3>1. CASE End(e, "done")
      BY <2>1, <3>1, EndSettles DEF Ended
    <3>2. ASSUME NEW c, go' = [go EXCEPT ![e].rec = c, ![e].pc = AfterCount(c)]
          PROVE  Settled
      <4>1. /\ go'[e].pc \in {"event.save", "event.notify", "action.select"}
            /\ \A h \in Goroutines : h # e => go'[h] = go[h]
        BY <1>0, <2>1, <3>2 DEF AfterCount, Frames
      <4>. QED BY <2>1, <4>1, NoEventNoTimer, OneSettles DEF Settles, Early
    <3>. QED BY <2>2, <3>1, <3>2 DEF EventCounts
  <2>3. ASSUME Goto(e, "event.insert") PROVE Settled
    <3>1. /\ go'[e].pc = "event.insert" /\ \A h \in Goroutines : h # e => go'[h] = go[h]
      BY <1>0, <2>1, <2>3 DEF Goto, Frames
    <3>. QED BY <2>1, <3>1, NoEventNoTimer, OneSettles DEF Settles, Early
  <2>4. ASSUME End(e, "failed") PROVE Settled
    BY <2>1, <2>4, EndSettles DEF Ended
  <2>. QED BY <1>2, <2>2, <2>3, <2>4 DEF EventSelects, EventInserts
<1>3. ASSUME NEW e \in Events, EventSaves(e) PROVE Settled
  BY <1>3, EndSettles DEF EventSaves, Ended, Goroutines, Requests
<1>4. ASSUME NEW p \in Presses, PressArrives(p) PROVE Settled
  <2>1. \A h \in Goroutines : h # p => go'[h] = go[h]
    BY <1>0, <1>4 DEF PressArrives, End
  <2>. QED BY <2>1, OtherSettles
<1>5. ASSUME NEW m \in Unblocks, ManualArrives(m) \/ ManualSteps(m) PROVE Settled
  <2>1. (\A h \in Goroutines : h # m => go'[h] = go[h]) \/ Panics(m)
    BY <1>0, <1>5 DEF ManualArrives, ManualSteps, ManualSelects, ManualStarts, ManualInserts,
       ManualLooksUpTimer, ManualClosesTimer, ManualDeletesTimer, ManualLooksUpUnblock,
       ManualClosesUnblock, ManualDeletesUnblock, ManualUnblocks, ManualSaves, LooksUp,
       Closes, Goto, End
  <2>. QED BY <2>1, OtherSettles, PanicsSettles DEF Goroutines, Requests
<1>6. ASSUME NEW t \in Timers, TimerFires(t) \/ TimerUpdates(t) \/ TimerDeletes(t)
      PROVE  Settled
  <2>1. t \in Goroutines /\ go[t].pc \notin Gone
    BY <1>6 DEF Goroutines, TimerFires, TimerUpdates, TimerDeletes, At, Gone, Ended
  <2>2. ASSUME NEW l \in {"timer.select", "timer.delete"}, Goto(t, l) PROVE Settled
    <3>1. /\ go'[t].pc = l /\ go'[t].ip = go[t].ip
          /\ \A h \in Goroutines : h # t => go'[h] = go[h]
      BY <1>0, <2>1, <2>2 DEF Goto, Frames
    <3>. QED BY <2>1, <3>1, LaterSettles DEF Early
  <2>. QED BY <1>6, <2>1, <2>2, EndSettles DEF TimerFires, TimerUpdates, TimerDeletes, Ended
<1>7. ASSUME NEW u \in Unblockers, UnblockerSteps(u) PROVE Settled
  <2>1. \A h \in Goroutines : h # u => go'[h] = go[h]
    BY <1>0, <1>7 DEF UnblockerSteps, UnblockerWakes, UnblockerUnblocks, UnblockerSaves,
                      UnblockerDeletes, Goto, End
  <2>. QED BY <2>1, OtherSettles
<1>8. CASE Tick
  BY <1>8 DEF Tick, memory, Settled, Settles
<1>. QED BY <1>1, <1>2, <1>3, <1>4, <1>5, <1>6, <1>7, <1>8 DEF Arrival, OwnSteps

(* The invariant of the messages.  A timer knows only a message that names *)
(* its own address and will not be posted again; what has lost its buttons *)
(* names an address something was done about.                              *)
NoticeOK ==
  /\ \A e \in Events : ts[e] # NoTs => ts[e] = e
  /\ \A e \in Events : At(e, "event.arm") /\ ts[e] # NoTs => message[e].ip = go[e].ip
  /\ \A t \in Timers : go[t].pc \notin Gone /\ notice[t] # NoTs =>
       /\ notice[t] \in Events /\ go[notice[t]].pc \notin Early
       /\ message[notice[t]].ip = go[t].ip
  /\ \A e \in Events : message[e].shows = "bare" => Happened(message[e].ip)

(* What has happened has happened.                                         *)
LEMMA HappenedStays ==
  ASSUME effects \subseteq effects', objects \subseteq objects', NEW ip, Happened(ip)
  PROVE  Happened(ip)'
BY DEF Happened

(* A step that leaves the messages alone.                                  *)
LEMMA SettledNotice ==
  ASSUME NoticeOK, Settled, UNCHANGED <<slackVars, notice>>,
         effects \subseteq effects', objects \subseteq objects'
  PROVE  NoticeOK'
<1>0. /\ ts' = ts /\ message' = message /\ notice' = notice
      /\ Events \subseteq Goroutines /\ Timers \subseteq Goroutines
  BY DEF slackVars, Goroutines, Requests
<1>1. (\A e \in Events : message[e].shows = "bare" => Happened(message[e].ip))'
  <2>. SUFFICES ASSUME NEW e \in Events, message[e].shows = "bare"
                PROVE  Happened(message[e].ip)'
    BY <1>0
  <2>1. PICK ip : ip = message[e].ip
    OBVIOUS
  <2>2. Happened(ip)'
    BY <2>1, HappenedStays DEF NoticeOK
  <2>. QED BY <1>0, <2>1, <2>2
<1>2. \A e \in Events : /\ go'[e].pc \in Early => go[e].pc \in Early
                        /\ go'[e].pc = "event.arm" => go[e].pc = "event.arm" /\ go'[e].ip = go[e].ip
  BY <1>0 DEF Settled, Settles
<1>3. \A t \in Timers : go'[t].pc \notin Gone => go[t].pc \notin Gone /\ go'[t].ip = go[t].ip
  BY <1>0 DEF Settled, Settles
<1>. QED BY <1>0, <1>1, <1>2, <1>3 DEF NoticeOK, At

(* A message is posted, or not: no timer knows it.                         *)
LEMMA NotifiesNotice ==
  ASSUME StateOK, EngineTypeOK, NoticeOK, NEW e \in Events, Notifies(e) PROVE NoticeOK'
<1>0. /\ go[e].pc = "event.notify" /\ e \in Goroutines /\ e \notin Timers
      /\ UNCHANGED <<notice, effects, objects>>
  BY NoEventNoTimer DEF Notifies, EventNotifies, At, Goroutines, Requests
<1>1. /\ go'[e].pc = "event.arm" /\ go'[e].ip = go[e].ip
      /\ \A h \in Goroutines : h # e => go'[h] = go[h]
  BY <1>0 DEF Notifies, EventNotifies, Goto, StateOK, GoOK, Frames
<1>2. /\ message \in [Events -> [shows : Shown, ip : IPs \cup {NoIP}]]
      /\ ts \in [Events -> Events \cup {NoTs}]
  BY EngineAssumption DEF EngineTypeOK
<1>3. \A d \in Events : d # e => message'[d] = message[d] /\ ts'[d] = ts[d]
  BY <1>2 DEF Notifies, Sends, SendFails, Posts
<1>4. \/ message'[e] = message[e]
      \/ message'[e] = [shows |-> "asking", ip |-> go[e].ip]
  BY <1>2 DEF Notifies, Sends, SendFails, Posts
<1>5. \/ ts'[e] = NoTs
      \/ ts'[e] = e /\ message'[e] = [shows |-> "asking", ip |-> go[e].ip]
  BY <1>2 DEF Notifies, Sends, SendFails, Posts
<1>6. (\A d \in Events : message[d].shows = "bare" => Happened(message[d].ip))'
  <2>1. \A d \in Events : message'[d].shows = "bare" => message'[d] = message[d]
    BY <1>3, <1>4
  <2>. QED BY <1>0, <2>1 DEF NoticeOK, Happened
<1>7. \A t \in Timers : go'[t] = go[t] /\ notice'[t] = notice[t]
  BY <1>0, <1>1 DEF Goroutines
<1>8. \A t \in Timers : go[t].pc \notin Gone /\ notice[t] # NoTs => notice[t] # e
  BY <1>0 DEF NoticeOK, Early
<1>9. \A d \in Events : d # e => go'[d] = go[d]
  BY <1>1 DEF Goroutines, Requests
<1>. QED BY <1>1, <1>3, <1>5, <1>6, <1>7, <1>8, <1>9 DEF NoticeOK, At

(* A timer is armed for the message its event has posted.                  *)
LEMMA ArmsNotice ==
  ASSUME StateOK, EngineTypeOK, NoticeOK, NEW e \in Events, Arms(e) PROVE NoticeOK'
<1>0. /\ go[e].pc = "event.arm" /\ e \in Goroutines /\ e \notin Timers
      /\ UNCHANGED <<slackVars, effects, objects>>
  BY NoEventNoTimer DEF Arms, EventArms, At, Goroutines, Requests
<1>1. PICK t \in Timers :
        /\ At(t, "new")
        /\ go' = [go EXCEPT
                    ![e].pc = "event.save",
                    ![t] = [Frame("timer.armed") EXCEPT
                              !.ip = go[e].ip, !.due = now + Timeout * Minute]]
  BY DEF Arms, EventArms, Fresh
<1>2. t \in Goroutines /\ t # e
  BY <1>0 DEF Goroutines
<1>3. /\ go'[t].ip = go[e].ip /\ go'[t].pc = "timer.armed"
      /\ go'[e].pc = "event.save"
      /\ \A h \in Goroutines : h \notin {e, t} => go'[h] = go[h]
  BY <1>0, <1>1, <1>2 DEF StateOK, GoOK, Frame, Frames
<1>4. \A s \in Timers : notice'[s] = IF s = t THEN ts[e] ELSE notice[s]
  <2>1. go'[t] # go[t]
    BY <1>1, <1>3 DEF At
  <2>2. \A s \in Timers : s # t => go'[s] = go[s]
    BY <1>0, <1>3 DEF Goroutines
  <2>. QED BY <2>1, <2>2 DEF Arms
<1>5. ts' = ts /\ message' = message
  BY <1>0 DEF slackVars
<1>6. (\A d \in Events : message[d].shows = "bare" => Happened(message[d].ip))'
  BY <1>0, <1>5 DEF NoticeOK, Happened
<1>7. \A d \in Events : d # e => go'[d] = go[d]
  BY <1>1, <1>3, NoEventNoTimer DEF Goroutines, Requests
<1>8. ASSUME NEW s \in Timers, go'[s].pc \notin Gone, notice'[s] # NoTs
      PROVE  /\ notice'[s] \in Events /\ go'[notice'[s]].pc \notin Early
             /\ message[notice'[s]].ip = go'[s].ip
  <2>1. CASE s = t
    BY <1>0, <1>3, <1>4, <1>8, <2>1 DEF NoticeOK, Early, At
  <2>2. CASE s # t
    <3>1. go'[s] = go[s] /\ notice'[s] = notice[s]
      BY <1>0, <1>3, <1>4, <2>2 DEF Goroutines
    <3>. QED BY <1>3, <1>7, <1>8, <3>1 DEF NoticeOK, Early
  <2>. QED BY <2>1, <2>2
<1>. QED BY <1>3, <1>5, <1>6, <1>7, <1>8 DEF NoticeOK, At

(* A timer takes the buttons off the message it knows, when its action is  *)
(* done.                                                                   *)
LEMMA RewritesNotice ==
  ASSUME Actioners # {}, StateOK, EngineTypeOK, EffectsOK, NoticeOK,
         NEW t \in Timers, Rewrites(t)
  PROVE  NoticeOK'
<1>0. /\ go[t].pc = "timer.update" /\ t \in Goroutines
      /\ UNCHANGED <<ts, notice, effects, objects>>
  BY DEF Rewrites, TimerUpdates, At, Goroutines
<1>1. Happened(go[t].ip)
  BY <1>0, DoneHappened DEF EffectsOK, GoBacked, FrameBacked, Behind
<1>2. Settled
  BY QuietSettles DEF Rewrites
<1>3. message \in [Events -> [shows : Shown, ip : IPs \cup {NoIP}]]
  BY EngineAssumption DEF EngineTypeOK
<1>4. notice[t] # NoTs => notice[t] \in Events /\ message[notice[t]].ip = go[t].ip
  BY <1>0 DEF NoticeOK, Gone, Ended
<1>5. /\ \A d \in Events : message'[d].ip = message[d].ip
      /\ \A d \in Events : message'[d].shows = "bare" =>
           message[d].shows = "bare" \/ (notice[t] # NoTs /\ d = notice[t])
  BY <1>3 DEF Rewrites, Updates
<1>6. (\A d \in Events : message[d].shows = "bare" => Happened(message[d].ip))'
  <2>1. \A d \in Events : message'[d].shows = "bare" => Happened(message[d].ip)
    BY <1>1, <1>4, <1>5 DEF NoticeOK
  <2>. QED BY <1>0, <1>5, <2>1 DEF Happened
<1>7. /\ Events \subseteq Goroutines /\ Timers \subseteq Goroutines
  BY DEF Goroutines, Requests
<1>8. \A e \in Events : /\ go'[e].pc \in Early => go[e].pc \in Early
                        /\ go'[e].pc = "event.arm" => go[e].pc = "event.arm" /\ go'[e].ip = go[e].ip
  BY <1>2, <1>7 DEF Settled, Settles
<1>9. \A s \in Timers : go'[s].pc \notin Gone => go[s].pc \notin Gone /\ go'[s].ip = go[s].ip
  BY <1>2, <1>7 DEF Settled, Settles
<1>. QED BY <1>0, <1>5, <1>6, <1>8, <1>9 DEF NoticeOK, At

(* Every step of the engine keeps the invariant of the messages.           *)
LEMMA NextNotice ==
  ASSUME Actioners # {}
  PROVE  StateOK /\ EngineTypeOK /\ EffectsOK /\ NoticeOK /\ [EngineNext]_engineVars => NoticeOK'
<1>. SUFFICES ASSUME StateOK, EngineTypeOK, EffectsOK, NoticeOK, [EngineNext]_engineVars
              PROVE  NoticeOK'
  OBVIOUS
<1>1. ASSUME NEW e \in Events, Notifies(e) \/ Arms(e) PROVE NoticeOK'
  BY <1>1, NotifiesNotice, ArmsNotice
<1>2. ASSUME NEW t \in Timers, Rewrites(t) PROVE NoticeOK'
  BY <1>2, RewritesNotice
<1>3. ASSUME NEW g \in Callers, Executes(g) PROVE NoticeOK'
  <2>1. /\ Settled /\ UNCHANGED <<slackVars, notice>> /\ effects \subseteq effects'
    BY <1>3, ExecutesInAction, ActionSettles DEF Executes
  <2>2. objects \subseteq objects'
    BY <1>3 DEF Executes, Writes
  <2>. QED BY <2>1, <2>2, SettledNotice
<1>4. ASSUME NEW g \in Callers, Acts(g) PROVE NoticeOK'
  <2>1. /\ Settled /\ UNCHANGED <<slackVars, notice, effects, objects>>
    BY <1>4, ActsInAction, ActionSettles DEF Acts
  <2>. QED BY <2>1, SettledNotice
<1>5. CASE (Arrival \/ OwnSteps) /\ UNCHANGED <<startupVars, sideVars>>
  BY <1>5, QuietSettles, SettledNotice DEF sideVars
<1>6. CASE UNCHANGED <<vars, sideVars>>
  <2>1. Settled
    BY <1>6 DEF vars, memory, Settled, Settles
  <2>. QED BY <1>6, <2>1, SettledNotice DEF sideVars
<1>7. CASE Exits
  <2>1. Settled
    BY <1>7, StopsSettles DEF Exits, Restart, MapRace
  <2>. QED BY <1>7, <2>1, SettledNotice DEF Exits, sideVars
<1>. QED BY <1>1, <1>2, <1>3, <1>4, <1>5, <1>6, <1>7 DEF EngineNext, engineVars, Callers

(* A message loses its buttons only where something was done about the     *)
(* address it names, whoever did it (scenario.go, 103-124).                *)
THEOREM ButtonsStay == Actioners # {} /\ EngineSpec => []ButtonsStayUntilActed
<1>. SUFFICES ASSUME Actioners # {} PROVE EngineSpec => []ButtonsStayUntilActed
  OBVIOUS
<1>1. EngineInit => NoticeOK
  BY EngineAssumption DEF EngineInit, Init, SlackInit, NoticeOK, At, Frame
<1>2. StateOK /\ EngineTypeOK /\ EffectsOK /\ NoticeOK /\ [EngineNext]_engineVars => NoticeOK'
  BY NextNotice
<1>3. NoticeOK => ButtonsStayUntilActed
  BY DEF NoticeOK, ButtonsStayUntilActed
<1>4. CASE Calls
  <2>1. ButtonsStayUntilActed
    BY <1>4 DEF ButtonsStayUntilActed
  <2>. QED BY <2>1, PTL
<1>5. CASE ~Calls
  BY <1>1, <1>2, <1>3, <1>5, EngineStates, EngineTypes, EffectsInvariant, PTL DEF EngineSpec
<1>. QED BY <1>4, <1>5

=============================================================================
