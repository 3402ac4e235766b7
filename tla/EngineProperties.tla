-------------------------- MODULE EngineProperties --------------------------
(***************************************************************************)
(* What the engine is to guarantee to those who use it: Slack, the bucket  *)
(* and the people who read the one and the other.                          *)
(***************************************************************************)
EXTENDS Engine

(* The variables that module Manager does not have have their types.       *)
EngineTypeOK ==
  /\ stage \in Stages
  /\ file \in ConfigFiles \cup {NoFile}
  /\ pending \subseteq DOMAIN file.aliases
  /\ \A path \in DOMAIN routes :
       routes[path] \in {"handleEvent", "handleSlackCallback"}
  /\ dashboard \in {"off", "starting", "serving"}
  /\ message \in [Messages -> [shows : Shown, ip : IPs \cup {NoIP}]]
  /\ ts \in [Messages -> Messages \cup {NoTs}]
  /\ notice \in [Timers -> Messages \cup {NoTs}]
  /\ objects \subseteq [store : Stores, ip : IPs, at : Nat]
  /\ answers \subseteq [ip : IPs, action : ActionValues]
  /\ effects \subseteq IPs

(* Once it serves, the engine serves every alias and the callback of its   *)
(* configuration, whatever the order of the aliases; a configuration with  *)
(* a path too many, or one it cannot read, never gets that far (server.go, *)
(* 63-87).                                                                 *)
RoutesComplete ==
  stage = "serving" =>
    LET callback == CallbackOf(file)
        paths    == {file.aliases[a] : a \in DOMAIN file.aliases}
    IN /\ callback \notin paths
       /\ routes = [p \in paths \cup {callback} |->
                      IF p = callback THEN "handleSlackCallback"
                                      ELSE "handleEvent"]

(* A firewall or a storage call may fail.                                  *)
Calls == CallMayFail \/ StoreMayFail

(* The address was dealt with: it has, or had, a rule or an object.        *)
Happened(ip) == ip \in effects \cup {o.ip : o \in objects}

(* A row says action_taken only where an action has had an effect outside, *)
(* whichever goroutine wrote the row, and before or after a restart        *)
(* (scenario.go, 151-169).                                                 *)
TakenHasEffect ==
  Calls \/ \A ip \in IPs : blocks[ip].actionTaken => Happened(ip)

(* Actioner x has run for ip: there is, or was, a rule, or there is an     *)
(* object of its store.  A value no actioner has never has run.            *)
Ran(x, ip) ==
  IF x = "gcp_firewall" THEN ip \in effects
  ELSE \E o \in objects : o.store = x /\ o.ip = ip

(* All that action stands for has run for ip.                              *)
Done(ip, action) == \A x \in RunBy(action) : Ran(x, ip)

(* An answer is true when all its action stands for has run, or when a     *)
(* single action was not needed because the address is, or was, blocked.   *)
AnswerTrue(a) ==
  \/ Done(a.ip, a.action)
  \/ a.action # "all" /\ a.ip \in effects

(* The callback answers that the action is done (server.go, 200-215).  For *)
(* "all" and for every value that names an actioner it is: the answer, the *)
(* rules and the bucket agree, whatever timers and unblocks did and        *)
(* whatever stopped and started in between.  A value no actioner has gets   *)
(* the same answer, and nothing is done (scenario.go, 164).                *)
ToldIsDone ==
  Calls \/
    \A a \in answers : a.action \in Registered \cup {"all"} => AnswerTrue(a)

(* A message loses its buttons only where somebody, or its timer, has done *)
(* something about the address it names, whatever other messages are open  *)
(* and whatever became of the answer to it (scenario.go, 103-124).         *)
ButtonsStayUntilActed ==
  Calls \/
    \A e \in Events : message[e].shows = "bare" => Happened(message[e].ip)

=============================================================================
