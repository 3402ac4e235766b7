------------------------------ MODULE Startup -------------------------------
(***************************************************************************)
(* How module-engine starts (cmd/server/main.go, NewServer, Start and      *)
(* StartDashboard): it reads its configuration, opens the table, registers *)
(* the paths it serves and then listens on two ports.  The dashboard's is  *)
(* opened by a goroutine of its own, before or after the other one, and    *)
(* whatever fails ends the whole process, at any time.                     *)
(***************************************************************************)
EXTENDS Config

CONSTANTS
  ConfigFiles   \* what config.yaml may hold, as far as starting goes by it

(* server.aliases, each with its path, and the path of the callback_url:   *)
(* "" if it has none, "unparsable" if url.Parse refuses it.                *)
CallbackOf(file) == IF file.callback = "" THEN "/callback" ELSE file.callback

VARIABLES
  stage,      \* "config", "database", "routes", "listen" or "serving"
  file,       \* the configuration
  pending,    \* the aliases that have no handler yet
  routes,     \* the paths of the server's mux, each with its handler
  dashboard   \* "off", "starting" or "serving"

startupVars == <<stage, file, pending, routes, dashboard>>

Stages == {"config", "database", "routes", "listen", "serving"}
NoFile == [aliases |-> <<>>, callback |-> ""]

StartupInit ==
  /\ stage = "config"
  /\ file = NoFile
  /\ pending = {}
  /\ routes = <<>>
  /\ dashboard = "off"

(* log.Fatal, a panic of main, or a signal: the next process starts over.  *)
StartsOver ==
  /\ stage' = "config"
  /\ file' = NoFile
  /\ pending' = {}
  /\ routes' = <<>>
  /\ dashboard' = "off"

(* LoadConfig; a file it cannot read or parse is no file.                  *)
LoadsConfig ==
  /\ stage = "config"
  /\ stage' = "database"
  /\ file' \in ConfigFiles
  /\ UNCHANGED <<pending, routes, dashboard>>

(* NewSQLiteDB, and the rest of NewServer.                                 *)
OpensDatabase ==
  /\ stage = "database"
  /\ stage' = "routes"
  /\ pending' = DOMAIN file.aliases
  /\ UNCHANGED <<file, routes, dashboard>>

(* HandleFunc panics on an empty path and on one it has.                   *)
Clashes(path) == path = "" \/ path \in DOMAIN routes

Adds(path, handler) ==
  /\ ~Clashes(path)
  /\ routes' = [p \in DOMAIN routes \cup {path} |->
                  IF p = path THEN handler ELSE routes[p]]

Mutant_RegistersAlias(a) ==
  /\ a \in pending
  /\ Adds(file.aliases[a], "handleEvent")
  /\ pending' = {}
  /\ UNCHANGED <<stage, file, dashboard>>

(* The aliases of a map come in no order.                                  *)
RegistersAlias(a) ==
  /\ a \in pending
  /\ Adds(file.aliases[a], "handleEvent")
  /\ pending' = pending \ {a}
  /\ UNCHANGED <<stage, file, dashboard>>

RegistersCallback ==
  /\ stage = "routes" /\ pending = {}
  /\ file.callback # "unparsable"
  /\ Adds(CallbackOf(file), "handleSlackCallback")
  /\ stage' = "listen"
  /\ dashboard' = "starting"
  /\ UNCHANGED <<file, pending>>

Listens ==
  /\ stage = "listen"
  /\ stage' = "serving"
  /\ UNCHANGED <<file, pending, routes, dashboard>>

DashboardListens ==
  /\ dashboard = "starting"
  /\ dashboard' = "serving"
  /\ UNCHANGED <<stage, file, pending, routes>>

StartupSteps ==
  \/ LoadsConfig \/ OpensDatabase
  \/ \E a \in pending : RegistersAlias(a)
  \/ RegistersCallback \/ Listens \/ DashboardListens

(* The process ends of itself: on a configuration or a table it cannot     *)
(* open, a path it has twice, a callback_url it cannot parse, or a port    *)
(* that either of its two servers cannot open or loses.                    *)
EndsItself ==
  \/ stage = "config"
  \/ stage = "database" /\ "db" \in Faults
  \/ \E a \in pending : Clashes(file.aliases[a])
  \/ /\ stage = "routes" /\ pending = {}
     /\ file.callback = "unparsable" \/ Clashes(CallbackOf(file))
  \/ "port" \in Faults /\ (stage \in {"listen", "serving"} \/ dashboard # "off")

=============================================================================
