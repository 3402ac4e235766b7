---------------------------- MODULE HubblePlugin ----------------------------
(***************************************************************************)
(* The Falco plugin that feeds Hubble's flows to Falco (pkg/hubble.go).    *)
(* Open connects, starts a goroutine that reads the stream and sends what  *)
(* it reads on an unbuffered channel, and hands the channel to a push      *)
(* instance of the plugin SDK, from which Falco takes batches.             *)
(*                                                                         *)
(* A flow is the number Hubble gave it; 0 stands for an error in its       *)
(* place.  Falco opens one instance at a time, in the order 1, 2, ...      *)
(***************************************************************************)
EXTENDS Naturals, Sequences

CONSTANTS
  Opens,      \* bound: how often Falco calls Open
  MaxFlows,   \* bound: the flows Hubble sees
  Configs     \* the init_config values Falco may be given

(* The hubbleAddress of a configuration, or one of these two: it is not    *)
(* JSON, or it has no hubbleAddress.                                       *)
Unusable == "unusable"
Silent == "silent"
Default == "localhost:4245"

ASSUME HubbleAssumption ==
  /\ Opens \in Nat
  /\ MaxFlows \in Nat

Instances == 1 .. Opens
Flows == 1 .. MaxFlows
Error == 0
NoConn == "none"

VARIABLES
  given,      \* the configuration Init was called with
  address,    \* Plugin.Config.HubbleAddress
  plugin,     \* "new", "ready" or "refused": what Init returned
  seen,       \* Hubble: the flows so far
  conn,       \* the address of an instance's connection
  instance,   \* "none", "opening", "failed", "open", "ended" or "closed"
  reader,     \* the goroutine: "none", "recv", "send", "returning" or "done"
  position,   \* the last flow a stream has given to its goroutine
  holding,    \* what a goroutine is sending
  channel,    \* eventC: "none", "open" or "closed"
  delivered   \* what Falco has been given, by which instance

pluginVars == <<given, address, plugin>>
streamVars == <<reader, position, holding, channel>>
vars == <<pluginVars, seen, conn, instance, streamVars, delivered>>

Init ==
  /\ given = Silent
  /\ address = ""
  /\ plugin = "new"
  /\ seen = 0
  /\ conn = [i \in Instances |-> NoConn]
  /\ instance = [i \in Instances |-> "none"]
  /\ reader = [i \in Instances |-> "none"]
  /\ position = [i \in Instances |-> 0]
  /\ holding = [i \in Instances |-> Error]
  /\ channel = [i \in Instances |-> "none"]
  /\ delivered = <<>>

-----------------------------------------------------------------------------
(* The plugin and its instances *)

Mutant_Configured(config) == Default

(* Plugin.Init: the default, and then what the configuration says.         *)
Configured(config) ==
  IF config \in {Unusable, Silent} THEN Default ELSE config

InitPlugin ==
  /\ plugin = "new"
  /\ \E config \in Configs :
       /\ given' = config
       /\ address' = Configured(config)
       /\ plugin' = IF config = Unusable THEN "refused" ELSE "ready"
  /\ UNCHANGED <<seen, conn, instance, streamVars, delivered>>

Instance(i, state) == instance' = [instance EXCEPT ![i] = state]

(* Falco opens an instance when it has none, an earlier one being closed   *)
(* or never made.                                                          *)
MayOpen(i) ==
  /\ plugin = "ready"
  /\ instance[i] = "none"
  /\ \A j \in 1 .. i - 1 : instance[j] \in {"failed", "closed"}

(* grpc.Dial fails and leaves nothing.                                     *)
DialFails(i) ==
  /\ MayOpen(i)
  /\ Instance(i, "failed")
  /\ UNCHANGED <<pluginVars, seen, conn, streamVars, delivered>>

(* GetFlows fails; the connection stays.                                   *)
GetFlowsFails(i) ==
  /\ MayOpen(i)
  /\ conn' = [conn EXCEPT ![i] = address]
  /\ Instance(i, "failed")
  /\ UNCHANGED <<pluginVars, seen, streamVars, delivered>>

Mutant_OpenStarts(i) ==
  /\ MayOpen(i)
  /\ conn' = [conn EXCEPT ![i] = address]
  /\ Instance(i, "opening")
  /\ reader' = [reader EXCEPT ![i] = "recv"]
  /\ channel' = [channel EXCEPT ![i] = "open"]
  /\ UNCHANGED <<pluginVars, seen, position, holding, delivered>>

(* The stream follows what Hubble sees from now on; the goroutine starts   *)
(* before there is an instance that takes its events.                      *)
OpenStarts(i) ==
  /\ MayOpen(i)
  /\ conn' = [conn EXCEPT ![i] = address]
  /\ Instance(i, "opening")
  /\ reader' = [reader EXCEPT ![i] = "recv"]
  /\ position' = [position EXCEPT ![i] = seen]
  /\ channel' = [channel EXCEPT ![i] = "open"]
  /\ UNCHANGED <<pluginVars, seen, holding, delivered>>

(* NewPushInstance succeeds or fails.                                      *)
OpenEnds(i) ==
  /\ instance[i] = "opening"
  /\ Instance(i, "open") \/ Instance(i, "failed")
  /\ UNCHANGED <<pluginVars, seen, conn, streamVars, delivered>>

(* Falco closes the instance: the SDK stops taking events, and nothing     *)
(* tells the goroutine or closes the connection.                           *)
Close(i) ==
  /\ instance[i] \in {"open", "ended"}
  /\ Instance(i, "closed")
  /\ UNCHANGED <<pluginVars, seen, conn, streamVars, delivered>>

-----------------------------------------------------------------------------
(* The goroutine and the push instance *)

HubbleSees ==
  /\ seen < MaxFlows
  /\ seen' = seen + 1
  /\ UNCHANGED <<pluginVars, conn, instance, streamVars, delivered>>

Sends(i, what) ==
  /\ reader' = [reader EXCEPT ![i] = "send"]
  /\ holding' = [holding EXCEPT ![i] = what]
  /\ UNCHANGED <<pluginVars, seen, conn, instance, channel, delivered>>

Mutant_ReaderReceives(i) ==
  /\ reader[i] = "recv"
  /\ position' = [position EXCEPT ![i] = @ + 1]
  /\ Sends(i, position[i] + 1) \/ Sends(i, Error)

(* stream.Recv gives the next flow, which is put into JSON, or that fails. *)
ReaderReceives(i) ==
  /\ reader[i] = "recv"
  /\ position[i] < seen
  /\ position' = [position EXCEPT ![i] = @ + 1]
  /\ Sends(i, position[i] + 1) \/ Sends(i, Error)

(* stream.Recv fails: the stream is broken.                                *)
ReaderFails(i) ==
  /\ reader[i] = "recv"
  /\ Sends(i, Error)
  /\ UNCHANGED position

Mutant_TakesFlow(i) ==
  /\ instance[i] = "open"
  /\ reader[i] = "send"
  /\ holding[i] # Error
  /\ delivered' = Append(delivered, [inst |-> i, flow |-> holding[i]])
  /\ reader' = [reader EXCEPT ![i] = "done"]
  /\ UNCHANGED <<pluginVars, seen, conn, instance, position, holding, channel>>

(* NextBatch takes a flow; the goroutine goes on to the next.              *)
TakesFlow(i) ==
  /\ instance[i] = "open"
  /\ reader[i] = "send"
  /\ holding[i] # Error
  /\ delivered' = Append(delivered, [inst |-> i, flow |-> holding[i]])
  /\ reader' = [reader EXCEPT ![i] = "recv"]
  /\ UNCHANGED <<pluginVars, seen, conn, instance, position, holding, channel>>

(* NextBatch takes the error, which ends the instance for Falco; the       *)
(* goroutine, which is free again, has yet to return.                      *)
TakesError(i) ==
  /\ instance[i] = "open"
  /\ reader[i] = "send"
  /\ holding[i] = Error
  /\ Instance(i, "ended")
  /\ reader' = [reader EXCEPT ![i] = "returning"]
  /\ UNCHANGED <<pluginVars, seen, conn, position, holding, channel, delivered>>

(* The goroutine returns, and its deferred close closes the channel,       *)
(* whether Falco has closed the instance by then or not.                   *)
ReaderReturns(i) ==
  /\ reader[i] = "returning"
  /\ reader' = [reader EXCEPT ![i] = "done"]
  /\ channel' = [channel EXCEPT ![i] = "closed"]
  /\ UNCHANGED <<pluginVars, seen, conn, instance, position, holding, delivered>>

-----------------------------------------------------------------------------

Next ==
  \/ InitPlugin \/ HubbleSees
  \/ \E i \in Instances :
       \/ DialFails(i) \/ GetFlowsFails(i) \/ OpenStarts(i) \/ OpenEnds(i)
       \/ Close(i) \/ ReaderReceives(i) \/ ReaderFails(i) \/ ReaderReturns(i)
       \/ TakesFlow(i) \/ TakesError(i)

Spec == Init /\ [][Next]_vars

(* The goroutine runs, and Falco asks for the next batch as long as it has *)
(* the instance; streams need not break and Falco need not close anything. *)
Fairness ==
  \A i \in Instances :
    /\ WF_vars(OpenEnds(i))
    /\ WF_vars(ReaderReceives(i) \/ ReaderFails(i) \/ ReaderReturns(i))
    /\ WF_vars(TakesFlow(i) \/ TakesError(i))

FairSpec == Spec /\ Fairness

=============================================================================
