---------------------------- MODULE HubbleProofs ----------------------------
(***************************************************************************)
(* Proof of the safety properties of the Hubble plugin, TypeOK,            *)
(* ConnectsAsConfigured and FlowsInOrder, for any number of instances,     *)
(* flows and configurations.                                               *)
(*                                                                         *)
(* FlowsInOrder speaks of what was delivered; what the next delivery will  *)
(* be depends on the goroutines.  LastOK ties the two together: every      *)
(* goroutine that can still deliver is just behind the last delivery, or   *)
(* belongs to a later instance and has gone past it.                       *)
(***************************************************************************)
EXTENDS HubbleProperties, SequenceTheorems, TLAPS

(* An instance is opened only when all before it are gone for good.        *)
OneAtATime ==
  \A i \in Instances : instance[i] # "none" =>
    \A j \in Instances : j < i => instance[j] \in {"failed", "closed"}

(* A flow on its way to Falco.                                             *)
Offering(i) == reader[i] = "send" /\ holding[i] # Error

(* A goroutine offers the flow its stream is at.                           *)
HeldOK ==
  \A i \in Instances :
    /\ position[i] <= seen
    /\ Offering(i) => holding[i] = position[i]

(* What d, the last delivery, says of the goroutines.                      *)
LastIs(d) ==
  /\ d.flow <= seen
  /\ instance[d.inst] \in {"open", "ended", "closed"}
  /\ instance[d.inst] = "open" =>
       /\ reader[d.inst] = "recv" => position[d.inst] = d.flow
       /\ Offering(d.inst) => position[d.inst] = d.flow + 1
  /\ \A i \in Instances :
       (i # d.inst /\ instance[i] \in {"opening", "open"}) =>
         /\ d.inst < i
         /\ d.flow <= position[i]
         /\ Offering(i) => d.flow < position[i]

LastOK == delivered # <<>> => LastIs(delivered[Len(delivered)])

OrderOK == TypeOK /\ OneAtATime /\ HeldOK /\ LastOK /\ FlowsInOrder

(* The plugin's address is the one its configuration gives it, and no      *)
(* connection was made before Init had set it.                             *)
AddressOK ==
  /\ plugin = "ready" =>
       given # Unusable /\ address = IF given = Silent THEN Default ELSE given
  /\ \A i \in Instances : conn[i] # NoConn => plugin = "ready" /\ conn[i] = address

-----------------------------------------------------------------------------
(* Types *)

(* The first values have their types.                                      *)
LEMMA InitTyped == Init => TypeOK
<1>. SUFFICES ASSUME Init PROVE TypeOK
  OBVIOUS
<1>1. 0 \in 0 .. MaxFlows
  BY HubbleAssumption
<1>2. position \in [Instances -> 0 .. MaxFlows] /\ seen \in 0 .. MaxFlows
  BY <1>1 DEF Init
<1>3. delivered \in Seq([inst : Instances, flow : Flows])
  BY EmptySeq DEF Init
<1>4. /\ given \in Configs \cup {Silent}
      /\ address \in {"", Default} \cup Configs
      /\ plugin \in {"new", "ready", "refused"}
      /\ conn \in [Instances -> {NoConn, "", Default} \cup Configs]
      /\ instance \in [Instances ->
           {"none", "opening", "failed", "open", "ended", "closed"}]
  BY DEF Init
<1>5. /\ reader \in [Instances -> {"none", "recv", "send", "returning", "done"}]
      /\ holding \in [Instances -> {Error} \cup Flows]
      /\ channel \in [Instances -> {"none", "open", "closed"}]
  BY DEF Init
<1>. QED BY <1>2, <1>3, <1>4, <1>5 DEF TypeOK

(* The types of what the goroutines and Falco change, and of the rest.     *)
StreamsTyped ==
  /\ reader \in [Instances -> {"none", "recv", "send", "returning", "done"}]
  /\ position \in [Instances -> 0 .. MaxFlows]
  /\ holding \in [Instances -> {Error} \cup Flows]
  /\ channel \in [Instances -> {"none", "open", "closed"}]
  /\ delivered \in Seq([inst : Instances, flow : Flows])

RestTyped ==
  /\ given \in Configs \cup {Silent}
  /\ address \in {"", Default} \cup Configs
  /\ plugin \in {"new", "ready", "refused"}
  /\ seen \in 0 .. MaxFlows
  /\ conn \in [Instances -> {NoConn, "", Default} \cup Configs]
  /\ instance \in [Instances ->
       {"none", "opening", "failed", "open", "ended", "closed"}]

(* The steps that move an instance.                                        *)
LEMMA InstanceTyped ==
  ASSUME TypeOK, NEW i \in Instances,
         \/ DialFails(i) \/ GetFlowsFails(i) \/ OpenStarts(i)
         \/ OpenEnds(i) \/ Close(i)
  PROVE  StreamsTyped' /\ RestTyped'
<1>1. instance' \in [Instances ->
        {"none", "opening", "failed", "open", "ended", "closed"}]
  BY DEF TypeOK, DialFails, GetFlowsFails, OpenStarts, OpenEnds, Close, Instance
<1>2. conn' \in [Instances -> {NoConn, "", Default} \cup Configs]
  BY DEF TypeOK, DialFails, GetFlowsFails, OpenStarts, OpenEnds, Close
<1>3. UNCHANGED <<given, address, plugin, seen, holding, delivered>>
  BY DEF DialFails, GetFlowsFails, OpenStarts, OpenEnds, Close, pluginVars, streamVars
<1>4. seen \in 0 .. MaxFlows
  BY DEF TypeOK
<1>5. position' \in [Instances -> 0 .. MaxFlows]
  BY <1>4 DEF TypeOK, DialFails, GetFlowsFails, OpenStarts, OpenEnds, Close, streamVars
<1>6. /\ reader' \in [Instances -> {"none", "recv", "send", "returning", "done"}]
      /\ channel' \in [Instances -> {"none", "open", "closed"}]
  BY DEF TypeOK, DialFails, GetFlowsFails, OpenStarts, OpenEnds, Close, streamVars
<1>. QED BY <1>1, <1>2, <1>3, <1>5, <1>6 DEF TypeOK, StreamsTyped, RestTyped

(* The goroutine gets something to send.                                   *)
LEMMA ReaderTyped ==
  ASSUME TypeOK, NEW i \in Instances, ReaderReceives(i) \/ ReaderFails(i)
  PROVE  StreamsTyped' /\ RestTyped'
<1>1. position[i] \in 0 .. MaxFlows /\ seen \in 0 .. MaxFlows /\ MaxFlows \in Nat
  BY HubbleAssumption DEF TypeOK
<1>2. ReaderReceives(i) => position[i] + 1 \in 0 .. MaxFlows /\ position[i] + 1 \in Flows
  BY <1>1 DEF ReaderReceives, Flows
<1>3. position' \in [Instances -> 0 .. MaxFlows]
  BY <1>2 DEF TypeOK, ReaderReceives, ReaderFails
<1>4. PICK what \in {Error} \cup Flows : Sends(i, what)
  BY <1>2 DEF ReaderReceives, ReaderFails
<1>5. /\ reader' \in [Instances -> {"none", "recv", "send", "returning", "done"}]
      /\ holding' \in [Instances -> {Error} \cup Flows]
  BY <1>4 DEF TypeOK, Sends
<1>. QED BY <1>3, <1>4, <1>5 DEF TypeOK, StreamsTyped, RestTyped, Sends, pluginVars

(* The goroutine closes its channel.                                       *)
LEMMA ReturnsTyped ==
  ASSUME TypeOK, NEW i \in Instances, ReaderReturns(i)
  PROVE  StreamsTyped' /\ RestTyped'
<1>1. /\ reader' \in [Instances -> {"none", "recv", "send", "returning", "done"}]
      /\ channel' \in [Instances -> {"none", "open", "closed"}]
  BY DEF TypeOK, ReaderReturns
<1>2. UNCHANGED <<given, address, plugin, seen, conn, instance, position, holding, delivered>>
  BY DEF ReaderReturns, pluginVars
<1>. QED BY <1>1, <1>2 DEF TypeOK, StreamsTyped, RestTyped

(* Falco takes what it is offered.                                         *)
LEMMA TakesTyped ==
  ASSUME TypeOK, NEW i \in Instances, TakesFlow(i) \/ TakesError(i)
  PROVE  StreamsTyped' /\ RestTyped'
<1>1. delivered' \in Seq([inst : Instances, flow : Flows])
  <2>1. holding[i] \in {Error} \cup Flows
    BY DEF TypeOK
  <2>2. TakesFlow(i) =>
          [inst |-> i, flow |-> holding[i]] \in [inst : Instances, flow : Flows]
    BY <2>1 DEF TakesFlow
  <2>3. delivered \in Seq([inst : Instances, flow : Flows])
    BY DEF TypeOK
  <2>4. CASE TakesFlow(i)
    <3>1. delivered' = Append(delivered, [inst |-> i, flow |-> holding[i]])
      BY <2>4 DEF TakesFlow
    <3>. QED BY <2>2, <2>3, <2>4, <3>1, AppendProperties
  <2>5. CASE TakesError(i)
    BY <2>3, <2>5 DEF TakesError
  <2>. QED BY <2>4, <2>5
<1>2. /\ reader' \in [Instances -> {"none", "recv", "send", "returning", "done"}]
      /\ channel' \in [Instances -> {"none", "open", "closed"}]
      /\ instance' \in [Instances ->
           {"none", "opening", "failed", "open", "ended", "closed"}]
  BY DEF TypeOK, TakesFlow, TakesError, Instance
<1>3. UNCHANGED <<given, address, plugin, seen, conn, position, holding>>
  BY DEF TakesFlow, TakesError, pluginVars
<1>. QED BY <1>1, <1>2, <1>3 DEF TypeOK, StreamsTyped, RestTyped

(* Every step keeps the types.                                            *)
LEMMA NextTyped == TypeOK /\ [Next]_vars => TypeOK'
<1>. SUFFICES ASSUME TypeOK, [Next]_vars PROVE TypeOK'
  OBVIOUS
<1>0. StreamsTyped' /\ RestTyped' => TypeOK'
  BY DEF StreamsTyped, RestTyped, TypeOK
<1>1. CASE InitPlugin
  BY <1>1 DEF InitPlugin, Configured, streamVars, TypeOK
<1>2. CASE HubbleSees
  <2>1. seen' \in 0 .. MaxFlows
    <3>1. seen \in 0 .. MaxFlows /\ seen < MaxFlows /\ seen' = seen + 1
      BY <1>2 DEF HubbleSees, TypeOK
    <3>. QED BY <3>1, HubbleAssumption
  <2>. QED BY <1>2, <2>1 DEF HubbleSees, pluginVars, streamVars, TypeOK
<1>3. ASSUME NEW i \in Instances,
             \/ DialFails(i) \/ GetFlowsFails(i) \/ OpenStarts(i)
             \/ OpenEnds(i) \/ Close(i)
      PROVE  TypeOK'
  BY <1>0, <1>3, InstanceTyped
<1>4. ASSUME NEW i \in Instances, ReaderReceives(i) \/ ReaderFails(i) PROVE TypeOK'
  BY <1>0, <1>4, ReaderTyped
<1>5. ASSUME NEW i \in Instances, TakesFlow(i) \/ TakesError(i) PROVE TypeOK'
  BY <1>0, <1>5, TakesTyped
<1>6. ASSUME NEW i \in Instances, ReaderReturns(i) PROVE TypeOK'
  BY <1>0, <1>6, ReturnsTyped
<1>7. CASE UNCHANGED vars
  BY <1>7 DEF vars, pluginVars, streamVars, TypeOK
<1>. QED BY <1>1, <1>2, <1>3, <1>4, <1>5, <1>6, <1>7 DEF Next

(* The variables keep their types.                                         *)
THEOREM HubbleTypes == Spec => []TypeOK
BY InitTyped, NextTyped, PTL DEF Spec

-----------------------------------------------------------------------------
(* Connections *)

(* Init comes before any connection, and happens once.                    *)
LEMMA NextAddress == TypeOK /\ AddressOK /\ [Next]_vars => AddressOK'
<1>. SUFFICES ASSUME TypeOK, AddressOK, [Next]_vars PROVE AddressOK'
  OBVIOUS
<1>1. CASE InitPlugin
  BY <1>1 DEF InitPlugin, Configured, AddressOK, streamVars
<1>2. ASSUME NEW i \in Instances, GetFlowsFails(i) \/ OpenStarts(i) PROVE AddressOK'
  <2>1. plugin = "ready" /\ conn' = [conn EXCEPT ![i] = address] /\ UNCHANGED pluginVars
    BY <1>2 DEF GetFlowsFails, OpenStarts, MayOpen
  <2>. QED BY <2>1 DEF TypeOK, AddressOK, pluginVars
<1>3. CASE UNCHANGED <<pluginVars, conn>>
  BY <1>3 DEF AddressOK, pluginVars
<1>. QED
  BY <1>1, <1>2, <1>3
     DEF Next, HubbleSees, DialFails, OpenEnds, Close, ReaderReceives, ReaderFails,
         ReaderReturns, Sends, TakesFlow, TakesError, vars

(* Every connection is to the Hubble the configuration names, for every    *)
(* configuration.                                                          *)
THEOREM ConnectsWhereTold == Spec => []ConnectsAsConfigured
<1>1. Init => AddressOK
  BY DEF Init, AddressOK
<1>2. TypeOK /\ AddressOK => ConnectsAsConfigured
  BY DEF AddressOK, ConnectsAsConfigured
<1>3. Spec => []AddressOK
  BY <1>1, NextAddress, HubbleTypes, PTL DEF Spec
<1>. QED BY <1>2, <1>3, HubbleTypes, PTL

-----------------------------------------------------------------------------
(* The order of the flows *)

(* A delivery is of a flow, by an instance.                                *)
LEMMA LastTyped ==
  ASSUME TypeOK, delivered # <<>>
  PROVE  /\ delivered[Len(delivered)].inst \in Instances
         /\ delivered[Len(delivered)].flow \in Nat
<1>1. delivered \in Seq([inst : Instances, flow : Flows])
  BY DEF TypeOK
<1>2. Len(delivered) \in 1 .. Len(delivered)
  BY <1>1
<1>3. delivered[Len(delivered)] \in [inst : Instances, flow : Flows]
  BY <1>1, <1>2, ElementOfSeq
<1>. QED BY <1>3, HubbleAssumption DEF Flows

(* Nothing is delivered in this step, and no goroutine gets hold of        *)
(* anything: it stops, or offers nothing, or stays as it is.               *)
LEMMA NothingOffered ==
  ASSUME OrderOK, TypeOK', OneAtATime', UNCHANGED <<position, delivered>>, seen' >= seen,
         \A i \in Instances :
           /\ reader'[i] = "recv" => reader[i] = "recv"
           /\ Offering(i)' => Offering(i) /\ holding'[i] = holding[i]
           /\ instance'[i] = "open" => instance[i] \in {"opening", "open"}
           /\ instance'[i] = "opening" => instance[i] = "opening"
           /\ instance[i] \in {"open", "ended", "closed"} =>
                instance'[i] \in {"open", "ended", "closed"}
  PROVE  OrderOK'
<1>0. /\ \A i \in Instances : position[i] \in Nat
      /\ seen \in Nat /\ seen' \in Nat
  <2>1. seen \in 0 .. MaxFlows /\ seen' \in 0 .. MaxFlows
    BY DEF OrderOK, TypeOK
  <2>2. \A i \in Instances : position[i] \in 0 .. MaxFlows
    BY DEF OrderOK, TypeOK
  <2>. QED BY <2>1, <2>2, HubbleAssumption
<1>1. HeldOK'
  BY <1>0 DEF OrderOK, HeldOK
<1>2. ASSUME delivered # <<>> PROVE LastIs(delivered[Len(delivered)])'
  <2>. DEFINE d == delivered[Len(delivered)]
  <2>1. d.inst \in Instances /\ d.flow \in Nat
    BY <1>2, LastTyped DEF OrderOK
  <2>2. LastIs(d)
    BY <1>2 DEF OrderOK, LastOK
  <2>3. d' = d
    OBVIOUS
  <2>. HIDE DEF d
  <2>4. d.flow <= seen'
    BY <1>0, <2>1, <2>2 DEF LastIs
  <2>5. instance[d.inst] = "open" \/ instance'[d.inst] # "open"
    BY <2>1, <2>2 DEF LastIs
  <2>6. LastIs(d)'
    BY <1>0, <2>1, <2>2, <2>3, <2>4, <2>5 DEF LastIs
  <2>. QED BY <2>6 DEF d
<1>3. FlowsInOrder'
  BY DEF OrderOK, FlowsInOrder
<1>. QED BY <1>1, <1>2, <1>3 DEF OrderOK, LastOK

(* Only a new instance comes after another, and only when that is gone.    *)
LEMMA NextOneAtATime ==
  ASSUME TypeOK, OneAtATime, [Next]_vars PROVE OneAtATime'
<1>1. CASE UNCHANGED instance
  BY <1>1 DEF OneAtATime
<1>2. ASSUME NEW i \in Instances, MayOpen(i), NEW state, Instance(i, state), state # "none"
      PROVE  OneAtATime'
  <2>1. \A j \in Instances : j < i => instance[j] \in {"failed", "closed"}
    BY <1>2, HubbleAssumption DEF MayOpen, Instances
  <2>2. \A j \in Instances : instance'[j] = IF j = i THEN state ELSE instance[j]
    BY <1>2 DEF TypeOK, Instance
  <2>3. \A j \in Instances : i < j => instance[j] = "none"
    BY <1>2 DEF MayOpen, OneAtATime
  <2>4. \A j, k \in Instances : j < k => j # k /\ (k = i \/ j # i \/ i < k)
    BY HubbleAssumption DEF Instances
  <2>. QED BY <2>1, <2>2, <2>3, <2>4 DEF OneAtATime
<1>3. ASSUME NEW i \in Instances, NEW state, Instance(i, state),
             instance[i] \in {"opening", "open", "ended"}
      PROVE  OneAtATime'
  <2>1. \A j \in Instances : instance'[j] = IF j = i THEN state ELSE instance[j]
    BY <1>3 DEF TypeOK, Instance
  <2>. QED BY <1>3, <2>1 DEF OneAtATime
<1>4. ASSUME NEW i \in Instances,
             DialFails(i) \/ GetFlowsFails(i) \/ OpenStarts(i)
      PROVE  OneAtATime'
  BY <1>2, <1>4 DEF DialFails, GetFlowsFails, OpenStarts
<1>5. ASSUME NEW i \in Instances, OpenEnds(i) \/ Close(i) \/ TakesError(i)
      PROVE  OneAtATime'
  BY <1>3, <1>5 DEF OpenEnds, Close, TakesError
<1>6. ASSUME NEW i \in Instances,
             \/ ReaderReceives(i) \/ ReaderFails(i) \/ ReaderReturns(i)
             \/ TakesFlow(i)
      PROVE  UNCHANGED instance
  BY <1>6 DEF ReaderReceives, ReaderFails, ReaderReturns, Sends, TakesFlow
<1>. QED BY <1>1, <1>4, <1>5, <1>6 DEF Next, InitPlugin, HubbleSees, vars

(* Opening starts a stream behind everything delivered so far.             *)
LEMMA OpenStartsOrder ==
  ASSUME OrderOK, TypeOK', OneAtATime', NEW i \in Instances, OpenStarts(i)
  PROVE  OrderOK'
<1>0. /\ \A j \in Instances : position[j] \in Nat
      /\ seen \in Nat
  <2>1. seen \in 0 .. MaxFlows /\ \A j \in Instances : position[j] \in 0 .. MaxFlows
    BY DEF OrderOK, TypeOK
  <2>. QED BY <2>1, HubbleAssumption
<1>1. /\ \A j \in Instances : instance'[j] = IF j = i THEN "opening" ELSE instance[j]
      /\ \A j \in Instances : reader'[j] = IF j = i THEN "recv" ELSE reader[j]
      /\ \A j \in Instances : position'[j] = IF j = i THEN seen ELSE position[j]
      /\ UNCHANGED <<seen, holding, delivered>>
  <2>1. \A j \in Instances : instance'[j] = IF j = i THEN "opening" ELSE instance[j]
    BY DEF OrderOK, TypeOK, OpenStarts, Instance
  <2>2. \A j \in Instances : reader'[j] = IF j = i THEN "recv" ELSE reader[j]
    BY DEF OrderOK, TypeOK, OpenStarts
  <2>3. \A j \in Instances : position'[j] = IF j = i THEN seen ELSE position[j]
    BY DEF OrderOK, TypeOK, OpenStarts
  <2>. QED BY <2>1, <2>2, <2>3 DEF OpenStarts
<1>2. \A j \in Instances : Offering(j)' <=> j # i /\ Offering(j)
  BY <1>1 DEF Offering
<1>3. HeldOK'
  BY <1>0, <1>1, <1>2 DEF OrderOK, HeldOK
<1>4. ASSUME delivered # <<>> PROVE LastIs(delivered[Len(delivered)])'
  <2>. DEFINE d == delivered[Len(delivered)]
  <2>1. d.inst \in Instances /\ d.flow \in Nat
    BY <1>4, LastTyped DEF OrderOK
  <2>2. LastIs(d)
    BY <1>4 DEF OrderOK, LastOK
  <2>3. d' = d
    BY <1>1
  <2>. HIDE DEF d
  <2>4. d.inst # i /\ d.inst < i
    <3>1. instance[i] = "none" /\ instance[d.inst] # "none"
      BY <2>2 DEF LastIs, OpenStarts, MayOpen
    <3>2. ~(i < d.inst)
      BY <2>1, <3>1 DEF OrderOK, OneAtATime
    <3>. QED BY <2>1, <3>1, <3>2, HubbleAssumption DEF Instances
  <2>5. LastIs(d)'
    BY <1>0, <1>1, <1>2, <2>1, <2>2, <2>3, <2>4 DEF LastIs
  <2>. QED BY <2>5 DEF d
<1>5. FlowsInOrder'
  BY <1>1 DEF OrderOK, FlowsInOrder
<1>. QED BY <1>3, <1>4, <1>5, <1>1 DEF OrderOK, LastOK

(* The stream gives its next flow, which the goroutine offers, or an error. *)
LEMMA ReceivesOrder ==
  ASSUME OrderOK, TypeOK', OneAtATime', NEW i \in Instances, ReaderReceives(i)
  PROVE  OrderOK'
<1>0. /\ \A j \in Instances : position[j] \in Nat
      /\ seen \in Nat
  <2>1. seen \in 0 .. MaxFlows /\ \A j \in Instances : position[j] \in 0 .. MaxFlows
    BY DEF OrderOK, TypeOK
  <2>. QED BY <2>1, HubbleAssumption
<1>1. /\ reader[i] = "recv" /\ position[i] < seen
      /\ \A j \in Instances : reader'[j] = IF j = i THEN "send" ELSE reader[j]
      /\ \A j \in Instances : position'[j] = IF j = i THEN position[i] + 1 ELSE position[j]
      /\ \A j \in Instances : j # i => holding'[j] = holding[j]
      /\ holding'[i] \in {position[i] + 1, Error}
      /\ UNCHANGED <<seen, instance, delivered>>
  BY DEF OrderOK, TypeOK, ReaderReceives, Sends
<1>2. /\ \A j \in Instances : j # i => (Offering(j)' <=> Offering(j))
      /\ Offering(i)' => holding'[i] = position[i] + 1
  BY <1>1 DEF Offering
<1>3. HeldOK'
  BY <1>0, <1>1, <1>2 DEF OrderOK, HeldOK
<1>4. ASSUME delivered # <<>> PROVE LastIs(delivered[Len(delivered)])'
  <2>. DEFINE d == delivered[Len(delivered)]
  <2>1. d.inst \in Instances /\ d.flow \in Nat
    BY <1>4, LastTyped DEF OrderOK
  <2>2. LastIs(d)
    BY <1>4 DEF OrderOK, LastOK
  <2>3. d' = d
    BY <1>1
  <2>. HIDE DEF d
  <2>4. LastIs(d)'
    BY <1>0, <1>1, <1>2, <2>1, <2>2, <2>3 DEF LastIs
  <2>. QED BY <2>4 DEF d
<1>5. FlowsInOrder'
  BY <1>1 DEF OrderOK, FlowsInOrder
<1>. QED BY <1>1, <1>3, <1>4, <1>5 DEF OrderOK, LastOK

(* Falco takes the flow offered by its one open instance.                  *)
LEMMA TakesOrder ==
  ASSUME OrderOK, TypeOK', OneAtATime', NEW i \in Instances, TakesFlow(i)
  PROVE  OrderOK'
<1>. DEFINE e == [inst |-> i, flow |-> holding[i]]
            T == [inst : Instances, flow : Flows]
            n == Len(delivered)
<1>0. /\ \A j \in Instances : position[j] \in Nat
      /\ seen \in Nat
  <2>1. seen \in 0 .. MaxFlows /\ \A j \in Instances : position[j] \in 0 .. MaxFlows
    BY DEF OrderOK, TypeOK
  <2>. QED BY <2>1, HubbleAssumption
<1>1. /\ instance[i] = "open" /\ Offering(i) /\ holding[i] = position[i]
      /\ holding[i] \in Flows
      /\ \A j \in Instances : reader'[j] = IF j = i THEN "recv" ELSE reader[j]
      /\ UNCHANGED <<seen, instance, position, holding>>
  BY DEF OrderOK, TypeOK, HeldOK, TakesFlow, Offering
<1>2. /\ delivered \in Seq(T) /\ e \in T /\ n \in Nat
      /\ delivered' = Append(delivered, e)
  BY <1>1, LenProperties DEF OrderOK, TypeOK, TakesFlow
<1>3. /\ delivered' \in Seq(T) /\ Len(delivered') = n + 1
      /\ \A k \in 1 .. n : delivered'[k] = delivered[k]
      /\ delivered'[n + 1] = e
  BY <1>2, AppendProperties
<1>4. e.inst = i /\ e.flow = position[i]
  BY <1>1
<1>. HIDE DEF e, T
<1>5. \A j \in Instances : Offering(j)' <=> j # i /\ Offering(j)
  BY <1>1 DEF Offering
<1>6. HeldOK'
  BY <1>0, <1>1, <1>5 DEF OrderOK, HeldOK
<1>7. \A j \in Instances : j # i => instance[j] \notin {"opening", "open"}
  <2>1. \A j \in Instances : j # i => j < i \/ i < j
    BY HubbleAssumption DEF Instances
  <2>. QED BY <1>1, <2>1 DEF OrderOK, OneAtATime
<1>8. LastOK'
  <2>1. e' = e
    BY <1>1 DEF e
  <2>2. LastIs(e)'
    BY <1>0, <1>1, <1>4, <1>5, <1>7, <2>1 DEF LastIs, OrderOK, HeldOK
  <2>. QED BY <1>3, <2>1, <2>2 DEF LastOK
<1>9. FlowsInOrder'
  <2>. SUFFICES ASSUME NEW k \in 1 .. n
                PROVE  LET a == delivered'[k]
                           b == delivered'[k + 1]
                       IN IF a.inst = b.inst THEN b.flow = a.flow + 1
                                             ELSE a.inst < b.inst /\ a.flow < b.flow
    BY <1>2, <1>3 DEF FlowsInOrder
  <2>1. CASE k < n
    <3>1. k \in 1 .. n - 1 /\ k + 1 \in 1 .. n
      BY <1>2, <2>1
    <3>. QED BY <1>3, <3>1 DEF OrderOK, FlowsInOrder
  <2>2. CASE k = n
    <3>. DEFINE d == delivered[n]
    <3>1. delivered # <<>>
      BY <1>2, <2>2, EmptySeq
    <3>2. LastIs(d) /\ d.inst \in Instances /\ d.flow \in Nat
      BY <3>1, LastTyped DEF OrderOK, LastOK
    <3>3. delivered'[k] = d /\ delivered'[k + 1] = e
      BY <1>3, <2>2
    <3>. HIDE DEF d
    <3>4. CASE d.inst = i
      BY <1>1, <1>4, <3>2, <3>3, <3>4 DEF LastIs
    <3>5. CASE d.inst # i
      BY <1>1, <1>4, <3>2, <3>3, <3>5 DEF LastIs
    <3>. QED BY <3>4, <3>5
  <2>. QED BY <1>2, <2>1, <2>2
<1>. QED BY <1>6, <1>8, <1>9 DEF OrderOK

(* Nothing is delivered when the plugin is loaded.                         *)
LEMMA InitOrder == Init => OrderOK
<1>. SUFFICES ASSUME Init PROVE OrderOK
  OBVIOUS
<1>1. Len(delivered) = 0
  BY EmptySeq DEF Init
<1>2. HeldOK
  <2>1. seen = 0 /\ \A i \in Instances : position[i] = 0 /\ reader[i] = "none"
    BY DEF Init
  <2>. QED BY <2>1 DEF HeldOK, Offering
<1>3. OneAtATime /\ LastOK
  BY DEF Init, OneAtATime, LastOK
<1>4. FlowsInOrder
  BY <1>1 DEF FlowsInOrder
<1>. QED BY <1>2, <1>3, <1>4, InitTyped DEF OrderOK

(* Every step keeps the order.                                             *)
LEMMA NextOrder == OrderOK /\ [Next]_vars => OrderOK'
<1>. SUFFICES ASSUME OrderOK, [Next]_vars PROVE OrderOK'
  OBVIOUS
<1>0. TypeOK' /\ OneAtATime'
  BY NextTyped, NextOneAtATime DEF OrderOK
<1>t. TypeOK /\ seen >= seen
  <2>1. TypeOK
    BY DEF OrderOK
  <2>2. seen \in 0 .. MaxFlows
    BY <2>1 DEF TypeOK
  <2>. QED BY <2>1, <2>2, HubbleAssumption
<1>1. CASE InitPlugin
  BY <1>0, <1>t, <1>1, NothingOffered DEF InitPlugin, streamVars, Offering
<1>2. CASE HubbleSees
  <2>1. seen' >= seen
    <3>1. seen \in 0 .. MaxFlows /\ seen' = seen + 1
      BY <1>t, <1>2 DEF TypeOK, HubbleSees
    <3>. QED BY <3>1, HubbleAssumption
  <2>. QED BY <1>0, <1>2, <2>1, NothingOffered DEF HubbleSees, streamVars, Offering
<1>3. ASSUME NEW i \in Instances,
             DialFails(i) \/ GetFlowsFails(i) \/ OpenEnds(i) \/ Close(i)
      PROVE  OrderOK'
  <2>1. /\ UNCHANGED <<reader, holding, position, seen, delivered>>
        /\ \A j \in Instances : j # i => instance'[j] = instance[j]
        /\ \/ instance[i] = "none" /\ instance'[i] = "failed"
           \/ instance[i] = "opening" /\ instance'[i] \in {"open", "failed"}
           \/ instance[i] \in {"open", "ended"} /\ instance'[i] = "closed"
    BY <1>t, <1>3 DEF TypeOK, DialFails, GetFlowsFails, OpenEnds, Close, MayOpen, Instance,
                      streamVars
  <2>. QED BY <1>0, <1>t, <2>1, NothingOffered DEF Offering
<1>4. ASSUME NEW i \in Instances, OpenStarts(i) PROVE OrderOK'
  BY <1>0, <1>4, OpenStartsOrder
<1>5. ASSUME NEW i \in Instances, ReaderReceives(i) PROVE OrderOK'
  BY <1>0, <1>5, ReceivesOrder
<1>6. ASSUME NEW i \in Instances, ReaderFails(i) PROVE OrderOK'
  <2>1. /\ UNCHANGED <<instance, position, seen, delivered>>
        /\ \A j \in Instances : j # i => reader'[j] = reader[j] /\ holding'[j] = holding[j]
        /\ reader'[i] = "send" /\ holding'[i] = Error
    BY <1>t, <1>6 DEF TypeOK, ReaderFails, Sends
  <2>. QED BY <1>0, <1>t, <2>1, NothingOffered DEF Offering
<1>7. ASSUME NEW i \in Instances, TakesFlow(i) PROVE OrderOK'
  BY <1>0, <1>7, TakesOrder
<1>8. ASSUME NEW i \in Instances, TakesError(i) PROVE OrderOK'
  <2>1. /\ UNCHANGED <<position, holding, seen, delivered>>
        /\ \A j \in Instances : j # i => reader'[j] = reader[j] /\ instance'[j] = instance[j]
        /\ reader'[i] = "returning" /\ instance[i] = "open" /\ instance'[i] = "ended"
    BY <1>t, <1>8 DEF TypeOK, TakesError, Instance
  <2>. QED BY <1>0, <1>t, <2>1, NothingOffered DEF Offering
<1>9. ASSUME NEW i \in Instances, ReaderReturns(i) PROVE OrderOK'
  <2>1. /\ UNCHANGED <<instance, position, holding, seen, delivered>>
        /\ \A j \in Instances : j # i => reader'[j] = reader[j]
        /\ reader'[i] = "done"
    BY <1>t, <1>9 DEF TypeOK, ReaderReturns
  <2>. QED BY <1>0, <1>t, <2>1, NothingOffered DEF Offering
<1>10. CASE UNCHANGED vars
  BY <1>0, <1>t, <1>10, NothingOffered DEF vars, streamVars, Offering
<1>. QED BY <1>1, <1>2, <1>3, <1>4, <1>5, <1>6, <1>7, <1>8, <1>9, <1>10 DEF Next

(* Falco gets every flow at most once and in order, and misses none while  *)
(* it keeps an instance, for any number of instances and flows.            *)
THEOREM FlowsStayInOrder == Spec => []FlowsInOrder
<1>1. Spec => []OrderOK
  BY InitOrder, NextOrder, PTL DEF Spec
<1>2. OrderOK => FlowsInOrder
  BY DEF OrderOK
<1>. QED BY <1>1, <1>2, PTL

=============================================================================
