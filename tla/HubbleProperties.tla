-------------------------- MODULE HubbleProperties --------------------------
(***************************************************************************)
(* What the Hubble plugin is to guarantee to Falco.                        *)
(***************************************************************************)
EXTENDS HubblePlugin

(* The variables have their types.                                         *)
TypeOK ==
  /\ given \in Configs \cup {Silent}
  /\ address \in {"", Default} \cup Configs
  /\ plugin \in {"new", "ready", "refused"}
  /\ seen \in 0 .. MaxFlows
  /\ conn \in [Instances -> {NoConn, "", Default} \cup Configs]
  /\ instance \in [Instances ->
       {"none", "opening", "failed", "open", "ended", "closed"}]
  /\ reader \in [Instances -> {"none", "recv", "send", "returning", "done"}]
  /\ position \in [Instances -> 0 .. MaxFlows]
  /\ holding \in [Instances -> {Error} \cup Flows]
  /\ channel \in [Instances -> {"none", "open", "closed"}]
  /\ delivered \in Seq([inst : Instances, flow : Flows])

(* Falco is given every flow once and in order.  One instance skips none   *)
(* before the error that ends it; between two instances flows are lost but *)
(* none comes again, whatever the goroutine of the first still holds       *)
(* (hubble.go, 136-157).                                                   *)
FlowsInOrder ==
  \A k \in 1 .. Len(delivered) - 1 :
    LET a == delivered[k]
        b == delivered[k + 1]
    IN IF a.inst = b.inst THEN b.flow = a.flow + 1
                          ELSE a.inst < b.inst /\ a.flow < b.flow

(* Every connection is to the Hubble the configuration names, or to the    *)
(* default one if it names none (hubble.go, 79-80 and 130).                *)
ConnectsAsConfigured ==
  \A i \in Instances :
    conn[i] # NoConn =>
      /\ given # Unusable
      /\ conn[i] = IF given = Silent THEN Default ELSE given

(* Flow f has yet to come through instance i.                              *)
OnItsWay(i, f) ==
  /\ instance[i] = "open"
  /\ f <= seen
  /\ position[i] < f \/ (reader[i] = "send" /\ holding[i] = f)

(* While Falco keeps the instance and no error ends it, every flow Hubble  *)
(* sees gets through: goroutine and Falco never wait for each other on the *)
(* unbuffered channel (hubble.go, 156).                                    *)
FlowsGetThrough ==
  \A i \in Instances, f \in Flows :
    OnItsWay(i, f) ~>
      \/ [inst |-> i, flow |-> f] \in {delivered[k] : k \in 1 .. Len(delivered)}
      \/ instance[i] # "open"

=============================================================================
