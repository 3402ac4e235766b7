------------------------------ MODULE Storage -------------------------------
(***************************************************************************)
(* The bucket and the two actioners that write to it, gcp_storage.go and   *)
(* sigmahq.go.  An object's name is made from the address, that of a Sigma *)
(* rule from the time in seconds too: writing a name again replaces the    *)
(* object.  A write that fails may have been carried out.                  *)
(***************************************************************************)
EXTENDS Config

VARIABLE objects   \* the objects in the bucket

Stores == {"gcp_storage", "sigmahq"}

StorageInit == objects = {}

StoreMayFail == "storage" \in Faults

Object(store, ip, t) ==
  [store |-> store, ip |-> ip, at |-> IF store = "sigmahq" THEN t ELSE 0]

(* Execute of one store after the other: all of them return nil, or some   *)
(* of them may have failed.                                                *)
Outcomes(stores, mayFail) ==
  IF StoreMayFail /\ mayFail THEN SUBSET stores ELSE {stores}

Mutant_Writes(stores, ip, t) == UNCHANGED objects

Writes(stores, ip, t) ==
  objects' = objects \cup {Object(s, ip, t) : s \in stores}

=============================================================================
