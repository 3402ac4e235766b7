----------------------------- MODULE MCManager ------------------------------
(***************************************************************************)
(* Values for the constants of the scenario manager that the .cfg files    *)
(* cannot write themselves, and the symmetry of the addresses.             *)
(***************************************************************************)
EXTENDS Refinement, Dashboard, TLC

Sent    == {SentText}
Scanned == {ScannedText}
Either  == {SentText, ScannedText}

(* Addresses are interchangeable.  The pools of goroutines are not: they   *)
(* are used in a fixed order.                                              *)
AnyAddress == Permutations(IPs)

=============================================================================
