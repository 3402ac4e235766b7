----------------------------- MODULE MCRefusals -----------------------------
(***************************************************************************)
(* Values for the constants of the scenario manager in the runs whose      *)
(* firewall calls fail.                                                    *)
(***************************************************************************)
EXTENDS Refusals, TLC

Scanned == {ScannedText}

(* Addresses are interchangeable: see MCManager.                           *)
AnyAddress == Permutations(IPs)

=============================================================================
