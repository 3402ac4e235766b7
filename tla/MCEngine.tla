------------------------------ MODULE MCEngine ------------------------------
(***************************************************************************)
(* Values for the constants of the engine.                                 *)
(***************************************************************************)
EXTENDS EngineProperties

Scanned == {ScannedText}

(* The config.yaml of the repository; one without a callback_url whose     *)
(* alias takes the path the callback then has; one with an alias too many; *)
(* one that url.Parse refuses.                                             *)
SomeFiles ==
  {[aliases  |-> [falco |-> "/falco", cilium |-> "/monitoring"],
    callback |-> "/slack/callback"],
   [aliases  |-> [falco |-> "/callback"], callback |-> ""],
   [aliases  |-> [falco |-> "/falco", cilium |-> "/falco"],
    callback |-> "/slack/callback"],
   [aliases  |-> <<>>, callback |-> "unparsable"]}

=============================================================================
