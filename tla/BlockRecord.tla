---------------------------- MODULE BlockRecord -----------------------------
(***************************************************************************)
(* models.BlockRecord and what the scenario manager does to one record in  *)
(* memory, between reading it from the table and writing it back.  The id  *)
(* and the address are the row's identity and stay out of the record.      *)
(***************************************************************************)
EXTENDS Config

Records == [blockedAt     : Nat,      \* 0: not blocked
            unblockAfter  : Nat,      \* the time the block ends
            blockCount    : Nat,      \* block cycles so far
            triggerCount  : Nat,      \* events counted in this cycle
            lastEventTime : Nat,
            actionTaken   : BOOLEAN]

NewRecord == [blockedAt |-> 0, unblockAfter |-> 0, blockCount |-> 0,
              triggerCount |-> 0, lastEventTime |-> 0, actionTaken |-> FALSE]

(* The counter starts again when the last event is older than the window,  *)
(* unless the address is blocked.                                          *)
WindowPassed(r, t) ==
  /\ r.blockedAt = 0
  /\ r.triggerCount > 0
  /\ t - r.lastEventTime > TriggerWindow * Minute

AfterWindow(r, t) ==
  IF WindowPassed(r, t)
    THEN [r EXCEPT !.triggerCount = 0, !.actionTaken = FALSE]
    ELSE r

CountEvent(r, t) ==
  [r EXCEPT !.triggerCount = @ + 1, !.lastEventTime = t]

Mutant_MarkTaken(r) == r
MarkTaken(r) == [r EXCEPT !.actionTaken = TRUE]

Mutant_MarkBlocked(r, t) ==
  [r EXCEPT !.blockedAt    = t,
            !.unblockAfter = t + (UnblockAfter * Minute) * r.blockCount,
            !.blockCount   = r.blockCount + 1]

(* The k-th block of an address lasts k times unblock_after.               *)
MarkBlocked(r, t) ==
  [r EXCEPT !.blockedAt    = t,
            !.unblockAfter = t + (UnblockAfter * Minute) * (r.blockCount + 1),
            !.blockCount   = r.blockCount + 1]

Mutant_Unblocked_blocked(r) ==
  [r EXCEPT !.triggerCount = 0, !.actionTaken = FALSE]

Mutant_Unblocked_count(r) ==
  [r EXCEPT !.blockedAt = 0, !.triggerCount = 0, !.actionTaken = FALSE,
            !.blockCount = 0]

Unblocked(r) ==
  [r EXCEPT !.blockedAt = 0, !.triggerCount = 0, !.actionTaken = FALSE]

=============================================================================
