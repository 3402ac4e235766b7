------------------------------ MODULE SQLiteDB ------------------------------
(***************************************************************************)
(* The table blocks of blocks.db (internal/db/sqlite.go): one row per      *)
(* address, kept over restarts.  Every SQL statement is atomic;            *)
(* GetOrCreateBlockRecord is two of them, a SELECT and an INSERT, so the   *)
(* callers take them as two steps.  No statement deletes a row.            *)
(***************************************************************************)
EXTENDS BlockRecord

VARIABLES
  known,   \* the addresses that have a row
  blocks   \* the row of each; a new record where there is none

dbVars == <<known, blocks>>

TableInit ==
  /\ known = {}
  /\ blocks = [ip \in IPs |-> NewRecord]

TableTypeOK ==
  /\ known \subseteq IPs
  /\ blocks \in [IPs -> Records]

(* A statement returns an error: the file cannot be read or written, or is *)
(* locked by another connection for longer than the driver waits.          *)
QueryMayFail == "db" \in Faults

(* The first SELECT of GetOrCreateBlockRecord finds the row, or not.       *)
Finds(ip) == ip \in known

(* Its INSERT, where the SELECT found nothing.  ip is UNIQUE: the INSERT   *)
(* fails if another goroutine has made the row in between.                 *)
Insert(ip) ==
  /\ ip \notin known
  /\ known' = known \cup {ip}
  /\ blocks' = [blocks EXCEPT ![ip] = NewRecord]

InsertFails(ip) ==
  /\ ip \in known \/ QueryMayFail
  /\ UNCHANGED dbVars

(* UpdateBlockRecord writes every column of the row, whatever it holds now. *)
Update(ip, r) ==
  /\ blocks' = IF ip \in known THEN [blocks EXCEPT ![ip] = r] ELSE blocks
  /\ UNCHANGED known

UpdateFails ==
  /\ QueryMayFail
  /\ UNCHANGED dbVars

=============================================================================
