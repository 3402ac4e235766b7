----------------------------- MODULE Dashboard ------------------------------
(***************************************************************************)
(* The page of the dashboard (internal/web/handler.go, dashboard.html).    *)
(* Asking for it changes nothing, so the page is a function of the table   *)
(* and of the clock; the request its buttons make is ManualArrives.        *)
(***************************************************************************)
EXTENDS ManagerProperties

(* What GetAllRecords may return: the addresses with a row.  It does not   *)
(* ask for rows.Err, so a query that fails halfway returns some of them.   *)
RowSets == IF QueryMayFail THEN SUBSET known ELSE {known}

Mutant_Status(r, t) == IF r.unblockAfter > t THEN "Blocked" ELSE "Not Blocked"

(* UnblockAfter is not reset when the block ends, BlockedAt is.            *)
Status(r, t) ==
  IF r.blockedAt > 0 /\ r.unblockAfter > t THEN "Blocked" ELSE "Not Blocked"

Page(rows) == [ip \in rows |-> Status(blocks[ip], now)]

(* The template puts a button next to the status.                          *)
Offers(page) == {ip \in DOMAIN page : page[ip] = "Blocked"}

(* Requests and timers that do not overlap: between them whoever looks at  *)
(* the page finds a button for every address the firewall has a rule for,  *)
(* but in the very second its block ends, and for no other address.        *)
PageMatchesFirewall ==
  Quiet =>
    \A rows \in RowSets :
      /\ Offers(Page(rows)) \subseteq rules
      /\ \A ip \in rules :
           ip \in Offers(Page(rows)) \/ now = blocks[ip].unblockAfter

=============================================================================
