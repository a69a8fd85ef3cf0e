------------------------------ MODULE DocClaims ------------------------------
(***************************************************************************)
(* What the repository's comments and documents say of a run's life, and   *)
(* the code does not keep: each is checked, and refuted, by a run of its   *)
(* own.  README.md gives the traces.                                       *)
(***************************************************************************)
EXTENDS WorkshopRuns

(* db.ts, reapableRuns: destruction happens because somebody deleted the    *)
(* run, or because a live one has passed its end, and for no other reason   *)
(* (a run being torn down already had one of the two).                      *)
ClaimHasReason ==
  [][\A r \in Runs : ~row[r].claimed /\ row'[r].claimed =>
       \/ row[r].del
       \/ row[r].status = "destroying"
       \/ row[r].status = "ready" /\ Expired(row[r])]_vars

(* runs.ts, extendRun: an extension that was granted holds.  When a         *)
(* provision finishes, the run lives at least as long as its row said.      *)
ExtensionKept ==
  [][\A r \in Runs : row[r].status \in InFlight /\ row'[r].status = "ready" =>
       IF row[r].expires # NoExpiry THEN row'[r].expires >= row[r].expires
                                    ELSE row'[r].expires >= now + row[r].ttl]_vars

(* db.ts, setDestroyed: the row survives as long as there is anything to    *)
(* tear down.                                                               *)
RecordOutlivesResources ==
  \A r \in Runs : row[r].status = "deleted" => standing[r] = {}

(* run.ts, the catch block: nothing destroys on a failure; the run stays    *)
(* failed until someone deletes it.                                         *)
FailureWaits ==
  [][\A r \in Runs : row[r].status = "failed" /\ row'[r].status = "destroying" => row'[r].del]_vars

(* README.md: a run that is mid-provision settles.                          *)
InFlightSettles ==
  \A r \in Runs : row[r].status \in InFlight ~> row[r].status \notin InFlight
=============================================================================
