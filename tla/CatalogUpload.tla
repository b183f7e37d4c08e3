---------------------------- MODULE CatalogUpload ----------------------------
(***************************************************************************)
(* UploadBook against object storage and the database, and the reconciler  *)
(* that collects originals no book refers to.  There is no transaction     *)
(* over both stores: an upload first stores the object under a fresh       *)
(* reference, then commits the row, and undoes the first step when the     *)
(* second one failed.  The answer to a commit may be lost, every clean-up  *)
(* may fail, and the process may stop anywhere.                            *)
(*                                                                         *)
(* An upload, its object and its row share one number; the listing of the  *)
(* store is in the order of the numbers, and uploads start in any order.   *)
(***************************************************************************)
EXTENDS Naturals, FiniteSetsExt

CONSTANTS Uploads,          \* 1..n
          UploadSlots,      \* capacity of the uploads channel
          BatchSize,        \* page of a listing and of a reference lookup
          MaxObjects,       \* objects a pass scans
          MaximumFaults     \* bound on failed passes and stops of the process

ASSUME UploadAssumption ==
  /\ IsFiniteSet(Uploads) /\ Uploads = 1..Cardinality(Uploads)
  /\ UploadSlots \in Nat \ {0} /\ BatchSize \in Nat \ {0} /\ MaxObjects >= BatchSize
  /\ MaximumFaults \in Nat

VARIABLES uploads,      \* phase of each upload
          stored,       \* objects in the bucket
          rows,         \* committed rows
          doubtful,     \* commits without an answer that may still land
          late,         \* rows that landed after the upload looked for them
          aged,         \* objects older than the grace period
          pass,         \* the pass of the reconciler
          faults        \* failed passes and stops so far

uploadVars == << uploads, stored, rows, doubtful, late, aged, pass, faults >>

Phases == {"idle", "put", "create", "lookup", "cleanup", "succeeded", "failed"}

Active(u) == uploads[u] \in {"put", "create", "lookup", "cleanup"}

(* A pass holds the cursor (0 is the empty one), how many objects it has   *)
(* scanned, the candidates it still has to look up and the orphans it has  *)
(* still to delete.  A pass lists forward, so its lists are in the order   *)
(* of the numbers and are kept as sets.                                    *)
Pass(phase, cursor, scanned, candidates, orphans) ==
  [phase |-> phase, cursor |-> cursor, scanned |-> scanned,
   candidates |-> candidates, orphans |-> orphans]

PassEnds(cursor) == Pass("idle", cursor, 0, {}, {})

UploadInit ==
  /\ uploads = [u \in Uploads |-> "idle"]
  /\ stored = {} /\ rows = {} /\ doubtful = {} /\ late = {} /\ aged = {}
  /\ pass = PassEnds(0) /\ faults = 0

-----------------------------------------------------------------------------
(* UploadBook *)

Move(u, phase) == uploads' = [uploads EXCEPT ![u] = phase]

(* An invalid request, a format error and a full channel change nothing. *)
StartUpload(u) ==
  /\ uploads[u] = "idle"
  /\ Cardinality({v \in Uploads : Active(v)}) < UploadSlots
  /\ Move(u, "put")
  /\ UNCHANGED << stored, rows, doubtful, late, aged, pass, faults >>

(* Put writes the object and verifies what was stored. *)
Put(u) ==
  /\ uploads[u] = "put"
  /\ stored' = stored \cup {u}
  /\ Move(u, "create")
  /\ UNCHANGED << rows, doubtful, late, aged, pass, faults >>

(* An error of the write or of its verification, a receipt that does not   *)
(* match, an identifier or an event that cannot be made: the object may    *)
(* be there.  cleanupFailedPut and deleteObject both try to remove it.     *)
PutFails(u) ==
  /\ uploads[u] \in {"put", "create"}
  /\ stored' \in {stored, stored \cup {u}}
  /\ Move(u, "cleanup")
  /\ UNCHANGED << rows, doubtful, late, aged, pass, faults >>

(* repository.Create commits; or fails; or its answer is lost, and the     *)
(* commit has landed, is still on its way, or never arrived.               *)
Create(u) ==
  /\ uploads[u] = "create"
  /\ \/ Move(u, "succeeded") /\ rows' = rows \cup {u} /\ UNCHANGED doubtful
     \/ Move(u, "lookup") /\ rows' \in {rows, rows \cup {u}} /\ UNCHANGED doubtful
     \/ Move(u, "lookup") /\ doubtful' = doubtful \cup {u} /\ UNCHANGED rows
  /\ UNCHANGED << stored, late, aged, pass, faults >>

(* Fault: an object whose commit is in doubt is removed without a lookup. *)
LookupNothing(u) ==
  /\ uploads[u] = "lookup"
  /\ Move(u, "cleanup")
  /\ UNCHANGED << stored, rows, doubtful, late, aged, pass, faults >>

(* The upload asks for the row it may have written. *)
Lookup(u) ==
  /\ uploads[u] = "lookup"
  /\ \/ Move(u, IF u \in rows THEN "succeeded" ELSE "cleanup")
     \/ Move(u, "failed")
  /\ UNCHANGED << stored, rows, doubtful, late, aged, pass, faults >>

(* deleteObject ignores its error. *)
deleteObject(u) ==
  /\ uploads[u] = "cleanup"
  /\ stored' \in {stored, stored \ {u}}
  /\ Move(u, "failed")
  /\ UNCHANGED << rows, doubtful, late, aged, pass, faults >>

(* The database ends a transaction in doubt, well within the grace period. *)
CommitLands(u) ==
  /\ u \in doubtful
  /\ doubtful' = doubtful \ {u}
  /\ \/ rows' = rows \cup {u}
        /\ late' = IF uploads[u] \in {"cleanup", "failed"} THEN late \cup {u} ELSE late
     \/ UNCHANGED << rows, late >>
  /\ UNCHANGED << uploads, stored, aged, pass, faults >>

-----------------------------------------------------------------------------
(* The reconciler *)

(* The age of an object counts from its last modification.  An upload is   *)
(* given less time than the grace period (two minutes and one hour by      *)
(* default), so an object that has aged belongs to an upload that ended.   *)
Age(u) ==
  /\ u \in stored \ aged /\ ~ Active(u) /\ u \notin doubtful
  /\ aged' = aged \cup {u}
  /\ UNCHANGED << uploads, stored, rows, doubtful, late, pass, faults >>

(* A pass over an empty bucket changes nothing but a cursor. *)
StartPass ==
  /\ pass.phase = "idle"
  /\ stored # {} \/ pass.cursor # 0
  /\ pass' = [pass EXCEPT !.phase = "list"]
  /\ UNCHANGED << uploads, stored, rows, doubtful, late, aged, faults >>

(* The first n of a list. *)
First(n, set) == {u \in set : Cardinality({v \in set : v < u}) < n}

(* ListCompleted: the objects after the cursor, and the last of a full     *)
(* page as the next cursor, else the empty cursor.                         *)
ListCompleted(cursor, limit) == First(limit, {u \in stored : u > cursor})

(* Fault: the cursor stays at the end of the bucket. *)
NextCursorAtEnd(page, limit) == IF page = {} THEN pass.cursor ELSE Max(page)

NextCursor(page, limit) == IF Cardinality(page) = limit THEN Max(page) ELSE 0

ListPage ==
  LET limit == Min({BatchSize, MaxObjects - pass.scanned})
      page  == ListCompleted(pass.cursor, limit)
      next  == NextCursor(page, limit)
      found == pass.scanned + Cardinality(page)
  IN  /\ pass.phase = "list"
      /\ pass' = Pass(IF next = 0 \/ found = MaxObjects THEN "check" ELSE "list",
                      next, found, pass.candidates \cup (page \cap aged), {})
      /\ UNCHANGED << uploads, stored, rows, doubtful, late, aged, faults >>

ReferencesExist(references) == references \cap rows

CheckBatch ==
  LET checked == First(BatchSize, pass.candidates)
      lost    == checked \ ReferencesExist(checked)
  IN  /\ pass.phase = "check"
      /\ pass' = IF pass.candidates = {}
                 THEN IF pass.orphans = {} THEN PassEnds(pass.cursor)
                                           ELSE [pass EXCEPT !.phase = "delete"]
                 ELSE [pass EXCEPT !.candidates = @ \ checked, !.orphans = @ \cup lost]
      /\ UNCHANGED << uploads, stored, rows, doubtful, late, aged, faults >>

DeleteOrphan ==
  \E u \in First(1, pass.orphans) :
    /\ pass.phase = "delete"
    /\ stored' = stored \ {u}
    /\ aged' = aged \ {u}
    /\ pass' = IF pass.orphans = {u} THEN PassEnds(pass.cursor)
                                     ELSE [pass EXCEPT !.orphans = @ \ {u}]
    /\ UNCHANGED << uploads, rows, doubtful, late, faults >>

(* An error of the store or of the database ends the pass; the cursor it   *)
(* has reached is where the next one goes on.                              *)
PassFails ==
  /\ pass.phase # "idle" /\ faults < MaximumFaults
  /\ pass' = PassEnds(pass.cursor)
  /\ faults' = faults + 1
  /\ UNCHANGED << uploads, stored, rows, doubtful, late, aged >>

(* The process stops: its uploads end where they are, and the pass starts  *)
(* over from the beginning of the bucket.                                  *)
Stop ==
  /\ faults < MaximumFaults
  /\ pass.cursor # 0 \/ pass.phase # "idle" \/ \E u \in Uploads : Active(u)
  /\ uploads' = [u \in Uploads |-> IF Active(u) THEN "failed" ELSE uploads[u]]
  /\ pass' = PassEnds(0)
  /\ faults' = faults + 1
  /\ UNCHANGED << stored, rows, doubtful, late, aged >>

Reconcile == StartPass \/ ListPage \/ CheckBatch \/ DeleteOrphan

UploadStep(u) ==
  \/ StartUpload(u) \/ Put(u) \/ PutFails(u) \/ Create(u) \/ Lookup(u)
  \/ deleteObject(u) \/ CommitLands(u) \/ Age(u)

UploadNext == (\E u \in Uploads : UploadStep(u)) \/ Reconcile \/ PassFails \/ Stop

(* A request runs to its end, objects age, and the reconciler runs again   *)
(* after every interval.                                                   *)
UploadFairness ==
  /\ WF_uploadVars(\E u \in Uploads : Put(u) \/ Create(u) \/ Lookup(u) \/ deleteObject(u))
  /\ WF_uploadVars(\E u \in Uploads : CommitLands(u) \/ Age(u))
  /\ WF_uploadVars(Reconcile)

UploadSpec == UploadInit /\ [][UploadNext]_uploadVars /\ UploadFairness

-----------------------------------------------------------------------------
(* Properties *)

(***************************************************************************)
(* A book whose upload was answered with success has its original, and the *)
(* reconciler removes the original of no book.  The exception is stated: a *)
(* commit that lands after the upload looked for the row and did not find  *)
(* it leaves a row whose original is gone (service.go:352).                *)
(***************************************************************************)
UploadKeepsObject ==
  /\ rows \subseteq stored \cup late
  /\ \A u \in Uploads : uploads[u] = "succeeded" => u \in rows /\ u \in stored

(***************************************************************************)
(* Every original an upload left behind is removed in the end: the pages,  *)
(* the bound on a pass, its errors and the restarts skip no object for     *)
(* ever.                                                                   *)
(***************************************************************************)
OrphansCollected == <>[](stored \subseteq rows)
=============================================================================
