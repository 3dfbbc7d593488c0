---------------------------- MODULE BoardEvidence ---------------------------
(***************************************************************************)
(* The evidence of one revision of a lesson board, and the end of the      *)
(* board: deletion, retention and purge, which decide over its pictures.   *)
(*                                                                         *)
(* finalize inserts the row under the lock of the board, stores the files  *)
(* one by one without a transaction and sets the row available in a second *)
(* one; publish and revoke authorize in one transaction and write in       *)
(* another, and so does a reader that finds a file damaged.                *)
(***************************************************************************)
EXTENDS BoardMedia

CONSTANTS
    Payloads        \* preview, document hash and transcript links of a request

VARIABLES
    evidence,   \* the BoardEvidence row of the revision
    file        \* file[f]: what the storage has under its keys

vars == <<mediaVars, evidence, file>>

Files == {"preview", "manifest"}
NoEvidence == [status |-> "none"]
\* shown: published_at is set and revoked_at is not
EvidenceRows == [status : {"uploading", "available", "quarantined"},
                 payload : Payloads, shown : BOOLEAN]
Missing == "missing"
Damaged == "damaged"

ASSUME PayloadsAssumption == Missing \notin Payloads

TypeOK ==
    /\ MediaTypeOK
    /\ evidence \in {NoEvidence} \cup EvidenceRows
    /\ file \in [Files -> {Missing, Damaged} \cup Payloads]

Init ==
    /\ MediaInit
    /\ evidence = NoEvidence
    /\ file = [f \in Files |-> Missing]

Undeleted == life \in {"live", "archived"}
EvidenceUnchanged == UNCHANGED <<evidence, file>>
MediaUnchanged == UNCHANGED <<life, rights>> /\ MediaRowsUnchanged

-----------------------------------------------------------------------------
(* finalize; the snapshot of the revision is BoardJournal's *)

InsertEvidence(q, p) ==
    /\ req[q] = Idle /\ Undeleted /\ evidence = NoEvidence
    /\ evidence' = [status |-> "uploading", payload |-> p, shown |-> FALSE]
    /\ Step(q, [pc |-> "preview", payload |-> p])
    /\ UNCHANGED file /\ MediaUnchanged

\* _require_same_payload; available evidence is answered.
FinalizeAgain(q, p) ==
    /\ req[q] = Idle /\ Undeleted
    /\ evidence.status \in {"uploading", "quarantined"} /\ evidence.payload = p
    /\ Step(q, [pc |-> "preview", payload |-> p])
    /\ EvidenceUnchanged /\ MediaUnchanged

After(f) == IF f = "preview" THEN "manifest" ELSE "available"

\* _put_verified
StoreFile(q, f) ==
    /\ At(q, f)
    /\ file' = [file EXCEPT ![f] = req[q].payload]
    /\ Step(q, [req[q] EXCEPT !.pc = After(f)])
    /\ UNCHANGED evidence /\ MediaUnchanged

\* The file may be stored all the same; _record_failure changes no status.
StoreFileFails(q, f) ==
    /\ At(q, f)
    /\ \/ file' = [file EXCEPT ![f] = req[q].payload]
       \/ UNCHANGED file
    /\ Step(q, Idle)
    /\ UNCHANGED evidence /\ MediaUnchanged

\* The second transaction, whatever the status is by then.
BecomeAvailable(q) ==
    /\ At(q, "available") /\ evidence # NoEvidence
    /\ evidence' = [evidence EXCEPT !.status = "available"]
    /\ Step(q, Idle)
    /\ UNCHANGED file /\ MediaUnchanged

-----------------------------------------------------------------------------
(* Publication and reading *)

\* The routes authorize on the board, which must not be deleted ...
Manage(q) ==
    /\ req[q] = Idle /\ Undeleted /\ evidence # NoEvidence
    /\ Step(q, [pc |-> "manage"])
    /\ EvidenceUnchanged /\ MediaUnchanged

\* ... and the service writes whatever became of it.
PublishEvidence(q) ==
    /\ At(q, "manage") /\ evidence.status = "available"
    /\ evidence' = [evidence EXCEPT !.shown = TRUE]
    /\ Step(q, Idle)
    /\ UNCHANGED file /\ MediaUnchanged

PublishRefused(q) ==
    /\ At(q, "manage") /\ evidence.status # "available"
    /\ Step(q, Idle)
    /\ EvidenceUnchanged /\ MediaUnchanged

RevokeEvidence(q) ==
    /\ At(q, "manage")
    /\ evidence' = [evidence EXCEPT !.shown = FALSE]
    /\ Step(q, Idle)
    /\ UNCHANGED file /\ MediaUnchanged

\* read_artifact: a file that differs from the row; a missing one is an error.
ReadMismatch(q, f) ==
    /\ req[q] = Idle /\ evidence # NoEvidence
    /\ file[f] \notin {Missing, evidence.payload}
    /\ Step(q, [pc |-> "quarantine"])
    /\ EvidenceUnchanged /\ MediaUnchanged

\* _quarantine
Quarantine(q) ==
    /\ At(q, "quarantine")
    /\ evidence' = [evidence EXCEPT !.status = "quarantined"]
    /\ Step(q, Idle)
    /\ UNCHANGED file /\ MediaUnchanged

\* The storage damages a file.
Damage(f) ==
    /\ file[f] \in Payloads
    /\ file' = [file EXCEPT ![f] = Damaged]
    /\ UNCHANGED <<evidence, req>> /\ MediaUnchanged

-----------------------------------------------------------------------------
(* The end of the board *)

SetLife(from, to) ==
    /\ life \in from /\ life' = to
    /\ UNCHANGED <<rights, req>> /\ MediaRowsUnchanged /\ EvidenceUnchanged

Archive == SetLife({"live"}, "archived")
Unarchive == SetLife({"archived"}, "live")
\* soft_delete and expire_retention; the rows of the pictures stay as they are.
Delete == SetLife({"live", "archived"}, "deleted")

\* The days of grace outlast every request.
Purgeable == life = "deleted" /\ evidence = NoEvidence /\ Busy = {}

\* Mutant: the objects of the available pictures are deleted.
PurgeAvailable ==
    /\ Purgeable /\ life' = "purged"
    /\ object' = [k \in Keys |-> object[k] /\ asset[k].status # "available"]
    /\ asset' = [k \in Keys |-> NoAsset]
    /\ UNCHANGED <<rights, req, told, unacked, evidence, file>>

\* purge_due: the objects of all its rows, then the board with its rows.
Purge ==
    /\ Purgeable /\ life' = "purged"
    /\ object' = [k \in Keys |-> object[k] /\ asset[k] = NoAsset]
    /\ asset' = [k \in Keys |-> NoAsset]
    /\ UNCHANGED <<rights, req, told, unacked, evidence, file>>

\* The storage fails after some of them and the rows are rolled back.
PurgeFails(k) ==
    /\ Purgeable /\ object[k]
    /\ object' = [object EXCEPT ![k] = FALSE]
    /\ UNCHANGED <<life, rights, asset, req, told, unacked, evidence, file>>

Next ==
    \/ (Media \/ \E q \in Requests : Die(q)) /\ EvidenceUnchanged
    \/ \E q \in Requests, p \in Payloads : InsertEvidence(q, p) \/ FinalizeAgain(q, p)
    \/ \E q \in Requests, f \in Files :
          StoreFile(q, f) \/ StoreFileFails(q, f) \/ ReadMismatch(q, f)
    \/ \E q \in Requests :
          \/ Manage(q)
          \/ PublishEvidence(q) \/ PublishRefused(q) \/ RevokeEvidence(q)
          \/ BecomeAvailable(q) \/ Quarantine(q)
    \/ \E f \in Files : Damage(f)
    \/ Archive \/ Unarchive \/ Delete \/ Purge
    \/ \E k \in Keys : PurgeFails(k)

Spec == Init /\ [][Next]_vars

-----------------------------------------------------------------------------
\* Available evidence has all its files, and they are those of the payload its row
\* was made for unless the storage damaged them, however finalizing requests
\* overlap, fail half way and are repeated.
EvidenceIsItsPayload ==
    evidence.status = "available" =>
        \A f \in Files : file[f] \in {evidence.payload, Damaged}

\* A purged board leaves nothing behind: no object of a picture whose upload failed,
\* died or could not be cleaned up, and no evidence without its board.
PurgeLeavesNothing ==
    life = "purged" =>
        /\ \A k \in Keys : ~object[k]
        /\ evidence = NoEvidence /\ \A f \in Files : file[f] = Missing

\* The files of a board from its first evidence to its purge.
FilesSound == TypeOK /\ EvidenceIsItsPayload /\ PurgeLeavesNothing
=============================================================================
