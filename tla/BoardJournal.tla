---------------------------- MODULE BoardJournal ----------------------------
(***************************************************************************)
(* One board: its document row, the journal of command batches, the        *)
(* snapshots with their objects in artifact storage, and the maintenance   *)
(* that archives, deletes, expires, verifies and purges them.              *)
(*                                                                         *)
(* A digest stands for the SHA-256 of a document.  The SHA-256 of a        *)
(* snapshot covers its metadata too: two clients' snapshots of one document *)
(* differ, so a snapshot is a revision, a digest and a maker.  A request   *)
(* that is refused, or that finds its work done, changes nothing and is a  *)
(* stuttering step.                                                        *)
(***************************************************************************)
EXTENDS Integers, FiniteSets

CONSTANTS
    Keys,           \* idempotency keys
    Digests,        \* SHA-256 values of documents
    Makers,         \* clients, each one an actor with an origin
    Savers,         \* concurrent save_snapshot requests
    NoDigest,       \* the empty string
    MaxRevision,    \* bound: revisions
    MaxLamport,     \* bound: Lamport numbers
    MaxDamage       \* bound: objects damaged in storage

ASSUME DigestAssumption == NoDigest \notin Digests
ASSUME BoardBoundAssumption ==
    MaxRevision \in Nat /\ MaxLamport \in Nat /\ MaxDamage \in Nat

VARIABLES
    doc,        \* the BoardDocument row
    batches,    \* the BoardCommandBatch rows
    snap,       \* snap[r]: the BoardSnapshot row of revision r
    store,      \* the intact snapshot objects in artifact storage
    saver,      \* saver[s]: where a save_snapshot request stands
    doubts,     \* revisions whose snapshot was read damaged, not yet quarantined
    evidence,   \* revisions with a BoardEvidence row
    damage      \* objects damaged so far

vars == <<doc, batches, snap, store, saver, doubts, evidence, damage>>

Revs == 0..MaxRevision
Batch == [rev : Revs \ {0}, key : Keys, digest : Digests, maker : Makers,
          lamport : 0..MaxLamport]
Objects == [rev : Revs, digest : Digests, maker : Makers]
SnapshotStatuses == {"uploading", "available", "quarantined", "deleted"}
\* A board is deleted by its owner, or expired: deleted by retention.
Lives == {"live", "archived", "deleted", "expired", "purged"}
NoRow == [status |-> "none"]
Rows == {NoRow} \cup
        [status : SnapshotStatuses, digest : Digests, maker : Makers]
Idle == [pc |-> "idle"]

TypeOK ==
    /\ doc \in [life : Lives, rev : Revs,
                digest : Digests \cup {NoDigest}, snapRev : Revs, since : Revs]
    /\ batches \subseteq Batch
    /\ snap \in [Revs -> Rows]
    /\ store \subseteq Objects
    /\ saver \in [Savers -> {Idle} \cup
                    [pc : {"put", "finish", "quarantine"}, object : Objects]]
    /\ doubts \subseteq Revs
    /\ evidence \subseteq Revs
    /\ damage \in 0..MaxDamage

Init ==
    /\ doc = [life |-> "live", rev |-> 0, digest |-> NoDigest, snapRev |-> 0,
              since |-> 0]
    /\ batches = {}
    /\ snap = [r \in Revs |-> NoRow]
    /\ store = {}
    /\ saver = [s \in Savers |-> Idle]
    /\ doubts = {} /\ evidence = {} /\ damage = 0

Live == doc.life = "live"
Undeleted == doc.life \in {"live", "archived"}

Object(r) == [rev |-> r, digest |-> snap[r].digest, maker |-> snap[r].maker]
Intact(r) == Object(r) \in store
With(status) == {r \in Revs : snap[r].status = status}
After(r) == {b \in batches : b.rev > r}
Busy == {s \in Savers : saver[s] # Idle}

Marked(revs, status) ==
    [r \in Revs |-> IF r \in revs THEN [snap[r] EXCEPT !.status = status] ELSE snap[r]]

-----------------------------------------------------------------------------
(* append_commands: one transaction under the lock of the document. *)

\* Mutant: the revision is the one the client computes.
AppendAnyBase(base, b) ==
    /\ Live
    /\ b.rev = base + 1 /\ base <= doc.rev
    /\ \A a \in batches : a.key # b.key
    /\ b.lamport # 0 =>
         \A a \in batches : a.maker = b.maker => a.lamport < b.lamport
    /\ doc' = [doc EXCEPT !.rev = b.rev, !.digest = b.digest, !.since = @ + 1]
    /\ batches' = batches \cup {b}
    /\ UNCHANGED <<snap, store, saver, doubts, evidence, damage>>

\* A known key is answered without a change, or refused.
Append(base, b) ==
    /\ Live
    /\ \A a \in batches : a.key # b.key
    /\ base = doc.rev
    /\ b.lamport # 0 =>
         \A a \in batches : a.maker = b.maker => a.lamport < b.lamport
    /\ b.rev = doc.rev + 1
    /\ doc' = [doc EXCEPT !.rev = b.rev, !.digest = b.digest, !.since = @ + 1]
    /\ batches' = batches \cup {b}
    /\ UNCHANGED <<snap, store, saver, doubts, evidence, damage>>

-----------------------------------------------------------------------------
(* save_snapshot: reserve the row, put the object without a lock, finish. *)

\* Mutant: no digest is known of any revision.
ExpectedAny(r) == NoDigest

\* _revision_document_sha256
Expected(r) ==
    CASE r = doc.rev -> doc.digest
      [] r # doc.rev /\ r = 0 -> IF snap[0] = NoRow THEN NoDigest ELSE snap[0].digest
      [] OTHER -> (CHOOSE b \in batches : b.rev = r).digest

Reserved(o, status) ==
    [snap EXCEPT ![o.rev] = [status |-> status, digest |-> o.digest, maker |-> o.maker]]

\* Mutant: a row that is not available is taken over by another snapshot.
ReserveAnew(s, o) ==
    /\ saver[s] = Idle /\ Live
    /\ o.rev <= doc.rev
    /\ Expected(o.rev) \in {NoDigest, o.digest}
    /\ snap[o.rev].status \in {"none", "uploading", "quarantined"}
    /\ snap' = Reserved(o, "uploading")
    /\ saver' = [saver EXCEPT ![s] = [pc |-> "put", object |-> o]]
    /\ UNCHANGED <<doc, batches, store, doubts, evidence, damage>>

\* A row of the same snapshot that is not available is used again as it stands.
Reserve(s, o) ==
    /\ saver[s] = Idle /\ Live
    /\ o.rev <= doc.rev
    /\ Expected(o.rev) \in {NoDigest, o.digest}
    /\ \/ snap[o.rev] = NoRow /\ snap' = Reserved(o, "uploading")
       \/ /\ snap[o.rev].status \in {"uploading", "quarantined"}
          /\ Object(o.rev) = o
          /\ UNCHANGED snap
    /\ saver' = [saver EXCEPT ![s] = [pc |-> "put", object |-> o]]
    /\ UNCHANGED <<doc, batches, store, doubts, evidence, damage>>

Put(s) ==
    /\ saver[s].pc = "put"
    /\ store' = store \cup {saver[s].object}
    /\ saver' = [saver EXCEPT ![s].pc = "finish"]
    /\ UNCHANGED <<doc, batches, snap, doubts, evidence, damage>>

\* The put raises, the process stops, or the answer is lost: the status stays.
GivesUp(s) ==
    /\ saver[s] # Idle
    /\ \/ UNCHANGED store
       \/ saver[s].pc = "put" /\ store' = store \cup {saver[s].object}
    /\ saver' = [saver EXCEPT ![s] = Idle]
    /\ UNCHANGED <<doc, batches, snap, doubts, evidence, damage>>

\* Storage answers with another size or digest.
PutDamaged(s) ==
    /\ saver[s].pc = "put"
    /\ damage < MaxDamage /\ damage' = damage + 1
    /\ store' = store \ {saver[s].object}
    /\ saver' = [saver EXCEPT ![s].pc = "quarantine"]
    /\ UNCHANGED <<doc, batches, snap, doubts, evidence>>

\* _quarantine_snapshot, whatever the row has become meanwhile.
QuarantineUpload(s) ==
    /\ saver[s].pc = "quarantine"
    /\ snap' = Marked({saver[s].object.rev}, "quarantined")
    /\ saver' = [saver EXCEPT ![s] = Idle]
    /\ UNCHANGED <<doc, batches, store, doubts, evidence, damage>>

\* Revision 0 has no batch: its first snapshot says what it is.
Named(r) == IF doc.rev = 0 /\ doc.digest = NoDigest THEN snap[r].digest ELSE doc.digest

\* Mutant: a snapshot sets the counters back to nothing, as if no batch had been
\* appended while it was uploaded.
FinishResets(s) ==
    LET r == saver[s].object.rev IN
    /\ saver[s].pc = "finish" /\ Live
    /\ snap' = Marked({r}, "available")
    /\ doc' = IF r >= doc.snapRev
              THEN [doc EXCEPT !.snapRev = r, !.since = 0, !.digest = Named(r)]
              ELSE [doc EXCEPT !.digest = Named(r)]
    /\ saver' = [saver EXCEPT ![s] = Idle]
    /\ UNCHANGED <<batches, store, doubts, evidence, damage>>

\* On a board archived or deleted meanwhile the request ends in GivesUp.
Finish(s) ==
    LET r == saver[s].object.rev IN
    /\ saver[s].pc = "finish" /\ Live
    /\ snap' = Marked({r}, "available")
    /\ doc' = IF r >= doc.snapRev
              THEN [doc EXCEPT !.snapRev = r, !.since = Cardinality(After(r)),
                               !.digest = Named(r)]
              ELSE [doc EXCEPT !.digest = Named(r)]
    /\ saver' = [saver EXCEPT ![s] = Idle]
    /\ UNCHANGED <<batches, store, doubts, evidence, damage>>

-----------------------------------------------------------------------------
(* Damage, and those who find it *)

Damage(o) ==
    /\ o \in store
    /\ damage < MaxDamage /\ damage' = damage + 1
    /\ store' = store \ {o}
    /\ UNCHANGED <<doc, batches, snap, saver, doubts, evidence>>

\* verify_integrity reads the objects with their rows locked; the batch may be cut
\* short by its limit and passes over locked rows.
VerifyIntegrity(revs) ==
    /\ revs # {} /\ revs \subseteq {r \in With("available") : ~Intact(r)}
    /\ snap' = Marked(revs, "quarantined")
    /\ UNCHANGED <<doc, batches, store, saver, doubts, evidence, damage>>

\* recovery and load_latest_snapshot read the object after their transaction...
ReadDamaged(r) ==
    /\ Undeleted /\ snap[r].status = "available" /\ ~Intact(r)
    /\ doubts' = doubts \cup {r}
    /\ UNCHANGED <<doc, batches, snap, store, saver, evidence, damage>>

\* ... and quarantine the row in another one.
QuarantineRead(r) ==
    /\ r \in doubts
    /\ snap' = Marked({r}, "quarantined")
    /\ doubts' = doubts \ {r}
    /\ UNCHANGED <<doc, batches, store, saver, evidence, damage>>

\* BoardEvidenceService.finalize inserts its row for an available snapshot.
FinalizeEvidence(r) ==
    /\ Undeleted /\ r <= doc.rev /\ snap[r].status = "available"
    /\ evidence' = evidence \cup {r}
    /\ UNCHANGED <<doc, batches, snap, store, saver, doubts, damage>>

-----------------------------------------------------------------------------
(* The life of the board; what it means to guests is module GuestAccess *)

Becomes(life) == doc' = [doc EXCEPT !.life = life]

Archive ==
    /\ Live
    /\ Becomes("archived")
    /\ UNCHANGED <<batches, snap, store, saver, doubts, evidence, damage>>

Unarchive ==
    /\ doc.life = "archived"
    /\ Becomes("live")
    /\ UNCHANGED <<batches, snap, store, saver, doubts, evidence, damage>>

\* Mutant: the snapshots that evidence rests on are deleted with the others.
SoftDeleteAll ==
    /\ Undeleted
    /\ Becomes("deleted")
    /\ snap' = Marked({r \in Revs : snap[r] # NoRow}, "deleted")
    /\ UNCHANGED <<batches, store, saver, doubts, evidence, damage>>

\* soft_delete spares the snapshots that evidence rests on.
SoftDelete ==
    /\ Undeleted
    /\ Becomes("deleted")
    /\ snap' = Marked({r \in Revs \ evidence : snap[r] # NoRow}, "deleted")
    /\ UNCHANGED <<batches, store, saver, doubts, evidence, damage>>

\* expire_retention
Expire ==
    /\ Undeleted
    /\ doc' = [doc EXCEPT !.life = "expired"]
    /\ snap' = Marked({r \in Revs : snap[r] # NoRow}, "deleted")
    /\ UNCHANGED <<batches, store, saver, doubts, evidence, damage>>

\* purge_due, when the grace period of at least a day has outlasted every request.
Purge ==
    /\ doc.life \in {"deleted", "expired"} /\ evidence = {}
    /\ Busy = {} /\ doubts = {}
    /\ store' = store \ {Object(r) : r \in {q \in Revs : snap[q] # NoRow}}
    /\ doc' = [doc EXCEPT !.life = "purged"]
    /\ batches' = {} /\ snap' = [r \in Revs |-> NoRow]
    /\ UNCHANGED <<saver, doubts, evidence, damage>>

-----------------------------------------------------------------------------
Save(s) ==
    \/ \E o \in Objects : Reserve(s, o)
    \/ Put(s) \/ GivesUp(s) \/ PutDamaged(s) \/ QuarantineUpload(s) \/ Finish(s)

Next ==
    \/ \E base \in Revs, b \in Batch : Append(base, b)
    \/ \E s \in Savers : Save(s)
    \/ \E o \in store : Damage(o)
    \/ \E revs \in SUBSET Revs : VerifyIntegrity(revs)
    \/ \E r \in Revs : ReadDamaged(r) \/ QuarantineRead(r) \/ FinalizeEvidence(r)
    \/ Archive \/ Unarchive \/ SoftDelete \/ Expire \/ Purge

Spec == Init /\ [][Next]_vars

-----------------------------------------------------------------------------
\* The journal is a log: batches are appended one at a time to an open board, with
\* consecutive revisions, fresh keys and rising Lamport numbers, and never change.
Log == INSTANCE BoardLog WITH
    Entries <- Batch, log <- batches, open <- Live

JournalIsLog == Log!Spec

\* An available snapshot has the digest the journal has for its revision; revision
\* 0 has the digest of its first snapshot, whichever of several uploads that is.
SnapshotsMatch ==
    Undeleted =>
    \A r \in With("available") :
        /\ \A b \in batches : b.rev = r => snap[r].digest = b.digest
        /\ r = doc.rev => snap[r].digest = doc.digest

\* The counter that calls for a snapshot counts the batches after the latest one,
\* those included that arrived while it was uploaded.
CountersAgree ==
    doc.life # "purged" => doc.since = Cardinality(After(doc.snapRev))

\* Uploads may finish in any order: the latest revision is kept, and nothing but
\* damage makes it differ from what recovery would load.
LatestSnapshotKnown ==
    Undeleted /\ damage = 0 /\ With("available") # {} =>
        /\ doc.snapRev \in With("available")
        /\ \A r \in With("available") : r <= doc.snapRev

\* Unless storage lost it, the object of an available snapshot is there.
AvailableIsStored == damage = 0 => \A r \in With("available") : Intact(r)

\* What recovery would load: the latest available snapshot, of the digest the
\* journal has, with its object in place.
SnapshotsSound == SnapshotsMatch /\ LatestSnapshotKnown /\ AvailableIsStored

\* A purged board leaves no object behind, those of failed uploads included.
PurgeLeavesNothing == doc.life = "purged" => store = {}

\* A board its owner archives or deletes keeps the snapshots its evidence was
\* finalized from; retention does not (expire_retention marks them all).
EvidenceKeepsSnapshot ==
    doc.life # "expired" => \A r \in evidence : snap[r].status # "deleted"
=============================================================================
