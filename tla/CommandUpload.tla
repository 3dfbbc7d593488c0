--------------------------- MODULE CommandUpload ---------------------------
(***************************************************************************)
(* Command batches of guests, sent in one request or staged in parts:      *)
(* start, put_part, finalize and abort, and the worker's pruning.          *)
(*                                                                         *)
(* Each request first passes GuestAccess; what it does then is one         *)
(* transaction, but start counts and inserts without a lock between two    *)
(* starts, and finalize reads the upload, then its parts, and appends in a *)
(* transaction of its own.  A content stands for an envelope with its      *)
(* SHA-256 and its idempotency key; a part is a piece of some content.     *)
(***************************************************************************)
EXTENDS GuestAccess, FiniteSets

CONSTANTS
    UploadIds, Contents,
    NoContent,
    Parts,          \* CHUNK_BYTES pieces of a content
    MaxActive       \* MAX_ACTIVE_UPLOADS_PER_ACTOR

ASSUME UploadAssumption ==
    /\ NoContent \notin Contents
    /\ Parts \in Nat \ {0} /\ MaxActive \in Nat \ {0}
    /\ IsFiniteSet(UploadIds) /\ IsFiniteSet(Requests)

VARIABLES
    upload      \* upload[u]: the BoardCommandUpload row with its chunks

vars == <<accessVars, upload>>

NoUpload == [guest |-> "none"]
UploadRows ==
    [guest : Guests, epoch : Epochs, content : Contents, expired : BOOLEAN,
     parts : [1..Parts -> Contents \cup {NoContent}]]

TypeOK ==
    /\ AccessTypeOK
    /\ upload \in [UploadIds -> {NoUpload} \cup UploadRows]

Init ==
    /\ AccessInit
    /\ upload = [u \in UploadIds |-> NoUpload]

Active(g) ==
    {u \in UploadIds :
        upload[u] # NoUpload /\ upload[u].guest = g /\ ~upload[u].expired}
Ready(q) == req[q].pc = "body"
Done(q) == req' = [req EXCEPT ![q] = Idle]

\* _upload
Found(q, u) ==
    /\ upload[u] # NoUpload /\ ~upload[u].expired
    /\ upload[u].guest = req[q].guest /\ upload[u].epoch = req[q].epoch

-----------------------------------------------------------------------------
\* append_commands
AppendCommands(q) ==
    /\ Ready(q) /\ board.life = "live"
    /\ Done(q)
    /\ UNCHANGED <<board, inv, cookie, ctx, upload>>

\* start: a row with this id is answered or refused; without one it counts ...
Start(q, u, content) ==
    /\ Ready(q) /\ upload[u] = NoUpload
    /\ Cardinality(Active(req[q].guest)) < MaxActive
    /\ req' = [req EXCEPT ![q] = [pc |-> "insert", guest |-> @.guest,
                                  epoch |-> @.epoch, id |-> u, content |-> content]]
    /\ UNCHANGED <<board, inv, cookie, ctx, upload>>

\* ... and inserts, unless another request inserted the id meanwhile.
Insert(q) ==
    LET r == req[q] IN
    /\ r.pc = "insert" /\ upload[r.id] = NoUpload
    /\ upload' = [upload EXCEPT ![r.id] =
                    [guest |-> r.guest, epoch |-> r.epoch, content |-> r.content,
                     expired |-> FALSE, parts |-> [p \in 1..Parts |-> NoContent]]]
    /\ Done(q)
    /\ UNCHANGED <<board, inv, cookie, ctx>>

\* A part that is there is answered, or refused when it differs.
PutPart(q, u, p, content) ==
    /\ Ready(q) /\ Found(q, u)
    /\ upload[u].parts[p] = NoContent
    /\ upload' = [upload EXCEPT ![u].parts[p] = content]
    /\ Done(q)
    /\ UNCHANGED <<board, inv, cookie, ctx>>

Abort(q, u) ==
    /\ Ready(q) /\ Found(q, u)
    /\ upload' = [upload EXCEPT ![u] = NoUpload]
    /\ Done(q)
    /\ UNCHANGED <<board, inv, cookie, ctx>>

\* validated_envelope reads the row ...
ReadUpload(q, u) ==
    /\ Ready(q) /\ Found(q, u)
    /\ req' = [req EXCEPT ![q] = [pc |-> "parts", guest |-> @.guest,
                                  epoch |-> @.epoch, id |-> u, row |-> upload[u]]]
    /\ UNCHANGED <<board, inv, cookie, ctx, upload>>

\* Mutant: the number of the parts is checked, not what they add up to.
ReadPartsUnsummed(q) ==
    LET r == req[q] IN
    /\ r.pc = "parts" /\ upload[r.id] # NoUpload
    /\ \A p \in 1..Parts : upload[r.id].parts[p] # NoContent
    /\ req' = [req EXCEPT ![q] = [pc |-> "envelope", guest |-> r.guest,
                                  epoch |-> r.epoch, row |-> r.row,
                                  content |-> upload[r.id].parts[1]]]
    /\ UNCHANGED <<board, inv, cookie, ctx, upload>>

\* ... then the parts, which must add up to its size and SHA-256.
ReadParts(q) ==
    LET r == req[q] IN
    /\ r.pc = "parts" /\ upload[r.id] # NoUpload
    /\ \A p \in 1..Parts : upload[r.id].parts[p] = r.row.content
    /\ req' = [req EXCEPT ![q] = [pc |-> "envelope", guest |-> r.guest,
                                  epoch |-> r.epoch, row |-> r.row,
                                  content |-> r.row.content]]
    /\ UNCHANGED <<board, inv, cookie, ctx, upload>>

\* The row stays, for the client to finalize again if the answer is lost.
Publish(q) ==
    /\ req[q].pc = "envelope" /\ board.life = "live"
    /\ Done(q)
    /\ UNCHANGED <<board, inv, cookie, ctx, upload>>

UploadElapses(u) ==
    /\ upload[u] # NoUpload /\ ~upload[u].expired
    /\ upload' = [upload EXCEPT ![u].expired = TRUE]
    /\ UNCHANGED <<board, inv, cookie, ctx, req>>

\* prune_expired: as many as its limit, passing over locked rows.
Prune(u) ==
    /\ upload[u] # NoUpload /\ upload[u].expired
    /\ upload' = [upload EXCEPT ![u] = NoUpload]
    /\ UNCHANGED <<board, inv, cookie, ctx, req>>

Served(q) ==
    \/ AppendCommands(q)
    \/ \E u \in UploadIds, content \in Contents :
          Start(q, u, content) \/ \E p \in 1..Parts : PutPart(q, u, p, content)
    \/ \E u \in UploadIds : Abort(q, u) \/ ReadUpload(q, u)
    \/ Insert(q) \/ ReadParts(q) \/ Publish(q)

Next ==
    \/ (Teacher \/ Guest) /\ UNCHANGED upload
    \/ \E q \in Requests : Served(q)
    \/ \E u \in UploadIds : UploadElapses(u) \/ Prune(u)

Spec == Init /\ [][Next]_vars

-----------------------------------------------------------------------------
\* A staged batch lands whole or not at all: it is the content its upload declared,
\* even if the upload is aborted and its id used again while it is read; and it was
\* started by the actor who finalizes it, under the epoch that request was sent
\* with.
StagedWhole ==
    \A q \in Requests : req[q].pc = "envelope" =>
        /\ req[q].content = req[q].row.content
        /\ req[q].row.guest = req[q].guest
        /\ req[q].row.epoch = req[q].epoch

\* The quota of active uploads is counted without a lock: it is exceeded by no more
\* than the other requests that raced.
QuotaNearlyKept ==
    \A g \in Guests : Cardinality(Active(g)) < MaxActive + Cardinality(Requests)

\* Rows are well formed, what is staged is whole and the quota all but kept.
UploadsSound == TypeOK /\ StagedWhole /\ QuotaNearlyKept
=============================================================================
