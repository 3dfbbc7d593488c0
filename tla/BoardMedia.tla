----------------------------- MODULE BoardMedia -----------------------------
(***************************************************************************)
(* The pictures of one board: a row per idempotency key, an object in the  *)
(* artifact storage per row, and the requests that upload them.            *)
(*                                                                         *)
(* A request reserves the row under the lock of the board, stores the      *)
(* object without a transaction, asks again whether its author may write,  *)
(* and makes the row available under the lock; every failure deletes the   *)
(* object first and marks the row after.  A content stands for the bytes   *)
(* with their SHA-256, size, type, dimensions and file name.               *)
(***************************************************************************)
EXTENDS Naturals, FiniteSets

CONSTANTS
    Keys,           \* upload idempotency keys
    Contents,
    Requests,       \* requests under way at once
    MaxAssets       \* max_assets_per_board

ASSUME QuotaAssumption == MaxAssets \in Nat \ {0}

VARIABLES
    life,       \* of the board: "live", "archived", "deleted", "purged"
    rights,     \* do the authors still have the right to write?
    asset,      \* asset[k]: the BoardMediaAsset row
    object,     \* object[k]: is its object in the storage?
    req,        \* req[q]: where a request stands
    told,       \* answers that said "available": <<key, content>>
    unacked     \* keys whose finalizing commit lost its acknowledgement

mediaVars == <<life, rights, asset, object, req, told, unacked>>

NoAsset == [status |-> "none"]
Idle == [pc |-> "idle"]
Statuses == {"uploading", "available", "quarantined", "deleted"}
\* deleted_at is set when the status is "deleted"
AssetRows == [status : Statuses, content : Contents, referenced : BOOLEAN]
Uploads == [pc : {"put", "reauthorize", "finalize"}, key : Keys, late : BOOLEAN]
Failures == [pc : {"cleanup", "mark"}, key : Keys, to : {"quarantined", "deleted"}]

MediaTypeOK ==
    /\ life \in {"live", "archived", "deleted", "purged"}
    /\ rights \in BOOLEAN
    /\ asset \in [Keys -> {NoAsset} \cup AssetRows]
    /\ object \in [Keys -> BOOLEAN]
    /\ told \subseteq Keys \X Contents
    /\ unacked \subseteq Keys

MediaInit ==
    /\ life = "live" /\ rights = TRUE
    /\ asset = [k \in Keys |-> NoAsset]
    /\ object = [k \in Keys |-> FALSE]
    /\ req = [q \in Requests |-> Idle]
    /\ told = {} /\ unacked = {}

Busy == {q \in Requests : req[q] # Idle}
\* document_for in the route, _locked_active_document in the service
MayWrite == life = "live" /\ rights
Step(q, r) == req' = [req EXCEPT ![q] = r]
At(q, pc) == req[q].pc = pc
Uploading(k) == [pc |-> "put", key |-> k, late |-> FALSE]
Cleanup(k, status) == [pc |-> "cleanup", key |-> k, to |-> status]
MediaRowsUnchanged == UNCHANGED <<asset, object, told, unacked>>

Counted == {k \in Keys : asset[k].status \in {"uploading", "available"}}
\* _enforce_quota
WithinQuota == Cardinality(Counted) < MaxAssets

\* get
Found(k) == asset[k].status = "available"
\* get_board_media_content
Readable(k) == Found(k) /\ object[k]

-----------------------------------------------------------------------------
(* _reserve *)

ReserveNew(q, k, c) ==
    /\ req[q] = Idle /\ MayWrite
    /\ asset[k] = NoAsset /\ WithinQuota
    /\ asset' = [asset EXCEPT ![k] =
                    [status |-> "uploading", content |-> c, referenced |-> FALSE]]
    /\ Step(q, Uploading(k))
    /\ UNCHANGED <<life, rights, object, told, unacked>>

\* _same_upload
SameUpload(k, c) == asset[k] # NoAsset /\ asset[k].content = c

AnswerAvailable(q, k, c) ==
    /\ req[q] = Idle /\ MayWrite
    /\ SameUpload(k, c) /\ asset[k].status = "available"
    /\ told' = told \cup {<<k, c>>}
    /\ UNCHANGED <<life, rights, asset, object, req, unacked>>

\* Mutant: the quota is for new rows.
ReserveAgainFree(q, k, c) ==
    /\ req[q] = Idle /\ MayWrite
    /\ SameUpload(k, c) /\ asset[k].status = "deleted"
    /\ asset' = [asset EXCEPT ![k].status = "uploading"]
    /\ Step(q, Uploading(k))
    /\ UNCHANGED <<life, rights, object, told, unacked>>

\* Mutant: an upload in progress is taken over.
ReserveTakeover(q, k, c) ==
    /\ req[q] = Idle /\ MayWrite
    /\ SameUpload(k, c)
    /\ (asset[k].status = "uploading" \/ (asset[k].status = "deleted" /\ WithinQuota))
    /\ asset' = [asset EXCEPT ![k].status = "uploading"]
    /\ Step(q, Uploading(k))
    /\ UNCHANGED <<life, rights, object, told, unacked>>

\* An upload in progress and a quarantined one are refused.
ReserveAgain(q, k, c) ==
    /\ req[q] = Idle /\ MayWrite
    /\ SameUpload(k, c) /\ asset[k].status = "deleted"
    /\ WithinQuota
    /\ asset' = [asset EXCEPT ![k].status = "uploading"]
    /\ Step(q, Uploading(k))
    /\ UNCHANGED <<life, rights, object, told, unacked>>

-----------------------------------------------------------------------------
(* upload, after the reservation *)

Stored(q) ==
    /\ At(q, "put")
    /\ object' = [object EXCEPT ![req[q].key] = TRUE]
    /\ Step(q, [req[q] EXCEPT !.pc = "reauthorize"])
    /\ UNCHANGED <<life, rights, asset, told, unacked>>

\* The storage refuses the object, or answers something else than what was sent;
\* it may have kept it all the same.
StoreFails(q, status) ==
    LET k == req[q].key IN
    /\ At(q, "put")
    /\ \E kept \in {TRUE, object[k]} : object' = [object EXCEPT ![k] = kept]
    /\ Step(q, Cleanup(k, status))
    /\ UNCHANGED <<life, rights, asset, told, unacked>>

\* Mutant: the authorization at the beginning is enough.
ReauthorizeNever(q) ==
    /\ At(q, "reauthorize")
    /\ Step(q, [req[q] EXCEPT !.pc = "finalize"])
    /\ UNCHANGED <<life, rights>> /\ MediaRowsUnchanged

\* reauthorize: the principal, the board and the access epoch are read again.
Reauthorize(q) ==
    /\ At(q, "reauthorize")
    /\ Step(q, IF MayWrite THEN [req[q] EXCEPT !.pc = "finalize"]
                           ELSE Cleanup(req[q].key, "deleted"))
    /\ UNCHANGED <<life, rights>> /\ MediaRowsUnchanged

\* _finalize
Finalize(q) ==
    LET k == req[q].key IN
    /\ At(q, "finalize") /\ life = "live" /\ asset[k].status = "uploading"
    /\ asset' = [asset EXCEPT ![k].status = "available"]
    /\ \/ told' = told \cup {<<k, asset[k].content>>} /\ Step(q, Idle)
          /\ UNCHANGED unacked
       \/ unacked' = unacked \cup {k} /\ Step(q, Cleanup(k, "deleted"))
          /\ UNCHANGED told
    /\ UNCHANGED <<life, rights, object>>

FinalizeRefused(q) ==
    LET k == req[q].key IN
    /\ At(q, "finalize") /\ (life # "live" \/ asset[k].status # "uploading")
    /\ Step(q, Cleanup(k, "deleted"))
    /\ UNCHANGED <<life, rights>> /\ MediaRowsUnchanged

\* _delete_storage_quietly
DeleteQuietly(q) ==
    LET k == req[q].key IN
    /\ At(q, "cleanup")
    /\ \E left \in {FALSE, object[k]} : object' = [object EXCEPT ![k] = left]
    /\ Step(q, [req[q] EXCEPT !.pc = "mark"])
    /\ UNCHANGED <<life, rights, asset, told, unacked>>

\* _set_failed_status
Mark(q) ==
    /\ At(q, "mark")
    /\ asset' = [asset EXCEPT ![req[q].key].status = req[q].to]
    /\ Step(q, Idle)
    /\ UNCHANGED <<life, rights, object, told, unacked>>

\* The process of a request dies.
Die(q) ==
    /\ req[q] # Idle /\ Step(q, Idle)
    /\ UNCHANGED <<life, rights>> /\ MediaRowsUnchanged

\* append_commands: a batch that shows the picture, by who was told of it.
Reference(k, c) ==
    /\ MayWrite /\ <<k, c>> \in told
    /\ SameUpload(k, c) /\ Found(k) /\ ~asset[k].referenced
    /\ asset' = [asset EXCEPT ![k].referenced = TRUE]
    /\ UNCHANGED <<life, rights, object, req, told, unacked>>

TakeRights ==
    /\ rights /\ rights' = FALSE
    /\ req' = [q \in Requests |->
                  IF req[q].pc \in {"put", "reauthorize"}
                  THEN [req[q] EXCEPT !.late = TRUE] ELSE req[q]]
    /\ UNCHANGED life /\ MediaRowsUnchanged

Media ==
    \/ \E q \in Requests, k \in Keys, c \in Contents :
          ReserveNew(q, k, c) \/ AnswerAvailable(q, k, c) \/ ReserveAgain(q, k, c)
    \/ \E q \in Requests :
          \/ Stored(q) \/ StoreFails(q, "quarantined") \/ StoreFails(q, "deleted")
          \/ Reauthorize(q) \/ Finalize(q) \/ FinalizeRefused(q)
          \/ DeleteQuietly(q) \/ Mark(q)
    \/ \E k \in Keys, c \in Contents : Reference(k, c)
    \/ TakeRights

-----------------------------------------------------------------------------
\* At most one request is between the reservation of a key and its end, so no
\* request deletes the object or marks the row of another one's upload.
OneUploader ==
    \A k \in Keys :
        Cardinality({q \in Requests : "key" \in DOMAIN req[q] /\ req[q].key = k}) <= 1

\* What takes room is never more than the quota, whatever fails and is retried.
QuotaKept == Cardinality(Counted) <= MaxAssets

\* A client that was told its picture is available, and a journal that shows it, can
\* rely on it until the board is deleted: the row is available with that content and
\* the object is stored.  Only the request that loses the acknowledgement of its
\* finalizing commit breaks this, when it cleans up after itself.
ToldIsKept ==
    \A k \in Keys, c \in Contents : <<k, c>> \in told =>
        \/ life \in {"deleted", "purged"} \/ k \in unacked
        \/ Readable(k) /\ asset[k].content = c

\* Uploads do not meet under one key, and what they told is true.
UploadsSound == OneUploader /\ ToldIsKept

\* An upload whose author lost the right to write before its object was stored and
\* the right was asked for again does not become available.
NoLateUpload == \A q \in Requests : At(q, "finalize") => ~req[q].late
=============================================================================
