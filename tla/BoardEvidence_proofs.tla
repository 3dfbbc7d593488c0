------------------------ MODULE BoardEvidence_proofs ------------------------
(***************************************************************************)
(* The pictures and the evidence of one board, for every set of requests,  *)
(* keys, contents and payloads and every quota: uploads do not meet, what  *)
(* a client was told stays true, the quota holds, no upload outlives the   *)
(* right to write, and evidence and purge keep their promises.             *)
(***************************************************************************)
EXTENDS BoardEvidence, FiniteSetTheorems, TLAPS

-----------------------------------------------------------------------------
(* TYPES *)

\* A request that stores evidence, and one that has authorized a decision on it.
Storing == [pc : {"preview", "manifest", "available"}, payload : Payloads]
Deciding == [pc : {"manage", "quarantine"}]
Holders == Uploads \cup Failures
Others == {Idle} \cup Storing \cup Deciding

ReqOK == req \in [Requests -> Holders \cup Others]

Typed == TypeOK /\ ReqOK

\* Where a request stands tells what it carries.
LEMMA PcTells ==
    ASSUME ReqOK, NEW q \in Requests
    PROVE  /\ req[q].pc \in {"put", "reauthorize", "finalize"} <=> req[q] \in Uploads
           /\ req[q].pc \in {"cleanup", "mark"} <=> req[q] \in Failures
           /\ req[q].pc \in {"preview", "manifest", "available"} <=> req[q] \in Storing
           /\ req[q].pc \in {"manage", "quarantine"} <=> req[q] \in Deciding
           /\ req[q].pc = "idle" <=> req[q] = Idle
<1>1. req[q] \in Holders \cup Others
  BY DEF ReqOK
<1>2. \A r \in Uploads : r.pc \in {"put", "reauthorize", "finalize"}
  BY DEF Uploads
<1>3. \A r \in Failures : r.pc \in {"cleanup", "mark"}
  BY DEF Failures
<1>4. \A r \in Storing : r.pc \in {"preview", "manifest", "available"}
  BY DEF Storing
<1>5. \A r \in Deciding : r.pc \in {"manage", "quarantine"}
  BY DEF Deciding
<1>6. Idle.pc = "idle"
  BY DEF Idle
<1> QED
  BY <1>1, <1>2, <1>3, <1>4, <1>5, <1>6 DEF Holders, Others

\* A request holds a key from its reservation to its end.
Holds(q, k) == req[q] \in Holders /\ req[q].key = k

\* The rows and the failures that are written are typed.
LEMMA Written ==
    /\ \A k \in Keys : Uploading(k) \in Uploads /\ Uploading(k).key = k
                         /\ Uploading(k).pc = "put" /\ Uploading(k).late = FALSE
    /\ \A k \in Keys, s \in {"quarantined", "deleted"} :
          Cleanup(k, s) \in Failures /\ Cleanup(k, s).key = k
    /\ \A r \in Uploads, pc \in {"put", "reauthorize", "finalize"} :
          /\ [r EXCEPT !.pc = pc] \in Uploads /\ [r EXCEPT !.pc = pc].key = r.key
          /\ [r EXCEPT !.pc = pc].pc = pc /\ [r EXCEPT !.pc = pc].late = r.late
    /\ \A r \in Uploads :
          /\ [r EXCEPT !.late = TRUE] \in Uploads /\ [r EXCEPT !.late = TRUE].key = r.key
          /\ [r EXCEPT !.late = TRUE].pc = r.pc
    /\ \A r \in Failures :
          /\ [r EXCEPT !.pc = "mark"] \in Failures /\ [r EXCEPT !.pc = "mark"].key = r.key
    /\ \A r \in Holders : r.key \in Keys
BY DEF Uploading, Cleanup, Uploads, Failures, Holders

\* One request moves.
LEMMA OneMoves ==
    ASSUME ReqOK, NEW q \in Requests, NEW r, Step(q, r)
    PROVE  /\ req'[q] = r /\ \A p \in Requests \ {q} : req'[p] = req[p]
           /\ r \in Holders \cup Others => ReqOK'
BY DEF ReqOK, Step

-----------------------------------------------------------------------------
(* HOW A STEP MOVES THE STATE *)

Reserve(q, k) == \E c \in Contents : ReserveNew(q, k, c) \/ ReserveAgain(q, k, c)

MediaActs(q) ==
    \/ \E k \in Keys : Reserve(q, k)
    \/ Stored(q) \/ StoreFails(q, "quarantined") \/ StoreFails(q, "deleted")
    \/ Reauthorize(q) \/ Finalize(q) \/ FinalizeRefused(q)
    \/ DeleteQuietly(q) \/ Mark(q)

EvidenceActs(q) ==
    \/ \E p \in Payloads : InsertEvidence(q, p) \/ FinalizeAgain(q, p)
    \/ \E f \in Files : StoreFile(q, f) \/ StoreFileFails(q, f) \/ ReadMismatch(q, f)
    \/ Manage(q) \/ PublishEvidence(q) \/ PublishRefused(q) \/ RevokeEvidence(q)
    \/ BecomeAvailable(q) \/ Quarantine(q)

\* The steps that leave every request where it is.
BoardActs ==
    \/ /\ EvidenceUnchanged
       /\ \/ \E k \in Keys, c \in Contents : Reference(k, c)
          \/ \E q \in Requests, k \in Keys, c \in Contents : AnswerAvailable(q, k, c)
    \/ Archive \/ Unarchive \/ Delete \/ Purge \/ \E k \in Keys : PurgeFails(k)
    \/ \E f \in Files : Damage(f)
    \/ UNCHANGED vars

\* Who acts in a step.
LEMMA NextSplits ==
    ASSUME [Next]_vars
    PROVE  \/ \E q \in Requests : MediaActs(q) /\ EvidenceUnchanged
           \/ \E q \in Requests : Die(q) /\ EvidenceUnchanged
           \/ \E q \in Requests : EvidenceActs(q)
           \/ TakeRights /\ EvidenceUnchanged
           \/ BoardActs
<1>1. CASE Media /\ EvidenceUnchanged
  BY <1>1 DEF Media, MediaActs, Reserve, BoardActs
<1>2. CASE ~(Media /\ EvidenceUnchanged)
  BY <1>2 DEF Next, EvidenceActs, BoardActs
<1> QED
  BY <1>1, <1>2

\* A board that acts leaves the requests alone.
LEMMA BoardStill == ASSUME BoardActs PROVE UNCHANGED req
BY DEF BoardActs, Reference, AnswerAvailable, Archive, Unarchive, Delete, SetLife, Purge,
   PurgeFails, Damage, vars, mediaVars

\* The right to write is taken from the uploads that have not asked for it again.
LEMMA RightsTaken ==
    ASSUME ReqOK, TakeRights, NEW q \in Requests
    PROVE  /\ ReqOK' /\ ~rights'
           /\ \/ req'[q] = req[q] /\ req[q].pc \notin {"put", "reauthorize"}
              \/ /\ req[q] \in Uploads /\ req[q].pc \in {"put", "reauthorize"}
                 /\ req'[q] = [req[q] EXCEPT !.late = TRUE]
<1>1. req' = [p \in Requests |-> IF req[p].pc \in {"put", "reauthorize"}
                                 THEN [req[p] EXCEPT !.late = TRUE] ELSE req[p]]
  BY DEF TakeRights
<1>2. ASSUME NEW p \in Requests
      PROVE  /\ req'[p] \in Holders \cup Others
             /\ \/ req'[p] = req[p] /\ req[p].pc \notin {"put", "reauthorize"}
                \/ /\ req[p] \in Uploads /\ req[p].pc \in {"put", "reauthorize"}
                   /\ req'[p] = [req[p] EXCEPT !.late = TRUE]
  <2>1. CASE req[p].pc \in {"put", "reauthorize"}
    <3>1. req[p] \in Uploads
      BY <2>1, PcTells
    <3> QED
      BY <1>1, <2>1, <3>1, Written DEF Holders
  <2>2. CASE req[p].pc \notin {"put", "reauthorize"}
    BY <1>1, <2>2 DEF ReqOK
  <2> QED
    BY <2>1, <2>2
<1> QED
  BY <1>1, <1>2 DEF TakeRights, ReqOK

\* A request about the evidence leaves the pictures alone.
LEMMA EvidenceApart ==
    ASSUME ReqOK, NEW q \in Requests, EvidenceActs(q)
    PROVE  /\ MediaUnchanged /\ req[q] \in Others
           /\ \E r \in Others : Step(q, r)
<1>1. MediaUnchanged
  BY DEF EvidenceActs, InsertEvidence, FinalizeAgain, StoreFile, StoreFileFails, ReadMismatch,
     Manage, PublishEvidence, PublishRefused, RevokeEvidence, BecomeAvailable, Quarantine
<1>2. ASSUME NEW p \in Payloads, InsertEvidence(q, p) \/ FinalizeAgain(q, p)
      PROVE  req[q] \in Others /\ \E r \in Others : Step(q, r)
  <2>1. req[q] = Idle /\ Step(q, [pc |-> "preview", payload |-> p])
    BY <1>2 DEF InsertEvidence, FinalizeAgain
  <2>2. [pc |-> "preview", payload |-> p] \in Storing
    BY DEF Storing
  <2> QED
    BY <2>1, <2>2 DEF Others
<1>3. ASSUME NEW f \in Files, StoreFile(q, f) \/ StoreFileFails(q, f)
      PROVE  req[q] \in Others /\ \E r \in Others : Step(q, r)
  <2>1. req[q].pc = f
    BY <1>3 DEF StoreFile, StoreFileFails, At
  <2>2. req[q] \in Storing
    BY <2>1, PcTells DEF Files
  <2>3. [req[q] EXCEPT !.pc = After(f)] \in Storing
    BY <2>2 DEF Storing, After
  <2> QED
    BY <1>3, <2>2, <2>3 DEF StoreFile, StoreFileFails, Others
<1>4. ASSUME (\E f \in Files : ReadMismatch(q, f)) \/ Manage(q)
      PROVE  req[q] \in Others /\ \E r \in Others : Step(q, r)
  <2>1. req[q] = Idle /\ \/ Step(q, [pc |-> "quarantine"])
                         \/ Step(q, [pc |-> "manage"])
    BY <1>4 DEF ReadMismatch, Manage
  <2>2. [pc |-> "quarantine"] \in Deciding /\ [pc |-> "manage"] \in Deciding
    BY DEF Deciding
  <2> QED
    BY <2>1, <2>2 DEF Others
<1>5. ASSUME \/ PublishEvidence(q) \/ PublishRefused(q) \/ RevokeEvidence(q)
             \/ BecomeAvailable(q) \/ Quarantine(q)
      PROVE  req[q] \in Others /\ \E r \in Others : Step(q, r)
  <2>1. req[q].pc \in {"manage", "available", "quarantine"} /\ Step(q, Idle)
    BY <1>5 DEF PublishEvidence, PublishRefused, RevokeEvidence, BecomeAvailable, Quarantine,
       At
  <2>2. req[q] \in Others
    BY <2>1, PcTells DEF Others
  <2> QED
    BY <2>1, <2>2 DEF Others
<1> QED
  BY <1>1, <1>2, <1>3, <1>4, <1>5 DEF EvidenceActs

-----------------------------------------------------------------------------
(* THE INDUCTIVE INVARIANT *)

\* No two requests hold one key.
Exclusive ==
    \A q, r \in Requests :
        req[q] \in Holders /\ req[r] \in Holders /\ req[q].key = req[r].key => q = r

(* The row of a key that is held is still uploading, but for the request that lost
   the acknowledgement of its commit; what is to be finalized is stored. *)
RowOK(q) ==
    /\ \/ asset[req[q].key].status = "uploading"
       \/ /\ req[q] \in Failures /\ asset[req[q].key].status = "available"
          /\ req[q].key \in unacked
    /\ req[q].pc \in {"reauthorize", "finalize"} => object[req[q].key] = TRUE

RowInv == \A q \in Requests : req[q] \in Holders => RowOK(q)

Gone == life \in {"deleted", "purged"}

(* What is available is stored and what is stored has its row, and so is what a
   client was told. *)
KeyOK(k) ==
    /\ asset[k].status = "available" => Gone \/ k \in unacked \/ object[k] = TRUE
    /\ object[k] = TRUE => asset[k] # NoAsset
    /\ \A c \in Contents : <<k, c>> \in told =>
         \/ Gone \/ k \in unacked
         \/ asset[k].status = "available" /\ object[k] = TRUE /\ asset[k].content = c

KeyInv == \A k \in Keys : KeyOK(k)

\* A late upload has not asked again, and would be refused.
LateInv ==
    \A q \in Requests : req[q] \in Uploads /\ req[q].late = TRUE =>
        ~rights /\ req[q].pc \in {"put", "reauthorize"}

QuotaInv == IsFiniteSet(Counted) /\ QuotaKept

(* Who stores evidence stores that of the row, and the files it has stored are there
   as it stored them, or damaged. *)
StoringOK(q) ==
    /\ req[q] \in Storing \cup Deciding => evidence # NoEvidence
    /\ req[q] \in Storing =>
         /\ req[q].payload = evidence.payload
         /\ req[q].pc \in {"manifest", "available"} =>
              file["preview"] \in {evidence.payload, Damaged}
         /\ req[q].pc = "available" => file["manifest"] \in {evidence.payload, Damaged}

EvidenceInv ==
    /\ evidence = NoEvidence => \A f \in Files : file[f] = Missing
    /\ \A q \in Requests : StoringOK(q)
    /\ EvidenceIsItsPayload

PurgedInv ==
    life = "purged" => /\ Busy = {} /\ evidence = NoEvidence
                       /\ \A k \in Keys : asset[k] = NoAsset

IInv ==
    /\ Typed /\ Exclusive /\ RowInv /\ KeyInv /\ LateInv /\ QuotaInv
    /\ EvidenceInv /\ PurgedInv

-----------------------------------------------------------------------------
(* THE UPLOADS *)

\* Types of the media that the leaves use.
LEMMA MediaTyped ==
    ASSUME Typed
    PROVE  /\ asset \in [Keys -> {NoAsset} \cup AssetRows]
           /\ \A k \in Keys : asset[k] = NoAsset
                \/ asset[k] \in [status : Statuses, content : Contents, referenced : BOOLEAN]
           /\ NoAsset.status = "none"
           /\ object \in [Keys -> BOOLEAN]
           /\ ReqOK /\ told \subseteq Keys \X Contents /\ unacked \subseteq Keys
BY DEF Typed, TypeOK, MediaTypeOK, AssetRows, NoAsset

\* The key of a request that acts is its own, and its row is there.
LEMMA HolderKey ==
    ASSUME Typed, Exclusive, RowInv, NEW q \in Requests, req[q] \in Holders
    PROVE  /\ req[q].key \in Keys /\ RowOK(q)
           /\ asset[req[q].key] \in [status : Statuses, content : Contents,
                                     referenced : BOOLEAN]
           /\ \A p \in Requests \ {q} : req[p] \in Holders => req[p].key # req[q].key
<1>1. req[q].key \in Keys
  BY Written
<1>2. RowOK(q)
  BY DEF RowInv
<1>3. asset[req[q].key] # NoAsset
  BY <1>2, MediaTyped DEF RowOK
<1> QED
  BY <1>1, <1>2, <1>3, MediaTyped DEF Exclusive

(* What a step of one upload does: it touches one key, which it holds unless it lets
   it go and which no other request holds, and leaves that key in order. *)
Effect(q, k) ==
    /\ UNCHANGED <<life, rights>>
    /\ MediaTypeOK' /\ ReqOK'
    /\ \A l \in Keys \ {k} : /\ asset'[l] = asset[l] /\ object'[l] = object[l]
                             /\ \A c \in Contents : <<l, c>> \in told' => <<l, c>> \in told
    /\ unacked \subseteq unacked'
    /\ \A p \in Requests \ {q} :
          req'[p] = req[p] /\ (req[p] \in Holders => req[p].key # k)
    /\ req'[q] \in Holders => req'[q].key = k /\ RowOK(q)'
    /\ KeyOK(k)'

\* A reservation takes a key that nobody holds.
LEMMA ReserveEffect ==
    ASSUME Typed, Exclusive, RowInv, KeyInv, NEW q \in Requests, NEW k \in Keys, Reserve(q, k)
    PROVE  Effect(q, k)
<1>1. PICK c \in Contents : ReserveNew(q, k, c) \/ ReserveAgain(q, k, c)
  BY DEF Reserve
<1>2. /\ asset \in [Keys -> {NoAsset} \cup AssetRows]
      /\ object \in [Keys -> BOOLEAN] /\ ReqOK
  BY MediaTyped
<1>3. asset[k].status \in {"none", "deleted"} /\ Step(q, Uploading(k))
        /\ UNCHANGED <<life, rights, object, told, unacked>> /\ life = "live"
  BY <1>1, MediaTyped DEF ReserveNew, ReserveAgain, MayWrite
<1>4. PICK row \in AssetRows : /\ row.status = "uploading"
                               /\ asset' = [asset EXCEPT ![k] = row]
  <2>1. CASE ReserveNew(q, k, c)
    <3>1. [status |-> "uploading", content |-> c, referenced |-> FALSE] \in AssetRows
      BY DEF AssetRows, Statuses
    <3> QED
      BY <2>1, <3>1 DEF ReserveNew
  <2>2. CASE ReserveAgain(q, k, c)
    <3>1. asset[k] \in [status : Statuses, content : Contents, referenced : BOOLEAN]
      BY <2>2, MediaTyped DEF ReserveAgain, SameUpload
    <3>2. [asset[k] EXCEPT !.status = "uploading"] \in AssetRows
            /\ [asset[k] EXCEPT !.status = "uploading"].status = "uploading"
      BY <3>1 DEF AssetRows, Statuses
    <3> QED
      BY <1>2, <2>2, <3>2 DEF ReserveAgain
  <2> QED
    BY <1>1, <2>1, <2>2
<1>5. /\ Uploading(k) \in Uploads /\ Uploading(k).key = k /\ Uploading(k).pc = "put"
      /\ Uploading(k) \in Holders
  BY Written DEF Holders
<1>6. req'[q] = Uploading(k) /\ (\A p \in Requests \ {q} : req'[p] = req[p]) /\ ReqOK'
  BY <1>2, <1>3, <1>5, OneMoves
<1>7. ASSUME NEW p \in Requests, req[p] \in Holders PROVE req[p].key # k
  BY <1>3, <1>7 DEF RowInv, RowOK
<1>8. asset'[k] = row /\ \A l \in Keys \ {k} : asset'[l] = asset[l]
  BY <1>2, <1>4
<1>9. RowOK(q)'
  BY <1>4, <1>5, <1>6, <1>8 DEF RowOK
<1>10. KeyOK(k)'
  <2>1. \A d \in Contents : <<k, d>> \in told => k \in unacked
    BY <1>3 DEF KeyInv, KeyOK, Gone
  <2>2. row # NoAsset
    BY <1>4 DEF NoAsset
  <2> QED
    BY <1>3, <1>4, <1>8, <2>1, <2>2 DEF KeyOK, Gone
<1>11. MediaTypeOK'
  BY <1>2, <1>3, <1>4 DEF Typed, TypeOK, MediaTypeOK
<1> QED
  BY <1>3, <1>5, <1>6, <1>7, <1>8, <1>9, <1>10, <1>11 DEF Effect

\* The object of a key that is held is stored, or not.
LEMMA StoreEffect ==
    ASSUME Typed, Exclusive, RowInv, KeyInv, NEW q \in Requests,
           Stored(q) \/ StoreFails(q, "quarantined") \/ StoreFails(q, "deleted")
             \/ DeleteQuietly(q)
    PROVE  \E k \in Keys : Effect(q, k)
<1>1. /\ asset \in [Keys -> {NoAsset} \cup AssetRows]
      /\ object \in [Keys -> BOOLEAN] /\ ReqOK
  BY MediaTyped
<1>2. req[q] \in Holders
  BY <1>1, PcTells DEF Stored, StoreFails, DeleteQuietly, At, Holders
<1>3. PICK k \in Keys :
        /\ k = req[q].key /\ RowOK(q) /\ asset[k].status \in Statuses
        /\ \A p \in Requests \ {q} : req[p] \in Holders => req[p].key # k
  BY <1>2, HolderKey
<1>4. UNCHANGED <<life, rights, asset, told, unacked>>
  BY DEF Stored, StoreFails, DeleteQuietly
<1>5. PICK o \in BOOLEAN, r \in Holders :
        /\ object' = [object EXCEPT ![k] = o] /\ Step(q, r) /\ r.key = k
        /\ \/ o = TRUE \/ o = object[k]
           \/ asset[k].status = "uploading" \/ k \in unacked
        /\ r.pc \in {"reauthorize", "finalize"} => o = TRUE
        /\ r \in Uploads => req[q] \in Uploads
  <2>1. CASE Stored(q)
    <3>1. req[q] \in Uploads
      BY <1>1, <2>1, PcTells DEF Stored, At
    <3>2. [req[q] EXCEPT !.pc = "reauthorize"] \in Uploads
            /\ [req[q] EXCEPT !.pc = "reauthorize"].key = k
      BY <1>3, <3>1, Written
    <3> QED
      BY <1>3, <2>1, <3>1, <3>2 DEF Stored, Holders
  <2>2. ASSUME NEW s \in {"quarantined", "deleted"}, StoreFails(q, s)
        PROVE  \E o \in BOOLEAN, r \in Holders :
                 /\ object' = [object EXCEPT ![k] = o] /\ Step(q, r) /\ r.key = k
                 /\ \/ o = TRUE \/ o = object[k]
                    \/ asset[k].status = "uploading" \/ k \in unacked
                 /\ r.pc \in {"reauthorize", "finalize"} => o = TRUE
                 /\ r \in Uploads => req[q] \in Uploads
    <3>1. Cleanup(k, s) \in Failures /\ Cleanup(k, s).key = k
            /\ Cleanup(k, s).pc = "cleanup"
      BY <1>3, Written DEF Cleanup
    <3>2. Cleanup(k, s) \notin Uploads
      BY <3>1 DEF Uploads
    <3>3. PICK o \in {TRUE, object[k]} : object' = [object EXCEPT ![k] = o]
      BY <1>3, <2>2 DEF StoreFails
    <3>4. Step(q, Cleanup(k, s))
      BY <1>3, <2>2 DEF StoreFails
    <3>5. o \in BOOLEAN
      BY <1>1, <1>3, <3>3
    <3> QED
      BY <3>1, <3>2, <3>3, <3>4, <3>5 DEF Holders
  <2>3. CASE DeleteQuietly(q)
    <3>1. req[q] \in Failures
      BY <1>1, <2>3, PcTells DEF DeleteQuietly, At
    <3>2. [req[q] EXCEPT !.pc = "mark"] \in Failures
            /\ [req[q] EXCEPT !.pc = "mark"].key = k
      BY <1>3, <3>1, Written
    <3>3. [req[q] EXCEPT !.pc = "mark"] \notin Uploads
            /\ [req[q] EXCEPT !.pc = "mark"].pc \notin {"reauthorize", "finalize"}
      BY <3>2 DEF Failures, Uploads
    <3>4. PICK o \in {FALSE, object[k]} : object' = [object EXCEPT ![k] = o]
      BY <1>3, <2>3 DEF DeleteQuietly
    <3>5. Step(q, [req[q] EXCEPT !.pc = "mark"])
      BY <1>3, <2>3 DEF DeleteQuietly
    <3>6. o \in BOOLEAN
      BY <1>1, <1>3, <3>4
    <3> QED
      BY <1>3, <3>2, <3>3, <3>4, <3>5, <3>6 DEF Holders, RowOK
  <2> QED
    BY <2>1, <2>2, <2>3
<1>6. req'[q] = r /\ (\A p \in Requests \ {q} : req'[p] = req[p]) /\ ReqOK'
  BY <1>1, <1>5, OneMoves DEF Holders
<1>7. object'[k] = o /\ \A l \in Keys \ {k} : object'[l] = object[l]
  BY <1>1, <1>3, <1>5
<1>8. RowOK(q)'
  <2>1. \/ asset[k].status = "uploading"
        \/ r \in Failures /\ asset[k].status = "available" /\ k \in unacked
    <3>1. r \in Uploads \/ r \in Failures
      BY <1>5 DEF Holders
    <3>2. req[q] \in Uploads => asset[k].status = "uploading"
      <4>1. ASSUME req[q] \in Uploads PROVE req[q] \notin Failures
        BY <4>1 DEF Uploads, Failures
      <4> QED
        BY <1>3, <4>1 DEF RowOK
    <3> QED
      BY <1>3, <1>5, <3>1, <3>2 DEF RowOK
  <2> QED
    BY <1>4, <1>5, <1>6, <1>7, <2>1 DEF RowOK
<1>9. KeyOK(k)'
  <2>1. asset[k].status = "uploading" \/ k \in unacked
    BY <1>3 DEF RowOK
  <2>2. \A c \in Contents : <<k, c>> \in told => Gone \/ k \in unacked
    BY <1>3, <2>1 DEF KeyInv, KeyOK
  <2>3. asset[k] # NoAsset
    BY <1>3 DEF NoAsset, Statuses
  <2>4. /\ life' = life /\ asset' = asset /\ told' = told /\ unacked' = unacked
        /\ Gone' <=> Gone
    BY <1>4 DEF Gone
  <2>5. asset'[k].status = "available" => k \in unacked'
    BY <2>1, <2>4
  <2>6. \A c \in Contents : <<k, c>> \in told' => Gone' \/ k \in unacked'
    BY <2>2, <2>4
  <2> QED
    BY <2>3, <2>4, <2>5, <2>6 DEF KeyOK
<1>10. MediaTypeOK'
  BY <1>1, <1>4, <1>5 DEF Typed, TypeOK, MediaTypeOK
<1>11. Effect(q, k)
  BY <1>3, <1>4, <1>5, <1>6, <1>7, <1>8, <1>9, <1>10 DEF Effect
<1> QED
  BY <1>3, <1>11

\* An upload that has stored its object asks again, and commits or cleans up.
LEMMA CommitEffect ==
    ASSUME Typed, Exclusive, RowInv, KeyInv, NEW q \in Requests,
           Reauthorize(q) \/ Finalize(q) \/ FinalizeRefused(q)
    PROVE  \E k \in Keys : Effect(q, k)
<1>1. /\ asset \in [Keys -> {NoAsset} \cup AssetRows]
      /\ object \in [Keys -> BOOLEAN] /\ ReqOK
  BY MediaTyped
<1>2. /\ req[q] \in Uploads /\ req[q] \in Holders
      /\ req[q].pc \in {"reauthorize", "finalize"}
  BY <1>1, PcTells DEF Reauthorize, Finalize, FinalizeRefused, At, Holders
<1>3. PICK k \in Keys :
        /\ k = req[q].key /\ RowOK(q)
        /\ asset[k] \in [status : Statuses, content : Contents, referenced : BOOLEAN]
        /\ \A p \in Requests \ {q} : req[p] \in Holders => req[p].key # k
  BY <1>2, HolderKey
<1>4. asset[k].status = "uploading" /\ object[k] = TRUE
  <2>1. req[q] \notin Failures
    BY <1>2 DEF Uploads, Failures
  <2> QED
    BY <1>2, <1>3, <2>1 DEF RowOK
<1>5. /\ Cleanup(k, "deleted") \in Failures /\ Cleanup(k, "deleted") \in Holders
      /\ Cleanup(k, "deleted").key = k /\ Cleanup(k, "deleted").pc = "cleanup"
      /\ [req[q] EXCEPT !.pc = "finalize"] \in Holders
      /\ [req[q] EXCEPT !.pc = "finalize"].key = k
      /\ Idle \in Others /\ Idle \notin Holders
  <2>1. Idle \notin Uploads /\ Idle \notin Failures
    BY DEF Idle, Uploads, Failures
  <2> QED
    BY <1>2, <1>3, <2>1, Written DEF Cleanup, Holders, Others
<1>6. \A c \in Contents : <<k, c>> \in told => Gone \/ k \in unacked
  BY <1>4 DEF KeyInv, KeyOK
<1>7. CASE UNCHANGED <<life, rights, asset, object, told, unacked>>
           /\ (\/ Step(q, Cleanup(k, "deleted"))
               \/ Step(q, [req[q] EXCEPT !.pc = "finalize"]))
  <2>1. PICK r \in Holders : r.key = k /\ Step(q, r)
    BY <1>5, <1>7
  <2>2. req'[q] = r /\ (\A p \in Requests \ {q} : req'[p] = req[p]) /\ ReqOK'
    BY <1>1, <2>1, OneMoves
  <2>3. RowOK(q)'
    BY <1>4, <1>7, <2>1, <2>2 DEF RowOK
  <2>4. KeyOK(k)'
    BY <1>7 DEF KeyInv, KeyOK, Gone
  <2>5. MediaTypeOK'
    BY <1>7 DEF Typed, TypeOK, MediaTypeOK
  <2> QED
    BY <1>3, <1>7, <2>1, <2>2, <2>3, <2>4, <2>5 DEF Effect
<1>8. CASE Finalize(q)
  <2> DEFINE row == [asset[k] EXCEPT !.status = "available"]
  <2>1. row \in AssetRows /\ row.status = "available" /\ row.content = asset[k].content
        /\ row.content \in Contents
    BY <1>3 DEF AssetRows, Statuses
  <2>2. asset' = [asset EXCEPT ![k] = row] /\ UNCHANGED <<life, rights, object>>
    BY <1>1, <1>3, <1>8 DEF Finalize
  <2>3. asset'[k] = row /\ \A l \in Keys \ {k} : asset'[l] = asset[l]
    BY <1>1, <2>2
  <2>4. \/ /\ told' = told \cup {<<k, row.content>>} /\ Step(q, Idle) /\ UNCHANGED unacked
        \/ /\ unacked' = unacked \cup {k} /\ Step(q, Cleanup(k, "deleted"))
           /\ UNCHANGED told
    BY <1>3, <1>8, <2>1 DEF Finalize
  <2> HIDE DEF row
  <2>5. ReqOK' /\ (\A p \in Requests \ {q} : req'[p] = req[p])
        /\ \/ req'[q] = Idle
           \/ req'[q] = Cleanup(k, "deleted") /\ k \in unacked'
    BY <1>1, <1>5, <2>4, OneMoves
  <2>6. req'[q] \in Holders => req'[q].key = k /\ RowOK(q)'
    BY <1>4, <1>5, <2>1, <2>2, <2>3, <2>5 DEF RowOK
  <2>7. KeyOK(k)'
    <3>1. ASSUME NEW c \in Contents, <<k, c>> \in told'
          PROVE  Gone' \/ k \in unacked' \/ row.content = c
      BY <1>6, <2>2, <2>4, <3>1 DEF Gone
    <3>2. row # NoAsset
      BY <2>1 DEF NoAsset
    <3> QED
      BY <1>4, <2>1, <2>2, <2>3, <3>1, <3>2 DEF KeyOK
  <2>8. MediaTypeOK'
    <3>1. asset' \in [Keys -> {NoAsset} \cup AssetRows]
      BY <1>1, <2>1, <2>2
    <3>2. told' \subseteq Keys \X Contents /\ unacked' \subseteq Keys
      BY <2>1, <2>4, MediaTyped
    <3> QED
      BY <2>2, <3>1, <3>2 DEF Typed, TypeOK, MediaTypeOK
  <2>9. \A l \in Keys \ {k}, c \in Contents : <<l, c>> \in told' => <<l, c>> \in told
    BY <2>4
  <2>10. Effect(q, k)
    BY <1>3, <2>2, <2>3, <2>4, <2>5, <2>6, <2>7, <2>8, <2>9 DEF Effect
  <2> QED
    BY <2>10
<1> QED
  <2>1. CASE Reauthorize(q) \/ FinalizeRefused(q)
    BY <1>3, <1>7, <2>1 DEF Reauthorize, FinalizeRefused, MediaRowsUnchanged
  <2> QED
    BY <1>8, <2>1

\* An upload that failed marks its row.
LEMMA MarkEffect ==
    ASSUME Typed, Exclusive, RowInv, KeyInv, NEW q \in Requests, Mark(q)
    PROVE  \E k \in Keys : Effect(q, k)
<1>1. /\ asset \in [Keys -> {NoAsset} \cup AssetRows]
      /\ object \in [Keys -> BOOLEAN] /\ ReqOK
  BY MediaTyped
<1>2. req[q] \in Failures /\ req[q] \in Holders
  BY <1>1, PcTells DEF Mark, At, Holders
<1>3. PICK k \in Keys :
        /\ k = req[q].key /\ RowOK(q)
        /\ asset[k] \in [status : Statuses, content : Contents, referenced : BOOLEAN]
        /\ \A p \in Requests \ {q} : req[p] \in Holders => req[p].key # k
  BY <1>2, HolderKey
<1>4. req[q].to \in {"quarantined", "deleted"}
  BY <1>2 DEF Failures
<1> DEFINE row == [asset[k] EXCEPT !.status = req[q].to]
<1>5. row \in AssetRows /\ row.status \in {"quarantined", "deleted"}
  BY <1>3, <1>4 DEF AssetRows, Statuses
<1>6. asset' = [asset EXCEPT ![k] = row] /\ UNCHANGED <<life, rights, object, told, unacked>>
        /\ Step(q, Idle)
  BY <1>1, <1>3 DEF Mark
<1>7. asset'[k] = row /\ \A l \in Keys \ {k} : asset'[l] = asset[l]
  BY <1>1, <1>6
<1> HIDE DEF row
<1>8. ReqOK' /\ req'[q] = Idle /\ \A p \in Requests \ {q} : req'[p] = req[p]
  BY <1>1, <1>6, OneMoves DEF Others
<1>9. Idle \notin Holders
  BY DEF Idle, Uploads, Failures, Holders
<1>10. \A c \in Contents : <<k, c>> \in told => Gone \/ k \in unacked
  <2>1. asset[k].status = "uploading" \/ k \in unacked
    BY <1>3 DEF RowOK
  <2> QED
    BY <1>3, <2>1 DEF KeyInv, KeyOK
<1>11. KeyOK(k)'
  <2>1. row # NoAsset
    BY <1>5 DEF NoAsset
  <2> QED
    BY <1>5, <1>6, <1>7, <1>10, <2>1 DEF KeyOK, Gone
<1>12. MediaTypeOK'
  BY <1>1, <1>5, <1>6 DEF Typed, TypeOK, MediaTypeOK
<1>13. Effect(q, k)
  BY <1>3, <1>6, <1>7, <1>8, <1>9, <1>11, <1>12 DEF Effect
<1> QED
  BY <1>13

\* Every step of an upload is one of these.
LEMMA MediaEffect ==
    ASSUME Typed, Exclusive, RowInv, KeyInv, NEW q \in Requests, MediaActs(q)
    PROVE  \E k \in Keys : Effect(q, k)
BY ReserveEffect, StoreEffect, CommitEffect, MarkEffect DEF MediaActs

\* The keys as they are held, stored and told.
KeysOK == MediaTypeOK /\ ReqOK /\ Exclusive /\ RowInv /\ KeyInv

\* One upload leaves the keys in order.
LEMMA UploadKeys ==
    ASSUME Typed, Exclusive, RowInv, KeyInv, NEW q \in Requests, MediaActs(q)
    PROVE  KeysOK'
<1>1. PICK k \in Keys : Effect(q, k)
  BY MediaEffect
<1>2. \A p \in Requests \ {q} : req'[p] = req[p] /\ (req[p] \in Holders => req[p].key # k)
  BY <1>1 DEF Effect
<1>3. req'[q] \in Holders => req'[q].key = k /\ RowOK(q)'
  BY <1>1 DEF Effect
<1>4. \A l \in Keys \ {k} : /\ asset'[l] = asset[l] /\ object'[l] = object[l]
                            /\ \A c \in Contents : <<l, c>> \in told' => <<l, c>> \in told
  BY <1>1 DEF Effect
<1>5. KeyOK(k)' /\ unacked \subseteq unacked' /\ life' = life /\ MediaTypeOK' /\ ReqOK'
  BY <1>1 DEF Effect
<1>6. Exclusive'
  BY <1>2, <1>3 DEF Exclusive
<1>7. RowInv'
  <2>1. ASSUME NEW p \in Requests \ {q}, req'[p] \in Holders PROVE RowOK(p)'
    <3>1. req[p] \in Holders /\ req'[p] = req[p] /\ req[p].key \in Keys \ {k}
      BY <1>2, <2>1, Written
    <3>2. RowOK(p)
      BY <3>1 DEF RowInv
    <3>3. asset'[req[p].key] = asset[req[p].key] /\ object'[req[p].key] = object[req[p].key]
      BY <1>4, <3>1
    <3> QED
      BY <1>5, <3>1, <3>2, <3>3 DEF RowOK
  <2> QED
    BY <1>3, <2>1 DEF RowInv
<1>8. KeyInv'
  <2>1. ASSUME NEW l \in Keys \ {k} PROVE KeyOK(l)'
    BY <1>4, <1>5, <2>1 DEF KeyInv, KeyOK, Gone
  <2> QED
    BY <1>5, <2>1 DEF KeyInv
<1> QED
  BY <1>5, <1>6, <1>7, <1>8 DEF KeysOK

\* So does a step that only lets requests go or turn to something else.
LEMMA StillKeys ==
    ASSUME Typed, Exclusive, RowInv, KeyInv, ReqOK',
           UNCHANGED <<asset, object, told, unacked>>, Gone => Gone',
           life' \in {"live", "archived", "deleted", "purged"}, rights' \in BOOLEAN,
           \A q \in Requests : req'[q] \in Holders =>
              /\ req[q] \in Holders /\ req'[q].key = req[q].key
              /\ req'[q].pc = req[q].pc /\ (req[q] \in Failures => req'[q] \in Failures)
    PROVE  KeysOK'
<1>1. MediaTypeOK'
  BY DEF Typed, TypeOK, MediaTypeOK
<1>2. Exclusive'
  BY DEF Exclusive
<1>3. RowInv'
  <2>1. ASSUME NEW q \in Requests, req'[q] \in Holders PROVE RowOK(q)'
    <3>1. req[q] \in Holders /\ RowOK(q)
      BY <2>1 DEF RowInv
    <3> QED
      BY <2>1, <3>1 DEF RowOK
  <2> QED
    BY <2>1 DEF RowInv
<1>4. KeyInv'
  BY DEF KeyInv, KeyOK
<1> QED
  BY <1>1, <1>2, <1>3, <1>4 DEF KeysOK

\* The board that is left with its pictures: it is referenced, read, deleted, purged.
LEMMA BoardKeys ==
    ASSUME Typed, Exclusive, RowInv, KeyInv, BoardActs PROVE KeysOK'
<1>0. /\ asset \in [Keys -> {NoAsset} \cup AssetRows] /\ object \in [Keys -> BOOLEAN]
      /\ told \subseteq Keys \X Contents /\ unacked \subseteq Keys
      /\ UNCHANGED req /\ ReqOK' /\ life \in {"live", "archived", "deleted", "purged"}
      /\ rights \in BOOLEAN
  BY BoardStill DEF Typed, TypeOK, MediaTypeOK, ReqOK
<1>1. CASE \/ Archive \/ Unarchive \/ Delete \/ \E f \in Files : Damage(f)
           \/ UNCHANGED vars
  <2>1. UNCHANGED <<asset, object, told, unacked, rights>>
        /\ (life' = life \/ life' \in {"live", "archived", "deleted"})
        /\ (life \in {"deleted", "purged"} => life' = life)
    BY <1>1 DEF Archive, Unarchive, Delete, SetLife, Damage, vars, mediaVars, MediaUnchanged,
       MediaRowsUnchanged
  <2>2. Gone => Gone'
    BY <2>1 DEF Gone
  <2> QED
    BY <1>0, <2>1, <2>2, StillKeys
<1>2. ASSUME NEW k \in Keys, NEW c \in Contents, Reference(k, c) PROVE KeysOK'
  <2> DEFINE row == [asset[k] EXCEPT !.referenced = TRUE]
  <2>1. asset[k] \in [status : Statuses, content : Contents, referenced : BOOLEAN]
    BY <1>2, MediaTyped DEF Reference, SameUpload
  <2>2. row \in AssetRows /\ row.status = asset[k].status /\ row.content = asset[k].content
    BY <2>1 DEF AssetRows
  <2>3. asset' = [asset EXCEPT ![k] = row] /\ UNCHANGED <<life, rights, object, told, unacked>>
    BY <1>0, <1>2, <2>1 DEF Reference
  <2> HIDE DEF row
  <2>4. \A l \in Keys : asset'[l].status = asset[l].status
    BY <1>0, <2>2, <2>3
  <2>5. MediaTypeOK'
    BY <1>0, <2>2, <2>3 DEF MediaTypeOK
  <2>6. RowInv'
    <3>1. ASSUME NEW q \in Requests, req[q] \in Holders PROVE RowOK(q)'
      <4>1. req[q].key \in Keys /\ RowOK(q)
        BY <3>1, HolderKey
      <4> QED
        BY <1>0, <2>3, <2>4, <4>1 DEF RowOK
    <3> QED
      BY <1>0, <3>1 DEF RowInv
  <2>7. KeyInv'
    <3>1. ASSUME NEW l \in Keys PROVE KeyOK(l)'
      <4>1. CASE l # k
        <5>1. asset'[l] = asset[l]
          BY <1>0, <2>3, <4>1
        <5> QED
          BY <2>3, <5>1 DEF KeyInv, KeyOK, Gone
      <4>2. CASE l = k
        <5>1. asset'[l] = row /\ row # NoAsset
          BY <1>0, <2>2, <2>3, <4>2 DEF NoAsset, AssetRows
        <5> QED
          BY <2>2, <2>3, <4>2, <5>1 DEF KeyInv, KeyOK, Gone
      <4> QED
        BY <4>1, <4>2
    <3> QED
      BY <3>1 DEF KeyInv
  <2>8. Exclusive'
    BY <1>0 DEF Exclusive
  <2> QED
    BY <1>0, <2>5, <2>6, <2>7, <2>8 DEF KeysOK
<1>3. ASSUME NEW q \in Requests, NEW k \in Keys, NEW c \in Contents, AnswerAvailable(q, k, c)
      PROVE  KeysOK'
  <2>1. /\ told' = told \cup {<<k, c>>} /\ UNCHANGED <<life, rights, asset, object, unacked>>
        /\ asset[k].status = "available" /\ asset[k].content = c
    BY <1>3 DEF AnswerAvailable, SameUpload
  <2>2. MediaTypeOK'
    BY <1>0, <2>1 DEF MediaTypeOK
  <2>3. KeyInv'
    BY <2>1 DEF KeyInv, KeyOK, Gone
  <2>4. Exclusive' /\ RowInv'
    BY <1>0, <2>1 DEF Exclusive, RowInv, RowOK
  <2> QED
    BY <1>0, <2>2, <2>3, <2>4 DEF KeysOK
<1>4. ASSUME Busy = {} /\ UNCHANGED <<rights, told, unacked>>,
             life' \in {"deleted", "purged"},
             asset' \in [Keys -> {NoAsset} \cup AssetRows], object' \in [Keys -> BOOLEAN],
             \A k \in Keys : object'[k] = TRUE => asset'[k] # NoAsset
      PROVE  KeysOK'
  <2>1. \A q \in Requests : req'[q] \notin Holders
    <3>1. Idle \notin Holders
      BY DEF Idle, Uploads, Failures, Holders
    <3> QED
      BY <1>0, <1>4, <3>1 DEF Busy
  <2>2. MediaTypeOK'
    BY <1>0, <1>4 DEF MediaTypeOK
  <2>3. Exclusive' /\ RowInv'
    BY <2>1 DEF Exclusive, RowInv
  <2>4. KeyInv'
    BY <1>4 DEF KeyInv, KeyOK, Gone
  <2> QED
    BY <1>0, <2>2, <2>3, <2>4 DEF KeysOK
<1>5. CASE Purge
  <2>1. /\ Busy = {} /\ UNCHANGED <<rights, told, unacked>> /\ life' = "purged"
        /\ asset' = [k \in Keys |-> NoAsset]
        /\ object' = [k \in Keys |-> object[k] /\ asset[k] = NoAsset]
    BY <1>5 DEF Purge, Purgeable
  <2>2. \A k \in Keys : ~object'[k]
    BY <1>0, <2>1 DEF KeyInv, KeyOK
  <2>3. asset' \in [Keys -> {NoAsset} \cup AssetRows] /\ object' \in [Keys -> BOOLEAN]
    BY <2>1
  <2> QED
    BY <1>4, <2>1, <2>2, <2>3
<1>6. ASSUME NEW k \in Keys, PurgeFails(k) PROVE KeysOK'
  <2>1. /\ Busy = {} /\ UNCHANGED <<rights, told, unacked, life, asset>> /\ life = "deleted"
        /\ object' = [object EXCEPT ![k] = FALSE]
    BY <1>6 DEF PurgeFails, Purgeable
  <2>2. object' \in [Keys -> BOOLEAN] /\ \A l \in Keys : object'[l] = TRUE => object[l] = TRUE
    BY <1>0, <2>1
  <2> QED
    BY <1>0, <1>4, <2>1, <2>2 DEF KeyInv, KeyOK
<1> QED
  BY <1>1, <1>2, <1>3, <1>5, <1>6 DEF BoardActs

\* Every step leaves the keys in order.
LEMMA KeysStep == IInv /\ [Next]_vars => KeysOK'
<1> SUFFICES ASSUME IInv, [Next]_vars PROVE KeysOK'
  OBVIOUS
<1>0. Typed /\ Exclusive /\ RowInv /\ KeyInv /\ ReqOK
      /\ life \in {"live", "archived", "deleted", "purged"} /\ rights \in BOOLEAN
  BY DEF IInv, Typed, TypeOK, MediaTypeOK
<1>1. ASSUME NEW q \in Requests, NEW r \in Others, Step(q, r), MediaUnchanged PROVE KeysOK'
  <2>1. r \notin Holders
    BY DEF Others, Holders, Idle, Storing, Deciding, Uploads, Failures
  <2>2. ReqOK' /\ req'[q] = r /\ \A p \in Requests \ {q} : req'[p] = req[p]
    BY <1>0, <1>1, OneMoves
  <2>3. UNCHANGED <<asset, object, told, unacked>> /\ life' = life /\ rights' = rights
    BY <1>1 DEF MediaUnchanged, MediaRowsUnchanged
  <2> QED
    BY <1>0, <2>1, <2>2, <2>3, StillKeys DEF Gone
<1>2. ASSUME NEW q \in Requests, Die(q) PROVE KeysOK'
  BY <1>1, <1>2 DEF Die, MediaUnchanged, Others
<1>3. ASSUME NEW q \in Requests, EvidenceActs(q) PROVE KeysOK'
  BY <1>0, <1>1, <1>3, EvidenceApart
<1>4. CASE TakeRights
  <2>1. UNCHANGED <<asset, object, told, unacked>> /\ life' = life /\ rights' \in BOOLEAN
    BY <1>4 DEF TakeRights, MediaRowsUnchanged
  <2>2. ReqOK'
    <3>1. CASE Requests = {}
      <4>1. req' = [p \in Requests |-> IF req[p].pc \in {"put", "reauthorize"}
                                       THEN [req[p] EXCEPT !.late = TRUE] ELSE req[p]]
        BY <1>4 DEF TakeRights
      <4> QED
        BY <3>1, <4>1 DEF ReqOK
    <3> QED
      BY <1>0, <1>4, <3>1, RightsTaken
  <2>3. \A q \in Requests : req'[q] \in Holders =>
              /\ req[q] \in Holders /\ req'[q].key = req[q].key
              /\ req'[q].pc = req[q].pc /\ (req[q] \in Failures => req'[q] \in Failures)
    <3>1. \A r \in Uploads : r \notin Failures
      BY DEF Uploads, Failures
    <3>2. ASSUME NEW q \in Requests, req[q] \in Uploads,
                 req'[q] = [req[q] EXCEPT !.late = TRUE]
          PROVE  /\ req'[q].key = req[q].key /\ req'[q].pc = req[q].pc
                 /\ req[q] \in Holders /\ req[q] \notin Failures
      BY <3>1, <3>2, Written DEF Holders
    <3> QED
      BY <1>0, <1>4, <3>2, RightsTaken
  <2> QED
    BY <1>0, <2>1, <2>2, <2>3, StillKeys DEF Gone
<1> QED
  BY <1>0, <1>2, <1>3, <1>4, NextSplits, UploadKeys, BoardKeys

-----------------------------------------------------------------------------
(* LATE UPLOADS AND THE QUOTA *)

\* Where an upload goes next.
LEMMA UploadGoes ==
    ASSUME ReqOK, NEW q \in Requests, MediaActs(q)
    PROVE  \E r \in Holders \cup {Idle} :
              /\ Step(q, r) /\ UNCHANGED <<life, rights>>
              /\ r \in Uploads =>
                    \/ r.late = FALSE
                    \/ /\ req[q] \in Uploads /\ r.late = req[q].late
                       /\ r.pc = "reauthorize" \/ rights
<1>1. ASSUME NEW k \in Keys, Reserve(q, k)
      PROVE  \E r \in Uploads : /\ Step(q, r) /\ UNCHANGED <<life, rights>>
                                /\ r.late = FALSE
  BY <1>1, Written DEF Reserve, ReserveNew, ReserveAgain
<1>2. ASSUME \/ Stored(q)
             \/ Reauthorize(q) /\ MayWrite
      PROVE  \E r \in Uploads : /\ Step(q, r) /\ UNCHANGED <<life, rights>>
                                /\ req[q] \in Uploads /\ r.late = req[q].late
                                /\ r.pc = "reauthorize" \/ rights
  <2>1. req[q] \in Uploads
    BY <1>2, PcTells DEF Stored, Reauthorize, At
  <2>2. CASE Stored(q)
    BY <2>1, <2>2, Written DEF Stored
  <2>3. CASE Reauthorize(q) /\ MayWrite
    BY <2>1, <2>3, Written DEF Reauthorize, MayWrite
  <2> QED
    BY <1>2, <2>2, <2>3
<1>3. ASSUME \/ StoreFails(q, "quarantined") \/ StoreFails(q, "deleted")
             \/ Reauthorize(q) /\ ~MayWrite
             \/ Finalize(q) \/ FinalizeRefused(q)
             \/ DeleteQuietly(q) \/ Mark(q)
      PROVE  \E r \in Failures \cup {Idle} : Step(q, r) /\ UNCHANGED <<life, rights>>
  <2>1. ASSUME \/ StoreFails(q, "quarantined") \/ StoreFails(q, "deleted")
               \/ Reauthorize(q) /\ ~MayWrite
             \/ Finalize(q) \/ FinalizeRefused(q)
        PROVE  \E r \in Failures \cup {Idle} : Step(q, r) /\ UNCHANGED <<life, rights>>
    <3>1. req[q] \in Uploads
      BY <2>1, PcTells DEF StoreFails, Reauthorize, Finalize, FinalizeRefused, At
    <3>2. Cleanup(req[q].key, "quarantined") \in Failures
            /\ Cleanup(req[q].key, "deleted") \in Failures
      BY <3>1, Written DEF Holders
    <3> QED
      BY <2>1, <3>2 DEF StoreFails, Reauthorize, Finalize, FinalizeRefused
  <2>2. CASE DeleteQuietly(q)
    <3>1. req[q] \in Failures
      BY <2>2, PcTells DEF DeleteQuietly, At
    <3> QED
      BY <2>2, <3>1, Written DEF DeleteQuietly
  <2>3. CASE Mark(q)
    BY <2>3 DEF Mark
  <2> QED
    BY <1>3, <2>1, <2>2, <2>3
<1>4. \A r \in Failures \cup {Idle} : r \notin Uploads /\ r \in Holders \cup {Idle}
  BY DEF Failures, Idle, Uploads, Holders
<1>5. \A r \in Uploads : r \in Holders
  BY DEF Holders
<1> DEFINE G == \E r \in Holders \cup {Idle} :
                  /\ Step(q, r) /\ UNCHANGED <<life, rights>>
                  /\ r \in Uploads =>
                        \/ r.late = FALSE
                        \/ /\ req[q] \in Uploads /\ r.late = req[q].late
                           /\ r.pc = "reauthorize" \/ rights
<1>6. ASSUME NEW k \in Keys, Reserve(q, k) PROVE G
  BY <1>1, <1>5, <1>6
<1>7. ASSUME Stored(q) \/ (Reauthorize(q) /\ MayWrite) PROVE G
  BY <1>2, <1>5, <1>7
<1>8. ASSUME \/ StoreFails(q, "quarantined") \/ StoreFails(q, "deleted")
             \/ Reauthorize(q) /\ ~MayWrite
             \/ Finalize(q) \/ FinalizeRefused(q) \/ DeleteQuietly(q) \/ Mark(q)
      PROVE  G
  <2>1. PICK r \in Failures \cup {Idle} : Step(q, r) /\ UNCHANGED <<life, rights>>
    BY <1>3, <1>8
  <2> QED
    BY <1>4, <2>1
<1> HIDE DEF G
<1>9. G
  BY <1>6, <1>7, <1>8 DEF MediaActs
<1> QED
  BY <1>9 DEF G

\* An upload whose author lost the right asks again and is refused.
LEMMA LateStep == IInv /\ [Next]_vars => LateInv'
<1> SUFFICES ASSUME IInv, [Next]_vars PROVE LateInv'
  OBVIOUS
<1>0. ReqOK /\ LateInv
  BY DEF IInv, Typed
<1>1. ASSUME NEW q \in Requests, MediaActs(q) PROVE LateInv'
  <2>1. PICK r \in Holders \cup {Idle} :
              /\ Step(q, r) /\ UNCHANGED <<life, rights>>
              /\ r \in Uploads =>
                    \/ r.late = FALSE
                    \/ /\ req[q] \in Uploads /\ r.late = req[q].late
                       /\ r.pc = "reauthorize" \/ rights
    BY <1>0, <1>1, UploadGoes
  <2>2. req'[q] = r /\ \A p \in Requests \ {q} : req'[p] = req[p]
    BY <1>0, <2>1, OneMoves
  <2>3. r \in Uploads /\ r.late = TRUE => ~rights /\ r.pc = "reauthorize"
    BY <1>0, <2>1 DEF LateInv
  <2>4. ASSUME NEW p \in Requests, req'[p] \in Uploads, req'[p].late = TRUE
        PROVE  ~rights' /\ req'[p].pc \in {"put", "reauthorize"}
    <3>1. CASE p = q
      BY <2>1, <2>2, <2>3, <2>4, <3>1
    <3>2. CASE p # q
      BY <1>0, <2>1, <2>2, <2>4, <3>2 DEF LateInv
    <3> QED
      BY <3>1, <3>2
  <2> QED
    BY <2>4 DEF LateInv
<1>2. ASSUME NEW q \in Requests, NEW r \in Others, Step(q, r), UNCHANGED rights PROVE LateInv'
  <2>1. r \notin Uploads
    BY DEF Others, Idle, Storing, Deciding, Uploads
  <2> QED
    BY <1>0, <1>2, <2>1, OneMoves DEF LateInv
<1>3. ASSUME NEW q \in Requests, Die(q) PROVE LateInv'
  BY <1>2, <1>3 DEF Die, Others
<1>4. ASSUME NEW q \in Requests, EvidenceActs(q) PROVE LateInv'
  BY <1>0, <1>2, <1>4, EvidenceApart DEF MediaUnchanged
<1>5. CASE TakeRights
  <2>1. ASSUME NEW p \in Requests, req'[p] \in Uploads, req'[p].late = TRUE
        PROVE  ~rights' /\ req'[p].pc \in {"put", "reauthorize"}
    <3>1. CASE req'[p] = req[p]
      BY <1>0, <1>5, <2>1, <3>1, RightsTaken DEF LateInv
    <3>2. CASE req'[p] = [req[p] EXCEPT !.late = TRUE] /\ req[p] \in Uploads
               /\ req[p].pc \in {"put", "reauthorize"}
      BY <1>0, <1>5, <3>2, RightsTaken, Written
    <3> QED
      BY <1>0, <1>5, <3>1, <3>2, RightsTaken
  <2> QED
    BY <2>1 DEF LateInv
<1>6. CASE BoardActs
  <2>1. UNCHANGED rights
    BY <1>6 DEF BoardActs, Reference, AnswerAvailable, Archive, Unarchive, Delete, SetLife,
       Purge, PurgeFails, Damage, MediaUnchanged, vars, mediaVars
  <2> QED
    BY <1>0, <1>6, <2>1, BoardStill DEF LateInv
<1> QED
  BY <1>1, <1>3, <1>4, <1>5, <1>6, NextSplits

\* A set that grows by one while there is room does not pass the quota.
LEMMA OneMore ==
    ASSUME NEW S, IsFiniteSet(S), Cardinality(S) <= MaxAssets, NEW k, NEW T,
           \/ T \subseteq S
           \/ Cardinality(S) < MaxAssets /\ T \subseteq S \cup {k}
    PROVE  IsFiniteSet(T) /\ Cardinality(T) <= MaxAssets
<1>1. Cardinality(S) \in Nat /\ MaxAssets \in Nat
  BY FS_CardinalityType, QuotaAssumption
<1>2. CASE T \subseteq S
  <2>1. IsFiniteSet(T) /\ Cardinality(T) <= Cardinality(S) /\ Cardinality(T) \in Nat
    BY <1>2, FS_Subset, FS_CardinalityType
  <2> QED
    BY <1>1, <2>1
<1>3. CASE Cardinality(S) < MaxAssets /\ T \subseteq S \cup {k}
  <2>1. /\ IsFiniteSet(S \cup {k})
        /\ Cardinality(S \cup {k}) \in {Cardinality(S), Cardinality(S) + 1}
    BY FS_AddElement
  <2>2. IsFiniteSet(T) /\ Cardinality(T) <= Cardinality(S \cup {k}) /\ Cardinality(T) \in Nat
    BY <1>3, <2>1, FS_Subset, FS_CardinalityType
  <2> QED
    BY <1>1, <1>3, <2>1, <2>2
<1> QED
  BY <1>2, <1>3

\* Only a reservation takes room, and it looks first.
LEMMA QuotaStep == IInv /\ [Next]_vars => QuotaInv'
<1> SUFFICES ASSUME IInv, [Next]_vars PROVE QuotaInv'
  OBVIOUS
<1>0. /\ asset \in [Keys -> {NoAsset} \cup AssetRows] /\ ReqOK
      /\ Typed /\ Exclusive /\ RowInv
      /\ IsFiniteSet(Counted) /\ Cardinality(Counted) <= MaxAssets
  BY DEF IInv, Typed, TypeOK, MediaTypeOK, QuotaInv, QuotaKept
<1>1. ASSUME \/ Counted' \subseteq Counted
             \/ WithinQuota /\ \E k \in Keys : Counted' \subseteq Counted \cup {k}
      PROVE  QuotaInv'
  <2>1. IsFiniteSet(Counted') /\ Cardinality(Counted') <= MaxAssets
    BY <1>0, <1>1, OneMore DEF WithinQuota
  <2> QED
    BY <2>1 DEF QuotaInv, QuotaKept
<1>2. ASSUME \A k \in Keys : asset'[k] = asset[k]
                             \/ asset'[k].status \notin {"uploading", "available"}
                             \/ asset[k].status \in {"uploading", "available"}
      PROVE  QuotaInv'
  <2>1. Counted' \subseteq Counted
    BY <1>2 DEF Counted
  <2> QED
    BY <1>1, <2>1
<1>3. ASSUME NEW q \in Requests, NEW k \in Keys, Reserve(q, k) PROVE QuotaInv'
  <2>1. WithinQuota /\ \A l \in Keys \ {k} : asset'[l] = asset[l]
    BY <1>0, <1>3 DEF Reserve, ReserveNew, ReserveAgain
  <2>2. Counted' \subseteq Counted \cup {k}
    BY <2>1 DEF Counted
  <2> QED
    BY <1>1, <2>1, <2>2
<1>4. ASSUME NEW q \in Requests, Finalize(q) PROVE QuotaInv'
  <2>1. asset[req[q].key].status = "uploading"
        /\ \A l \in Keys : l # req[q].key => asset'[l] = asset[l]
    BY <1>0, <1>4 DEF Finalize
  <2> QED
    BY <1>2, <2>1
<1>5. ASSUME NEW q \in Requests, Mark(q) PROVE QuotaInv'
  <2>1. req[q] \in Failures
    BY <1>0, <1>5, PcTells DEF Mark, At
  <2>2. PICK k \in Keys : k = req[q].key
          /\ asset[k] \in [status : Statuses, content : Contents, referenced : BOOLEAN]
    BY <1>0, <2>1, HolderKey DEF Holders
  <2>3. req[q].to \in {"quarantined", "deleted"}
    BY <2>1 DEF Failures
  <2>4. asset' = [asset EXCEPT ![k] = [asset[k] EXCEPT !.status = req[q].to]]
    BY <1>0, <1>5, <2>2 DEF Mark
  <2>5. [asset[k] EXCEPT !.status = req[q].to].status = req[q].to
    BY <2>2
  <2>6. \A l \in Keys : asset'[l] = asset[l]
                        \/ asset'[l].status \notin {"uploading", "available"}
    BY <1>0, <2>3, <2>4, <2>5
  <2> QED
    BY <1>2, <2>6
<1>6. CASE UNCHANGED asset
  BY <1>2, <1>6
<1>7. ASSUME NEW q \in Requests,
             \/ Stored(q) \/ StoreFails(q, "quarantined") \/ StoreFails(q, "deleted")
             \/ Reauthorize(q) \/ FinalizeRefused(q) \/ DeleteQuietly(q) \/ Die(q)
      PROVE  UNCHANGED asset
  BY <1>7 DEF Stored, StoreFails, Reauthorize, FinalizeRefused, DeleteQuietly, Die,
     MediaRowsUnchanged
<1>8. ASSUME NEW q \in Requests, EvidenceActs(q) PROVE UNCHANGED asset
  BY <1>0, <1>8, EvidenceApart DEF MediaUnchanged, MediaRowsUnchanged
<1>9. CASE BoardActs
  <2>1. CASE Purge
    BY <1>2, <2>1 DEF Purge, NoAsset
  <2>2. ASSUME NEW k \in Keys, NEW c \in Contents, Reference(k, c) PROVE QuotaInv'
    <3>1. asset[k].status = "available" /\ \A l \in Keys : l # k => asset'[l] = asset[l]
      BY <1>0, <2>2 DEF Reference, Found
    <3> QED
      BY <1>2, <3>1
  <2>3. CASE ~Purge /\ ~ \E k \in Keys, c \in Contents : Reference(k, c)
    <3>1. UNCHANGED asset
      BY <1>9, <2>3 DEF BoardActs, AnswerAvailable, Archive, Unarchive, Delete, SetLife,
         PurgeFails, Damage, MediaUnchanged, MediaRowsUnchanged, vars, mediaVars
    <3> QED
      BY <1>6, <3>1
  <2> QED
    BY <2>1, <2>2, <2>3
<1>10. CASE TakeRights
  BY <1>6, <1>10 DEF TakeRights, MediaRowsUnchanged
<1>11. ASSUME NEW q \in Requests, MediaActs(q) PROVE QuotaInv'
  BY <1>3, <1>4, <1>5, <1>6, <1>7, <1>11 DEF MediaActs
<1> QED
  BY <1>6, <1>7, <1>8, <1>9, <1>10, <1>11, NextSplits

-----------------------------------------------------------------------------
(* THE EVIDENCE *)

\* The row keeps its payload and a file becomes that of the payload or damaged.
LEMMA EvidenceKeeps ==
    ASSUME EvidenceInv,
           \/ evidence' = evidence
           \/ /\ evidence # NoEvidence /\ evidence' # NoEvidence
              /\ evidence'.payload = evidence.payload
              /\ \/ evidence'.status # "available" \/ evidence.status = "available"
                 \/ \A f \in Files : file[f] \in {evidence.payload, Damaged},
           \A f \in Files : \/ file'[f] = file[f]
                            \/ /\ evidence # NoEvidence
                               /\ file'[f] \in {evidence.payload, Damaged},
           \A p \in Requests : req'[p] = req[p] \/ StoringOK(p)'
    PROVE  EvidenceInv'
<1>1. evidence = NoEvidence <=> evidence' = NoEvidence
  OBVIOUS
<1>2. evidence # NoEvidence => evidence'.payload = evidence.payload
  OBVIOUS
<1>3. NoEvidence.status # "available"
  BY DEF NoEvidence
<1>4. \A f \in Files : evidence # NoEvidence =>
         (file[f] \in {evidence.payload, Damaged} => file'[f] \in {evidence.payload, Damaged})
  OBVIOUS
<1>5. ASSUME NEW p \in Requests, req'[p] = req[p] PROVE StoringOK(p)'
  <2>1. StoringOK(p) /\ "preview" \in Files /\ "manifest" \in Files
    BY DEF EvidenceInv, Files
  <2> QED
    BY <1>1, <1>2, <1>4, <1>5, <2>1 DEF StoringOK
<1>6. EvidenceIsItsPayload'
  <2>1. ASSUME evidence'.status = "available", NEW f \in Files
        PROVE  file'[f] \in {evidence'.payload, Damaged}
    <3>1. evidence # NoEvidence
      BY <1>1, <1>3, <2>1
    <3>2. file[f] \in {evidence.payload, Damaged}
      BY <2>1 DEF EvidenceInv, EvidenceIsItsPayload
    <3> QED
      BY <1>2, <1>4, <3>1, <3>2
  <2> QED
    BY <2>1 DEF EvidenceIsItsPayload
<1>7. evidence' = NoEvidence => \A f \in Files : file'[f] = Missing
  BY <1>1 DEF EvidenceInv
<1> QED
  BY <1>5, <1>6, <1>7 DEF EvidenceInv

\* What is evidence and what are its files.
EvidenceTyped ==
    /\ evidence \in {NoEvidence} \cup EvidenceRows
    /\ file \in [Files -> {Missing, Damaged} \cup Payloads]

\* A request that stores the evidence, decides on it or reads it.
LEMMA EvidenceActStep ==
    ASSUME ReqOK, EvidenceTyped, EvidenceInv, NEW q \in Requests, EvidenceActs(q)
    PROVE  EvidenceTyped' /\ EvidenceInv'
<1>1. PICK r \in Others : Step(q, r)
  BY EvidenceApart
<1>2. req'[q] = r /\ (\A p \in Requests \ {q} : req'[p] = req[p])
  BY <1>1, OneMoves
<1>3. StoringOK(q)
  BY DEF EvidenceInv
<1>4. /\ evidence # NoEvidence =>
            evidence \in [status : {"uploading", "available", "quarantined"},
                          payload : Payloads, shown : BOOLEAN]
      /\ file \in [Files -> {Missing, Damaged} \cup Payloads]
      /\ NoEvidence.status = "none"
  BY DEF EvidenceTyped, EvidenceRows, NoEvidence
<1>5. Idle \notin Storing /\ Idle \notin Deciding
  BY DEF Idle, Storing, Deciding
<1>6. ASSUME NEW p \in Payloads, InsertEvidence(q, p)
      PROVE  EvidenceTyped' /\ EvidenceInv'
  <2> DEFINE row == [status |-> "uploading", payload |-> p, shown |-> FALSE]
             s == [pc |-> "preview", payload |-> p]
  <2>1. /\ evidence = NoEvidence /\ evidence' = row /\ Step(q, s)
        /\ UNCHANGED file
    BY <1>6 DEF InsertEvidence
  <2>2. row \in EvidenceRows /\ row # NoEvidence /\ row.payload = p /\ row.status = "uploading"
    BY DEF EvidenceRows, NoEvidence
  <2>3. s.pc = "preview" /\ s.payload = p
    OBVIOUS
  <2>4. req'[q] = s
    BY <2>1, OneMoves
  <2> HIDE DEF row, s
  <2>5. StoringOK(q)'
    BY <2>1, <2>2, <2>3, <2>4 DEF StoringOK
  <2>6. ASSUME NEW c \in Requests \ {q} PROVE StoringOK(c)'
    <3>1. StoringOK(c)
      BY DEF EvidenceInv
    <3> QED
      BY <1>2, <2>1, <3>1 DEF StoringOK
  <2>7. EvidenceIsItsPayload'
    BY <2>1, <2>2 DEF EvidenceIsItsPayload
  <2>8. EvidenceTyped'
    BY <2>1, <2>2 DEF EvidenceTyped
  <2> QED
    BY <2>1, <2>2, <2>5, <2>6, <2>7, <2>8 DEF EvidenceInv
<1>7. ASSUME NEW p \in Payloads, FinalizeAgain(q, p)
      PROVE  EvidenceTyped' /\ EvidenceInv'
  <2> DEFINE s == [pc |-> "preview", payload |-> p]
  <2>1. /\ evidence # NoEvidence /\ evidence.payload = p /\ Step(q, s)
        /\ UNCHANGED <<evidence, file>>
    BY <1>4, <1>7 DEF FinalizeAgain, EvidenceUnchanged
  <2>2. s.pc = "preview" /\ s.payload = p
    OBVIOUS
  <2>3. req'[q] = s
    BY <2>1, OneMoves
  <2> HIDE DEF s
  <2>4. StoringOK(q)'
    BY <2>1, <2>2, <2>3 DEF StoringOK
  <2>5. EvidenceTyped'
    BY <2>1 DEF EvidenceTyped
  <2> QED
    BY <1>2, <2>1, <2>4, <2>5, EvidenceKeeps
<1>8. ASSUME NEW f \in Files, StoreFile(q, f) \/ StoreFileFails(q, f)
      PROVE  EvidenceTyped' /\ EvidenceInv'
  <2>1. req[q].pc = f
    BY <1>8 DEF StoreFile, StoreFileFails, At
  <2>2. req[q] \in Storing /\ evidence # NoEvidence /\ req[q].payload = evidence.payload
    BY <1>3, <2>1, PcTells DEF Files, StoringOK
  <2>3. /\ UNCHANGED evidence
        /\ file' = [file EXCEPT ![f] = evidence.payload] \/ file' = file
    BY <1>8, <2>2 DEF StoreFile, StoreFileFails
  <2>4. EvidenceTyped'
    BY <1>4, <2>2, <2>3 DEF EvidenceTyped
  <2>5. \A g \in Files : file'[g] = file[g] \/ file'[g] = evidence.payload
    BY <1>4, <2>3
  <2>6. StoringOK(q)'
    <3>1. CASE StoreFile(q, f)
      <4>1. req'[q] = [req[q] EXCEPT !.pc = After(f)]
            /\ file' = [file EXCEPT ![f] = evidence.payload]
        BY <2>2, <3>1, OneMoves DEF StoreFile
      <4>2. req[q] \in [pc : {"preview", "manifest", "available"}, payload : Payloads]
        BY <2>2 DEF Storing
      <4>3. req'[q].pc = After(f) /\ req'[q].payload = req[q].payload
        BY <4>1, <4>2
      <4>4. /\ file'[f] = evidence.payload
            /\ f = "manifest" => file["preview"] \in {evidence.payload, Damaged}
        BY <1>3, <1>4, <2>1, <2>2, <4>1 DEF StoringOK
      <4>5. /\ f = "preview" => After(f) = "manifest"
            /\ f = "manifest" => After(f) = "available"
            /\ f \in {"preview", "manifest"} /\ "preview" \in Files
        BY DEF After, Files
      <4> QED
        BY <2>2, <2>3, <2>5, <4>3, <4>4, <4>5 DEF StoringOK
    <3>2. CASE StoreFileFails(q, f)
      <4>1. req'[q] = Idle
        BY <3>2, OneMoves DEF StoreFileFails
      <4> QED
        BY <1>5, <4>1 DEF StoringOK
    <3> QED
      BY <1>8, <3>1, <3>2
  <2> QED
    BY <1>2, <2>2, <2>3, <2>4, <2>5, <2>6, EvidenceKeeps
<1>9. ASSUME (\E f \in Files : ReadMismatch(q, f)) \/ Manage(q)
      PROVE  EvidenceTyped' /\ EvidenceInv'
  <2>1. /\ evidence # NoEvidence /\ UNCHANGED <<evidence, file>>
        /\ Step(q, [pc |-> "quarantine"]) \/ Step(q, [pc |-> "manage"])
    BY <1>9 DEF ReadMismatch, Manage, EvidenceUnchanged
  <2>2. [pc |-> "quarantine"] \notin Storing /\ [pc |-> "manage"] \notin Storing
    BY DEF Storing
  <2>3. req'[q] \notin Storing
    BY <2>1, <2>2, OneMoves
  <2>4. StoringOK(q)'
    BY <2>1, <2>3 DEF StoringOK
  <2>5. EvidenceTyped'
    BY <2>1 DEF EvidenceTyped
  <2> QED
    BY <1>2, <2>1, <2>4, <2>5, EvidenceKeeps
<1>10. ASSUME \/ PublishEvidence(q) \/ PublishRefused(q) \/ RevokeEvidence(q)
              \/ BecomeAvailable(q) \/ Quarantine(q)
       PROVE  EvidenceTyped' /\ EvidenceInv'
  <2>1. req[q].pc \in {"manage", "available", "quarantine"} /\ Step(q, Idle) /\ UNCHANGED file
    BY <1>10 DEF PublishEvidence, PublishRefused, RevokeEvidence, BecomeAvailable, Quarantine,
       At, EvidenceUnchanged
  <2>2. evidence # NoEvidence
    BY <1>3, <2>1, PcTells DEF StoringOK
  <2>3. evidence \in [status : {"uploading", "available", "quarantined"},
                      payload : Payloads, shown : BOOLEAN]
    BY <1>4, <2>2
  <2>4. \/ evidence' = evidence
        \/ evidence' = [evidence EXCEPT !.shown = TRUE]
        \/ evidence' = [evidence EXCEPT !.shown = FALSE]
        \/ evidence' = [evidence EXCEPT !.status = "quarantined"]
        \/ BecomeAvailable(q) /\ evidence' = [evidence EXCEPT !.status = "available"]
    BY <1>10 DEF PublishEvidence, PublishRefused, RevokeEvidence, BecomeAvailable, Quarantine,
       EvidenceUnchanged
  <2>5. /\ evidence' \in EvidenceRows /\ evidence'.payload = evidence.payload
        /\ \/ evidence'.status \in {evidence.status, "quarantined"} \/ BecomeAvailable(q)
    BY <2>3, <2>4 DEF EvidenceRows
  <2>6. evidence' # NoEvidence
    BY <2>5 DEF EvidenceRows, NoEvidence
  <2>7. BecomeAvailable(q) => \A f \in Files : file[f] \in {evidence.payload, Damaged}
    <3>1. ASSUME BecomeAvailable(q) PROVE req[q].pc = "available" /\ req[q] \in Storing
      BY <3>1, PcTells DEF BecomeAvailable, At
    <3> QED
      BY <1>3, <3>1 DEF StoringOK, Files
  <2>8. EvidenceTyped'
    BY <1>4, <2>1, <2>5 DEF EvidenceTyped
  <2>9. StoringOK(q)'
    <3>1. req'[q] = Idle
      BY <2>1, OneMoves
    <3> QED
      BY <1>5, <3>1 DEF StoringOK
  <2>10. \/ evidence'.status # "available" \/ evidence.status = "available"
         \/ \A f \in Files : file[f] \in {evidence.payload, Damaged}
    BY <2>5, <2>7
  <2> QED
    BY <1>2, <2>1, <2>2, <2>5, <2>6, <2>8, <2>9, <2>10, EvidenceKeeps
<1> QED
  BY <1>6, <1>7, <1>8, <1>9, <1>10 DEF EvidenceActs

\* Every step keeps the evidence.
LEMMA EvidenceStep == IInv /\ [Next]_vars => EvidenceTyped' /\ EvidenceInv'
<1> SUFFICES ASSUME IInv, [Next]_vars PROVE EvidenceTyped' /\ EvidenceInv'
  OBVIOUS
<1>0. ReqOK /\ EvidenceTyped /\ EvidenceInv
  BY DEF IInv, Typed, TypeOK, EvidenceTyped
<1>1. ASSUME UNCHANGED <<evidence, file>>,
             \A q \in Requests : \/ req'[q] = req[q]
                                 \/ req'[q] \notin Storing /\ req'[q] \notin Deciding
      PROVE  EvidenceTyped' /\ EvidenceInv'
  <2>1. \A q \in Requests : req'[q] = req[q] \/ StoringOK(q)'
    BY <1>1 DEF StoringOK
  <2>2. EvidenceTyped'
    BY <1>0, <1>1 DEF EvidenceTyped
  <2> QED
    BY <1>0, <1>1, <2>1, <2>2, EvidenceKeeps
<1>2. \A r \in Holders \cup {Idle} : r \notin Storing /\ r \notin Deciding
  BY DEF Holders, Uploads, Failures, Idle, Storing, Deciding
<1>3. ASSUME NEW q \in Requests, MediaActs(q) \/ Die(q), EvidenceUnchanged
      PROVE  EvidenceTyped' /\ EvidenceInv'
  <2>1. PICK r \in Holders \cup {Idle} : Step(q, r)
    BY <1>0, <1>3, UploadGoes DEF Die
  <2>2. req'[q] = r /\ \A p \in Requests \ {q} : req'[p] = req[p]
    BY <1>0, <2>1, OneMoves
  <2> QED
    BY <1>1, <1>2, <1>3, <2>2 DEF EvidenceUnchanged
<1>4. CASE TakeRights /\ EvidenceUnchanged
  <2>1. ASSUME NEW q \in Requests
        PROVE  \/ req'[q] = req[q]
               \/ req'[q] \notin Storing /\ req'[q] \notin Deciding
    <3>1. \/ req'[q] = req[q]
          \/ req[q] \in Uploads /\ req'[q] = [req[q] EXCEPT !.late = TRUE]
      BY <1>0, <1>4, RightsTaken
    <3>2. req[q] \in Uploads => [req[q] EXCEPT !.late = TRUE] \in Uploads
      BY Written
    <3> QED
      BY <1>2, <3>1, <3>2 DEF Holders
  <2> QED
    BY <1>1, <1>4, <2>1 DEF EvidenceUnchanged
<1>5. CASE BoardActs
  <2>1. UNCHANGED req
    BY <1>5, BoardStill
  <2>2. ASSUME NEW f \in Files, Damage(f) PROVE EvidenceTyped' /\ EvidenceInv'
    <3>1. file[f] \in Payloads /\ file' = [file EXCEPT ![f] = Damaged] /\ UNCHANGED evidence
      BY <2>2 DEF Damage
    <3>2. evidence # NoEvidence
      BY <1>0, <3>1, PayloadsAssumption DEF EvidenceInv
    <3>3. EvidenceTyped' /\ \A g \in Files : file'[g] = file[g] \/ file'[g] = Damaged
      BY <1>0, <3>1 DEF EvidenceTyped
    <3> QED
      BY <1>0, <2>1, <3>1, <3>2, <3>3, EvidenceKeeps
  <2>3. CASE ~ \E f \in Files : Damage(f)
    <3>1. UNCHANGED <<evidence, file>>
      BY <1>5, <2>3 DEF BoardActs, Archive, Unarchive, Delete, SetLife, Purge, PurgeFails,
         EvidenceUnchanged, vars
    <3> QED
      BY <1>1, <2>1, <3>1
  <2> QED
    BY <2>2, <2>3
<1> QED
  BY <1>0, <1>3, <1>4, <1>5, EvidenceActStep, NextSplits

-----------------------------------------------------------------------------
(* THE PURGE *)

\* A purged board has no request, no picture and no evidence, and gets none.
LEMMA PurgedStep == IInv /\ [Next]_vars => PurgedInv'
<1> SUFFICES ASSUME IInv, [Next]_vars, life' = "purged"
             PROVE  /\ Busy' = {} /\ evidence' = NoEvidence
                    /\ \A k \in Keys : asset'[k] = NoAsset
  BY DEF PurgedInv
<1>0. ReqOK /\ PurgedInv /\ asset \in [Keys -> {NoAsset} \cup AssetRows]
  BY DEF IInv, Typed, TypeOK, MediaTypeOK
<1>1. CASE Purge
  BY <1>1 DEF Purge, Purgeable, Busy
<1>2. CASE ~Purge
  <2>1. life = "purged"
    <3>1. CASE BoardActs
      BY <1>2, <3>1 DEF BoardActs, Reference, AnswerAvailable, Archive, Unarchive, Delete,
         SetLife, PurgeFails, Damage, MediaUnchanged, vars, mediaVars
    <3>2. ASSUME NEW q \in Requests, MediaActs(q) \/ Die(q) PROVE life' = life
      BY <1>0, <3>2, UploadGoes DEF Die
    <3>3. ASSUME NEW q \in Requests, EvidenceActs(q) PROVE life' = life
      BY <1>0, <3>3, EvidenceApart DEF MediaUnchanged
    <3>4. TakeRights => life' = life
      BY DEF TakeRights
    <3> QED
      BY <3>1, <3>2, <3>3, <3>4, NextSplits
  <2>2. /\ Busy = {} /\ evidence = NoEvidence /\ \A k \in Keys : asset[k] = NoAsset
        /\ \A q \in Requests : req[q] = Idle
    BY <1>0, <2>1 DEF PurgedInv, Busy
  <2>3. ASSUME NEW q \in Requests PROVE ~MediaActs(q) /\ ~Die(q)
    <3>1. Idle.pc = "idle"
      BY DEF Idle
    <3>2. ~ \E k \in Keys : Reserve(q, k)
      BY <2>1 DEF Reserve, ReserveNew, ReserveAgain, MayWrite
    <3> QED
      BY <2>2, <3>1, <3>2 DEF MediaActs, Die, Stored, StoreFails, Reauthorize, Finalize,
         FinalizeRefused, DeleteQuietly, Mark, At
  <2>4. ASSUME NEW q \in Requests PROVE ~EvidenceActs(q)
    <3>1. Idle.pc = "idle"
      BY DEF Idle
    <3> QED
      BY <2>1, <2>2, <3>1 DEF EvidenceActs, InsertEvidence, FinalizeAgain, StoreFile,
         StoreFileFails, ReadMismatch, Manage, PublishEvidence, PublishRefused,
         RevokeEvidence, BecomeAvailable, Quarantine, At, Undeleted, Files
  <2>5. CASE TakeRights /\ EvidenceUnchanged
    <3>1. \A q \in Requests : req'[q] = req[q]
      <4>1. Idle \notin Uploads
        BY DEF Idle, Uploads
      <4> QED
        BY <1>0, <2>2, <2>5, <4>1, RightsTaken
    <3>2. asset' = asset /\ evidence' = evidence
      BY <2>5 DEF TakeRights, MediaRowsUnchanged, EvidenceUnchanged
    <3> QED
      BY <2>2, <3>1, <3>2 DEF Busy
  <2>6. CASE BoardActs
    <3>1. UNCHANGED req
      BY <2>6, BoardStill
    <3>2. \A k \in Keys, c \in Contents : ~Reference(k, c)
      BY <2>1 DEF Reference, MayWrite
    <3>3. UNCHANGED <<asset, evidence>>
      BY <1>2, <2>6, <3>2 DEF BoardActs, AnswerAvailable, Archive, Unarchive, Delete, SetLife,
         PurgeFails, Damage, MediaUnchanged, MediaRowsUnchanged, EvidenceUnchanged, vars,
         mediaVars
    <3> QED
      BY <2>2, <3>1, <3>3 DEF Busy
  <2> QED
    BY <2>3, <2>4, <2>5, <2>6, NextSplits
<1> QED
  BY <1>1, <1>2

-----------------------------------------------------------------------------
(* THE THEOREMS *)

\* An empty board is in order.
LEMMA InitSafe == Init => IInv
<1> SUFFICES ASSUME Init PROVE IInv
  OBVIOUS
<1>1. /\ life = "live" /\ rights = TRUE /\ told = {} /\ unacked = {}
      /\ asset = [k \in Keys |-> NoAsset] /\ object = [k \in Keys |-> FALSE]
      /\ req = [q \in Requests |-> Idle]
      /\ evidence = NoEvidence /\ file = [f \in Files |-> Missing]
  BY DEF Init, MediaInit
<1>2. /\ Idle \notin Holders /\ Idle \notin Uploads /\ Idle \notin Storing
      /\ Idle \notin Deciding
  BY DEF Idle, Holders, Uploads, Failures, Storing, Deciding
<1>3. Typed
  BY <1>1 DEF Typed, TypeOK, MediaTypeOK, ReqOK, Others
<1>4. Exclusive /\ RowInv /\ LateInv /\ PurgedInv
  BY <1>1, <1>2 DEF Exclusive, RowInv, LateInv, PurgedInv
<1>5. KeyInv
  BY <1>1 DEF KeyInv, KeyOK, NoAsset
<1>6. QuotaInv
  <2>1. Counted = {}
    BY <1>1 DEF Counted, NoAsset
  <2>2. IsFiniteSet({}) /\ Cardinality({}) = 0
    BY FS_EmptySet
  <2> QED
    BY <2>1, <2>2, QuotaAssumption DEF QuotaInv, QuotaKept
<1>7. EvidenceInv
  BY <1>1, <1>2 DEF EvidenceInv, StoringOK, EvidenceIsItsPayload, NoEvidence
<1> QED
  BY <1>3, <1>4, <1>5, <1>6, <1>7 DEF IInv

\* Every step keeps it in order.
LEMMA StepSafe == IInv /\ [Next]_vars => IInv'
<1> SUFFICES ASSUME IInv, [Next]_vars PROVE IInv'
  OBVIOUS
<1>1. KeysOK' /\ EvidenceTyped' /\ EvidenceInv'
  BY KeysStep, EvidenceStep
<1>2. Typed'
  BY <1>1 DEF KeysOK, EvidenceTyped, Typed, TypeOK
<1> QED
  BY <1>1, <1>2, LateStep, QuotaStep, PurgedStep DEF IInv, KeysOK

\* The invariant is one of every behaviour.
LEMMA AlwaysSafe == Spec => []IInv
BY InitSafe, StepSafe, PTL DEF Spec

\* Uploads do not meet under one key, and a client that was told its picture is
\* available can rely on it until the board is deleted, unless the acknowledgement
\* of the finalizing commit was lost, for any number of requests, keys and contents
\* and whatever fails or dies on the way (_reserve, _finalize, _set_failed_status).
THEOREM UploadsAreSound == Spec => []UploadsSound
<1>1. ASSUME IInv PROVE UploadsSound
  <2>1. OneUploader
    <3>1. ASSUME NEW k \in Keys,
                 NEW S, S = {q \in Requests : "key" \in DOMAIN req[q] /\ req[q].key = k}
          PROVE  Cardinality(S) <= 1
      <4>1. \A q \in S : req[q] \in Holders
        <5>1. "key" \notin DOMAIN Idle /\ (\A r \in Storing : "key" \notin DOMAIN r)
              /\ \A r \in Deciding : "key" \notin DOMAIN r
          BY DEF Idle, Storing, Deciding
        <5>2. \A q \in Requests : req[q] \in Holders \cup Others
          BY <1>1 DEF IInv, Typed, ReqOK
        <5> QED
          BY <3>1, <5>1, <5>2 DEF Others
      <4>2. \A q, r \in S : q = r
        BY <1>1, <3>1, <4>1 DEF IInv, Exclusive
      <4>3. CASE S = {}
        BY <4>3, FS_EmptySet
      <4>4. CASE S # {}
        <5>1. PICK q : q \in S
          BY <4>4
        <5>2. S = {q}
          BY <4>2, <5>1
        <5> QED
          BY <5>2, FS_Singleton
      <4> QED
        BY <4>3, <4>4
    <3> QED
      BY <3>1 DEF OneUploader
  <2>2. ToldIsKept
    BY <1>1 DEF IInv, KeyInv, KeyOK, ToldIsKept, Gone, Readable, Found
  <2> QED
    BY <2>1, <2>2 DEF UploadsSound
<1> QED
  BY <1>1, AlwaysSafe, PTL

\* What takes room is never more than the quota, for every quota of at least one
\* (_enforce_quota under the lock of the board).
THEOREM TheQuotaIsKept == Spec => []QuotaKept
<1>1. IInv => QuotaKept
  BY DEF IInv, QuotaInv
<1> QED
  BY <1>1, AlwaysSafe, PTL

\* An upload whose author lost the right to write while its object was stored does
\* not become available (reauthorize before _finalize).
THEOREM NoUploadIsLate == Spec => []NoLateUpload
<1>1. ASSUME IInv PROVE NoLateUpload
  <2>1. ASSUME NEW q \in Requests, req[q].pc = "finalize" PROVE ~req[q].late
    <3>1. req[q] \in Uploads
      BY <1>1, <2>1, PcTells DEF IInv, Typed
    <3>2. req[q].late # TRUE
      BY <1>1, <2>1, <3>1 DEF IInv, LateInv
    <3>3. req[q].late \in BOOLEAN
      BY <3>1 DEF Uploads
    <3> QED
      BY <3>2, <3>3
  <2> QED
    BY <2>1 DEF NoLateUpload, At
<1> QED
  BY <1>1, AlwaysSafe, PTL

\* Available evidence has all its files as its payload wants them unless the storage
\* damaged them, however finalizing requests overlap and repeat each other
\* (finalize, _put_verified), and a purged board leaves no object and no evidence
\* behind (purge_due).
THEOREM FilesAreSound == Spec => []FilesSound
<1>1. ASSUME IInv PROVE FilesSound
  <2>1. TypeOK /\ EvidenceIsItsPayload
    BY <1>1 DEF IInv, Typed, EvidenceInv
  <2>2. ASSUME life = "purged"
        PROVE  /\ \A k \in Keys : ~object[k]
               /\ evidence = NoEvidence /\ \A f \in Files : file[f] = Missing
    <3>1. evidence = NoEvidence /\ \A k \in Keys : asset[k] = NoAsset
      BY <1>1, <2>2 DEF IInv, PurgedInv
    <3>2. \A k \in Keys : object[k] # TRUE /\ object[k] \in BOOLEAN
      BY <1>1, <3>1 DEF IInv, KeyInv, KeyOK, Typed, TypeOK, MediaTypeOK
    <3> QED
      BY <1>1, <3>1, <3>2 DEF IInv, EvidenceInv
  <2> QED
    BY <2>1, <2>2 DEF FilesSound, PurgeLeavesNothing
<1> QED
  BY <1>1, AlwaysSafe, PTL
=============================================================================
