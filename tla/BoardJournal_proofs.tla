------------------------- MODULE BoardJournal_proofs -------------------------
(***************************************************************************)
(* What holds of BoardJournal for every set of keys, digests, clients and  *)
(* concurrent uploads, and whatever the bounds are.                        *)
(***************************************************************************)
EXTENDS BoardJournal, FiniteSetTheorems, TLAPS

(* The last batch has the revision of the document, so the next one is the next
   place in the log; there are as many batches as revisions, so the counter never
   outgrows them. *)
JournalInv ==
    /\ IsFiniteSet(batches)
    /\ \A b \in batches : b.rev <= doc.rev
    /\ doc.life # "purged" =>
         /\ Cardinality(batches) = doc.rev
         /\ doc.rev = 0 \/ \E b \in batches : b.rev = doc.rev
    /\ doc.snapRev <= doc.rev
    /\ CountersAgree

(* The row of an object: what purge derives the object's name from. *)
Kept(o) == snap[o.rev] # NoRow /\ Object(o.rev) = o

(* Every object, stored or about to be, has its row, and a row is never taken
   over by another snapshot.  That is why purge finds every object. *)
UploadInv ==
    /\ \A s \in Savers : saver[s] # Idle =>
         Kept(saver[s].object) /\ saver[s].object.rev <= doc.rev
    /\ \A o \in store : Kept(o)
    /\ \A r \in doubts : snap[r] # NoRow
    /\ doc.life = "purged" =>
         store = {} /\ Busy = {} /\ doubts = {} /\ \A r \in Revs : snap[r] = NoRow

Inv == TypeOK /\ JournalInv /\ UploadInv

-----------------------------------------------------------------------------
(* A request that is at work has an object. *)
LEMMA BusySaver ==
    ASSUME TypeOK, NEW s \in Savers, saver[s] # Idle
    PROVE  /\ saver[s] \in [pc : {"put", "finish", "quarantine"}, object : Objects]
           /\ saver[s].object \in Objects /\ saver[s].object.rev \in Revs
BY DEF TypeOK, Objects

\* An upload at work is not idle.
LEMMA AtWork ==
    ASSUME NEW s \in Savers, NEW pc \in {"put", "finish", "quarantine"}, saver[s].pc = pc
    PROVE  saver[s] # Idle
BY DEF Idle

(* A row with a status the table knows is a row. *)
LEMMA RowKnown ==
    ASSUME NEW r \in Revs, snap[r].status \in SnapshotStatuses
    PROVE  snap[r] # NoRow
BY DEF NoRow, SnapshotStatuses

(* Marking rows keeps them rows, with their digests and makers. *)
LEMMA MarkedRows ==
    ASSUME TypeOK, NEW revs \in SUBSET Revs, \A r \in revs : snap[r] # NoRow,
           NEW status \in SnapshotStatuses, snap' = Marked(revs, status)
    PROVE  /\ snap' \in [Revs -> Rows]
           /\ \A r \in Revs : snap[r] # NoRow =>
                /\ snap'[r] # NoRow
                /\ snap'[r].digest = snap[r].digest /\ snap'[r].maker = snap[r].maker
<1>1. \A r \in Revs : snap[r] # NoRow =>
        /\ [snap[r] EXCEPT !.status = status] \in [status : SnapshotStatuses, digest : Digests, maker : Makers]
        /\ [snap[r] EXCEPT !.status = status].digest = snap[r].digest
        /\ [snap[r] EXCEPT !.status = status].maker = snap[r].maker
  BY DEF TypeOK, Rows
<1>2. \A r \in revs : snap'[r] = [snap[r] EXCEPT !.status = status]
  BY DEF Marked
<1>3. \A r \in Revs \ revs : snap'[r] = snap[r]
  BY DEF Marked
<1>4. [status : SnapshotStatuses, digest : Digests, maker : Makers] \subseteq Rows \ {NoRow}
  BY DEF Rows, NoRow, SnapshotStatuses
<1>5. DOMAIN snap' = Revs /\ snap' = [r \in Revs |-> snap'[r]]
  BY DEF Marked
<1>6. ASSUME NEW r \in Revs PROVE snap'[r] \in Rows
  <2>1. CASE r \in revs
    BY <1>1, <1>2, <1>4, <2>1
  <2>2. CASE r \notin revs
    BY <1>3, <2>2 DEF TypeOK
  <2> QED
    BY <2>1, <2>2
<1>7. snap' \in [Revs -> Rows]
  BY <1>5, <1>6
<1>8. ASSUME NEW r \in Revs, snap[r] # NoRow
      PROVE  /\ snap'[r] # NoRow
             /\ snap'[r].digest = snap[r].digest /\ snap'[r].maker = snap[r].maker
  <2>1. CASE r \in revs
    BY <1>1, <1>2, <1>4, <1>8, <2>1
  <2>2. CASE r \notin revs
    BY <1>3, <1>8, <2>2
  <2> QED
    BY <2>1, <2>2
<1> QED
  BY <1>7, <1>8

\* Marking rows that are there loses track of no object.
LEMMA KeptMarked ==
    ASSUME TypeOK, NEW revs \in SUBSET Revs, \A r \in revs : snap[r] # NoRow,
           NEW status \in SnapshotStatuses, snap' = Marked(revs, status)
    PROVE  \A o \in Objects : Kept(o) => Kept(o)'
<1> SUFFICES ASSUME NEW o \in Objects, Kept(o) PROVE Kept(o)'
  OBVIOUS
<1>1. o.rev \in Revs
  BY DEF Objects
<1> QED
  BY <1>1, MarkedRows DEF Kept, Object

(* Uploads and objects keep their rows in every step that starts no upload. *)
LEMMA UploadsStay ==
    ASSUME Inv, doc'.rev \in Nat, doc.rev <= doc'.rev, doc'.life # "purged",
           \A o \in Objects : Kept(o) => Kept(o)',
           \A s \in Savers : saver'[s] # Idle =>
             saver[s] # Idle /\ saver'[s].object = saver[s].object,
           \A o \in store' :
             o \in store \/ \E s \in Savers : saver[s] # Idle /\ o = saver[s].object,
           \A r \in doubts' : snap'[r] # NoRow
    PROVE  UploadInv'
<1>1. ASSUME NEW s \in Savers, saver'[s] # Idle
      PROVE  Kept(saver[s].object)' /\ saver'[s].object.rev <= doc'.rev
  <2>1. saver[s] # Idle /\ saver'[s].object = saver[s].object
    BY <1>1
  <2>2. PICK o \in Objects : o = saver[s].object
    BY <2>1, BusySaver DEF Inv
  <2>3. Kept(o)'
    BY <2>1, <2>2 DEF Inv, UploadInv
  <2>4. o.rev \in Nat /\ o.rev <= doc.rev /\ doc.rev \in Nat
    BY <2>1, <2>2 DEF Inv, UploadInv, TypeOK, Objects, Revs
  <2> QED
    BY <2>1, <2>2, <2>3, <2>4 DEF Kept, Object
<1>2. \A o \in store' : Kept(o)'
  BY BusySaver DEF Inv, UploadInv, TypeOK
<1> QED
  BY <1>1, <1>2 DEF UploadInv

(* The counter of the batches after a revision is itself at most a revision. *)
LEMMA AfterBounded ==
    ASSUME TypeOK, JournalInv, doc.life # "purged", NEW q \in Revs
    PROVE  /\ IsFiniteSet(After(q)) /\ Cardinality(After(q)) \in Nat
           /\ Cardinality(After(q)) <= doc.rev /\ Cardinality(After(q)) \in Revs
<1>1. After(q) \subseteq batches
  BY DEF After
<1>2. IsFiniteSet(After(q)) /\ Cardinality(After(q)) <= Cardinality(batches)
  BY <1>1, FS_Subset DEF JournalInv
<1>3. Cardinality(After(q)) \in Nat
  BY <1>2, FS_CardinalityType
<1>4. doc.rev \in Revs /\ Cardinality(batches) = doc.rev
  BY DEF TypeOK, JournalInv
<1> QED
  BY <1>2, <1>3, <1>4, BoardBoundAssumption DEF Revs

-----------------------------------------------------------------------------
\* A new board satisfies the inductive invariant.
LEMMA InitInv == Init => Inv
<1> SUFFICES ASSUME Init PROVE Inv
  OBVIOUS
<1> USE BoardBoundAssumption DEF Init
<1>1. TypeOK
  <2>1. 0 \in Revs
    BY DEF Revs
  <2>2. snap \in [Revs -> Rows] /\ saver \in [Savers -> {Idle}]
    BY DEF Rows
  <2> QED
    BY <2>1, <2>2 DEF TypeOK, Lives
<1>2. JournalInv
  <2>1. IsFiniteSet(batches) /\ Cardinality(batches) = 0
    BY FS_EmptySet
  <2>2. After(0) = {}
    BY DEF After
  <2> QED
    BY <2>1, <2>2, FS_EmptySet DEF JournalInv, CountersAgree
<1>3. UploadInv
  BY DEF UploadInv, Busy
<1> QED
  BY <1>1, <1>2, <1>3 DEF Inv
-----------------------------------------------------------------------------
(* A batch is appended: the journal and its counter both grow by one. *)
LEMMA AppendInv ==
    ASSUME Inv, NEW base \in Revs, NEW b \in Batch, Append(base, b)
    PROVE  Inv'
<1> USE DEF Inv
<1>1. /\ doc.life = "live" /\ b.rev = doc.rev + 1 /\ b.rev \in Revs /\ b.digest \in Digests
      /\ doc' = [doc EXCEPT !.rev = b.rev, !.digest = b.digest, !.since = @ + 1]
      /\ batches' = batches \cup {b} /\ b \notin batches
      /\ UNCHANGED <<snap, store, saver, doubts, evidence, damage>>
  BY DEF Append, Live, Batch
<1>2. /\ doc.rev \in Revs /\ doc.snapRev \in Revs /\ doc.snapRev <= doc.rev
      /\ Revs \subseteq Nat /\ doc.rev + 1 \in Revs /\ doc.rev \in Nat /\ doc.snapRev \in Nat
  BY <1>1 DEF TypeOK, JournalInv, Revs
<1>3. /\ doc.since = Cardinality(After(doc.snapRev)) /\ IsFiniteSet(After(doc.snapRev))
      /\ doc.since \in Nat /\ doc.since <= doc.rev
  BY <1>1, <1>2, AfterBounded DEF JournalInv, CountersAgree
<1>4. doc.since + 1 \in Revs
  BY <1>2, <1>3, BoardBoundAssumption DEF Revs
<1>5. TypeOK'
  <2>1. /\ doc' \in [life : Lives, rev : Revs,
                     digest : Digests \cup {NoDigest}, snapRev : Revs, since : Revs]
    BY <1>1, <1>2, <1>4 DEF TypeOK
  <2> QED
    BY <1>1, <2>1 DEF TypeOK
<1>6. JournalInv'
  <2>1. IsFiniteSet(batches') /\ Cardinality(batches') = doc'.rev
    <3>1. Cardinality(batches) = doc.rev /\ IsFiniteSet(batches)
      BY <1>1 DEF JournalInv
    <3>2. doc'.rev = doc.rev + 1
      BY <1>1 DEF TypeOK
    <3> QED
      BY <1>1, <3>1, <3>2, FS_AddElement
  <2>2. doc'.snapRev = doc.snapRev /\ doc'.rev = doc.rev + 1 /\ doc'.since = doc.since + 1
    BY <1>1 DEF TypeOK
  <2>3. {x \in batches' : x.rev > doc'.snapRev} = After(doc.snapRev) \cup {b}
    BY <1>1, <1>2, <2>2 DEF After
  <2>4. b \notin After(doc.snapRev)
    BY <1>1 DEF After
  <2>5. Cardinality({x \in batches' : x.rev > doc'.snapRev}) = doc'.since
    BY <1>3, <2>2, <2>3, <2>4, FS_AddElement
  <2>6. doc'.snapRev <= doc'.rev
    BY <1>2, <2>2
  <2>7. CountersAgree'
    BY <2>5 DEF CountersAgree, After
  <2>8. \A x \in batches' : x.rev <= doc'.rev
    <3>1. \A x \in batches : x.rev \in Nat /\ x.rev <= doc.rev
      BY DEF JournalInv, TypeOK, Batch, Revs
    <3> QED
      BY <1>1, <1>2, <2>2, <3>1
  <2>9. \E x \in batches' : x.rev = doc'.rev
    BY <1>1, <2>2
  <2> QED
    BY <2>1, <2>6, <2>7, <2>8, <2>9 DEF JournalInv
<1>7. UploadInv'
  <2>1. doc'.rev = doc.rev + 1 /\ doc'.life = doc.life
    BY <1>1 DEF TypeOK
  <2>2. \A o \in Objects : Kept(o) => Kept(o)'
    BY <1>1 DEF Kept, Object
  <2>3. doc'.rev \in Nat /\ doc.rev <= doc'.rev /\ doc'.life # "purged"
    BY <1>1, <1>2, <2>1
  <2>4. \A r \in doubts' : snap'[r] # NoRow
    BY <1>1 DEF UploadInv
  <2>5. saver' = saver /\ store' = store
    BY <1>1
  <2> QED
    BY <2>2, <2>3, <2>4, <2>5, UploadsStay
<1> QED
  BY <1>5, <1>6, <1>7

(* The journal is not touched. *)
LEMMA JournalStays ==
    ASSUME JournalInv, batches' = batches, doc'.rev = doc.rev,
           doc'.snapRev = doc.snapRev, doc'.since = doc.since,
           doc'.life # "purged"  => doc.life # "purged"
    PROVE  JournalInv'
BY DEF JournalInv, CountersAgree, After

(* A request at work means the board is not purged. *)
LEMMA NotPurged ==
    ASSUME UploadInv, NEW s \in Savers, saver[s] # Idle
    PROVE  doc.life # "purged"
BY DEF UploadInv, Busy

(* A step that marks rows and touches neither the journal nor an object. *)
LEMMA MarkStep ==
    ASSUME Inv, NEW revs \in SUBSET Revs, \A r \in revs : snap[r] # NoRow,
           NEW status \in SnapshotStatuses, snap' = Marked(revs, status),
           doc.life # "purged",
           UNCHANGED <<doc, batches, store, evidence, damage>>, doubts' \subseteq doubts,
           saver' \in [Savers -> {Idle} \cup
                       [pc : {"put", "finish", "quarantine"}, object : Objects]],
           \A u \in Savers : saver'[u] # Idle => saver[u] # Idle /\ saver'[u] = saver[u]
    PROVE  Inv'
<1> USE DEF Inv
<1>1. TypeOK'
  BY MarkedRows DEF TypeOK
<1>2. JournalInv'
  BY JournalStays
<1>3. UploadInv'
  <2>1. \A p \in Objects : Kept(p) => Kept(p)'
    BY KeptMarked
  <2>2. doc'.rev \in Nat /\ doc.rev <= doc'.rev /\ doc'.life # "purged"
    BY DEF TypeOK, Revs
  <2>3. \A r \in doubts' : snap'[r] # NoRow
    BY MarkedRows DEF UploadInv, TypeOK
  <2> QED
    BY <2>1, <2>2, <2>3, UploadsStay
<1> QED
  BY <1>1, <1>2, <1>3

(* The steps of save_snapshot.  Every one but Reserve goes on with an object that
   has its row already. *)
LEMMA SaveInv ==
    ASSUME Inv, NEW s \in Savers, Save(s)
    PROVE  Inv'
<1> USE DEF Inv
<1>0. /\ doc.rev \in Revs /\ doc.rev \in Nat /\ doc.snapRev \in Nat /\ Revs \subseteq Nat
  BY DEF TypeOK, Revs
<1>1. ASSUME NEW o \in Objects, Reserve(s, o) PROVE Inv'
  <2>1. /\ doc.life # "purged" /\ o.rev \in Revs /\ o.rev <= doc.rev
        /\ o.digest \in Digests /\ o.maker \in Makers
        /\ UNCHANGED <<doc, batches, store, doubts, evidence, damage>>
        /\ saver' = [saver EXCEPT ![s] = [pc |-> "put", object |-> o]]
    BY <1>1 DEF Reserve, Live, Objects
  <2>2. /\ snap' \in [Revs -> Rows]
        /\ \A r \in Revs : snap[r] # NoRow => snap'[r] = snap[r]
        /\ Kept(o)'
    <3>1. CASE snap[o.rev] = NoRow /\ snap' = Reserved(o, "uploading")
      <4>1. /\ [status |-> "uploading", digest |-> o.digest, maker |-> o.maker] \in Rows
            /\ [status |-> "uploading", digest |-> o.digest, maker |-> o.maker] # NoRow
        BY <2>1 DEF Rows, SnapshotStatuses, NoRow
      <4>2. snap' \in [Revs -> Rows]
        BY <2>1, <3>1, <4>1 DEF Reserved, TypeOK
      <4>3. o = [rev |-> o.rev, digest |-> o.digest, maker |-> o.maker]
        BY DEF Objects
      <4> QED
        BY <2>1, <3>1, <4>1, <4>2, <4>3 DEF Reserved, TypeOK, Kept, Object
    <3>2. CASE /\ snap[o.rev].status \in {"uploading", "quarantined"}
               /\ Object(o.rev) = o /\ UNCHANGED snap
      <4>1. snap[o.rev] # NoRow
        BY <3>2 DEF NoRow
      <4> QED
        BY <3>2, <4>1 DEF TypeOK, Kept, Object
    <3> QED
      BY <1>1, <3>1, <3>2 DEF Reserve
  <2>3. TypeOK'
    <3>1. saver' \in [Savers -> {Idle} \cup
                       [pc : {"put", "finish", "quarantine"}, object : Objects]]
      BY <2>1 DEF TypeOK
    <3> QED
      BY <2>1, <2>2, <3>1 DEF TypeOK
  <2>4. JournalInv'
    BY <2>1, JournalStays
  <2>5. UploadInv'
    <3>1. \A p \in Objects : Kept(p) => Kept(p)'
      BY <2>2 DEF Kept, Object, Objects
    <3>2. ASSUME NEW u \in Savers, saver'[u] # Idle
          PROVE  Kept(saver[u].object)' /\ saver'[u].object.rev <= doc'.rev
      <4>1. CASE u = s
        <5>1. saver'[u].object = o
          BY <2>1, <4>1 DEF TypeOK
        <5> QED
          BY <2>1, <2>2, <5>1 DEF Kept, Object
      <4>2. CASE u # s
        <5>1. saver'[u] = saver[u] /\ saver[u] # Idle
          BY <1>1, <2>1, <3>2, <4>2 DEF TypeOK
        <5>2. PICK p \in Objects : p = saver[u].object
          BY <5>1, BusySaver
        <5>3. Kept(p)' /\ p.rev <= doc.rev
          BY <3>1, <5>1, <5>2 DEF UploadInv
        <5> QED
          BY <2>1, <5>1, <5>2, <5>3 DEF Kept, Object
      <4> QED
        BY <4>1, <4>2
    <3>3. \A p \in store' : Kept(p)'
      BY <2>1, <3>1 DEF UploadInv, TypeOK
    <3>4. \A r \in doubts' : snap'[r] # NoRow
      BY <2>1, <2>2 DEF UploadInv, TypeOK
    <3> QED
      BY <2>1, <3>2, <3>3, <3>4 DEF UploadInv
  <2> QED
    BY <2>3, <2>4, <2>5
<1> DEFINE o == saver[s].object
<1>2. ASSUME saver[s] # Idle
      PROVE  /\ o \in Objects /\ o.rev \in Revs /\ o.rev <= doc.rev
             /\ snap[o.rev] # NoRow /\ snap[o.rev].digest \in Digests
             /\ doc.life # "purged"
             /\ \A pc \in {"put", "finish", "quarantine"} :
                  [saver[s] EXCEPT !.pc = pc] \in
                    [pc : {"put", "finish", "quarantine"}, object : Objects]
             /\ \A pc \in {"put", "finish", "quarantine"} :
                  [saver[s] EXCEPT !.pc = pc].object = o
  <2>1. /\ saver[s] \in [pc : {"put", "finish", "quarantine"}, object : Objects]
        /\ o \in Objects /\ o.rev \in Revs
    BY <1>2, BusySaver
  <2>2. o.rev <= doc.rev /\ snap[o.rev] # NoRow
    BY <1>2 DEF UploadInv, Kept
  <2>3. snap[o.rev].digest \in Digests
    BY <2>1, <2>2 DEF TypeOK, Rows
  <2> QED
    BY <1>2, <2>1, <2>2, <2>3, NotPurged
<1>3. ASSUME NEW pc \in {"put", "finish", "quarantine"}, saver[s] # Idle,
             saver' = [saver EXCEPT ![s].pc = pc] \/ saver' = [saver EXCEPT ![s] = Idle]
      PROVE  /\ saver' \in [Savers -> {Idle} \cup
                       [pc : {"put", "finish", "quarantine"}, object : Objects]]
             /\ \A u \in Savers : saver'[u] # Idle =>
                  saver[u] # Idle /\ saver'[u].object = saver[u].object
  <2>1. CASE saver' = [saver EXCEPT ![s].pc = pc]
    <3>1. saver' = [saver EXCEPT ![s] = [saver[s] EXCEPT !.pc = pc]]
      BY <2>1
    <3> QED
      BY <1>2, <1>3, <3>1 DEF TypeOK
  <2>2. CASE saver' = [saver EXCEPT ![s] = Idle]
    BY <2>2 DEF TypeOK
  <2> QED
    BY <1>3, <2>1, <2>2
<1>4. ASSUME Put(s) \/ GivesUp(s) \/ PutDamaged(s) PROVE Inv'
  <2>1. saver[s] # Idle
    BY <1>4 DEF Put, GivesUp, PutDamaged, Idle
  <2>2. /\ store' \subseteq store \cup {o}
        /\ UNCHANGED <<doc, batches, snap, doubts, evidence>>
        /\ damage' \in 0..MaxDamage
    <3>1. damage' \in 0..MaxDamage
      BY <1>4, BoardBoundAssumption DEF Put, GivesUp, PutDamaged, TypeOK
    <3> QED
      BY <1>4, <3>1 DEF Put, GivesUp, PutDamaged
  <2>3. \/ saver' = [saver EXCEPT ![s].pc = "finish"]
        \/ saver' = [saver EXCEPT ![s].pc = "quarantine"]
        \/ saver' = [saver EXCEPT ![s] = Idle]
    BY <1>4 DEF Put, GivesUp, PutDamaged
  <2>4. /\ saver' \in [Savers -> {Idle} \cup
                       [pc : {"put", "finish", "quarantine"}, object : Objects]]
        /\ \A u \in Savers : saver'[u] # Idle =>
             saver[u] # Idle /\ saver'[u].object = saver[u].object
    BY <1>3, <2>1, <2>3
  <2>5. TypeOK'
    BY <1>2, <2>1, <2>2, <2>4 DEF TypeOK
  <2>6. JournalInv'
    BY <2>2, JournalStays
  <2>7. UploadInv'
    <3>1. \A p \in Objects : Kept(p) => Kept(p)'
      BY <2>2 DEF Kept, Object
    <3>2. doc'.rev \in Nat /\ doc.rev <= doc'.rev /\ doc'.life # "purged"
      BY <1>0, <1>2, <2>1, <2>2
    <3>3. \A p \in store' :
            p \in store \/ \E u \in Savers : saver[u] # Idle /\ p = saver[u].object
      BY <2>1, <2>2
    <3>4. \A r \in doubts' : snap'[r] # NoRow
      BY <2>2 DEF UploadInv
    <3> QED
      BY <2>4, <3>1, <3>2, <3>3, <3>4, UploadsStay
  <2> QED
    BY <2>5, <2>6, <2>7
<1>5. ASSUME QuarantineUpload(s) PROVE Inv'
  <2>1. saver[s] # Idle
    BY <1>5 DEF QuarantineUpload, Idle
  <2>2. /\ snap' = Marked({o.rev}, "quarantined")
        /\ saver' = [saver EXCEPT ![s] = Idle]
        /\ UNCHANGED <<doc, batches, store, doubts, evidence, damage>>
    BY <1>5 DEF QuarantineUpload
  <2>3. \A u \in Savers : saver'[u] # Idle => saver[u] # Idle /\ saver'[u] = saver[u]
    BY <2>2 DEF TypeOK
  <2>4. /\ saver' \in [Savers -> {Idle} \cup
                       [pc : {"put", "finish", "quarantine"}, object : Objects]]
    BY <2>2 DEF TypeOK
  <2>5. {o.rev} \in SUBSET Revs /\ \A r \in {o.rev} : snap[r] # NoRow
    BY <1>2, <2>1
  <2>6. doc.life # "purged"
    BY <1>2, <2>1
  <2> QED
    BY <2>2, <2>3, <2>4, <2>5, <2>6, MarkStep DEF SnapshotStatuses
<1>6. ASSUME Finish(s) PROVE Inv'
  <2>1. /\ saver[s] # Idle /\ doc.life = "live"
        /\ snap' = Marked({o.rev}, "available")
        /\ saver' = [saver EXCEPT ![s] = Idle]
        /\ UNCHANGED <<batches, store, doubts, evidence, damage>>
    BY <1>6 DEF Finish, Idle, Live
  <2>2. Named(o.rev) \in Digests \cup {NoDigest}
    BY <1>2, <2>1 DEF Named, TypeOK
  <2>3. Cardinality(After(o.rev)) \in Revs
    BY <1>2, <2>1, AfterBounded
  <2>4. /\ doc' \in [life : Lives, rev : Revs,
                     digest : Digests \cup {NoDigest}, snapRev : Revs, since : Revs]
        /\ doc'.rev = doc.rev /\ doc'.life = doc.life
        /\ \/ doc'.snapRev = o.rev /\ doc'.since = Cardinality(After(o.rev))
           \/ doc'.snapRev = doc.snapRev /\ doc'.since = doc.since
    <3>1. CASE doc' = [doc EXCEPT !.snapRev = o.rev,
                !.since = Cardinality(After(o.rev)), !.digest = Named(o.rev)]
      BY <1>2, <2>1, <2>2, <2>3, <3>1 DEF TypeOK
    <3>2. CASE doc' = [doc EXCEPT !.digest = Named(o.rev)]
      BY <2>2, <3>2 DEF TypeOK
    <3> QED
      BY <1>6, <3>1, <3>2 DEF Finish
  <2>5. {o.rev} \in SUBSET Revs /\ \A r \in {o.rev} : snap[r] # NoRow
    BY <1>2, <2>1
  <2>6. snap' \in [Revs -> Rows]
    BY <2>1, <2>5, MarkedRows DEF SnapshotStatuses
  <2>7. TypeOK'
    BY <2>1, <2>4, <2>6 DEF TypeOK
  <2>8. JournalInv'
    <3>1. CASE doc'.snapRev = o.rev /\ doc'.since = Cardinality(After(o.rev))
      <4>1. After(doc.snapRev)' = After(o.rev)
        BY <2>1, <3>1 DEF After
      <4>2. o.rev <= doc.rev
        BY <1>2, <2>1
      <4> QED
        BY <2>1, <2>4, <3>1, <4>1, <4>2 DEF JournalInv, CountersAgree
    <3>2. CASE doc'.snapRev = doc.snapRev /\ doc'.since = doc.since
      BY <2>1, <2>4, <3>2, JournalStays
    <3> QED
      BY <2>4, <3>1, <3>2
  <2>9. UploadInv'
    <3>1. \A p \in Objects : Kept(p) => Kept(p)'
      BY <2>1, <2>5, KeptMarked DEF SnapshotStatuses
    <3>2. doc'.rev \in Nat /\ doc.rev <= doc'.rev /\ doc'.life # "purged"
      BY <1>0, <2>1, <2>4
    <3>3. \A u \in Savers : saver'[u] # Idle => saver[u] # Idle /\ saver'[u].object = saver[u].object
      BY <2>1 DEF TypeOK
    <3>4. \A r \in doubts' : snap'[r] # NoRow
      BY <2>1, <2>5, MarkedRows DEF UploadInv, TypeOK, SnapshotStatuses
    <3> QED
      BY <2>1, <3>1, <3>2, <3>3, <3>4, UploadsStay
  <2> QED
    BY <2>7, <2>8, <2>9
<1> QED
  BY <1>1, <1>4, <1>5, <1>6 DEF Save
-----------------------------------------------------------------------------
(* Those who find damage withdraw rows; evidence adds one of its own. *)
LEMMA UpkeepInv ==
    ASSUME Inv,
           \/ \E o \in store : Damage(o)
           \/ \E revs \in SUBSET Revs : VerifyIntegrity(revs)
           \/ \E r \in Revs : ReadDamaged(r) \/ QuarantineRead(r) \/ FinalizeEvidence(r)
    PROVE  Inv'
<1> USE DEF Inv
<1>0. /\ doc.rev \in Nat
      /\ \A r \in Revs : snap[r].status = "available" => snap[r] # NoRow
  BY DEF TypeOK, Revs, NoRow
<1>1. ASSUME NEW o \in store, Damage(o) PROVE Inv'
  <2>1. /\ store' \subseteq store /\ damage' \in 0..MaxDamage
        /\ UNCHANGED <<doc, batches, snap, saver, doubts, evidence>>
    BY <1>1, BoardBoundAssumption DEF Damage, TypeOK
  <2>2. doc.life # "purged"
    BY <1>1 DEF UploadInv
  <2>3. TypeOK' /\ JournalInv'
    BY <2>1, JournalStays DEF TypeOK
  <2>4. \A p \in Objects : Kept(p) => Kept(p)'
    BY <2>1 DEF Kept, Object
  <2>5. UploadInv'
    BY <1>0, <2>1, <2>2, <2>4, UploadsStay DEF UploadInv
  <2> QED
    BY <2>3, <2>5
<1>2. ASSUME NEW revs \in SUBSET Revs, VerifyIntegrity(revs) PROVE Inv'
  <2>1. /\ revs # {} /\ \A r \in revs : snap[r] # NoRow
        /\ snap' = Marked(revs, "quarantined")
        /\ UNCHANGED <<doc, batches, store, saver, doubts, evidence, damage>>
    BY <1>0, <1>2 DEF VerifyIntegrity, With
  <2>2. doc.life # "purged"
    BY <2>1 DEF UploadInv
  <2> QED
    BY <2>1, <2>2, MarkStep DEF SnapshotStatuses, TypeOK
<1>3. ASSUME NEW r \in Revs, ReadDamaged(r) PROVE Inv'
  <2>1. /\ snap[r] # NoRow /\ doc.life # "purged"
        /\ doubts' = doubts \cup {r}
        /\ UNCHANGED <<doc, batches, snap, store, saver, evidence, damage>>
    BY <1>0, <1>3 DEF ReadDamaged, Undeleted
  <2>2. TypeOK' /\ JournalInv'
    BY <2>1, JournalStays DEF TypeOK
  <2>3. \A p \in Objects : Kept(p) => Kept(p)'
    BY <2>1 DEF Kept, Object
  <2>4. \A q \in doubts' : snap'[q] # NoRow
    BY <2>1 DEF UploadInv
  <2>5. UploadInv'
    BY <1>0, <2>1, <2>3, <2>4, UploadsStay
  <2> QED
    BY <2>2, <2>5
<1>4. ASSUME NEW r \in Revs, QuarantineRead(r) PROVE Inv'
  <2>1. /\ snap[r] # NoRow /\ doc.life # "purged"
        /\ {r} \in SUBSET Revs /\ \A q \in {r} : snap[q] # NoRow
    BY <1>4 DEF QuarantineRead, UploadInv
  <2>2. /\ snap' = Marked({r}, "quarantined") /\ doubts' \subseteq doubts
        /\ UNCHANGED <<doc, batches, store, saver, evidence, damage>>
    BY <1>4 DEF QuarantineRead
  <2> QED
    BY <2>1, <2>2, MarkStep DEF SnapshotStatuses, TypeOK
<1>5. ASSUME NEW r \in Revs, FinalizeEvidence(r) PROVE Inv'
  <2>1. /\ doc.life # "purged" /\ evidence' = evidence \cup {r}
        /\ UNCHANGED <<doc, batches, snap, store, saver, doubts, damage>>
    BY <1>5 DEF FinalizeEvidence, Undeleted
  <2>2. TypeOK' /\ JournalInv'
    BY <2>1, JournalStays DEF TypeOK
  <2>3. UploadInv'
    BY <2>1 DEF UploadInv, Kept, Object, Busy
  <2> QED
    BY <2>2, <2>3
<1> QED
  BY <1>1, <1>2, <1>3, <1>4, <1>5

(* The board's life: only purge takes rows and batches away, and it takes every
   object that a row leads to. *)
LEMMA LifeInv ==
    ASSUME Inv, Archive \/ Unarchive \/ SoftDelete \/ Expire \/ Purge
    PROVE  Inv'
<1> USE DEF Inv
<1>0. doc.rev \in Nat
  BY BoardBoundAssumption DEF TypeOK, Revs
<1>1. ASSUME Archive \/ Unarchive \/ SoftDelete \/ Expire PROVE Inv'
  <2>1. doc.life # "purged"
    BY <1>1 DEF Archive, Unarchive, SoftDelete, Expire, Live, Undeleted
  <2>2. /\ doc' \in [life : Lives, rev : Revs,
                     digest : Digests \cup {NoDigest}, snapRev : Revs, since : Revs]
        /\ doc'.life # "purged" /\ doc'.rev = doc.rev
        /\ doc'.snapRev = doc.snapRev /\ doc'.since = doc.since
    <3>1. CASE Archive \/ Unarchive \/ SoftDelete
      <4>1. PICK life \in {"live", "archived", "deleted"} : doc' = [doc EXCEPT !.life = life]
        BY <3>1 DEF Archive, Unarchive, SoftDelete, Becomes
      <4> QED
        BY <4>1 DEF TypeOK, Lives
    <3>2. CASE Expire
      BY <3>2 DEF Expire, TypeOK, Lives
    <3> QED
      BY <1>1, <3>1, <3>2
  <2>3. PICK revs \in SUBSET {r \in Revs : snap[r] # NoRow} :
          snap' = Marked(revs, "deleted") \/ snap' = snap
    BY <1>1 DEF Archive, Unarchive, SoftDelete, Expire
  <2>4. /\ snap' \in [Revs -> Rows]
        /\ \A p \in Objects : Kept(p) => Kept(p)'
        /\ \A r \in Revs : snap[r] # NoRow => snap'[r] # NoRow
    <3>1. CASE snap' = Marked(revs, "deleted")
      BY <2>3, <3>1, MarkedRows, KeptMarked DEF SnapshotStatuses
    <3>2. CASE snap' = snap
      BY <3>2 DEF TypeOK, Kept, Object
    <3> QED
      BY <2>3, <3>1, <3>2
  <2>5. UNCHANGED <<batches, store, saver, doubts, evidence, damage>>
    BY <1>1 DEF Archive, Unarchive, SoftDelete, Expire
  <2>6. TypeOK'
    BY <2>2, <2>4, <2>5 DEF TypeOK
  <2>7. JournalInv'
    BY <2>1, <2>2, <2>5, JournalStays
  <2>8. UploadInv'
    <3>1. doc'.rev \in Nat /\ doc.rev <= doc'.rev /\ doc'.life # "purged"
      BY <1>0, <2>2
    <3>2. \A r \in doubts' : snap'[r] # NoRow
      BY <2>4, <2>5 DEF UploadInv, TypeOK
    <3> QED
      BY <2>4, <2>5, <3>1, <3>2, UploadsStay
  <2> QED
    BY <2>6, <2>7, <2>8
<1>2. ASSUME Purge PROVE Inv'
  <2>1. /\ doc.life \in {"deleted", "expired"} /\ Busy = {} /\ doubts = {}
        /\ store' = store \ {Object(r) : r \in {q \in Revs : snap[q] # NoRow}}
        /\ doc' = [doc EXCEPT !.life = "purged"]
        /\ batches' = {} /\ snap' = [r \in Revs |-> NoRow]
        /\ UNCHANGED <<saver, doubts, evidence, damage>>
    BY <1>2 DEF Purge
  <2>2. store' = {}
    BY <2>1 DEF UploadInv, Kept, TypeOK, Objects
  <2>3. /\ doc' \in [life : Lives, rev : Revs,
                     digest : Digests \cup {NoDigest}, snapRev : Revs, since : Revs]
        /\ doc'.life = "purged" /\ doc'.rev = doc.rev /\ doc'.snapRev = doc.snapRev
    BY <2>1 DEF TypeOK, Lives
  <2>4. snap' \in [Revs -> Rows]
    BY <2>1 DEF Rows
  <2>5. TypeOK'
    BY <2>1, <2>2, <2>3, <2>4 DEF TypeOK
  <2>6. JournalInv'
    BY <2>1, <2>3, FS_EmptySet DEF JournalInv, CountersAgree
  <2>7. \A s \in Savers : saver[s] = Idle
    BY <2>1 DEF Busy
  <2>8. UploadInv'
    BY <2>1, <2>2, <2>7 DEF UploadInv, Busy
  <2> QED
    BY <2>5, <2>6, <2>8
<1> QED
  BY <1>1, <1>2

\* Every step of the board preserves it.
LEMMA NextInv == Inv /\ [Next]_vars => Inv'
<1> SUFFICES ASSUME Inv, [Next]_vars PROVE Inv'
  OBVIOUS
<1>1. ASSUME NEW base \in Revs, NEW b \in Batch, Append(base, b) PROVE Inv'
  BY <1>1, AppendInv
<1>2. ASSUME NEW s \in Savers, Save(s) PROVE Inv'
  BY <1>2, SaveInv
<1>3. CASE \/ \E o \in store : Damage(o)
           \/ \E revs \in SUBSET Revs : VerifyIntegrity(revs)
           \/ \E r \in Revs : ReadDamaged(r) \/ QuarantineRead(r) \/ FinalizeEvidence(r)
  BY <1>3, UpkeepInv
<1>4. CASE Archive \/ Unarchive \/ SoftDelete \/ Expire \/ Purge
  BY <1>4, LifeInv
<1>5. CASE UNCHANGED vars
  BY <1>5 DEF vars, Inv, TypeOK, JournalInv, CountersAgree, After, UploadInv, Kept, Object, Busy
<1> QED
  BY <1>1, <1>2, <1>3, <1>4, <1>5 DEF Next

\* It holds in every reachable state.
LEMMA AlwaysInv == Spec => []Inv
BY InitInv, NextInv, PTL DEF Spec
-----------------------------------------------------------------------------
(* Every reachable state is well typed; in particular the counter of batches since
   the latest snapshot never exceeds the revisions (append_commands,
   save_snapshot). *)
THEOREM TypeCorrect == Spec => []TypeOK
<1>1. Inv => TypeOK
  BY DEF Inv
<1> QED
  BY AlwaysInv, <1>1, PTL

(* The compaction counter counts exactly the batches after the latest snapshot, in
   whatever order uploads finish and batches arrive meanwhile. *)
THEOREM CounterIsExact == Spec => []CountersAgree
<1>1. Inv => CountersAgree
  BY DEF Inv, JournalInv
<1> QED
  BY AlwaysInv, <1>1, PTL

(* purge_due finds the object of every upload ever begun, failed ones included:
   a purged board leaves nothing in artifact storage. *)
THEOREM PurgeIsComplete == Spec => []PurgeLeavesNothing
<1>1. Inv => PurgeLeavesNothing
  BY DEF Inv, UploadInv, PurgeLeavesNothing
<1> QED
  BY AlwaysInv, <1>1, PTL

(* The command journal implements the append-only log of BoardLog: consecutive
   revisions, fresh keys, rising Lamport numbers, entries that nobody rewrites. *)
THEOREM JournalImplementsLog == Spec => JournalIsLog
<1>1. Init => Log!Init
  BY DEF Init, Log!Init, Live
<1>2. Inv /\ [Next]_vars => [Log!Next]_Log!vars
  <2> SUFFICES ASSUME Inv, [Next]_vars PROVE [Log!Next]_Log!vars
    OBVIOUS
  <2> USE DEF Log!vars, Log!Next
  <2>1. ASSUME NEW base \in Revs, NEW b \in Batch, Append(base, b) PROVE Log!Append
    <3>1. /\ Live /\ Live' /\ batches' = batches \cup {b}
          /\ b.rev = doc.rev + 1
      BY <2>1 DEF Append, Live, Inv, TypeOK
    <3>2. b.rev = 1 \/ \E f \in batches : b.rev = f.rev + 1
      BY <3>1 DEF Inv, JournalInv, Live
    <3>3. \A f \in batches : f.rev < b.rev
      BY <3>1 DEF Inv, JournalInv, TypeOK, Batch, Revs
    <3>4. Log!Follows(b)
      BY <2>1, <3>2, <3>3 DEF Append, Log!Follows
    <3> QED
      BY <3>1, <3>4 DEF Log!Append
  <2>2. CASE batches' = batches
    BY <2>2 DEF Log!OpenOrClose, Live
  <2>3. ASSUME Purge PROVE Log!Discard
    BY <2>3 DEF Purge, Log!Discard, Live, Inv, TypeOK
  <2>4. ASSUME NEW s \in Savers, Save(s) PROVE batches' = batches
    BY <2>4 DEF Save, Reserve, Put, GivesUp, PutDamaged, QuarantineUpload, Finish
  <2>5. (\E o \in store : Damage(o)) \/ (\E revs \in SUBSET Revs : VerifyIntegrity(revs))
          => batches' = batches
    BY DEF Damage, VerifyIntegrity
  <2>6. (\E r \in Revs : ReadDamaged(r) \/ QuarantineRead(r) \/ FinalizeEvidence(r))
          => batches' = batches
    BY DEF ReadDamaged, QuarantineRead, FinalizeEvidence
  <2>7. Archive \/ Unarchive \/ SoftDelete \/ Expire => batches' = batches
    BY DEF Archive, Unarchive, SoftDelete, Expire
  <2>8. UNCHANGED vars => batches' = batches
    BY DEF vars
  <2> QED
    BY <2>1, <2>2, <2>3, <2>4, <2>5, <2>6, <2>7, <2>8 DEF Next
<1> QED
  BY <1>1, <1>2, AlwaysInv, PTL DEF Spec, JournalIsLog, Log!Spec
-----------------------------------------------------------------------------
(* soft_delete spares the snapshots evidence was finalized from, and nobody else
   marks a snapshot deleted but retention. *)
LEMMA NextEvidence ==
    ASSUME Inv, EvidenceKeepsSnapshot, [Next]_vars
    PROVE  EvidenceKeepsSnapshot'
<1> DEFINE Kept0 == \A r \in evidence : snap[r].status # "deleted"
<1>a. CASE Purge
  BY <1>a DEF Purge, EvidenceKeepsSnapshot
<1>b. CASE Expire
  BY <1>b DEF Expire, EvidenceKeepsSnapshot, Inv, TypeOK
<1> SUFFICES ASSUME ~Purge, ~Expire, doc'.life # "expired" PROVE Kept0'
  BY <1>a, <1>b DEF EvidenceKeepsSnapshot
<1>c. doc.life # "expired"
  <2>1. doc.life = "expired" => doc' = doc
    <3> SUFFICES ASSUME doc.life = "expired" PROVE doc' = doc
      OBVIOUS
    <3>1. ~Live /\ ~Undeleted
      BY DEF Live, Undeleted
    <3>2. \A base \in Revs, b \in Batch : ~Append(base, b)
      BY <3>1 DEF Append
    <3>3. \A s \in Savers : Save(s) => doc' = doc
      BY <3>1 DEF Save, Reserve, Put, GivesUp, PutDamaged, QuarantineUpload, Finish
    <3>4. \A o \in store : Damage(o) => doc' = doc
      BY DEF Damage
    <3>5. \A revs \in SUBSET Revs : VerifyIntegrity(revs) => doc' = doc
      BY DEF VerifyIntegrity
    <3>6. \A r \in Revs : ReadDamaged(r) \/ QuarantineRead(r) \/ FinalizeEvidence(r)
                          => doc' = doc
      BY DEF ReadDamaged, QuarantineRead, FinalizeEvidence
    <3>7. ~Archive /\ ~Unarchive /\ ~SoftDelete
      BY <3>1 DEF Archive, Unarchive, SoftDelete, Live
    <3>8. UNCHANGED vars => doc' = doc
      BY DEF vars
    <3> QED
      BY <3>2, <3>3, <3>4, <3>5, <3>6, <3>7, <3>8 DEF Next
  <2> QED
    BY <2>1
<1> USE DEF Kept0
<1>0. evidence \subseteq Revs /\ snap \in [Revs -> Rows] /\ Kept0
  BY <1>c DEF Inv, TypeOK, EvidenceKeepsSnapshot
<1>1. ASSUME evidence' = evidence, NEW revs \in SUBSET Revs, NEW status \in SnapshotStatuses,
             snap' = Marked(revs, status),
             \A r \in revs : snap[r] # NoRow, status # "deleted" \/ revs \cap evidence = {}
      PROVE  Kept0'
  <2>1. \A r \in revs : snap'[r].status = status
    BY <1>0, <1>1 DEF Marked, Rows
  <2>2. \A r \in Revs \ revs : snap'[r] = snap[r]
    BY <1>1 DEF Marked
  <2> QED
    BY <1>0, <1>1, <2>1, <2>2
<1>2. ASSUME NEW s \in Savers, Save(s) PROVE Kept0'
  <2>1. CASE \E o \in Objects : Reserve(s, o)
    BY <1>0, <2>1 DEF Reserve, Reserved, Objects
  <2>2. CASE Put(s) \/ GivesUp(s) \/ PutDamaged(s)
    BY <1>0, <2>2 DEF Put, GivesUp, PutDamaged
  <2>3. CASE QuarantineUpload(s) \/ Finish(s)
    <3>1. saver[s] # Idle
      BY <2>3 DEF QuarantineUpload, Finish, Idle
    <3>2. saver[s].object.rev \in Revs /\ snap[saver[s].object.rev] # NoRow
      BY <3>1, BusySaver DEF Inv, UploadInv, Kept
    <3>3. /\ evidence' = evidence
          /\ \/ snap' = Marked({saver[s].object.rev}, "quarantined")
             \/ snap' = Marked({saver[s].object.rev}, "available")
      BY <2>3 DEF QuarantineUpload, Finish
    <3> QED
      BY <1>1, <3>2, <3>3 DEF SnapshotStatuses
  <2> QED
    BY <1>2, <2>1, <2>2, <2>3 DEF Save
<1>3. ASSUME NEW revs \in SUBSET Revs, VerifyIntegrity(revs) PROVE Kept0'
  <2>1. \A r \in revs : snap[r] # NoRow
    BY <1>3 DEF VerifyIntegrity, With, NoRow
  <2> QED
    BY <1>1, <1>3, <2>1 DEF VerifyIntegrity, SnapshotStatuses
<1>4. ASSUME NEW r \in Revs, ReadDamaged(r) \/ QuarantineRead(r) \/ FinalizeEvidence(r)
      PROVE  Kept0'
  <2>1. CASE ReadDamaged(r)
    BY <1>0, <2>1 DEF ReadDamaged
  <2>2. CASE QuarantineRead(r)
    <3>1. snap[r] # NoRow
      BY <2>2 DEF QuarantineRead, Inv, UploadInv
    <3>2. evidence' = evidence /\ snap' = Marked({r}, "quarantined")
      BY <2>2 DEF QuarantineRead
    <3>3. snap' = [q \in Revs |-> IF q = r THEN [snap[q] EXCEPT !.status = "quarantined"]
                                  ELSE snap[q]]
      BY <3>2 DEF Marked
    <3>4. snap'[r].status = "quarantined"
      BY <1>0, <3>1, <3>3 DEF Rows
    <3>5. \A q \in Revs \ {r} : snap'[q] = snap[q]
      BY <3>3
    <3> QED
      BY <1>0, <3>2, <3>4, <3>5
  <2>3. CASE FinalizeEvidence(r)
    BY <1>0, <2>3 DEF FinalizeEvidence
  <2> QED
    BY <1>4, <2>1, <2>2, <2>3
<1>5. CASE SoftDelete
  <2> DEFINE revs == {r \in Revs \ evidence : snap[r] # NoRow}
  <2>1. revs \in SUBSET Revs /\ revs \cap evidence = {} /\ \A r \in revs : snap[r] # NoRow
    OBVIOUS
  <2>2. snap' = Marked(revs, "deleted") /\ evidence' = evidence
    BY <1>5 DEF SoftDelete
  <2> HIDE DEF revs
  <2> QED
    BY <1>1, <2>1, <2>2 DEF SnapshotStatuses
<1>6. CASE Archive \/ Unarchive
  BY <1>0, <1>6 DEF Archive, Unarchive
<1>8. CASE UNCHANGED vars
  BY <1>0, <1>8 DEF vars
<1>9. ASSUME NEW base \in Revs, NEW b \in Batch, Append(base, b) PROVE Kept0'
  BY <1>0, <1>9 DEF Append
<1>10. ASSUME NEW o \in store, Damage(o) PROVE Kept0'
  BY <1>0, <1>10 DEF Damage
<1> QED
  BY <1>2, <1>3, <1>4, <1>5, <1>6, <1>8, <1>9, <1>10 DEF Next

(* Until retention deletes it, a board keeps the snapshots of its evidence, whoever
   archives, deletes or verifies it (soft_delete). *)
THEOREM EvidenceSurvives == Spec => []EvidenceKeepsSnapshot
<1>1. Init => EvidenceKeepsSnapshot
  BY DEF Init, EvidenceKeepsSnapshot
<1>2. Inv /\ EvidenceKeepsSnapshot /\ [Next]_vars => EvidenceKeepsSnapshot'
  BY NextEvidence
<1> QED
  BY <1>1, <1>2, AlwaysInv, PTL DEF Spec
-----------------------------------------------------------------------------
(* The journal names the document of every revision once, and a row, once it is
   there, has the digest of its revision for good.  Revision 0 has no batch: its
   first finished snapshot says what it is. *)
DigestInv ==
    doc.life # "purged" =>
    /\ \A c, d \in batches : c.rev = d.rev => c = d
    /\ \A r \in Revs : 0 < r /\ r <= doc.rev => \E c \in batches : c.rev = r
    /\ \A c \in batches : c.rev = doc.rev => c.digest = doc.digest
    /\ \A r \in Revs : snap[r] # NoRow =>
         /\ r <= doc.rev
         /\ \A c \in batches : c.rev = r => c.digest = snap[r].digest
    /\ doc.rev = 0 =>
         /\ doc.digest # NoDigest => snap[0] # NoRow /\ snap[0].digest = doc.digest
         /\ snap[0].status = "available" => doc.digest = snap[0].digest

(* Without damage nobody doubts a snapshot, what was put is in place when it is
   finished, and the latest of the available ones is known. *)
StorageInv ==
    damage = 0 =>
    /\ doubts = {}
    /\ \A s \in Savers : /\ saver[s].pc # "quarantine"
                         /\ saver[s].pc = "finish" => saver[s].object \in store
    /\ \A r \in With("available") : Intact(r)
    /\ Undeleted =>
         /\ With("available") = {} => doc.snapRev = 0
         /\ With("available") # {} => doc.snapRev \in With("available")
         /\ \A r \in With("available") : r <= doc.snapRev

\* What marking does to each row.
LEMMA MarkedStatus ==
    ASSUME TypeOK, NEW revs \in SUBSET Revs, \A r \in revs : snap[r] # NoRow,
           NEW status \in SnapshotStatuses, snap' = Marked(revs, status)
    PROVE  /\ \A r \in revs : snap'[r].status = status
           /\ \A r \in Revs \ revs : snap'[r] = snap[r]
<1>1. \A r \in revs : [snap[r] EXCEPT !.status = status].status = status
  BY DEF TypeOK, Rows
<1> QED
  BY <1>1 DEF Marked

(* A step that keeps the journal, the digests and the rows, and makes no snapshot of
   revision 0 available. *)
LEMMA DigestStays ==
    ASSUME Inv, DigestInv, batches' = batches, doc'.rev = doc.rev, doc'.digest = doc.digest,
           doc.life # "purged",
           \A r \in Revs : snap'[r] # NoRow <=> snap[r] # NoRow,
           \A r \in Revs : snap[r] # NoRow => snap'[r].digest = snap[r].digest,
           snap'[0].status = "available" => snap[0].status = "available"
    PROVE  DigestInv'
<1>1. 0 \in Revs /\ (snap[0].status = "available" => snap[0] # NoRow)
  BY BoardBoundAssumption DEF Revs, NoRow
<1> QED
  BY <1>1 DEF DigestInv

\* Rows marked quarantined or deleted stay what they were snapshots of.
LEMMA DigestMarked ==
    ASSUME Inv, DigestInv, doc.life # "purged", batches' = batches, doc'.rev = doc.rev,
           doc'.digest = doc.digest, NEW revs \in SUBSET Revs, \A r \in revs : snap[r] # NoRow,
           NEW status \in {"quarantined", "deleted"}, snap' = Marked(revs, status)
    PROVE  DigestInv'
<1>1. /\ \A r \in revs : snap'[r].status = status
      /\ \A r \in Revs \ revs : snap'[r] = snap[r]
  BY MarkedStatus DEF Inv, SnapshotStatuses
<1>2. \A r \in Revs : snap[r] # NoRow => snap'[r] # NoRow /\ snap'[r].digest = snap[r].digest
  BY MarkedRows DEF Inv, SnapshotStatuses
<1>3. 0 \in Revs
  BY BoardBoundAssumption DEF Revs
<1>4. snap'[0].status = "available" => snap[0].status = "available"
  BY <1>1, <1>3
<1>5. \A r \in Revs : snap'[r] # NoRow => snap[r] # NoRow
  BY <1>1
<1> QED
  BY <1>2, <1>4, <1>5, DigestStays

\* A batch of a new revision is the only one of its revision, and no row has it yet.
LEMMA DigestAppend ==
    ASSUME Inv, DigestInv, NEW base \in Revs, NEW b \in Batch, Append(base, b)
    PROVE  DigestInv'
<1>1. /\ doc.life = "live" /\ b.rev = doc.rev + 1
      /\ doc' = [doc EXCEPT !.rev = b.rev, !.digest = b.digest, !.since = @ + 1]
      /\ batches' = batches \cup {b} /\ UNCHANGED snap
  BY DEF Append, Live
<1>2. /\ doc.rev \in Nat /\ b.rev \in Nat /\ Revs \subseteq Nat
      /\ \A c \in batches : c.rev \in Nat /\ c.rev <= doc.rev
  BY DEF Inv, TypeOK, JournalInv, Batch, Revs
<1>3. doc'.rev = doc.rev + 1 /\ doc'.digest = b.digest /\ doc'.life = "live"
  BY <1>1 DEF Inv, TypeOK
<1>4. \A c \in batches : c.rev # b.rev
  BY <1>1, <1>2
<1>5. \A c, d \in batches' : c.rev = d.rev => c = d
  BY <1>1, <1>4 DEF DigestInv
<1>6. \A r \in Revs : 0 < r /\ r <= doc'.rev => \E c \in batches' : c.rev = r
  <2> SUFFICES ASSUME NEW r \in Revs, 0 < r, r <= doc'.rev
               PROVE  \E c \in batches' : c.rev = r
    OBVIOUS
  <2>1. CASE r = b.rev
    BY <1>1, <2>1
  <2>2. CASE r # b.rev
    <3>1. r <= doc.rev
      BY <1>1, <1>2, <1>3, <2>2
    <3> QED
      BY <1>1, <3>1 DEF DigestInv
  <2> QED
    BY <2>1, <2>2
<1>7. \A c \in batches' : c.rev = doc'.rev => c.digest = doc'.digest
  BY <1>1, <1>3, <1>4
<1>8. \A r \in Revs : snap'[r] # NoRow =>
        /\ r <= doc'.rev
        /\ \A c \in batches' : c.rev = r => c.digest = snap'[r].digest
  BY <1>1, <1>2, <1>3 DEF DigestInv
<1>9. doc'.rev # 0
  BY <1>2, <1>3
<1> QED
  BY <1>5, <1>6, <1>7, <1>8, <1>9 DEF DigestInv

\* What a request is held to: the digest of the batch, of the document, or of the
\* first snapshot.
LEMMA ExpectedDigest ==
    ASSUME Inv, DigestInv, doc.life # "purged", NEW o \in Objects, o.rev <= doc.rev,
           Expected(o.rev) \in {NoDigest, o.digest}
    PROVE  /\ \A c \in batches : c.rev = o.rev => c.digest = o.digest
           /\ doc.rev = 0 => doc.digest \in {NoDigest, o.digest}
<1>1. /\ o.rev \in Revs /\ o.rev \in Nat /\ doc.rev \in Revs /\ doc.rev \in Nat
      /\ Revs \subseteq Nat
      /\ \A c \in batches : c.rev \in Nat /\ c.rev # 0 /\ c.digest \in Digests
  BY DEF Inv, TypeOK, Objects, Batch, Revs
<1>2. CASE o.rev = doc.rev
  <2>1. Expected(o.rev) = doc.digest
    BY <1>2 DEF Expected
  <2> QED
    BY <1>1, <1>2, <2>1, DigestAssumption DEF DigestInv
<1>3. CASE o.rev # doc.rev /\ o.rev = 0
  BY <1>1, <1>3
<1>4. CASE o.rev # doc.rev /\ o.rev # 0
  <2>1. PICK c \in batches : c.rev = o.rev
    BY <1>1, <1>4 DEF DigestInv
  <2>2. \A d \in batches : d.rev = o.rev => d = c
    BY <2>1 DEF DigestInv
  <2>3. (CHOOSE d \in batches : d.rev = o.rev) = c
    BY <2>1, <2>2
  <2>4. Expected(o.rev) = c.digest
    BY <1>4, <2>3 DEF Expected
  <2> QED
    BY <1>1, <1>4, <2>1, <2>2, <2>4, DigestAssumption
<1> QED
  BY <1>2, <1>3, <1>4

\* The steps of save_snapshot keep the digests.
LEMMA DigestSave ==
    ASSUME Inv, DigestInv, NEW s \in Savers, Save(s)
    PROVE  DigestInv'
<1>0. 0 \in Revs /\ Revs \subseteq Nat /\ doc.rev \in Nat
  BY BoardBoundAssumption DEF Revs, Inv, TypeOK
<1>1. ASSUME NEW o \in Objects, Reserve(s, o) PROVE DigestInv'
  <2>1. /\ doc.life # "purged" /\ o.rev \in Revs /\ o.rev <= doc.rev
        /\ o.digest \in Digests /\ UNCHANGED <<doc, batches>>
    BY <1>1 DEF Reserve, Live, Objects
  <2>2. CASE UNCHANGED snap
    BY <2>1, <2>2, DigestStays
  <2>3. CASE snap[o.rev] = NoRow /\ snap' = Reserved(o, "uploading")
    <3>1. /\ snap'[o.rev].digest = o.digest /\ snap'[o.rev].status = "uploading"
          /\ snap'[o.rev] # NoRow
          /\ \A r \in Revs \ {o.rev} : snap'[r] = snap[r]
      BY <2>1, <2>3 DEF Reserved, Inv, TypeOK, NoRow
    <3>2. /\ \A c \in batches : c.rev = o.rev => c.digest = o.digest
          /\ doc.rev = 0 => doc.digest \in {NoDigest, o.digest}
      BY <1>1, <2>1, ExpectedDigest DEF Reserve
    <3>3. \A r \in Revs : snap'[r] # NoRow =>
            /\ r <= doc'.rev
            /\ \A c \in batches' : c.rev = r => c.digest = snap'[r].digest
      <4> SUFFICES ASSUME NEW r \in Revs, snap'[r] # NoRow
                   PROVE  /\ r <= doc.rev
                          /\ \A c \in batches : c.rev = r => c.digest = snap'[r].digest
        BY <2>1
      <4>1. CASE r = o.rev
        BY <2>1, <3>1, <3>2, <4>1
      <4>2. CASE r # o.rev
        BY <2>1, <3>1, <4>2 DEF DigestInv
      <4> QED
        BY <4>1, <4>2
    <3>4. ASSUME doc.rev = 0
          PROVE  /\ doc.digest # NoDigest => snap'[0] # NoRow /\ snap'[0].digest = doc.digest
                 /\ snap'[0].status = "available" => doc.digest = snap'[0].digest
      <4>1. o.rev = 0
        <5>1. o.rev \in Nat /\ o.rev <= 0
          BY <1>0, <2>1, <3>4
        <5> QED
          BY <5>1
      <4> QED
        BY <3>1, <3>2, <3>4, <4>1
    <3> QED
      BY <2>1, <3>3, <3>4 DEF DigestInv
  <2> QED
    BY <1>1, <2>2, <2>3 DEF Reserve
<1>2. ASSUME Put(s) \/ GivesUp(s) \/ PutDamaged(s) PROVE DigestInv'
  <2>1. saver[s] # Idle
    BY <1>2 DEF Put, GivesUp, PutDamaged, Idle
  <2>2. doc.life # "purged"
    BY <2>1, NotPurged DEF Inv
  <2>3. UNCHANGED <<doc, batches, snap>>
    BY <1>2 DEF Put, GivesUp, PutDamaged
  <2> QED
    BY <2>2, <2>3, DigestStays
<1>3. ASSUME QuarantineUpload(s) PROVE DigestInv'
  <2>1. saver[s] # Idle
    BY <1>3 DEF QuarantineUpload, Idle
  <2>2. /\ doc.life # "purged" /\ saver[s].object.rev \in Revs
        /\ snap[saver[s].object.rev] # NoRow
    BY <2>1, NotPurged, BusySaver DEF Inv, UploadInv, Kept
  <2>3. snap' = Marked({saver[s].object.rev}, "quarantined") /\ UNCHANGED <<doc, batches>>
    BY <1>3 DEF QuarantineUpload
  <2>4. {saver[s].object.rev} \in SUBSET Revs
    BY <2>2
  <2> QED
    BY <2>2, <2>3, <2>4, DigestMarked
<1>4. ASSUME Finish(s) PROVE DigestInv'
  <2> DEFINE r == saver[s].object.rev
  <2>1. saver[s] # Idle
    BY <1>4 DEF Finish, Idle
  <2>2. doc.life # "purged" /\ r \in Revs /\ snap[r] # NoRow /\ r <= doc.rev
    BY <2>1, NotPurged, BusySaver DEF Inv, UploadInv, Kept
  <2>3. snap' = Marked({r}, "available") /\ UNCHANGED batches
    BY <1>4 DEF Finish
  <2>4. doc'.rev = doc.rev /\ doc'.digest = Named(r)
    BY <1>4 DEF Finish, Inv, TypeOK
  <2> HIDE DEF r
  <2>5. {r} \in SUBSET Revs /\ \A q \in {r} : snap[q] # NoRow
    BY <2>2
  <2>6. /\ \A q \in Revs : snap[q] # NoRow => snap'[q] # NoRow /\ snap'[q].digest = snap[q].digest
        /\ \A q \in Revs \ {r} : snap'[q] = snap[q]
    <3>1. TypeOK /\ "available" \in SnapshotStatuses
      BY DEF Inv, SnapshotStatuses
    <3>2. \A q \in Revs : snap[q] # NoRow => snap'[q] # NoRow /\ snap'[q].digest = snap[q].digest
      BY <2>3, <2>5, <3>1, MarkedRows
    <3>3. \A q \in Revs \ {r} : snap'[q] = snap[q]
      BY <2>3, <2>5, <3>1, MarkedStatus
    <3> QED
      BY <3>2, <3>3
  <2>7. \A q \in Revs : snap'[q] # NoRow => snap[q] # NoRow
    BY <2>2, <2>6
  <2>8. CASE doc.rev # 0
    <3>1. doc'.digest = doc.digest
      BY <2>4, <2>8 DEF Named
    <3>2. doc'.rev # 0 /\ UNCHANGED batches
      BY <2>3, <2>4, <2>8
    <3>3. \A q \in Revs : snap'[q] # NoRow => snap[q] # NoRow /\ snap'[q].digest = snap[q].digest
      BY <2>6, <2>7
    <3> QED
      BY <2>2, <2>4, <3>1, <3>2, <3>3 DEF DigestInv
  <2>9. CASE doc.rev = 0
    <3>1. r = 0
      BY <1>0, <2>2, <2>9
    <3>2. Named(r) = snap[0].digest
      BY <2>2, <2>9, <3>1 DEF Named, DigestInv
    <3>3. \A c \in batches : c.rev # 0
      BY DEF Inv, TypeOK, Batch
    <3>4. doc'.rev = 0 /\ doc'.digest = snap[0].digest /\ snap[0] # NoRow
      BY <2>2, <2>4, <2>9, <3>1, <3>2
    <3>5. snap'[0] # NoRow /\ snap'[0].digest = doc'.digest
      BY <2>2, <2>6, <3>1, <3>4
    <3>6. \A q \in Revs : snap'[q] # NoRow => q = 0
      <4>1. \A q \in Revs : snap'[q] # NoRow => q <= 0
        BY <2>2, <2>7, <2>9 DEF DigestInv
      <4>2. \A q \in Revs : q \in Nat
        BY DEF Revs
      <4> QED
        BY <4>1, <4>2
    <3>7. \A c, d \in batches' : c.rev = d.rev => c = d
      BY <2>2, <2>3 DEF DigestInv
    <3> QED
      BY <1>0, <2>3, <3>3, <3>4, <3>5, <3>6, <3>7 DEF DigestInv
  <2> QED
    BY <2>8, <2>9
<1> QED
  BY <1>1, <1>2, <1>3, <1>4 DEF Save

\* Every step keeps the digests.
LEMMA NextDigest ==
    ASSUME Inv, DigestInv, [Next]_vars
    PROVE  DigestInv'
<1>1. ASSUME NEW base \in Revs, NEW b \in Batch, Append(base, b) PROVE DigestInv'
  BY <1>1, DigestAppend
<1>2. ASSUME NEW s \in Savers, Save(s) PROVE DigestInv'
  BY <1>2, DigestSave
<1>3. ASSUME UNCHANGED <<batches, snap>>, doc'.rev = doc.rev, doc'.digest = doc.digest,
             doc'.life # "purged" => doc.life # "purged"
      PROVE  DigestInv'
  BY <1>3, DigestStays DEF DigestInv
<1>4. ASSUME UNCHANGED <<doc, batches, snap>> PROVE DigestInv'
  BY <1>3, <1>4
<1>5. ASSUME NEW o \in store, Damage(o) PROVE DigestInv'
  BY <1>4, <1>5 DEF Damage
<1>6. ASSUME NEW revs \in SUBSET Revs, VerifyIntegrity(revs) PROVE DigestInv'
  <2>1. \A r \in revs : snap[r] # NoRow
    BY <1>6 DEF VerifyIntegrity, With, NoRow
  <2>2. doc.life # "purged"
    BY <1>6, <2>1 DEF VerifyIntegrity, Inv, UploadInv
  <2> QED
    BY <1>6, <2>1, <2>2, DigestMarked DEF VerifyIntegrity
<1>7. ASSUME NEW r \in Revs, ReadDamaged(r) \/ QuarantineRead(r) \/ FinalizeEvidence(r)
      PROVE  DigestInv'
  <2>1. CASE QuarantineRead(r)
    <3>1. /\ snap' = Marked({r}, "quarantined") /\ UNCHANGED <<doc, batches>>
          /\ {r} \in SUBSET Revs
      BY <2>1 DEF QuarantineRead
    <3>2. snap[r] # NoRow /\ doc.life # "purged"
      BY <2>1 DEF QuarantineRead, Inv, UploadInv
    <3> QED
      BY <3>1, <3>2, DigestMarked
  <2>2. CASE ReadDamaged(r) \/ FinalizeEvidence(r)
    BY <1>4, <2>2 DEF ReadDamaged, FinalizeEvidence
  <2> QED
    BY <1>7, <2>1, <2>2
<1>8. ASSUME Archive \/ Unarchive PROVE DigestInv'
  <2>1. PICK life \in {"live", "archived"} : doc' = [doc EXCEPT !.life = life]
    BY <1>8 DEF Archive, Unarchive, Becomes
  <2>2. doc.life # "purged" /\ UNCHANGED <<batches, snap>>
    BY <1>8 DEF Archive, Unarchive, Live
  <2> QED
    BY <1>3, <2>1, <2>2 DEF Inv, TypeOK
<1>9. ASSUME SoftDelete \/ Expire PROVE DigestInv'
  <2>1. PICK life \in {"deleted", "expired"} : doc' = [doc EXCEPT !.life = life]
    BY <1>9 DEF SoftDelete, Expire, Becomes
  <2>2. doc'.rev = doc.rev /\ doc'.digest = doc.digest
    BY <2>1 DEF Inv, TypeOK
  <2>3. doc.life # "purged" /\ UNCHANGED batches
    BY <1>9 DEF SoftDelete, Expire, Undeleted
  <2>4. PICK revs \in SUBSET {r \in Revs : snap[r] # NoRow} : snap' = Marked(revs, "deleted")
    BY <1>9 DEF SoftDelete, Expire
  <2> QED
    BY <2>2, <2>3, <2>4, DigestMarked
<1>10. ASSUME Purge PROVE DigestInv'
  BY <1>10 DEF Purge, DigestInv, Inv, TypeOK
<1>11. ASSUME UNCHANGED vars PROVE DigestInv'
  BY <1>4, <1>11 DEF vars
<1> QED
  BY <1>1, <1>2, <1>5, <1>6, <1>7, <1>8, <1>9, <1>10, <1>11 DEF Next

\* A step that keeps the rows, the objects and the uploads, or does away with some.
LEMMA StorageStays ==
    ASSUME Inv, StorageInv, snap' = snap, store \subseteq store', doc'.snapRev = doc.snapRev,
           Undeleted' => Undeleted, damage' = damage, doubts' = doubts,
           \A s \in Savers : saver'[s] \in {saver[s], Idle}
    PROVE  StorageInv'
<1> SUFFICES ASSUME damage = 0
             PROVE  /\ doubts' = {}
                    /\ \A s \in Savers :
                         /\ saver'[s].pc # "quarantine"
                         /\ saver'[s].pc = "finish" => saver'[s].object \in store'
                    /\ \A r \in With("available")' : Intact(r)'
                    /\ Undeleted' =>
                         /\ With("available")' = {} => doc'.snapRev = 0
                         /\ With("available")' # {} => doc'.snapRev \in With("available")'
                         /\ \A r \in With("available")' : r <= doc'.snapRev
  BY DEF StorageInv
<1>1. With("available")' = With("available")
  BY DEF With
<1>2. \A r \in Revs : Intact(r) => Intact(r)'
  BY DEF Intact, Object
<1>3. \A r \in With("available")' : Intact(r)'
  BY <1>1, <1>2 DEF StorageInv, With
<1>4. ASSUME NEW s \in Savers
      PROVE  /\ saver'[s].pc # "quarantine"
             /\ saver'[s].pc = "finish" => saver'[s].object \in store'
  <2>1. CASE saver'[s] = Idle
    BY <2>1 DEF Idle
  <2>2. CASE saver'[s] = saver[s]
    BY <2>2 DEF StorageInv
  <2> QED
    BY <2>1, <2>2
<1> QED
  BY <1>1, <1>3, <1>4 DEF StorageInv

\* The steps of save_snapshot keep the latest snapshot known and in place.
LEMMA StorageSave ==
    ASSUME Inv, StorageInv, NEW s \in Savers, Save(s)
    PROVE  StorageInv'
<1> SUFFICES ASSUME damage' = 0 PROVE StorageInv'
  BY DEF StorageInv
<1>0. /\ damage \in Nat /\ Revs \subseteq Nat /\ doc.snapRev \in Revs
      /\ saver \in [Savers -> {Idle} \cup
                       [pc : {"put", "finish", "quarantine"}, object : Objects]]
  BY BoardBoundAssumption DEF Inv, TypeOK, Revs
<1>1. ASSUME NEW o \in Objects, Reserve(s, o) PROVE StorageInv'
  <2>1. /\ o.rev \in Revs
        /\ saver' = [saver EXCEPT ![s] = [pc |-> "put", object |-> o]]
        /\ UNCHANGED <<doc, batches, store, doubts, evidence, damage>>
    BY <1>1 DEF Reserve, Objects
  <2>2. /\ \A u \in Savers \ {s} : saver'[u] = saver[u]
        /\ saver'[s].pc = "put"
    BY <1>0, <2>1
  <2>3. /\ With("available")' = With("available")
        /\ \A r \in With("available") : snap'[r] = snap[r]
    <3>1. CASE UNCHANGED snap
      BY <3>1 DEF With
    <3>2. CASE snap[o.rev] = NoRow /\ snap' = Reserved(o, "uploading")
      <4>1. /\ snap'[o.rev].status = "uploading"
            /\ \A r \in Revs \ {o.rev} : snap'[r] = snap[r]
        BY <2>1, <3>2 DEF Reserved, Inv, TypeOK
      <4>2. snap[o.rev].status # "available"
        BY <3>2 DEF NoRow
      <4> QED
        BY <4>1, <4>2 DEF With
    <3> QED
      BY <1>1, <3>1, <3>2 DEF Reserve
  <2>4. \A r \in With("available")' : Intact(r)'
    BY <2>1, <2>3 DEF StorageInv, Intact, Object
  <2>5. \A u \in Savers : /\ saver'[u].pc # "quarantine"
                          /\ saver'[u].pc = "finish" => saver'[u].object \in store'
    BY <2>1, <2>2 DEF StorageInv
  <2> QED
    BY <2>1, <2>3, <2>4, <2>5 DEF StorageInv, Undeleted
<1>2. ASSUME Put(s) PROVE StorageInv'
  <2>1. /\ saver[s] # Idle /\ store' = store \cup {saver[s].object}
        /\ saver' = [saver EXCEPT ![s] = [saver[s] EXCEPT !.pc = "finish"]]
        /\ UNCHANGED <<doc, batches, snap, doubts, evidence, damage>>
    BY <1>2 DEF Put, Idle
  <2>2. /\ saver'[s].pc = "finish" /\ saver'[s].object = saver[s].object
        /\ \A u \in Savers \ {s} : saver'[u] = saver[u]
    BY <1>0, <2>1
  <2>3. \A u \in Savers : /\ saver'[u].pc # "quarantine"
                          /\ saver'[u].pc = "finish" => saver'[u].object \in store'
    BY <2>1, <2>2 DEF StorageInv
  <2>4. /\ With("available")' = With("available")
        /\ \A r \in Revs : Intact(r) => Intact(r)'
    BY <2>1 DEF With, Intact, Object
  <2> QED
    BY <2>1, <2>3, <2>4 DEF StorageInv, Undeleted, With
<1>3. ASSUME GivesUp(s) PROVE StorageInv'
  <2>1. /\ store \subseteq store' /\ saver' = [saver EXCEPT ![s] = Idle]
        /\ UNCHANGED <<doc, batches, snap, doubts, evidence, damage>>
    BY <1>3 DEF GivesUp
  <2>2. \A u \in Savers : saver'[u] \in {saver[u], Idle}
    BY <1>0, <2>1
  <2> QED
    BY <2>1, <2>2, StorageStays DEF Undeleted
<1>4. ~PutDamaged(s)
  BY <1>0 DEF PutDamaged
<1>5. ~QuarantineUpload(s)
  BY DEF QuarantineUpload, StorageInv
<1>6. ASSUME Finish(s) PROVE StorageInv'
  <2> DEFINE made == saver[s].object.rev
  <2>1. saver[s] # Idle /\ saver[s].pc = "finish"
    BY <1>6 DEF Finish, Idle
  <2>2. /\ doc.life # "purged" /\ made \in Revs /\ snap[made] # NoRow /\ made <= doc.rev
        /\ Object(made) = saver[s].object
    BY <2>1, NotPurged, BusySaver DEF Inv, UploadInv, Kept
  <2>3. /\ snap' = Marked({made}, "available") /\ saver' = [saver EXCEPT ![s] = Idle]
        /\ UNCHANGED <<batches, store, doubts, evidence, damage>>
        /\ doc.life = "live"
    BY <1>6 DEF Finish, Live
  <2>4. /\ doc'.life = doc.life
        /\ doc'.snapRev = IF made >= doc.snapRev THEN made ELSE doc.snapRev
    BY <1>6 DEF Finish, Inv, TypeOK
  <2>5. damage = 0 /\ Intact(made)
    BY <2>1, <2>2, <2>3 DEF StorageInv, Intact
  <2>6. Undeleted
    BY <2>3 DEF Undeleted
  <2> HIDE DEF made
  <2>7. {made} \in SUBSET Revs /\ \A q \in {made} : snap[q] # NoRow
    BY <2>2
  <2>8. TypeOK /\ "available" \in SnapshotStatuses
    BY DEF Inv, SnapshotStatuses
  <2>9. /\ \A q \in {made} : snap'[q].status = "available"
        /\ \A q \in Revs \ {made} : snap'[q] = snap[q]
    BY <2>3, <2>7, <2>8, MarkedStatus
  <2>10. \A q \in Revs : snap[q] # NoRow =>
           snap'[q].digest = snap[q].digest /\ snap'[q].maker = snap[q].maker
    BY <2>3, <2>7, <2>8, MarkedRows
  <2>11. With("available")' = With("available") \cup {made}
    BY <2>2, <2>9 DEF With
  <2>12. \A q \in Revs : snap[q] # NoRow /\ Intact(q) => Intact(q)'
    BY <2>3, <2>10 DEF Intact, Object
  <2>13. \A q \in With("available") : snap[q] # NoRow /\ q \in Revs
    BY DEF With, NoRow
  <2>14. \A q \in With("available")' : Intact(q)'
    BY <2>2, <2>5, <2>11, <2>12, <2>13 DEF StorageInv
  <2>15. /\ made \in Nat /\ doc.snapRev \in Nat
         /\ \A q \in With("available") : q \in Nat
    BY <1>0, <2>2 DEF With
  <2>16. /\ doc'.snapRev \in With("available")'
         /\ \A q \in With("available")' : q <= doc'.snapRev
    <3>1. CASE made >= doc.snapRev
      BY <2>4, <2>5, <2>6, <2>11, <2>15, <3>1 DEF StorageInv
    <3>2. CASE ~(made >= doc.snapRev)
      <4>1. doc.snapRev # 0
        BY <2>15, <3>2
      <4>2. With("available") # {}
        BY <2>5, <2>6, <4>1 DEF StorageInv
      <4> QED
        BY <2>4, <2>5, <2>6, <2>11, <2>15, <3>2, <4>2 DEF StorageInv
    <3> QED
      BY <3>1, <3>2
  <2>17. \A u \in Savers : /\ saver'[u].pc # "quarantine"
                           /\ saver'[u].pc = "finish" => saver'[u].object \in store'
    <3>1. \A u \in Savers : saver'[u] \in {saver[u], Idle}
      BY <1>0, <2>3
    <3> QED
      BY <2>3, <2>5, <3>1 DEF StorageInv, Idle
  <2>18. doubts' = {}
    BY <2>3, <2>5 DEF StorageInv
  <2>19. With("available")' # {}
    BY <2>16
  <2>20. Undeleted' => /\ With("available")' = {} => doc'.snapRev = 0
                       /\ With("available")' # {} => doc'.snapRev \in With("available")'
                       /\ \A q \in With("available")' : q <= doc'.snapRev
    BY <2>16, <2>19
  <2> QED
    BY <2>14, <2>17, <2>18, <2>20 DEF StorageInv
<1> QED
  BY <1>1, <1>2, <1>3, <1>4, <1>5, <1>6 DEF Save

\* Every step does.
LEMMA NextStorage ==
    ASSUME Inv, StorageInv, [Next]_vars
    PROVE  StorageInv'
<1> SUFFICES ASSUME damage' = 0 PROVE StorageInv'
  BY DEF StorageInv
<1>0. damage \in Nat
  BY BoardBoundAssumption DEF Inv, TypeOK
<1>1. ASSUME NEW base \in Revs, NEW b \in Batch, Append(base, b) PROVE StorageInv'
  <2>1. /\ doc'.snapRev = doc.snapRev /\ doc'.life = doc.life
        /\ UNCHANGED <<snap, store, saver, doubts, evidence, damage>>
    BY <1>1 DEF Append, Inv, TypeOK
  <2> QED
    BY <2>1, StorageStays DEF Undeleted
<1>2. ASSUME NEW s \in Savers, Save(s) PROVE StorageInv'
  BY <1>2, StorageSave
<1>3. ASSUME NEW o \in store PROVE ~Damage(o)
  BY <1>0 DEF Damage
<1>4. ASSUME damage = 0, NEW r \in Revs, snap[r].status = "available" PROVE Intact(r)
  BY <1>4 DEF StorageInv, With
<1>5. ASSUME NEW revs \in SUBSET Revs PROVE ~VerifyIntegrity(revs)
  BY <1>4 DEF VerifyIntegrity, With
<1>6. ASSUME NEW r \in Revs, ReadDamaged(r) \/ QuarantineRead(r) \/ FinalizeEvidence(r)
      PROVE  StorageInv'
  <2>1. ~ReadDamaged(r)
    BY <1>4 DEF ReadDamaged
  <2>2. ~QuarantineRead(r)
    BY DEF QuarantineRead, StorageInv
  <2>3. CASE FinalizeEvidence(r)
    BY <2>3, StorageStays DEF FinalizeEvidence, Undeleted
  <2> QED
    BY <1>6, <2>1, <2>2, <2>3
<1>7. ASSUME Archive \/ Unarchive PROVE StorageInv'
  <2>1. PICK life \in {"live", "archived"} : doc' = [doc EXCEPT !.life = life]
    BY <1>7 DEF Archive, Unarchive, Becomes
  <2>2. Undeleted /\ UNCHANGED <<batches, snap, store, saver, doubts, evidence, damage>>
    BY <1>7 DEF Archive, Unarchive, Live, Undeleted
  <2>3. doc'.snapRev = doc.snapRev
    BY <2>1 DEF Inv, TypeOK
  <2> QED
    BY <2>2, <2>3, StorageStays
<1>8. ASSUME SoftDelete \/ Expire PROVE StorageInv'
  <2>1. PICK life \in {"deleted", "expired"} : doc' = [doc EXCEPT !.life = life]
    BY <1>8 DEF SoftDelete, Expire, Becomes
  <2>2. doc'.life \in {"deleted", "expired"}
    BY <2>1 DEF Inv, TypeOK
  <2>3. UNCHANGED <<batches, store, saver, doubts, evidence, damage>>
    BY <1>8 DEF SoftDelete, Expire
  <2>4. PICK revs \in SUBSET {r \in Revs : snap[r] # NoRow} : snap' = Marked(revs, "deleted")
    BY <1>8 DEF SoftDelete, Expire
  <2>5. TypeOK /\ "deleted" \in SnapshotStatuses
    BY DEF Inv, SnapshotStatuses
  <2>6. /\ \A r \in revs : snap'[r].status = "deleted"
        /\ \A r \in Revs \ revs : snap'[r] = snap[r]
    BY <2>4, <2>5, MarkedStatus
  <2>7. \A r \in With("available")' : r \in With("available") /\ snap'[r] = snap[r]
    BY <2>6 DEF With
  <2>8. \A r \in With("available")' : Intact(r)'
    BY <2>3, <2>7 DEF StorageInv, Intact, Object
  <2>9. ~Undeleted'
    BY <2>2 DEF Undeleted
  <2> QED
    BY <2>3, <2>8, <2>9 DEF StorageInv
<1>9. ASSUME Purge PROVE StorageInv'
  <2>1. /\ Busy = {} /\ doubts = {} /\ snap' = [r \in Revs |-> NoRow]
        /\ doc' = [doc EXCEPT !.life = "purged"] /\ UNCHANGED <<saver, doubts>>
    BY <1>9 DEF Purge
  <2>2. \A s \in Savers : saver'[s] = Idle
    BY <2>1 DEF Busy
  <2>3. With("available")' = {}
    BY <2>1 DEF With, NoRow
  <2>4. ~Undeleted'
    BY <2>1 DEF Undeleted, Inv, TypeOK
  <2> QED
    BY <2>1, <2>2, <2>3, <2>4 DEF StorageInv, Idle
<1>10. ASSUME UNCHANGED vars PROVE StorageInv'
  BY <1>10, StorageStays DEF vars, Undeleted
<1> QED
  BY <1>1, <1>2, <1>3, <1>5, <1>6, <1>7, <1>8, <1>9, <1>10 DEF Next

(* What recovery loads is right: an available snapshot has the digest the journal has
   for its revision, and unless the storage damaged one it is there and the document
   names the latest of them, in whatever order uploads finish (save_snapshot,
   recovery). *)
THEOREM SnapshotsStaySound == Spec => []SnapshotsSound
<1>1. Init => DigestInv /\ StorageInv
  <2> SUFFICES ASSUME Init PROVE DigestInv /\ StorageInv
    OBVIOUS
  <2>1. \A r \in Revs : snap[r] = NoRow
    BY DEF Init
  <2>2. DigestInv
    BY <2>1, BoardBoundAssumption DEF Init, DigestInv, NoRow, Revs
  <2>3. With("available") = {}
    BY <2>1 DEF With, NoRow
  <2>4. StorageInv
    BY <2>3 DEF Init, StorageInv, Idle
  <2> QED
    BY <2>2, <2>4
<1>2. Inv /\ DigestInv /\ StorageInv /\ [Next]_vars => (DigestInv /\ StorageInv)'
  BY NextDigest, NextStorage
<1>3. Inv /\ DigestInv /\ StorageInv => SnapshotsSound
  <2> SUFFICES ASSUME Inv, DigestInv, StorageInv PROVE SnapshotsSound
    OBVIOUS
  <2>1. ASSUME Undeleted, NEW r \in With("available")
        PROVE  /\ \A b \in batches : b.rev = r => snap[r].digest = b.digest
               /\ r = doc.rev => snap[r].digest = doc.digest
    <3>1. r \in Revs /\ snap[r] # NoRow /\ snap[r].status = "available" /\ doc.life # "purged"
      BY <2>1 DEF With, NoRow, Undeleted
    <3>2. \A b \in batches : b.rev = r => snap[r].digest = b.digest
      BY <3>1 DEF DigestInv
    <3>3. ASSUME r = doc.rev PROVE snap[r].digest = doc.digest
      <4>1. CASE r = 0
        BY <3>1, <3>3, <4>1 DEF DigestInv
      <4>2. CASE r # 0
        <5>1. r \in Nat /\ 0 < r /\ r <= doc.rev
          BY <3>1, <3>3, <4>2 DEF Revs
        <5>2. PICK b \in batches : b.rev = r
          BY <3>1, <5>1 DEF DigestInv
        <5> QED
          BY <3>1, <3>2, <3>3, <5>2 DEF DigestInv
      <4> QED
        BY <4>1, <4>2
    <3> QED
      BY <3>2, <3>3
  <2>2. SnapshotsMatch
    BY <2>1 DEF SnapshotsMatch
  <2>3. LatestSnapshotKnown /\ AvailableIsStored
    BY DEF LatestSnapshotKnown, AvailableIsStored, StorageInv
  <2> QED
    BY <2>2, <2>3 DEF SnapshotsSound
<1> QED
  BY <1>1, <1>2, <1>3, AlwaysInv, PTL DEF Spec
=============================================================================
