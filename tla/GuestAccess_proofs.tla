------------------------ MODULE GuestAccess_proofs ------------------------
(***************************************************************************)
(* What holds of guests, their requests, uploads and sockets for every set *)
(* of invitations, guests, requests, contents and sockets, and every bound *)
(* on versions, parts, active uploads and queues.  IInv is the inductive   *)
(* invariant of the uploads, LiveInv that of the sockets; they share what  *)
(* they say of the rows, cookies, contexts and requests.                   *)
(***************************************************************************)
EXTENDS CommandUpload, BoardSocket, FiniteSetTheorems, TLAPS

\* The records a request goes through.
Reading ==
    [pc : {"invitation"}, guest : Guests, ask : Asks, epoch : Epochs \cup {NoEpoch},
     punctual : BOOLEAN, row : InvitationRows]
Admitted ==
    [pc : Asks, guest : Guests, epoch : Epochs, punctual : BOOLEAN, write : BOOLEAN]
AtBody == [pc : {"body"}, guest : Guests, epoch : Epochs]
Inserting ==
    [pc : {"insert"}, guest : Guests, epoch : Epochs, id : UploadIds, content : Contents]
AtParts ==
    [pc : {"parts"}, guest : Guests, epoch : Epochs, id : UploadIds, row : UploadRows]
AtEnvelope ==
    [pc : {"envelope"}, guest : Guests, epoch : Epochs, row : UploadRows,
     content : Contents]
Asking == Reading \cup Admitted \cup AtBody \cup Inserting \cup AtParts \cup AtEnvelope

\* Rows and requests have their fields; a new secret comes with a new credential
\* and a new credential with a new access version.
AccessTyped ==
    /\ board \in BoardRows
    /\ inv \in [Invitations -> {NoInvitation} \cup InvitationRows]
    /\ cookie \in [Guests -> {NoCookie} \cup
                    [inv : Invitations, cred : Versions, secret : Versions]]
    /\ ctx \in [Guests -> {NoContext} \cup Contexts]
    /\ req \in [Requests -> {Idle} \cup Asking]
    /\ \A i \in Invitations : Exists(i) =>
          inv[i].secret <= inv[i].cred /\ inv[i].cred <= inv[i].access

\* A cookie is of an invitation that is there, and of its credential or an older one.
CookieInv ==
    \A g \in Guests : cookie[g] # NoCookie =>
        LET row == inv[cookie[g].inv] IN
        /\ row # NoInvitation
        /\ cookie[g].cred <= row.cred
        /\ cookie[g].cred = row.cred => cookie[g].secret = row.secret /\ ~row.revoked

\* An epoch handed out for an invitation is no newer than the rows.
Past(i, epoch) ==
    /\ epoch[1] <= board.access /\ epoch[2] = i
    /\ epoch[3] <= inv[i].access

\* As long as it is the current one it stands for these rights.
Fixes(i, epoch, write) ==
    /\ Past(i, epoch)
    /\ epoch = Current(i) /\ Usable(inv[i], board)
         => write = EffectiveWrite(inv[i], board)

ContextInv ==
    \A g \in Guests : ctx[g] # NoContext =>
        cookie[g] # NoCookie /\ Fixes(cookie[g].inv, ctx[g].epoch, ctx[g].write)

\* The row a request has read is the invitation as it is or an older version of it.
ReadInv(i, row) ==
    /\ row.access <= inv[i].access
    /\ row.access = inv[i].access =>
          row.write = inv[i].write /\ row.revoked = inv[i].revoked /\ row.cred = inv[i].cred

\* An epoch that was not current on arrival differs from what was read of the
\* invitation or is of an older board.
SentInv(r) ==
    \/ r.punctual \/ r.epoch[1] < board.access
    \/ r.epoch[3] # r.row.access \/ r.epoch[4] # r.row.cred

Holds(r) ==
    LET i == cookie[r.guest].inv IN
    /\ r # Idle => cookie[r.guest] # NoCookie
    /\ r.pc = "invitation" => ReadInv(i, r.row)
    /\ r.pc = "invitation" /\ r.ask = "mutation" =>
          r.epoch \in Epochs /\ Past(i, r.epoch) /\ SentInv(r)
    /\ r.pc \in Asks => Fixes(i, r.epoch, r.write)
    /\ r.pc = "mutation" => r.write /\ r.punctual
    /\ r.pc = "body" => Fixes(i, r.epoch, TRUE)
    /\ r.pc \in {"parts", "envelope"} => r.row.guest = r.guest /\ r.row.epoch = r.epoch
    /\ r.pc = "envelope" => r.content = r.row.content

AccessInv == CookieInv /\ ContextInv /\ \A q \in Requests : Holds(req[q])

\* Those about to insert an upload of a guest.
Inserters(g) == {q \in Requests : req[q].pc = "insert" /\ req[q].guest = g}

\* Whoever inserts has counted at a time when there was room.
QuotaInv ==
    \A g \in Guests :
        Cardinality(Active(g)) + Cardinality(Inserters(g)) < MaxActive + Cardinality(Requests)

Typed == AccessTyped /\ upload \in [UploadIds -> {NoUpload} \cup UploadRows]

IInv == Typed /\ AccessInv /\ QuotaInv

-----------------------------------------------------------------------------
(* Types                                                                   *)

\* Where a request stands says which record it is.
LEMMA Known ==
    ASSUME AccessTyped, NEW q \in Requests
    PROVE  /\ req[q].pc = "invitation" => req[q] \in Reading
           /\ req[q].pc \in Asks => req[q] \in Admitted
           /\ req[q].pc = "body" => req[q] \in AtBody
           /\ req[q].pc = "insert" => req[q] \in Inserting
           /\ req[q].pc = "parts" => req[q] \in AtParts
           /\ req[q].pc = "envelope" => req[q] \in AtEnvelope
           /\ req[q] # Idle => req[q].pc # "idle" /\ req[q].guest \in Guests
<1> USE AskAssumption DEF Asking, Reading, Admitted, AtBody, Inserting, AtParts,
        AtEnvelope, Idle
<1>1. req[q] \in {Idle} \cup Asking
  BY DEF AccessTyped
<1> QED
  BY <1>1

\* An epoch is four numbers and a name, and is not the missing one.
LEMMA EpochKnown ==
    ASSUME NEW e \in Epochs
    PROVE  /\ e = <<e[1], e[2], e[3], e[4]>>
           /\ e[1] \in 1..MaxBoardAccess /\ e[2] \in Invitations
           /\ e[3] \in Versions /\ e[4] \in Versions
           /\ e # NoEpoch
BY DEF Epochs, NoEpoch

\* An invitation that is there, and the cookie of one, have their fields.
LEMMA RowKnown ==
    ASSUME AccessTyped
    PROVE  /\ \A i \in Invitations : Exists(i) => inv[i] \in InvitationRows
           /\ \A g \in Guests : cookie[g] # NoCookie =>
                cookie[g] \in [inv : Invitations, cred : Versions, secret : Versions]
           /\ \A g \in Guests : ctx[g] # NoContext => ctx[g] \in Contexts
           /\ \A i \in Invitations : Exists(i) => Current(i) \in Epochs
BY DEF AccessTyped, Exists, Current, Epoch, Epochs, InvitationRows, BoardRows

\* The new request of one of them, with the others as they were.
LEMMA TypedRequests ==
    ASSUME AccessTyped, NEW q \in Requests, NEW r \in {Idle} \cup Asking,
           req' = [req EXCEPT ![q] = r]
    PROVE  req' \in [Requests -> {Idle} \cup Asking]
BY DEF AccessTyped

-----------------------------------------------------------------------------
(* What the teacher does to the rights                                     *)

\* Whatever changes the rights of an invitation raises a version, or ends its use
\* until a version is raised.
RightsKept(i) ==
    /\ Exists(i)'
    /\ inv[i].access <= inv'[i].access /\ inv[i].cred <= inv'[i].cred
    /\ inv[i].cred = inv'[i].cred =>
          inv'[i].secret = inv[i].secret /\ (inv'[i].revoked => inv[i].revoked)
    /\ inv'[i].access = inv[i].access =>
        /\ inv'[i].write = inv[i].write /\ inv'[i].revoked = inv[i].revoked
        /\ inv'[i].cred = inv[i].cred
        /\ board'.access = board.access /\ Usable(inv[i], board)'
             => /\ Usable(inv[i], board)
                /\ EffectiveWrite(inv[i], board)' = EffectiveWrite(inv[i], board)

\* A step of the teacher.
RightsStep ==
    /\ UNCHANGED <<cookie, ctx, req>>
    /\ board.access <= board'.access
    /\ \A i \in Invitations : Exists(i) => RightsKept(i)

\* An invitation that is left alone keeps its rights.
LEMMA SameRights ==
    ASSUME NEW i \in Invitations, inv[i] \in InvitationRows, Exists(i), inv'[i] = inv[i],
           board' = board \/ (board'.access = board.access => board'.life = "deleted")
    PROVE  RightsKept(i)
BY DEF RightsKept, Usable, EffectiveWrite, Exists, InvitationRows, Versions

\* What every step of the teacher leaves typed.
TypedRights ==
    /\ board' \in BoardRows
    /\ inv' \in [Invitations -> {NoInvitation} \cup InvitationRows]
    /\ \A i \in Invitations : Exists(i)' =>
          inv'[i].secret <= inv'[i].cred /\ inv'[i].cred <= inv'[i].access

\* The fields of an invitation after each of its updates.
LEMMA Renewals ==
    ASSUME NEW r \in InvitationRows
    PROVE  LET rows == [write : BOOLEAN, expired : BOOLEAN, revoked : BOOLEAN,
                        cred : Nat, access : Versions, secret : Nat]
               a == [r EXCEPT !.write = ~@]
               b == [r EXCEPT !.expired = FALSE]
               c == [r EXCEPT !.revoked = TRUE, !.cred = @ + 1]
               d == [r EXCEPT !.revoked = FALSE, !.cred = @ + 1, !.secret = @ + 1]
           IN  /\ a \in rows /\ b \in rows /\ c \in rows /\ d \in rows
               /\ \A x \in {a, b, c, d} : x.access = r.access
               /\ \A x \in {a, b} : /\ x.cred = r.cred /\ x.secret = r.secret
                                    /\ x.revoked = r.revoked
               /\ c.cred = r.cred + 1 /\ c.secret = r.secret
               /\ d.cred = r.cred + 1 /\ d.secret = r.secret + 1
<1>1. /\ r.write \in BOOLEAN /\ r.expired \in BOOLEAN /\ r.revoked \in BOOLEAN
      /\ r.cred \in Nat /\ r.access \in Versions /\ r.secret \in Nat
      /\ r.cred + 1 \in Nat /\ r.secret + 1 \in Nat
  BY AccessBoundAssumption DEF InvitationRows, Versions
<1>2. r = [write |-> r.write, expired |-> r.expired, revoked |-> r.revoked,
           cred |-> r.cred, access |-> r.access, secret |-> r.secret]
  BY DEF InvitationRows
<1> QED
  BY <1>1, <1>2

\* The update of one invitation.
LEMMA OneInvitation ==
    ASSUME AccessTyped, NEW i \in Invitations, NEW STATE row, Renew(i, row),
           inv[i] \in InvitationRows /\ inv[i].access < MaxAccess =>
             /\ row \in [write : BOOLEAN, expired : BOOLEAN, revoked : BOOLEAN,
                         cred : Nat, access : Versions, secret : Nat]
             /\ row.access = inv[i].access
             /\ \/ /\ row.cred = inv[i].cred /\ row.secret = inv[i].secret
                   /\ row.revoked = inv[i].revoked
                \/ /\ row.cred = inv[i].cred + 1
                   /\ row.secret \in {inv[i].secret, inv[i].secret + 1}
    PROVE  RightsStep /\ TypedRights
<1> USE AccessBoundAssumption
<1>1. /\ inv[i] \in InvitationRows /\ Exists(i) /\ inv[i].access < MaxAccess
      /\ inv[i].secret <= inv[i].cred /\ inv[i].cred <= inv[i].access
  BY RowKnown DEF Renew, Locked, AccessTyped
<1>2. inv' = [inv EXCEPT ![i] = Raised(row)] /\ UNCHANGED <<board, cookie, ctx, req>>
  BY DEF Renew
<1>3. /\ Raised(row).access = inv[i].access + 1
      /\ Raised(row).cred = row.cred /\ Raised(row).secret = row.secret
      /\ Raised(row).revoked = row.revoked
      /\ Raised(row).write \in BOOLEAN /\ Raised(row).expired \in BOOLEAN
  BY <1>1 DEF Raised
<1>4. Raised(row) \in InvitationRows
  BY <1>1, <1>3 DEF Raised, InvitationRows, Versions
<1>5. /\ Raised(row).secret <= Raised(row).cred /\ Raised(row).cred <= Raised(row).access
      /\ inv[i].cred <= Raised(row).cred
      /\ inv[i].cred = Raised(row).cred =>
            Raised(row).secret = inv[i].secret /\ Raised(row).revoked = inv[i].revoked
  BY <1>1, <1>3 DEF InvitationRows, Versions
<1>6. \A j \in Invitations \ {i} : inv'[j] = inv[j]
  BY <1>2 DEF AccessTyped
<1>7. inv'[i] = Raised(row) /\ Exists(i)'
  <2>1. inv'[i] = Raised(row)
    BY <1>2 DEF AccessTyped
  <2> QED
    BY <1>4, <2>1 DEF Exists, InvitationRows, NoInvitation
<1>8. inv' \in [Invitations -> {NoInvitation} \cup InvitationRows]
  BY <1>2, <1>4 DEF AccessTyped
<1>9. \A j \in Invitations : Exists(j) => inv[j] \in InvitationRows
  BY RowKnown
<1>10. TypedRights
  BY <1>2, <1>5, <1>6, <1>7, <1>8 DEF TypedRights, AccessTyped, Exists
<1>11. board.access <= board'.access
  BY <1>2 DEF AccessTyped, BoardRows
<1>12. ASSUME NEW j \in Invitations \ {i}, Exists(j)
       PROVE  /\ Exists(j)' /\ inv'[j] = inv[j]
              /\ inv[j].access <= inv'[j].access /\ inv[j].cred <= inv'[j].cred
  BY <1>6, <1>9, <1>12 DEF Exists, InvitationRows, Versions
<1>13. inv[i].access <= inv'[i].access /\ inv'[i].access # inv[i].access
  BY <1>1, <1>3, <1>7 DEF InvitationRows, Versions
<1> QED
  <2>1. RightsKept(i)
    BY <1>5, <1>7, <1>13 DEF RightsKept
  <2>2. \A j \in Invitations \ {i} : Exists(j) => RightsKept(j)
    BY <1>2, <1>9, <1>12, SameRights
  <2> QED
    BY <1>2, <1>10, <1>11, <2>1, <2>2 DEF RightsStep

\* The update of the board.
LEMMA BoardChanges ==
    ASSUME AccessTyped, board' \in BoardRows, board.access <= board'.access,
           UNCHANGED <<inv, cookie, ctx, req>>,
           board'.access = board.access => board'.life = "deleted"
    PROVE  RightsStep /\ TypedRights
<1>1. \A i \in Invitations : Exists(i) => inv[i] \in InvitationRows
  BY RowKnown
<1>2. TypedRights
  BY DEF TypedRights, AccessTyped, Exists
<1> QED
  BY <1>1, <1>2, SameRights DEF RightsStep

\* Every action of the teacher, and of time, is such a step.
LEMMA TeacherSteps ==
    ASSUME AccessTyped, Teacher
    PROVE  RightsStep /\ TypedRights
<1> USE AccessBoundAssumption
<1>1. ASSUME NEW i \in Invitations, NEW write \in BOOLEAN, CreateInvitation(i, write)
      PROVE  RightsStep /\ TypedRights
  <2>1. /\ \A j \in Invitations \ {i} : inv'[j] = inv[j]
        /\ inv'[i] = [write |-> write, expired |-> FALSE, revoked |-> FALSE,
                      cred |-> 1, access |-> 1, secret |-> 1]
        /\ inv'[i] \in InvitationRows
    BY <1>1 DEF CreateInvitation, AccessTyped, InvitationRows, Versions
  <2>2. inv' \in [Invitations -> {NoInvitation} \cup InvitationRows]
    BY <1>1, <2>1 DEF CreateInvitation, AccessTyped
  <2>3. TypedRights
    BY <1>1, <2>1, <2>2 DEF TypedRights, CreateInvitation, AccessTyped, Exists
  <2>4. ASSUME NEW j \in Invitations, Exists(j)
        PROVE  inv'[j] = inv[j] /\ inv[j] \in InvitationRows /\ Exists(j)'
    BY <1>1, <2>1, <2>4, RowKnown DEF CreateInvitation, Exists
  <2> QED
    <3>1. \A j \in Invitations : Exists(j) => RightsKept(j)
      BY <1>1, <2>4, SameRights DEF CreateInvitation
    <3> QED
      BY <1>1, <2>3, <3>1 DEF RightsStep, CreateInvitation, AccessTyped, BoardRows
<1>2. ASSUME NEW i \in Invitations, SwitchWrites(i)
      PROVE  RightsStep /\ TypedRights
  <2> DEFINE row == [inv[i] EXCEPT !.write = ~@]
  <2>1. ASSUME inv[i] \in InvitationRows
        PROVE  /\ row \in [write : BOOLEAN, expired : BOOLEAN, revoked : BOOLEAN,
                           cred : Nat, access : Versions, secret : Nat]
               /\ row.access = inv[i].access
               /\ row.cred = inv[i].cred
               /\ row.secret = inv[i].secret
               /\ row.revoked = inv[i].revoked
    BY <2>1, Renewals
  <2>2. Renew(i, row)
    BY <1>2 DEF SwitchWrites
  <2> HIDE DEF row
  <2> QED
    BY <2>1, <2>2, OneInvitation
<1>3. ASSUME NEW i \in Invitations, SetExpiry(i)
      PROVE  RightsStep /\ TypedRights
  <2> DEFINE row == [inv[i] EXCEPT !.expired = FALSE]
  <2>1. ASSUME inv[i] \in InvitationRows
        PROVE  /\ row \in [write : BOOLEAN, expired : BOOLEAN, revoked : BOOLEAN,
                           cred : Nat, access : Versions, secret : Nat]
               /\ row.access = inv[i].access
               /\ row.cred = inv[i].cred
               /\ row.secret = inv[i].secret
               /\ row.revoked = inv[i].revoked
    BY <2>1, Renewals
  <2>2. Renew(i, row)
    BY <1>3 DEF SetExpiry
  <2> HIDE DEF row
  <2> QED
    BY <2>1, <2>2, OneInvitation
<1>4. ASSUME NEW i \in Invitations, Elapse(i)
      PROVE  RightsStep /\ TypedRights
  <2>1. inv[i] \in InvitationRows /\ Exists(i)
    BY <1>4, RowKnown DEF Elapse
  <2>2. /\ \A j \in Invitations \ {i} : inv'[j] = inv[j]
        /\ inv'[i] = [inv[i] EXCEPT !.expired = TRUE] /\ inv'[i] \in InvitationRows
    BY <1>4, <2>1 DEF Elapse, AccessTyped, InvitationRows
  <2>3. /\ inv'[i].access = inv[i].access /\ inv'[i].cred = inv[i].cred
        /\ inv'[i].secret = inv[i].secret /\ inv'[i].write = inv[i].write
        /\ inv'[i].revoked = inv[i].revoked /\ inv'[i].expired
    BY <2>1, <2>2 DEF InvitationRows
  <2>4. Exists(i)'
    BY <2>2 DEF Exists, InvitationRows, NoInvitation
  <2>5. inv' \in [Invitations -> {NoInvitation} \cup InvitationRows]
    BY <1>4, <2>2 DEF Elapse, AccessTyped
  <2>6. TypedRights
    BY <1>4, <2>1, <2>2, <2>3, <2>5 DEF TypedRights, Elapse, AccessTyped, Exists
  <2>7. ASSUME NEW j \in Invitations \ {i}, Exists(j)
        PROVE  inv'[j] = inv[j] /\ inv[j] \in InvitationRows /\ Exists(j)'
    BY <2>2, <2>7, RowKnown DEF Exists
  <2> QED
    <3>1. RightsKept(i)
      BY <1>4, <2>1, <2>3, <2>4 DEF RightsKept, Elapse, Usable, InvitationRows, Versions
    <3>2. \A j \in Invitations \ {i} : Exists(j) => RightsKept(j)
      BY <1>4, <2>7, SameRights DEF Elapse
    <3> QED
      BY <1>4, <2>6, <3>1, <3>2 DEF RightsStep, Elapse, AccessTyped, BoardRows
<1>5. ASSUME NEW i \in Invitations, Revoke(i)
      PROVE  RightsStep /\ TypedRights
  <2> DEFINE row == [inv[i] EXCEPT !.revoked = TRUE, !.cred = @ + 1]
  <2>1. ASSUME inv[i] \in InvitationRows
        PROVE  /\ row \in [write : BOOLEAN, expired : BOOLEAN, revoked : BOOLEAN,
                           cred : Nat, access : Versions, secret : Nat]
               /\ row.access = inv[i].access
               /\ row.cred = inv[i].cred + 1
               /\ row.secret = inv[i].secret
    BY <2>1, Renewals
  <2>2. Renew(i, row)
    BY <1>5 DEF Revoke
  <2> HIDE DEF row
  <2> QED
    BY <2>1, <2>2, OneInvitation
<1>6. ASSUME NEW i \in Invitations, Rotate(i)
      PROVE  RightsStep /\ TypedRights
  <2> DEFINE row == [inv[i] EXCEPT !.revoked = FALSE, !.cred = @ + 1, !.secret = @ + 1]
  <2>1. ASSUME inv[i] \in InvitationRows
        PROVE  /\ row \in [write : BOOLEAN, expired : BOOLEAN, revoked : BOOLEAN,
                           cred : Nat, access : Versions, secret : Nat]
               /\ row.access = inv[i].access
               /\ row.cred = inv[i].cred + 1
               /\ row.secret = inv[i].secret + 1
    BY <2>1, Renewals
  <2>2. Renew(i, row)
    BY <1>6 DEF Rotate
  <2> HIDE DEF row
  <2> QED
    BY <2>1, <2>2, OneInvitation
<1>7. ASSUME SetGuestWrites \/ Archive \/ Unarchive \/ Delete \/ Expire
      PROVE  RightsStep /\ TypedRights
  <2>1. /\ board' \in BoardRows /\ board.access <= board'.access
        /\ UNCHANGED <<inv, cookie, ctx, req>>
        /\ board'.access = board.access => board'.life = "deleted"
    <3>1. /\ board.access \in 1..MaxBoardAccess
          /\ [board EXCEPT !.writes = ~@] \in BoardRows
          /\ \A life \in {"live", "archived", "deleted"} :
                [board EXCEPT !.life = life] \in BoardRows
      BY DEF AccessTyped, BoardRows
    <3>2. CASE Expire
      BY <3>1, <3>2 DEF Expire, AccessTyped, BoardRows
    <3>3. ASSUME NEW STATE row, row \in BoardRows, row.access = board.access, BoardBecomes(row)
          PROVE  /\ board' \in BoardRows /\ board'.access = board.access + 1
                 /\ UNCHANGED <<inv, cookie, ctx, req>>
      BY <3>1, <3>3 DEF BoardBecomes, BoardRows
    <3>4. CASE SetGuestWrites
      <4> DEFINE row == [board EXCEPT !.writes = ~@]
      <4>1. row \in BoardRows /\ row.access = board.access
        BY <3>1 DEF AccessTyped, BoardRows
      <4>2. BoardBecomes(row)
        BY <3>4 DEF SetGuestWrites
      <4> HIDE DEF row
      <4> QED
        BY <3>1, <3>3, <4>1, <4>2
    <3>5. ASSUME NEW life \in {"live", "archived", "deleted"},
                 BoardBecomes([board EXCEPT !.life = life])
          PROVE  /\ board' \in BoardRows /\ board'.access = board.access + 1
                 /\ UNCHANGED <<inv, cookie, ctx, req>>
      <4> DEFINE row == [board EXCEPT !.life = life]
      <4>1. row \in BoardRows /\ row.access = board.access
        BY <3>1 DEF AccessTyped, BoardRows
      <4>2. BoardBecomes(row)
        BY <3>5
      <4> HIDE DEF row
      <4> QED
        BY <3>3, <4>1, <4>2
    <3>6. CASE Archive
      BY <3>1, <3>5, <3>6 DEF Archive
    <3>7. CASE Unarchive
      BY <3>1, <3>5, <3>7 DEF Unarchive
    <3>8. CASE Delete
      BY <3>1, <3>5, <3>8 DEF Delete
    <3> QED
      BY <1>7, <3>2, <3>4, <3>6, <3>7, <3>8
  <2> QED
    BY <2>1, BoardChanges
<1> QED
  BY <1>1, <1>2, <1>3, <1>4, <1>5, <1>6, <1>7 DEF Teacher

-----------------------------------------------------------------------------
(* The invariant under the teacher's steps                                 *)

\* What an epoch stands for survives what the teacher does.
LEMMA FixesKept ==
    ASSUME AccessTyped, RightsStep, TypedRights, NEW i \in Invitations, Exists(i),
           NEW e \in Epochs, NEW write \in BOOLEAN, Fixes(i, e, write)
    PROVE  Fixes(i, e, write)'
<1> DEFINE row == inv[i]
           row1 == inv'[i]
<1>1. /\ row \in InvitationRows /\ row1 \in InvitationRows /\ RightsKept(i)
      /\ board.access \in Int /\ board'.access \in Int /\ board.access <= board'.access
  BY AccessBoundAssumption, RowKnown
     DEF RightsStep, RightsKept, TypedRights, Exists, AccessTyped, BoardRows
<1>2. row.access \in Int /\ row1.access \in Int /\ row.access <= row1.access
  BY <1>1, AccessBoundAssumption DEF InvitationRows, Versions, RightsKept
<1>3. e[1] \in Int /\ e[3] \in Int /\ e = <<e[1], e[2], e[3], e[4]>>
  BY EpochKnown, AccessBoundAssumption DEF Versions
<1>4. e[1] <= board.access /\ e[2] = i /\ e[3] <= row.access
  BY DEF Fixes, Past
<1>5. Past(i, e)'
  BY <1>1, <1>2, <1>3, <1>4 DEF Past
<1>6. ASSUME e = Current(i)', Usable(inv[i], board)'
      PROVE  write = EffectiveWrite(inv[i], board)'
  <2>1. e[1] = board'.access /\ e[3] = row1.access /\ e[4] = row1.cred
    BY <1>6 DEF Current, Epoch
  <2>2. board'.access = board.access /\ row1.access = row.access
    BY <1>1, <1>2, <1>3, <1>4, <2>1
  <2>3. row1.cred = row.cred /\ Usable(inv[i], board)
          /\ EffectiveWrite(inv[i], board)' = EffectiveWrite(inv[i], board)
    BY <1>1, <1>6, <2>2 DEF RightsKept
  <2>4. e = Current(i)
    BY <1>3, <1>4, <2>1, <2>2, <2>3 DEF Current, Epoch
  <2> QED
    BY <2>3, <2>4 DEF Fixes
<1> QED
  BY <1>5, <1>6 DEF Fixes

\* The versions of the rows are numbers that only rise.
LEMMA VersionsRise ==
    ASSUME AccessTyped, RightsStep, TypedRights, NEW i \in Invitations, Exists(i)
    PROVE  /\ inv[i].access \in Int /\ inv'[i].access \in Int
           /\ inv[i].access <= inv'[i].access
           /\ board.access \in Int /\ board'.access \in Int
           /\ board.access <= board'.access
<1>1. RightsKept(i)
  BY DEF RightsStep
<1>2. inv[i] \in InvitationRows /\ inv'[i] \in InvitationRows
  BY <1>1, RowKnown DEF RightsKept, TypedRights, Exists
<1>3. inv[i].access \in Int /\ inv'[i].access \in Int
  BY <1>2, AccessBoundAssumption DEF InvitationRows, Versions
<1>4. board.access \in Int /\ board'.access \in Int
  BY AccessBoundAssumption DEF AccessTyped, TypedRights, BoardRows
<1>5. inv[i].access <= inv'[i].access /\ board.access <= board'.access
  BY <1>1 DEF RightsKept, RightsStep
<1> QED
  BY <1>3, <1>4, <1>5

\* What was read of an invitation stays what it is or was before.
LEMMA ReadKept ==
    ASSUME AccessTyped, RightsStep, TypedRights, NEW i \in Invitations, Exists(i),
           NEW row, row.access \in Int, ReadInv(i, row)
    PROVE  ReadInv(i, row)'
<1>1. /\ row.access <= inv[i].access
      /\ row.access = inv[i].access =>
            /\ row.write = inv[i].write /\ row.revoked = inv[i].revoked
            /\ row.cred = inv[i].cred
  BY DEF ReadInv
<1>2. inv'[i].access = inv[i].access =>
         /\ inv'[i].write = inv[i].write /\ inv'[i].revoked = inv[i].revoked
         /\ inv'[i].cred = inv[i].cred
  BY DEF RightsStep, RightsKept
<1>3. row.access <= inv'[i].access
  BY <1>1, VersionsRise
<1>4. row.access = inv'[i].access => row.access = inv[i].access
  BY <1>1, VersionsRise
<1> QED
  BY <1>1, <1>2, <1>3, <1>4 DEF ReadInv

\* An epoch handed out stays of the past.
LEMMA PastKept ==
    ASSUME AccessTyped, RightsStep, TypedRights, NEW i \in Invitations, Exists(i),
           NEW e \in Epochs, Past(i, e)
    PROVE  Past(i, e)'
<1>1. e[1] \in Int /\ e[3] \in Int
  BY EpochKnown, AccessBoundAssumption DEF Versions
<1> QED
  BY <1>1, VersionsRise DEF Past

\* What was wrong with an epoch that was out of date stays wrong.
LEMMA SentKept ==
    ASSUME AccessTyped, RightsStep, TypedRights, NEW i \in Invitations, Exists(i),
           NEW r, r.epoch \in Epochs, Past(i, r.epoch), SentInv(r)
    PROVE  SentInv(r)'
<1>1. r.epoch[1] \in Int
  BY EpochKnown, AccessBoundAssumption
<1>2. r.epoch[1] < board.access => r.epoch[1] < board'.access
  BY <1>1, VersionsRise
<1> QED
  BY <1>2 DEF SentInv

\* A cookie is of an invitation that is there.
LEMMA CookieOpens ==
    ASSUME AccessTyped, CookieInv, NEW g \in Guests, cookie[g] # NoCookie
    PROVE  /\ cookie[g].inv \in Invitations /\ Exists(cookie[g].inv)
           /\ cookie[g].cred \in Versions
           /\ inv[cookie[g].inv] \in InvitationRows
BY RowKnown DEF CookieInv, Exists

\* The steps of the teacher preserve what holds of cookies, contexts and requests.
LEMMA TeacherKeeps ==
    ASSUME AccessTyped, AccessInv, RightsStep, TypedRights
    PROVE  AccessInv'
<1>1. UNCHANGED <<cookie, ctx, req>>
  BY DEF RightsStep
<1>2. CookieInv'
  <2> SUFFICES ASSUME NEW g \in Guests, cookie[g] # NoCookie
      PROVE  LET row == inv'[cookie[g].inv] IN
             /\ row # NoInvitation
             /\ cookie[g].cred <= row.cred
             /\ cookie[g].cred = row.cred => cookie[g].secret = row.secret /\ ~row.revoked
    BY <1>1 DEF CookieInv
  <2> DEFINE i == cookie[g].inv
  <2>1. i \in Invitations /\ Exists(i) /\ RightsKept(i)
    BY CookieOpens DEF AccessInv, RightsStep
  <2>2. inv[i] \in InvitationRows /\ inv'[i] \in InvitationRows /\ inv'[i] # NoInvitation
    <3>1. Exists(i)'
      BY <2>1 DEF RightsKept
    <3>2. inv'[i] # NoInvitation
      BY <1>1, <3>1 DEF Exists
    <3>3. inv'[i] \in {NoInvitation} \cup InvitationRows
      BY <2>1 DEF TypedRights
    <3> QED
      BY <2>1, <3>2, <3>3, RowKnown
  <2>3. /\ inv[i].cred \in Int /\ inv'[i].cred \in Int /\ cookie[g].cred \in Int
        /\ inv[i].cred <= inv'[i].cred
    BY <2>1, <2>2, CookieOpens, AccessBoundAssumption
       DEF AccessInv, InvitationRows, Versions, RightsKept
  <2>4. /\ cookie[g].cred <= inv[i].cred
        /\ cookie[g].cred = inv[i].cred => cookie[g].secret = inv[i].secret /\ ~inv[i].revoked
    BY DEF AccessInv, CookieInv
  <2>5. inv[i].cred = inv'[i].cred =>
          inv'[i].secret = inv[i].secret /\ (inv'[i].revoked => inv[i].revoked)
    BY <2>1 DEF RightsKept
  <2>6. cookie[g].cred <= inv'[i].cred
    BY <2>3, <2>4
  <2>7. cookie[g].cred = inv'[i].cred => cookie[g].cred = inv[i].cred
    BY <2>3, <2>4
  <2> QED
    BY <2>2, <2>4, <2>5, <2>6, <2>7
<1>3. ContextInv'
  <2> SUFFICES ASSUME NEW g \in Guests, ctx[g] # NoContext
      PROVE  cookie[g] # NoCookie /\ Fixes(cookie[g].inv, ctx[g].epoch, ctx[g].write)'
    BY <1>1 DEF ContextInv
  <2>1. cookie[g] # NoCookie /\ Fixes(cookie[g].inv, ctx[g].epoch, ctx[g].write)
    BY DEF AccessInv, ContextInv
  <2>2. ctx[g].epoch \in Epochs /\ ctx[g].write \in BOOLEAN
    BY RowKnown DEF Contexts
  <2> QED
    BY <1>1, <2>1, <2>2, CookieOpens, FixesKept DEF AccessInv
<1>4. \A q \in Requests : Holds(req[q])'
  <2> SUFFICES ASSUME NEW q \in Requests PROVE Holds(req[q])'
    OBVIOUS
  <2> DEFINE r == req[q]
             i == cookie[r.guest].inv
  <2>1. r' = r /\ i' = i /\ Holds(r)
    BY <1>1 DEF AccessInv
  <2>2. CASE r = Idle
    BY <1>1, <2>1, <2>2, AskAssumption DEF Holds, Idle
  <2>3. CASE r # Idle
    <3>1. r.guest \in Guests /\ cookie[r.guest] # NoCookie
      BY <2>1, <2>3, Known DEF Holds
    <3>2. /\ i \in Invitations /\ Exists(i) /\ RightsKept(i)
          /\ inv[i] \in InvitationRows /\ inv'[i] \in InvitationRows
      BY <3>1, CookieOpens, RowKnown
         DEF AccessInv, RightsStep, TypedRights, RightsKept, Exists
    <3>3. ASSUME r.pc = "invitation"
          PROVE  /\ ReadInv(i, r.row)'
                 /\ r.ask = "mutation" =>
                      r.epoch \in Epochs /\ Past(i, r.epoch)' /\ SentInv(r)'
      <4>1. r.row \in InvitationRows /\ r.row.access \in Int /\ ReadInv(i, r.row)
        BY <2>1, <3>3, Known, AccessBoundAssumption
           DEF Holds, Reading, InvitationRows, Versions
      <4>2. ReadInv(i, r.row)'
        BY <2>1, <3>2, <4>1, ReadKept
      <4>3. ASSUME r.ask = "mutation"
            PROVE  r.epoch \in Epochs /\ Past(i, r.epoch)' /\ SentInv(r)'
        <5>1. r.epoch \in Epochs /\ Past(i, r.epoch) /\ SentInv(r)
          BY <2>1, <3>3, <4>3 DEF Holds
        <5>2. Past(i, r.epoch)'
          BY <2>1, <3>2, <5>1, PastKept
        <5>3. SentInv(r)'
          BY <2>1, <3>2, <5>1, SentKept
        <5> QED
          BY <5>1, <5>2, <5>3
      <4> QED
        BY <4>2, <4>3
    <3>5. ASSUME r.pc \in Asks
          PROVE  Fixes(i, r.epoch, r.write)'
      <4>1. r.epoch \in Epochs /\ r.write \in BOOLEAN /\ Fixes(i, r.epoch, r.write)
        BY <2>1, <3>5, Known DEF Holds, Admitted
      <4> QED
        BY <2>1, <3>2, <4>1, FixesKept
    <3>6. ASSUME r.pc = "body"
          PROVE  Fixes(i, r.epoch, TRUE)'
      <4>1. r.epoch \in Epochs /\ Fixes(i, r.epoch, TRUE)
        BY <2>1, <3>6, Known DEF Holds, AtBody
      <4> QED
        BY <2>1, <3>2, <4>1, FixesKept
    <3> QED
      BY <1>1, <2>1, <3>1, <3>3, <3>5, <3>6 DEF Holds
  <2> QED
    BY <2>2, <2>3
<1> QED
  BY <1>2, <1>3, <1>4 DEF AccessInv

-----------------------------------------------------------------------------
(* The invariant under the guests' steps                                   *)

\* A request goes on, the others and all rows stay.
LEMMA RequestGoesOn ==
    ASSUME AccessTyped, AccessInv, NEW q \in Requests,
           NEW STATE r, r \in {Idle} \cup Asking, Holds(r),
           req' = [req EXCEPT ![q] = r], UNCHANGED <<board, inv, cookie>>
    PROVE  /\ req' \in [Requests -> {Idle} \cup Asking]
           /\ \A p \in Requests : Holds(req[p])'
<1>1. req' \in [Requests -> {Idle} \cup Asking]
  BY DEF AccessTyped
<1>2. \A p \in Requests : req'[p] = IF p = q THEN r ELSE req[p]
  BY DEF AccessTyped
<1>3. \A p \in Requests : Holds(req'[p])
  BY <1>2 DEF AccessInv
<1>4. ASSUME NEW p \in Requests PROVE Holds(req[p])'
  <2>1. \A i, epoch, write : Fixes(i, epoch, write)' <=> Fixes(i, epoch, write)
    BY DEF Fixes, Past, Current, Epoch, Usable, EffectiveWrite
  <2>2. /\ \A i, row : ReadInv(i, row)' <=> ReadInv(i, row)
        /\ \A i, epoch : Past(i, epoch)' <=> Past(i, epoch)
        /\ \A s : SentInv(s)' <=> SentInv(s)
    BY DEF ReadInv, Past, SentInv
  <2> QED
    BY <1>3, <1>4, <2>1, <2>2 DEF Holds
<1> QED
  BY <1>1, <1>4

\* A request that has ended claims nothing.
LEMMA IdleHolds == Holds(Idle)
BY AskAssumption DEF Holds, Idle

\* A step that ends a request.
LEMMA RequestEnds ==
    ASSUME AccessTyped, AccessInv, NEW q \in Requests, req' = [req EXCEPT ![q] = Idle],
           UNCHANGED <<board, inv, cookie>>
    PROVE  /\ req' \in [Requests -> {Idle} \cup Asking]
           /\ \A p \in Requests : Holds(req[p])'
BY IdleHolds, RequestGoesOn

\* What holds of cookies and contexts if they stay.
LEMMA ClientsStay ==
    ASSUME AccessInv, UNCHANGED <<board, inv, cookie, ctx>>
    PROVE  CookieInv' /\ ContextInv'
<1>1. CookieInv'
  BY DEF AccessInv, CookieInv
<1>2. \A i, epoch, write : Fixes(i, epoch, write)' <=> Fixes(i, epoch, write)
  BY DEF Fixes, Past, Current, Epoch, Usable, EffectiveWrite
<1> QED
  BY <1>1, <1>2 DEF AccessInv, ContextInv

\* What AccessTyped and AccessInv ask of a guest's step.
GuestTyped ==
    /\ cookie' \in [Guests -> {NoCookie} \cup
                    [inv : Invitations, cred : Versions, secret : Versions]]
    /\ ctx' \in [Guests -> {NoContext} \cup Contexts]
    /\ req' \in [Requests -> {Idle} \cup Asking]

\* A guest who joins gets a cookie of the invitation as it is.
LEMMA JoinKeeps ==
    ASSUME AccessTyped, AccessInv, NEW g \in Guests, NEW i \in Invitations, Join(g, i)
    PROVE  GuestTyped /\ AccessInv'
<1> DEFINE c == [inv |-> i, cred |-> inv[i].cred, secret |-> inv[i].secret]
<1>1. /\ cookie[g] = NoCookie /\ Exists(i) /\ Usable(inv[i], board)
      /\ cookie' = [cookie EXCEPT ![g] = c] /\ UNCHANGED <<board, inv, ctx, req>>
  BY DEF Join, Exchangeable
<1>2. inv[i] \in InvitationRows
  BY <1>1, RowKnown
<1>3. c \in [inv : Invitations, cred : Versions, secret : Versions]
  BY <1>2 DEF InvitationRows
<1>4. GuestTyped
  BY <1>1, <1>3 DEF GuestTyped, AccessTyped
<1>5. \A h \in Guests : cookie'[h] = IF h = g THEN c ELSE cookie[h]
  BY <1>1 DEF AccessTyped
<1>6. c.inv = i /\ c.cred = inv[i].cred /\ c.secret = inv[i].secret /\ inv[i].cred \in Int
  BY <1>2, AccessBoundAssumption DEF InvitationRows, Versions
<1>7. CookieInv'
  BY <1>1, <1>5, <1>6 DEF CookieInv, AccessInv, Usable, Exists
<1>8. \A j, epoch, write : Fixes(j, epoch, write)' <=> Fixes(j, epoch, write)
  BY <1>1 DEF Fixes, Past, Current, Epoch, Usable, EffectiveWrite
<1>9. ContextInv'
  BY <1>1, <1>5, <1>8 DEF AccessInv, ContextInv
<1>10. ASSUME NEW q \in Requests PROVE Holds(req[q])'
  <2>1. Holds(req[q]) /\ req'[q] = req[q]
    BY <1>1 DEF AccessInv
  <2>2. CASE req[q] = Idle
    BY <2>1, <2>2, AskAssumption DEF Holds, Idle
  <2>3. CASE req[q] # Idle
    <3>1. req[q].guest \in Guests /\ cookie[req[q].guest] # NoCookie
      BY <2>1, <2>3, Known DEF Holds
    <3>2. cookie'[req[q].guest] = cookie[req[q].guest]
      BY <1>1, <1>5, <3>1
    <3>3. /\ \A j, row : ReadInv(j, row)' <=> ReadInv(j, row)
          /\ \A j, epoch : Past(j, epoch)' <=> Past(j, epoch)
          /\ \A s : SentInv(s)' <=> SentInv(s)
      BY <1>1 DEF ReadInv, Past, SentInv
    <3> QED
      BY <1>8, <2>1, <3>2, <3>3 DEF Holds
  <2> QED
    BY <2>2, <2>3
<1> QED
  BY <1>4, <1>7, <1>9, <1>10 DEF AccessInv

\* A request arrives with the epoch its client holds and reads the invitation.
LEMMA ReadInvitationKeeps ==
    ASSUME AccessTyped, AccessInv, NEW q \in Requests, NEW g \in Guests, NEW ask \in Asks,
           ReadInvitation(q, g, ask)
    PROVE  GuestTyped /\ AccessInv'
<1> DEFINE i == cookie[g].inv
           sent == IF ask = "mutation" THEN ctx[g].epoch ELSE NoEpoch
           r == [pc |-> "invitation", guest |-> g, ask |-> ask, epoch |-> sent,
                 punctual |-> sent = Current(i), row |-> inv[i]]
<1>1. /\ cookie[g] # NoCookie /\ (ask = "mutation" => ctx[g] # NoContext)
      /\ req' = [req EXCEPT ![q] = r] /\ UNCHANGED <<board, inv, cookie, ctx>>
  BY DEF ReadInvitation
<1>2. i \in Invitations /\ Exists(i) /\ inv[i] \in InvitationRows
  BY <1>1, CookieOpens DEF AccessInv
<1>3. ask = "mutation" =>
        sent \in Epochs /\ Past(i, sent) /\ sent = ctx[g].epoch
  BY <1>1, RowKnown DEF AccessInv, ContextInv, Fixes, Contexts
<1>4. r \in Reading
  BY <1>2, <1>3 DEF Reading
<1>5. r.pc = "invitation" /\ r.guest = g /\ r.row = inv[i] /\ r.ask = ask
        /\ r.epoch = sent /\ (sent = Current(i) => r.punctual)
  OBVIOUS
<1> HIDE DEF r, sent
<1>6. ReadInv(i, r.row)
  BY <1>2, <1>5, AccessBoundAssumption DEF ReadInv, InvitationRows, Versions
<1>7. ASSUME ask = "mutation" PROVE SentInv(r)
  <2>1. /\ sent = <<sent[1], sent[2], sent[3], sent[4]>> /\ sent[1] \in Int
        /\ sent[2] = i /\ sent[1] <= board.access /\ board.access \in Int
    BY <1>3, <1>7, EpochKnown, AccessBoundAssumption DEF Past, AccessTyped, BoardRows
  <2>2. ASSUME sent[1] = board.access, sent[3] = inv[i].access, sent[4] = inv[i].cred
        PROVE  r.punctual
    BY <1>5, <2>1, <2>2 DEF Current, Epoch
  <2> QED
    BY <1>5, <2>1, <2>2 DEF SentInv
<1>8. Holds(r)
  BY <1>1, <1>3, <1>5, <1>6, <1>7, AskAssumption DEF Holds
<1>9. r \in {Idle} \cup Asking
  BY <1>4 DEF Asking
<1> QED
  BY <1>1, <1>8, <1>9, RequestGoesOn, ClientsStay DEF GuestTyped, AccessInv, AccessTyped

\* A request is admitted under the epoch of the two rows it has read.
LEMMA ReadDocumentKeeps ==
    ASSUME AccessTyped, AccessInv, NEW q \in Requests, ReadDocument(q)
    PROVE  GuestTyped /\ AccessInv'
<1> DEFINE o == req[q]
           i == cookie[o.guest].inv
           e == Epoch(i, o.row, board)
           w == EffectiveWrite(o.row, board)
           r == [pc |-> o.ask, guest |-> o.guest, epoch |-> e, punctual |-> o.punctual,
                 write |-> w]
<1>1. /\ o.pc = "invitation" /\ SameEpoch(o.epoch, e)
      /\ o.ask = "mutation" => w
      /\ req' = [req EXCEPT ![q] = r] /\ UNCHANGED <<board, inv, cookie, ctx>>
  BY DEF ReadDocument
<1>2. /\ o \in Reading /\ Holds(o) /\ cookie[o.guest] # NoCookie
      /\ o.guest \in Guests /\ o.ask \in Asks /\ o.row \in InvitationRows
      /\ o.punctual \in BOOLEAN
  <2>1. o \in Reading /\ Holds(o)
    BY <1>1, Known DEF AccessInv
  <2>2. cookie[o.guest] # NoCookie
    BY <1>1, <2>1 DEF Holds, Idle
  <2> QED
    BY <2>1, <2>2 DEF Reading
<1>3. i \in Invitations /\ Exists(i) /\ inv[i] \in InvitationRows
  BY <1>2, CookieOpens DEF AccessInv
<1>4. ReadInv(i, o.row)
  BY <1>1, <1>2 DEF Holds
<1>5. e \in Epochs /\ e[1] = board.access /\ e[2] = i /\ e[3] = o.row.access
        /\ e[4] = o.row.cred
  BY <1>2, <1>3 DEF Epoch, Epochs, AccessTyped, BoardRows, InvitationRows
<1>6. w \in BOOLEAN
  BY <1>2 DEF EffectiveWrite, InvitationRows
<1>7. r \in Admitted
  BY <1>2, <1>5, <1>6 DEF Admitted
<1>8. /\ r.pc = o.ask /\ r.guest = o.guest /\ r.epoch = e /\ r.write = w
      /\ r.punctual = o.punctual
  OBVIOUS
<1>9. Past(i, e)
  BY <1>2, <1>4, <1>5, AccessBoundAssumption
     DEF Past, ReadInv, AccessTyped, BoardRows, InvitationRows, Versions
<1>10. ASSUME e = Current(i), Usable(inv[i], board)
       PROVE  w = EffectiveWrite(inv[i], board)
  <2>1. o.row.access = inv[i].access
    BY <1>5, <1>10 DEF Current, Epoch
  <2>2. o.row.write = inv[i].write /\ o.row.revoked = inv[i].revoked
    BY <1>4, <2>1 DEF ReadInv
  <2> QED
    BY <2>2 DEF EffectiveWrite
<1>11. Fixes(i, e, w)
  BY <1>9, <1>10 DEF Fixes
<1>12. ASSUME o.ask = "mutation" PROVE o.punctual
  <2>1. o.epoch \in Epochs /\ Past(i, o.epoch) /\ SentInv(o)
    BY <1>1, <1>2, <1>12 DEF Holds
  <2>2. o.epoch = e
    BY <1>1, <2>1, EpochKnown DEF SameEpoch
  <2>3. board.access \in Int
    BY AccessBoundAssumption DEF AccessTyped, BoardRows
  <2> QED
    BY <1>5, <2>1, <2>2, <2>3 DEF SentInv
<1> HIDE DEF r, e, w
<1>13. Holds(r)
  BY <1>1, <1>2, <1>8, <1>11, <1>12, AskAssumption DEF Holds, Idle
<1> QED
  BY <1>1, <1>7, <1>13, RequestGoesOn, ClientsStay DEF GuestTyped, AccessInv, AccessTyped, Asking

\* The context answered is what the request was admitted with.
LEMMA AnswerContextKeeps ==
    ASSUME AccessTyped, AccessInv, NEW q \in Requests, AnswerContext(q)
    PROVE  GuestTyped /\ AccessInv'
<1> DEFINE o == req[q]
           c == [epoch |-> o.epoch, write |-> o.write]
<1>1. /\ o.pc = "context"
      /\ ctx' = [ctx EXCEPT ![o.guest] = c]
      /\ req' = [req EXCEPT ![q] = Idle] /\ UNCHANGED <<board, inv, cookie>>
  BY DEF AnswerContext
<1>2. Holds(o)
  BY DEF AccessInv
<1>3. CASE "context" \in Asks
  <2>1. /\ o \in Admitted /\ Fixes(cookie[o.guest].inv, o.epoch, o.write)
        /\ o.guest \in Guests /\ cookie[o.guest] # NoCookie
    BY <1>1, <1>2, <1>3, Known DEF Holds, Idle, Admitted
  <2>2. c \in Contexts /\ c.epoch = o.epoch /\ c.write = o.write
    BY <2>1 DEF Admitted, Contexts
  <2>3. ctx' \in [Guests -> {NoContext} \cup Contexts]
    BY <1>1, <2>1, <2>2 DEF AccessTyped
  <2>4. \A g \in Guests : ctx'[g] = IF g = o.guest THEN c ELSE ctx[g]
    BY <1>1 DEF AccessTyped
  <2>5. \A i, epoch, write : Fixes(i, epoch, write)' <=> Fixes(i, epoch, write)
    BY <1>1 DEF Fixes, Past, Current, Epoch, Usable, EffectiveWrite
  <2>6. ContextInv'
    BY <1>1, <2>1, <2>2, <2>4, <2>5 DEF AccessInv, ContextInv
  <2>7. CookieInv'
    BY <1>1 DEF AccessInv, CookieInv
  <2> QED
    BY <1>1, <2>3, <2>6, <2>7, RequestEnds DEF GuestTyped, AccessInv, AccessTyped
<1>4. CASE "context" \notin Asks
  BY <1>1, <1>4, Known DEF AccessTyped, Asking, Reading, Admitted, AtBody, Inserting, AtParts,
     AtEnvelope, Idle
<1> QED
  BY <1>3, <1>4

\* Every step of a guest before its request is served.
LEMMA GuestSteps ==
    ASSUME AccessTyped, AccessInv, Guest
    PROVE  GuestTyped /\ AccessInv' /\ UNCHANGED <<board, inv>>
<1>1. ASSUME NEW q \in Requests, Authorize(q)
      PROVE  GuestTyped /\ AccessInv' /\ UNCHANGED <<board, inv>>
  <2> DEFINE o == req[q]
             r == [pc |-> "body", guest |-> o.guest, epoch |-> o.epoch]
  <2>1. /\ o.pc = "mutation" /\ req' = [req EXCEPT ![q] = r]
        /\ UNCHANGED <<board, inv, cookie, ctx>> /\ Holds(o)
    BY <1>1 DEF Authorize, AccessInv
  <2>2. "mutation" \in Asks
    BY <2>1, Known DEF AccessTyped, Asking, Reading, Admitted, AtBody, Inserting, AtParts,
       AtEnvelope, Idle
  <2>3. /\ o \in Admitted /\ Fixes(cookie[o.guest].inv, o.epoch, o.write)
        /\ o.write /\ cookie[o.guest] # NoCookie
    BY <2>1, <2>2, Known DEF Holds, Idle
  <2>4. r \in AtBody /\ r.pc = "body" /\ r.guest = o.guest /\ r.epoch = o.epoch
    BY <2>3 DEF Admitted, AtBody
  <2>5. Fixes(cookie[o.guest].inv, o.epoch, TRUE)
    BY <2>3 DEF Fixes, Admitted
  <2> HIDE DEF r
  <2>6. Holds(r)
    BY <2>3, <2>4, <2>5, AskAssumption DEF Holds
  <2> QED
    BY <2>1, <2>4, <2>6, RequestGoesOn, ClientsStay DEF GuestTyped, AccessInv, AccessTyped, Asking
<1>2. ASSUME NEW q \in Requests, Leave(q)
      PROVE  GuestTyped /\ AccessInv' /\ UNCHANGED <<board, inv>>
  BY <1>2, RequestEnds, ClientsStay DEF Leave, GuestTyped, AccessInv, AccessTyped
<1> QED
  BY <1>1, <1>2, JoinKeeps, ReadInvitationKeeps, ReadDocumentKeeps, AnswerContextKeeps
     DEF Guest, Join, ReadInvitation, ReadDocument, AnswerContext

-----------------------------------------------------------------------------
(* The invariant while requests are served                                 *)

\* What Typed asks of a step on the uploads.
UploadTyped == upload' \in [UploadIds -> {NoUpload} \cup UploadRows]

\* A request that is served moves itself and at most one upload.
LEMMA ServedSteps ==
    ASSUME Typed, AccessInv, NEW q \in Requests, Served(q)
    PROVE  GuestTyped /\ UploadTyped /\ AccessInv' /\ UNCHANGED <<board, inv>>
<1> DEFINE o == req[q]
           Goal == GuestTyped /\ UploadTyped /\ AccessInv' /\ UNCHANGED <<board, inv>>
<1>1. Holds(o)
  BY DEF AccessInv
<1>2. ASSUME Done(q), UploadTyped, UNCHANGED <<board, inv, cookie, ctx>>
      PROVE  Goal
  BY <1>2, RequestEnds, ClientsStay DEF Done, GuestTyped, AccessInv, Typed, AccessTyped
<1>3. ASSUME NEW STATE r, r \in Asking, Holds(r), req' = [req EXCEPT ![q] = r],
             UNCHANGED <<board, inv, cookie, ctx, upload>>
      PROVE  Goal
  BY <1>3, RequestGoesOn, ClientsStay DEF GuestTyped, UploadTyped, AccessInv, Typed, AccessTyped
<1>4. o.pc = "body" => o \in AtBody /\ o.guest \in Guests /\ o.epoch \in Epochs
                       /\ cookie[o.guest] # NoCookie
  BY <1>1, Known DEF Holds, Idle, AtBody, Typed
<1> HIDE DEF Goal
<1>5. ASSUME AppendCommands(q) PROVE Goal
  BY <1>2, <1>5 DEF AppendCommands, UploadTyped, Typed, AccessTyped
<1>6. ASSUME NEW u \in UploadIds, NEW content \in Contents, Start(q, u, content)
      PROVE  Goal
  <2> DEFINE r == [pc |-> "insert", guest |-> o.guest, epoch |-> o.epoch, id |-> u,
                   content |-> content]
  <2>1. /\ o.pc = "body" /\ req' = [req EXCEPT ![q] = r]
        /\ UNCHANGED <<board, inv, cookie, ctx, upload>>
    BY <1>6 DEF Start, Ready
  <2>2. r \in Inserting /\ r.pc = "insert" /\ r.guest = o.guest
    BY <1>4, <2>1 DEF Inserting
  <2> HIDE DEF r
  <2>3. Holds(r)
    BY <1>4, <2>1, <2>2, AskAssumption DEF Holds
  <2> QED
    BY <1>3, <2>1, <2>2, <2>3 DEF Asking
<1>7. ASSUME Insert(q) PROVE Goal
  <2> DEFINE row == [guest |-> o.guest, epoch |-> o.epoch, content |-> o.content,
                     expired |-> FALSE, parts |-> [p \in 1..Parts |-> NoContent]]
  <2>1. /\ o.pc = "insert" /\ upload' = [upload EXCEPT ![o.id] = row]
        /\ Done(q) /\ UNCHANGED <<board, inv, cookie, ctx>>
    BY <1>7 DEF Insert
  <2>2. o \in Inserting
    BY <2>1, Known DEF Typed
  <2>3. row \in UploadRows
    BY <2>2 DEF Inserting, UploadRows
  <2>4. UploadTyped
    BY <2>1, <2>3 DEF UploadTyped, Typed, AccessTyped
  <2> QED
    BY <1>2, <2>1, <2>4
<1>8. ASSUME NEW u \in UploadIds, NEW p \in 1..Parts, NEW content \in Contents,
             PutPart(q, u, p, content)
      PROVE  Goal
  <2>1. /\ upload[u] \in UploadRows
        /\ upload' = [upload EXCEPT ![u].parts[p] = content]
        /\ Done(q) /\ UNCHANGED <<board, inv, cookie, ctx>>
    BY <1>8 DEF PutPart, Found, Typed, AccessTyped
  <2>2. [upload[u] EXCEPT !.parts[p] = content] \in UploadRows
    BY <2>1 DEF UploadRows
  <2>3. UploadTyped
    BY <2>1, <2>2 DEF UploadTyped, Typed, AccessTyped
  <2> QED
    BY <1>2, <2>1, <2>3
<1>9. ASSUME NEW u \in UploadIds, Abort(q, u)
      PROVE  Goal
  <2>1. UploadTyped
    BY <1>9 DEF Abort, UploadTyped, Typed, AccessTyped
  <2> QED
    BY <1>2, <1>9, <2>1 DEF Abort
<1>10. ASSUME NEW u \in UploadIds, ReadUpload(q, u)
       PROVE  Goal
  <2> DEFINE r == [pc |-> "parts", guest |-> o.guest, epoch |-> o.epoch, id |-> u,
                   row |-> upload[u]]
  <2>1. /\ o.pc = "body" /\ req' = [req EXCEPT ![q] = r]
        /\ upload[u] \in UploadRows
        /\ upload[u].guest = o.guest /\ upload[u].epoch = o.epoch
        /\ UNCHANGED <<board, inv, cookie, ctx, upload>>
    BY <1>10 DEF ReadUpload, Ready, Found, Typed, AccessTyped
  <2>2. /\ r \in AtParts /\ r.pc = "parts" /\ r.guest = o.guest /\ r.epoch = o.epoch
        /\ r.row = upload[u]
    BY <1>4, <2>1 DEF AtParts
  <2> HIDE DEF r
  <2>3. Holds(r)
    BY <1>4, <2>1, <2>2, AskAssumption DEF Holds
  <2> QED
    BY <1>3, <2>1, <2>2, <2>3 DEF Asking
<1>11. ASSUME ReadParts(q) PROVE Goal
  <2> DEFINE r == [pc |-> "envelope", guest |-> o.guest, epoch |-> o.epoch,
                   row |-> o.row, content |-> o.row.content]
  <2>1. /\ o.pc = "parts" /\ req' = [req EXCEPT ![q] = r]
        /\ UNCHANGED <<board, inv, cookie, ctx, upload>>
    BY <1>11 DEF ReadParts
  <2>2. o \in AtParts /\ o # Idle
    BY <2>1, Known DEF Idle, Typed
  <2>3. /\ cookie[o.guest] # NoCookie
        /\ o.row.guest = o.guest /\ o.row.epoch = o.epoch
    BY <1>1, <2>1, <2>2 DEF Holds
  <2>4. /\ r \in AtEnvelope /\ r.pc = "envelope" /\ r.guest = o.guest
        /\ r.epoch = o.epoch /\ r.row = o.row /\ r.content = o.row.content
    BY <2>2 DEF AtParts, AtEnvelope, UploadRows
  <2> HIDE DEF r
  <2>5. Holds(r)
    BY <2>3, <2>4, AskAssumption DEF Holds
  <2> QED
    BY <1>3, <2>1, <2>4, <2>5 DEF Asking
<1>12. ASSUME Publish(q) PROVE Goal
  BY <1>2, <1>12 DEF Publish, UploadTyped, Typed, AccessTyped
<1> QED
  BY <1>5, <1>6, <1>7, <1>8, <1>9, <1>10, <1>11, <1>12 DEF Served, Goal

-----------------------------------------------------------------------------
(* The quota                                                               *)

\* Uploads and requests are finite many.
LEMMA CountsAreNumbers ==
    ASSUME NEW g \in Guests
    PROVE  /\ IsFiniteSet(Active(g)) /\ Cardinality(Active(g)) \in Nat
           /\ IsFiniteSet(Inserters(g)) /\ Cardinality(Inserters(g)) \in Nat
           /\ Cardinality(Inserters(g)) <= Cardinality(Requests)
           /\ Cardinality(Requests) \in Nat /\ MaxActive \in Nat
           /\ Active(g) \subseteq UploadIds /\ Inserters(g) \subseteq Requests
<1>1. Active(g) \subseteq UploadIds /\ Inserters(g) \subseteq Requests
  BY DEF Active, Inserters
<1> QED
  BY <1>1, UploadAssumption, FS_Subset, FS_CardinalityType

\* Fewer of both leave the quota kept.
LEMMA FewerKeep ==
    ASSUME QuotaInv, NEW g \in Guests,
           Active(g)' \subseteq Active(g), Inserters(g)' \subseteq Inserters(g)
    PROVE  Cardinality(Active(g))' + Cardinality(Inserters(g))'
             < MaxActive + Cardinality(Requests)
<1>1. /\ Cardinality(Active(g)') <= Cardinality(Active(g))
      /\ Cardinality(Inserters(g)') <= Cardinality(Inserters(g))
      /\ Cardinality(Active(g)') \in Nat /\ Cardinality(Inserters(g)') \in Nat
  BY CountsAreNumbers, FS_Subset, FS_CardinalityType
<1> QED
  BY <1>1, CountsAreNumbers DEF QuotaInv

\* The uploads that a step leaves or removes.
LEMMA UploadsShrink ==
    ASSUME Typed, NEW g \in Guests,
           \/ UNCHANGED upload
           \/ \E u \in UploadIds : upload' = [upload EXCEPT ![u] = NoUpload]
           \/ \E u \in UploadIds : upload[u] # NoUpload
                /\ upload' = [upload EXCEPT ![u].expired = TRUE]
           \/ \E u \in UploadIds, p \in 1..Parts, c \in Contents :
                upload[u] # NoUpload /\ upload' = [upload EXCEPT ![u].parts[p] = c]
    PROVE  Active(g)' \subseteq Active(g)
<1>1. CASE UNCHANGED upload
  BY <1>1 DEF Active
<1>2. ASSUME NEW u \in UploadIds, upload' = [upload EXCEPT ![u] = NoUpload]
      PROVE  Active(g)' \subseteq Active(g)
  BY <1>2 DEF Active, Typed, AccessTyped
<1>3. ASSUME NEW u \in UploadIds, upload[u] # NoUpload,
             upload' = [upload EXCEPT ![u].expired = TRUE]
      PROVE  Active(g)' \subseteq Active(g)
  <2>1. upload'[u].expired
    BY <1>3 DEF Typed, AccessTyped, UploadRows
  <2> QED
    BY <1>3, <2>1 DEF Active, Typed, AccessTyped
<1>4. ASSUME NEW u \in UploadIds, NEW p \in 1..Parts, NEW c \in Contents,
             upload[u] # NoUpload, upload' = [upload EXCEPT ![u].parts[p] = c]
      PROVE  Active(g)' \subseteq Active(g)
  <2>1. /\ upload'[u].expired = upload[u].expired /\ upload'[u].guest = upload[u].guest
        /\ \A v \in UploadIds \ {u} : upload'[v] = upload[v]
    BY <1>4 DEF Typed, AccessTyped, UploadRows
  <2> QED
    BY <1>4, <2>1 DEF Active
<1> QED
  BY <1>1, <1>2, <1>3, <1>4

\* Every step keeps the quota all but kept: a start only if there is room, an insert
\* by one who is counted already.
LEMMA QuotaSteps ==
    ASSUME Typed, QuotaInv, Next
    PROVE  QuotaInv'
<1> SUFFICES ASSUME NEW g \in Guests
    PROVE  Cardinality(Active(g))' + Cardinality(Inserters(g))'
             < MaxActive + Cardinality(Requests)
  BY DEF QuotaInv
<1> DEFINE Goal == Cardinality(Active(g))' + Cardinality(Inserters(g))'
                     < MaxActive + Cardinality(Requests)
<1>1. ASSUME \A p \in Requests : req'[p].pc = "insert" => req'[p] = req[p],
             Active(g)' \subseteq Active(g)
      PROVE  Goal
  <2>1. Inserters(g)' \subseteq Inserters(g)
    BY <1>1 DEF Inserters
  <2> QED
    BY <1>1, <2>1, FewerKeep
<1>2. ASSUME NEW q \in Requests, Done(q), Active(g)' \subseteq Active(g)
      PROVE  Goal
  <2>1. \A p \in Requests : req'[p].pc = "insert" => req'[p] = req[p]
    BY <1>2 DEF Done, Typed, AccessTyped, Idle
  <2> QED
    BY <1>1, <1>2, <2>1
<1> HIDE DEF Goal
<1>3. ASSUME Teacher, UNCHANGED upload PROVE Goal
  <2>1. UNCHANGED req
    BY <1>3, TeacherSteps DEF RightsStep, Typed
  <2>2. Active(g)' \subseteq Active(g)
    BY <1>3, UploadsShrink
  <2> QED
    BY <1>1, <2>1, <2>2
<1>4. ASSUME Guest, UNCHANGED upload PROVE Goal
  <2>1. Active(g)' \subseteq Active(g)
    BY <1>4, UploadsShrink
  <2>2. ASSUME NEW h \in Guests, NEW i \in Invitations, Join(h, i)
        PROVE  \A p \in Requests : req'[p].pc = "insert" => req'[p] = req[p]
    BY <2>2 DEF Join
  <2>3. ASSUME NEW q \in Requests, NEW h \in Guests, NEW ask \in Asks,
               ReadInvitation(q, h, ask)
        PROVE  \A p \in Requests : req'[p].pc = "insert" => req'[p] = req[p]
    BY <2>3 DEF ReadInvitation, Typed, AccessTyped
  <2>4. ASSUME NEW q \in Requests, ReadDocument(q)
        PROVE  \A p \in Requests : req'[p].pc = "insert" => req'[p] = req[p]
    <3>1. req[q].ask # "insert"
      BY <2>4, Known, AskAssumption DEF ReadDocument, Reading, Typed
    <3> QED
      BY <2>4, <3>1 DEF ReadDocument, Typed, AccessTyped
  <2>5. ASSUME NEW q \in Requests, AnswerContext(q) \/ Authorize(q) \/ Leave(q)
        PROVE  \A p \in Requests : req'[p].pc = "insert" => req'[p] = req[p]
    BY <2>5 DEF AnswerContext, Authorize, Leave, Typed, AccessTyped, Idle
  <2> QED
    BY <1>1, <1>4, <2>1, <2>2, <2>3, <2>4, <2>5 DEF Guest
<1>5. ASSUME NEW q \in Requests, AppendCommands(q) \/ Publish(q) PROVE Goal
  <2>1. Done(q) /\ UNCHANGED upload
    BY <1>5 DEF AppendCommands, Publish
  <2> QED
    BY <1>2, <2>1, UploadsShrink
<1>6. ASSUME NEW q \in Requests, NEW u \in UploadIds, NEW c \in Contents, Start(q, u, c)
      PROVE  Goal
  <2> DEFINE r == [pc |-> "insert", guest |-> req[q].guest, epoch |-> req[q].epoch,
                   id |-> u, content |-> c]
  <2>1. /\ Cardinality(Active(req[q].guest)) < MaxActive
        /\ req' = [req EXCEPT ![q] = r] /\ UNCHANGED upload
    BY <1>6 DEF Start
  <2>2. r.guest = req[q].guest
    OBVIOUS
  <2> HIDE DEF r
  <2>3. Active(g)' = Active(g)
    BY <2>1 DEF Active
  <2>4. CASE g = req[q].guest
    <3>1. Inserters(g)' \subseteq Requests
      BY DEF Inserters
    <3>2. Cardinality(Inserters(g)') <= Cardinality(Requests)
            /\ Cardinality(Inserters(g)') \in Nat
      BY <3>1, UploadAssumption, FS_Subset, FS_CardinalityType
    <3> QED
      BY <2>1, <2>3, <2>4, <3>2, CountsAreNumbers DEF Goal
  <2>5. CASE g # req[q].guest
    <3>1. Inserters(g)' \subseteq Inserters(g)
      BY <2>1, <2>2, <2>5 DEF Inserters, Typed, AccessTyped
    <3> QED
      BY <2>3, <3>1, FewerKeep DEF Goal
  <2> QED
    BY <2>4, <2>5
<1>7. ASSUME NEW q \in Requests, Insert(q) PROVE Goal
  <2> DEFINE o == req[q]
             row == [guest |-> o.guest, epoch |-> o.epoch, content |-> o.content,
                     expired |-> FALSE, parts |-> [p \in 1..Parts |-> NoContent]]
  <2>1. /\ o.pc = "insert" /\ upload' = [upload EXCEPT ![o.id] = row] /\ Done(q)
    BY <1>7 DEF Insert
  <2>2. o.id \in UploadIds /\ o.guest \in Guests
    BY <2>1, Known DEF Inserting, Typed
  <2>3. row.guest = o.guest
    OBVIOUS
  <2> HIDE DEF row
  <2>4. /\ upload'[o.id] = row
        /\ \A u \in UploadIds \ {o.id} : upload'[u] = upload[u]
    BY <2>1, <2>2 DEF Typed, AccessTyped
  <2>5. CASE g # o.guest
    <3>1. Active(g)' \subseteq Active(g)
      BY <2>3, <2>4, <2>5 DEF Active
    <3> QED
      BY <1>2, <2>1, <3>1
  <2>6. CASE g = o.guest
    <3>1. Active(g)' \subseteq Active(g) \cup {o.id}
      BY <2>4 DEF Active
    <3>2. q \in Inserters(g) /\ Inserters(g)' \subseteq Inserters(g) \ {q}
      BY <2>1, <2>6 DEF Inserters, Done, Typed, AccessTyped, Idle
    <3>3. /\ Cardinality(Active(g)') <= Cardinality(Active(g)) + 1
          /\ Cardinality(Active(g)') \in Nat
      <4>0. IsFiniteSet(Active(g)) /\ Cardinality(Active(g)) \in Nat
        BY CountsAreNumbers, FS_CardinalityType
      <4>3. ASSUME NEW S, NEW x, IsFiniteSet(S), Cardinality(S) \in Nat
            PROVE  /\ IsFiniteSet(S \cup {x})
                   /\ Cardinality(S \cup {x}) <= Cardinality(S) + 1
        <5>1. /\ IsFiniteSet(S \cup {x})
              /\ \/ Cardinality(S \cup {x}) = Cardinality(S)
                 \/ Cardinality(S \cup {x}) = Cardinality(S) + 1
          BY <4>3, FS_AddElement, Zenon
        <5> QED
          BY <4>3, <5>1
      <4>1. /\ IsFiniteSet(Active(g) \cup {o.id})
            /\ Cardinality(Active(g) \cup {o.id}) <= Cardinality(Active(g)) + 1
        BY <4>0, <4>3
      <4>2. /\ Cardinality(Active(g)') <= Cardinality(Active(g) \cup {o.id})
            /\ IsFiniteSet(Active(g)')
        BY <3>1, <4>1, FS_Subset
      <4> QED
        BY <4>1, <4>2, CountsAreNumbers, FS_CardinalityType
    <3>4. /\ Cardinality(Inserters(g)') <= Cardinality(Inserters(g)) - 1
          /\ Cardinality(Inserters(g)') \in Nat
      <4>1. /\ IsFiniteSet(Inserters(g) \ {q})
            /\ Cardinality(Inserters(g) \ {q}) = Cardinality(Inserters(g)) - 1
        BY <3>2, CountsAreNumbers, FS_RemoveElement
      <4>2. /\ Cardinality(Inserters(g)') <= Cardinality(Inserters(g) \ {q})
            /\ IsFiniteSet(Inserters(g)')
        BY <3>2, <4>1, FS_Subset
      <4> QED
        BY <4>1, <4>2, CountsAreNumbers, FS_CardinalityType
    <3> QED
      BY <3>3, <3>4, CountsAreNumbers DEF Goal, QuotaInv
  <2> QED
    BY <2>5, <2>6
<1>8. ASSUME NEW q \in Requests, NEW u \in UploadIds, Abort(q, u) PROVE Goal
  <2>1. Done(q) /\ upload' = [upload EXCEPT ![u] = NoUpload]
    BY <1>8 DEF Abort
  <2> QED
    BY <1>2, <2>1, UploadsShrink
<1>9. ASSUME NEW q \in Requests, NEW u \in UploadIds, NEW p \in 1..Parts,
             NEW c \in Contents, PutPart(q, u, p, c)
      PROVE  Goal
  <2>1. Done(q) /\ upload[u] # NoUpload /\ upload' = [upload EXCEPT ![u].parts[p] = c]
    BY <1>9 DEF PutPart, Found
  <2> QED
    BY <1>2, <2>1, UploadsShrink
<1>10. ASSUME NEW q \in Requests, (\E u \in UploadIds : ReadUpload(q, u)) \/ ReadParts(q)
       PROVE  Goal
  <2>1. \A p \in Requests : req'[p].pc = "insert" => req'[p] = req[p]
    BY <1>10 DEF ReadUpload, ReadParts, Typed, AccessTyped
  <2>2. UNCHANGED upload
    BY <1>10 DEF ReadUpload, ReadParts
  <2> QED
    BY <1>1, <2>1, <2>2, UploadsShrink
<1>11. ASSUME NEW u \in UploadIds, UploadElapses(u) \/ Prune(u) PROVE Goal
  <2>1. UNCHANGED req
    BY <1>11 DEF UploadElapses, Prune
  <2>2. Active(g)' \subseteq Active(g)
    BY <1>11, UploadsShrink DEF UploadElapses, Prune
  <2> QED
    BY <1>1, <2>1, <2>2
<1> QED
  BY <1>3, <1>4, <1>5, <1>6, <1>7, <1>8, <1>9, <1>10, <1>11 DEF Next, Served, Goal

-----------------------------------------------------------------------------
(* The theorems                                                            *)

\* A board without guests satisfies the invariant.
LEMMA InitInv == Init => IInv
<1> SUFFICES ASSUME Init PROVE IInv
  OBVIOUS
<1> USE AccessBoundAssumption DEF Init, AccessInit
<1>1. Typed
  BY DEF Typed, AccessTyped, BoardRows, Exists
<1>2. AccessInv
  BY IdleHolds DEF AccessInv, CookieInv, ContextInv
<1>3. QuotaInv
  <2> SUFFICES ASSUME NEW g \in Guests
      PROVE  Cardinality(Active(g)) + Cardinality(Inserters(g))
               < MaxActive + Cardinality(Requests)
    BY DEF QuotaInv
  <2>1. Active(g) = {} /\ Inserters(g) = {}
    BY DEF Active, Inserters, Idle
  <2> QED
    BY <2>1, FS_EmptySet, CountsAreNumbers, UploadAssumption
<1> QED
  BY <1>1, <1>2, <1>3 DEF IInv

\* Every step of teacher, guests, requests and time preserves it.
LEMMA NextInv == IInv /\ [Next]_vars => IInv'
<1> SUFFICES ASSUME IInv, [Next]_vars PROVE IInv'
  OBVIOUS
<1> USE DEF IInv
<1>1. ASSUME Teacher, UNCHANGED upload PROVE Typed' /\ AccessInv'
  <2>1. RightsStep /\ TypedRights
    BY <1>1, TeacherSteps DEF Typed
  <2> QED
    BY <1>1, <2>1, TeacherKeeps DEF RightsStep, TypedRights, Typed, AccessTyped
<1>2. ASSUME GuestTyped, UploadTyped, AccessInv', UNCHANGED <<board, inv>>
      PROVE  Typed' /\ AccessInv'
  BY <1>2 DEF GuestTyped, UploadTyped, Typed, AccessTyped, Exists
<1>3. ASSUME Guest, UNCHANGED upload PROVE Typed' /\ AccessInv'
  BY <1>2, <1>3, GuestSteps DEF UploadTyped, Typed, AccessTyped
<1>4. ASSUME NEW q \in Requests, Served(q) PROVE Typed' /\ AccessInv'
  BY <1>2, <1>4, ServedSteps
<1>5. ASSUME UNCHANGED accessVars, UploadTyped PROVE Typed' /\ AccessInv'
  <2>1. GuestTyped
    BY <1>5 DEF GuestTyped, Typed, AccessTyped, accessVars
  <2>2. CookieInv' /\ ContextInv'
    BY <1>5, ClientsStay DEF accessVars
  <2>3. \A i, epoch, write : Fixes(i, epoch, write)' <=> Fixes(i, epoch, write)
    BY <1>5 DEF Fixes, Past, Current, Epoch, Usable, EffectiveWrite, accessVars
  <2>4. /\ \A i, row : ReadInv(i, row)' <=> ReadInv(i, row)
        /\ \A i, epoch : Past(i, epoch)' <=> Past(i, epoch)
        /\ \A s : SentInv(s)' <=> SentInv(s)
    BY <1>5 DEF ReadInv, Past, SentInv, accessVars
  <2>5. \A q \in Requests : Holds(req[q])'
    BY <1>5, <2>3, <2>4 DEF AccessInv, Holds, accessVars
  <2> QED
    BY <1>2, <1>5, <2>1, <2>2, <2>5 DEF AccessInv, accessVars
<1>6. ASSUME NEW u \in UploadIds, UploadElapses(u) \/ Prune(u)
      PROVE  Typed' /\ AccessInv'
  <2>1. UNCHANGED accessVars /\ upload[u] # NoUpload /\ Typed
    BY <1>6 DEF UploadElapses, Prune, accessVars
  <2>2. CASE UploadElapses(u)
    <3> DEFINE row == [upload[u] EXCEPT !.expired = TRUE]
    <3>1. upload[u] \in UploadRows
      BY <2>1 DEF Typed, AccessTyped
    <3>2. row \in UploadRows
      BY <3>1 DEF UploadRows
    <3>3. upload' = [upload EXCEPT ![u] = row]
      BY <2>2 DEF UploadElapses
    <3> HIDE DEF row
    <3>4. UploadTyped
      BY <2>1, <3>2, <3>3 DEF UploadTyped, Typed, AccessTyped
    <3> QED
      BY <1>5, <2>1, <3>4
  <2>3. CASE Prune(u)
    <3>1. upload' = [upload EXCEPT ![u] = NoUpload]
      BY <2>3 DEF Prune
    <3>2. UploadTyped
      BY <2>1, <3>1 DEF UploadTyped, Typed, AccessTyped
    <3> QED
      BY <1>5, <2>1, <3>2
  <2> QED
    BY <1>6, <2>2, <2>3
<1>7. CASE UNCHANGED vars
  <2>1. UNCHANGED accessVars /\ UNCHANGED upload
    BY <1>7 DEF vars
  <2>2. Typed' /\ AccessInv'
    BY <1>5, <2>1 DEF UploadTyped, Typed, AccessTyped
  <2>3. \A g \in Guests : Active(g)' = Active(g) /\ Inserters(g)' = Inserters(g)
    BY <2>1 DEF Active, Inserters, accessVars
  <2>4. QuotaInv'
    BY <2>3 DEF QuotaInv
  <2> QED
    BY <2>2, <2>4
<1>8. CASE Next
  BY <1>1, <1>3, <1>4, <1>6, <1>8, QuotaSteps DEF Next
<1> QED
  BY <1>7, <1>8

\* It holds in every reachable state.
LEMMA AlwaysInv == Spec => []IInv
BY InitInv, NextInv, PTL DEF Spec

(* Whatever cookie the server still accepts was got with the link as it is *)
(* now, and its invitation is not revoked, however often links are rotated *)
(* and revoked (principal_from_request, rotate_invitation).                *)
THEOREM CookiesAreCurrent == Spec => []LiveCookieIsCurrent
<1>1. IInv => LiveCookieIsCurrent
  BY DEF IInv, AccessInv, CookieInv, LiveCookieIsCurrent
<1> QED
  BY <1>1, AlwaysInv, PTL

(* As long as an epoch is the current one, it allows what it allowed when  *)
(* it was handed out (guest_context, _access_epoch).                       *)
THEOREM EpochsFixRights == Spec => []EpochFixesRights
<1>1. ASSUME IInv PROVE EpochFixesRights
  <2>1. ASSUME NEW g \in Guests, ctx[g] # NoContext
        PROVE  LET i == cookie[g].inv IN
               ctx[g].epoch = Current(i) /\ Usable(inv[i], board) =>
                 ctx[g].write = EffectiveWrite(inv[i], board)
    BY <1>1, <2>1 DEF IInv, AccessInv, ContextInv, Fixes
  <2>2. ASSUME NEW q \in Requests, req[q].pc \in {"mutation", "body"}
        PROVE  LET i == cookie[req[q].guest].inv IN
               req[q].epoch = Current(i) /\ Usable(inv[i], board) =>
                 EffectiveWrite(inv[i], board)
    <3>1. Holds(req[q])
      BY <1>1 DEF IInv, AccessInv
    <3>2. CASE req[q].pc = "body"
      BY <3>1, <3>2 DEF Holds, Fixes
    <3>3. CASE req[q].pc = "mutation"
      <4>1. "mutation" \in Asks
        BY <1>1, <3>3 DEF IInv, Typed, AccessTyped, Asking, Reading, Admitted, AtBody, Inserting,
           AtParts, AtEnvelope, Idle
      <4> QED
        BY <3>1, <3>3, <4>1 DEF Holds, Fixes
    <3> QED
      BY <2>2, <3>2, <3>3
  <2> QED
    BY <2>1, <2>2 DEF EpochFixesRights
<1> QED
  BY <1>1, AlwaysInv, PTL

(* Although a request reads the invitation and the board in two statements,*)
(* a change is admitted only if it was sent with the epoch that was current*)
(* when it arrived (principal_from_request, validate_access_epoch_header). *)
THEOREM StaleEpochsAreRefused == Spec => []StaleEpochRefused
<1>1. IInv => StaleEpochRefused
  BY DEF IInv, AccessInv, Holds, StaleEpochRefused
<1> QED
  BY <1>1, AlwaysInv, PTL

(* Uploads are well formed, what is staged lands whole, by whom and under  *)
(* the epoch it was started, and the quota is exceeded by no more than the *)
(* requests that raced (start, validated_envelope).                        *)
THEOREM UploadsAreSound == Spec => []UploadsSound
<1>1. ASSUME IInv PROVE UploadsSound
  <2>1. TypeOK
    <3>1. AccessTypeOK
      BY <1>1, Known DEF IInv, Typed, AccessTyped, AccessTypeOK, Asking, Reading, Admitted, AtBody,
         Inserting, AtParts, AtEnvelope, Idle
    <3> QED
      BY <1>1, <3>1 DEF IInv, Typed, AccessTyped, TypeOK
  <2>2. StagedWhole
    BY <1>1 DEF IInv, AccessInv, Holds, StagedWhole
  <2>3. QuotaNearlyKept
    <3> SUFFICES ASSUME NEW g \in Guests
        PROVE  Cardinality(Active(g)) < MaxActive + Cardinality(Requests)
      BY DEF QuotaNearlyKept
    <3> QED
      BY <1>1, CountsAreNumbers DEF IInv, QuotaInv
  <2> QED
    BY <2>1, <2>2, <2>3 DEF UploadsSound
<1> QED
  BY <1>1, AlwaysInv, PTL

-----------------------------------------------------------------------------
(* Live collaboration: the sockets of guests over the same rows, cookies and *)
(* requests.                                                                 *)

Capabilities == "access.capabilities.changed"
Revocation == "access.revoked"

Managing == [pc : {"manage"}, doc : BoardRows]
Publishing ==
    [pc : {"publish"}, type : {Capabilities, Revocation}, whom : SUBSET Invitations,
     doc : BoardRows]

\* As long as no two requests of the teacher overlap, the one at work knows the board,
\* unless retention deleted it.
OneAtATime ==
    ~crossed =>
        /\ \A h, k \in Handlers : handler[h] # Idle /\ handler[k] # Idle => h = k
        /\ \A h \in Handlers : handler[h] # Idle =>
              handler[h].doc = board \/ board.life = "deleted"

\* The request has committed and is about to tell the guests of i.
Tells(h, type, i) ==
    handler[h].pc = "publish" /\ handler[h].type = type /\ i \in handler[h].whom

RevocationQueued(socket) ==
    \E n \in DOMAIN socket.queue : socket.queue[n].type = Revocation

\* A connection is of a guest with a cookie, and of that cookie's credential.
Fit(x) ==
    /\ x \in SocketRows /\ Len(x.queue) <= MaxQueue
    /\ cookie[x.guest] # NoCookie /\ x.cred = cookie[x.guest].cred

Admits(x) == cookie[x.guest].inv
Superseded(x) == inv[Admits(x)].cred # x.cred \/ board.life = "deleted"

\* Since its check a socket that missed nothing has its revocation told or queued.
Heard(x) ==
    x.pc \in {"checked", "accepted", "open"} /\ ~x.lost /\ Superseded(x) =>
        \/ \E h \in Handlers : Tells(h, Revocation, Admits(x))
        \/ x.pc = "open" /\ RevocationQueued(x)

Changes(event) == event.type = Capabilities

\* What the right to write is once the queue is relayed.
EndsIn(queue, write, v) ==
    \/ \E n \in DOMAIN queue : /\ Changes(queue[n]) /\ queue[n].write = v
                               /\ \A m \in DOMAIN queue : Changes(queue[m]) => m <= n
    \/ write = v /\ \A m \in DOMAIN queue : ~Changes(queue[m])

\* Since its ticket the right of one that missed nothing ends in that of the rows, or
\* the change is still to be told.
Flagged(x) ==
    /\ x.pc \in {"ticket", "checked", "accepted", "open"}
    /\ ~x.stale /\ ~Superseded(x) /\ ~crossed /\ ~inv[Admits(x)].expired
    => \/ EndsIn(x.queue, x.write, EffectiveWrite(inv[Admits(x)], board))
       \/ \E h \in Handlers : Tells(h, Capabilities, Admits(x))

Sound(x) == Fit(x) /\ Heard(x) /\ Flagged(x)

\* What LiveInv asks of the sockets, of the teacher's requests and of the roster.
SocketsInv ==
    /\ sock \in [Sockets -> {Closed} \cup SocketRows]
    /\ \A s \in Sockets : sock[s] # Closed => Sound(sock[s])
HandlersInv ==
    /\ handler \in [Handlers -> {Idle} \cup Managing \cup Publishing]
    /\ crossed \in BOOLEAN
    /\ OneAtATime
RosterInv == roster \subseteq Guests /\ stray \subseteq Guests /\ NoGhosts

LiveInv == AccessTyped /\ AccessInv /\ SocketsInv /\ HandlersInv /\ RosterInv

\* A connection that is not closed has its fields.
LEMMA Opened ==
    ASSUME SocketsInv, NEW s \in Sockets
    PROVE  /\ sock[s] # Closed => sock[s] \in SocketRows /\ sock[s].pc # "closed"
                                  /\ Sound(sock[s])
           /\ sock[s].pc # "closed" => sock[s] # Closed
BY DEF SocketsInv, Sound, Fit, Closed, SocketRows

\* What a request of the teacher is at.
LEMMA HandlerKnown ==
    ASSUME HandlersInv, NEW h \in Handlers
    PROVE  /\ handler[h].pc = "manage" => handler[h] \in Managing /\ handler[h] # Idle
           /\ handler[h].pc = "publish" => handler[h] \in Publishing /\ handler[h] # Idle
           /\ handler[h] # Idle => handler[h].pc \in {"manage", "publish"}
           /\ handler[h].pc \in {"idle", "manage", "publish"}
BY DEF HandlersInv, Idle, Managing, Publishing

\* A queue with an event more, and without its oldest.
LEMMA Queues ==
    ASSUME NEW q \in Seq(Events), NEW e \in Events
    PROVE  /\ Append(q, e) \in Seq(Events) /\ Len(Append(q, e)) = Len(q) + 1
           /\ DOMAIN q = 1..Len(q) /\ Len(q) \in Nat
           /\ Append(q, e)[Len(q) + 1] = e
           /\ \A n \in 1..Len(q) : Append(q, e)[n] = q[n]
           /\ q # <<>> => /\ Tail(q) \in Seq(Events) /\ Len(Tail(q)) = Len(q) - 1
                          /\ Head(q) = q[1] /\ Head(q) \in Events /\ Len(q) >= 1
                          /\ \A n \in 1..(Len(q) - 1) : Tail(q)[n] = q[n + 1]
OBVIOUS

\* An event that changes the right decides it; another leaves it.
LEMMA EndsAppended ==
    ASSUME NEW q \in Seq(Events), NEW e \in Events, NEW w, NEW v
    PROVE  /\ Changes(e) => EndsIn(Append(q, e), w, e.write)
           /\ ~Changes(e) /\ EndsIn(q, w, v) => EndsIn(Append(q, e), w, v)
<1> DEFINE p == Append(q, e)
<1>1. /\ p \in Seq(Events) /\ Len(p) = Len(q) + 1 /\ Len(q) \in Nat
      /\ DOMAIN q = 1..Len(q) /\ DOMAIN p = 1..(Len(q) + 1)
      /\ p[Len(q) + 1] = e /\ \A n \in 1..Len(q) : p[n] = q[n]
  BY Queues
<1> HIDE DEF p
<1>2. Changes(e) => EndsIn(p, w, e.write)
  BY <1>1 DEF EndsIn
<1>3. ASSUME ~Changes(e), EndsIn(q, w, v) PROVE EndsIn(p, w, v)
  <2>1. \A m \in DOMAIN p : Changes(p[m]) => m \in DOMAIN q /\ Changes(q[m])
    BY <1>1, <1>3
  <2>2. \A n \in DOMAIN q : n \in DOMAIN p /\ p[n] = q[n]
    BY <1>1
  <2> QED
    BY <1>3, <2>1, <2>2 DEF EndsIn
<1> QED
  BY <1>2, <1>3 DEF p

\* Relaying the oldest change leaves what the right will be.
LEMMA EndsRelayed ==
    ASSUME NEW q \in Seq(Events), q # <<>>, Changes(Head(q)), NEW w, NEW v, EndsIn(q, w, v)
    PROVE  EndsIn(Tail(q), Head(q).write, v)
<1> DEFINE p == Tail(q)
<1>1. /\ Len(q) \in Nat /\ Len(q) >= 1 /\ DOMAIN q = 1..Len(q)
      /\ p \in Seq(Events) /\ Len(p) = Len(q) - 1 /\ Head(q) = q[1]
      /\ \A n \in 1..(Len(q) - 1) : p[n] = q[n + 1]
  BY Queues
<1>2. DOMAIN p = 1..(Len(q) - 1)
  BY <1>1
<1> HIDE DEF p
<1>3. PICK n \in DOMAIN q : /\ Changes(q[n]) /\ q[n].write = v
                            /\ \A m \in DOMAIN q : Changes(q[m]) => m <= n
  BY <1>1 DEF EndsIn
<1>4. \A m \in DOMAIN p : m + 1 \in DOMAIN q /\ p[m] = q[m + 1]
  BY <1>1, <1>2
<1>5. CASE n = 1
  <2>1. \A m \in DOMAIN p : ~Changes(p[m])
    BY <1>2, <1>3, <1>4, <1>5
  <2> QED
    BY <1>1, <1>3, <1>5, <2>1 DEF EndsIn, p
<1>6. CASE n # 1
  <2>1. n - 1 \in DOMAIN p /\ p[n - 1] = q[n]
    BY <1>1, <1>2, <1>6
  <2>2. \A m \in DOMAIN p : Changes(p[m]) => m <= n - 1
    BY <1>1, <1>2, <1>3, <1>4
  <2> QED
    BY <1>3, <2>1, <2>2 DEF EndsIn, p
<1> QED
  BY <1>5, <1>6

-----------------------------------------------------------------------------
(* What the steps leave of the rows                                        *)

\* A step that leaves the rows alone keeps what holds of them.
LEMMA AccessStays ==
    ASSUME AccessTyped, AccessInv, UNCHANGED accessVars
    PROVE  AccessTyped' /\ AccessInv'
<1>1. AccessTyped' /\ CookieInv' /\ ContextInv'
  BY ClientsStay DEF AccessTyped, accessVars, Exists
<1>2. \A i, epoch, write : Fixes(i, epoch, write)' <=> Fixes(i, epoch, write)
  BY DEF Fixes, Past, Current, Epoch, Usable, EffectiveWrite, accessVars
<1>3. /\ \A i, row : ReadInv(i, row)' <=> ReadInv(i, row)
      /\ \A i, epoch : Past(i, epoch)' <=> Past(i, epoch)
      /\ \A s : SentInv(s)' <=> SentInv(s)
  BY DEF ReadInv, Past, SentInv, accessVars
<1>4. \A q \in Requests : Holds(req[q])'
  BY <1>2, <1>3 DEF AccessInv, Holds, accessVars
<1> QED
  BY <1>1, <1>4 DEF AccessInv

\* What a request of the teacher does when it commits: it changes the rights of one
\* invitation, or withdraws them, or changes the board, or deletes it; and it is left
\* with the events of what it did.
Told(h, type, whom, doc) ==
    handler' = [handler EXCEPT ![h] = [pc |-> "publish", type |-> type, whom |-> whom,
                                       doc |-> doc]]
OnlyRow(i) == \A j \in Invitations \ {i} : inv'[j] = inv[j]
Updates(h, i) ==
    /\ OnlyRow(i) /\ inv'[i].cred = inv[i].cred /\ board' = board
    /\ Told(h, Capabilities, {i}, handler[h].doc)
Withdraws(h, i) ==
    /\ OnlyRow(i) /\ inv'[i].cred # inv[i].cred /\ board' = board
    /\ Told(h, Revocation, {i}, board)
Rearranges(h) ==
    /\ inv' = inv /\ board'.life # "deleted"
    /\ \/ Told(h, Capabilities, Invitations, board')
       \/ /\ handler[h].doc.life # board.life
          /\ handler' = [handler EXCEPT ![h] = Idle]
Removes(h) ==
    /\ inv' = inv /\ board'.life = "deleted"
    /\ Told(h, Revocation, Invitations, board')

\* Every commit is one of these.
LEMMA CommitEffects ==
    ASSUME LiveInv, NEW h \in Handlers, Commit(h)
    PROVE  /\ Teacher /\ Undeleted /\ handler[h].pc = "manage"
           /\ UNCHANGED <<sock, crossed, roster, stray, cookie, req>>
           /\ \/ \E i \in Invitations : Exists(i) /\ (Updates(h, i) \/ Withdraws(h, i))
              \/ Rearranges(h) \/ Removes(h)
<1>1. handler[h].pc = "manage" /\ UNCHANGED <<sock, crossed, roster, stray>>
  BY DEF Commit
<1>2. AccessTyped
  BY DEF LiveInv
<1>3. ASSUME NEW i \in Invitations, NEW STATE row, Renew(i, row)
      PROVE  /\ Undeleted /\ Exists(i) /\ OnlyRow(i) /\ inv'[i] = Raised(row)
             /\ UNCHANGED <<board, cookie, req>>
  BY <1>2, <1>3 DEF Renew, Locked, AccessTyped, OnlyRow
<1>4. ASSUME NEW i \in Invitations, Exists(i)
      PROVE  /\ inv[i] \in InvitationRows /\ inv[i].cred \in Int
             /\ Raised([inv[i] EXCEPT !.write = ~@]).cred = inv[i].cred
             /\ Raised([inv[i] EXCEPT !.expired = FALSE]).cred = inv[i].cred
             /\ Raised([inv[i] EXCEPT !.revoked = TRUE, !.cred = @ + 1]).cred
                  = inv[i].cred + 1
             /\ Raised([inv[i] EXCEPT !.revoked = FALSE, !.cred = @ + 1,
                                      !.secret = @ + 1]).cred = inv[i].cred + 1
  <2>1. inv[i] \in InvitationRows /\ inv[i].cred \in Int
    BY <1>2, <1>4, RowKnown, AccessBoundAssumption DEF InvitationRows, Versions
  <2> QED
    BY <2>1, Renewals DEF Raised, InvitationRows
<1>5. ASSUME NEW i \in Invitations, CommitUpdate(h, i)
      PROVE  Teacher /\ Undeleted /\ Exists(i) /\ Updates(h, i) /\ UNCHANGED <<cookie, req>>
  BY <1>3, <1>4, <1>5
     DEF CommitUpdate, SwitchWrites, SetExpiry, Publishes, Updates, Told, Capabilities, Teacher
<1>6. ASSUME NEW i \in Invitations, CommitRevoke(h, i)
      PROVE  Teacher /\ Undeleted /\ Exists(i) /\ Withdraws(h, i) /\ UNCHANGED <<cookie, req>>
  <2>1. ASSUME NEW STATE row, Renew(i, row),
               Exists(i) => Raised(row).cred = inv[i].cred + 1
        PROVE  /\ Undeleted /\ Exists(i) /\ OnlyRow(i) /\ inv'[i].cred # inv[i].cred
               /\ UNCHANGED <<board, cookie, req>>
    <3>1. /\ Undeleted /\ Exists(i) /\ OnlyRow(i) /\ inv'[i] = Raised(row)
          /\ UNCHANGED <<board, cookie, req>>
      BY <1>3, <2>1
    <3>2. inv[i].cred \in Int
      BY <1>4, <3>1
    <3>3. inv'[i].cred = inv[i].cred + 1
      BY <2>1, <3>1
    <3> QED
      BY <3>1, <3>2, <3>3
  <2>2. \/ Renew(i, [inv[i] EXCEPT !.revoked = TRUE, !.cred = @ + 1])
        \/ Renew(i, [inv[i] EXCEPT !.revoked = FALSE, !.cred = @ + 1, !.secret = @ + 1])
    BY <1>6 DEF CommitRevoke, Revoke, Rotate
  <2>3. /\ Undeleted /\ Exists(i) /\ OnlyRow(i) /\ inv'[i].cred # inv[i].cred
        /\ UNCHANGED <<board, cookie, req>>
    BY <1>4, <2>1, <2>2
  <2>4. Teacher /\ Told(h, Revocation, {i}, board)
    BY <1>6 DEF CommitRevoke, Teacher, Publishes, Told, Revocation
  <2> QED
    BY <2>3, <2>4 DEF Withdraws
<1>7. board \in BoardRows
  BY <1>2 DEF AccessTyped
<1>8. ASSUME CommitBoard(h)
      PROVE  Teacher /\ Undeleted /\ Rearranges(h) /\ UNCHANGED <<cookie, req>>
  <2>1. /\ Teacher /\ Undeleted /\ UNCHANGED <<inv, cookie, req>>
        /\ board'.life # "deleted"
    BY <1>7, <1>8 DEF CommitBoard, SetGuestWrites, Archive, Unarchive, BoardBecomes, Undeleted,
       Teacher, BoardRows
  <2> QED
    BY <1>8, <2>1 DEF CommitBoard, Rearranges, Told, Publishes, Capabilities
<1>9. ASSUME CommitDelete(h)
      PROVE  Teacher /\ Undeleted /\ Removes(h) /\ UNCHANGED <<cookie, req>>
  BY <1>7, <1>9 DEF CommitDelete, Delete, BoardBecomes, Removes, Told, Publishes, Revocation,
     Teacher, BoardRows
<1> QED
  BY <1>1, <1>5, <1>6, <1>8, <1>9 DEF Commit

-----------------------------------------------------------------------------
(* What the steps leave of the connections                                 *)

\* Every connection that was sound still is, as long as it stays as it is.
RowsKept == \A x \in SocketRows : Sound(x) => Sound(x)'

\* The invitation a sound connection is of.
LEMMA Behindhand ==
    ASSUME LiveInv, NEW x, Fit(x)
    PROVE  /\ x \in SocketRows /\ x.guest \in Guests /\ cookie[x.guest] # NoCookie
           /\ Admits(x) \in Invitations /\ Exists(Admits(x))
           /\ inv[Admits(x)] \in InvitationRows
           /\ x.cred <= inv[Admits(x)].cred
           /\ x.cred \in Int /\ inv[Admits(x)].cred \in Int
           /\ x.cred = inv[Admits(x)].cred => ~inv[Admits(x)].revoked
<1>1. x \in SocketRows /\ x.guest \in Guests /\ cookie[x.guest] # NoCookie
        /\ x.cred = cookie[x.guest].cred
  BY DEF Fit, SocketRows
<1>2. /\ Admits(x) \in Invitations /\ Exists(Admits(x))
      /\ inv[Admits(x)] \in InvitationRows
  BY <1>1, CookieOpens DEF LiveInv, AccessInv, Admits
<1>3. x.cred \in Int /\ inv[Admits(x)].cred \in Int
  BY <1>1, <1>2, AccessBoundAssumption DEF SocketRows, InvitationRows, Versions
<1>4. /\ x.cred <= inv[Admits(x)].cred
      /\ x.cred = inv[Admits(x)].cred => ~inv[Admits(x)].revoked
  BY <1>1 DEF LiveInv, AccessInv, CookieInv, Admits
<1> QED
  BY <1>1, <1>2, <1>3, <1>4

\* A step that leaves the rows and what is to be told.
LEMMA RowsStay ==
    ASSUME LiveInv, UNCHANGED <<board, inv>>, crossed => crossed',
           \A g \in Guests : cookie[g] # NoCookie => cookie'[g] = cookie[g],
           \A h \in Handlers : \A type, i : Tells(h, type, i) => Tells(h, type, i)'
    PROVE  RowsKept
<1> SUFFICES ASSUME NEW x \in SocketRows, Sound(x) PROVE Sound(x)'
  BY DEF RowsKept
<1>1. cookie'[x.guest] = cookie[x.guest]
  BY DEF Sound, Fit, SocketRows
<1>2. /\ Fit(x)' /\ Admits(x)' = Admits(x)
      /\ Superseded(x)' <=> Superseded(x)
  BY <1>1 DEF Sound, Fit, Admits, Superseded
<1>3. Heard(x)'
  BY <1>2 DEF Sound, Heard
<1>4. EffectiveWrite(inv[Admits(x)], board)' = EffectiveWrite(inv[Admits(x)], board)
  BY <1>2 DEF EffectiveWrite
<1>5. inv'[Admits(x)'].expired = inv[Admits(x)].expired
  BY <1>2
<1>6. Flagged(x)'
  BY <1>2, <1>4, <1>5 DEF Sound, Flagged
<1> QED
  BY <1>2, <1>3, <1>6 DEF Sound

\* A new invitation, and one that expires.
LEMMA TimePasses ==
    ASSUME LiveInv, UNCHANGED socketVars, NEW i \in Invitations,
           (\E write \in BOOLEAN : CreateInvitation(i, write)) \/ Elapse(i)
    PROVE  RowsKept
<1> SUFFICES ASSUME NEW x \in SocketRows, Sound(x) PROVE Sound(x)'
  BY DEF RowsKept
<1> DEFINE j == Admits(x)
<1>1. /\ j \in Invitations /\ Exists(j) /\ inv[j] \in InvitationRows
      /\ UNCHANGED <<board, cookie, handler, crossed>>
  BY Behindhand DEF Sound, CreateInvitation, Elapse, socketVars
<1>2. /\ inv'[j].cred = inv[j].cred /\ inv'[j].write = inv[j].write
      /\ inv'[j].revoked = inv[j].revoked
      /\ inv'[j].expired = inv[j].expired \/ inv'[j].expired
  <2>1. ASSUME NEW write \in BOOLEAN, CreateInvitation(i, write) PROVE inv'[j] = inv[j]
    BY <1>1, <2>1 DEF CreateInvitation, LiveInv, AccessTyped, Exists
  <2>2. ASSUME Elapse(i)
        PROVE  inv'[j] = inv[j] \/ inv'[j] = [inv[j] EXCEPT !.expired = TRUE]
    BY <1>1, <2>2 DEF Elapse, LiveInv, AccessTyped
  <2> QED
    BY <1>1, <2>1, <2>2 DEF InvitationRows
<1>3. /\ Fit(x)' /\ Admits(x)' = j
      /\ Superseded(x)' <=> Superseded(x)
      /\ \A h \in Handlers : \A type, k : Tells(h, type, k)' <=> Tells(h, type, k)
  BY <1>1, <1>2 DEF Sound, Fit, Admits, Superseded, Tells
<1>4. Heard(x)'
  BY <1>3 DEF Sound, Heard
<1>5. EffectiveWrite(inv[j], board)' = EffectiveWrite(inv[j], board)
  BY <1>1, <1>2, <1>3 DEF EffectiveWrite
<1>6. Flagged(x)'
  <2>1. ~inv[j].expired \/ inv'[j].expired
    BY <1>2
  <2> QED
    BY <1>1, <1>3, <1>5, <2>1 DEF Sound, Flagged
<1> QED
  BY <1>3, <1>4, <1>6 DEF Sound

\* The commit of a request: who is withdrawn is about to be told, and whose rights change.
LEMMA CommitKeeps ==
    ASSUME LiveInv, NEW h \in Handlers, Commit(h)
    PROVE  RowsKept /\ HandlersInv'
<1>1. /\ Teacher /\ Undeleted /\ handler[h].pc = "manage"
      /\ UNCHANGED <<sock, crossed, roster, stray, cookie, req>>
      /\ \/ \E i \in Invitations : Exists(i) /\ (Updates(h, i) \/ Withdraws(h, i))
         \/ Rearranges(h) \/ Removes(h)
  BY CommitEffects
<1>2. /\ handler \in [Handlers -> {Idle} \cup Managing \cup Publishing]
      /\ handler[h] \in Managing /\ handler[h] # Idle /\ handler[h].doc \in BoardRows
  BY <1>1, HandlerKnown DEF LiveInv, HandlersInv, Managing
<1>3. AccessTyped /\ RightsStep /\ TypedRights
  BY <1>1, TeacherSteps DEF LiveInv
<1>4. ASSUME NEW type, NEW whom, NEW doc, Told(h, type, whom, doc)
      PROVE  /\ \A k \in Handlers \ {h} : handler'[k] = handler[k]
             /\ \A i \in whom : Tells(h, type, i)'
             /\ handler'[h].doc = doc /\ handler'[h] # Idle
  BY <1>2, <1>4 DEF Told, Tells, Idle
<1>5. \A k \in Handlers \ {h} : handler'[k] = handler[k]
  BY <1>1, <1>2, <1>4 DEF Updates, Withdraws, Rearranges, Removes
<1>6. \A k \in Handlers : \A type, i : Tells(k, type, i) => Tells(k, type, i)'
  BY <1>1, <1>5 DEF Tells
<1>7. ASSUME ~crossed
      PROVE  /\ handler[h].doc = board
             /\ \A k \in Handlers \ {h} : handler[k] = Idle /\ handler'[k] = Idle
  BY <1>1, <1>2, <1>5, <1>7 DEF LiveInv, HandlersInv, OneAtATime, Undeleted
<1>8. HandlersInv'
  <2>1. handler' \in [Handlers -> {Idle} \cup Managing \cup Publishing]
    <3>1. ASSUME NEW type \in {Capabilities, Revocation}, NEW whom \in SUBSET Invitations,
                 NEW doc \in BoardRows, Told(h, type, whom, doc)
          PROVE  handler' \in [Handlers -> {Idle} \cup Managing \cup Publishing]
      BY <1>2, <3>1 DEF Told, Publishing
    <3>2. board \in BoardRows /\ board' \in BoardRows
      BY <1>3 DEF AccessTyped, TypedRights
    <3> QED
      BY <1>1, <1>2, <3>1, <3>2 DEF Updates, Withdraws, Rearranges, Removes
  <2>2. ASSUME ~crossed
        PROVE  handler'[h] = Idle \/ handler'[h].doc = board'
    BY <1>1, <1>2, <1>4, <1>7, <2>2 DEF Updates, Withdraws, Rearranges, Removes
  <2>3. OneAtATime'
    BY <1>1, <1>7, <2>2 DEF OneAtATime
  <2> QED
    BY <1>1, <2>1, <2>3 DEF LiveInv, HandlersInv
<1>9. ASSUME NEW x \in SocketRows, Sound(x) PROVE Sound(x)'
  <2>0. PICK j \in Invitations : j = Admits(x)
    BY <1>9, Behindhand DEF Sound
  <2>1. /\ Exists(j) /\ inv[j] \in InvitationRows
        /\ x.cred \in Int /\ inv[j].cred \in Int /\ x.cred <= inv[j].cred
    BY <1>9, <2>0, Behindhand DEF Sound
  <2>2. Fit(x)' /\ Admits(x)' = j /\ inv'[j].cred \in Int /\ inv[j].cred <= inv'[j].cred
    <3>1. Fit(x)' /\ Admits(x)' = j
      BY <1>1, <1>9, <2>0 DEF Sound, Fit, Admits
    <3>2. RightsKept(j) /\ inv'[j] \in InvitationRows
      <4>1. RightsKept(j)
        BY <1>3, <2>1 DEF RightsStep
      <4>2. inv'[j] # NoInvitation
        BY <4>1 DEF RightsKept, Exists
      <4> QED
        BY <1>3, <4>1, <4>2 DEF TypedRights
    <3> QED
      BY <3>1, <3>2, AccessBoundAssumption DEF RightsKept, InvitationRows, Versions
  <2>3. Superseded(x)' <=> inv'[j].cred # x.cred \/ board'.life = "deleted"
    BY <2>2 DEF Superseded
  <2>4. Superseded(x) => Superseded(x)'
    BY <1>1, <2>0, <2>1, <2>2, <2>3 DEF Superseded, Undeleted
  <2>5. ASSUME Superseded(x)', ~Superseded(x)
        PROVE  Tells(h, Revocation, j)'
    <3>1. inv'[j] # inv[j] \/ board'.life = "deleted"
      BY <2>0, <2>3, <2>5 DEF Superseded
    <3>2. ASSUME NEW i \in Invitations, Updates(h, i) PROVE FALSE
      BY <2>0, <2>1, <2>3, <2>5, <3>2 DEF Updates, OnlyRow, Superseded
    <3>3. ASSUME NEW i \in Invitations, Withdraws(h, i) PROVE Tells(h, Revocation, j)'
      BY <1>1, <1>4, <2>1, <3>1, <3>3 DEF Withdraws, OnlyRow, Undeleted
    <3>4. ASSUME Rearranges(h) PROVE FALSE
      BY <3>1, <3>4 DEF Rearranges
    <3>5. ASSUME Removes(h) PROVE Tells(h, Revocation, j)'
      BY <1>4, <2>1, <3>5 DEF Removes
    <3> QED
      BY <1>1, <3>2, <3>3, <3>4, <3>5
  <2>6. Heard(x)'
    BY <1>6, <1>9, <2>0, <2>2, <2>5 DEF Sound, Heard
  <2>7. ASSUME ~Superseded(x)', ~crossed
        PROVE  \/ /\ inv'[j] = inv[j] /\ board' = board
               \/ Tells(h, Capabilities, j)'
    <3>1. inv'[j].cred = inv[j].cred /\ board'.life # "deleted"
      BY <2>1, <2>2, <2>3, <2>7
    <3>2. ASSUME NEW i \in Invitations, Updates(h, i) \/ Withdraws(h, i)
          PROVE  \/ /\ inv'[j] = inv[j] /\ board' = board
                 \/ Tells(h, Capabilities, j)'
      BY <1>4, <2>1, <3>1, <3>2 DEF Updates, Withdraws, OnlyRow
    <3>3. ASSUME Rearranges(h) PROVE Tells(h, Capabilities, j)'
      BY <1>4, <1>7, <2>1, <2>7, <3>3 DEF Rearranges
    <3>4. ~Removes(h)
      BY <3>1 DEF Removes
    <3> QED
      BY <1>1, <3>2, <3>3, <3>4
  <2>8. Flagged(x)'
    <3>1. SUFFICES ASSUME x.pc \in {"ticket", "checked", "accepted", "open"}, ~x.stale,
                          ~Superseded(x)', ~crossed', ~inv'[j].expired
          PROVE  \/ EndsIn(x.queue, x.write, EffectiveWrite(inv[j], board)')
                 \/ \E k \in Handlers : Tells(k, Capabilities, j)'
      BY <2>2 DEF Flagged
    <3>2. ~crossed
      BY <1>1, <3>1
    <3>3. CASE inv'[j] = inv[j] /\ board' = board
      <4>1. EffectiveWrite(inv[j], board)' = EffectiveWrite(inv[j], board)
        BY <2>2, <3>3 DEF EffectiveWrite
      <4>2. ~Superseded(x) /\ ~inv[j].expired
        BY <2>4, <3>1, <3>3
      <4> QED
        BY <1>6, <1>9, <2>0, <3>1, <3>2, <4>1, <4>2 DEF Sound, Flagged
    <3> QED
      BY <2>7, <3>1, <3>2, <3>3
  <2> QED
    BY <2>2, <2>6, <2>8 DEF Sound
<1> QED
  BY <1>8, <1>9 DEF RowsKept

-----------------------------------------------------------------------------
(* The events                                                              *)

\* A request that has told, and a step that leaves the board or ends it.
LEMMA HandlerEnds ==
    ASSUME HandlersInv, NEW h \in Handlers, handler' = [handler EXCEPT ![h] = Idle],
           UNCHANGED <<board, crossed>>
    PROVE  /\ HandlersInv' /\ handler'[h] = Idle
           /\ \A k \in Handlers \ {h} : handler'[k] = handler[k]
<1>1. /\ handler' \in [Handlers -> {Idle} \cup Managing \cup Publishing]
      /\ handler'[h] = Idle /\ \A k \in Handlers \ {h} : handler'[k] = handler[k]
  BY DEF HandlersInv
<1> QED
  BY <1>1 DEF HandlersInv, OneAtATime

\* One that missed something is sound: nothing is asked of it.
LEMMA MissedIsSound ==
    ASSUME NEW x, Fit(x), NEW queue \in Seq(Events), Len(queue) <= MaxQueue
    PROVE  Sound(Missed(x)) /\ Sound([Missed(x) EXCEPT !.queue = queue])
<1>1. x \in SocketRows /\ Len(x.queue) <= MaxQueue
  BY DEF Fit
<1>2. ASSUME NEW y \in SocketRows, y.lost, y.stale, y.guest = x.guest, y.cred = x.cred,
             Len(y.queue) <= MaxQueue
      PROVE  Sound(y)
  BY <1>2 DEF Sound, Fit, Heard, Flagged
<1>3. Missed(x) \in SocketRows /\ [Missed(x) EXCEPT !.queue = queue] \in SocketRows
  BY <1>1 DEF Missed, SocketRows
<1>4. Sound(Missed(x))
  <2> DEFINE y == Missed(x)
  <2>1. y.lost /\ y.stale /\ y.guest = x.guest /\ y.cred = x.cred /\ y.queue = x.queue
    BY <1>1 DEF Missed, SocketRows
  <2>2. y \in SocketRows
    BY <1>3
  <2> HIDE DEF y
  <2> QED
    BY <1>1, <1>2, <2>1, <2>2 DEF y
<1>5. Sound([Missed(x) EXCEPT !.queue = queue])
  <2> DEFINE y == [Missed(x) EXCEPT !.queue = queue]
  <2>1. y.lost /\ y.stale /\ y.guest = x.guest /\ y.cred = x.cred /\ y.queue = queue
    BY <1>1 DEF Missed, SocketRows
  <2>2. y \in SocketRows
    BY <1>3
  <2> HIDE DEF y
  <2> QED
    BY <1>2, <2>1, <2>2 DEF y
<1> QED
  BY <1>4, <1>5

\* What a request tells about an invitation.
LEMMA EventKnown ==
    ASSUME LiveInv, NEW h \in Handlers, handler[h].pc = "publish",
           NEW i \in Invitations, Exists(i)
    PROVE  /\ i \in DOMAIN EventsOf(h) <=>
                /\ i \in handler[h].whom
                /\ handler[h].type = Revocation \/ ~(inv[i].revoked \/ inv[i].expired)
           /\ i \in DOMAIN EventsOf(h) =>
                /\ EventsOf(h)[i] \in Events
                /\ EventsOf(h)[i].type = handler[h].type
                /\ EventsOf(h)[i].write = EffectiveWrite(inv[i], handler[h].doc)
<1> DEFINE p == handler[h]
           e == [type |-> p.type, inv |-> i, write |-> EffectiveWrite(inv[i], p.doc)]
<1>1. p \in Publishing
  BY HandlerKnown DEF LiveInv
<1>2. inv[i] \in InvitationRows
  BY RowKnown DEF LiveInv
<1>3. EffectiveWrite(inv[i], p.doc) \in BOOLEAN
  BY <1>1, <1>2 DEF EffectiveWrite, Publishing, BoardRows, InvitationRows
<1>4. e \in Events
  BY <1>1, <1>3 DEF Events, Publishing, Capabilities, Revocation
<1>5. i \in DOMAIN EventsOf(h) => EventsOf(h)[i] = e
  BY DEF EventsOf
<1>6. i \in DOMAIN EventsOf(h) <=>
        /\ i \in p.whom
        /\ p.type = Revocation \/ ~(inv[i].revoked \/ inv[i].expired)
  BY DEF EventsOf, Revocation
<1> QED
  BY <1>4, <1>5, <1>6

\* One that missed something stays sound as long as its cookie stays.
LEMMA MissedStays ==
    ASSUME UNCHANGED cookie, NEW y, Sound(y), y.lost, y.stale
    PROVE  Sound(y)'
<1>1. Fit(y)'
  BY DEF Sound, Fit
<1> QED
  BY <1>1 DEF Sound, Heard, Flagged

\* A request tells: who was to hear of it has it queued or has missed it.
LEMMA PublishKeeps ==
    ASSUME LiveInv, NEW h \in Handlers, PublishEvents(h)
    PROVE  SocketsInv' /\ HandlersInv'
<1> DEFINE events == EventsOf(h)
<1>1. /\ handler[h].pc = "publish" /\ handler' = [handler EXCEPT ![h] = Idle]
      /\ UNCHANGED <<accessVars, crossed, roster, stray>>
      /\ sock' = [s \in Sockets |->
                    IF sock[s] # Closed /\ InvitationOf(s) \in DOMAIN events
                    THEN Offered(sock[s], events[InvitationOf(s)]) ELSE sock[s]]
  BY DEF PublishEvents
<1>2. UNCHANGED <<board, inv, cookie>>
  BY <1>1 DEF accessVars
<1>3. /\ HandlersInv' /\ handler'[h] = Idle
      /\ \A k \in Handlers \ {h} : handler'[k] = handler[k]
  BY <1>1, <1>2, HandlerEnds DEF LiveInv
<1>4. \A k \in Handlers \ {h} : \A type, i : Tells(k, type, i)' <=> Tells(k, type, i)
  BY <1>3 DEF Tells
<1>5. handler[h] \in Publishing /\ handler[h] # Idle
  BY <1>1, HandlerKnown DEF LiveInv
<1>6. ASSUME NEW x \in SocketRows
      PROVE  /\ Fit(x)' <=> Fit(x)
             /\ Admits(x)' = Admits(x)
             /\ Superseded(x)' <=> Superseded(x)
             /\ EffectiveWrite(inv[Admits(x)], board)' = EffectiveWrite(inv[Admits(x)], board)
             /\ inv'[Admits(x)'] = inv[Admits(x)]
  BY <1>2 DEF Fit, Admits, Superseded, EffectiveWrite
<1>7. ASSUME ~crossed, board.life # "deleted"
      PROVE  /\ handler[h].doc = board
             /\ \A k \in Handlers \ {h} : handler[k] = Idle
  BY <1>5, <1>7 DEF LiveInv, HandlersInv, OneAtATime
<1>8. \A k \in Handlers : handler[k] = Idle => \A type, i : ~Tells(k, type, i)
  BY DEF Tells, Idle
<1>9. ASSUME NEW x \in SocketRows, Sound(x), Admits(x) \notin DOMAIN events
      PROVE  Sound(x)'
  <2>0. PICK j \in Invitations : j = Admits(x)
    BY <1>9, Behindhand DEF Sound
  <2>1. /\ Exists(j) /\ inv[j] \in InvitationRows
        /\ x.cred = inv[j].cred => ~inv[j].revoked
    BY <1>9, <2>0, Behindhand DEF Sound
  <2>2. /\ j \notin handler[h].whom \/ handler[h].type # Revocation
        /\ j \in handler[h].whom => inv[j].revoked \/ inv[j].expired
    BY <1>1, <1>9, <2>0, <2>1, EventKnown
  <2>3. ~Tells(h, Revocation, j)
    BY <2>2 DEF Tells
  <2>4. Heard(x)'
    BY <1>4, <1>6, <1>9, <2>0, <2>3 DEF Sound, Heard
  <2>5. ASSUME ~Superseded(x), ~inv[j].expired PROVE ~Tells(h, Capabilities, j)
    BY <2>0, <2>1, <2>2, <2>5 DEF Tells, Superseded
  <2>6. Flagged(x)'
    BY <1>1, <1>4, <1>6, <1>9, <2>0, <2>5 DEF Sound, Flagged
  <2> QED
    BY <1>6, <1>9, <2>4, <2>6 DEF Sound
<1>10. ASSUME NEW x \in SocketRows, Sound(x), Admits(x) \in DOMAIN events,
              x.pc = "open", Len(x.queue) < MaxQueue,
              NEW e, e = events[Admits(x)]
       PROVE  Sound([x EXCEPT !.queue = Append(x.queue, e)])'
  <2> DEFINE y == [x EXCEPT !.queue = Append(x.queue, e)]
  <2>0. PICK j \in Invitations : j = Admits(x)
    BY <1>10, Behindhand DEF Sound
  <2>1. Exists(j)
    BY <1>10, <2>0, Behindhand DEF Sound
  <2>2. /\ e \in Events /\ e.type = handler[h].type
        /\ e.write = EffectiveWrite(inv[j], handler[h].doc)
    BY <1>1, <1>10, <2>0, <2>1, EventKnown
  <2>3. /\ x.queue \in Seq(Events) /\ Append(x.queue, e) \in Seq(Events)
        /\ Len(Append(x.queue, e)) = Len(x.queue) + 1 /\ Len(x.queue) \in Nat
    BY <2>2, Queues DEF SocketRows
  <2>4. /\ y \in SocketRows /\ y.lost = x.lost /\ y.stale = x.stale /\ y.pc = x.pc
        /\ y.guest = x.guest /\ y.cred = x.cred /\ y.write = x.write
        /\ y.queue = Append(x.queue, e)
    BY <2>3 DEF SocketRows
  <2> HIDE DEF y
  <2>5. /\ Fit(y) /\ Admits(y) = j
        /\ Superseded(y) <=> Superseded(x)
    BY <1>10, <2>0, <2>3, <2>4, QueueAssumption DEF Sound, Fit, Admits, Superseded
  <2>6. Heard(y)'
    <3>1. ASSUME RevocationQueued(x) \/ e.type = Revocation PROVE RevocationQueued(y)
      <4>1. /\ DOMAIN x.queue = 1..Len(x.queue) /\ DOMAIN y.queue = 1..(Len(x.queue) + 1)
            /\ y.queue[Len(x.queue) + 1] = e
            /\ \A n \in 1..Len(x.queue) : y.queue[n] = x.queue[n]
        BY <2>2, <2>3, <2>4, Queues
      <4> QED
        BY <2>3, <3>1, <4>1 DEF RevocationQueued
    <3>2. Tells(h, Revocation, j) => e.type = Revocation
      BY <2>2 DEF Tells
    <3> QED
      BY <1>4, <1>6, <1>10, <2>0, <2>4, <2>5, <3>1, <3>2 DEF Sound, Heard
  <2>7. Flagged(y)'
    <3>1. SUFFICES ASSUME ~x.stale, ~Superseded(x), ~crossed, ~inv[j].expired
          PROVE  EndsIn(y.queue, y.write, EffectiveWrite(inv[j], board))
      BY <1>1, <1>6, <2>4, <2>5 DEF Flagged
    <3>2. handler[h].doc = board /\ \A k \in Handlers \ {h} : ~Tells(k, Capabilities, j)
      BY <1>7, <1>8, <3>1 DEF Superseded
    <3>3. CASE Changes(e)
      BY <2>2, <2>3, <2>4, <3>2, <3>3, EndsAppended
    <3>4. CASE ~Changes(e)
      <4>1. ~Tells(h, Capabilities, j)
        BY <2>2, <3>4 DEF Changes, Tells
      <4>2. EndsIn(x.queue, x.write, EffectiveWrite(inv[j], board))
        BY <1>10, <2>0, <3>1, <3>2, <4>1 DEF Sound, Flagged
      <4> QED
        BY <2>2, <2>3, <2>4, <3>4, <4>2, EndsAppended
    <3> QED
      BY <3>3, <3>4
  <2>8. Sound(y)'
    BY <1>6, <2>4, <2>5, <2>6, <2>7 DEF Sound
  <2> QED
    BY <2>8 DEF y
<1>11. ASSUME NEW s \in Sockets, sock[s] # Closed
       PROVE  sock'[s] # Closed /\ sock'[s] \in SocketRows /\ Sound(sock[s])'
  <2>0. PICK x \in SocketRows : x = sock[s]
    BY <1>11, Opened DEF LiveInv
  <2>1. Sound(x)
    BY <1>11, <2>0, Opened DEF LiveInv
  <2>2. sock'[s] = IF Admits(x) \in DOMAIN events THEN Offered(x, events[Admits(x)]) ELSE x
    BY <1>1, <1>11, <2>0 DEF InvitationOf, Admits
  <2>3. ASSUME NEW y, y = sock'[s], Sound(y)', y \in SocketRows
        PROVE  sock'[s] # Closed /\ sock'[s] \in SocketRows /\ Sound(sock[s])'
    BY <2>3 DEF SocketRows, Closed
  <2>4. CASE Admits(x) \notin DOMAIN events
    BY <1>9, <2>1, <2>2, <2>3, <2>4
  <2>5. CASE Admits(x) \in DOMAIN events
    <3>0. PICK e : e = events[Admits(x)]
      OBVIOUS
    <3>1. PICK j \in Invitations : j = Admits(x) /\ Exists(j)
      BY <2>1, Behindhand DEF Sound
    <3>2. e \in Events
      BY <1>1, <2>5, <3>0, <3>1, EventKnown
    <3>3. sock'[s] = Offered(x, e)
      BY <2>2, <2>5, <3>0
    <3>4. /\ x.queue \in Seq(Events) /\ Len(x.queue) <= MaxQueue /\ Len(x.queue) \in Nat
          /\ Fit(x)
      BY <2>1 DEF Sound, Fit, SocketRows
    <3>5. CASE x.pc # "open"
      <4>1. Sound(Missed(x)) /\ Missed(x) \in SocketRows
        BY <3>4, MissedIsSound DEF Sound, Fit
      <4>2. Missed(x).lost /\ Missed(x).stale
        BY DEF Missed, SocketRows
      <4>3. Sound(Missed(x))'
        BY <1>2, <4>1, <4>2, MissedStays
      <4> QED
        BY <2>3, <3>3, <3>5, <4>1, <4>3 DEF Offered
    <3>6. CASE x.pc = "open" /\ Len(x.queue) < MaxQueue
      <4>1. Sound([x EXCEPT !.queue = Append(x.queue, e)])'
        BY <1>10, <2>1, <2>5, <3>0, <3>6
      <4>2. [x EXCEPT !.queue = Append(x.queue, e)] \in SocketRows
        BY <3>2, <3>4, Queues DEF SocketRows
      <4> QED
        BY <2>3, <3>3, <3>6, <4>1, <4>2 DEF Offered
    <3>7. CASE x.pc = "open" /\ ~(Len(x.queue) < MaxQueue)
      <4> DEFINE q == Append(Tail(x.queue), e)
      <4>1. q \in Seq(Events) /\ Len(q) <= MaxQueue
        BY <3>2, <3>4, <3>7, Queues, QueueAssumption
      <4> HIDE DEF q
      <4> DEFINE y == [Missed(x) EXCEPT !.queue = q]
      <4>2. Sound(y) /\ y \in SocketRows
        BY <3>4, <4>1, MissedIsSound DEF Sound, Fit
      <4>3. y.lost /\ y.stale
        BY DEF Missed, SocketRows
      <4>4. sock'[s] = y
        BY <3>3, <3>7 DEF Offered, Missed, SocketRows, q
      <4> HIDE DEF y
      <4>5. Sound(y)'
        BY <1>2, <4>2, <4>3, MissedStays
      <4> QED
        BY <2>3, <4>2, <4>4, <4>5
    <3> QED
      BY <3>5, <3>6, <3>7
  <2> QED
    BY <2>4, <2>5
<1>12. ASSUME NEW s \in Sockets, sock[s] = Closed PROVE sock'[s] = Closed
  BY <1>1, <1>12
<1>13. SocketsInv'
  <2>1. sock' \in [Sockets -> {Closed} \cup SocketRows]
    BY <1>1, <1>11, <1>12
  <2> QED
    BY <1>11, <1>12, <2>1 DEF SocketsInv
<1> QED
  BY <1>3, <1>13

\* Those who miss something are sound, and the others as they were.
LEMMA DeafKeeps ==
    ASSUME LiveInv, NEW deaf \in SUBSET Sockets, Deaf(deaf), UNCHANGED cookie,
           \A s \in deaf : sock[s] # Closed,
           \A s \in Sockets \ deaf : sock[s] # Closed =>
             \E x \in SocketRows : x = sock[s] /\ Sound(x)'
    PROVE  SocketsInv'
<1>1. \A s \in Sockets : sock'[s] = IF s \in deaf THEN Missed(sock[s]) ELSE sock[s]
  BY DEF Deaf
<1>2. ASSUME NEW s \in deaf
      PROVE  sock'[s] # Closed /\ sock'[s] \in SocketRows /\ Sound(sock[s])'
  <2>1. PICK x \in SocketRows : x = sock[s] /\ Sound(x)
    BY Opened DEF LiveInv
  <2> DEFINE y == Missed(x)
  <2>2. Sound(y) /\ y \in SocketRows
    BY <2>1, MissedIsSound DEF Sound, Fit, SocketRows
  <2>3. y.lost /\ y.stale
    BY DEF Missed, SocketRows
  <2>4. sock'[s] = y
    BY <1>1, <2>1
  <2> HIDE DEF y
  <2>5. Sound(y)'
    BY <2>2, <2>3, MissedStays
  <2> QED
    BY <2>2, <2>4, <2>5 DEF Closed, SocketRows
<1>3. ASSUME NEW s \in Sockets \ deaf, sock[s] # Closed
      PROVE  sock'[s] \in SocketRows /\ Sound(sock[s])'
  BY <1>1, <1>3, Opened DEF LiveInv
<1>4. sock' \in [Sockets -> {Closed} \cup SocketRows]
  <2>1. \A s \in Sockets : sock'[s] \in {Closed} \cup SocketRows
    BY <1>1, <1>2, <1>3
  <2> QED
    BY <2>1 DEF Deaf
<1> QED
  BY <1>1, <1>2, <1>3, <1>4 DEF SocketsInv

\* Nobody hears of it: all who should have, have missed something.
LEMMA PublisherDiesKeeps ==
    ASSUME LiveInv, NEW h \in Handlers, PublisherDies(h)
    PROVE  SocketsInv' /\ HandlersInv'
<1> DEFINE deaf == UNION {Behind(i) : i \in handler[h].whom}
<1>1. /\ handler[h].pc = "publish" /\ Deaf(deaf)
      /\ handler' = [handler EXCEPT ![h] = Idle]
      /\ UNCHANGED <<board, inv, cookie, crossed, roster, stray>>
  BY DEF PublisherDies, accessVars
<1>2. /\ HandlersInv' /\ handler'[h] = Idle
      /\ \A k \in Handlers \ {h} : handler'[k] = handler[k]
  BY <1>1, HandlerEnds DEF LiveInv
<1>3. \A k \in Handlers \ {h} : \A type, i : Tells(k, type, i)' <=> Tells(k, type, i)
  BY <1>2 DEF Tells
<1>4. deaf \in SUBSET Sockets /\ \A s \in deaf : sock[s] # Closed
  BY DEF Behind
<1>5. ASSUME NEW s \in Sockets \ deaf, sock[s] # Closed
      PROVE  \E x \in SocketRows : x = sock[s] /\ Sound(x)'
  <2>1. PICK x \in SocketRows : x = sock[s] /\ Sound(x)
    BY <1>5, Opened DEF LiveInv
  <2>0. PICK j \in Invitations : j = Admits(x)
    BY <2>1, Behindhand DEF Sound
  <2>2. j \notin handler[h].whom
    BY <1>5, <2>0, <2>1 DEF Behind, InvitationOf, Admits
  <2>3. \A type : ~Tells(h, type, j)
    BY <2>2 DEF Tells
  <2>4. /\ Fit(x)' /\ Admits(x)' = j /\ inv'[j] = inv[j]
        /\ Superseded(x)' <=> Superseded(x)
        /\ EffectiveWrite(inv[j], board)' = EffectiveWrite(inv[j], board)
    BY <1>1, <2>0, <2>1 DEF Sound, Fit, Admits, Superseded, EffectiveWrite
  <2>5. Heard(x)'
    BY <1>3, <2>0, <2>1, <2>3, <2>4 DEF Sound, Heard
  <2>6. Flagged(x)'
    BY <1>1, <1>3, <2>0, <2>1, <2>3, <2>4 DEF Sound, Flagged
  <2> QED
    BY <2>1, <2>4, <2>5, <2>6 DEF Sound
<1> HIDE DEF deaf
<1>6. SocketsInv'
  BY <1>1, <1>4, <1>5, DeafKeeps
<1> QED
  BY <1>2, <1>6

\* The end of the board's retention reaches nobody.
LEMMA RetentionKeeps ==
    ASSUME LiveInv, RetentionExpires
    PROVE  SocketsInv' /\ HandlersInv'
<1> DEFINE deaf == {s \in Sockets : sock[s] # Closed}
<1>1. /\ board' = [board EXCEPT !.life = "deleted"] /\ Deaf(deaf)
      /\ UNCHANGED <<inv, cookie, handler, crossed, roster, stray>>
  BY DEF RetentionExpires, Expire
<1>2. board'.life = "deleted"
  BY <1>1 DEF LiveInv, AccessTyped, BoardRows
<1>3. HandlersInv'
  BY <1>1, <1>2 DEF LiveInv, HandlersInv, OneAtATime
<1>4. deaf \in SUBSET Sockets /\ \A s \in deaf : sock[s] # Closed
  OBVIOUS
<1>5. \A s \in Sockets \ deaf : sock[s] = Closed
  OBVIOUS
<1> HIDE DEF deaf
<1>6. SocketsInv'
  BY <1>1, <1>4, <1>5, DeafKeeps
<1> QED
  BY <1>3, <1>6

-----------------------------------------------------------------------------
(* The connections                                                         *)

\* A step that makes one connection another sound one.
LEMMA SocketBecomes ==
    ASSUME LiveInv, UNCHANGED <<board, inv, cookie, handler, crossed>>,
           NEW s \in Sockets, NEW y \in {Closed} \cup SocketRows,
           sock' = [sock EXCEPT ![s] = y], y # Closed => Sound(y)
    PROVE  SocketsInv' /\ HandlersInv'
<1>1. RowsKept
  BY RowsStay DEF Tells
<1>2. HandlersInv'
  BY DEF LiveInv, HandlersInv, OneAtATime
<1>3. sock' \in [Sockets -> {Closed} \cup SocketRows]
  BY DEF LiveInv, SocketsInv
<1>4. ASSUME NEW t \in Sockets, sock'[t] # Closed PROVE Sound(sock[t])'
  <2>1. PICK x \in SocketRows : x = sock'[t] /\ Sound(x)
    BY <1>4, Opened DEF LiveInv, SocketsInv
  <2>2. Sound(x)'
    BY <1>1, <2>1 DEF RowsKept
  <2> QED
    BY <2>1, <2>2
<1> QED
  BY <1>2, <1>3, <1>4 DEF SocketsInv

\* And a step that leaves them all.
LEMMA SocketsStay ==
    ASSUME LiveInv, RowsKept, UNCHANGED sock
    PROVE  SocketsInv'
<1>1. ASSUME NEW t \in Sockets, sock'[t] # Closed PROVE Sound(sock[t])'
  <2>1. PICK x \in SocketRows : x = sock'[t] /\ Sound(x)
    BY <1>1, Opened DEF LiveInv
  <2>2. Sound(x)'
    BY <2>1 DEF RowsKept
  <2> QED
    BY <2>1, <2>2
<1> QED
  BY <1>1 DEF LiveInv, SocketsInv

\* The ticket of a request that was admitted under the epoch that is still current
\* has the right of the rows.
LEMMA TicketIsSound ==
    ASSUME LiveInv, NEW q \in Requests, req[q].pc = "ticket", Undeleted
    PROVE  Ticket(req[q]) \in SocketRows /\ Sound(Ticket(req[q]))
<1> DEFINE r == req[q]
<1>1. r \in Admitted /\ r.pc \in Asks /\ r.guest \in Guests
  BY AskAssumption DEF LiveInv, AccessTyped, Asking, Reading, Admitted, AtBody, Inserting,
     AtParts, AtEnvelope, Idle
<1>2. /\ cookie[r.guest] # NoCookie
      /\ Fixes(cookie[r.guest].inv, r.epoch, r.write)
  <2>1. Holds(r) /\ r # Idle
    BY DEF LiveInv, AccessInv, Idle
  <2> QED
    BY <1>1, <2>1 DEF Holds
<1>3. PICK x : x = Ticket(r)
  OBVIOUS
<1>4. /\ x.pc = "ticket" /\ x.guest = r.guest /\ x.cred = cookie[r.guest].cred
      /\ x.write = r.write /\ x.queue = <<>> /\ x.lost = FALSE
      /\ x.stale = (r.epoch # Current(cookie[r.guest].inv))
  BY <1>3 DEF Ticket
<1>5. x \in SocketRows
  <2>1. cookie[r.guest].cred \in Versions /\ r.write \in BOOLEAN
    BY <1>1, <1>2, RowKnown DEF LiveInv, Admitted
  <2>2. (r.epoch # Current(cookie[r.guest].inv)) \in BOOLEAN /\ <<>> \in Seq(Events)
    OBVIOUS
  <2> QED
    BY <1>1, <1>3, <2>1, <2>2 DEF Ticket, SocketRows
<1>6. Fit(x)
  BY <1>2, <1>4, <1>5, QueueAssumption DEF Fit
<1>7. ASSUME ~x.stale, ~Superseded(x), ~inv[Admits(x)].expired
      PROVE  EndsIn(x.queue, x.write, EffectiveWrite(inv[Admits(x)], board))
  <2>1. Admits(x) = cookie[r.guest].inv /\ ~inv[Admits(x)].revoked
    BY <1>4, <1>6, <1>7, Behindhand DEF Admits, Superseded
  <2>2. Usable(inv[Admits(x)], board) /\ r.epoch = Current(Admits(x))
    BY <1>4, <1>7, <2>1 DEF Usable, Undeleted
  <2>3. x.write = EffectiveWrite(inv[Admits(x)], board)
    BY <1>2, <1>4, <2>1, <2>2 DEF Fixes
  <2> QED
    BY <1>4, <2>3 DEF EndsIn
<1> QED
  BY <1>3, <1>4, <1>5, <1>6, <1>7 DEF Sound, Heard, Flagged

\* The steps of a connection that change where it stands, what it knows and its queue.
LEMMA ConnectionKeeps ==
    ASSUME LiveInv, NEW s \in Sockets, Connection(s)
    PROVE  SocketsInv' /\ HandlersInv'
<1>1. ASSUME NEW q \in Requests, IssueTicket(q, s)
      PROVE  SocketsInv' /\ HandlersInv'
  <2>1. PICK x : x = Ticket(req[q])
    OBVIOUS
  <2>2. x \in SocketRows /\ Sound(x)
    BY <1>1, <2>1, TicketIsSound DEF IssueTicket
  <2> QED
    BY <1>1, <2>1, <2>2, SocketBecomes DEF IssueTicket
<1>2. SUFFICES ASSUME UNCHANGED <<board, inv, cookie, handler, crossed>>,
                      Connect(s) \/ Accept(s) \/ Subscribe(s) \/ Relay(s) \/ Overflow(s)
                        \/ UpdatePresence(s) \/ Disconnect(s) \/ Finally(s)
                        \/ TicketFails(s) \/ ProcessDies(s)
      PROVE  SocketsInv' /\ HandlersInv'
  BY <1>1 DEF Connection, Connect, Accept, Subscribe, Relay, Overflow, UpdatePresence,
     Disconnect, Finally, TicketFails, ProcessDies, accessVars
<1>3. sock \in [Sockets -> {Closed} \cup SocketRows]
  BY DEF LiveInv, SocketsInv
<1>4. ASSUME NEW y \in SocketRows, sock' = [sock EXCEPT ![s] = y], Sound(y)
      PROVE  SocketsInv' /\ HandlersInv'
  BY <1>2, <1>4, SocketBecomes
<1>5. CASE Finally(s) \/ TicketFails(s) \/ ProcessDies(s)
  <2>1. sock' = [sock EXCEPT ![s] = Closed]
    BY <1>5 DEF Finally, TicketFails, ProcessDies
  <2> QED
    BY <1>2, <2>1, SocketBecomes
<1>6. CASE UpdatePresence(s)
  <2>1. RowsKept
    BY <1>2, RowsStay DEF Tells
  <2> QED
    BY <1>2, <1>6, <2>1, SocketsStay DEF UpdatePresence, LiveInv, HandlersInv, OneAtATime
<1>7. CASE Connect(s) \/ Accept(s) \/ Subscribe(s) \/ Relay(s) \/ Overflow(s) \/ Disconnect(s)
  <2>1. sock[s].pc # "closed"
    BY <1>7 DEF Connect, Accept, Subscribe, Relay, Overflow, Disconnect
  <2>2. PICK x \in SocketRows : x = sock[s] /\ Sound(x)
    BY <2>1, Opened DEF LiveInv
  <2>3. /\ x.queue \in Seq(Events) /\ Len(x.queue) \in Nat /\ Len(x.queue) <= MaxQueue
        /\ Fit(x)
    BY <2>2 DEF Sound, Fit, SocketRows
  <2>4. CASE Connect(s)
    <3> DEFINE y == [x EXCEPT !.pc = "checked", !.lost = FALSE]
    <3>1. /\ y \in SocketRows /\ y.pc = "checked" /\ y.lost = FALSE /\ y.stale = x.stale
          /\ y.guest = x.guest /\ y.cred = x.cred /\ y.write = x.write /\ y.queue = x.queue
      BY DEF SocketRows
    <3>2. sock' = [sock EXCEPT ![s] = y] /\ x.pc = "ticket" /\ ~Superseded(x)
      BY <2>2, <2>4 DEF Connect, Honoured, InvitationOf, Superseded, Admits, Usable
    <3> HIDE DEF y
    <3>3. Sound(y)
      BY <2>2, <3>1, <3>2 DEF Sound, Fit, Heard, Flagged, Superseded, Admits
    <3> QED
      BY <1>4, <3>1, <3>2, <3>3
  <2>5. CASE Accept(s) \/ Subscribe(s)
    <3>1. PICK pc \in {"accepted", "open"} :
             /\ sock' = [sock EXCEPT ![s] = [x EXCEPT !.pc = pc]]
             /\ x.pc \in {"checked", "accepted"}
      BY <2>2, <2>5 DEF Accept, Subscribe
    <3> DEFINE y == [x EXCEPT !.pc = pc]
    <3>2. /\ y \in SocketRows /\ y.pc = pc /\ y.lost = x.lost /\ y.stale = x.stale
          /\ y.guest = x.guest /\ y.cred = x.cred /\ y.write = x.write /\ y.queue = x.queue
      BY DEF SocketRows
    <3> HIDE DEF y
    <3>3. Sound(y)
      BY <2>2, <3>1, <3>2 DEF Sound, Fit, Heard, Flagged, Superseded, Admits
    <3> QED
      BY <1>4, <3>1, <3>2, <3>3 DEF y
  <2>6. CASE Disconnect(s)
    <3> DEFINE y == [x EXCEPT !.pc = "leaving", !.queue = <<>>]
    <3>0. <<>> \in Seq(Events)
      OBVIOUS
    <3>1. /\ y \in SocketRows /\ y.pc = "leaving" /\ y.queue = <<>>
          /\ y.guest = x.guest /\ y.cred = x.cred
      BY <3>0 DEF SocketRows
    <3>2. sock' = [sock EXCEPT ![s] = y]
      BY <2>2, <2>6 DEF Disconnect
    <3> HIDE DEF y
    <3>3. Sound(y)
      BY <2>3, <3>1, QueueAssumption DEF Sound, Fit, Heard, Flagged
    <3> QED
      BY <1>4, <3>1, <3>2, <3>3
  <2>7. CASE Overflow(s)
    <3> DEFINE q == Tail(x.queue)
    <3>1. q \in Seq(Events) /\ Len(q) <= MaxQueue
      BY <2>2, <2>3, <2>7, Queues, QueueAssumption DEF Overflow
    <3> DEFINE y == [Missed(x) EXCEPT !.queue = q]
    <3>0. Missed(x).queue = x.queue
      BY DEF Missed, SocketRows
    <3>2. sock' = [sock EXCEPT ![s] = y]
      BY <1>3, <2>2, <2>7, <3>0 DEF Overflow
    <3> HIDE DEF q
    <3>3. Sound(y) /\ y \in SocketRows
      BY <2>3, <3>1, MissedIsSound DEF Sound, Fit
    <3> HIDE DEF y
    <3> QED
      BY <1>4, <3>2, <3>3
  <2>8. CASE Relay(s)
    <3> DEFINE e == Head(x.queue)
               q == Tail(x.queue)
               write == IF e.type = Revocation THEN x.write ELSE e.write
               pc == IF e.type = Revocation THEN "leaving" ELSE x.pc
               y == [x EXCEPT !.queue = q, !.write = write, !.pc = pc]
    <3>1. /\ x.pc = "open" /\ x.queue # <<>> /\ sock' = [sock EXCEPT ![s] = y]
      BY <2>2, <2>8 DEF Relay, Revocation
    <3>2. /\ q \in Seq(Events) /\ Len(q) = Len(x.queue) - 1 /\ e \in Events /\ e = x.queue[1]
          /\ \A n \in 1..(Len(x.queue) - 1) : q[n] = x.queue[n + 1]
          /\ DOMAIN x.queue = 1..Len(x.queue)
      BY <2>3, <3>1, Queues
    <3>3. e.write \in BOOLEAN /\ e.type \in {Capabilities, Revocation}
      BY <3>2 DEF Events, Capabilities, Revocation
    <3>4. write \in BOOLEAN /\ pc \in {"leaving", "open"}
      BY <3>1, <3>3 DEF SocketRows
    <3> HIDE DEF q, write, pc
    <3>5. /\ y \in SocketRows /\ y.pc = pc /\ y.lost = x.lost /\ y.stale = x.stale
          /\ y.guest = x.guest /\ y.cred = x.cred /\ y.write = write /\ y.queue = q
      BY <3>2, <3>4 DEF SocketRows
    <3> HIDE DEF y, e
    <3>6. Fit(y) /\ Admits(y) = Admits(x) /\ (Superseded(y) <=> Superseded(x))
      BY <2>3, <3>2, <3>5, QueueAssumption DEF Fit, Admits, Superseded
    <3>7. CASE e.type = Revocation
      <4>1. pc = "leaving"
        BY <3>7 DEF pc
      <4>2. Sound(y)
        BY <3>5, <3>6, <4>1 DEF Sound, Heard, Flagged
      <4> QED
        BY <1>4, <3>1, <3>5, <4>2
    <3>8. CASE e.type # Revocation
      <4>1. pc = "open" /\ write = e.write /\ Changes(e)
        BY <3>1, <3>3, <3>8 DEF pc, write, Changes
      <4>2. RevocationQueued(x) => RevocationQueued(y)
        <5>1. SUFFICES ASSUME NEW n \in 1..Len(x.queue), x.queue[n].type = Revocation
              PROVE  \E m \in DOMAIN q : q[m].type = Revocation
          BY <3>2, <3>5 DEF RevocationQueued
        <5>2. n # 1
          BY <3>2, <3>8, <5>1
        <5>3. n - 1 \in DOMAIN q /\ q[n - 1] = x.queue[n]
          BY <2>3, <3>2, <5>2
        <5> QED
          BY <5>1, <5>3
      <4>3. Heard(y)
        BY <2>2, <3>1, <3>5, <3>6, <4>1, <4>2 DEF Sound, Heard
      <4>4. \A v : EndsIn(x.queue, x.write, v) => EndsIn(q, write, v)
        BY <2>3, <3>1, <4>1, EndsRelayed DEF e, q
      <4>5. Flagged(y)
        BY <2>2, <3>1, <3>5, <3>6, <4>1, <4>4 DEF Sound, Flagged
      <4> QED
        BY <1>4, <3>1, <3>5, <3>6, <4>3, <4>5 DEF Sound
    <3> QED
      BY <3>7, <3>8
  <2> QED
    BY <1>7, <2>4, <2>5, <2>6, <2>7, <2>8
<1> QED
  BY <1>2, <1>5, <1>6, <1>7

-----------------------------------------------------------------------------
(* The roster                                                              *)

\* Whoever is listed and not stray was so already, by a connection that goes on, or has
\* one now.
LEMMA RosterGoesOn ==
    ASSUME RosterInv, roster' \subseteq Guests, stray' \subseteq Guests,
           \A g \in roster' \ stray' :
              \/ /\ g \in roster \ stray
                 /\ \A t \in Sockets : Lives(t) /\ sock[t].guest = g =>
                      Lives(t)' /\ sock'[t].guest = g
              \/ \E t \in Sockets : Lives(t)' /\ sock'[t].guest = g
    PROVE  RosterInv'
<1>1. \A g \in roster' \ stray' : \E t \in Sockets : Lives(t)' /\ sock'[t].guest = g
  BY DEF RosterInv, NoGhosts
<1> QED
  BY <1>1 DEF RosterInv, NoGhosts

\* An event or its loss leaves a connection where it stands.
LEMMA EventsPass ==
    ASSUME NEW x \in SocketRows, NEW e
    PROVE  /\ Missed(x).pc = x.pc /\ Missed(x).guest = x.guest
           /\ Offered(x, e).pc = x.pc /\ Offered(x, e).guest = x.guest
<1>1. Missed(x).pc = x.pc /\ Missed(x).guest = x.guest /\ Missed(x).queue = x.queue
  BY DEF Missed, SocketRows
<1>2. \A q : LET y == [Missed(x) EXCEPT !.queue = q] IN y.pc = x.pc /\ y.guest = x.guest
  BY DEF Missed, SocketRows
<1>3. \A q : LET y == [x EXCEPT !.queue = q] IN y.pc = x.pc /\ y.guest = x.guest
  BY DEF SocketRows
<1> QED
  BY <1>1, <1>2, <1>3 DEF Offered

\* A connection's own steps put its guest on the list and take it off.
LEMMA ConnectionRoster ==
    ASSUME LiveInv, NEW s \in Sockets, Connection(s)
    PROVE  RosterInv'
<1>0. sock \in [Sockets -> {Closed} \cup SocketRows] /\ RosterInv
  BY DEF LiveInv, SocketsInv
<1>1. ASSUME NEW y, sock' = [sock EXCEPT ![s] = y]
      PROVE  sock'[s] = y /\ \A t \in Sockets \ {s} : sock'[t] = sock[t]
  BY <1>0, <1>1
<1>2. ASSUME NEW y, sock' = [sock EXCEPT ![s] = y], UNCHANGED <<roster, stray>>,
             ~Lives(s) \/ (y.pc \in {"accepted", "open", "leaving"} /\ y.guest = sock[s].guest)
      PROVE  RosterInv'
  BY <1>0, <1>1, <1>2, RosterGoesOn DEF RosterInv, Lives
<1>3. CASE \E q \in Requests : IssueTicket(q, s)
  <2>1. ~Lives(s) /\ UNCHANGED <<roster, stray>>
    BY <1>3 DEF IssueTicket, Lives, Closed
  <2> QED
    BY <1>2, <1>3, <2>1 DEF IssueTicket
<1>4. CASE Connect(s)
  <2>1. sock' = [sock EXCEPT ![s] = [sock[s] EXCEPT !.pc = "checked", !.lost = FALSE]]
    BY <1>4 DEF Connect
  <2> QED
    BY <1>2, <1>4, <2>1 DEF Connect, Lives
<1>5. CASE Subscribe(s) \/ Relay(s) \/ Overflow(s) \/ Disconnect(s)
  <2>1. PICK x \in SocketRows : x = sock[s]
    BY <1>5, Opened DEF Subscribe, Relay, Overflow, Disconnect, LiveInv
  <2>2. /\ [x EXCEPT !.pc = "open"].guest = x.guest
        /\ [x EXCEPT !.pc = "open"].pc = "open"
        /\ [x EXCEPT !.pc = "leaving", !.queue = <<>>].guest = x.guest
        /\ [x EXCEPT !.pc = "leaving", !.queue = <<>>].pc = "leaving"
    BY DEF SocketRows
  <2>3. PICK y : /\ sock' = [sock EXCEPT ![s] = y] /\ y.guest = x.guest
                 /\ y.pc \in {"open", "leaving"}
    <3>1. CASE Subscribe(s)
      BY <2>1, <2>2, <3>1 DEF Subscribe
    <3>2. CASE Relay(s)
      <4>1. PICK w, pc : /\ pc \in {"open", "leaving"}
              /\ sock' = [sock EXCEPT ![s] = [x EXCEPT !.queue = Tail(x.queue), !.write = w,
                                                     !.pc = pc]]
        BY <2>1, <3>2 DEF Relay
      <4> DEFINE y == [x EXCEPT !.queue = Tail(x.queue), !.write = w, !.pc = pc]
      <4>2. y.pc = pc /\ y.guest = x.guest
        BY DEF SocketRows
      <4> HIDE DEF y
      <4> QED
        BY <4>1, <4>2 DEF y
    <3>3. CASE Overflow(s)
      <4> DEFINE q == Tail(x.queue)
      <4>1. x.pc = "open" /\ sock' = [sock EXCEPT ![s] = [Missed(x) EXCEPT !.queue = q]]
        BY <2>1, <3>3 DEF Overflow
      <4> HIDE DEF q
      <4> DEFINE y == [Missed(x) EXCEPT !.queue = q]
      <4>2. y.pc = x.pc /\ y.guest = x.guest
        BY DEF Missed, SocketRows
      <4> HIDE DEF y
      <4> QED
        BY <4>1, <4>2 DEF y
    <3>4. CASE Disconnect(s)
      <4> DEFINE y == [x EXCEPT !.pc = "leaving", !.queue = <<>>]
      <4>1. sock' = [sock EXCEPT ![s] = y]
        BY <2>1, <3>4 DEF Disconnect
      <4>2. y.guest = x.guest /\ y.pc = "leaving"
        BY <2>2
      <4> HIDE DEF y
      <4> QED
        BY <4>1, <4>2
    <3> QED
      BY <1>5, <3>1, <3>2, <3>3, <3>4
  <2>4. UNCHANGED <<roster, stray>>
    BY <1>5 DEF Subscribe, Relay, Overflow, Disconnect
  <2> QED
    BY <1>2, <2>1, <2>3, <2>4
<1>6. CASE Accept(s) \/ UpdatePresence(s)
  <2>1. PICK x \in SocketRows : x = sock[s]
    BY <1>6, Opened DEF Accept, UpdatePresence, LiveInv
  <2>2. /\ roster' = roster \cup {x.guest} /\ stray' = stray
        /\ x.guest \in Guests
    BY <1>6, <2>1 DEF Accept, UpdatePresence, SocketRows
  <2>3. sock'[s].guest = x.guest /\ Lives(s)' /\ \A t \in Sockets \ {s} : sock'[t] = sock[t]
    <3>1. CASE Accept(s)
      <4>1. sock' = [sock EXCEPT ![s] = [x EXCEPT !.pc = "accepted"]]
        BY <2>1, <3>1 DEF Accept
      <4>2. [x EXCEPT !.pc = "accepted"].pc = "accepted"
              /\ [x EXCEPT !.pc = "accepted"].guest = x.guest
        BY DEF SocketRows
      <4> QED
        BY <1>1, <4>1, <4>2 DEF Lives
    <3>2. CASE UpdatePresence(s)
      BY <2>1, <3>2 DEF UpdatePresence, Lives
    <3> QED
      BY <1>6, <3>1, <3>2
  <2> QED
    BY <1>0, <2>1, <2>2, <2>3, RosterGoesOn DEF RosterInv, Lives
<1>7. CASE Finally(s) \/ TicketFails(s) \/ ProcessDies(s)
  <2>1. PICK x \in SocketRows : x = sock[s]
    BY <1>7, Opened DEF Finally, TicketFails, ProcessDies, LiveInv, Lives
  <2>2. x.guest \in Guests
    BY DEF SocketRows
  <2>3. sock' = [sock EXCEPT ![s] = Closed]
    BY <1>7 DEF Finally, TicketFails, ProcessDies
  <2>4. \A t \in Sockets \ {s} : sock'[t] = sock[t]
    BY <1>1, <2>3
  <2>5. CASE Finally(s) \/ ProcessDies(s)
    <3>1. /\ roster' \subseteq Guests /\ stray' \subseteq Guests
          /\ \A g \in roster' \ stray' : g \in roster \ stray /\ g # x.guest
      BY <1>0, <2>1, <2>2, <2>5 DEF Finally, ProcessDies, RosterInv
    <3> QED
      BY <1>0, <2>1, <2>4, <3>1, RosterGoesOn DEF Lives
  <2>6. CASE TicketFails(s)
    BY <1>2, <2>3, <2>6 DEF TicketFails, Lives
  <2> QED
    BY <1>7, <2>5, <2>6
<1> QED
  BY <1>3, <1>4, <1>5, <1>6, <1>7 DEF Connection

\* No step leaves a ghost on the list.
LEMMA RosterSteps ==
    ASSUME LiveInv, [SocketNext]_liveVars
    PROVE  RosterInv'
<1>0. RosterInv
  BY DEF LiveInv
<1>1. ASSUME UNCHANGED <<sock, roster, stray>> PROVE RosterInv'
  BY <1>0, <1>1 DEF RosterInv, NoGhosts, Lives
<1>2. ASSUME NEW h \in Handlers,
             Manage(h) \/ Dismiss(h) \/ Commit(h)
      PROVE  RosterInv'
  BY <1>1, <1>2 DEF Manage, Dismiss, Commit
<1>3. ASSUME \A t \in Sockets : Lives(t) => Lives(t)' /\ sock'[t].guest = sock[t].guest,
             UNCHANGED <<roster, stray>>
      PROVE  RosterInv'
  BY <1>0, <1>3, RosterGoesOn DEF RosterInv
<1>4. ASSUME NEW h \in Handlers, PublishEvents(h) PROVE RosterInv'
  <2>1. \A t \in Sockets : sock'[t] = sock[t] \/ \E e : sock'[t] = Offered(sock[t], e)
    BY <1>4 DEF PublishEvents
  <2>2. \A t \in Sockets : Lives(t) => sock[t] \in SocketRows
    BY Opened DEF LiveInv, Lives
  <2> QED
    BY <1>3, <1>4, <2>1, <2>2, EventsPass DEF PublishEvents, Lives
<1>5. ASSUME NEW deaf, Deaf(deaf), UNCHANGED <<roster, stray>> PROVE RosterInv'
  <2>1. \A t \in Sockets : sock'[t] = sock[t] \/ sock'[t] = Missed(sock[t])
    BY <1>5 DEF Deaf
  <2>2. \A t \in Sockets : Lives(t) => sock[t] \in SocketRows
    BY Opened DEF LiveInv, Lives
  <2> QED
    BY <1>3, <1>5, <2>1, <2>2, EventsPass DEF Lives
<1>6. ASSUME NEW h \in Handlers, PublisherDies(h) PROVE RosterInv'
  BY <1>5, <1>6 DEF PublisherDies
<1>7. CASE RetentionExpires
  BY <1>5, <1>7 DEF RetentionExpires
<1>8. ASSUME NEW g \in Guests, PrunePresence(g) PROVE RosterInv'
  BY <1>0, <1>8, RosterGoesOn DEF PrunePresence, RosterInv, Lives
<1>9. CASE UNCHANGED liveVars
  BY <1>1, <1>9 DEF liveVars
<1> QED
  BY <1>1, <1>2, <1>4, <1>6, <1>7, <1>8, <1>9, ConnectionRoster DEF SocketNext, socketVars

-----------------------------------------------------------------------------
(* The theorems of the sockets                                             *)

\* Before there are guests there is nothing to be said.
LEMMA InitLive == SocketInit => LiveInv
<1> SUFFICES ASSUME SocketInit PROVE LiveInv
  OBVIOUS
<1> USE AccessBoundAssumption DEF SocketInit, AccessInit
<1>1. AccessTyped
  BY DEF AccessTyped, BoardRows, Exists
<1>2. AccessInv
  BY IdleHolds DEF AccessInv, CookieInv, ContextInv
<1>3. SocketsInv /\ HandlersInv /\ RosterInv
  BY DEF SocketsInv, HandlersInv, OneAtATime, RosterInv, NoGhosts
<1> QED
  BY <1>1, <1>2, <1>3 DEF LiveInv

\* The rows, cookies and requests are as sound as without sockets.
LEMMA AccessSteps ==
    ASSUME LiveInv, [SocketNext]_liveVars
    PROVE  AccessTyped' /\ AccessInv'
<1>0. AccessTyped /\ AccessInv
  BY DEF LiveInv
<1>1. ASSUME Teacher PROVE AccessTyped' /\ AccessInv'
  <2>1. RightsStep /\ TypedRights
    BY <1>0, <1>1, TeacherSteps
  <2> QED
    BY <1>0, <2>1, TeacherKeeps DEF RightsStep, TypedRights, AccessTyped
<1>2. ASSUME UNCHANGED accessVars PROVE AccessTyped' /\ AccessInv'
  BY <1>0, <1>2, AccessStays
<1>3. ASSUME Guest PROVE AccessTyped' /\ AccessInv'
  BY <1>0, <1>3, GuestSteps DEF GuestTyped, AccessTyped, Exists
<1>4. ASSUME NEW s \in Sockets, Connection(s) PROVE AccessTyped' /\ AccessInv'
  <2>1. ASSUME NEW q \in Requests, IssueTicket(q, s) PROVE AccessTyped' /\ AccessInv'
    <3>1. req' = [req EXCEPT ![q] = Idle] /\ UNCHANGED <<board, inv, cookie, ctx>>
      BY <2>1 DEF IssueTicket
    <3> QED
      BY <1>0, <3>1, RequestEnds, ClientsStay DEF AccessTyped, AccessInv, Exists
  <2> QED
    BY <1>2, <1>4, <2>1 DEF Connection, Connect, Accept, Subscribe, Relay, Overflow,
       UpdatePresence, Disconnect, Finally, TicketFails, ProcessDies
<1>5. ASSUME NEW h \in Handlers,
             Manage(h) \/ Dismiss(h) \/ Commit(h) \/ PublishEvents(h) \/ PublisherDies(h)
      PROVE  AccessTyped' /\ AccessInv'
  <2>1. Commit(h) => Teacher
    BY CommitEffects
  <2> QED
    BY <1>1, <1>2, <1>5, <2>1 DEF Manage, Dismiss, PublishEvents, PublisherDies
<1>6. ASSUME NEW i \in Invitations,
             Elapse(i) \/ \E write \in BOOLEAN : CreateInvitation(i, write)
      PROVE  AccessTyped' /\ AccessInv'
  BY <1>1, <1>6 DEF Teacher
<1>7. ASSUME RetentionExpires PROVE AccessTyped' /\ AccessInv'
  BY <1>1, <1>7 DEF RetentionExpires, Teacher
<1>8. ASSUME NEW g \in Guests, PrunePresence(g) PROVE AccessTyped' /\ AccessInv'
  BY <1>2, <1>8 DEF PrunePresence
<1>9. CASE UNCHANGED liveVars
  BY <1>2, <1>9 DEF liveVars
<1> QED
  BY <1>3, <1>4, <1>5, <1>6, <1>7, <1>8, <1>9 DEF SocketNext

\* And so are the sockets and the teacher's requests.
LEMMA LiveSteps ==
    ASSUME LiveInv, [SocketNext]_liveVars
    PROVE  SocketsInv' /\ HandlersInv'
<1>0. HandlersInv
  BY DEF LiveInv
<1>1. ASSUME RowsKept, UNCHANGED <<sock, handler, crossed, board>>
      PROVE  SocketsInv' /\ HandlersInv'
  BY <1>0, <1>1, SocketsStay DEF HandlersInv, OneAtATime
<1>2. ASSUME NEW i \in Invitations, UNCHANGED socketVars,
             (\E write \in BOOLEAN : CreateInvitation(i, write)) \/ Elapse(i)
      PROVE  SocketsInv' /\ HandlersInv'
  <2>1. UNCHANGED <<sock, handler, crossed, board>>
    BY <1>2 DEF CreateInvitation, Elapse, socketVars
  <2> QED
    BY <1>1, <1>2, <2>1, TimePasses
<1>3. ASSUME Guest, UNCHANGED socketVars PROVE SocketsInv' /\ HandlersInv'
  <2>1. UNCHANGED <<board, inv, sock, handler, crossed>>
    BY <1>3 DEF Guest, Join, ReadInvitation, ReadDocument, AnswerContext, Authorize, Leave,
       socketVars
  <2>2. \A g \in Guests : cookie[g] # NoCookie => cookie'[g] = cookie[g]
    BY <1>3 DEF Guest, Join, ReadInvitation, ReadDocument, AnswerContext, Authorize, Leave,
       LiveInv, AccessTyped
  <2> QED
    BY <1>1, <2>1, <2>2, RowsStay DEF Tells
<1>4. ASSUME NEW h \in Handlers, Manage(h) \/ Dismiss(h)
      PROVE  SocketsInv' /\ HandlersInv'
  <2>1. /\ UNCHANGED <<board, inv, cookie, sock>> /\ (crossed => crossed')
        /\ handler[h].pc # "publish"
        /\ \A k \in Handlers \ {h} : handler'[k] = handler[k]
        /\ handler' \in [Handlers -> {Idle} \cup Managing \cup Publishing]
    <3>1. [pc |-> "manage", doc |-> board] \in Managing
      BY DEF LiveInv, AccessTyped, Managing
    <3> QED
      BY <1>0, <1>4, <3>1 DEF Manage, Dismiss, accessVars, HandlersInv, Idle
  <2>2. RowsKept
    BY <2>1, RowsStay DEF Tells
  <2>3. crossed' \in BOOLEAN
    BY <1>0, <1>4 DEF Manage, Dismiss, HandlersInv
  <2>4. OneAtATime'
    <3>1. CASE Manage(h)
      <4>1. handler'[h].doc = board /\ (~crossed' => \A k \in Handlers : handler[k] = Idle)
        BY <1>0, <3>1 DEF Manage, HandlersInv
      <4> QED
        BY <2>1, <4>1 DEF OneAtATime
    <3>2. CASE Dismiss(h)
      <4>1. handler'[h] = Idle /\ crossed' = crossed
        BY <1>0, <3>2 DEF Dismiss, HandlersInv
      <4> QED
        BY <1>0, <2>1, <4>1 DEF HandlersInv, OneAtATime
    <3> QED
      BY <1>4, <3>1, <3>2
  <2> QED
    BY <2>1, <2>2, <2>3, <2>4, SocketsStay DEF HandlersInv
<1>5. ASSUME NEW h \in Handlers, Commit(h) PROVE SocketsInv' /\ HandlersInv'
  BY <1>5, CommitKeeps, SocketsStay DEF Commit
<1>6. ASSUME NEW h \in Handlers, PublishEvents(h) \/ PublisherDies(h)
      PROVE  SocketsInv' /\ HandlersInv'
  BY <1>6, PublishKeeps, PublisherDiesKeeps
<1>7. ASSUME UNCHANGED <<board, inv, cookie, sock, handler, crossed>>
      PROVE  SocketsInv' /\ HandlersInv'
  BY <1>1, <1>7, RowsStay DEF Tells
<1>8. ASSUME NEW g \in Guests, PrunePresence(g) PROVE SocketsInv' /\ HandlersInv'
  BY <1>7, <1>8 DEF PrunePresence, accessVars
<1>9. CASE UNCHANGED liveVars
  BY <1>7, <1>9 DEF liveVars, accessVars
<1> QED
  BY <1>2, <1>3, <1>4, <1>5, <1>6, <1>8, <1>9, RetentionKeeps, ConnectionKeeps
     DEF SocketNext

\* The invariant of the sockets holds in every reachable state.
LEMMA AlwaysLive == SocketSpec => []LiveInv
<1>1. LiveInv /\ [SocketNext]_liveVars => LiveInv'
  BY AccessSteps, LiveSteps, RosterSteps DEF LiveInv
<1> QED
  BY <1>1, InitLive, PTL DEF SocketSpec

(* Also with its sockets open, a guest has a good cookie only by the link  *)
(* as it is now (principal_from_ticket, rotate_invitation).                *)
THEOREM SocketCookiesAreCurrent == SocketSpec => []LiveCookieIsCurrent
<1>1. LiveInv => LiveCookieIsCurrent
  BY DEF LiveInv, AccessInv, CookieInv, LiveCookieIsCurrent
<1> QED
  BY <1>1, AlwaysLive, PTL

(* An open socket that missed nothing since its ticket was checked hears of *)
(* it when its invitation is revoked or rotated or its board deleted: for   *)
(* any number of sockets, requests and queues of any length                 *)
(* (publish_revocations, _offer, relay).                                    *)
THEOREM RevocationsAreHeard == SocketSpec => []RevocationHeard
<1>1. ASSUME LiveInv PROVE RevocationHeard
  <2> SUFFICES ASSUME NEW s \in Sockets, Hears(s), Outdated(s)
      PROVE  \/ Pending
             \/ \E n \in DOMAIN sock[s].queue : sock[s].queue[n].type = "access.revoked"
    BY DEF RevocationHeard
  <2>1. Sound(sock[s]) /\ Superseded(sock[s])
    BY <1>1, Opened DEF LiveInv, Hears, Outdated, Superseded, InvitationOf, Admits
  <2> QED
    BY <2>1 DEF Sound, Heard, Hears, Tells, Pending, RevocationQueued, Revocation
<1> QED
  BY <1>1, AlwaysLive, PTL

(* A socket that has heard everything lets its guest write exactly if the  *)
(* rows do, unless two requests of the teacher overlapped                  *)
(* (capability_change_events, issue_ticket, relay).                        *)
THEOREM FlagsFollowRights == SocketSpec => []FlagFollowsRights
<1>1. ASSUME LiveInv PROVE FlagFollowsRights
  <2> SUFFICES ASSUME NEW s \in Sockets, UpToDate(s), ~inv[InvitationOf(s)].expired
      PROVE  sock[s].write = EffectiveWrite(inv[InvitationOf(s)], board)
    BY DEF FlagFollowsRights
  <2>1. Sound(sock[s]) /\ ~Superseded(sock[s]) /\ Admits(sock[s]) = InvitationOf(s)
    BY <1>1, Opened DEF LiveInv, UpToDate, Hears, Outdated, Superseded, InvitationOf, Admits
  <2>2. \A h \in Handlers : \A type, i : ~Tells(h, type, i)
    BY DEF UpToDate, Pending, Tells
  <2>3. EndsIn(sock[s].queue, sock[s].write, EffectiveWrite(inv[InvitationOf(s)], board))
    BY <2>1, <2>2 DEF Sound, Flagged, UpToDate, Hears
  <2>4. DOMAIN sock[s].queue = {}
    BY DEF UpToDate
  <2> QED
    BY <2>3, <2>4 DEF EndsIn
<1> QED
  BY <1>1, AlwaysLive, PTL

(* Rows and queues are well formed, no queue is longer than it may be, and *)
(* nobody is listed as present without a connection but those whose process*)
(* died (set_presence, list_presence, run_collaboration_socket).           *)
THEOREM PresenceIsSound == SocketSpec => []PresenceSound
<1>1. ASSUME LiveInv PROVE PresenceSound
  <2>1. AccessTypeOK
    BY <1>1, Known DEF LiveInv, AccessTyped, AccessTypeOK, Asking, Reading, Admitted, AtBody,
       Inserting, AtParts, AtEnvelope, Idle
  <2>2. \A s \in Sockets :
          \/ sock[s] = Closed
          \/ sock[s] \in SocketRows /\ Len(sock[s].queue) <= MaxQueue
    <3> SUFFICES ASSUME NEW s \in Sockets, sock[s] # Closed
        PROVE  sock[s] \in SocketRows /\ Len(sock[s].queue) <= MaxQueue
      OBVIOUS
    <3>1. Sound(sock[s])
      BY <1>1, Opened DEF LiveInv
    <3> QED
      BY <3>1 DEF Sound, Fit
  <2>3. \A h \in Handlers : handler[h].pc \in {"idle", "manage", "publish"}
    BY <1>1, HandlerKnown DEF LiveInv
  <2> QED
    BY <1>1, <2>1, <2>2, <2>3 DEF LiveInv, HandlersInv, RosterInv, PresenceSound, SocketTypeOK
<1> QED
  BY <1>1, AlwaysLive, PTL
=============================================================================
