---------------------------- MODULE GuestAccess ----------------------------
(***************************************************************************)
(* Guests of one standalone board: the invitations its teacher makes, the  *)
(* cookies guests get for their links, the access context a client holds,  *)
(* and the requests it sends with the epoch of that context.               *)
(*                                                                         *)
(* A request reads the invitation and the board in two statements, the     *)
(* board once more to authorize, then waits for its body; what it asks for *)
(* happens in a transaction of its own.  Times are abstracted: an expiry   *)
(* may pass at any moment, and none is one that never passes.  An actor    *)
(* joins once: whoever opens a link again is another actor.                *)
(***************************************************************************)
EXTENDS Integers

CONSTANTS
    Invitations,
    Guests,         \* actors that links are exchanged for
    Requests,       \* concurrent requests of the guests
    Asks,           \* what they ask for
    Times,          \* the times that pass: of an invitation, of the board's retention
    MaxAccess,      \* bound: access versions of an invitation
    MaxBoardAccess  \* bound: access versions of the board

ASSUME AskAssumption ==
    /\ Asks \subseteq {"context", "ticket", "mutation"}
    /\ Times \subseteq {"invitation", "retention"}
ASSUME AccessBoundAssumption ==
    MaxAccess \in Nat \ {0} /\ MaxBoardAccess \in Nat \ {0}

VARIABLES
    board,      \* the BoardDocument row
    inv,        \* inv[i]: the BoardInvitation row
    cookie,     \* cookie[g]: the signed claims of the guest's cookie
    ctx,        \* ctx[g]: the access context the guest's client holds
    req         \* req[q]: where a request stands

accessVars == <<board, inv, cookie, ctx, req>>

Versions == 1..MaxAccess
NoInvitation == [write |-> "none"]
\* A secret is known by its number: the first, the second one of the invitation...
InvitationRows ==
    [write : BOOLEAN, expired : BOOLEAN, revoked : BOOLEAN,
     cred : Versions, access : Versions, secret : Versions]
BoardRows == [life : {"live", "archived", "deleted"}, writes : BOOLEAN,
              access : 1..MaxBoardAccess]
Epochs == (1..MaxBoardAccess) \X Invitations \X Versions \X Versions
NoCookie == [inv |-> "none"]
NoEpoch == <<>>
NoContext == [epoch |-> NoEpoch]
\* guest_context: the capabilities with the epoch they hold for
Contexts == [epoch : Epochs, write : BOOLEAN]
Idle == [pc |-> "idle"]

AccessTypeOK ==
    /\ board \in BoardRows
    /\ inv \in [Invitations -> {NoInvitation} \cup InvitationRows]
    /\ cookie \in [Guests -> {NoCookie} \cup
                    [inv : Invitations, cred : Versions, secret : Versions]]
    /\ ctx \in [Guests -> {NoContext} \cup Contexts]
    /\ \A q \in Requests : req[q].pc # "idle" =>
          req[q].guest \in Guests /\ req[q].epoch \in Epochs \cup {NoEpoch}

AccessInit ==
    /\ board = [life |-> "live", writes |-> TRUE, access |-> 1]
    /\ inv = [i \in Invitations |-> NoInvitation]
    /\ cookie = [g \in Guests |-> NoCookie]
    /\ ctx = [g \in Guests |-> NoContext]
    /\ req = [q \in Requests |-> Idle]

Undeleted == board.life # "deleted"
Exists(i) == inv[i] # NoInvitation

\* _invitation_is_usable
Usable(row, doc) == doc.life # "deleted" /\ ~row.revoked /\ ~row.expired

\* _effective_write
EffectiveWrite(row, doc) ==
    row.write /\ doc.writes /\ doc.life = "live" /\ ~row.revoked

\* _access_epoch
Epoch(i, row, doc) == <<doc.access, i, row.access, row.cred>>

Current(i) == Epoch(i, inv[i], board)

-----------------------------------------------------------------------------
(* The teacher *)

CreateInvitation(i, write) ==
    /\ Undeleted /\ ~Exists(i)
    /\ inv' = [inv EXCEPT ![i] = [write |-> write, expired |-> FALSE, revoked |-> FALSE,
                                  cred |-> 1, access |-> 1, secret |-> 1]]
    /\ UNCHANGED <<board, cookie, ctx, req>>

Raised(row) == [row EXCEPT !.access = @ + 1]
Locked(i) == Undeleted /\ Exists(i) /\ inv[i].access < MaxAccess

\* update_invitation and its kin: the locked row with a new version.
Renew(i, row) ==
    /\ Locked(i)
    /\ inv' = [inv EXCEPT ![i] = Raised(row)]
    /\ UNCHANGED <<board, cookie, ctx, req>>

\* Mutant: writes are switched without a new version.
SwitchWritesQuietly(i) ==
    /\ Locked(i)
    /\ inv' = [inv EXCEPT ![i].write = ~@]
    /\ UNCHANGED <<board, cookie, ctx, req>>

\* update_invitation, writeEnabled
SwitchWrites(i) == Renew(i, [inv[i] EXCEPT !.write = ~@])

\* update_invitation, expiresAt: another time ahead
SetExpiry(i) == Renew(i, [inv[i] EXCEPT !.expired = FALSE])

Elapse(i) ==
    /\ "invitation" \in Times /\ Exists(i) /\ ~inv[i].expired
    /\ inv' = [inv EXCEPT ![i].expired = TRUE]
    /\ UNCHANGED <<board, cookie, ctx, req>>

Revoke(i) ==
    /\ Exists(i) /\ ~inv[i].revoked
    /\ Renew(i, [inv[i] EXCEPT !.revoked = TRUE, !.cred = @ + 1])

\* Mutant: the cookies of the old link stay good.
RotateSecretOnly(i) == Renew(i, [inv[i] EXCEPT !.revoked = FALSE, !.secret = @ + 1])

\* A new secret; a revoked invitation is open again.
Rotate(i) ==
    Renew(i, [inv[i] EXCEPT !.revoked = FALSE, !.cred = @ + 1, !.secret = @ + 1])

BoardBecomes(row) ==
    /\ board.access < MaxBoardAccess
    /\ board' = [row EXCEPT !.access = @ + 1]
    /\ UNCHANGED <<inv, cookie, ctx, req>>

SetGuestWrites == Undeleted /\ BoardBecomes([board EXCEPT !.writes = ~@])
Archive == board.life = "live" /\ BoardBecomes([board EXCEPT !.life = "archived"])
Unarchive == board.life = "archived" /\ BoardBecomes([board EXCEPT !.life = "live"])
Delete == Undeleted /\ BoardBecomes([board EXCEPT !.life = "deleted"])

\* expire_retention leaves the version alone.
Expire ==
    /\ "retention" \in Times /\ Undeleted
    /\ board' = [board EXCEPT !.life = "deleted"]
    /\ UNCHANGED <<inv, cookie, ctx, req>>

-----------------------------------------------------------------------------
(* The guests *)

\* exchange_secret: only the secret of the row is found.
Exchangeable(i) == Exists(i) /\ Usable(inv[i], board)

\* join_board
Join(g, i) ==
    /\ cookie[g] = NoCookie /\ Exchangeable(i)
    /\ cookie' = [cookie EXCEPT ![g] = [inv |-> i, cred |-> inv[i].cred,
                                        secret |-> inv[i].secret]]
    /\ UNCHANGED <<board, inv, ctx, req>>

\* principal_from_request reads the invitation ...
ReadInvitation(q, g, ask) ==
    LET i == cookie[g].inv
        sent == IF ask = "mutation" THEN ctx[g].epoch ELSE NoEpoch IN
    /\ req[q] = Idle /\ cookie[g] # NoCookie
    /\ ask = "mutation" => ctx[g] # NoContext
    /\ req' = [req EXCEPT ![q] =
                 [pc |-> "invitation", guest |-> g, ask |-> ask, epoch |-> sent,
                  punctual |-> sent = Current(i), row |-> inv[i]]]
    /\ UNCHANGED <<board, inv, cookie, ctx>>

\* Mutant: the epoch of the header is not compared.
SameEpochAny(sent, epoch) == TRUE

\* validate_access_epoch_header, for mutations
SameEpoch(sent, epoch) == sent \in {NoEpoch, epoch}

\* The claims of the cookie against the two rows
Recognized(g, row, doc) == row.cred = cookie[g].cred /\ Usable(row, doc)

\* ... and then the board.
ReadDocument(q) ==
    LET r == req[q]
        i == cookie[r.guest].inv
        epoch == Epoch(i, r.row, board) IN
    /\ r.pc = "invitation"
    /\ Recognized(r.guest, r.row, board)
    /\ r.ask = "mutation" => EffectiveWrite(r.row, board)
    /\ SameEpoch(r.epoch, epoch)
    /\ req' = [req EXCEPT ![q] =
                 [pc |-> r.ask, guest |-> r.guest, epoch |-> epoch, punctual |-> r.punctual,
                  write |-> EffectiveWrite(r.row, board)]]
    /\ UNCHANGED <<board, inv, cookie, ctx>>

\* /boards/context
AnswerContext(q) ==
    /\ req[q].pc = "context" /\ Undeleted
    /\ ctx' = [ctx EXCEPT ![req[q].guest] = [epoch |-> req[q].epoch, write |-> req[q].write]]
    /\ req' = [req EXCEPT ![q] = Idle]
    /\ UNCHANGED <<board, inv, cookie>>

\* document_for reads the board once more; then the body is awaited.
Authorize(q) ==
    /\ req[q].pc = "mutation" /\ Undeleted
    /\ req' = [req EXCEPT ![q] = [pc |-> "body", guest |-> @.guest, epoch |-> @.epoch]]
    /\ UNCHANGED <<board, inv, cookie, ctx>>

\* Refused, answered with an error, or given up.
Leave(q) ==
    /\ req[q] # Idle
    /\ req' = [req EXCEPT ![q] = Idle]
    /\ UNCHANGED <<board, inv, cookie, ctx>>

Teacher ==
    \/ \E i \in Invitations, write \in BOOLEAN : CreateInvitation(i, write)
    \/ \E i \in Invitations :
          SwitchWrites(i) \/ SetExpiry(i) \/ Elapse(i) \/ Revoke(i) \/ Rotate(i)
    \/ SetGuestWrites \/ Archive \/ Unarchive \/ Delete \/ Expire

Guest ==
    \/ \E g \in Guests, i \in Invitations : Join(g, i)
    \/ \E q \in Requests, g \in Guests, ask \in Asks : ReadInvitation(q, g, ask)
    \/ \E q \in Requests : ReadDocument(q) \/ AnswerContext(q) \/ Authorize(q) \/ Leave(q)

-----------------------------------------------------------------------------
\* A cookie the server still accepts was got with the link as it is now, and the
\* invitation is not revoked: revoke and rotate cut off every cookie given before.
LiveCookieIsCurrent ==
    \A g \in Guests : cookie[g] # NoCookie =>
        LET row == inv[cookie[g].inv] IN
        row.cred = cookie[g].cred => row.secret = cookie[g].secret /\ ~row.revoked

\* What an epoch allowed when it was handed out, or when a request was authorized
\* under it, is what the rows allow for as long as the epoch is current.
EpochFixesRights ==
    /\ \A g \in Guests : ctx[g] # NoContext =>
          LET i == cookie[g].inv IN
          ctx[g].epoch = Current(i) /\ Usable(inv[i], board) =>
              ctx[g].write = EffectiveWrite(inv[i], board)
    /\ \A q \in Requests : req[q].pc \in {"mutation", "body"} =>
          LET i == cookie[req[q].guest].inv IN
          req[q].epoch = Current(i) /\ Usable(inv[i], board) =>
              EffectiveWrite(inv[i], board)

\* Although invitation and board are read apart, a change is admitted only if the
\* epoch it was sent with was the current one when it arrived.
StaleEpochRefused ==
    \A q \in Requests : req[q].pc = "mutation" => req[q].punctual
=============================================================================
