---------------------------- MODULE BoardSocket ----------------------------
(***************************************************************************)
(* Live collaboration on a standalone board: a guest's ticket, the socket  *)
(* it opens, the events the teacher's requests publish after their commit, *)
(* and the roster of who is present.                                       *)
(*                                                                         *)
(* A ticket carries the right to write as it was when the ticket was made, *)
(* and a socket hears what is published after it subscribed.  What a       *)
(* socket did not hear since it was checked is written down in its field   *)
(* lost, what it did not hear since its ticket in its field stale.  Only   *)
(* the events about access are queued here; the others may crowd them out. *)
(* A client closes at any time, also because a message of its own is       *)
(* refused or its access has expired.                                      *)
(***************************************************************************)
EXTENDS GuestAccess, Sequences

CONSTANTS
    Sockets,        \* connections, each one with the ticket it is opened with
    Handlers,       \* concurrent requests of the teacher
    MaxQueue        \* maxsize of a subscriber's queue

ASSUME QueueAssumption == MaxQueue \in Nat \ {0}

VARIABLES
    sock,       \* sock[s]: where a connection stands
    handler,    \* handler[h]: where a request of the teacher stands
    crossed,    \* two of the teacher's requests overlapped
    roster,     \* the guests in the presence list of the board
    stray       \* those whose process died without taking them off

liveVars == <<accessVars, sock, handler, crossed, roster, stray>>
socketVars == <<sock, handler, crossed, roster, stray>>

Closed == [pc |-> "closed"]
Events == [type : {"access.capabilities.changed", "access.revoked"},
           inv : Invitations, write : BOOLEAN]
SocketRows ==
    [pc : {"ticket", "checked", "accepted", "open", "leaving"}, guest : Guests,
     cred : Versions, write : BOOLEAN, lost : BOOLEAN, stale : BOOLEAN,
     queue : Seq(Events)]

SocketTypeOK ==
    /\ AccessTypeOK
    /\ \A s \in Sockets : sock[s] = Closed \/
          /\ sock[s] \in SocketRows
          /\ Len(sock[s].queue) <= MaxQueue
    /\ \A h \in Handlers : handler[h].pc \in {"idle", "manage", "publish"}
    /\ crossed \in BOOLEAN
    /\ roster \subseteq Guests /\ stray \subseteq Guests

SocketInit ==
    /\ AccessInit
    /\ sock = [s \in Sockets |-> Closed]
    /\ handler = [h \in Handlers |-> Idle]
    /\ crossed = FALSE
    /\ roster = {} /\ stray = {}

InvitationOf(s) == cookie[sock[s].guest].inv
Lives(s) == sock[s].pc \in {"accepted", "open", "leaving"}
Behind(i) == {s \in Sockets : sock[s] # Closed /\ InvitationOf(s) = i}

-----------------------------------------------------------------------------
(* The teacher's requests: document_for, the commit, then the events *)

Manage(h) ==
    /\ handler[h] = Idle /\ Undeleted
    /\ handler' = [handler EXCEPT ![h] = [pc |-> "manage", doc |-> board]]
    /\ crossed' = (crossed \/ \E other \in Handlers : handler[other] # Idle)
    /\ UNCHANGED <<accessVars, sock, roster, stray>>

\* Nothing to do, or refused.
Dismiss(h) ==
    /\ handler[h].pc = "manage"
    /\ handler' = [handler EXCEPT ![h] = Idle]
    /\ UNCHANGED <<accessVars, sock, crossed, roster, stray>>

Publishes(h, type, whom, doc) ==
    handler' = [handler EXCEPT ![h] = [pc |-> "publish", type |-> type, whom |-> whom,
                                       doc |-> doc]]

\* update_invitation: the events are made from the board as it was read at first.
CommitUpdate(h, i) ==
    /\ SwitchWrites(i) \/ SetExpiry(i)
    /\ Publishes(h, "access.capabilities.changed", {i}, handler[h].doc)

\* revoke_invitation and rotate_invitation
CommitRevoke(h, i) ==
    /\ Revoke(i) \/ Rotate(i)
    /\ Publishes(h, "access.revoked", {i}, board)

\* update_board; archive_board and unarchive_board publish if the board they read
\* at first was in the other state.
CommitBoard(h) ==
    /\ SetGuestWrites \/ Archive \/ Unarchive
    /\ IF handler[h].doc.life = board'.life /\ board.life # board'.life
       THEN handler' = [handler EXCEPT ![h] = Idle]
       ELSE Publishes(h, "access.capabilities.changed", Invitations, board')

CommitDelete(h) == Delete /\ Publishes(h, "access.revoked", Invitations, board')

Commit(h) ==
    /\ handler[h].pc = "manage"
    /\ \/ \E i \in Invitations : CommitUpdate(h, i) \/ CommitRevoke(h, i)
       \/ CommitBoard(h) \/ CommitDelete(h)
    /\ UNCHANGED <<sock, crossed, roster, stray>>

\* capability_change_events: nothing for an invitation revoked or expired by now.
\* revocation_events: every invitation.
EventsOf(h) ==
    LET p == handler[h]
        told == {i \in p.whom : Exists(i) /\
                    (p.type = "access.revoked" \/ ~(inv[i].revoked \/ inv[i].expired))} IN
    [i \in told |-> [type |-> p.type, inv |-> i, write |-> EffectiveWrite(inv[i], p.doc)]]

Missed(socket) == [socket EXCEPT !.lost = TRUE, !.stale = TRUE]

\* _offer: a full queue loses its oldest event.
Offered(socket, event) ==
    IF socket.pc # "open" THEN Missed(socket)
    ELSE IF Len(socket.queue) < MaxQueue
    THEN [socket EXCEPT !.queue = Append(@, event)]
    ELSE [Missed(socket) EXCEPT !.queue = Append(Tail(@), event)]

\* publish_capability_changes and publish_revocations
PublishEvents(h) ==
    /\ handler[h].pc = "publish"
    /\ LET events == EventsOf(h) IN
       sock' = [s \in Sockets |->
                  IF sock[s] # Closed /\ InvitationOf(s) \in DOMAIN events
                  THEN Offered(sock[s], events[InvitationOf(s)]) ELSE sock[s]]
    /\ handler' = [handler EXCEPT ![h] = Idle]
    /\ UNCHANGED <<accessVars, crossed, roster, stray>>

Deaf(deaf) ==
    sock' = [s \in Sockets |-> IF s \in deaf THEN Missed(sock[s]) ELSE sock[s]]

\* The process stops after the commit, or the broker cannot be reached.
PublisherDies(h) ==
    /\ handler[h].pc = "publish"
    /\ Deaf(UNION {Behind(i) : i \in handler[h].whom})
    /\ handler' = [handler EXCEPT ![h] = Idle]
    /\ UNCHANGED <<accessVars, crossed, roster, stray>>

\* The worker's expire_retention publishes nothing.
RetentionExpires ==
    /\ Expire
    /\ Deaf({s \in Sockets : sock[s] # Closed})
    /\ UNCHANGED <<handler, crossed, roster, stray>>

-----------------------------------------------------------------------------
(* The guest's connections *)

\* issue_ticket: what the principal was allowed when it was read
Ticket(r) ==
    [pc |-> "ticket", guest |-> r.guest, cred |-> cookie[r.guest].cred,
     write |-> r.write, queue |-> <<>>, lost |-> FALSE,
     stale |-> r.epoch # Current(cookie[r.guest].inv)]

\* collaboration_ticket
IssueTicket(q, s) ==
    /\ req[q].pc = "ticket" /\ Undeleted /\ sock[s] = Closed
    /\ sock' = [sock EXCEPT ![s] = Ticket(req[q])]
    /\ req' = [req EXCEPT ![q] = Idle]
    /\ UNCHANGED <<board, inv, cookie, ctx, handler, crossed, roster, stray>>

\* Mutant: the ticket is taken at its word.
HonouredAny(s) == Usable(inv[InvitationOf(s)], board)

\* principal_from_ticket
Honoured(s) ==
    /\ inv[InvitationOf(s)].cred = sock[s].cred
    /\ Usable(inv[InvitationOf(s)], board)

\* collaboration_socket consumes the ticket.
Connect(s) ==
    /\ sock[s].pc = "ticket" /\ Honoured(s)
    /\ sock' = [sock EXCEPT ![s].pc = "checked", ![s].lost = FALSE]
    /\ UNCHANGED <<accessVars, handler, crossed, roster, stray>>

\* require_read, accept, set_presence
Accept(s) ==
    /\ sock[s].pc = "checked" /\ Undeleted
    /\ sock' = [sock EXCEPT ![s].pc = "accepted"]
    /\ roster' = roster \cup {sock[s].guest}
    /\ UNCHANGED <<accessVars, handler, crossed, stray>>

\* After the roster was sent the relay subscribes.
Subscribe(s) ==
    /\ sock[s].pc = "accepted"
    /\ sock' = [sock EXCEPT ![s].pc = "open"]
    /\ UNCHANGED <<accessVars, handler, crossed, roster, stray>>

\* Mutant: only the event itself is passed on.
RelayOnly(s) ==
    /\ sock[s].pc = "open" /\ sock[s].queue # <<>>
    /\ LET event == Head(sock[s].queue) IN
       sock' = [sock EXCEPT ![s].queue = Tail(@),
                            ![s].pc = IF event.type = "access.revoked" THEN "leaving"
                                      ELSE @]
    /\ UNCHANGED <<accessVars, handler, crossed, roster, stray>>

\* relay: the right to write follows the event, a revocation closes with 4403.
Relay(s) ==
    /\ sock[s].pc = "open" /\ sock[s].queue # <<>>
    /\ LET event == Head(sock[s].queue) IN
       sock' = [sock EXCEPT ![s].queue = Tail(@),
                            ![s].write = IF event.type = "access.revoked" THEN @
                                         ELSE event.write,
                            ![s].pc = IF event.type = "access.revoked" THEN "leaving"
                                      ELSE @]
    /\ UNCHANGED <<accessVars, handler, crossed, roster, stray>>

\* Other events fill the queue: its oldest is lost.
Overflow(s) ==
    /\ sock[s].pc = "open" /\ sock[s].queue # <<>>
    /\ sock' = [sock EXCEPT ![s] = [Missed(@) EXCEPT !.queue = Tail(sock[s].queue)]]
    /\ UNCHANGED <<accessVars, handler, crossed, roster, stray>>

\* receive: the presence the client reports
UpdatePresence(s) ==
    /\ sock[s].pc = "open"
    /\ roster' = roster \cup {sock[s].guest}
    /\ UNCHANGED <<accessVars, sock, handler, crossed, stray>>

\* receive ends: disconnected, expired, refused, or a preview without the right.
Disconnect(s) ==
    /\ sock[s].pc \in {"accepted", "open"}
    /\ sock' = [sock EXCEPT ![s].pc = "leaving", ![s].queue = <<>>]
    /\ UNCHANGED <<accessVars, handler, crossed, roster, stray>>

\* Mutant: the presence is left to its time to live.
LeaveQuietly(s) ==
    /\ sock[s].pc = "leaving"
    /\ sock' = [sock EXCEPT ![s] = Closed]
    /\ UNCHANGED <<accessVars, handler, crossed, roster, stray>>

\* Mutant: fails where the list has dropped the client already.
LeavePresent(s) ==
    /\ sock[s].pc = "leaving" /\ sock[s].guest \in roster
    /\ sock' = [sock EXCEPT ![s] = Closed]
    /\ roster' = roster \ {sock[s].guest}
    /\ stray' = stray \ {sock[s].guest}
    /\ UNCHANGED <<accessVars, handler, crossed>>

\* finally: the client's presence goes, whichever socket put it there.
Finally(s) ==
    /\ sock[s].pc = "leaving"
    /\ sock' = [sock EXCEPT ![s] = Closed]
    /\ roster' = roster \ {sock[s].guest}
    /\ stray' = stray \ {sock[s].guest}
    /\ UNCHANGED <<accessVars, handler, crossed>>

\* The ticket expires unused, or is refused.
TicketFails(s) ==
    /\ sock[s].pc \in {"ticket", "checked"}
    /\ sock' = [sock EXCEPT ![s] = Closed]
    /\ UNCHANGED <<accessVars, handler, crossed, roster, stray>>

ProcessDies(s) ==
    /\ Lives(s)
    /\ sock' = [sock EXCEPT ![s] = Closed]
    /\ stray' = stray \cup {sock[s].guest}
    /\ UNCHANGED <<accessVars, handler, crossed, roster>>

\* list_presence drops who was not heard of for its time to live.
PrunePresence(g) ==
    /\ g \in roster
    /\ roster' = roster \ {g} /\ stray' = stray \ {g}
    /\ UNCHANGED <<accessVars, sock, handler, crossed>>

-----------------------------------------------------------------------------
Connection(s) ==
    \/ \E q \in Requests : IssueTicket(q, s)
    \/ Connect(s) \/ Accept(s) \/ Subscribe(s) \/ Relay(s) \/ Overflow(s)
    \/ UpdatePresence(s) \/ Disconnect(s) \/ Finally(s) \/ TicketFails(s)
    \/ ProcessDies(s)

SocketNext ==
    \/ \E i \in Invitations, write \in BOOLEAN :
          CreateInvitation(i, write) /\ UNCHANGED socketVars
    \/ \E i \in Invitations : Elapse(i) /\ UNCHANGED socketVars
    \/ Guest /\ UNCHANGED socketVars
    \/ \E h \in Handlers :
          Manage(h) \/ Dismiss(h) \/ Commit(h) \/ PublishEvents(h) \/ PublisherDies(h)
    \/ RetentionExpires
    \/ \E s \in Sockets : Connection(s)
    \/ \E g \in Guests : PrunePresence(g)

\* A request of the teacher runs to its end, and a relay sends what it hears.
Fairness ==
    /\ \A h \in Handlers : WF_liveVars(PublishEvents(h))
    /\ \A s \in Sockets : WF_liveVars(Relay(s)) /\ WF_liveVars(Subscribe(s)) /\ WF_liveVars(Finally(s))

SocketSpec == SocketInit /\ [][SocketNext]_liveVars /\ Fairness

-----------------------------------------------------------------------------
Pending == \E h \in Handlers : handler[h].pc = "publish"
Hears(s) == sock[s].pc = "open" /\ ~sock[s].lost
Outdated(s) ==
    \/ inv[InvitationOf(s)].cred # sock[s].cred
    \/ board.life = "deleted"

UpToDate(s) ==
    /\ Hears(s) /\ ~sock[s].stale /\ sock[s].queue = <<>>
    /\ ~Outdated(s) /\ ~Pending /\ ~crossed

\* An open socket that missed nothing since its ticket was checked hears of it when
\* its invitation is revoked or rotated or its board deleted: the event waits for it
\* or is about to be published.
RevocationHeard ==
    \A s \in Sockets : Hears(s) /\ Outdated(s) =>
        \/ Pending
        \/ \E n \in DOMAIN sock[s].queue : sock[s].queue[n].type = "access.revoked"

\* When all is said and heard, a socket lets its guest write exactly if the rows do,
\* unless two requests of the teacher overlapped: the events of one are made from a
\* board the other may have changed, and may arrive in the other order.
FlagFollowsRights ==
    \A s \in Sockets :
        LET row == inv[InvitationOf(s)] IN
        UpToDate(s) /\ ~row.expired => sock[s].write = EffectiveWrite(row, board)

\* Nobody is listed as present without a connection, but for those whose process
\* died; and they only until the list is pruned.
NoGhosts ==
    \A g \in roster \ stray : \E s \in Sockets : Lives(s) /\ sock[s].guest = g

\* Rows, queues and the roster are as they should be.
PresenceSound == SocketTypeOK /\ NoGhosts

\* A socket whose access was withdrawn is closed in the end, if it could hear of it.
RevokedSocketsClose ==
    \A s \in Sockets :
        sock[s].pc = "open" /\ Outdated(s) ~> sock[s] = Closed \/ sock[s].lost
=============================================================================
