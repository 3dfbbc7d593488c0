--------------------------- MODULE BoardContract ---------------------------
(***************************************************************************)
(* The envelopes in which clients send commands to a board and the         *)
(* snapshots they save, as contracts.py reads them: what each version of   *)
(* the schema may carry, the order within a batch and the graph a paste    *)
(* brings with it.                                                         *)
(***************************************************************************)
EXTENDS Naturals, Sequences, Functions

CONSTANTS Ids,      \* the identifiers a client may send
          SafeIds,  \* those that match the pattern and name no property of objects
          NoGroup   \* null: an object outside of any group

Unordered == {"1.0", "1.2"}
Ordered == {"1.3", "1.4", "1.5", "1.6", "1.7"}
WithOrigin == {"1.5", "1.6", "1.7"}
SnapshotVersions == {"1.4", "1.5", "1.6"}

\* The commands of every schema, and those that came with 1.4 and with 1.7.
Kinds == {"old", "solid-3d-learning", "restore-graph", "batch-replace"}

\* The objects of a graph lie in a group or in none; one drawn by GeometryOS names the
\* import it comes from.  An import and a solid model are records of the same shape.
NoImport == "none"
Objects == [id : Ids, group : Ids \cup {NoGroup}, import : Ids \cup {NoImport}]
Groups == [id : Ids, objects : Seq(Ids)]
Entries == [id : Ids, root : Ids, objects : SUBSET Ids]

Graphs ==
    [objects : Seq(Objects), groups : Seq(Groups), imports : Seq(Entries), solids : Seq(Entries)]

Commands == [kind : Kinds, actor : Ids, graph : Graphs, lamport : Nat, created_at : Nat]

Envelopes ==
    [version : Unordered \cup Ordered, actor : Ids, base : Nat, origin : Ids,
     commands : Seq(Commands)]

-----------------------------------------------------------------------------
(* _validate_graph_restore *)

IdsOf(items) == {items[i].id : i \in DOMAIN items}

Distinct(items) ==
    /\ IdsOf(items) \subseteq SafeIds
    /\ \A i, j \in DOMAIN items : items[i].id = items[j].id => i = j

\* Where an object is named: the group, and the place in it.
Places(graph, id) ==
    {p \in (DOMAIN graph.groups) \X Nat :
        p[2] \in DOMAIN graph.groups[p[1]].objects /\ graph.groups[p[1]].objects[p[2]] = id}

PlaceOf(graph, id) == CHOOSE p \in Places(graph, id) : TRUE

Membership(graph, id) ==
    IF Places(graph, id) = {} THEN NoGroup ELSE graph.groups[PlaceOf(graph, id)[1]].id

GroupsSound(graph) ==
    /\ \A g \in DOMAIN graph.groups :
          /\ graph.groups[g].objects # <<>>
          /\ Range(graph.groups[g].objects) \subseteq IdsOf(graph.objects)
    /\ \A id \in Ids : \A p, q \in Places(graph, id) : p = q

ObjectsSound(graph) ==
    \A i \in DOMAIN graph.objects :
        LET object == graph.objects[i] IN
        /\ object.group = NoGroup \/ object.group \in IdsOf(graph.groups)
        /\ Membership(graph, object.id) = object.group
        /\ object.import = NoImport \/ object.import \in IdsOf(graph.imports)

EntriesSound(graph, entries) ==
    \A i \in DOMAIN entries : /\ entries[i].root \in IdsOf(graph.groups)
                              /\ entries[i].objects \subseteq IdsOf(graph.objects)

Restorable(graph) ==
    /\ Distinct(graph.objects) /\ Distinct(graph.groups)
    /\ Distinct(graph.imports) /\ Distinct(graph.solids)
    /\ GroupsSound(graph) /\ ObjectsSound(graph)
    /\ EntriesSound(graph, graph.imports) /\ EntriesSound(graph, graph.solids)

-----------------------------------------------------------------------------
(* The versions, and the order of a batch *)

\* Only 1.3 refuses the commands that came with 1.4: 1.0 and 1.2 read them.
Speaks(version, kind) ==
    /\ kind \in {"restore-graph", "batch-replace"} => version = "1.7"
    /\ kind = "solid-3d-learning" => version # "1.3"

InOrder(envelope) ==
    LET commands == envelope.commands IN
    /\ \A i \in DOMAIN commands : commands[i].created_at <= envelope.base
    /\ \A i \in DOMAIN commands :
          i + 1 \in DOMAIN commands => commands[i].lamport < commands[i + 1].lamport

Accepted(envelope) ==
    /\ Len(envelope.commands) \in 1..100
    /\ \A i \in DOMAIN envelope.commands :
          /\ Speaks(envelope.version, envelope.commands[i].kind)
          /\ envelope.commands[i].kind = "restore-graph"
                => Restorable(envelope.commands[i].graph)
    /\ envelope.version \in Ordered => InOrder(envelope)

\* The first and the last Lamport time of an ordered batch, for the journal's index.
LamportRange(envelope) ==
    IF envelope.version \in Ordered
    THEN {<<envelope.commands[1].lamport, envelope.commands[Len(envelope.commands)].lamport>>}
    ELSE {}

Origin(envelope) == IF envelope.version \in WithOrigin THEN {envelope.origin} ELSE {}

\* _validate_actor, and the same in _validate of an uploaded batch.
OnlyOf(envelope, actor) ==
    /\ envelope.actor = actor
    /\ \A i \in DOMAIN envelope.commands : envelope.commands[i].actor = actor

\* What the routes of the full application read of a snapshot, and those of the board app.
SnapshotReadable(app, version) ==
    version = "1.4" \/ (app = "full" /\ version \in SnapshotVersions)
=============================================================================
