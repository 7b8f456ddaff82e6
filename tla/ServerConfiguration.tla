------------------------ MODULE ServerConfiguration ------------------------
(***************************************************************************)
(* The PubSub configuration calls of openPubSub::Server (openPubSub.cpp).  *)
(* The object keeps one identifier per kind of entity; the entities live   *)
(* in the open62541 server, which is external: an add call creates its     *)
(* entity under parents that exist, or refuses and writes no identifier;   *)
(* the removal of an entity removes what it contains (ua_pubsub.h).        *)
(* The void calls of the class drop the statuscode.                        *)
(***************************************************************************)
EXTENDS Naturals, Sequences

CONSTANT MaxEntities   \* bound: entities created in one behaviour

ASSUME MaxEntitiesAssumption == MaxEntities \in Nat

VARIABLES created,     \* every entity ever created; its position is its identifier
          existing,    \* those the server still has
          operational, \* the writer groups that publish
          ident        \* m_connectionIdent and the others; 0 is the null identifier

vars == <<created, existing, operational, ident>>

Idents == {"connection", "dataSet", "writerGroup", "writer"}
Kinds  == Idents \cup {"field", "readerGroup"}

Init ==
    /\ created = <<>> /\ existing = {} /\ operational = {}
    /\ ident = [k \in Idents |-> 0]

---------------------------------------------------------------------------
(* The open62541 server. *)

Fresh == Len(created) + 1

ParentKinds(kind) ==
    CASE kind \in {"connection", "dataSet"}      -> {}
      [] kind = "field"                          -> {"dataSet"}
      [] kind \in {"writerGroup", "readerGroup"} -> {"connection"}
      [] kind = "writer"                         -> {"writerGroup", "dataSet"}

Existing(kind) == {e \in existing : created[e].kind = kind}

\* What a connection holds: itself, its groups and their writers.
Contained(c) ==
    LET groups == {e \in existing : c \in created[e].parents}
    IN {c} \cup groups \cup {e \in existing : created[e].parents \cap groups # {}}

\* A refused call, for want of a parent, memory or a free address.
Refused == UNCHANGED <<created, existing, ident>>

\* Mutant: the writer's identifier is kept as the writer group's.
KeptAsGroup(kind) == IF kind = "writer" THEN "writerGroup" ELSE kind

\* The member an identifier is kept in.
Member(kind) == kind

\* Mutant: only the first identifier of a kind is kept.
FirstOnly(kind) == kind \in Idents /\ ident[kind] = 0

Keeps(kind) == kind \in Idents

Accepted(kind, parents) ==
    /\ Fresh <= MaxEntities
    /\ parents \subseteq existing
    /\ {created[p].kind : p \in parents} = ParentKinds(kind)
    /\ created' = Append(created, [kind |-> kind, parents |-> parents])
    /\ existing' = existing \cup {Fresh}
    /\ ident' = IF Keeps(kind) THEN [ident EXCEPT ![Member(kind)] = Fresh] ELSE ident

Gone(entities) ==
    /\ existing' = existing \ entities
    /\ operational' = operational \ entities
    /\ UNCHANGED <<created, ident>>

---------------------------------------------------------------------------
(* The calls of the class. *)

AddPubSubConnection == Accepted("connection", {}) /\ UNCHANGED operational

AddPublishedDataSet == Accepted("dataSet", {}) /\ UNCHANGED operational

\* addDataSetField and addInt32DataSetField.
AddDataSetField == Accepted("field", {ident["dataSet"]}) /\ UNCHANGED operational

\* setWriterGroupOperational follows whatever became of the group: with the
\* identifier of an older one if it was refused.
AddWriterGroup ==
    /\ Accepted("writerGroup", {ident["connection"]}) \/ Refused
    /\ operational' \in {operational, operational \cup ({ident'["writerGroup"]} \cap existing')}

AddDataSetWriter ==
    Accepted("writer", {ident["writerGroup"], ident["dataSet"]}) /\ UNCHANGED operational

\* The connection's identifier is a local variable nobody has initialised.
AddReaderGroup ==
    /\ \E c \in Existing("connection") : Accepted("readerGroup", {c})
    /\ UNCHANGED operational

\* The identifier of what is removed is kept.
RemovePubSubConnection ==
    ident["connection"] \in existing /\ Gone(Contained(ident["connection"]))

RemoveDataSetWriter == ident["writer"] \in existing /\ Gone({ident["writer"]})

Next ==
    \/ AddPubSubConnection \/ AddPublishedDataSet \/ AddDataSetField
    \/ AddWriterGroup \/ AddDataSetWriter \/ AddReaderGroup
    \/ RemovePubSubConnection \/ RemoveDataSetWriter

Spec == Init /\ [][Next]_vars

---------------------------------------------------------------------------
(* Properties. *)

Entities == [kind : Kinds, parents : SUBSET Nat]

TypeOK ==
    /\ created \in Seq(Entities) /\ Len(created) <= MaxEntities
    /\ existing \subseteq DOMAIN created
    /\ operational \subseteq existing
    /\ ident \in [Idents -> 0..Len(created)]
    /\ \A k \in Idents : ident[k] # 0 => created[ident[k]].kind = k

\* A field belongs to the data set created before it, a writer group to the
\* connection, a writer to the group and the data set: of what was created before
\* it always the last, whatever was removed in between and however the calls are
\* mixed.  The identifiers carry this from call to call.  It says nothing of an
\* entity that was refused, for which the one before it stands in, and nothing of
\* a reader group: addReaderGroup passes an identifier nobody has set, so it gets
\* any connection or none.
AttachedToLatest ==
    \A e \in {x \in DOMAIN created : created[x].kind # "readerGroup"} :
        \A p \in created[e].parents, later \in DOMAIN created :
            created[later].kind = created[p].kind => later <= p \/ later >= e
=============================================================================
