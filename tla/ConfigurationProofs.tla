------------------------ MODULE ConfigurationProofs ------------------------
(***************************************************************************)
(* ServerConfiguration, for any number of entities: the identifiers the    *)
(* class keeps always name the last entity of their kind.                  *)
(***************************************************************************)
EXTENDS ServerConfiguration, TLAPS

\* An identifier is the greatest of its kind, the null identifier if there is none.
IdentIsLatest ==
    \A k \in Idents : \A e \in DOMAIN created : created[e].kind = k => e <= ident[k]

\* Without the bound on the number of entities, which only TLC needs.
Shape ==
    /\ created \in Seq(Entities)
    /\ existing \subseteq DOMAIN created
    /\ \A e \in DOMAIN created : created[e].parents \subseteq DOMAIN created
    /\ ident \in [Idents -> Nat]
    /\ \A k \in Idents : ident[k] # 0 => ident[k] \in DOMAIN created /\ created[ident[k]].kind = k

IInv == Shape /\ IdentIsLatest /\ AttachedToLatest

---------------------------------------------------------------------------

\* An accepted call appends one entity and keeps its identifier.
LEMMA AcceptedStep ==
    ASSUME IInv,
           NEW kind \in Kinds, NEW parents \in SUBSET Nat, Accepted(kind, parents),
           kind # "readerGroup" => \A p \in parents : \E k \in Idents : p = ident[k]
    PROVE  IInv'
  <1> DEFINE new == [kind |-> kind, parents |-> parents]
  <1>1. /\ created \in Seq(Entities) /\ existing \subseteq 1..Len(created)
        /\ Len(created) \in Nat /\ DOMAIN created = 1..Len(created)
    BY DEF IInv, Shape
  <1>2. /\ created' = Append(created, new) /\ new \in Entities
        /\ parents \subseteq existing /\ existing' = existing \cup {Fresh}
    BY DEF Accepted, Entities
  <1>3. /\ created' \in Seq(Entities) /\ Len(created') = Fresh /\ DOMAIN created' = 1..Fresh
        /\ Fresh = Len(created) + 1
    BY <1>1, <1>2 DEF Fresh
  <1>4. \A e \in 1..Len(created) : created'[e] = created[e]
    BY <1>1, <1>2
  <1>5. created'[Fresh] = new
    BY <1>1, <1>2 DEF Fresh
  <1>6. \A k \in Idents : ident'[k] = IF k = kind THEN Fresh ELSE ident[k]
    BY DEF Accepted, Keeps, Member, IInv, Shape
  <1>7. ident' \in [Idents -> Nat]
    BY <1>1, <1>3 DEF Accepted, Keeps, Member, IInv, Shape
  <1>8. ASSUME NEW k \in Idents, ident'[k] # 0
        PROVE  ident'[k] \in DOMAIN created' /\ created'[ident'[k]].kind = k
    BY <1>1, <1>3, <1>4, <1>5, <1>6, <1>8 DEF IInv, Shape
  <1>9. Shape'
    <2>1. ASSUME NEW e \in existing' PROVE e \in DOMAIN created'
      <3>1. e \in existing \/ e = Fresh
        BY <1>2
      <3>2. CASE e \in existing
        BY <1>1, <1>3, <3>2
      <3>3. CASE e = Fresh
        BY <1>1, <1>3, <3>3
      <3> QED
        BY <3>1, <3>2, <3>3
    <2>2. ASSUME NEW e \in DOMAIN created' PROVE created'[e].parents \subseteq DOMAIN created'
      <3>1. CASE e = Fresh
        BY <1>1, <1>2, <1>3, <1>5, <3>1
      <3>2. CASE e \in 1..Len(created)
        BY <1>1, <1>3, <1>4, <3>2 DEF IInv, Shape
      <3> QED
        BY <1>1, <1>3, <3>1, <3>2
    <2> QED
      BY <1>3, <1>7, <1>8, <2>1, <2>2 DEF Shape
  <1>10. IdentIsLatest'
    <2> SUFFICES ASSUME NEW k \in Idents, NEW e \in DOMAIN created', created'[e].kind = k
                 PROVE  e <= ident'[k]
      BY DEF IdentIsLatest
    <2>1. CASE e = Fresh
      BY <1>3, <1>5, <1>6, <2>1
    <2>2. CASE e \in 1..Len(created)
      <3>1. e <= ident[k] /\ ident[k] \in Nat
        BY <1>1, <1>4, <2>2 DEF IInv, Shape, IdentIsLatest
      <3> QED
        BY <1>1, <1>3, <1>6, <2>2, <3>1
    <2> QED
      BY <1>1, <1>3, <2>1, <2>2
  <1>11. AttachedToLatest'
    <2> SUFFICES ASSUME NEW e \in DOMAIN created', NEW p \in created'[e].parents,
                        created'[e].kind # "readerGroup",
                        NEW later \in DOMAIN created', created'[later].kind = created'[p].kind
                 PROVE  later <= p \/ later >= e
      BY DEF AttachedToLatest
    <2>1. CASE e = Fresh
      <3>1. p \in parents /\ kind # "readerGroup" /\ p \in 1..Len(created)
        BY <1>1, <1>2, <1>5, <2>1
      <3>2. PICK k \in Idents : p = ident[k]
        BY <3>1
      <3>3. p # 0 /\ created[p].kind = k
        BY <1>1, <3>1, <3>2 DEF IInv, Shape
      <3>4. CASE later = Fresh
        BY <1>1, <1>3, <2>1, <3>4
      <3>5. CASE later \in 1..Len(created)
        BY <1>4, <3>1, <3>2, <3>3, <3>5, <1>1 DEF IInv, IdentIsLatest
      <3> QED
        BY <1>1, <1>3, <3>4, <3>5
    <2>2. CASE e \in 1..Len(created)
      <3>1. p \in created[e].parents /\ created[e].kind # "readerGroup"
        BY <1>4, <2>2
      <3>2. p \in 1..Len(created)
        BY <1>1, <2>2, <3>1 DEF IInv, Shape
      <3>3. CASE later = Fresh
        BY <1>1, <1>3, <2>2, <3>3
      <3>4. CASE later \in 1..Len(created)
        BY <1>1, <1>4, <2>2, <3>1, <3>2, <3>4 DEF IInv, AttachedToLatest
      <3> QED
        BY <1>1, <1>3, <3>3, <3>4
    <2> QED
      BY <1>1, <1>3, <2>1, <2>2
  <1> QED
    BY <1>9, <1>10, <1>11 DEF IInv

\* A call that creates nothing leaves the invariant alone, whatever it removes.
LEMMA RemovedStep ==
    ASSUME IInv, existing' \subseteq existing, UNCHANGED <<created, ident>>
    PROVE  IInv'
  BY DEF IInv, Shape, IdentIsLatest, AttachedToLatest

\* The invariant holds before anything is created.
LEMMA InitIInv == Init => IInv
  <1> SUFFICES ASSUME Init PROVE IInv
    OBVIOUS
  <1>1. created = <<>> /\ existing = {} /\ ident = [k \in Idents |-> 0]
    BY DEF Init
  <1>2. <<>> \in Seq(Entities)
    OBVIOUS
  <1>3. created \in Seq(Entities) /\ DOMAIN created = {}
    BY <1>1, <1>2
  <1> QED
    BY <1>1, <1>3 DEF IInv, Shape, IdentIsLatest, AttachedToLatest

\* The invariant is inductive: every call creates with the identifiers kept, but
\* for reader groups.
LEMMA StepIInv == IInv /\ [Next]_vars => IInv'
  <1> SUFFICES ASSUME IInv, [Next]_vars PROVE IInv'
    OBVIOUS
  <1> USE DEF Idents, Kinds
  <1>1. \A k \in Idents : ident[k] \in Nat
    BY DEF IInv, Shape
  <1>2. CASE AddPubSubConnection
    BY <1>2, AcceptedStep DEF AddPubSubConnection
  <1>3. CASE AddPublishedDataSet
    BY <1>3, AcceptedStep DEF AddPublishedDataSet
  <1>4. CASE AddDataSetField
    BY <1>1, <1>4, AcceptedStep DEF AddDataSetField
  <1>5. CASE AddWriterGroup
    <2>1. CASE Accepted("writerGroup", {ident["connection"]})
      BY <1>1, <2>1, AcceptedStep
    <2>2. CASE Refused
      BY <2>2, RemovedStep DEF Refused
    <2> QED
      BY <1>5, <2>1, <2>2 DEF AddWriterGroup
  <1>6. CASE AddDataSetWriter
    BY <1>1, <1>6, AcceptedStep DEF AddDataSetWriter
  <1>7. CASE AddReaderGroup
    <2>1. PICK c \in Existing("connection") : Accepted("readerGroup", {c})
      BY <1>7 DEF AddReaderGroup
    <2>2. c \in Nat
      BY DEF Existing, IInv, Shape
    <2> QED
      BY <2>1, <2>2, AcceptedStep
  <1>8. CASE RemovePubSubConnection
    BY <1>8, RemovedStep DEF RemovePubSubConnection, Gone
  <1>9. CASE RemoveDataSetWriter
    BY <1>9, RemovedStep DEF RemoveDataSetWriter, Gone
  <1>10. CASE UNCHANGED vars
    BY <1>10, RemovedStep DEF vars
  <1> QED
    BY <1>2, <1>3, <1>4, <1>5, <1>6, <1>7, <1>8, <1>9, <1>10 DEF Next

\* addDataSetField, addWriterGroup and addDataSetWriter attach what they create to
\* the last entities created of the kinds they need, for any number of entities,
\* refused calls and removals.  Nothing is said of addReaderGroup, whose parent is
\* an identifier nobody has set.
THEOREM LatestParents == Spec => []AttachedToLatest
  <1>1. IInv => AttachedToLatest
    BY DEF IInv
  <1> QED
    BY <1>1, InitIInv, StepIInv, PTL DEF Spec

---------------------------------------------------------------------------
(* Type correctness, with the bound and the groups that publish. *)

Bounds == Len(created) <= MaxEntities /\ operational \subseteq existing

\* Only an accepted call creates, and it is not accepted at the bound; a group is
\* started only while it exists, and stops with its removal.
LEMMA StepBounds == IInv /\ Bounds /\ [Next]_vars => Bounds'
  <1> SUFFICES ASSUME IInv, Bounds, [Next]_vars PROVE Bounds'
    OBVIOUS
  <1>1. created \in Seq(Entities)
    BY DEF IInv, Shape
  <1>2. ASSUME NEW kind, NEW parents, Accepted(kind, parents)
        PROVE  Len(created') <= MaxEntities /\ existing \subseteq existing'
    <2>1. Len(created') = Len(created) + 1
      BY <1>1, <1>2 DEF Accepted
    <2> QED
      BY <1>2, <2>1 DEF Accepted, Fresh
  <1>3. ASSUME NEW entities, Gone(entities) PROVE Bounds'
    BY <1>3 DEF Gone, Bounds
  <1>4. CASE AddPubSubConnection \/ AddPublishedDataSet \/ AddDataSetField
             \/ AddDataSetWriter \/ AddReaderGroup
    BY <1>2, <1>4 DEF AddPubSubConnection, AddPublishedDataSet, AddDataSetField,
                      AddDataSetWriter, AddReaderGroup, Bounds
  <1>5. CASE AddWriterGroup
    <2>1. Len(created') <= MaxEntities /\ existing \subseteq existing'
      <3>1. CASE Accepted("writerGroup", {ident["connection"]})
        BY <1>2, <3>1
      <3>2. CASE Refused
        BY <3>2 DEF Refused, Bounds
      <3> QED
        BY <1>5, <3>1, <3>2 DEF AddWriterGroup
    <2>2. operational' \subseteq operational \cup existing'
      BY <1>5 DEF AddWriterGroup
    <2> QED
      BY <2>1, <2>2 DEF Bounds
  <1>6. CASE RemovePubSubConnection \/ RemoveDataSetWriter
    BY <1>3, <1>6 DEF RemovePubSubConnection, RemoveDataSetWriter
  <1>7. CASE UNCHANGED vars
    BY <1>7 DEF vars, Bounds
  <1> QED
    BY <1>4, <1>5, <1>6, <1>7 DEF Next

\* The identifiers the class keeps stay null or name an entity of their own kind,
\* whatever has been removed, and what publishes exists.
THEOREM TypeCorrect == Spec => []TypeOK
  <1>1. Init => Bounds
    <2> SUFFICES ASSUME Init PROVE Bounds
      OBVIOUS
    <2>1. Len(created) = 0
      BY DEF Init
    <2> QED
      BY <2>1, MaxEntitiesAssumption DEF Init, Bounds
  <1>2. IInv /\ Bounds => TypeOK
    <2> SUFFICES ASSUME IInv, Bounds PROVE TypeOK
      OBVIOUS
    <2>1. DOMAIN created = 1..Len(created) /\ Len(created) \in Nat
      BY DEF IInv, Shape
    <2>2. \A k \in Idents : ident[k] \in 0..Len(created)
      BY <2>1 DEF IInv, Shape
    <2>3. ident \in [Idents -> 0..Len(created)]
      BY <2>2 DEF IInv, Shape
    <2> QED
      BY <2>3 DEF IInv, Shape, Bounds, TypeOK
  <1> QED
    BY <1>1, <1>2, InitIInv, StepIInv, StepBounds, PTL DEF Spec
=============================================================================
