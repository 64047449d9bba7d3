--------------------------- MODULE LibraryProofs ----------------------------
(***************************************************************************)
(* The parts that share no state with the ticks.  A keyspace filled in any *)
(* way keeps its records apart and its scans in their zones, the access    *)
(* check is right for claims of every length, the queue implements a       *)
(* first-in-first-out sequence for any number of elements, and the zone    *)
(* server starts and ends any number of workers cleanly.                   *)
(***************************************************************************)
EXTENDS EntityKeys, Rebac, Queue, ZoneServer, DataProofs, FiniteSetTheorems

-----------------------------------------------------------------------------
(* The keyspace.                                                           *)

KeysInv ==
    /\ entities \subseteq ZoneIds \X EntityIds /\ IsFiniteSet(entities)
    /\ zones \subseteq ZoneIds /\ IsFiniteSet(zones)

\* The keyspace starts empty,
LEMMA KeysInitially == KeysInit => KeysInv
  BY FS_EmptySet DEF KeysInit, KeysInv

\* and one key is written at a time.
LEMMA KeysStep == KeysInv /\ [KeysNext]_keysVars => KeysInv'
<1> SUFFICES ASSUME KeysInv, [KeysNext]_keysVars PROVE KeysInv'
    OBVIOUS
<1>1. ASSUME NEW z \in ZoneIds, NEW e \in EntityIds, PutEntity(z, e) PROVE KeysInv'
  <2>1. IsFiniteSet(entities \cup {<<z, e>>})
        BY FS_AddElement DEF KeysInv
  <2>2. QED BY <1>1, <2>1 DEF KeysInv, PutEntity
<1>2. ASSUME NEW z \in ZoneIds, PutZone(z) PROVE KeysInv'
  <2>1. IsFiniteSet(zones \cup {z})
        BY FS_AddElement DEF KeysInv
  <2>2. QED BY <1>2, <2>1 DEF KeysInv, PutZone
<1>3. CASE UNCHANGED keysVars
      BY <1>3 DEF KeysInv, keysVars
<1>4. QED BY <1>1, <1>2, <1>3 DEF KeysNext

\* What is written has ids of four bytes.
LEMMA WrittenIds ==
    ASSUME KeysInv
    PROVE  /\ \A k \in entities : k = <<k[1], k[2]>> /\ k[1] \in U32 /\ k[2] \in U32
           /\ zones \subseteq U32
      BY KeysAssumption DEF KeysInv

\* Every record has a key of its own, of which its ids can be read back.
LEMMA InvDistinct == KeysInv => KeysAreDistinct
<1> SUFFICES ASSUME KeysInv PROVE KeysAreDistinct
    OBVIOUS
<1>1. Cardinality(EntityKeySet) = Cardinality(entities)
  <2> DEFINE f == [k \in entities |-> zf_kv_entity_key(k[1], k[2])]
  <2>1. f \in Surjection(entities, EntityKeySet)
        BY DEF Surjection, EntityKeySet
  <2>2. \A j, k \in entities : f[j] = f[k] => j = k
    <3>1. SUFFICES ASSUME NEW j \in entities, NEW k \in entities,
                          zf_kv_entity_key(j[1], j[2]) = zf_kv_entity_key(k[1], k[2])
                   PROVE  j = k
          OBVIOUS
    <3>2. j[1] \in U32 /\ j[2] \in U32 /\ k[1] \in U32 /\ k[2] \in U32
          BY WrittenIds
    <3>3. j[1] = k[1] /\ j[2] = k[2]
          BY <3>1, <3>2, KeyInjective
    <3>4. QED BY <3>3, WrittenIds
  <2>3. f \in Injection(entities, EntityKeySet)
        BY <2>1, <2>2 DEF Injection, IsInjective, Surjection
  <2> HIDE DEF f
  <2>4. QED BY <2>1, <2>3, FS_Surjection DEF KeysInv
<1>2. Cardinality(ZoneKeySet) = Cardinality(zones)
  <2> DEFINE f == [z \in zones |-> zf_kv_zone_key(z)]
  <2>1. f \in Surjection(zones, ZoneKeySet)
        BY DEF Surjection, ZoneKeySet
  <2>2. \A y, z \in zones : f[y] = f[z] => y = z
        BY WrittenIds, ZoneKeyInjective
  <2>3. f \in Injection(zones, ZoneKeySet)
        BY <2>1, <2>2 DEF Injection, IsInjective, Surjection
  <2> HIDE DEF f
  <2>4. QED BY <2>1, <2>3, FS_Surjection DEF KeysInv
<1>3. EntityKeySet \cap ZoneKeySet = {}
      BY WrittenIds, KeyKinds DEF EntityKeySet, ZoneKeySet
<1>4. QED BY <1>1, <1>2, <1>3, WrittenIds, KeyIds DEF KeysAreDistinct

\* A scan stays within its zone,
LEMMA InvIsolated == KeysInv => ScanIsolated
<1> SUFFICES ASSUME KeysInv, NEW z \in ZoneIds
             PROVE  /\ \A k \in Scanned(z) : k[1] = z
                    /\ \A key \in ZoneKeySet : ~ InEntityRange(z, key)
    BY DEF ScanIsolated
<1>1. z \in U32
      BY KeysAssumption
<1>2. ASSUME NEW k \in Scanned(z) PROVE k[1] = z
  <2>1. k \in entities /\ InEntityRange(z, zf_kv_entity_key(k[1], k[2]))
        BY DEF Scanned
  <2>2. k[1] \in U32 /\ k[2] \in U32
        BY <2>1, WrittenIds
  <2>3. QED BY <1>1, <2>1, <2>2, ScanIsolation
<1>3. ASSUME NEW key \in ZoneKeySet PROVE ~ InEntityRange(z, key)
  <2>1. PICK y \in zones : key = zf_kv_zone_key(y)
        BY DEF ZoneKeySet
  <2>2. y \in U32
        BY WrittenIds
  <2>3. QED BY <1>1, <2>1, <2>2, ScanSkipsZones
<1>4. QED BY <1>2, <1>3

\* returns its rows in the order of their ids,
LEMMA InvInOrder == KeysInv => ScanInIdOrder
<1> SUFFICES ASSUME KeysInv, NEW z \in ZoneIds, NEW j \in Scanned(z), NEW k \in Scanned(z)
             PROVE  j[2] < k[2] <=> KeyLess(zf_kv_entity_key(j[1], j[2]),
                                            zf_kv_entity_key(k[1], k[2]))
    BY DEF ScanInIdOrder
<1>1. j[1] = z /\ k[1] = z
      BY InvIsolated DEF ScanIsolated
<1>2. j[2] \in U32 /\ k[2] \in U32 /\ z \in U32
      BY WrittenIds, KeysAssumption DEF Scanned
<1>3. QED BY <1>1, <1>2, KeyOrder

\* and misses none whose e_id does not start with the byte 0xFF.
LEMMA InvFindsLow == KeysInv => ScanFindsLowIds
<1> SUFFICES ASSUME KeysInv, NEW k \in entities, zf_kv_encode_u32_be(k[2])[1] # Base - 1
             PROVE  k \in Scanned(k[1])
    BY DEF ScanFindsLowIds
<1>1. k[1] \in U32 /\ k[2] \in U32
      BY WrittenIds
<1>2. QED BY <1>1, ScanFinds DEF Scanned

\* No two records ever share a key, and zf_kv_decode_u32_be reads both ids of an
\* entity back from its key: any ids, any number of them, any size of a byte.
THEOREM KeysStayDistinct == KeysSpec => []KeysAreDistinct
  BY KeysInitially, KeysStep, InvDistinct, PTL DEF KeysSpec

\* However the keyspace is filled, a zone's scan returns that zone's entities and
\* no zone record.
THEOREM ScansStayIsolated == KeysSpec => []ScanIsolated
  BY KeysInitially, KeysStep, InvIsolated, PTL DEF KeysSpec

\* The rows of a scan are in the numeric order of their e_ids.
THEOREM ScansStayInOrder == KeysSpec => []ScanInIdOrder
  BY KeysInitially, KeysStep, InvInOrder, PTL DEF KeysSpec

\* A zone's scan finds every entity written to the zone whose e_id does not start
\* with the byte 0xFF.
THEOREM ScansFindLowIds == KeysSpec => []ScanFindsLowIds
  BY KeysInitially, KeysStep, InvFindsLow, PTL DEF KeysSpec

-----------------------------------------------------------------------------
(* The access check.                                                       *)

\* The loop invariant of rebac_max_relation: best is the highest of the relations
\* looked at so far.
BestSoFar ==
    /\ index \in 1 .. Len(relations)
    /\ \E k \in 1 .. index : best = relations[k]
    /\ \A k \in 1 .. index : relations[k] =< best

RebacInv ==
    /\ relations \in Seq(Relations)
    /\ at \in {"call", "loop", "returned"}
    /\ at = "call" => ~ granted
    /\ at = "loop" => BestSoFar
    /\ GrantedByOneRelation

\* What rebac_action_min_relation returns is a relation, and the highest one for
\* every action but observing and interacting.
LEMMA MinRelation ==
    ASSUME NEW a
    PROVE  /\ rebac_action_min_relation(a) \in Relations
           /\ a \notin {"OBSERVE", "INTERACT"} => rebac_action_min_relation(a) = OWNER
<1>1. CASE a = "OBSERVE"
      BY <1>1 DEF rebac_action_min_relation, Relations, PUBLIC, OWNER
<1>2. CASE a = "INTERACT"
      BY <1>2 DEF rebac_action_min_relation, Relations, PUBLIC, OWNER, INSTANCE_MEMBER
<1>3. CASE a \notin {"OBSERVE", "INTERACT"}
      BY <1>3 DEF rebac_action_min_relation, Relations, PUBLIC, OWNER
<1>4. QED BY <1>1, <1>2, <1>3

\* A claim, an array of relations, is a sequence.
LEMMA ClaimIsSeq ==
    ASSUME NEW c \in UNION {[1 .. n -> Relations] : n \in ClaimLengths}
    PROVE  c \in Seq(Relations)
<1>1. PICK n \in ClaimLengths : c \in [1 .. n -> Relations]
      OBVIOUS
<1>2. n \in Nat
      BY RebacAssumption
<1>3. QED BY <1>1, <1>2, SeqDef

\* The check is right, for claims of every length and every action.
THEOREM RebacCorrect == RebacSpec => []GrantedByOneRelation
<1>1. RebacInit => RebacInv
  <2> SUFFICES ASSUME RebacInit PROVE RebacInv
      OBVIOUS
  <2>1. relations \in Seq(Relations)
        BY ClaimIsSeq DEF RebacInit
  <2>2. QED BY <2>1 DEF RebacInit, RebacInv, GrantedByOneRelation
<1>2. RebacInv /\ [RebacNext]_rebacVars => RebacInv'
  <2> SUFFICES ASSUME RebacInv, [RebacNext]_rebacVars PROVE RebacInv'
      OBVIOUS
  <2>1. CASE rebac_check
    <3>1. at = "call" /\ ~ granted /\ relations' = relations /\ action' = action /\ granted' = granted
          BY <2>1 DEF rebac_check, RebacInv
    <3>2. relations' \in Seq(Relations)
          BY <3>1 DEF RebacInv
    <3>3. CASE relations = <<>>
      <4>1. Len(relations) = 0 /\ at' = "returned"
            BY <2>1, <3>3 DEF rebac_check
      <4>2. GrantedByOneRelation'
            BY <3>1, <4>1 DEF GrantedByOneRelation
      <4>3. QED BY <3>2, <4>1, <4>2 DEF RebacInv
    <3>4. CASE relations # <<>>
      <4>1. at' = "loop" /\ index' = 1 /\ best' = relations[1]
            BY <2>1, <3>4 DEF rebac_check
      <4>2. Len(relations) \in Nat \ {0} /\ relations[1] \in Relations
            BY <3>4 DEF RebacInv
      <4>3. BestSoFar'
            BY <3>1, <4>1, <4>2 DEF BestSoFar, Relations, PUBLIC, OWNER
      <4>4. QED BY <3>2, <4>1, <4>3 DEF RebacInv, GrantedByOneRelation
    <3>5. QED BY <3>3, <3>4
  <2>2. CASE rebac_max_relation
    <3>1. /\ at = "loop" /\ at' = at /\ relations' = relations
          /\ index' = index + 1 /\ index < Len(relations)
          BY <2>2 DEF rebac_max_relation
    <3>2. relations \in Seq(Relations) /\ BestSoFar
          BY <3>1 DEF RebacInv
    <3>3. index + 1 \in 1 .. Len(relations) /\ index \in Nat
          BY <3>1, <3>2 DEF BestSoFar
    <3>4. /\ \A k \in 1 .. Len(relations) : relations[k] \in Nat
          /\ best \in Nat
          BY <3>2 DEF BestSoFar, Relations, PUBLIC, OWNER
    <3>5. best' = IF relations[index + 1] >= best THEN relations[index + 1] ELSE best
          BY <2>2 DEF rebac_max_relation
    <3>6. BestSoFar'
          BY <3>1, <3>2, <3>3, <3>4, <3>5 DEF BestSoFar
    <3>7. QED BY <3>1, <3>2, <3>6 DEF RebacInv, GrantedByOneRelation
  <2>3. CASE rebac_return
    <3>1. /\ at = "loop" /\ at' = "returned" /\ index >= Len(relations)
          /\ relations' = relations /\ action' = action
          BY <2>3 DEF rebac_return
    <3>2. relations \in Seq(Relations) /\ BestSoFar
          BY <3>1 DEF RebacInv
    <3>3. index = Len(relations)
          BY <3>1, <3>2 DEF BestSoFar
    <3>4. /\ \A k \in 1 .. Len(relations) : relations[k] \in 0 .. 4
          /\ rebac_action_min_relation(action) \in 0 .. 4
          /\ action \notin {"OBSERVE", "INTERACT"} => rebac_action_min_relation(action) = 4
          BY <3>2, MinRelation DEF Relations, PUBLIC, OWNER
    <3>5. granted' = (best >= rebac_action_min_relation(action))
          BY <2>3 DEF rebac_return
    <3>6. granted' <=> \E k \in 1 .. Len(relations) :
                           relations[k] >= rebac_action_min_relation(action)
      <4>1. best >= rebac_action_min_relation(action) <=>
                \E k \in 1 .. Len(relations) : relations[k] >= rebac_action_min_relation(action)
        <5> DEFINE m == rebac_action_min_relation(action)
        <5>1. m \in Nat /\ \A k \in 1 .. Len(relations) : relations[k] \in Nat
              BY <3>4
        <5> HIDE DEF m
        <5>2. best >= m <=> \E k \in 1 .. Len(relations) : relations[k] >= m
              BY <3>2, <3>3, <5>1 DEF BestSoFar
        <5>3. QED BY <5>2 DEF m
      <4>2. QED BY ONLY <3>5, <4>1, Zenon
    <3>7. granted' /\ action \notin {"OBSERVE", "INTERACT"} =>
              \E k \in 1 .. Len(relations) : relations[k] = OWNER
          BY <3>4, <3>6 DEF OWNER
    <3>8. GrantedByOneRelation'
          BY <3>1, <3>6, <3>7 DEF GrantedByOneRelation
    <3>9. QED BY <3>1, <3>2, <3>8 DEF RebacInv
  <2>4. CASE UNCHANGED rebacVars
        BY <2>4 DEF rebacVars, RebacInv, BestSoFar, GrantedByOneRelation
  <2>5. QED BY <2>1, <2>2, <2>3, <2>4 DEF RebacNext
<1>3. RebacInv => GrantedByOneRelation
      BY DEF RebacInv
<1>4. QED BY <1>1, <1>2, <1>3, PTL DEF RebacSpec

-----------------------------------------------------------------------------
(* The queue.                                                              *)

QueueInv ==
    /\ items \in Seq(Nodes)
    /\ next \in [Nodes -> Nodes \cup {NULL}]
    /\ Represents

\* The inductive invariant holds of an empty queue, whatever the links are.
LEMMA QueueInitially == QueueInit => QueueInv
BY QueueAssumption DEF QueueInit, QueueInv, Represents, queue_is_empty

\* queue_push keeps the pointers and the history in step, the first push into an
\* empty queue, which writes through tail into head, included.
LEMMA PushKeeps ==
    ASSUME QueueInv, NEW n \in Nodes, queue_push(n)
    PROVE  QueueInv'
<1>1. items \in Seq(Nodes) /\ Len(items) \in Nat /\ Represents
      BY DEF QueueInv
<1>2. /\ items' = Append(items, n) /\ items' \in Seq(Nodes)
      /\ Len(items') = Len(items) + 1
      /\ \A k \in 1 .. Len(items) : items'[k] = items[k]
      /\ items'[Len(items) + 1] = n
      BY <1>1 DEF queue_push
<1>3. \A k \in 1 .. Len(items) : items[k] # n /\ items[k] \in Nodes
      BY <1>1 DEF queue_push
<1>4. /\ head' = IF tail = HEAD THEN n ELSE head
      /\ next' = [m \in Nodes |-> IF m = tail THEN n ELSE IF m = n THEN NULL ELSE next[m]]
      /\ tail' = n
      BY DEF queue_push
<1>5. next' \in [Nodes -> Nodes \cup {NULL}]
      BY <1>4 DEF QueueInv
<1>6. \A j, k \in 1 .. Len(items') : items'[j] = items'[k] => j = k
      BY <1>1, <1>2, <1>3 DEF Represents
<1>7. items' # <<>> /\ tail' = items'[Len(items')]
      BY <1>2, <1>4, <1>1
<1>8. tail = HEAD <=> items = <<>>
      BY <1>1, <1>3, QueueAssumption DEF Represents
<1>9. head' = items'[1] /\ head' # NULL
  <2>1. CASE items = <<>>
        BY <2>1, <1>2, <1>4, <1>8, QueueAssumption
  <2>2. CASE items # <<>>
        BY <2>2, <1>1, <1>2, <1>3, <1>4, <1>8, QueueAssumption DEF Represents
  <2>3. QED BY <2>1, <2>2
<1>10. ASSUME NEW k \in 1 .. Len(items')
       PROVE  next'[items'[k]] = IF k = Len(items') THEN NULL ELSE items'[k + 1]
  <2>1. CASE k = Len(items) + 1
    <3>1. n # tail
          BY <1>1, <1>3, QueueAssumption DEF Represents
    <3>2. QED BY <2>1, <3>1, <1>1, <1>2, <1>4
  <2>2. CASE k = Len(items)
        BY <2>2, <1>1, <1>2, <1>3, <1>4, <1>10 DEF Represents
  <2>3. CASE k < Len(items)
    <3>1. items[k] # tail
          BY <2>3, <1>1, <1>2, <1>10 DEF Represents
    <3>2. QED BY <2>3, <3>1, <1>1, <1>2, <1>3, <1>4, <1>10 DEF Represents
  <2>4. QED BY <2>1, <2>2, <2>3, <1>1, <1>2, <1>10
<1>11. QED
  <2>1. Represents'
        BY <1>6, <1>7, <1>9, <1>10 DEF Represents, queue_is_empty
  <2>2. QED BY <1>2, <1>5, <2>1 DEF QueueInv

\* queue_pop keeps the pointers and the history in step, the pop of the last
\* element, after which tail is the address of head again, included.
LEMMA PopKeeps ==
    ASSUME QueueInv, queue_pop
    PROVE  QueueInv'
<1>1. items \in Seq(Nodes) /\ Len(items) \in Nat /\ Represents
      BY DEF QueueInv
<1>2. next' = next
      BY DEF queue_pop
<1>3. CASE items = <<>>
  <2>1. head = NULL /\ tail = HEAD
        BY <1>1, <1>3 DEF Represents
  <2>2. head' = head /\ tail' = tail /\ items' = items
        BY <2>1, <1>3 DEF queue_pop
  <2>3. QED BY <1>2, <2>2 DEF QueueInv, Represents, queue_is_empty
<1>4. CASE items # <<>>
  <2>1. /\ Len(items) >= 1 /\ head = items[1] /\ head \in Nodes /\ head # NULL
        BY <1>1, <1>4, QueueAssumption DEF Represents
  <2>2. /\ items' = Tail(items) /\ items' \in Seq(Nodes)
        /\ Len(items') = Len(items) - 1
        /\ \A k \in 1 .. Len(items') : items'[k] = items[k + 1]
        BY <1>1, <1>4 DEF queue_pop
  <2>3. /\ head' = next[items[1]]
        /\ tail' = IF next[items[1]] = NULL THEN HEAD ELSE tail
        BY <2>1 DEF queue_pop
  <2>4. next[items[1]] = IF 1 = Len(items) THEN NULL ELSE items[2]
    <3>1. 1 \in 1 .. Len(items) /\ 1 + 1 = 2
          BY <2>1, <1>1
    <3>2. next[items[1]] = IF 1 = Len(items) THEN NULL ELSE items[1 + 1]
          BY <3>1, <1>1 DEF Represents
    <3>3. QED BY <3>1, <3>2
  <2>5. \A j, k \in 1 .. Len(items') : items'[j] = items'[k] => j = k
    <3>1. SUFFICES ASSUME NEW j \in 1 .. Len(items'), NEW k \in 1 .. Len(items'),
                          items'[j] = items'[k]
                   PROVE  j = k
          OBVIOUS
    <3>2. j + 1 \in 1 .. Len(items) /\ k + 1 \in 1 .. Len(items)
          BY <2>2, <1>1
    <3>3. items[j + 1] = items[k + 1]
          BY <2>2, <3>1
    <3>4. j + 1 = k + 1
          BY <3>2, <3>3, <1>1 DEF Represents
    <3>5. QED BY <3>4
  <2>6. \A k \in 1 .. Len(items') :
            next[items'[k]] = IF k = Len(items') THEN NULL ELSE items'[k + 1]
    <3>1. SUFFICES ASSUME NEW k \in 1 .. Len(items')
                   PROVE  next[items'[k]] = IF k = Len(items') THEN NULL ELSE items'[k + 1]
          OBVIOUS
    <3>2. k + 1 \in 1 .. Len(items) /\ items'[k] = items[k + 1]
          BY <2>2, <1>1
    <3>3. next[items[k + 1]] = IF k + 1 = Len(items) THEN NULL ELSE items[k + 1 + 1]
          BY <3>2, <1>1 DEF Represents
    <3>4. k # Len(items') => k + 1 \in 1 .. Len(items') /\ items'[k + 1] = items[k + 1 + 1]
      <4>1. Len(items') \in Nat
            BY <2>2, <1>1
      <4>2. k # Len(items') => k + 1 \in 1 .. Len(items')
            BY ONLY <4>1, k \in 1 .. Len(items')
      <4>3. QED BY ONLY <2>2, <4>2
    <3>5. k = Len(items') <=> k + 1 = Len(items)
          BY <2>2, <1>1
    <3>6. QED BY ONLY <3>2, <3>3, <3>4, <3>5
  <2>7. CASE Len(items) = 1
    <3>1. items' = <<>> /\ Len(items') = 0
          BY <2>7, <2>2
    <3>2. head' = NULL /\ tail' = HEAD
          BY <2>7, <2>3, <2>4
    <3>3. Represents'
          BY <3>1, <3>2, <2>5, <2>6, <1>2 DEF Represents, queue_is_empty
    <3>4. QED BY <2>2, <3>3, <1>2 DEF QueueInv
  <2>8. CASE Len(items) > 1
    <3>1. /\ items' # <<>> /\ items'[1] = items[2] /\ items[2] \in Nodes
          /\ items'[Len(items')] = items[Len(items)]
          BY <2>8, <2>2, <1>1
    <3>2. head' = items'[1] /\ head' # NULL /\ tail' = tail
          BY <2>8, <2>3, <2>4, <3>1, QueueAssumption
    <3>3. tail' = items'[Len(items')]
          BY <3>1, <3>2, <1>1, <1>4 DEF Represents
    <3>4. Represents'
          BY <3>1, <3>2, <3>3, <2>5, <2>6, <1>2 DEF Represents, queue_is_empty
    <3>5. QED BY <2>2, <3>4, <1>2 DEF QueueInv
  <2>9. Len(items) = 1 \/ Len(items) > 1
    <3> DEFINE l == Len(items)
    <3>1. l \in Nat /\ l >= 1
          BY <2>1, <1>1
    <3> HIDE DEF l
    <3>2. l = 1 \/ l > 1
          BY <3>1
    <3>3. QED BY <3>2 DEF l
  <2>10. QED BY <2>7, <2>8, <2>9
<1>5. QED BY <1>3, <1>4

\* Every call of the queue keeps the inductive invariant.
LEMMA QueueStep == QueueInv /\ [QueueNext]_queueVars => QueueInv'
<1> SUFFICES ASSUME QueueInv, [QueueNext]_queueVars PROVE QueueInv'
    OBVIOUS
<1>1. CASE queue_pop
      BY <1>1, PopKeeps
<1>2. ASSUME NEW n \in Nodes, queue_push(n) PROVE QueueInv'
      BY <1>2, PushKeeps
<1>3. CASE UNCHANGED queueVars
      BY <1>3 DEF queueVars, QueueInv, Represents, queue_is_empty
<1>4. QED BY <1>1, <1>2, <1>3 DEF QueueNext

\* The pointers always spell the history, for any number of elements.
THEOREM QueueRepresents == QueueSpec => []Represents
<1>1. QueueInv => Represents
      BY DEF QueueInv
<1>2. QED BY <1>1, QueueInitially, QueueStep, PTL DEF QueueSpec

\* The linked queue implements the first-in-first-out sequence: its pointers being
\* right, a pop returns the oldest element, or NULL when there is none.
THEOREM QueueImplementsFifo == QueueSpec => QueueIsFifo
<1>1. QueueInit => F!Init
      BY DEF QueueInit, F!Init
<1>2. QueueInv /\ [QueueNext]_queueVars => [F!Next]_<<items, popped>>
  <2> SUFFICES ASSUME QueueInv, [QueueNext]_queueVars
               PROVE  [F!Next]_<<items, popped>>
      OBVIOUS
  <2>1. CASE queue_pop
    <3>1. CASE items = <<>>
          BY <2>1, <3>1 DEF QueueInv, Represents, queue_pop, F!Next, F!Pop
    <3>2. CASE items # <<>>
      <4>1. popped' = items[1] /\ items' = Tail(items)
            BY <2>1, <3>2 DEF QueueInv, Represents, queue_pop
      <4>2. items[1] = Head(items)
            BY <3>2 DEF QueueInv
      <4>3. QED BY <3>2, <4>1, <4>2 DEF F!Next, F!Pop
    <3>3. QED BY <3>1, <3>2
  <2>2. ASSUME NEW n \in Nodes, queue_push(n) PROVE F!Next
        BY <2>2 DEF queue_push, F!Next, F!Push
  <2>3. CASE UNCHANGED queueVars
        BY <2>3 DEF queueVars
  <2>4. QED BY <2>1, <2>2, <2>3 DEF QueueNext
<1>3. QED BY <1>1, <1>2, QueueInitially, QueueStep, PTL DEF QueueSpec, QueueIsFifo, F!Spec

-----------------------------------------------------------------------------
(* The server: no worker outlives what it reads, and an exit by way of the  *)
(* clean-up is clean.                                                      *)

Ctx == [running : BOOLEAN, db : BOOLEAN, z_id : 0 .. (ZoneWidth - 1)]

\* A slot whose worker is gone and whose context is cleaned up, and one that was
\* never used.
Clean(t) == worker[t] \in {"none", "returned"} /\ ~ threads[t].db /\ ~ threads[t].running
Unused(t) == worker[t] = "none" /\ ~ threads[t].db /\ ~ threads[t].running

\* Where main is, what the slots on either side of its loop variable are.
Loops ==
    /\ pc \in {"options", "alloc", "crashed"} => i = 0 /\ \A t \in Slots : Unused(t)
    /\ pc \in {"start", "network", "stop", "join", "freed"} =>
           i =< worker_count /\ worker_count =< MaxWorkers
    /\ pc = "start" => \A t \in Slots : t >= i => Unused(t)
    /\ pc \in {"network", "stop", "join", "freed"} =>
           \A t \in Slots : t >= worker_count => Unused(t)
    /\ pc \in {"stop", "join", "freed"} => \A t \in Slots : t < i => Clean(t)
    /\ pc = "join" => i < worker_count /\ ~ threads[i].running
    /\ pc = "freed" => i = worker_count
    /\ network = "stopped" => pc = "exit" /\ \A t \in Slots : Clean(t)
    /\ worker_count > MaxWorkers => \A t \in Slots : worker[t] = "none"

ServerInv == TypeOK /\ Loops

\* The invariant holds at the start.
LEMMA ServerInitially == Init => ServerInv
<1> SUFFICES ASSUME Init PROVE ServerInv
    OBVIOUS
<1>1. NoCtx \in Ctx /\ ~ NoCtx.db /\ ~ NoCtx.running
      BY ServerAssumption DEF NoCtx, Ctx
<1>2. threads \in [Slots -> Ctx] /\ \A t \in Slots : threads[t] = NoCtx
      BY <1>1 DEF Init
<1>3. PICK a \in WorkerArgs : worker_count = a % SizeWidth
      BY DEF Init
<1>4. worker_count \in 0 .. (SizeWidth - 1)
      BY <1>3, ServerAssumption
<1>5. TypeOK
      BY <1>2, <1>4, ServerAssumption DEF Init, TypeOK, Ctx
<1>6. Loops
      BY <1>1, <1>2 DEF Init, Loops, Unused
<1>7. QED BY <1>5, <1>6 DEF ServerInv

\* The loop that starts the workers.
LEMMA StartKeeps ==
    ASSUME ServerInv, StartWorker
    PROVE  ServerInv'
<1>1. /\ pc = "start" /\ i < worker_count /\ i' = i + 1
      /\ UNCHANGED <<pc, z_arg, worker_count, network>>
      BY DEF StartWorker
<1>2. PICK db \in BOOLEAN :
          threads' = [threads EXCEPT ![i] =
                        [running |-> TRUE, db |-> db, z_id |-> z_arg % ZoneWidth]]
      BY DEF StartWorker
<1>3. PICK created \in BOOLEAN :
          worker' = [worker EXCEPT ![i] = IF created THEN "test" ELSE "none"]
      BY DEF StartWorker
<1>4. TypeOK /\ Loops
      BY DEF ServerInv
<1>5. i \in Nat /\ worker_count \in Nat /\ worker_count =< MaxWorkers /\ MaxWorkers \in Nat
      BY <1>1, <1>4, ServerAssumption DEF TypeOK, Loops
<1>6. i \in Slots /\ i' \in 0 .. MaxWorkers /\ i' =< worker_count
      BY <1>1, <1>5 DEF Slots
<1>7. z_arg \in Int /\ (z_arg % ZoneWidth) \in 0 .. (ZoneWidth - 1)
      BY <1>4, ServerAssumption DEF TypeOK
<1>8. threads' \in [Slots -> Ctx] /\ worker' \in [Slots -> {"none", "test", "sleep", "returned"}]
      BY <1>2, <1>3, <1>4, <1>7 DEF TypeOK, Ctx
<1>9. TypeOK'
      BY <1>1, <1>4, <1>6, <1>8 DEF TypeOK, Ctx
<1>10. \A t \in Slots : t # i => threads'[t] = threads[t] /\ worker'[t] = worker[t]
       BY <1>2, <1>3, <1>4 DEF TypeOK
<1>11. \A t \in Slots : t >= i' => Unused(t)'
  <2>1. SUFFICES ASSUME NEW t \in Slots, t >= i' PROVE Unused(t)'
        OBVIOUS
  <2>2. t # i /\ t >= i
        BY <1>1, <1>5, <2>1 DEF Slots
  <2>3. QED BY <1>1, <1>4, <1>10, <2>2 DEF Loops, Unused
<1>12. network # "stopped"
       BY <1>1, <1>4 DEF Loops
<1>13. Loops'
       BY <1>1, <1>5, <1>6, <1>11, <1>12 DEF Loops
<1>14. QED BY <1>9, <1>13 DEF ServerInv

\* main tells a worker to stop.
LEMMA StopKeeps ==
    ASSUME ServerInv, StopWorker
    PROVE  ServerInv'
<1>1. /\ pc = "stop" /\ i < worker_count /\ pc' = "join"
      /\ threads' = [threads EXCEPT ![i].running = FALSE]
      /\ UNCHANGED <<i, z_arg, worker_count, worker, network>>
      BY DEF StopWorker
<1>2. TypeOK /\ Loops
      BY DEF ServerInv
<1>3. i \in Nat /\ worker_count \in Nat /\ worker_count =< MaxWorkers /\ MaxWorkers \in Nat
      BY <1>1, <1>2, ServerAssumption DEF TypeOK, Loops
<1>4. i \in Slots
      BY <1>1, <1>3 DEF Slots
<1>5. /\ threads' \in [Slots -> Ctx] /\ ~ threads'[i].running
      /\ \A t \in Slots : t # i => threads'[t] = threads[t]
      BY <1>1, <1>2, <1>4 DEF TypeOK, Ctx
<1>6. TypeOK'
      BY <1>1, <1>2, <1>5 DEF TypeOK, Ctx
<1>7. \A t \in Slots : t >= worker_count => Unused(t)'
      BY <1>1, <1>2, <1>3, <1>5 DEF Loops, Unused, Slots
<1>8. \A t \in Slots : t < i => Clean(t)'
      BY <1>1, <1>2, <1>3, <1>5 DEF Loops, Clean, Slots
<1>9. Loops'
      BY <1>1, <1>2, <1>3, <1>5, <1>7, <1>8 DEF Loops
<1>10. QED BY <1>6, <1>9 DEF ServerInv

\* main joins a worker and closes its database.
LEMMA JoinKeeps ==
    ASSUME ServerInv, JoinWorker
    PROVE  ServerInv'
<1>1. pc = "join" /\ UNCHANGED <<z_arg, worker_count, worker, network>>
      BY DEF JoinWorker
<1>2. TypeOK /\ Loops
      BY DEF ServerInv
<1>3. /\ i \in Nat /\ worker_count \in Nat /\ worker_count =< MaxWorkers /\ MaxWorkers \in Nat
      /\ i < worker_count /\ ~ threads[i].running
      BY <1>1, <1>2, ServerAssumption DEF TypeOK, Loops
<1>4. i \in Slots
      BY <1>3 DEF Slots
<1>5. CASE /\ worker[i] \in {"returned", "none"}
           /\ threads' = [threads EXCEPT ![i].db = FALSE]
           /\ pc' = "stop" /\ i' = i + 1
  <2>1. /\ threads' \in [Slots -> Ctx] /\ ~ threads'[i].db /\ ~ threads'[i].running
        /\ \A t \in Slots : t # i => threads'[t] = threads[t]
        BY <1>2, <1>3, <1>4, <1>5 DEF TypeOK, Ctx
  <2>2. TypeOK'
        BY <1>1, <1>2, <1>3, <1>5, <2>1 DEF TypeOK, Ctx
  <2>3. \A t \in Slots : t >= worker_count => Unused(t)'
        BY <1>1, <1>2, <1>3, <2>1 DEF Loops, Unused, Slots
  <2>4. \A t \in Slots : t < i' => Clean(t)'
    <3>1. SUFFICES ASSUME NEW t \in Slots, t < i' PROVE Clean(t)'
          OBVIOUS
    <3>2. t = i \/ t < i
          BY <1>3, <1>5, <3>1 DEF Slots
    <3>3. CASE t = i
          BY <1>1, <1>5, <2>1, <3>3 DEF Clean
    <3>4. CASE t < i
      <4>1. t # i /\ Clean(t)
            BY <1>1, <1>2, <1>3, <3>4 DEF Loops, Slots
      <4>2. QED BY <1>1, <2>1, <4>1 DEF Clean
    <3>5. QED BY <3>2, <3>3, <3>4
  <2>5. Loops'
        BY <1>1, <1>2, <1>3, <1>5, <2>3, <2>4 DEF Loops
  <2>6. QED BY <2>2, <2>5 DEF ServerInv
<1>6. CASE worker[i] = "none" /\ pc' = "exit" /\ UNCHANGED <<i, threads>>
  <2>1. TypeOK'
        BY <1>1, <1>2, <1>6 DEF TypeOK
  <2>2. Loops'
        BY <1>1, <1>2, <1>3, <1>6 DEF Loops
  <2>3. QED BY <2>1, <2>2 DEF ServerInv
<1>7. QED BY <1>5, <1>6 DEF JoinWorker

\* A worker tests `running`, sleeps or returns.
LEMMA WorkerKeeps ==
    ASSUME ServerInv, NEW t \in Slots, worker_main(t)
    PROVE  ServerInv'
<1>1. UNCHANGED <<pc, i, z_arg, worker_count, threads, network>>
      BY DEF worker_main
<1>2. worker[t] \in {"test", "sleep"}
      BY DEF worker_main
<1>3. TypeOK /\ Loops
      BY DEF ServerInv
<1>4. /\ worker' \in [Slots -> {"none", "test", "sleep", "returned"}]
      /\ \A u \in Slots : u # t => worker'[u] = worker[u]
      BY <1>3 DEF worker_main, TypeOK
<1>5. TypeOK'
      BY <1>1, <1>3, <1>4 DEF TypeOK
<1>6. ASSUME NEW u \in Slots PROVE (Unused(u) => Unused(u)') /\ (Clean(u) => Clean(u)')
      BY <1>1, <1>2, <1>4 DEF Unused, Clean
<1>7. worker_count =< MaxWorkers /\ pc # "crashed"
      BY <1>2, <1>3, ServerAssumption DEF Loops, Unused, TypeOK, worker_main
<1>8. Loops'
      BY <1>1, <1>3, <1>6, <1>7, ServerAssumption DEF Loops, TypeOK
<1>9. QED BY <1>5, <1>8 DEF ServerInv

\* Every step keeps the invariant.
LEMMA ServerStep == ServerInv /\ [Next]_vars => ServerInv'
<1> SUFFICES ASSUME ServerInv, [Next]_vars PROVE ServerInv'
    OBVIOUS
<1>1. TypeOK /\ Loops /\ MaxWorkers \in Nat /\ worker_count \in Nat /\ i \in Nat
      BY ServerAssumption DEF ServerInv, TypeOK
<1>2. CASE fdb_global_init
  <2>1. TypeOK'
        BY <1>1, <1>2 DEF fdb_global_init, TypeOK
  <2>2. Loops'
        BY <1>1, <1>2 DEF fdb_global_init, Loops, Unused
  <2>3. QED BY <2>1, <2>2 DEF ServerInv
<1>3. CASE AllocThreads
  <2>1. TypeOK'
        BY <1>1, <1>3 DEF AllocThreads, TypeOK
  <2>2. Loops'
        BY <1>1, <1>3 DEF AllocThreads, Loops, Unused
  <2>3. QED BY <2>1, <2>2 DEF ServerInv
<1>4. CASE RunNetwork
  <2>1. TypeOK'
        BY <1>1, <1>4 DEF RunNetwork, TypeOK
  <2>2. Loops'
        BY <1>1, <1>4 DEF RunNetwork, Loops, Unused
  <2>3. QED BY <2>1, <2>2 DEF ServerInv
<1>5. CASE NetworkReturns
  <2>1. TypeOK'
        BY <1>1, <1>5 DEF NetworkReturns, TypeOK
  <2>2. \A t \in Slots : ~ (t < 0)
        BY <1>1 DEF Slots
  <2>3. Loops'
        BY <1>1, <1>5, <2>2 DEF NetworkReturns, Loops, Unused
  <2>4. QED BY <2>1, <2>3 DEF ServerInv
<1>6. CASE FreeThreads
  <2>1. TypeOK'
        BY <1>1, <1>6 DEF FreeThreads, TypeOK
  <2>2. Loops'
        BY <1>1, <1>6 DEF FreeThreads, Loops, Unused, Clean
  <2>3. QED BY <2>1, <2>2 DEF ServerInv
<1>7. CASE fdb_global_cleanup
  <2>1. TypeOK'
        BY <1>1, <1>7 DEF fdb_global_cleanup, TypeOK
  <2>2. \A t \in Slots : Clean(t)
    <3>1. SUFFICES ASSUME NEW t \in Slots PROVE Clean(t)
          OBVIOUS
    <3>2. t < i \/ t >= worker_count
          BY <1>1, <1>7 DEF fdb_global_cleanup, Loops, Slots
    <3>3. QED BY <1>1, <1>7, <3>2 DEF fdb_global_cleanup, Loops, Clean, Unused
  <2>3. Loops'
        BY <1>1, <1>7, <2>2 DEF fdb_global_cleanup, Loops, Clean
  <2>4. QED BY <2>1, <2>3 DEF ServerInv
<1>8. CASE UNCHANGED vars
      BY <1>1, <1>8 DEF vars, ServerInv, TypeOK, Loops, Clean, Unused
<1>9. QED BY <1>2, <1>3, <1>4, <1>5, <1>6, <1>7, <1>8, StartKeeps, StopKeeps, JoinKeeps,
             WorkerKeeps DEF Next, main

\* Every variable keeps its type: main's loops stay within the array, and a worker's
\* z_id is a uint32_t.
THEOREM ServerTyped == Spec => []TypeOK
<1>1. ServerInv => TypeOK
      BY DEF ServerInv
<1>2. QED BY <1>1, ServerInitially, ServerStep, PTL DEF Spec

\* No worker outlives its context or its database, and a count there is no memory
\* for never gets a worker.
THEOREM ServerMemory == Spec => []WorkersHaveMemory
<1>1. ServerInv => WorkersHaveMemory
  <2> SUFFICES ASSUME ServerInv PROVE WorkersHaveMemory
      OBVIOUS
  <2>1. TypeOK /\ Loops /\ MaxWorkers \in Nat /\ worker_count \in Nat /\ i \in Nat
        BY ServerAssumption DEF ServerInv, TypeOK
  <2>2. worker_count > MaxWorkers \/ pc = "crashed" => \A t \in Slots : worker[t] = "none"
        BY <2>1 DEF Loops, Unused
  <2>3. pc = "freed" => \A t \in Slots : worker[t] \in {"none", "returned"}
        BY <2>1 DEF Loops, Unused, Clean, Slots
  <2>4. \A t \in Used : t < i /\ pc \in {"stop", "join", "freed"}
                            => worker[t] \in {"none", "returned"} /\ ~ threads[t].db
        BY <2>1 DEF Loops, Clean, Used
  <2>5. QED BY <2>2, <2>3, <2>4 DEF WorkersHaveMemory
<1>2. QED BY <1>1, ServerInitially, ServerStep, PTL DEF Spec

\* A server that ends by way of its clean-up has closed every database and left no
\* worker behind.
THEOREM ServerExits == Spec => []CleanExit
<1>1. ServerInv => CleanExit
      BY DEF ServerInv, Loops, Clean, CleanExit
<1>2. QED BY <1>1, ServerInitially, ServerStep, PTL DEF Spec
=============================================================================
