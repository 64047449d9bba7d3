----------------------------- MODULE EntityKeys -----------------------------
(***************************************************************************)
(* A FoundationDB keyspace filled through the key builders of src/zf_kv.c, *)
(* in any order, and scanned zone by zone.                                 *)
(***************************************************************************)
EXTENDS ZfKv, FiniteSets

CONSTANTS
    ZoneIds,    \* the z_ids in use
    EntityIds,  \* the e_ids in use
    MaxKeys     \* how many keys are written in all

ASSUME KeysAssumption ==
    /\ ZoneIds \subseteq U32
    /\ EntityIds \subseteq U32
    /\ MaxKeys \in Nat

VARIABLES
    entities,  \* the <<z_id, e_id>> written
    zones      \* the z_ids whose zone record was written

keysVars == <<entities, zones>>

KeysInit == entities = {} /\ zones = {}

Room == Cardinality(entities) + Cardinality(zones) < MaxKeys

PutEntity(z, e) ==
    /\ Room
    /\ entities' = entities \cup {<<z, e>>}
    /\ UNCHANGED zones

PutZone(z) ==
    /\ Room
    /\ zones' = zones \cup {z}
    /\ UNCHANGED entities

KeysNext ==
    \/ \E z \in ZoneIds, e \in EntityIds : PutEntity(z, e)
    \/ \E z \in ZoneIds : PutZone(z)

KeysSpec == KeysInit /\ [][KeysNext]_keysVars

-----------------------------------------------------------------------------
EntityKeySet == {zf_kv_entity_key(k[1], k[2]) : k \in entities}
ZoneKeySet == {zf_kv_zone_key(z) : z \in zones}

\* The ids of the rows the scan of zone z returns.
Scanned(z) == {k \in entities : InEntityRange(z, zf_kv_entity_key(k[1], k[2]))}

\* Every record has a key of its own: no two zones, entities, or zone and
\* entity ever share one, and zf_kv_decode_u32_be reads both ids of an entity
\* back from the bytes of its key.
KeysAreDistinct ==
    /\ Cardinality(EntityKeySet) = Cardinality(entities)
    /\ Cardinality(ZoneKeySet) = Cardinality(zones)
    /\ EntityKeySet \cap ZoneKeySet = {}
    /\ \A k \in entities :
           LET key == zf_kv_entity_key(k[1], k[2])
               n == Len(SS_ZF_ENTITY)
           IN  /\ zf_kv_decode_u32_be(SubSeq(key, n + 1, n + 4)) = k[1]
               /\ zf_kv_decode_u32_be(SubSeq(key, n + 6, n + 9)) = k[2]

\* A zone's scan returns entities of that zone only, and no zone record: the
\* key-range isolation that lets one process per zone run without locks.
ScanIsolated ==
    \A z \in ZoneIds :
        /\ \A k \in Scanned(z) : k[1] = z
        /\ \A key \in ZoneKeySet : ~ InEntityRange(z, key)

\* The rows come back in the numeric order of their e_ids, which is what the
\* big-endian encoding of keys is for.
ScanInIdOrder ==
    \A z \in ZoneIds : \A j, k \in Scanned(z) :
        j[2] < k[2] <=> KeyLess(zf_kv_entity_key(j[1], j[2]),
                                zf_kv_entity_key(k[1], k[2]))

\* The scan finds every entity of the zone whose e_id does not start with the
\* byte 0xFF.
ScanFindsLowIds ==
    \A k \in entities :
        zf_kv_encode_u32_be(k[2])[1] # Base - 1 => k \in Scanned(k[1])

\* What zf_kv.c and zf_kv.h say of the range: it covers every e_id.
ScanCoversEveryId == \A k \in entities : k \in Scanned(k[1])
=============================================================================
