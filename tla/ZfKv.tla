-------------------------------- MODULE ZfKv --------------------------------
(***************************************************************************)
(* The key layout of src/zf_kv.c: how zone and entity ids become           *)
(* FoundationDB keys, and the key range one zone's tick scans.             *)
(*                                                                         *)
(* A key is a sequence of bytes.  The size of a byte is the constant Base  *)
(* (256 in the code), so that TLC can enumerate every four-byte id.  The   *)
(* ASCII prefixes "zf/zone/" and "zf/entity/" are one byte each here: all  *)
(* that matters of them is that they differ and that neither is a prefix   *)
(* of the other.                                                           *)
(***************************************************************************)
EXTENDS Bytes, Sequences

CONSTANT Slash     \* the byte '/'

ASSUME ByteAssumption ==
    /\ Base \in Nat \ {0, 1}
    /\ Slash \in 0 .. (Base - 2)     \* '/' is not the byte 0xFF

\* uint32_t: four bytes.
U32 == 0 .. (Base * Base * Base * Base - 1)

\* Slips the properties must notice: least significant byte first, and a
\* shift that is wrong for the second byte.
EncodeLittleEndian(val) ==
    << val % Base,
       (val \div Base) % Base,
       ((val \div Base) \div Base) % Base,
       (((val \div Base) \div Base) \div Base) % Base >>

EncodeWrongShift(val) ==
    << (((val \div Base) \div Base) \div Base) % Base,
       (((val \div Base) \div Base) \div Base) % Base,
       (val \div Base) % Base,
       val % Base >>

\* zf_kv_encode_u32_be: most significant byte first, val >> 24, >> 16, >> 8.
zf_kv_encode_u32_be(val) ==
    << (((val \div Base) \div Base) \div Base) % Base,
       ((val \div Base) \div Base) % Base,
       (val \div Base) % Base,
       val % Base >>

zf_kv_decode_u32_be(buf) ==
    ((buf[1] * Base + buf[2]) * Base + buf[3]) * Base + buf[4]

SS_ZF_ENTITY == <<0>>     \* "zf/entity/", sorts before
SS_ZF_ZONE   == <<1>>     \* "zf/zone/"

zf_kv_zone_key(z_id) == SS_ZF_ZONE \o zf_kv_encode_u32_be(z_id)

zf_kv_entity_range_begin(z_id) ==
    SS_ZF_ENTITY \o zf_kv_encode_u32_be(z_id) \o <<Slash>>

zf_kv_entity_key(z_id, e_id) ==
    SS_ZF_ENTITY \o zf_kv_encode_u32_be(z_id) \o <<Slash>>
                 \o zf_kv_encode_u32_be(e_id)

\* Slips: the end of the whole subspace, and an end one byte value too low.
RangeEndOfSubspace(z_id) == SS_ZF_ENTITY \o <<Base - 1>>
RangeEndTooLow(z_id) == zf_kv_entity_range_begin(z_id) \o <<Base - 2>>

\* The byte 0xFF after the '/' is the exclusive end.
zf_kv_entity_range_end(z_id) ==
    zf_kv_entity_range_begin(z_id) \o <<Base - 1>>

-----------------------------------------------------------------------------
(* FoundationDB's order of keys (external): byte strings, lexicographic.   *)

IsPrefixOf(a, b) ==
    /\ Len(a) =< Len(b)
    /\ \A i \in 1 .. Len(a) : a[i] = b[i]

KeyLess(a, b) ==
    \/ IsPrefixOf(a, b) /\ Len(a) < Len(b)
    \/ \E i \in 1 .. Len(a) :
          /\ i =< Len(b)
          /\ a[i] < b[i]
          /\ \A j \in 1 .. (i - 1) : a[j] = b[j]

\* The key selectors (begin, 0, 1) and (end, 0, 1) of fdb_async_get_range:
\* first key at or after begin, up to but without the first key at or after end.
InEntityRange(z_id, key) ==
    /\ ~ KeyLess(key, zf_kv_entity_range_begin(z_id))
    /\ KeyLess(key, zf_kv_entity_range_end(z_id))
=============================================================================
