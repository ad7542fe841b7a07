---------------------------- MODULE MC_Registry -----------------------------
(* Two fields, types of every size and sign, and offsets at the ends of the
   ranges of int32_t and uint32_t. *)
EXTENDS Registry

MCTypes   == {"bool", "i16", "u32", "u64", "ipv6", "other"}
MCOffsets == {0, 1, AuxHalf - 8, AuxHalf - 1, AuxHalf, U32Max - 16, U32Max - 15, U32Max - 1, U32Max}
MCSizes   == {0, 1, 2, 4, 8, 16, 255}
=============================================================================
