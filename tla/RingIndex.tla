------------------------------- MODULE RingIndex ------------------------------
(* The indexes of venc_ring_hdr_t, which both processes count with.           *)
EXTENDS Integers

CONSTANTS SlotCount,      \* slot_count of the header, a power of two
          IdxMod          \* 2^64, the width of write_idx and read_idx

\* uint64_t subtraction.
U64Sub(a, b) == IF a >= b THEN a - b ELSE a - b + IdxMod
===============================================================================
