---------------------------- MODULE BloomFilter ----------------------------
(***************************************************************************)
(* The Bloom filter: as tools/bloom_format.py and blocklist_build.py build *)
(* it and as components/bloom_filter/bloom_filter.c reads it.              *)
(*                                                                         *)
(* The bit array is the set of the indices that are set.  The two runs of  *)
(* FNV-1a are any functions h1 and h2 on the normalised domains; machine   *)
(* integers wrap at Word and size_t at Size.                               *)
(***************************************************************************)
EXTENDS Integers

CONSTANTS
  Domains,      \* normalised domain names
  h1, h2,       \* fnv1a64 of a domain with FNV_SEED1 and FNV_SEED2
  Word,         \* 2^64
  Size,         \* 2^32: size_t of the target
  HeaderLen     \* sizeof(bloom_header_t)

ASSUME BloomAssumption ==
  /\ {Word, Size} \subseteq Nat \ {0}
  /\ HeaderLen \in Nat
  /\ {h1, h2} \subseteq [Domains -> 0 .. Word - 1]

(* The firmware: h1 + i * h2 in 64 bits, which wrap as they are computed.   *)
(* Mutant of Index: computed in wider arithmetic.                           *)
IndexWide(x, i, m_bits) == (h1[x] + (i * h2[x])) % m_bits

Index(x, i, m_bits) == ((h1[x] + (i * h2[x])) % Word) % m_bits

Test(filter, x) ==
  \A i \in 0 .. filter.k_hashes - 1 : Index(x, i, filter.m_bits) \in filter.bits

(* The builder: Python's integers do not wrap, each step is masked.         *)
BitIndex(x, i, m_bits) == ((h1[x] + ((i * h2[x]) % Word)) % Word) % m_bits

Build(m_bits, k_hashes, S) ==
  [m_bits |-> m_bits, k_hashes |-> k_hashes,
   bits |-> {BitIndex(x, i, m_bits) : x \in S, i \in 0 .. k_hashes - 1}]

(* bloom_filter_init, of a buffer of len bytes with the right magic and     *)
(* version: m_bits + 7 wraps at Word, the number of bytes at Size.          *)
(* Mutant of BitArrayBytes: the last, partial byte is not counted.          *)
BitArrayBytesDown(m_bits) == (m_bits \div 8) % Size

BitArrayBytes(m_bits) == (((m_bits + 7) % Word) \div 8) % Size

Accepts(len, m_bits) ==
  len >= HeaderLen /\ len >= HeaderLen + BitArrayBytes(m_bits)

-----------------------------------------------------------------------------
(* "a bloom-filter miss is always trusted" (README.md:26): whatever was put *)
(* into a filter by the builder tests positive in the firmware.              *)
NoFalseNegative(sizes, counts) ==
  \A m \in sizes, k \in counts, S \in SUBSET Domains :
    \A x \in S : Test(Build(m, k, S), x)

(* A test of a filter that was accepted reads within its buffer, when the   *)
(* number of its bits is one that the check computes without wrapping.       *)
Countable(m_bits) == 0 < m_bits /\ m_bits + 7 < Word /\ (m_bits + 7) \div 8 < Size

ReadsWithin(sizes, counts, lengths) ==
  \A m \in sizes, k \in counts, len \in lengths :
    Accepts(len, m) /\ Countable(m) =>
      \A x \in Domains, i \in 0 .. k - 1 : HeaderLen + Index(x, i, m) \div 8 < len
=============================================================================
