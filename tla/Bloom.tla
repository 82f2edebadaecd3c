------------------------------- MODULE Bloom --------------------------------
(***************************************************************************)
(* SectorBloom and BloomRegistry (binetic-core/src/bloom.rs) as values.    *)
(*                                                                         *)
(* A filter is the set of its bits that are one. `hash` reads the low 64   *)
(* bits of an address, which are its spine, layer, ring and sector: the k  *)
(* positions of an address under an anchor are those of its sector. Which  *)
(* positions, and the count a number of bits is taken for, are data        *)
(* (HashBits, Estimate). Every filter of a registry has NumBits bits.      *)
(***************************************************************************)
EXTENDS Integers, FiniteSets, FiniteSetsExt, Functions

CONSTANTS
  Sector,         \* SectorKey values
  Addr, SectorOf, \* RegisterAddress and its SectorKey
  NumBits,        \* 256
  NumHashes,      \* 3
  AnchorOf,       \* bloom_anchor_for_sector
  HashBits,       \* HashBits[anchor][sector]: the positions `hash` yields for an address
  Estimate,       \* estimated_count by the number of bits set
  U8              \* generations are modulo U8

Anchor == Range(AnchorOf)
SectorBloom == [bits : SUBSET (0 .. NumBits - 1), generation : 0 .. U8 - 1, anchor : Anchor]

\* -(m/k) ln(1 - n/m), truncated: below one for fewer than k bits, never less for more bits.
ASSUME BloomConstants ==
  /\ SectorOf \in [Addr -> Sector]
  /\ NumBits \in Nat \ {0} /\ NumHashes \in Nat \ {0} /\ U8 \in Nat \ {0}
  /\ AnchorOf \in [Sector -> Anchor]
  /\ \A x \in Anchor, s \in Sector :
       /\ HashBits[x][s] \subseteq 0 .. NumBits - 1
       /\ Cardinality(HashBits[x][s]) \in 1 .. NumHashes
  /\ 0 .. NumHashes \subseteq DOMAIN Estimate
  /\ \A n \in DOMAIN Estimate : Estimate[n] \in Nat /\ (Estimate[n] = 0 <=> n < NumHashes)

-----------------------------------------------------------------------------
(* One filter. *)

Positions(filter, a) == HashBits[filter.anchor][SectorOf[a]]

NewBloom(anchor) == [bits |-> {}, generation |-> 0, anchor |-> anchor]

\* Mutant of Insert: only one of the k hashes is set.
InsertFirstHash(filter, a) ==
  [filter EXCEPT !.bits = @ \cup {CHOOSE n \in Positions(filter, a) : TRUE},
                 !.generation = (@ + 1) % U8]

Insert(filter, a) ==
  [filter EXCEPT !.bits = @ \cup Positions(filter, a), !.generation = (@ + 1) % U8]

MightContain(filter, a) == Positions(filter, a) \subseteq filter.bits

\* Mutant of Merge: the other filter replaces this one.
MergeOverwriting(filter, other) ==
  [filter EXCEPT !.bits = other.bits, !.generation = (@ + 1) % U8]

\* The anchors may differ; the result keeps the first.
Merge(filter, other) ==
  [filter EXCEPT !.bits = @ \cup other.bits, !.generation = (@ + 1) % U8]

\* The generation counts the re-insertions, none for an empty sector.
Rebuild(filter, addresses) ==
  [filter EXCEPT !.bits = UNION {Positions(filter, a) : a \in addresses},
                 !.generation = (@ + Cardinality(addresses)) % U8]

EstimatedCount(filter) == Estimate[Cardinality(filter.bits)]

-----------------------------------------------------------------------------
(* A registry: a function from some sectors to their filters. *)

EmptyRegistry == [s \in {} |-> NewBloom(CHOOSE x \in Anchor : TRUE)]

BloomForSector(registry, s) ==
  IF s \in DOMAIN registry THEN registry[s] ELSE NewBloom(AnchorOf[s])

InsertIntoSector(registry, s, a) ==
  [k \in DOMAIN registry \cup {s} |->
     IF k = s THEN Insert(BloomForSector(registry, s), a) ELSE registry[k]]

SectorMightContain(registry, s, a) == s \in DOMAIN registry /\ MightContain(registry[s], a)

\* A new filter with the parent's anchor, merged with every child that has one.
AggregateToParent(registry, parent, children) ==
  LET known == children \cap DOMAIN registry
  IN FoldSet(LAMBDA s, parentBloom : Merge(parentBloom, registry[s]),
             NewBloom(AnchorOf[parent]), known)
=============================================================================
