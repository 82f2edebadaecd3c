------------------------------ MODULE Lineage -------------------------------
(***************************************************************************)
(* Registers and compound registers of binetic-core/src/register.rs as     *)
(* values.                                                                 *)
(*                                                                         *)
(* A lineage is the XOR of hashes. With ideal hashes (no two XOR sums meet *)
(* by chance) it is the set of what was hashed an odd number of times:     *)
(* addresses, payloads, and the constant 0xDEADBEEF_CAFE_BABE. A payload   *)
(* is the set of its bits that are one; all lanes are Width bits long.     *)
(* Echo counter, bloom anchor, phase and version decide nothing here; the  *)
(* checksum is the payload it was computed from.                           *)
(***************************************************************************)
EXTENDS Integers, FiniteSets, SequencesExt

CONSTANTS
  Addr,           \* RegisterAddress values
  Width           \* bits of a lane; 64 or fewer, so that bases fit their compound

ASSUME LineageConstants == Width \in Nat \ {0}

Lane == SUBSET (0 .. Width - 1)
Xor(x, y) == (x \ y) \cup (y \ x)

XorLineage == [addresses : SUBSET Addr, payloads : SUBSET Lane, constant : BOOLEAN]
Register == [address : Addr, payload : Lane, xor_lineage : XorLineage, checksum : Lane]

CombiningMethod == {"XorChain", "Sequential", "Interleaved", "Layered"}

-----------------------------------------------------------------------------
(* Lineage arithmetic. *)

NoLineage == [addresses |-> {}, payloads |-> {}, constant |-> FALSE]

Combine(l, m) == [addresses |-> Xor(l.addresses, m.addresses),
                  payloads |-> Xor(l.payloads, m.payloads),
                  constant |-> l.constant # m.constant]

InitialLineage(a, payload) ==
  [addresses |-> {a}, payloads |-> {payload}, constant |-> TRUE]

DeltaLineage(delta) == [addresses |-> {}, payloads |-> {delta}, constant |-> TRUE]

\* XOR of a set of lanes.
XorOf(lanes) == {b \in 0 .. Width - 1 : Cardinality({p \in lanes : b \in p}) % 2 = 1}

-----------------------------------------------------------------------------
(* Registers. *)

NewRegister(a, payload) ==
  [address |-> a, payload |-> payload, xor_lineage |-> InitialLineage(a, payload),
   checksum |-> payload]

\* Mutants of UpdateWithDelta: the lineage is left as it was, or is recomputed.
UpdatePayloadOnly(r, delta) ==
  [r EXCEPT !.payload = Xor(@, delta), !.checksum = Xor(r.payload, delta)]
UpdateRehashed(r, delta) == NewRegister(r.address, Xor(r.payload, delta))

UpdateWithDelta(r, delta) ==
  [r EXCEPT !.payload = Xor(@, delta),
            !.xor_lineage = Combine(@, DeltaLineage(delta)),
            !.checksum = Xor(r.payload, delta)]

LineageConsistent(r) == r.xor_lineage = InitialLineage(r.address, r.payload)
ChecksumValid(r) == r.checksum = r.payload

-----------------------------------------------------------------------------
(* Compound registers: `bases` is a non-empty sequence of registers. *)

CompoundPayload(method, bases) ==
  CASE method = "XorChain" -> FoldSeq(LAMBDA r, acc : Xor(acc, r.payload), {}, bases)
    [] method = "Interleaved" ->
         UNION {{b * Len(bases) + i - 1 : b \in bases[i].payload} : i \in DOMAIN bases}
    [] OTHER -> UNION {{(i - 1) * Width + b : b \in bases[i].payload} : i \in DOMAIN bases}

CompoundLineage(method, bases) ==
  IF method = "XorChain"
    THEN FoldSeq(LAMBDA r, acc : Combine(acc, r.xor_lineage), NoLineage, bases)
    ELSE [NoLineage EXCEPT !.payloads = {CompoundPayload(method, bases)}]

NewCompound(method, bases) ==
  [combining |-> method, base_addresses |-> [i \in DOMAIN bases |-> bases[i].address],
   payload |-> CompoundPayload(method, bases), xor_lineage |-> CompoundLineage(method, bases)]

\* Without loading the bases.
FromAddresses(method, addresses) ==
  [combining |-> method, base_addresses |-> addresses, payload |-> {}, xor_lineage |-> NoLineage]

\* `registers` is the store is_consistent looks the bases up in.
BasesOf(c, registers) == [i \in DOMAIN c.base_addresses |-> registers[c.base_addresses[i]]]

IsConsistent(c, registers) ==
  /\ ToSet(c.base_addresses) \subseteq DOMAIN registers
  /\ c.combining = "XorChain" =>
       c.xor_lineage = CompoundLineage("XorChain", BasesOf(c, registers))

\* Mutant of UpdateBase: the lineage is not merged.
UpdateBasePayload(c, i, r) ==
  IF c.combining = "XorChain"
    THEN [c EXCEPT !.base_addresses[i] = r.address, !.payload = Xor(@, r.payload)]
    ELSE [c EXCEPT !.base_addresses[i] = r.address]

\* The new base is merged on top of the old one, which is not taken out; the payload of a
\* compound of another method is left as it was. (update_base is passed c's own method.)
UpdateBase(c, i, r) ==
  IF c.combining = "XorChain"
    THEN [c EXCEPT !.base_addresses[i] = r.address,
                   !.payload = Xor(@, r.payload),
                   !.xor_lineage = Combine(@, r.xor_lineage)]
    ELSE [c EXCEPT !.base_addresses[i] = r.address]
=============================================================================
