--------------------------- MODULE DatabaseProofs ---------------------------
(***************************************************************************)
(* Theorems about Database, for every hash function, every set of          *)
(* addresses and any number of threads: its filters have no false          *)
(* negatives, are what a rebuild would make of them, and implement the set *)
(* Membership describes; an update finds an inserted record exactly under  *)
(* the entity id that is the entity type; a scan misses nothing that was   *)
(* there except in sectors its filters cannot count; a parent's filter     *)
(* denies only what its own anchor hashes elsewhere than a child's.        *)
(***************************************************************************)
EXTENDS Database, SequenceTheorems, FiniteSetTheorems, WellFoundedInduction, TLAPS

-----------------------------------------------------------------------------
(* Lemmas about filters and calls. *)

\* Inserting an address adds its positions to the filter and keeps its anchor.
LEMMA InsertAdds ==
  ASSUME NEW f \in SectorBloom, NEW a \in Addr
  PROVE  /\ Insert(f, a) \in SectorBloom
         /\ Insert(f, a).anchor = f.anchor
         /\ Insert(f, a).bits = f.bits \cup Positions(f, a)
  <1>1. SectorOf[a] \in Sector /\ f.anchor \in Anchor
    BY BloomConstants DEF SectorBloom
  <1>2. Positions(f, a) \subseteq 0 .. NumBits - 1
    BY <1>1, BloomConstants DEF Positions
  <1>3. (f.generation + 1) % U8 \in 0 .. U8 - 1
    BY BloomConstants DEF SectorBloom
  <1> QED
    BY <1>2, <1>3 DEF Insert, SectorBloom

\* A sector's filter, the new one included, is a filter under the sector's anchor.
LEMMA BloomForSectorType ==
  ASSUME TypeOK, NEW s \in Sector
  PROVE  BloomForSector(sectors, s) \in SectorBloom /\ BloomForSector(sectors, s).anchor = AnchorOf[s]
  BY BloomConstants DEF TypeOK, BloomForSector, NewBloom, SectorBloom

\* A call with writes to do has a sequence of them, and is nothing but that.
LEMMA WritesOfCall ==
  ASSUME NEW c \in CallType, c.pc \in {"store", "list"}
  PROVE  /\ c.writes \in Seq(Addr \X Lanes) /\ c.writes # <<>>
         /\ Head(c.writes)[1] \in Addr /\ Head(c.writes)[2] \in Lanes
         /\ Key(Head(c.writes)[1]) \in Sector
  <1>1. c.writes \in Seq(Addr \X Lanes) \ {<<>>}
    BY DEF CallType
  <1>2. Head(c.writes) \in Addr \X Lanes
    BY <1>1
  <1> QED
    BY <1>1, <1>2, DatabaseConstants DEF Key

\* Setting one thread's call to a call, or to none, keeps the calls' part of TypeOK.
LEMMA BecomeType ==
  ASSUME TypeOK, NEW t \in Threads, NEW c, c = NoCall \/ c \in CallType,
         call' = [call EXCEPT ![t] = c]
  PROVE  /\ call' = [u \in Threads |-> call'[u]]
         /\ \A u \in Threads : call'[u] = NoCall \/ call'[u] \in CallType
  BY DEF TypeOK

-----------------------------------------------------------------------------
(* Type correctness. *)

\* What a call has found or stored stays in the store.
Stored ==
  \A t \in Threads : call[t] # NoCall =>
    /\ call[t].pc = "adapt" => call[t].address \in DOMAIN registers
    /\ call[t].pc = "list" => Head(call[t].writes)[1] \in DOMAIN registers

TypeInv == TypeOK /\ Stored

\* The invariant holds of an empty fabric.
LEMMA TypeInit == Init => TypeInv
  BY DatabaseConstants DEF Init, TypeInv, TypeOK, Stored, EmptyRegistry

\* A call that begins with c, where c has found nothing that is not there, and changes
\* no register.
LEMMA TypeBegin ==
  ASSUME TypeInv, NEW t \in Threads, NEW c, c = NoCall \/ c \in CallType, Begin(t, c),
         c # NoCall => c.pc # "list" /\ (c.pc = "adapt" => c.address \in DOMAIN registers),
         UNCHANGED <<registers, sectors, listed>>
  PROVE  TypeInv'
<1>1. calls' \in 0 .. MaxCalls
  BY DatabaseConstants DEF TypeInv, TypeOK, Begin
<1>2. call' = [call EXCEPT ![t] = c] /\ DOMAIN call = Threads
  BY DEF Begin, TypeInv, TypeOK
<1>3. Stored'
  BY <1>2 DEF TypeInv, Stored
<1>4. QED  BY <1>1, <1>2, <1>3, BecomeType DEF TypeInv, TypeOK

\* A call in progress that becomes c and changes nothing else.
LEMMA TypeBecome ==
  ASSUME TypeInv, NEW t \in Threads, NEW c, c = NoCall \/ c \in CallType, Become(t, c),
         c # NoCall => c.pc \notin {"list", "adapt"},
         UNCHANGED <<registers, sectors, calls>>, listed' \subseteq DOMAIN registers
  PROVE  TypeInv'
<1>1. call' = [call EXCEPT ![t] = c] /\ DOMAIN call = Threads
  BY DEF Become, TypeInv, TypeOK
<1>2. Stored'
  BY <1>1 DEF TypeInv, Stored
<1>3. QED  BY <1>1, <1>2, BecomeType DEF TypeInv, TypeOK

\* The writes a call begins or goes on with.
LEMMA WritingType ==
  ASSUME NEW w \in Seq(Addr \X Lanes), w # <<>>
  PROVE  Writing(w) \in CallType /\ Writing(w).pc = "store" /\ Writing(w).writes = w
  BY DEF Writing, CallType

\* The writes of db_insert_record are one for each field.
LEMMA InsertWrites ==
  ASSUME NEW r \in Records
  PROVE  LET w == [i \in 1 .. r[2] |-> <<InsertAddress(r[1], i - 1), Zero>>]
         IN w \in Seq(Addr \X Lanes) /\ w # <<>>
<1> DEFINE w == [i \in 1 .. r[2] |-> <<InsertAddress(r[1], i - 1), Zero>>]
<1>1. r[1] \in Entities /\ r[2] \in Nat \ {0} /\ r[2] <= LastSector
  BY DatabaseConstants
<1>2. \A i \in 1 .. r[2] : w[i] \in Addr \X Lanes
  BY <1>1, DatabaseConstants DEF InsertAddress, Zero, Lanes
<1>3. w \in [1 .. r[2] -> Addr \X Lanes]
  BY <1>2
<1>4. w # <<>>
  BY <1>1
<1> HIDE DEF w
<1>5. w \in Seq(Addr \X Lanes)
  BY <1>1, <1>3, SeqDef
<1>6. QED  BY <1>4, <1>5 DEF w

\* A scan that leaves a sector is a scan.
LEMMA AfterSectorType ==
  ASSUME NEW c \in CallType, c.pc \in {"filter", "scan"}
  PROVE  AfterSector(c) \in CallType /\ AfterSector(c).pc \in {"filter", "scanned"}
<1>1. c \in [pc : {"filter", "scan", "scanned"}, scan : Scans, sector : 0 .. LastSector,
            matches : SUBSET Addr, before : SUBSET Addr]
  BY DEF CallType
<1>2. c.scan[3] \in 0 .. LastSector
  BY <1>1, DatabaseConstants
<1>3. CASE c.sector < c.scan[3]
  <2>1. c.sector + 1 \in 0 .. LastSector
    BY <1>1, <1>2, <1>3, DatabaseConstants
  <2>2. QED  BY <1>1, <1>3, <2>1 DEF AfterSector, CallType
<1>4. CASE ~(c.sector < c.scan[3])
  BY <1>1, <1>4 DEF AfterSector, CallType
<1>5. QED  BY <1>3, <1>4

\* A scan that goes on to its sector's registers is a scan.
LEMMA ScanningType ==
  ASSUME NEW c \in CallType, c.pc = "filter"
  PROVE  [c EXCEPT !.pc = "scan"] \in CallType /\ [c EXCEPT !.pc = "scan"].pc = "scan"
  BY DEF CallType

\* Every step keeps the invariant.
LEMMA TypeStep == TypeInv /\ [Next]_vars => TypeInv'
<1> SUFFICES ASSUME TypeInv, [Next]_vars PROVE TypeInv'
  OBVIOUS
<1>1. ASSUME NEW t \in Threads, NEW r \in Records, InsertRecord(t, r) PROVE TypeInv'
  <2> DEFINE w == [i \in 1 .. r[2] |-> <<InsertAddress(r[1], i - 1), Zero>>]
  <2>1. w \in Seq(Addr \X Lanes) /\ w # <<>>
    BY InsertWrites
  <2>2. Begin(t, Writing(w)) /\ UNCHANGED <<registers, sectors, listed>>
    BY <1>1 DEF InsertRecord
  <2> HIDE DEF w
  <2>3. QED  BY <2>1, <2>2, WritingType, TypeBegin
<1>2. ASSUME NEW t \in Threads, NEW e \in Entities, NEW id \in Ids, DeleteRecord(t, e, id)
      PROVE  TypeInv'
  <2> DEFINE w == << <<DeleteAddress(e, id), Tombstone>> >>
  <2>1. w \in Seq(Addr \X Lanes) /\ w # <<>>
    <3>1. DeleteAddress(e, id) \in Addr /\ Tombstone \in Lanes
      BY DatabaseConstants DEF DeleteAddress, Lanes
    <3> DEFINE d == DeleteAddress(e, id)
    <3> HIDE DEF d
    <3>2. QED  BY <3>1 DEF d
  <2>2. Begin(t, Writing(w)) /\ UNCHANGED <<registers, sectors, listed>>
    BY <1>2 DEF DeleteRecord
  <2> HIDE DEF w
  <2>3. QED  BY <2>1, <2>2, WritingType, TypeBegin
<1>3. ASSUME NEW t \in Threads, NEW e \in Entities, NEW id \in Ids, NEW v \in Values,
             UpdateRecordField(t, e, id, v)
      PROVE  TypeInv'
  <2> DEFINE a == UpdateAddress(e, id)
             d == Xor(registers[a], v)
             c == [pc |-> "adapt", entity |-> e, id |-> id, address |-> a, delta |-> d]
  <2>1. a \in DOMAIN registers => a \in Addr /\ d \in Lanes
    BY DatabaseConstants DEF Xor, Lanes, TypeInv, TypeOK
  <2>2. a \in DOMAIN registers => c \in CallType
    BY <2>1 DEF CallType
  <2>3. /\ Begin(t, IF a \in DOMAIN registers THEN c ELSE NoCall)
        /\ UNCHANGED <<registers, sectors, listed>>
    BY <1>3 DEF UpdateRecordField
  <2>4. CASE a \in DOMAIN registers
    <3>1. Begin(t, c)  BY <2>3, <2>4
    <3>2. c.pc = "adapt" /\ c.address = a  OBVIOUS
    <3> HIDE DEF c
    <3>3. QED  BY <2>2, <2>3, <2>4, <3>1, <3>2, TypeBegin
  <2>5. CASE a \notin DOMAIN registers
    <3>1. Begin(t, NoCall)  BY <2>3, <2>5
    <3>2. QED  BY <2>3, <3>1, TypeBegin
  <2>6. QED  BY <2>4, <2>5
<1>4. ASSUME NEW t \in Threads, AdaptRead(t) PROVE TypeInv'
  <2> DEFINE a == call[t].address
             w == << <<a, Xor(registers[a], call[t].delta)>> >>
  <2>1. call[t] \in CallType /\ call[t].pc = "adapt" /\ a \in DOMAIN registers
    BY <1>4 DEF AdaptRead, TypeInv, TypeOK, Stored
  <2>2. a \in Addr /\ call[t].delta \in Lanes
    BY <2>1 DEF CallType
  <2>3. w \in Seq(Addr \X Lanes) /\ w # <<>>
    BY <2>1, <2>2 DEF Xor, Lanes, TypeInv, TypeOK
  <2>4. Become(t, Writing(w)) /\ UNCHANGED <<registers, sectors, calls, listed>>
    BY <1>4 DEF AdaptRead
  <2> HIDE DEF w
  <2>5. QED  BY <2>3, <2>4, WritingType, TypeBecome DEF TypeInv, TypeOK
<1>5. ASSUME NEW t \in Threads, StoreRegister(t) PROVE TypeInv'
  <2> DEFINE c == [call[t] EXCEPT !.pc = "list"]
             a == Head(call[t].writes)[1]
  <2>1. call[t] \in CallType /\ call[t].pc = "store"
    BY <1>5 DEF StoreRegister, TypeInv, TypeOK
  <2>2. c \in CallType /\ c.pc = "list" /\ c.writes = call[t].writes
    BY <2>1 DEF CallType
  <2>3. call' = [call EXCEPT ![t] = c] /\ UNCHANGED <<sectors, calls, listed>>
    BY <1>5 DEF StoreRegister, Become
  <2>4. /\ registers' \in [DOMAIN registers' -> Lanes]
        /\ DOMAIN registers' = DOMAIN registers \cup {a} /\ a \in Addr
    BY <1>5, <2>1, WritesOfCall DEF StoreRegister, TypeInv, TypeOK
  <2> HIDE DEF c
  <2>5. Stored'
    BY <2>2, <2>3, <2>4 DEF Stored, TypeInv, TypeOK
  <2>6. QED  BY <2>2, <2>3, <2>4, <2>5, BecomeType DEF TypeInv, TypeOK
<1>6. ASSUME NEW t \in Threads, ListRegister(t) PROVE TypeInv'
  <2> DEFINE a == Head(call[t].writes)[1]
             w == Tail(call[t].writes)
             c == IF Len(call[t].writes) = 1 THEN NoCall ELSE Writing(w)
  <2>1. call[t] \in CallType /\ call[t].pc = "list" /\ a \in DOMAIN registers
    BY <1>6 DEF ListRegister, NextWrite, TypeInv, TypeOK, Stored
  <2>2. a \in Addr /\ Key(a) \in Sector
    BY <2>1, WritesOfCall
  <2>3. call[t].writes \in Seq(Addr \X Lanes) /\ call[t].writes # <<>>
    BY <2>1, WritesOfCall
  <2>4. Len(call[t].writes) # 1 => w \in Seq(Addr \X Lanes) /\ w # <<>>
    <3>1. Len(call[t].writes) \in Nat \ {0}
      BY <2>3, EmptySeq
    <3>2. w \in Seq(Addr \X Lanes) /\ Len(w) = Len(call[t].writes) - 1
      BY <2>3, HeadTailProperties
    <3>3. Len(<<>>) = 0
      OBVIOUS
    <3>4. Len(call[t].writes) # 1 => Len(w) # Len(<<>>)
      <4> HIDE DEF w
      <4> QED  BY <3>1, <3>2, <3>3
    <3>5. QED  BY <3>2, <3>4
  <2>5. (c = NoCall \/ c \in CallType) /\ (c # NoCall => c.pc = "store")
    <3> HIDE DEF w
    <3> QED  BY <2>4, WritingType
  <2>6. /\ call' = [call EXCEPT ![t] = c]
        /\ listed' = listed \cup {a}
        /\ sectors' = InsertIntoSector(sectors, Key(a), a)
        /\ UNCHANGED <<registers, calls>>
    BY <1>6 DEF ListRegister, NextWrite, Become
  <2> DEFINE f == BloomForSector(sectors, Key(a))
  <2>7. f \in SectorBloom /\ f.anchor = AnchorOf[Key(a)]
    BY <2>2, BloomForSectorType DEF TypeInv
  <2>8. Insert(f, a) \in SectorBloom /\ Insert(f, a).anchor = AnchorOf[Key(a)]
    <3> HIDE DEF f
    <3> QED  BY <2>2, <2>7, InsertAdds
  <2>9. /\ DOMAIN sectors' \subseteq Sector
        /\ \A s \in DOMAIN sectors' : sectors'[s] \in SectorBloom /\ sectors'[s].anchor = AnchorOf[s]
    <3>1. \A s \in DOMAIN sectors' : sectors'[s] = IF s = Key(a) THEN Insert(f, a) ELSE sectors[s]
      BY <2>6 DEF InsertIntoSector
    <3>2. DOMAIN sectors' = DOMAIN sectors \cup {Key(a)}
      BY <2>6 DEF InsertIntoSector
    <3> HIDE DEF f
    <3> QED  BY <2>2, <2>8, <3>1, <3>2 DEF TypeInv, TypeOK
  <2> HIDE DEF c, f
  <2>10. Stored'
    BY <2>5, <2>6 DEF Stored, TypeInv, TypeOK
  <2>11. /\ call' = [u \in Threads |-> call'[u]]
         /\ \A u \in Threads : call'[u] = NoCall \/ call'[u] \in CallType
    BY <2>5, <2>6, BecomeType DEF TypeInv
  <2>12. listed' \subseteq DOMAIN registers'
    BY <2>1, <2>6 DEF TypeInv, TypeOK
  <2>13. QED  BY <2>6, <2>9, <2>10, <2>11, <2>12 DEF TypeInv, TypeOK
<1>7. ASSUME NEW t \in Threads, NEW a \in ComputeResults, Compute(t, a) PROVE TypeInv'
  <2>1. a \in Addr /\ Zero \in Lanes
    BY DatabaseConstants DEF Zero, Lanes
  <2>2. call' = [call EXCEPT ![t] = NoCall] /\ calls' \in 0 .. MaxCalls /\ UNCHANGED <<sectors, listed>>
    BY <1>7, DatabaseConstants DEF Compute, Begin, TypeInv, TypeOK
  <2>3. /\ registers' \in [DOMAIN registers' -> Lanes]
        /\ DOMAIN registers' = DOMAIN registers \cup {a}
    BY <1>7, <2>1 DEF Compute, TypeInv, TypeOK
  <2>4. Stored'
    BY <2>2, <2>3 DEF Stored, TypeInv, TypeOK
  <2>5. QED  BY <2>1, <2>2, <2>3, <2>4, BecomeType DEF TypeInv, TypeOK
<1>8. ASSUME NEW t \in Threads, Clear(t) PROVE TypeInv'
  <2>1. /\ call' = [call EXCEPT ![t] = NoCall] /\ calls' \in 0 .. MaxCalls
        /\ UNCHANGED registers /\ listed' = {} /\ sectors' = EmptyRegistry
    BY <1>8, DatabaseConstants DEF Clear, Begin, TypeInv, TypeOK
  <2>2. DOMAIN sectors' = {}
    BY <2>1 DEF EmptyRegistry
  <2>3. Stored'
    BY <2>1 DEF Stored, TypeInv, TypeOK
  <2>4. QED  BY <2>1, <2>2, <2>3, BecomeType DEF TypeInv, TypeOK
<1>9. ASSUME NEW t \in Threads, NEW p \in Parents, Aggregate(t, p) PROVE TypeInv'
  <2>1. Begin(t, NoCall) /\ UNCHANGED <<registers, sectors, listed>>
    BY <1>9 DEF Aggregate
  <2>2. QED  BY <2>1, TypeBegin
<1>10. ASSUME NEW t \in Threads, NEW s \in Scans, BeginScan(t, s) PROVE TypeInv'
  <2> DEFINE c == [pc |-> "filter", scan |-> s, sector |-> s[2],
                   matches |-> {}, before |-> DOMAIN registers]
  <2>1. Begin(t, c) /\ UNCHANGED <<registers, sectors, listed>>
    BY <1>10 DEF BeginScan
  <2>2. c \in CallType /\ c.pc = "filter"
    BY DatabaseConstants DEF CallType, TypeInv, TypeOK
  <2> HIDE DEF c
  <2>3. QED  BY <2>1, <2>2, TypeBegin
<1>11. ASSUME NEW t \in Threads, ScanFilter(t) PROVE TypeInv'
  <2> DEFINE c == IF Skips(call[t]) THEN AfterSector(call[t]) ELSE [call[t] EXCEPT !.pc = "scan"]
  <2>1. call[t] \in CallType /\ call[t].pc = "filter"
    BY <1>11 DEF ScanFilter, TypeInv, TypeOK
  <2>2. c \in CallType /\ c.pc \notin {"list", "adapt"}
    BY <2>1, AfterSectorType, ScanningType
  <2>3. Become(t, c) /\ UNCHANGED <<registers, sectors, calls, listed>>
    BY <1>11 DEF ScanFilter
  <2> HIDE DEF c
  <2>4. QED  BY <2>2, <2>3, TypeBecome DEF TypeInv, TypeOK
<1>12. ASSUME NEW t \in Threads, ScanRegisters(t) PROVE TypeInv'
  <2> DEFINE m == {a \in DOMAIN registers : a[1] = call[t].scan[1] /\ a[2] = call[t].sector}
             d == [call[t] EXCEPT !.matches = @ \cup m]
             c == AfterSector(d)
  <2>1. call[t] \in CallType /\ call[t].pc = "scan" /\ m \subseteq Addr
    BY <1>12 DEF ScanRegisters, TypeInv, TypeOK
  <2>2. d \in CallType /\ d.pc = "scan"
    <3> HIDE DEF m
    <3> QED  BY <2>1 DEF CallType
  <2>3. Become(t, c) /\ UNCHANGED <<registers, sectors, calls, listed>>
    BY <1>12 DEF ScanRegisters
  <2> HIDE DEF d
  <2>4. c \in CallType /\ c.pc \notin {"list", "adapt"}
    BY <2>2, AfterSectorType
  <2> HIDE DEF c
  <2>5. QED  BY <2>3, <2>4, TypeBecome DEF TypeInv, TypeOK
<1>13. ASSUME NEW t \in Threads, EndScan(t) PROVE TypeInv'
  <2>1. Become(t, NoCall) /\ UNCHANGED <<registers, sectors, calls, listed>>
    BY <1>13 DEF EndScan
  <2>2. QED  BY <2>1, TypeBecome DEF TypeInv, TypeOK
<1>14. CASE UNCHANGED vars
  BY <1>14 DEF vars, TypeInv, TypeOK, Stored
<1>15. QED
  BY <1>1, <1>2, <1>3, <1>4, <1>5, <1>6, <1>7, <1>8, <1>9, <1>10, <1>11, <1>12, <1>13, <1>14 DEF Next

\* Every reachable state is of the declared types.
THEOREM TypeCorrect == Spec => []TypeInv
<1>1. QED  BY TypeInit, TypeStep, PTL DEF Spec

-----------------------------------------------------------------------------
(* The registry. *)

\* Listing an address sets its bits in its sector's filter and changes no other filter.
LEMMA ListingAdds ==
  ASSUME TypeOK, NEW a \in Addr, NEW r, r = InsertIntoSector(sectors, Key(a), a)
  PROVE  /\ DOMAIN r = DOMAIN sectors \cup {Key(a)}
         /\ r[Key(a)].anchor = AnchorOf[Key(a)]
         /\ r[Key(a)].bits = BloomForSector(sectors, Key(a)).bits
                                \cup HashBits[AnchorOf[Key(a)]][Key(a)]
         /\ \A s \in DOMAIN sectors \ {Key(a)} : r[s] = sectors[s]
<1> DEFINE f == BloomForSector(sectors, Key(a))
<1>1. Key(a) \in Sector /\ SectorOf[a] = Key(a)
  BY DatabaseConstants DEF Key
<1>2. f \in SectorBloom /\ f.anchor = AnchorOf[Key(a)]
  BY <1>1, BloomForSectorType
<1>3. DOMAIN r = DOMAIN sectors \cup {Key(a)} /\ r[Key(a)] = Insert(f, a)
  BY DEF InsertIntoSector
<1>4. \A s \in DOMAIN sectors \ {Key(a)} : r[s] = sectors[s]
  BY DEF InsertIntoSector
<1> HIDE DEF f
<1>5. Insert(f, a).anchor = f.anchor /\ Insert(f, a).bits = f.bits \cup Positions(f, a)
  BY <1>2, InsertAdds
<1>6. QED  BY <1>1, <1>2, <1>3, <1>4, <1>5 DEF f, Positions

\* A filter denies an address unless it holds the positions of the address's sector.
LEMMA MightContainBits ==
  ASSUME NEW a \in Addr, NEW r
  PROVE  SectorMightContain(r, Key(a), a) <=>
           Key(a) \in DOMAIN r /\ HashBits[r[Key(a)].anchor][Key(a)] \subseteq r[Key(a)].bits
BY DatabaseConstants DEF SectorMightContain, MightContain, Positions

\* Listing an address ends its denial and begins none.
LEMMA ListingDeniesLess ==
  ASSUME TypeOK, NEW a \in Addr, NEW r, r = InsertIntoSector(sectors, Key(a), a)
  PROVE  /\ SectorMightContain(r, Key(a), a)
         /\ \A b \in Addr : SectorMightContain(sectors, Key(b), b) => SectorMightContain(r, Key(b), b)
<1>1. /\ DOMAIN r = DOMAIN sectors \cup {Key(a)}
      /\ r[Key(a)].anchor = AnchorOf[Key(a)]
      /\ r[Key(a)].bits = BloomForSector(sectors, Key(a)).bits \cup HashBits[AnchorOf[Key(a)]][Key(a)]
      /\ \A s \in DOMAIN sectors \ {Key(a)} : r[s] = sectors[s]
  BY ListingAdds
<1>2. SectorMightContain(r, Key(a), a)
  BY <1>1, MightContainBits
<1>3. ASSUME NEW b \in Addr, SectorMightContain(sectors, Key(b), b)
      PROVE  SectorMightContain(r, Key(b), b)
  <2>1. Key(b) \in DOMAIN sectors /\ HashBits[sectors[Key(b)].anchor][Key(b)] \subseteq sectors[Key(b)].bits
    BY <1>3, MightContainBits
  <2>2. CASE Key(b) # Key(a)
    BY <1>1, <2>1, <2>2, MightContainBits
  <2>3. CASE Key(b) = Key(a)
    BY <1>1, <2>3, MightContainBits
  <2>4. QED  BY <2>2, <2>3
<1>4. QED  BY <1>2, <1>3

\* What a step does to the registry and to the addresses listed in it.
LEMMA RegistrySteps ==
  ASSUME TypeInv, [Next]_vars
  PROVE  \/ \E a \in Addr : /\ sectors' = InsertIntoSector(sectors, Key(a), a)
                            /\ listed' = listed \cup {a}
         \/ sectors' = EmptyRegistry /\ listed' = {}
         \/ UNCHANGED <<sectors, listed>>
<1>1. ASSUME NEW t \in Threads, ListRegister(t)
      PROVE  \E a \in Addr : /\ sectors' = InsertIntoSector(sectors, Key(a), a)
                             /\ listed' = listed \cup {a}
  <2>1. call[t] \in CallType /\ call[t].pc = "list"
    BY <1>1 DEF ListRegister, NextWrite, TypeInv, TypeOK
  <2>2. Head(call[t].writes)[1] \in Addr
    BY <2>1, WritesOfCall
  <2>3. QED  BY <1>1, <2>2 DEF ListRegister, NextWrite
<1>2. ASSUME NEW t \in Threads, Clear(t) PROVE sectors' = EmptyRegistry /\ listed' = {}
  BY <1>2 DEF Clear
<1>3. CASE UNCHANGED vars
  BY <1>3 DEF vars
<1>4. CASE \E t \in Threads :
        \/ \E r \in Records : InsertRecord(t, r)
        \/ \E e \in Entities, id \in Ids : DeleteRecord(t, e, id)
        \/ \E e \in Entities, id \in Ids, v \in Values : UpdateRecordField(t, e, id, v)
        \/ AdaptRead(t) \/ StoreRegister(t)
        \/ \E a \in ComputeResults : Compute(t, a)
        \/ \E p \in Parents : Aggregate(t, p)
        \/ \E s \in Scans : BeginScan(t, s)
        \/ ScanFilter(t) \/ ScanRegisters(t) \/ EndScan(t)
  BY <1>4 DEF InsertRecord, DeleteRecord, UpdateRecordField, AdaptRead, StoreRegister, Compute,
              Aggregate, BeginScan, ScanFilter, ScanRegisters, EndScan
<1>5. QED  BY <1>1, <1>2, <1>3, <1>4 DEF Next

RegistryInv == TypeInv /\ ListedNeverDenied /\ FilterIsRebuild

\* A rebuilt filter holds the positions of the addresses it is rebuilt from.
LEMMA RebuildBits ==
  ASSUME NEW f \in SectorBloom, NEW A
  PROVE  Rebuild(f, A).bits = UNION {Positions(f, a) : a \in A}
BY DEF Rebuild, SectorBloom

\* Every step keeps the registry's invariant: a filter that is made for an address has no
\* listed address yet, because ListedNeverDenied gives every listed address a filter.
LEMMA RegistryStep == RegistryInv /\ [Next]_vars => RegistryInv'
<1> SUFFICES ASSUME RegistryInv, [Next]_vars PROVE RegistryInv'
  OBVIOUS
<1> USE DEF RegistryInv
<1>1. TypeInv' /\ listed \subseteq Addr /\ TypeOK /\ TypeOK'
  BY TypeStep DEF TypeInv, TypeOK
<1>2. ASSUME NEW a \in Addr, sectors' = InsertIntoSector(sectors, Key(a), a),
             listed' = listed \cup {a}
      PROVE  ListedNeverDenied' /\ FilterIsRebuild'
  <2>1. ListedNeverDenied'
    BY <1>1, <1>2, ListingDeniesLess DEF ListedNeverDenied
  <2>2. /\ DOMAIN sectors' = DOMAIN sectors \cup {Key(a)}
        /\ sectors'[Key(a)].anchor = AnchorOf[Key(a)]
        /\ sectors'[Key(a)].bits = BloomForSector(sectors, Key(a)).bits
                                     \cup HashBits[AnchorOf[Key(a)]][Key(a)]
        /\ \A s \in DOMAIN sectors \ {Key(a)} : sectors'[s] = sectors[s]
    BY <1>1, <1>2, ListingAdds
  <2> SUFFICES ASSUME NEW s \in DOMAIN sectors'
               PROVE  Rebuild(sectors'[s], {b \in listed' : Key(b) = s}).bits = sectors'[s].bits
    BY <2>1 DEF FilterIsRebuild
  <2>3. sectors'[s] \in SectorBloom /\ sectors'[s].anchor = AnchorOf[s]
    BY <1>1 DEF TypeOK
  <2> DEFINE A == {b \in listed : Key(b) = s}
             B == {b \in listed' : Key(b) = s}
  <2>4. Rebuild(sectors'[s], B).bits = UNION {Positions(sectors'[s], b) : b \in B}
    BY <2>3, RebuildBits
  <2>5. s \in DOMAIN sectors =>
          sectors[s].bits = UNION {Positions(sectors[s], b) : b \in A} /\ sectors[s].anchor = AnchorOf[s]
    BY <1>1, RebuildBits DEF FilterIsRebuild, TypeOK
  <2>6. \A f : f.anchor = AnchorOf[s] => \A b \in listed' : Key(b) = s => Positions(f, b) = HashBits[AnchorOf[s]][s]
    BY <1>1, <1>2, DatabaseConstants DEF Positions
  <2>7. CASE s # Key(a)
    <3>1. B = A /\ s \in DOMAIN sectors /\ sectors'[s] = sectors[s]
      BY <1>2, <2>2, <2>7
    <3>2. QED  BY <3>1, <2>4, <2>5
  <2>8. CASE s = Key(a)
    <3>1. B = A \cup {a}
      BY <1>2, <2>8
    <3>2. UNION {Positions(sectors'[s], b) : b \in B} = HashBits[AnchorOf[s]][s]
      BY <2>3, <2>6, <3>1, <1>2
    <3>3. CASE s \in DOMAIN sectors
      <4>1. sectors[s].bits \subseteq HashBits[AnchorOf[s]][s]
        <5>1. \A b \in A : b \in listed' /\ Key(b) = s
          BY <1>2
        <5>2. \A b \in A : Positions(sectors[s], b) = HashBits[AnchorOf[s]][s]
          BY <2>5, <2>6, <3>3, <5>1
        <5>3. QED  BY <2>5, <3>3, <5>2
      <4>2. QED  BY <2>2, <2>4, <2>8, <3>2, <3>3, <4>1 DEF BloomForSector
    <3>4. CASE s \notin DOMAIN sectors
      <4>1. BloomForSector(sectors, s).bits = {}
        BY <3>4 DEF BloomForSector, NewBloom
      <4>2. QED  BY <2>2, <2>4, <2>8, <3>2, <4>1
    <3>5. QED  BY <3>3, <3>4
  <2>9. QED  BY <2>7, <2>8
<1>3. CASE sectors' = EmptyRegistry /\ listed' = {}
  <2>1. DOMAIN sectors' = {}
    BY <1>3 DEF EmptyRegistry
  <2>2. ListedNeverDenied'
    BY <1>3 DEF ListedNeverDenied
  <2>3. FilterIsRebuild'
    BY <2>1 DEF FilterIsRebuild
  <2>4. QED  BY <1>1, <2>2, <2>3
<1>4. CASE UNCHANGED <<sectors, listed>>
  <2>1. ListedNeverDenied'
    BY <1>4 DEF ListedNeverDenied
  <2>2. FilterIsRebuild'
    BY <1>4 DEF FilterIsRebuild
  <2>3. QED  BY <1>1, <2>1, <2>2
<1>5. QED  BY <1>1, <1>2, <1>3, <1>4, RegistrySteps

\* An empty registry has nothing listed.
LEMMA RegistryInit == Init => RegistryInv
BY TypeInit DEF Init, RegistryInv, ListedNeverDenied, FilterIsRebuild, EmptyRegistry

\* No false negatives (bloom.rs:130 over fabric.rs:387): the filter of an address's sector
\* never denies an address whose write returned, whatever the threads interleave.
THEOREM NoFalseNegatives == Spec => []ListedNeverDenied
<1>1. RegistryInv => ListedNeverDenied
  BY DEF RegistryInv
<1>2. QED  BY RegistryInit, RegistryStep, <1>1, PTL DEF Spec

\* Insertions leave a filter with the bits `rebuild` (bloom.rs:170) would give it.
THEOREM FilterIsWhatRebuildMakes == Spec => []FilterIsRebuild
<1>1. RegistryInv => FilterIsRebuild
  BY DEF RegistryInv
<1>2. QED  BY RegistryInit, RegistryStep, <1>1, PTL DEF Spec

\* Everything is denied at first, a write that returns denies less, a clear denies
\* everything again, and nothing else touches the registry: it implements Membership.
THEOREM RegistryRefines == Spec => RegistryImplementsMembership
<1>1. Init => Listing!Init
  BY DEF Init, Listing!Init, Denied, EmptyRegistry, SectorMightContain
<1>2. TypeInv /\ [Next]_vars => [Listing!Next]_<<listed, Denied>>
  <2> SUFFICES ASSUME TypeInv, [Next]_vars PROVE [Listing!Next]_<<listed, Denied>>
    OBVIOUS
  <2>1. ASSUME NEW a \in Addr, sectors' = InsertIntoSector(sectors, Key(a), a),
               listed' = listed \cup {a}
        PROVE  Listing!Next
    <3>1. Denied' \subseteq Denied \ {a}
      BY <2>1, ListingDeniesLess DEF Denied, TypeInv
    <3>2. QED  BY <2>1, <3>1 DEF Listing!Next, Listing!Insert
  <2>2. ASSUME sectors' = EmptyRegistry, listed' = {} PROVE Listing!Next
    <3>1. Denied' = Addr
      BY <2>2 DEF Denied, EmptyRegistry, SectorMightContain
    <3>2. QED  BY <2>2, <3>1 DEF Listing!Next, Listing!Clear
  <2>3. CASE UNCHANGED <<sectors, listed>>
    BY <2>3 DEF Denied
  <2>4. QED  BY <2>1, <2>2, <2>3, RegistrySteps
<1>3. QED
  BY <1>1, <1>2, TypeInit, TypeStep, PTL DEF Spec, RegistryImplementsMembership, Listing!Spec

-----------------------------------------------------------------------------
(* Keys of updates. *)

\* Addresses at which the calls store: of results, of tombstones, and of fields, whose key
\* is the entity type.
Storable(a) == a \in ComputeResults \/ a[2] = LastSector \/ a[3] = a[1]

StorableInv ==
  /\ \A a \in DOMAIN registers : Storable(a)
  /\ \A t \in Threads : call[t] # NoCall =>
       /\ call[t].pc \in {"store", "list"} =>
            \A i \in 1 .. Len(call[t].writes) : Storable(call[t].writes[i][1])
       /\ call[t].pc = "adapt" =>
            /\ Storable(call[t].address)
            /\ call[t].address = UpdateAddress(call[t].entity, call[t].id)

UpdateInv == TypeInv /\ StorableInv

\* A call that becomes c, which stores at storable addresses, keeps StorableInv.
LEMMA StorableBecome ==
  ASSUME UpdateInv, NEW t \in Threads, NEW c,
         call' = [call EXCEPT ![t] = c],
         \A a \in DOMAIN registers' \ DOMAIN registers : Storable(a),
         c # NoCall =>
           /\ c.pc \in {"store", "list"} => \A i \in 1 .. Len(c.writes) : Storable(c.writes[i][1])
           /\ c.pc = "adapt" => Storable(c.address) /\ c.address = UpdateAddress(c.entity, c.id)
  PROVE  StorableInv'
<1>1. \A u \in Threads : call'[u] = IF u = t THEN c ELSE call[u]
  BY DEF UpdateInv, TypeInv, TypeOK
<1>2. \A a \in DOMAIN registers' : Storable(a)
  BY DEF UpdateInv, StorableInv
<1>3. ASSUME NEW u \in Threads, call'[u] # NoCall
      PROVE  /\ call'[u].pc \in {"store", "list"} =>
                  \A i \in 1 .. Len(call'[u].writes) : Storable(call'[u].writes[i][1])
             /\ call'[u].pc = "adapt" =>
                  /\ Storable(call'[u].address)
                  /\ call'[u].address = UpdateAddress(call'[u].entity, call'[u].id)
  <2>1. CASE u = t
    <3>1. call'[u] = c
      BY <1>1, <2>1
    <3>2. QED  BY <1>3, <3>1
  <2>2. CASE u # t
    <3>1. call'[u] = call[u]
      BY <1>1, <2>2
    <3>2. QED  BY <1>3, <3>1 DEF UpdateInv, StorableInv
  <2>3. QED  BY <2>1, <2>2
<1>4. QED  BY <1>2, <1>3 DEF StorableInv

\* Every step keeps the invariant.
LEMMA UpdateStep == UpdateInv /\ [Next]_vars => UpdateInv'
<1> SUFFICES ASSUME UpdateInv, [Next]_vars PROVE StorableInv'
  BY TypeStep DEF UpdateInv
<1>1. ASSUME NEW t \in Threads, NEW r \in Records, InsertRecord(t, r) PROVE StorableInv'
  <2> DEFINE w == [i \in 1 .. r[2] |-> <<InsertAddress(r[1], i - 1), Zero>>]
             c == Writing(w)
  <2>1. call' = [call EXCEPT ![t] = c] /\ UNCHANGED registers
    BY <1>1 DEF InsertRecord, Begin
  <2>2. w \in Seq(Addr \X Lanes)
    BY InsertWrites
  <2>3. DOMAIN w = 1 .. Len(w) /\ DOMAIN w = 1 .. r[2]
    <3>1. DOMAIN w = 1 .. r[2]
      OBVIOUS
    <3> HIDE DEF w
    <3>2. QED  BY <2>2, <3>1, LenProperties
  <2>4. \A i \in 1 .. Len(w) : Storable(w[i][1])
    BY <2>3 DEF InsertAddress, Storable
  <2>5. c.pc = "store" /\ c.writes = w
    <3> HIDE DEF w
    <3> QED  BY DEF Writing
  <2> HIDE DEF c, w
  <2>6. QED  BY <2>1, <2>4, <2>5, StorableBecome
<1>2. ASSUME NEW t \in Threads, NEW e \in Entities, NEW id \in Ids, DeleteRecord(t, e, id)
      PROVE  StorableInv'
  <2> DEFINE w == << <<DeleteAddress(e, id), Tombstone>> >>
             c == Writing(w)
  <2>1. call' = [call EXCEPT ![t] = c] /\ UNCHANGED registers
    BY <1>2 DEF DeleteRecord, Begin
  <2>2. Len(w) = 1 /\ w[1][1] = DeleteAddress(e, id)
    OBVIOUS
  <2>3. Storable(w[1][1])
    BY <2>2 DEF DeleteAddress, Storable
  <2>4. c.pc = "store" /\ c.writes = w
    <3> HIDE DEF w
    <3> QED  BY DEF Writing
  <2> HIDE DEF c, w
  <2>5. \A i \in 1 .. Len(w) : Storable(w[i][1])
    BY <2>2, <2>3
  <2>6. QED  BY <2>1, <2>4, <2>5, StorableBecome
<1>3. ASSUME NEW t \in Threads, NEW e \in Entities, NEW id \in Ids, NEW v \in Values,
             UpdateRecordField(t, e, id, v)
      PROVE  StorableInv'
  <2> DEFINE a == UpdateAddress(e, id)
             d == [pc |-> "adapt", entity |-> e, id |-> id, address |-> a,
                   delta |-> Xor(registers[a], v)]
             c == IF a \in DOMAIN registers THEN d ELSE NoCall
  <2>1. call' = [call EXCEPT ![t] = c] /\ UNCHANGED registers
    BY <1>3 DEF UpdateRecordField, Begin
  <2>2. d.pc = "adapt" /\ d.address = a /\ d.address = UpdateAddress(d.entity, d.id)
    OBVIOUS
  <2>3. a \in DOMAIN registers => Storable(a)
    BY DEF UpdateInv, StorableInv
  <2> HIDE DEF a, d
  <2>4. QED  BY <2>1, <2>2, <2>3, StorableBecome
<1>4. ASSUME NEW t \in Threads, AdaptRead(t) PROVE StorableInv'
  <2> DEFINE a == call[t].address
             w == << <<a, Xor(registers[a], call[t].delta)>> >>
             c == Writing(w)
  <2>1. call' = [call EXCEPT ![t] = c] /\ UNCHANGED registers
    BY <1>4 DEF AdaptRead, Become
  <2>2. Storable(a)
    BY <1>4 DEF AdaptRead, UpdateInv, StorableInv
  <2>3. Len(w) = 1 /\ w[1][1] = a
    OBVIOUS
  <2>4. c.pc = "store" /\ c.writes = w
    <3> HIDE DEF w
    <3> QED  BY DEF Writing
  <2> HIDE DEF c, w, a
  <2>5. \A i \in 1 .. Len(w) : Storable(w[i][1])
    BY <2>2, <2>3
  <2>6. QED  BY <2>1, <2>4, <2>5, StorableBecome
<1>5. ASSUME NEW t \in Threads, StoreRegister(t) PROVE StorableInv'
  <2> DEFINE c == [call[t] EXCEPT !.pc = "list"]
             a == Head(call[t].writes)[1]
  <2>1. call[t] \in CallType /\ call[t].pc = "store" /\ call[t] # NoCall
    BY <1>5 DEF StoreRegister, UpdateInv, TypeInv, TypeOK
  <2>2. c.pc = "list" /\ c.writes = call[t].writes
    BY <2>1 DEF CallType
  <2>3. \A i \in 1 .. Len(call[t].writes) : Storable(call[t].writes[i][1])
    BY <2>1 DEF UpdateInv, StorableInv
  <2>4. call[t].writes \in Seq(Addr \X Lanes) /\ call[t].writes # <<>>
    BY <2>1, WritesOfCall
  <2>5. Storable(a)
    <3>1. Len(call[t].writes) \in Nat \ {0} /\ Head(call[t].writes) = call[t].writes[1]
      BY <2>4, EmptySeq
    <3>2. QED  BY <2>3, <3>1
  <2>6. call' = [call EXCEPT ![t] = c] /\ DOMAIN registers' = DOMAIN registers \cup {a}
    BY <1>5 DEF StoreRegister, Become
  <2> HIDE DEF c, a
  <2>7. QED  BY <2>2, <2>3, <2>5, <2>6, StorableBecome
<1>6. ASSUME NEW t \in Threads, ListRegister(t) PROVE StorableInv'
  <2> DEFINE w == Tail(call[t].writes)
             d == Writing(w)
             c == IF Len(call[t].writes) = 1 THEN NoCall ELSE d
  <2>1. call[t] \in CallType /\ call[t].pc = "list" /\ call[t] # NoCall
    BY <1>6 DEF ListRegister, NextWrite, UpdateInv, TypeInv, TypeOK
  <2>2. call[t].writes \in Seq(Addr \X Lanes) /\ call[t].writes # <<>>
    BY <2>1, WritesOfCall
  <2>3. /\ Len(w) = Len(call[t].writes) - 1 /\ Len(call[t].writes) \in Nat
        /\ \A i \in 1 .. Len(w) : w[i] = call[t].writes[i + 1]
    <3>1. Len(call[t].writes) \in Nat
      BY <2>2
    <3>2. QED  BY <2>2, <3>1, HeadTailProperties
  <2>4. \A i \in 1 .. Len(call[t].writes) : Storable(call[t].writes[i][1])
    BY <2>1 DEF UpdateInv, StorableInv
  <2>5. call' = [call EXCEPT ![t] = c] /\ UNCHANGED registers
    BY <1>6 DEF ListRegister, NextWrite, Become
  <2>6. d.pc = "store" /\ d.writes = w
    <3> HIDE DEF w
    <3> QED  BY DEF Writing
  <2> HIDE DEF d, w
  <2>7. \A i \in 1 .. Len(w) : Storable(w[i][1])
    <3> SUFFICES ASSUME NEW i \in 1 .. Len(w) PROVE Storable(w[i][1])
      OBVIOUS
    <3>1. i + 1 \in 1 .. Len(call[t].writes)
      BY <2>3
    <3>2. QED  BY <2>3, <2>4, <3>1
  <2>8. QED  BY <2>5, <2>6, <2>7, StorableBecome
<1>7. ASSUME NEW t \in Threads, NEW a \in ComputeResults, Compute(t, a) PROVE StorableInv'
  <2>1. call' = [call EXCEPT ![t] = NoCall] /\ DOMAIN registers' = DOMAIN registers \cup {a}
    BY <1>7 DEF Compute, Begin
  <2>2. QED  BY <2>1, StorableBecome DEF Storable
<1>8. ASSUME NEW t \in Threads, NEW c, call' = [call EXCEPT ![t] = c], UNCHANGED registers,
             c # NoCall => c.pc \notin {"store", "list", "adapt"}
      PROVE  StorableInv'
  BY <1>8, StorableBecome
<1>9. ASSUME NEW t \in Threads, Clear(t) \/ EndScan(t) \/ \E p \in Parents : Aggregate(t, p)
      PROVE  StorableInv'
  <2>1. call' = [call EXCEPT ![t] = NoCall] /\ UNCHANGED registers
    BY <1>9 DEF Clear, EndScan, Aggregate, Begin, Become
  <2>2. QED  BY <2>1, <1>8
<1>10. ASSUME NEW t \in Threads, NEW s \in Scans, BeginScan(t, s) PROVE StorableInv'
  <2> DEFINE c == [pc |-> "filter", scan |-> s, sector |-> s[2],
                   matches |-> {}, before |-> DOMAIN registers]
  <2>1. call' = [call EXCEPT ![t] = c] /\ UNCHANGED registers /\ c.pc = "filter"
    BY <1>10 DEF BeginScan, Begin
  <2> HIDE DEF c
  <2>2. QED  BY <2>1, <1>8
<1>11. ASSUME NEW t \in Threads, ScanFilter(t) PROVE StorableInv'
  <2> DEFINE c == IF Skips(call[t]) THEN AfterSector(call[t]) ELSE [call[t] EXCEPT !.pc = "scan"]
  <2>1. call[t] \in CallType /\ call[t].pc = "filter"
    BY <1>11 DEF ScanFilter, UpdateInv, TypeInv, TypeOK
  <2>2. c.pc \notin {"store", "list", "adapt"}
    BY <2>1, AfterSectorType, ScanningType
  <2>3. call' = [call EXCEPT ![t] = c] /\ UNCHANGED registers
    BY <1>11 DEF ScanFilter, Become
  <2> HIDE DEF c
  <2>4. QED  BY <2>2, <2>3, <1>8
<1>12. ASSUME NEW t \in Threads, ScanRegisters(t) PROVE StorableInv'
  <2> DEFINE m == {a \in DOMAIN registers : a[1] = call[t].scan[1] /\ a[2] = call[t].sector}
             d == [call[t] EXCEPT !.matches = @ \cup m]
             c == AfterSector(d)
  <2>1. call[t] \in CallType /\ call[t].pc = "scan" /\ m \subseteq Addr
    BY <1>12 DEF ScanRegisters, UpdateInv, TypeInv, TypeOK
  <2>2. d \in CallType /\ d.pc = "scan"
    <3> HIDE DEF m
    <3> QED  BY <2>1 DEF CallType
  <2>3. call' = [call EXCEPT ![t] = c] /\ UNCHANGED registers
    BY <1>12 DEF ScanRegisters, Become
  <2> HIDE DEF d
  <2>4. c.pc \notin {"store", "list", "adapt"}
    BY <2>2, AfterSectorType
  <2> HIDE DEF c
  <2>5. QED  BY <2>3, <2>4, <1>8
<1>13. CASE UNCHANGED vars
  BY <1>13 DEF vars, UpdateInv, StorableInv
<1>14. QED
  BY <1>1, <1>2, <1>3, <1>4, <1>5, <1>6, <1>7, <1>9, <1>10, <1>11, <1>12, <1>13 DEF Next

\* db_update_record_field finds a record that db_insert_record stored exactly under the
\* entity id that is the entity type (fabric.rs:958 against 982): the registers at its
\* addresses, sector 0 of the entity's layer, are those of insertions and of compute.
THEOREM UpdateFindsInserts == Spec => UpdateFindsInsertOnlyByType
<1>1. Init => UpdateInv
  BY TypeInit DEF Init, UpdateInv, StorableInv
<1>2. UpdateInv =>
        [\A t \in Threads, e \in Entities, id \in Ids :
           /\ \E v \in Values : UpdateRecordField(t, e, id, v)
           /\ InsertAddress(e, 0) \in DOMAIN registers
           => \/ id = e /\ call'[t].pc = "adapt"
              \/ id # e /\ (call'[t] = NoCall \/ UpdateAddress(e, id) \in ComputeResults)]_vars
  <2> SUFFICES ASSUME UpdateInv, NEW t \in Threads, NEW e \in Entities, NEW id \in Ids,
                      NEW v \in Values, UpdateRecordField(t, e, id, v),
                      InsertAddress(e, 0) \in DOMAIN registers
               PROVE  \/ id = e /\ call'[t].pc = "adapt"
                      \/ id # e /\ (call'[t] = NoCall \/ UpdateAddress(e, id) \in ComputeResults)
    OBVIOUS
  <2> DEFINE a == UpdateAddress(e, id)
             c == [pc |-> "adapt", entity |-> e, id |-> id, address |-> a,
                   delta |-> Xor(registers[a], v)]
  <2>1. call' = [call EXCEPT ![t] = IF a \in DOMAIN registers THEN c ELSE NoCall]
    BY DEF UpdateRecordField, Begin
  <2>2. t \in DOMAIN call /\ c.pc = "adapt"
    BY DEF UpdateInv, TypeInv, TypeOK
  <2> HIDE DEF c
  <2>3. CASE id = e
    <3>1. a \in DOMAIN registers
      BY <2>3 DEF InsertAddress, UpdateAddress
    <3>2. QED  BY <2>1, <2>2, <2>3, <3>1
  <2>4. CASE id # e /\ a \in DOMAIN registers
    <3>1. Storable(a)
      BY <2>4 DEF UpdateInv, StorableInv
    <3>2. a[1] = e /\ a[2] = 0 /\ a[3] = id
      BY DEF UpdateAddress
    <3> HIDE DEF a
    <3>3. a \in ComputeResults
      BY <2>4, <3>1, <3>2, DatabaseConstants DEF Storable
    <3>4. QED  BY <2>4, <3>3 DEF a
  <2>5. CASE id # e /\ a \notin DOMAIN registers
    BY <2>1, <2>2, <2>5
  <2>6. QED  BY <2>3, <2>4, <2>5
<1>3. QED  BY <1>1, <1>2, UpdateStep, PTL DEF Spec, UpdateFindsInsertOnlyByType

-----------------------------------------------------------------------------
(* Scans. *)

\* The filter of a sector, once there is one, is the positions of its addresses.
SectorFull ==
  /\ IsFiniteSet(DOMAIN sectors)
  /\ \A s \in DOMAIN sectors : sectors[s].bits = HashBits[AnchorOf[s]][s]

\* Every step keeps it, since all the addresses of a sector hash alike.
LEMMA SectorFullStep == TypeInv /\ SectorFull /\ [Next]_vars => SectorFull'
<1> SUFFICES ASSUME TypeInv, SectorFull, [Next]_vars PROVE SectorFull'
  OBVIOUS
<1>1. ASSUME NEW a \in Addr, sectors' = InsertIntoSector(sectors, Key(a), a)
      PROVE  SectorFull'
  <2> DEFINE k == Key(a)
  <2>1. /\ DOMAIN sectors' = DOMAIN sectors \cup {k}
        /\ sectors'[k].bits = BloomForSector(sectors, k).bits \cup HashBits[AnchorOf[k]][k]
        /\ \A s \in DOMAIN sectors \ {k} : sectors'[s] = sectors[s]
    BY <1>1, ListingAdds DEF TypeInv
  <2>2. BloomForSector(sectors, k).bits \subseteq HashBits[AnchorOf[k]][k]
    BY DEF BloomForSector, NewBloom, SectorFull
  <2>3. IsFiniteSet(DOMAIN sectors')
    BY <2>1, FS_AddElement DEF SectorFull
  <2> HIDE DEF k
  <2>4. QED  BY <2>1, <2>2, <2>3 DEF SectorFull
<1>2. CASE sectors' = EmptyRegistry
  BY <1>2, FS_EmptySet DEF EmptyRegistry, SectorFull
<1>3. CASE UNCHANGED sectors
  BY <1>3 DEF SectorFull
<1>4. QED  BY <1>1, <1>2, <1>3, RegistrySteps

Full(s) == Cardinality(HashBits[AnchorOf[s]][s]) = NumHashes

ScanCalls == [pc : {"filter", "scan", "scanned"}, scan : Scans, sector : 0 .. LastSector,
              matches : SUBSET Addr, before : SUBSET Addr]

\* A scan has taken what it began with from the sectors up to n.
TakenTo(c, n, store) ==
  /\ c.before \subseteq store
  /\ \A a \in c.before :
       /\ a[1] = c.scan[1] /\ c.scan[2] <= a[2] /\ a[2] <= c.scan[3]
       /\ a[2] < n /\ Full(Key(a))
       => a \in c.matches

\* What a scan has taken: everything below its sector, and at the end everything.
Taken(c, store) ==
  /\ c.pc \in {"filter", "scan"} => TakenTo(c, c.sector, store)
  /\ c.pc = "scanned" => c.sector >= c.scan[3] /\ TakenTo(c, c.sector + 1, store)

ScanInv == \A t \in Threads : call[t] # NoCall => Taken(call[t], DOMAIN registers)

\* A scan that has its sector too has what its next place calls for.
LEMMA AfterSectorTakes ==
  ASSUME NEW c \in ScanCalls, NEW store, TakenTo(c, c.sector + 1, store)
  PROVE  Taken(AfterSector(c), store)
<1>1. c.scan \in Scans /\ c.sector \in 0 .. LastSector
  BY DEF ScanCalls
<1>2. c.scan[3] \in Nat /\ c.sector \in Nat
  BY <1>1, DatabaseConstants
<1>3. CASE c.sector < c.scan[3]
  <2> DEFINE d == [c EXCEPT !.pc = "filter", !.sector = @ + 1]
  <2>1. AfterSector(c) = d
    BY <1>3 DEF AfterSector
  <2>2. /\ d.pc = "filter" /\ d.sector = c.sector + 1 /\ d.scan = c.scan
        /\ d.before = c.before /\ d.matches = c.matches
    BY DEF ScanCalls
  <2> HIDE DEF d
  <2>3. QED  BY <2>1, <2>2 DEF Taken, TakenTo
<1>4. CASE ~(c.sector < c.scan[3])
  <2> DEFINE d == [c EXCEPT !.pc = "scanned"]
  <2>1. AfterSector(c) = d
    BY <1>4 DEF AfterSector
  <2>2. /\ d.pc = "scanned" /\ d.sector = c.sector /\ d.scan = c.scan
        /\ d.before = c.before /\ d.matches = c.matches
    BY DEF ScanCalls
  <2>3. c.sector >= c.scan[3]
    BY <1>2, <1>4
  <2> HIDE DEF d
  <2>4. QED  BY <2>1, <2>2, <2>3 DEF Taken, TakenTo
<1>5. QED  BY <1>3, <1>4

\* A call that becomes c keeps the invariant if c has taken what it should.
LEMMA TakenBecome ==
  ASSUME TypeInv, ScanInv, NEW t \in Threads, NEW c, call' = [call EXCEPT ![t] = c],
         DOMAIN registers \subseteq DOMAIN registers',
         c # NoCall => Taken(c, DOMAIN registers')
  PROVE  ScanInv'
<1>1. \A u \in Threads : call'[u] = IF u = t THEN c ELSE call[u]
  BY DEF TypeInv, TypeOK
<1>2. ASSUME NEW u \in Threads, call'[u] # NoCall
      PROVE  Taken(call'[u], DOMAIN registers')
  <2>1. CASE u = t
    BY <1>1, <1>2, <2>1
  <2>2. CASE u # t
    <3>1. call'[u] = call[u] /\ Taken(call[u], DOMAIN registers)
      BY <1>1, <1>2, <2>2 DEF ScanInv
    <3>2. Taken(call[u], DOMAIN registers')
      BY <3>1 DEF Taken, TakenTo
    <3>3. QED  BY <3>1, <3>2
  <2>3. QED  BY <2>1, <2>2
<1>3. QED  BY <1>2 DEF ScanInv

\* A call in a scan is of the scans' type.
LEMMA ScanCallType ==
  ASSUME TypeInv, NEW t \in Threads, call[t] # NoCall, call[t].pc \in {"filter", "scan", "scanned"}
  PROVE  call[t] \in ScanCalls
BY DEF TypeInv, TypeOK, CallType, ScanCalls

\* An address and its sector.
LEMMA KeyFacts ==
  ASSUME NEW a \in Addr
  PROVE  a[2] \in Nat /\ Key(a) = <<a[1], a[2]>>
BY DatabaseConstants DEF Key

\* Only a sector whose address hashes to fewer positions than hashes is passed over.
LEMMA SkipsNoFull ==
  ASSUME SectorFull, NEW c, Skips(c), NEW a \in Addr, a[1] = c.scan[1], a[2] = c.sector
  PROVE  ~ Full(Key(a))
<1> DEFINE k == Key(a)
<1>1. k \in DOMAIN sectors /\ Estimate[Cardinality(sectors[k].bits)] = 0
  BY KeyFacts DEF Skips, EstimatedCount
<1>2. sectors[k].bits = HashBits[AnchorOf[k]][k]
  BY <1>1 DEF SectorFull
<1> HIDE DEF k
<1>3. ASSUME Full(k) PROVE FALSE
  <2>1. Estimate[NumHashes] = 0
    BY <1>1, <1>2, <1>3 DEF Full
  <2>2. NumHashes \in Nat /\ NumHashes \in 0 .. NumHashes
    BY BloomConstants
  <2>3. NumHashes < NumHashes
    BY <2>1, <2>2, BloomConstants
  <2>4. QED  BY <2>2, <2>3
<1>4. QED  BY <1>3 DEF k

\* Every step keeps the invariant of scans: registers are never removed, and a sector is
\* passed over only where the claim says nothing.
LEMMA ScanStep == TypeInv /\ SectorFull /\ ScanInv /\ [Next]_vars => ScanInv'
<1> SUFFICES ASSUME TypeInv, SectorFull, ScanInv, [Next]_vars PROVE ScanInv'
  OBVIOUS
<1>0. ASSUME NEW t \in Threads, NEW c, call' = [call EXCEPT ![t] = c],
             DOMAIN registers \subseteq DOMAIN registers',
             c # NoCall => c.pc \in {"store", "list", "adapt"}
      PROVE  ScanInv'
  <2>1. c # NoCall => Taken(c, DOMAIN registers')
    BY <1>0 DEF Taken
  <2>2. QED  BY <1>0, <2>1, TakenBecome
<1>1. ASSUME NEW t \in Threads, NEW r \in Records, InsertRecord(t, r) PROVE ScanInv'
  <2> DEFINE c == Writing([i \in 1 .. r[2] |-> <<InsertAddress(r[1], i - 1), Zero>>])
  <2>1. call' = [call EXCEPT ![t] = c] /\ UNCHANGED registers
    BY <1>1 DEF InsertRecord, Begin
  <2>2. c.pc = "store"
    BY DEF Writing
  <2> HIDE DEF c
  <2>3. QED  BY <1>0, <2>1, <2>2
<1>2. ASSUME NEW t \in Threads, NEW e \in Entities, NEW id \in Ids, DeleteRecord(t, e, id)
      PROVE  ScanInv'
  <2> DEFINE c == Writing(<< <<DeleteAddress(e, id), Tombstone>> >>)
  <2>1. call' = [call EXCEPT ![t] = c] /\ UNCHANGED registers
    BY <1>2 DEF DeleteRecord, Begin
  <2>2. c.pc = "store"
    BY DEF Writing
  <2> HIDE DEF c
  <2>3. QED  BY <1>0, <2>1, <2>2
<1>3. ASSUME NEW t \in Threads, NEW e \in Entities, NEW id \in Ids, NEW v \in Values,
             UpdateRecordField(t, e, id, v)
      PROVE  ScanInv'
  <2> DEFINE a == UpdateAddress(e, id)
             d == [pc |-> "adapt", entity |-> e, id |-> id, address |-> a,
                   delta |-> Xor(registers[a], v)]
             c == IF a \in DOMAIN registers THEN d ELSE NoCall
  <2>1. call' = [call EXCEPT ![t] = c] /\ UNCHANGED registers
    BY <1>3 DEF UpdateRecordField, Begin
  <2>2. d.pc = "adapt"
    OBVIOUS
  <2> HIDE DEF d
  <2>3. c # NoCall => c.pc = "adapt"
    BY <2>2
  <2> HIDE DEF c
  <2>4. QED  BY <1>0, <2>1, <2>3
<1>4. ASSUME NEW t \in Threads, AdaptRead(t) PROVE ScanInv'
  <2> DEFINE a == call[t].address
             c == Writing(<< <<a, Xor(registers[a], call[t].delta)>> >>)
  <2>1. call' = [call EXCEPT ![t] = c] /\ UNCHANGED registers
    BY <1>4 DEF AdaptRead, Become
  <2>2. c.pc = "store"
    BY DEF Writing
  <2> HIDE DEF c
  <2>3. QED  BY <1>0, <2>1, <2>2
<1>5. ASSUME NEW t \in Threads, StoreRegister(t) PROVE ScanInv'
  <2> DEFINE c == [call[t] EXCEPT !.pc = "list"]
  <2>1. call' = [call EXCEPT ![t] = c] /\ DOMAIN registers \subseteq DOMAIN registers'
    BY <1>5 DEF StoreRegister, Become
  <2>2. call[t] \in CallType /\ call[t].pc = "store"
    BY <1>5 DEF StoreRegister, TypeInv, TypeOK
  <2>3. c.pc = "list"
    BY <2>2 DEF CallType
  <2> HIDE DEF c
  <2>4. QED  BY <1>0, <2>1, <2>3
<1>6. ASSUME NEW t \in Threads, ListRegister(t) PROVE ScanInv'
  <2> DEFINE c == IF Len(call[t].writes) = 1 THEN NoCall ELSE Writing(Tail(call[t].writes))
  <2>1. call' = [call EXCEPT ![t] = c] /\ UNCHANGED registers
    BY <1>6 DEF ListRegister, NextWrite, Become
  <2>2. c # NoCall => c.pc = "store"
    BY DEF Writing
  <2> HIDE DEF c
  <2>3. QED  BY <1>0, <2>1, <2>2
<1>7. ASSUME NEW t \in Threads,
             \/ \E a \in ComputeResults : Compute(t, a)
             \/ Clear(t)
             \/ \E p \in Parents : Aggregate(t, p)
             \/ EndScan(t)
      PROVE  ScanInv'
  <2>1. call' = [call EXCEPT ![t] = NoCall] /\ DOMAIN registers \subseteq DOMAIN registers'
    BY <1>7 DEF Compute, Clear, Aggregate, EndScan, Begin, Become
  <2>2. QED  BY <1>0, <2>1
<1>8. ASSUME NEW t \in Threads, NEW s \in Scans, BeginScan(t, s) PROVE ScanInv'
  <2> DEFINE c == [pc |-> "filter", scan |-> s, sector |-> s[2],
                   matches |-> {}, before |-> DOMAIN registers]
  <2>1. call' = [call EXCEPT ![t] = c] /\ UNCHANGED registers
    BY <1>8 DEF BeginScan, Begin
  <2>2. /\ c.pc = "filter" /\ c.scan = s /\ c.sector = s[2] /\ c.before = DOMAIN registers
        /\ s[2] \in Nat
    BY DatabaseConstants
  <2> HIDE DEF c
  <2>3. \A a \in DOMAIN registers : s[2] <= a[2] => ~(a[2] < s[2])
    <3>1. \A a \in DOMAIN registers : a[2] \in Nat
      BY KeyFacts DEF TypeInv, TypeOK
    <3>2. QED  BY <2>2, <3>1
  <2>4. Taken(c, DOMAIN registers')
    BY <2>1, <2>2, <2>3 DEF Taken, TakenTo
  <2>5. QED  BY <2>1, <2>4, TakenBecome
<1>9. ASSUME NEW t \in Threads, ScanFilter(t) PROVE ScanInv'
  <2> DEFINE c == call[t]
             s == [c EXCEPT !.pc = "scan"]
             d == IF Skips(c) THEN AfterSector(c) ELSE s
  <2>1. c # NoCall /\ c.pc = "filter" /\ call' = [call EXCEPT ![t] = d] /\ UNCHANGED registers
    BY <1>9 DEF ScanFilter, Become
  <2>2. c \in ScanCalls
    BY <2>1, ScanCallType
  <2>3. TakenTo(c, c.sector, DOMAIN registers) /\ c.before \subseteq Addr /\ c.sector \in Nat
    BY <2>1, <2>2 DEF ScanInv, Taken, ScanCalls
  <2>4. CASE Skips(c)
    <3> HIDE DEF c
    <3>1. ASSUME NEW a \in c.before, a[1] = c.scan[1], a[2] < c.sector + 1, Full(Key(a))
          PROVE  a[2] < c.sector
      <4>1. a \in Addr /\ a[2] \in Nat
        BY <2>3, KeyFacts
      <4>2. a[2] # c.sector
        BY <2>4, <3>1, <4>1, SkipsNoFull
      <4>3. QED  BY <2>3, <3>1, <4>1, <4>2
    <3>2. TakenTo(c, c.sector + 1, DOMAIN registers)
      BY <2>3, <3>1 DEF TakenTo
    <3>3. Taken(d, DOMAIN registers')
      BY <2>1, <2>2, <2>4, <3>2, AfterSectorTakes
    <3> HIDE DEF d
    <3>4. QED  BY <2>1, <3>3, TakenBecome
  <2>5. CASE ~Skips(c)
    <3>1. /\ s.pc = "scan" /\ s.sector = c.sector /\ s.scan = c.scan
          /\ s.before = c.before /\ s.matches = c.matches
      BY <2>2 DEF ScanCalls
    <3> HIDE DEF s, c
    <3>2. d = s /\ Taken(s, DOMAIN registers)
      BY <2>3, <2>5, <3>1 DEF Taken, TakenTo
    <3>3. Taken(d, DOMAIN registers')
      BY <2>1, <3>2
    <3> HIDE DEF d
    <3>4. QED  BY <2>1, <3>3, TakenBecome
  <2>6. QED  BY <2>4, <2>5
<1>10. ASSUME NEW t \in Threads, ScanRegisters(t) PROVE ScanInv'
  <2> DEFINE c == call[t]
             m == {a \in DOMAIN registers : a[1] = c.scan[1] /\ a[2] = c.sector}
             d == [c EXCEPT !.matches = @ \cup m]
             e == AfterSector(d)
  <2>1. c # NoCall /\ c.pc = "scan" /\ call' = [call EXCEPT ![t] = e] /\ UNCHANGED registers
    BY <1>10 DEF ScanRegisters, Become
  <2>2. c \in ScanCalls /\ m \subseteq Addr
    BY <2>1, ScanCallType DEF TypeInv, TypeOK
  <2>3. TakenTo(c, c.sector, DOMAIN registers) /\ c.before \subseteq Addr /\ c.sector \in Nat
    BY <2>1, <2>2 DEF ScanInv, Taken, ScanCalls
  <2> HIDE DEF c
  <2>4. d \in ScanCalls /\ d.matches = c.matches \cup m /\ d.before = c.before
        /\ d.scan = c.scan /\ d.sector = c.sector
    <3> HIDE DEF m
    <3> QED  BY <2>2 DEF ScanCalls
  <2>5. ASSUME NEW a \in c.before, a[1] = c.scan[1], c.scan[2] <= a[2], a[2] <= c.scan[3],
               a[2] < c.sector + 1, Full(Key(a))
        PROVE  a \in d.matches
    <3>1. a[2] \in Nat /\ a \in DOMAIN registers
      BY <2>3, KeyFacts DEF TakenTo
    <3>2. CASE a[2] = c.sector
      BY <2>4, <2>5, <3>1, <3>2
    <3>3. CASE a[2] < c.sector
      BY <2>3, <2>4, <2>5, <3>3 DEF TakenTo
    <3>4. QED  BY <2>3, <2>5, <3>1, <3>2, <3>3
  <2> HIDE DEF d
  <2>6. TakenTo(d, d.sector + 1, DOMAIN registers)
    BY <2>3, <2>4, <2>5 DEF TakenTo
  <2>7. Taken(e, DOMAIN registers')
    BY <2>1, <2>4, <2>6, AfterSectorTakes
  <2> HIDE DEF e
  <2>8. QED  BY <2>1, <2>7, TakenBecome
<1>11. CASE UNCHANGED vars
  BY <1>11 DEF vars, ScanInv
<1>12. QED
  BY <1>1, <1>2, <1>3, <1>4, <1>5, <1>6, <1>7, <1>8, <1>9, <1>10, <1>11 DEF Next

\* A scan (fabric.rs:909) finds every register of its range that was there as it began,
\* except in the sectors whose filter can never count for more than none.
THEOREM ScansMissOnlyCollidingSectors == Spec => []ScanMissesOnlyCollidingSectors
<1>1. Init => SectorFull /\ ScanInv
  BY FS_EmptySet DEF Init, SectorFull, EmptyRegistry, ScanInv
<1>2. TypeInv /\ ScanInv => ScanMissesOnlyCollidingSectors
  <2> SUFFICES ASSUME TypeInv, ScanInv, NEW t \in Threads, call[t] # NoCall,
                      call[t].pc = "scanned", NEW a \in call[t].before,
                      a[1] = call[t].scan[1],
                      call[t].scan[2] <= a[2], a[2] <= call[t].scan[3],
                      Cardinality(HashBits[AnchorOf[Key(a)]][Key(a)]) = NumHashes
               PROVE  a \in call[t].matches
    BY DEF ScanMissesOnlyCollidingSectors
  <2> DEFINE c == call[t]
  <2>1. c \in ScanCalls
    BY ScanCallType
  <2>2. a[2] \in Nat /\ c.sector \in Nat /\ c.scan[3] \in Nat
    BY <2>1, KeyFacts, DatabaseConstants DEF ScanCalls
  <2>3. c.sector >= c.scan[3] /\ TakenTo(c, c.sector + 1, DOMAIN registers)
    BY DEF ScanInv, Taken
  <2>4. a[2] < c.sector + 1
    BY <2>2, <2>3
  <2>5. QED  BY <2>3, <2>4 DEF TakenTo, Full
<1>3. QED  BY <1>1, <1>2, TypeInit, TypeStep, SectorFullStep, ScanStep, PTL DEF Spec

-----------------------------------------------------------------------------
(* Parents' filters. *)

\* A set of numbers that is not empty has a least one.
LEMMA LeastNumber ==
  ASSUME NEW S, S \subseteq Nat, S # {}
  PROVE  \E i \in S : \A j \in S : i <= j
<1>1. PICK i \in S : \A j \in S : <<j, i>> \notin OpToRel(<, Nat)
  BY WFMin, NatLessThanWellFounded, Zenon
<1>2. \A j \in S : j \in Nat /\ i \in Nat
  OBVIOUS
<1>3. \A j \in S : ~(j < i)
  BY <1>1, <1>2, Zenon DEF OpToRel
<1>4. QED  BY <1>2, <1>3

\* What the merges of a set of sectors' filters come to, by the merges of its subsets.
Merged(registry, base, merges, s) ==
  IF s = {} THEN base
  ELSE LET x == CHOOSE x \in s : TRUE IN Merge(merges[s \ {x}], registry[x])

Merges(registry, base, known, merges) ==
  merges = [s \in SUBSET known |-> Merged(registry, base, merges, s)]

\* The same, for the sets of at most n sectors.
MergesTo(registry, base, known, n, merges) ==
  \A s \in SUBSET known : Cardinality(s) <= n => merges[s] = Merged(registry, base, merges, s)

\* A subset without its chosen element is smaller by one.
LEMMA Smaller ==
  ASSUME NEW known, IsFiniteSet(known), NEW s \in SUBSET known, s # {}
  PROVE  LET x == CHOOSE x \in s : TRUE
         IN x \in s /\ s \ {x} \in SUBSET known
              /\ Cardinality(s) \in Nat \ {0} /\ Cardinality(s \ {x}) = Cardinality(s) - 1
<1> DEFINE x == CHOOSE x \in s : TRUE
<1>1. x \in s
  OBVIOUS
<1>2. IsFiniteSet(s) /\ Cardinality(s) \in Nat
  BY FS_Subset, FS_CardinalityType
<1> HIDE DEF x
<1>3. Cardinality(s \ {x}) = Cardinality(s) - 1
  BY <1>1, <1>2, FS_RemoveElement
<1>4. Cardinality(s) # 0
  BY <1>2, FS_EmptySet
<1>5. QED  BY <1>1, <1>2, <1>3, <1>4 DEF x

\* The merges of all subsets of at most n sectors exist.
LEMMA MergesToExist ==
  ASSUME NEW registry, NEW base, NEW known, IsFiniteSet(known), NEW n \in Nat
  PROVE  \E merges : MergesTo(registry, base, known, n, merges)
<1> DEFINE S == {m \in Nat : ~ \E merges : MergesTo(registry, base, known, m, merges)}
<1> SUFFICES ASSUME S # {} PROVE FALSE
  OBVIOUS
<1>1. PICK m \in S : \A j \in S : m <= j
  <2> HIDE DEF S
  <2>1. S \subseteq Nat
    BY DEF S
  <2>2. QED  BY <2>1, LeastNumber
<1>2. \A s \in SUBSET known : Cardinality(s) \in Nat /\ (Cardinality(s) = 0 <=> s = {})
  BY FS_Subset, FS_CardinalityType, FS_EmptySet
<1>3. CASE m = 0
  <2> DEFINE g == [s \in SUBSET known |-> base]
  <2>1. MergesTo(registry, base, known, 0, g)
    BY <1>2 DEF MergesTo, Merged
  <2>2. QED  BY <1>1, <1>3, <2>1
<1>4. CASE m # 0
  <2>1. m - 1 \in Nat /\ m \in Nat /\ ~(m <= m - 1)
    BY <1>4
  <2>2. PICK merges : MergesTo(registry, base, known, m - 1, merges)
    BY <1>1, <2>1
  <2> DEFINE g == [s \in SUBSET known |->
                     IF Cardinality(s) <= m - 1 THEN merges[s]
                     ELSE Merged(registry, base, merges, s)]
  <2>3. ASSUME NEW s \in SUBSET known, Cardinality(s) <= m
        PROVE  g[s] = Merged(registry, base, g, s)
    <3>1. g[s] = Merged(registry, base, merges, s)
      BY <2>2 DEF MergesTo
    <3>2. CASE s = {}
      BY <3>1, <3>2 DEF Merged
    <3>3. CASE s # {}
      <4> DEFINE x == CHOOSE x \in s : TRUE
      <4>1. s \ {x} \in SUBSET known /\ Cardinality(s \ {x}) = Cardinality(s) - 1
        BY <3>3, Smaller
      <4>2. Cardinality(s \ {x}) <= m - 1
        BY <1>2, <2>1, <2>3, <4>1
      <4>3. g[s \ {x}] = merges[s \ {x}]
        BY <4>1, <4>2
      <4> HIDE DEF g
      <4>4. QED  BY <3>1, <3>3, <4>3 DEF Merged
    <3>4. QED  BY <3>2, <3>3
  <2> HIDE DEF g
  <2>4. MergesTo(registry, base, known, m, g)
    BY <2>3 DEF MergesTo
  <2>5. QED  BY <1>1, <2>4
<1>5. QED  BY <1>3, <1>4

\* So the merges of all subsets exist, if the sectors are finitely many.
LEMMA MergesExist ==
  ASSUME NEW registry, NEW base, NEW known, IsFiniteSet(known)
  PROVE  \E merges : Merges(registry, base, known, merges)
<1>1. Cardinality(known) \in Nat
  BY FS_CardinalityType
<1>2. PICK f : MergesTo(registry, base, known, Cardinality(known), f)
  BY <1>1, MergesToExist
<1> DEFINE g == [s \in SUBSET known |-> f[s]]
<1>3. ASSUME NEW s \in SUBSET known PROVE g[s] = Merged(registry, base, g, s)
  <2>1. g[s] = Merged(registry, base, f, s)
    BY <1>2, FS_Subset DEF MergesTo
  <2>2. CASE s = {}
    BY <2>1, <2>2 DEF Merged
  <2>3. CASE s # {}
    <3>1. (CHOOSE x \in s : TRUE) \in s
      BY <2>3
    <3>2. g[s \ {CHOOSE x \in s : TRUE}] = f[s \ {CHOOSE x \in s : TRUE}]
      BY <3>1
    <3> HIDE DEF g
    <3>3. QED  BY <2>1, <2>3, <3>2 DEF Merged
  <2>4. QED  BY <2>2, <2>3
<1>4. g = [s \in SUBSET known |-> g[s]]
  OBVIOUS
<1> HIDE DEF g
<1>5. Merges(registry, base, known, g)
  BY <1>3, <1>4 DEF Merges
<1>6. QED  BY <1>5

\* A filter merged with another is one, with the bits of both.
LEMMA MergeAdds ==
  ASSUME NEW f \in SectorBloom, NEW g \in SectorBloom
  PROVE  Merge(f, g) \in SectorBloom /\ Merge(f, g).bits = f.bits \cup g.bits
<1>1. (f.generation + 1) % U8 \in 0 .. U8 - 1
  BY BloomConstants DEF SectorBloom
<1>2. QED  BY <1>1 DEF Merge, SectorBloom

\* The merges of a set of filters are a filter that holds the bits of each.
LEMMA MergesKeepBits ==
  ASSUME NEW registry, NEW base \in SectorBloom, NEW known, IsFiniteSet(known),
         \A s \in known : registry[s] \in SectorBloom,
         NEW merges, Merges(registry, base, known, merges)
  PROVE  \A s \in SUBSET known :
           /\ merges[s] \in SectorBloom
           /\ \A x \in s : registry[x].bits \subseteq merges[s].bits
<1> DEFINE Good(s) == /\ merges[s] \in SectorBloom
                      /\ \A x \in s : registry[x].bits \subseteq merges[s].bits
           Bad == {s \in SUBSET known : ~Good(s)}
           Sizes == {Cardinality(s) : s \in Bad}
<1>1. \A s \in SUBSET known : Cardinality(s) \in Nat
  BY FS_Subset, FS_CardinalityType
<1> SUFFICES ASSUME Bad # {} PROVE FALSE
  OBVIOUS
<1>2. PICK n \in Sizes : \A j \in Sizes : n <= j
  <2>1. Sizes \subseteq Nat /\ Sizes # {}
    BY <1>1
  <2> HIDE DEF Sizes
  <2>2. QED  BY <2>1, LeastNumber
<1>3. PICK s \in Bad : n = Cardinality(s)
  BY <1>2
<1>4. \A r \in SUBSET known : Cardinality(r) = Cardinality(s) - 1 => Good(r)
  <2> SUFFICES ASSUME NEW r \in SUBSET known, Cardinality(r) = Cardinality(s) - 1, ~Good(r)
               PROVE  FALSE
    OBVIOUS
  <2>1. Cardinality(r) \in Sizes
    OBVIOUS
  <2> HIDE DEF Sizes, Good, Bad
  <2>2. n <= Cardinality(s) - 1 /\ Cardinality(s) \in Nat
    BY <1>1, <1>2, <1>3, <2>1 DEF Bad
  <2>3. QED  BY <1>3, <2>2
<1>5. merges[s] = Merged(registry, base, merges, s)
  BY <1>3 DEF Merges
<1>6. CASE s = {}
  BY <1>3, <1>5, <1>6 DEF Merged
<1>7. CASE s # {}
  <2> DEFINE x == CHOOSE x \in s : TRUE
             r == s \ {x}
  <2>1. x \in s /\ x \in known /\ r \in SUBSET known /\ Cardinality(r) = Cardinality(s) - 1
    BY <1>3, <1>7, Smaller
  <2>2. merges[s] = Merge(merges[r], registry[x])
    BY <1>5, <1>7 DEF Merged
  <2> HIDE DEF x
  <2>3. Good(r)
    BY <1>4, <2>1
  <2>4. /\ merges[s].bits = merges[r].bits \cup registry[x].bits
        /\ merges[s] \in SectorBloom
    <3>1. merges[r] \in SectorBloom /\ registry[x] \in SectorBloom
      BY <2>1, <2>3
    <3> HIDE DEF r
    <3>2. QED  BY <2>2, <3>1, MergeAdds
  <2>5. \A y \in s : y \in r \/ y = x
    OBVIOUS
  <2>6. Good(s)
    BY <2>3, <2>4, <2>5
  <2>7. QED  BY <1>3, <2>6
<1>8. QED  BY <1>6, <1>7

\* A parent's filter holds the bits of its children's filters.
LEMMA AggregateKeepsBits ==
  ASSUME TypeOK, IsFiniteSet(DOMAIN sectors), NEW parent \in Sector, NEW children,
         NEW s \in children \cap DOMAIN sectors
  PROVE  sectors[s].bits \subseteq AggregateToParent(sectors, parent, children).bits
<1> DEFINE known == children \cap DOMAIN sectors
           base == NewBloom(AnchorOf[parent])
           IsMerges(f) == f = [r \in SUBSET known |->
                                 IF r = {} THEN base
                                 ELSE LET x == CHOOSE x \in r : TRUE
                                      IN Merge(f[r \ {x}], sectors[x])]
           merges == CHOOSE f : IsMerges(f)
<1>1. IsFiniteSet(known) /\ known \in SUBSET known /\ s \in known
  BY FS_Subset
<1>2. base \in SectorBloom /\ \A r \in known : sectors[r] \in SectorBloom
  BY BloomConstants DEF NewBloom, SectorBloom, TypeOK
<1>3. \A f : Merges(sectors, base, known, f) <=> IsMerges(f)
  BY DEF Merges, Merged
<1>4. AggregateToParent(sectors, parent, children) = merges[known]
  BY DEF AggregateToParent, FoldSet, MapThenFoldSet
<1>5. Merges(sectors, base, known, merges)
  <2>1. \E f : IsMerges(f)
    <3> HIDE DEF known, base, IsMerges
    <3> QED  BY <1>1, <1>3, MergesExist
  <2>2. IsMerges(merges)
    <3> HIDE DEF IsMerges
    <3> QED  BY <2>1
  <2> HIDE DEF known, base, IsMerges, merges
  <2>3. QED  BY <1>3, <2>2
<1> HIDE DEF merges, known, base
<1>6. QED  BY <1>1, <1>2, <1>4, <1>5, MergesKeepBits

\* A parent filter has the bits of every address its children listed, as their anchors hash
\* it; every parent was aggregated once at least.
ChildBitsKept ==
  \A p \in DOMAIN parents : \A a \in covered[p] :
    a \in Addr /\ HashBits[AnchorOf[Key(a)]][Key(a)] \subseteq parents[p].bits

ParentsInv == DOMAIN covered = DOMAIN parents /\ ChildBitsKept

\* Every step keeps it: a listed address has a filter, of all the bits of its sector.
LEMMA ParentsStep == RegistryInv /\ SectorFull /\ ParentsInv /\ [Next]_vars => ParentsInv'
<1> SUFFICES ASSUME RegistryInv, SectorFull, ParentsInv, [Next]_vars PROVE ParentsInv'
  OBVIOUS
<1>1. ASSUME NEW t \in Threads, NEW p \in Parents, Aggregate(t, p) PROVE ParentsInv'
  <2>1. /\ DOMAIN parents' = DOMAIN parents \cup {p[1]}
        /\ parents'[p[1]] = AggregateToParent(sectors, p[1], p[2])
        /\ \A k \in DOMAIN parents \ {p[1]} : parents'[k] = parents[k]
    BY <1>1 DEF Aggregate
  <2>2. /\ DOMAIN covered' = DOMAIN parents'
        /\ covered'[p[1]] = {a \in listed : Key(a) \in p[2]}
        /\ \A k \in DOMAIN parents \ {p[1]} : covered'[k] = covered[k]
    BY <1>1, <2>1 DEF Aggregate
  <2>3. ASSUME NEW a \in covered'[p[1]]
        PROVE  a \in Addr /\ HashBits[AnchorOf[Key(a)]][Key(a)] \subseteq parents'[p[1]].bits
    <3>1. a \in listed /\ Key(a) \in p[2] /\ p[1] \in Sector
      BY <2>2, DatabaseConstants
    <3>2. Key(a) \in DOMAIN sectors
      BY <3>1 DEF RegistryInv, ListedNeverDenied, SectorMightContain
    <3>3. sectors[Key(a)].bits = HashBits[AnchorOf[Key(a)]][Key(a)]
      BY <3>2 DEF SectorFull
    <3>4. sectors[Key(a)].bits \subseteq AggregateToParent(sectors, p[1], p[2]).bits
      BY <3>1, <3>2, AggregateKeepsBits DEF RegistryInv, TypeInv, SectorFull
    <3>5. a \in Addr
      BY <3>1 DEF RegistryInv, TypeInv, TypeOK
    <3>6. QED  BY <2>1, <3>3, <3>4, <3>5
  <2>4. QED  BY <2>1, <2>2, <2>3 DEF ParentsInv, ChildBitsKept
<1>2. CASE UNCHANGED <<parents, covered>>
  BY <1>2 DEF ParentsInv, ChildBitsKept
<1>3. CASE UNCHANGED vars
  BY <1>2, <1>3 DEF vars
<1>4. CASE \E t \in Threads :
        \/ \E r \in Records : InsertRecord(t, r)
        \/ \E e \in Entities, id \in Ids : DeleteRecord(t, e, id)
        \/ \E e \in Entities, id \in Ids, v \in Values : UpdateRecordField(t, e, id, v)
        \/ AdaptRead(t) \/ StoreRegister(t) \/ ListRegister(t)
        \/ \E a \in ComputeResults : Compute(t, a)
        \/ Clear(t)
        \/ \E s \in Scans : BeginScan(t, s)
        \/ ScanFilter(t) \/ ScanRegisters(t) \/ EndScan(t)
  <2>1. UNCHANGED <<parents, covered>>
    BY <1>4 DEF InsertRecord, DeleteRecord, UpdateRecordField, AdaptRead, StoreRegister,
                ListRegister, NextWrite, Compute, Clear, BeginScan, ScanFilter,
                ScanRegisters, EndScan
  <2>2. QED  BY <1>2, <2>1
<1>5. QED  BY <1>1, <1>3, <1>4 DEF Next

\* The filter that aggregate_to_parent (bloom.rs:257) makes contains every address listed
\* under its children that its own anchor hashes as the child's did, in whatever order and
\* however often they are merged: it denies only the others.
THEOREM ParentsDenyOnlyForeignHashes == Spec => []ParentDeniesOnlyForeignHashes
<1>1. Init => SectorFull /\ ParentsInv
  BY FS_EmptySet DEF Init, SectorFull, EmptyRegistry, ParentsInv, ChildBitsKept
<1>2. ParentsInv => ParentDeniesOnlyForeignHashes
  <2> SUFFICES ASSUME ParentsInv, NEW p \in DOMAIN parents, NEW a \in covered[p],
                      HashBits[parents[p].anchor][Key(a)] = HashBits[AnchorOf[Key(a)]][Key(a)]
               PROVE  MightContain(parents[p], a)
    BY DEF ParentDeniesOnlyForeignHashes
  <2>1. a \in Addr /\ HashBits[AnchorOf[Key(a)]][Key(a)] \subseteq parents[p].bits
    BY DEF ParentsInv, ChildBitsKept
  <2>2. SectorOf[a] = Key(a)
    BY <2>1, DatabaseConstants
  <2>3. QED  BY <2>1, <2>2 DEF MightContain, Positions
<1>3. RegistryInv => TypeInv
  BY DEF RegistryInv
<1>4. QED  BY <1>1, <1>2, <1>3, RegistryInit, RegistryStep, SectorFullStep, ParentsStep, PTL DEF Spec
=============================================================================
