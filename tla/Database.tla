------------------------------ MODULE Database ------------------------------
(***************************************************************************)
(* The database calls of binetic-core/src/fabric.rs (query_scan and the    *)
(* db_ calls) over the register store and its bloom registry, by several   *)
(* threads.                                                                *)
(*                                                                         *)
(* `write` takes the store's lock and the registry's one after the other,  *)
(* so a call is a list of writes, each of two steps; a scan takes both for *)
(* every sector. All addresses of the calls have layer 5, ring 0 and       *)
(* temporal 0 and are <<entity type, sector, shard>>. The echo that        *)
(* `write` and `inject_adapt` queue is the subject of Fabric: with the     *)
(* default policy none is delivered, and it is left out here.              *)
(***************************************************************************)
EXTENDS Bloom, Sequences

CONSTANTS
  Threads,
  Entities,       \* entity types
  Ids,            \* entity ids; the numbers of entity types are among them
  Records,        \* Record values: <<entity type, number of schema fields>>
  LastSector,     \* 0xFFFF, the sector of tombstones
  Values,         \* payloads that update writes
  Tombstone,      \* the lane that delete writes
  ComputeResults, \* result addresses of `compute`
  Scans,          \* <<entity type, first sector, last sector>> of query_scan
  Parents,        \* <<parent, children>> sector keys callers aggregate
  NoCall,         \* a thread outside the fabric
  MaxCalls        \* bound: calls in a behaviour

VARIABLES
  registers,      \* HashMap<RegisterAddress, Register>
  sectors,        \* the fabric's BloomRegistry
  parents,        \* filters that callers aggregated, by parent
  call,           \* the call each thread is in
  calls,          \* number of calls begun
  listed,         \* history: addresses whose write returned since the registry was cleared
  covered         \* history: `listed` when each parent was aggregated

vars == <<registers, sectors, parents, call, calls, listed, covered>>

Key(a) == <<a[1], a[2]>>

\* A lane is the set of its bits that are one.
Zero == {}
Xor(x, y) == (x \ y) \cup (y \ x)

ASSUME DatabaseConstants ==
  /\ Addr = Entities \X (0 .. LastSector) \X Ids
  /\ Sector = Entities \X (0 .. LastSector)
  /\ \A a \in Addr : SectorOf[a] = Key(a)
  /\ Entities \subseteq Ids
  /\ LastSector \in Nat \ {0} /\ MaxCalls \in Nat
  /\ Values \subseteq SUBSET Nat /\ Tombstone \subseteq Nat
  /\ Records \subseteq Entities \X (1 .. LastSector)
  /\ ComputeResults \subseteq Addr
  /\ Scans \subseteq Entities \X (0 .. LastSector) \X (0 .. LastSector)
  /\ Parents \subseteq Sector \X SUBSET Sector

-----------------------------------------------------------------------------
(* Addresses of the calls. *)

\* Mutant of UpdateAddress: the address insert_record stored field 0 at.
UpdateAddressOfInsert(e, id) == <<e, 0, e>>

\* Insert puts the entity type where update and delete put the entity id.
InsertAddress(e, field) == <<e, field, e>>
UpdateAddress(e, id) == <<e, 0, id>>
DeleteAddress(e, id) == <<e, LastSector, id>>

-----------------------------------------------------------------------------
(* Calls that write. *)

Init ==
  /\ registers = [a \in {} |-> Zero]
  /\ sectors = EmptyRegistry /\ parents = EmptyRegistry
  /\ call = [t \in Threads |-> NoCall]
  /\ calls = 0
  /\ listed = {}
  /\ covered = [p \in {} |-> {}]

\* Thread t is outside the fabric and enters call c.
Begin(t, c) ==
  /\ call[t] = NoCall
  /\ calls < MaxCalls
  /\ calls' = calls + 1
  /\ call' = [call EXCEPT ![t] = c]

Become(t, c) == call' = [call EXCEPT ![t] = c]

\* A call with the writes still to do.
Writing(writes) == [pc |-> "store", writes |-> writes]

\* Every field of the schema is written as an empty lane, whatever the record holds.
InsertRecord(t, record) ==
  /\ Begin(t, Writing([i \in 1 .. record[2] |-> <<InsertAddress(record[1], i - 1), Zero>>]))
  /\ UNCHANGED <<registers, sectors, parents, listed, covered>>

DeleteRecord(t, e, id) ==
  /\ Begin(t, Writing(<< <<DeleteAddress(e, id), Tombstone>> >>))
  /\ UNCHANGED <<registers, sectors, parents, listed, covered>>

\* db_update_record_field: `read`, whose None is "Record not found".
UpdateRecordField(t, e, id, value) ==
  /\ Begin(t, LET a == UpdateAddress(e, id)
              IN IF a \in DOMAIN registers
                   THEN [pc |-> "adapt", entity |-> e, id |-> id, address |-> a,
                         delta |-> Xor(registers[a], value)]
                   ELSE NoCall)
  /\ UNCHANGED <<registers, sectors, parents, listed, covered>>

\* inject_adapt: the second read of the register, before its write.
AdaptRead(t) ==
  /\ call[t] # NoCall /\ call[t].pc = "adapt"
  /\ LET a == call[t].address
     IN Become(t, Writing(<< <<a, Xor(registers[a], call[t].delta)>> >>))
  /\ UNCHANGED <<registers, sectors, parents, calls, listed, covered>>

\* Mutant of StoreRegister: a register stored before is not listed again.
StoreKnownUnlisted(t) ==
  /\ call[t] # NoCall /\ call[t].pc = "store"
  /\ LET w == Head(call[t].writes)
     IN /\ registers' = [a \in DOMAIN registers \cup {w[1]} |->
                           IF a = w[1] THEN w[2] ELSE registers[a]]
        /\ IF w[1] \in DOMAIN registers
             THEN /\ Become(t, IF Len(call[t].writes) = 1
                                 THEN NoCall ELSE Writing(Tail(call[t].writes)))
                  /\ listed' = listed \cup {w[1]}
             ELSE Become(t, [call[t] EXCEPT !.pc = "list"]) /\ UNCHANGED listed
  /\ UNCHANGED <<sectors, parents, calls, covered>>

StoreRegister(t) ==
  /\ call[t] # NoCall /\ call[t].pc = "store"
  /\ LET w == Head(call[t].writes)
     IN registers' = [a \in DOMAIN registers \cup {w[1]} |->
                        IF a = w[1] THEN w[2] ELSE registers[a]]
  /\ Become(t, [call[t] EXCEPT !.pc = "list"])
  /\ UNCHANGED <<sectors, parents, calls, listed, covered>>

\* The end of the write `w`: its address is listed and the next write begins.
NextWrite(t) ==
  /\ call[t] # NoCall /\ call[t].pc = "list"
  /\ listed' = listed \cup {Head(call[t].writes)[1]}
  /\ Become(t, IF Len(call[t].writes) = 1 THEN NoCall ELSE Writing(Tail(call[t].writes)))
  /\ UNCHANGED <<registers, parents, calls, covered>>

ListRegister(t) ==
  /\ NextWrite(t)
  /\ LET a == Head(call[t].writes)[1]
     IN sectors' = InsertIntoSector(sectors, Key(a), a)

\* compute stores its result and lists it nowhere.
Compute(t, a) ==
  /\ Begin(t, NoCall)
  /\ registers' = [b \in DOMAIN registers \cup {a} |-> IF b = a THEN Zero ELSE registers[b]]
  /\ UNCHANGED <<sectors, parents, listed, covered>>

\* BloomRegistry::clear, and aggregate_to_parent, through Fabric::bloom_registry.
Clear(t) ==
  /\ Begin(t, NoCall)
  /\ sectors' = EmptyRegistry
  /\ listed' = {}
  /\ UNCHANGED <<registers, parents, covered>>

Aggregate(t, p) ==
  /\ Begin(t, NoCall)
  /\ parents' = [k \in DOMAIN parents \cup {p[1]} |->
                   IF k = p[1] THEN AggregateToParent(sectors, p[1], p[2]) ELSE parents[k]]
  /\ covered' = [k \in DOMAIN parents' |->
                   IF k = p[1] THEN {a \in listed : Key(a) \in p[2]} ELSE covered[k]]
  /\ UNCHANGED <<registers, sectors, listed>>

-----------------------------------------------------------------------------
(* query_scan, with a predicate that every register satisfies. *)

BeginScan(t, scan) ==
  /\ Begin(t, [pc |-> "filter", scan |-> scan, sector |-> scan[2],
               matches |-> {}, before |-> DOMAIN registers])
  /\ UNCHANGED <<registers, sectors, parents, listed, covered>>

AfterSector(c) ==
  IF c.sector < c.scan[3] THEN [c EXCEPT !.pc = "filter", !.sector = @ + 1]
                          ELSE [c EXCEPT !.pc = "scanned"]

\* A sector whose filter is taken for empty is passed over; one without a filter is not.
Skips(c) ==
  LET k == <<c.scan[1], c.sector>>
  IN k \in DOMAIN sectors /\ EstimatedCount(sectors[k]) = 0

\* Mutant of ScanFilter: a sector without a filter is passed over too.
ScanFilterUnlisted(t) ==
  /\ call[t] # NoCall /\ call[t].pc = "filter"
  /\ Become(t, IF Skips(call[t]) \/ <<call[t].scan[1], call[t].sector>> \notin DOMAIN sectors
                 THEN AfterSector(call[t]) ELSE [call[t] EXCEPT !.pc = "scan"])
  /\ UNCHANGED <<registers, sectors, parents, calls, listed, covered>>

ScanFilter(t) ==
  /\ call[t] # NoCall /\ call[t].pc = "filter"
  /\ Become(t, IF Skips(call[t]) THEN AfterSector(call[t]) ELSE [call[t] EXCEPT !.pc = "scan"])
  /\ UNCHANGED <<registers, sectors, parents, calls, listed, covered>>

ScanRegisters(t) ==
  /\ call[t] # NoCall /\ call[t].pc = "scan"
  /\ LET c == call[t]
     IN Become(t, AfterSector([c EXCEPT !.matches = @ \cup
                    {a \in DOMAIN registers : a[1] = c.scan[1] /\ a[2] = c.sector}]))
  /\ UNCHANGED <<registers, sectors, parents, calls, listed, covered>>

EndScan(t) ==
  /\ call[t] # NoCall /\ call[t].pc = "scanned"
  /\ Become(t, NoCall)
  /\ UNCHANGED <<registers, sectors, parents, calls, listed, covered>>

Next == \E t \in Threads :
  \/ \E r \in Records : InsertRecord(t, r)
  \/ \E e \in Entities, id \in Ids : DeleteRecord(t, e, id)
  \/ \E e \in Entities, id \in Ids, v \in Values : UpdateRecordField(t, e, id, v)
  \/ AdaptRead(t) \/ StoreRegister(t) \/ ListRegister(t)
  \/ \E a \in ComputeResults : Compute(t, a)
  \/ Clear(t)
  \/ \E p \in Parents : Aggregate(t, p)
  \/ \E s \in Scans : BeginScan(t, s)
  \/ ScanFilter(t) \/ ScanRegisters(t) \/ EndScan(t)

Spec == Init /\ [][Next]_vars

-----------------------------------------------------------------------------
(* Properties. *)

Lanes == SUBSET Nat

CallType ==
  [pc : {"store", "list"}, writes : Seq(Addr \X Lanes) \ {<<>>}]
    \cup [pc : {"adapt"}, entity : Entities, id : Ids, address : Addr, delta : Lanes]
    \cup [pc : {"filter", "scan", "scanned"}, scan : Scans, sector : 0 .. LastSector,
          matches : SUBSET Addr, before : SUBSET Addr]

\* Registers, filters and calls stay within their types; of the parents' filters
\* ParentDeniesOnlyForeignHashes says what matters.
TypeOK ==
  /\ registers \in [DOMAIN registers -> Lanes] /\ DOMAIN registers \subseteq Addr
  /\ DOMAIN sectors \subseteq Sector
  /\ \A s \in DOMAIN sectors : sectors[s] \in SectorBloom /\ sectors[s].anchor = AnchorOf[s]
  /\ call = [t \in Threads |-> call[t]]
  /\ \A t \in Threads : call[t] = NoCall \/ call[t] \in CallType
  /\ calls \in 0 .. MaxCalls
  /\ listed \subseteq DOMAIN registers

\* No false negatives: once a write returned, the filter of its sector never denies its
\* address, whatever other threads insert, until the registry is cleared
\* (ARCHITECTURE.md:2159; results of compute, fabric.rs:586, are not listed).
ListedNeverDenied == \A a \in listed : SectorMightContain(sectors, Key(a), a)

\* The registry is a set in the sense of Membership: no call of any thread makes a filter
\* deny what it did not deny before, except a clear.
Denied == {a \in Addr : ~SectorMightContain(sectors, Key(a), a)}
Listing == INSTANCE Membership WITH Element <- Addr, members <- listed, denied <- Denied
RegistryImplementsMembership == Listing!Spec

\* A scan returns every register of its range that was there when it began, whatever
\* runs beside it, except in a sector whose address hashes to fewer than NumHashes
\* different bits: its filter's count truncates to zero (bloom.rs:164, fabric.rs:915).
ScanMissesOnlyCollidingSectors ==
  \A t \in Threads : call[t] # NoCall /\ call[t].pc = "scanned" =>
    \A a \in call[t].before :
      /\ a[1] = call[t].scan[1]
      /\ call[t].scan[2] <= a[2] /\ a[2] <= call[t].scan[3]
      /\ Cardinality(HashBits[AnchorOf[Key(a)]][Key(a)]) = NumHashes
      => a \in call[t].matches

\* A filter is what `rebuild` makes of the addresses listed in its sector: insertions in any
\* order add those bits and no other.
FilterIsRebuild ==
  \A s \in DOMAIN sectors :
    Rebuild(sectors[s], {a \in listed : Key(a) = s}).bits = sectors[s].bits

\* A filter merged from others contains their addresses (bloom.rs:19, 256; test_bloom_merge,
\* bloom.rs:314-327) only as far as its own anchor hashes them as theirs did: a parent denies
\* an address listed under a child only if the parent's anchor gives it other positions.
ParentDeniesOnlyForeignHashes ==
  \A p \in DOMAIN parents : \A a \in covered[p] :
    \/ MightContain(parents[p], a)
    \/ HashBits[parents[p].anchor][Key(a)] # HashBits[AnchorOf[Key(a)]][Key(a)]

\* db_update_record_field finds a record that db_insert_record stored exactly if the entity id
\* it is given is the entity type (fabric.rs:958, 982): test_fabric_db_update's id 0
\* (fabric.rs:1292-1307) is "Record not found", unless compute put a result at its address.
UpdateFindsInsertOnlyByType ==
  [][\A t \in Threads, e \in Entities, id \in Ids :
       /\ \E v \in Values : UpdateRecordField(t, e, id, v)
       /\ InsertAddress(e, 0) \in DOMAIN registers
       => \/ id = e /\ call'[t].pc = "adapt"
          \/ id # e /\ (call'[t] = NoCall \/ UpdateAddress(e, id) \in ComputeResults)]_vars
=============================================================================
