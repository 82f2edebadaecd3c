---------------------------- MODULE MCDatabase ------------------------------
(* Instances of Database for TLC: one entity type, two field sectors and the tombstones'. *)
(* A parent is one of its children or neither, so that anchors agree and differ. Two of   *)
(* the three hashes of sector 1 collide. Estimate is the code's table for 256 bits and 3  *)
(* hashes, as far as these filters fill.                                                  *)
EXTENDS Database

MCAddr == {1} \X (0 .. 2) \X {0, 1}
MCSector == {1} \X (0 .. 2)
MCSectorOf == [a \in MCAddr |-> <<a[1], a[2]>>]
MCAnchorOf == [s \in MCSector |-> s[2]]
MCHashBits ==
  [x \in 0 .. 2 |-> [s \in MCSector |->
     IF s[2] = 1 /\ x = 1 THEN {7, 200} ELSE {s[2] * 3 + x, 40 + s[2] * 5 + x, 90 + s[2] * 5 + x}]]
MCEstimate == [n \in 0 .. 9 |-> IF n < 3 THEN 0 ELSE n \div 3]
MCParents == {<<s, {<<1, 0>>, <<1, 1>>}>> : s \in {<<1, 1>>, <<1, 2>>}}
MCResults == {<<1, 0, 0>>}
MCRecords == {<<1, 2>>}
MCScans == {<<1, 0, 1>>}
=============================================================================
