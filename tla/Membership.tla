----------------------------- MODULE Membership -----------------------------
(***************************************************************************)
(* What a registry of Bloom filters promises (ARCHITECTURE.md, 2159: false *)
(* positives are possible, false negatives are not): a set that grows by   *)
(* insertions and can be cleared, and the elements it says are not in it.  *)
(* An insertion ends the denial of its element, may end that of others,    *)
(* and begins none.                                                        *)
(***************************************************************************)
CONSTANT Element

VARIABLES members, denied

Init == members = {} /\ denied = Element

Insert(e) ==
  /\ members' = members \cup {e}
  /\ denied' \subseteq denied \ {e}

Clear == members' = {} /\ denied' = Element

Next == Clear \/ \E e \in Element : Insert(e)

Spec == Init /\ [][Next]_<<members, denied>>
=============================================================================
