------------------------------ MODULE MCICache ------------------------------
(***************************************************************************)
(* Instances of ICache.                                                    *)
(***************************************************************************)
EXTENDS ICache

NoFaultBlocks == {}
OneSet == {0}
AllAddrs == Addr

\* Set 0 serves two blocks that evict each other, one of which is stored to;
\* set 1 only ever sees a block that cannot be read, whose words are fixed.
TwoSets == {0, 1}
FaultInSetOne == {<<1, 1>>}
AddrsWithoutAlias == {a \in Addr : a.idx = 1 => a.tag = 1 /\ a.off = 0}
StoredBlock == {a \in Addr : a.idx = 0 /\ a.tag = 0}
QuietSetOne == /\ \A a \in Addr : a.idx = 1 => mem[a] = "v1"
               /\ \A o \in Offsets : data_storage[1][o] = "v1"
               /\ tag_storage[1] = 1
=============================================================================
