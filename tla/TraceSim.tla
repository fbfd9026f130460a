----------------------------- MODULE TraceSim -----------------------------
(***************************************************************************)
(* npc/tracesim: the cache and branch simulators fed with a program's      *)
(* trace, which NEMU produces in batches (ref.c) and drain_stream hands to *)
(* the simulators.                                                         *)
(***************************************************************************)
LOCAL INSTANCE Integers
LOCAL INSTANCE Sequences
LOCAL INSTANCE FiniteSets
LOCAL INSTANCE Bitwise
LOCAL INSTANCE FiniteSetsExt
LOCAL INSTANCE SequencesExt

log2_u32(n) == Max({k \in 0 .. 30 : k = 0 \/ 2^k <= n})

(***************************************************************************)
(* CacheSim.  An access is [addr, type]; idx is the victim the generator   *)
(* of the RANDOM policy would draw.                                        *)
(***************************************************************************)
Counters == {"read_hits", "read_misses", "write_hits", "write_misses", "write_backs", "write_throughs"}
CacheLine == [valid |-> FALSE, dirty |-> FALSE, tag |-> 0, timestamp |-> 0]
num_sets(p) == p.cache_size \div (p.block_size * p.set_size)
CacheSim(p) ==
    [p |-> p, clock |-> 0, n |-> [k \in Counters |-> 0],
     sets |-> [s \in 0 .. num_sets(p) - 1 |-> [w \in 1 .. p.set_size |-> CacheLine]]]
index(p, addr) == (addr \div 2^log2_u32(p.block_size)) & (num_sets(p) - 1)
tag(p, addr) == addr \div 2^(log2_u32(p.block_size) + log2_u32(num_sets(p)))
Count(n, ks) == [k \in Counters |-> IF k \in ks THEN n[k] + 1 ELSE n[k]]

\* Variant: the victim is the line with the largest timestamp.
VictimNewest(p, set, idx) ==
    LET empty == {w \in DOMAIN set : ~set[w].valid}
        last  == {w \in DOMAIN set : \A v \in DOMAIN set : set[w].timestamp >= set[v].timestamp}
    IN  IF empty # {} THEN Min(empty) ELSE IF p.repl = "RANDOM" THEN idx ELSE Min(last)
victim(p, set, idx) ==
    LET empty == {w \in DOMAIN set : ~set[w].valid}
        first == {w \in DOMAIN set : \A v \in DOMAIN set : set[w].timestamp <= set[v].timestamp}
    IN  IF empty # {} THEN Min(empty) ELSE IF p.repl = "RANDOM" THEN idx ELSE Min(first)
hit_access(c, i, w, type) ==
    LET back == c.p.write = "WRITE_BACK"
        line == [c.sets[i][w] EXCEPT !.dirty = @ \/ (type = "WRITE" /\ back),
                                     !.timestamp = IF c.p.repl = "LRU" THEN c.clock ELSE @]
    IN  [c EXCEPT !.sets[i][w] = line,
                  !.n = Count(@, IF type = "READ" THEN {"read_hits"}
                                 ELSE {"write_hits"} \cup (IF back THEN {} ELSE {"write_throughs"}))]
fill(c, i, w, t, type) ==
    LET back == c.p.write = "WRITE_BACK"
        old  == c.sets[i][w]
        out  == (IF old.valid /\ old.dirty /\ back THEN {"write_backs"} ELSE {})
                \cup (IF type = "WRITE" /\ ~back THEN {"write_throughs"} ELSE {})
    IN  [c EXCEPT !.n = Count(@, out),
                  !.sets[i][w] = [valid |-> TRUE, tag |-> t, timestamp |-> c.clock,
                                  dirty |-> type = "WRITE" /\ back]]
access(c0, addr, type, idx) ==
    LET c == [c0 EXCEPT !.clock = @ + 1]
        i == index(c.p, addr)  t == tag(c.p, addr)
        hits == {w \in DOMAIN c.sets[i] : c.sets[i][w].valid /\ c.sets[i][w].tag = t}
        miss == Count(c.n, {IF type = "READ" THEN "read_misses" ELSE "write_misses"})
    IN  CASE hits # {} -> hit_access(c, i, Min(hits), type)
          [] hits = {} /\ type = "WRITE" /\ c.p.alloc = "NO_WRITE_ALLOCATE" ->
               [c EXCEPT !.n = Count(miss, {"write_throughs"})]
          [] OTHER -> fill([c EXCEPT !.n = miss], i, victim(c.p, c.sets[i], idx), t, type)
Accesses(p, trace, idx) == FoldLeft(LAMBDA c, a : access(c, a.addr, a.type, idx), CacheSim(p), trace)
get_total_misses(c) == c.n["read_misses"] + c.n["write_misses"]
get_total_accesses(c) == c.n["read_hits"] + c.n["write_hits"] + get_total_misses(c)
\* AMAT over the common number of accesses: hits cost 1, misses 1 + penalty.
get_AMAT(c) == get_total_accesses(c) + get_total_misses(c) * c.p.penalty
\* main: the swept configurations, and the best one of a size after sorting.
sweep(sizes, blocks, ways, repls, writes, allocs) ==
    {p \in [cache_size : sizes, block_size : DOMAIN blocks, set_size : ways, penalty : {blocks[b] : b \in DOMAIN blocks},
            repl : repls, write : writes, alloc : allocs] :
        p.penalty = blocks[p.block_size] /\ p.set_size * p.block_size <= p.cache_size}
best_sim(sims, size) ==
    LET same == {c \in sims : c.p.cache_size = size}
    IN  CHOOSE c \in same : \A d \in same : get_AMAT(c) <= get_AMAT(d)

(***************************************************************************)
(* BranchSim.                                                              *)
(***************************************************************************)
BTBEntry == [valid |-> FALSE, tag |-> 0, target |-> 0, is_uncond |-> FALSE]
BranchSim(entries) == [entries |-> entries, storage |-> [i \in 0 .. entries - 1 |-> BTBEntry], total |-> 0, mispredictions |-> 0]
predict(s, pc) ==
    LET e == s.storage[(pc \div 4) & (s.entries - 1)]
        hit == e.valid /\ e.tag = pc \div 2^(log2_u32(s.entries) + 2)
    IN  [taken |-> hit /\ (e.is_uncond \/ e.target < pc), target |-> IF hit THEN e.target ELSE 0]
step(s, b) ==
    LET p == predict(s, b.pc)
        wrong == p.taken # b.taken \/ (p.taken /\ p.target # b.target)
    IN  [s EXCEPT !.total = @ + 1, !.mispredictions = @ + (IF wrong THEN 1 ELSE 0),
                  !.storage[(b.pc \div 4) & (s.entries - 1)] =
                     [valid |-> TRUE, tag |-> b.pc \div 2^(log2_u32(s.entries) + 2), target |-> b.target, is_uncond |-> b.is_uncond]]
Steps(entries, trace) == FoldLeft(step, BranchSim(entries), trace)

(***************************************************************************)
(* A program as the reference runs it: instruction k is code[k] (what      *)
(* stands behind the last one is code[n + 1]) and the state is NEMU_END    *)
(* after instruction n; cpu_exec does nothing then.  A batch has the       *)
(* numbers of the instructions recorded.                                   *)
(***************************************************************************)
RECURSIVE TraceLoop(_, _, _, _)
TraceLoop(n, pc, batch, size) ==
    LET i == Append(batch, pc)
        after == IF pc > n THEN pc ELSE pc + 1
    IN  IF Len(batch) = size THEN [pc |-> pc, batch |-> batch]
        ELSE IF after > n THEN [pc |-> after, batch |-> i]
        ELSE TraceLoop(n, after, i, size)
difftest_tracesim_step(n, pc, size) == TraceLoop(n, pc, <<>>, size)
Streams(code, batch) ==
    [pc |-> batch,
     ldstr |-> SelectSeq(batch, LAMBDA k : code[k] = "ldstr"),
     branch |-> SelectSeq(batch, LAMBDA k : code[k] = "branch")]
RECURSIVE drain_stream(_, _, _, _)
drain_stream(code, n, pc, size) ==
    LET b == difftest_tracesim_step(n, pc, size)  s == Streams(code, b.batch)
        more == IF Len(b.batch) # size THEN [pc |-> <<>>, ldstr |-> <<>>, branch |-> <<>>] ELSE drain_stream(code, n, b.pc, size)
    IN  [k \in DOMAIN s |-> s[k] \o more[k]]

(***************************************************************************)
(* References.  A set of the cache as a queue of blocks, oldest first: LRU *)
(* moves a block to the back when it is touched, FIFO does not.            *)
(***************************************************************************)
Block(p, a) == a.addr \div p.block_size
Queue0 == [q |-> <<>>, dirty |-> {}, misses |-> 0, backs |-> 0, through |-> 0]
Touch(p, ways, r, a) ==
    LET b == Block(p, a)
        in == Contains(r.q, b)
        skip == ~in /\ a.type = "WRITE" /\ p.alloc = "NO_WRITE_ALLOCATE"
        evict == ~in /\ ~skip /\ Len(r.q) = ways
        kept == IF evict THEN Tail(r.q) ELSE r.q
        gone == IF evict THEN {Head(r.q)} ELSE {}
        back == p.write = "WRITE_BACK"
    IN  [q |-> CASE skip -> r.q
                 [] in -> IF p.repl = "LRU" THEN Append(Remove(r.q, b), b) ELSE r.q
                 [] OTHER -> Append(kept, b),
         dirty |-> (r.dirty \ gone) \cup (IF a.type = "WRITE" /\ back /\ ~skip THEN {b} ELSE {}),
         misses |-> r.misses + (IF in THEN 0 ELSE 1),
         backs |-> r.backs + Cardinality(gone \cap r.dirty),
         through |-> r.through + (IF a.type = "WRITE" /\ (skip \/ ~back) THEN 1 ELSE 0)]
OfSet(p, s, trace) == SelectSeq(trace, LAMBDA a : Block(p, a) % num_sets(p) = s)
RefSets(p, trace) ==
    [s \in 0 .. num_sets(p) - 1 |-> FoldLeft(LAMBDA r, a : Touch(p, p.set_size, r, a), Queue0, OfSet(p, s, trace))]
Dirty(c) == Cardinality({sw \in (DOMAIN c.sets) \X (1 .. c.p.set_size) : c.sets[sw[1]][sw[2]].dirty})
\* Misses, write-backs, write-throughs and what is still dirty.
CacheRight(p, trace) ==
    LET c == Accesses(p, trace, 1)
        r == RefSets(p, trace)
        total(f(_)) == MapThenSumSet(LAMBDA s : f(r[s]), DOMAIN r)
    IN  p.repl # "RANDOM" =>
          /\ get_total_misses(c) = total(LAMBDA x : x.misses)
          /\ c.n["write_backs"] = total(LAMBDA x : x.backs)
          /\ c.n["write_throughs"] = total(LAMBDA x : x.through)
          /\ Dirty(c) = total(LAMBDA x : Cardinality(x.dirty))
\* No store is lost, whatever the policies: every block a store left dirty is
\* still cached dirty or was written back, at most once per store.
Written(p, trace) == {Block(p, trace[k]) : k \in {j \in DOMAIN trace : trace[j].type = "WRITE"}}
StoresKept(p, trace, idx) ==
    LET c == Accesses(p, trace, idx)
        writes == Cardinality({k \in DOMAIN trace : trace[k].type = "WRITE"})
        reached == Dirty(c) + c.n["write_backs"] + c.n["write_throughs"]
    IN  /\ reached >= Cardinality(Written(p, trace)) /\ reached <= writes
        /\ p.write = "WRITE_THROUGH" => c.n["write_throughs"] = writes
        /\ get_total_accesses(c) = Len(trace)
\* The last branch before k that shares the entry decides the prediction of k.
BranchRight(entries, trace) ==
    LET entry(b) == (b.pc \div 4) % entries
        before(k) == {j \in 1 .. k - 1 : entry(trace[j]) = entry(trace[k])}
        last(k) == trace[Max(before(k))]
        known(k) == before(k) # {} /\ last(k).pc = trace[k].pc
        wrong == {k \in DOMAIN trace :
                    LET go == known(k) /\ (last(k).is_uncond \/ last(k).target < trace[k].pc)
                    IN  \/ go # trace[k].taken
                        \/ go /\ last(k).target # trace[k].target}
    IN  Steps(entries, trace).mispredictions = Cardinality(wrong) /\ Steps(entries, trace).total = Len(trace)
\* Every instruction is recorded once and in order; when the program ends on a
\* batch boundary one more record is taken from behind the end.
DrainRight(code, n, size) ==
    LET s == drain_stream(code, n, 1, size)
        ran == [k \in 1 .. n + (IF n % size = 0 THEN 1 ELSE 0) |-> k]
    IN  s = Streams(code, ran)
===========================================================================
