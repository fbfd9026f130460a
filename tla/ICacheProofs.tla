---------------------------- MODULE ICacheProofs ----------------------------
(***************************************************************************)
(* The instruction cache keeps the contract of its port, for every number  *)
(* of sets, tags, words and values, as long as no flush meets a running    *)
(* fill and no block that can be read shares its set with one that cannot. *)
(* Both conditions are needed (the run icache_flush breaks the contract    *)
(* without the first); that bursts are never miscounted needs neither.     *)
(***************************************************************************)
EXTENDS ICache, TLAPS

NoFaultAlias == \A a, b \in ReqAddrs : a.idx = b.idx => (Faulty(a) <=> Faulty(b))

\* Memory itself is always one of the words held since the last flush.
MemInCode == \A a \in Addr : mem[a] \in code[a]

\* Beats received so far are fresh, and so is the line that s_resp reads.
FillFresh == state = "s_wait_mem" =>
                \A o \in Offsets : o < fill_cnt =>
                   data_storage[fill_addr.idx][o] \in code[WordAt(Block(fill_addr), o)]
RespFresh == state = "s_resp" /\ ~err =>
                \A o \in Offsets :
                   data_storage[fill_addr.idx][o] \in code[WordAt(Block(fill_addr), o)]

\* The error register tells whether the block of the fill can be read.
ErrKnown ==
    /\ state = "s_fill_addr" => ~err
    /\ state = "s_wait_mem" => (err <=> (fill_cnt > 0 /\ Faulty(fill_addr)))
    /\ state = "s_resp" => (err <=> Faulty(fill_addr))

\* A set becomes valid only by a fill with a block that can be read.
LineReadable == \A i \in Index : valid_storage[i] => \E a \in ReqAddrs : a.idx = i /\ ~Faulty(a)

Inv == /\ TypeOK
       /\ BurstAligned
       /\ MemInCode
       /\ LineFresh
       /\ FillFresh
       /\ RespFresh
       /\ ErrKnown
       /\ LineReadable

-----------------------------------------------------------------------------
\* The address a beat stands for is an address, and knows its block.
LEMMA WordAtFacts ==
    ASSUME NEW t \in Tags, NEW i \in Index, NEW o \in Offsets
    PROVE  /\ WordAt(<<t, i>>, o) \in Addr
           /\ Faulty(WordAt(<<t, i>>, o)) <=> <<t, i>> \in FaultBlocks
           /\ WordAt(<<t, i>>, o).tag = t
           /\ WordAt(<<t, i>>, o).idx = i
BY DEF WordAt, Addr, Faulty, Block

\* An address is the word of its own block at its own offset.
LEMMA ReqAddrFacts ==
    ASSUME NEW a \in ReqAddrs
    PROVE  /\ a \in Addr /\ a.tag \in Tags /\ a.idx \in Index /\ a.off \in Offsets
           /\ Block(a) = <<a.tag, a.idx>> /\ Block(a) \in Tags \X Index
           /\ WordAt(Block(a), a.off) = a
BY ReqAddrsAssumption DEF Addr, Block, WordAt

\* The start state.
LEMMA InitInv == Init => Inv
<1> SUFFICES ASSUME Init PROVE Inv
  OBVIOUS
<1>1. 0 \in Offsets
  BY WordsAssumption DEF Offsets
<1>2. TypeOK
  BY <1>1 DEF Init, TypeOK
<1>3. BurstAligned
  BY DEF Init, BurstAligned, NoBurst
<1>4. MemInCode
  BY DEF Init, MemInCode
<1>5. LineFresh /\ FillFresh /\ RespFresh /\ ErrKnown /\ LineReadable
  BY DEF Init, LineFresh, FillFresh, RespFresh, ErrKnown, LineReadable
<1> QED
  BY <1>2, <1>3, <1>4, <1>5 DEF Inv

\* Without a flush the set of words an address has held only grows.
LEMMA CodeGrows ==
    ASSUME TypeOK, MemInCode, NEW flush \in BOOLEAN, MemoryEdge(flush)
    PROVE  /\ mem' \in [Addr -> Values] /\ code' \in [Addr -> SUBSET Values]
           /\ MemInCode'
           /\ ~flush => \A a \in Addr : code[a] \subseteq code'[a]
           /\ flush => \A a \in Addr : code'[a] \subseteq code[a]
<1>1. CASE flush /\ mem' = mem /\ code' = [a \in Addr |-> {mem[a]}]
  BY <1>1 DEF TypeOK, MemInCode
<1>2. CASE ~flush /\ UNCHANGED <<mem, code>>
  BY <1>2 DEF TypeOK, MemInCode
<1>3. ASSUME ~flush, NEW a \in Addr, NEW v \in Values,
             mem' = [mem EXCEPT ![a] = v], code' = [code EXCEPT ![a] = @ \cup {v}]
      PROVE  /\ mem' \in [Addr -> Values] /\ code' \in [Addr -> SUBSET Values]
             /\ MemInCode'
             /\ \A b \in Addr : code[b] \subseteq code'[b]
  BY <1>3 DEF TypeOK, MemInCode
<1> QED
  BY <1>1, <1>2, <1>3, StoreAddrsAssumption DEF MemoryEdge

-----------------------------------------------------------------------------
\* s_idle: a kill, a hit or the start of a fill.
LEMMA IdleStep ==
    ASSUME Inv, NoFaultAlias, NEW kill \in BOOLEAN, NEW flush \in BOOLEAN, NEW ready \in BOOLEAN,
           flush => kill, KilledNext(kill), MemoryEdge(flush), IdleEdge(kill, flush, ready)
    PROVE  Inv'
<1> USE DEF Inv
<1>1. /\ mem' \in [Addr -> Values] /\ code' \in [Addr -> SUBSET Values] /\ MemInCode'
      /\ ~flush => \A a \in Addr : code[a] \subseteq code'[a]
  BY CodeGrows
<1>2. 0 \in Offsets
  BY WordsAssumption DEF Offsets
<1>3. TypeOK'
  BY <1>1, <1>2 DEF TypeOK, IdleEdge, KilledNext, Flushed
<1>4. BurstAligned'
  BY DEF BurstAligned, IdleEdge, NoBurst
<1>5. /\ state = "s_idle" /\ state' # "s_wait_mem" /\ err' = FALSE
      /\ tag_storage' = tag_storage /\ data_storage' = data_storage
      /\ flush => state' = "s_idle"
      /\ \A i \in Index : valid_storage'[i] => valid_storage[i] /\ ~flush
  BY DEF IdleEdge, Flushed, TypeOK
<1>6. ASSUME NEW i \in Index, valid_storage[i], ~flush, NEW o \in Offsets
      PROVE  data_storage[i][o] \in code'[WordAt(<<tag_storage[i], i>>, o)]
  <2>1. tag_storage[i] \in Tags
    BY DEF TypeOK
  <2>2. WordAt(<<tag_storage[i], i>>, o) \in Addr
    BY <2>1, WordAtFacts
  <2> QED
    BY <1>1, <1>5, <1>6, <2>2 DEF LineFresh
<1>7. LineFresh'
  BY <1>5, <1>6 DEF LineFresh
<1>8. FillFresh'
  BY <1>5 DEF FillFresh
<1>9. state' = "s_resp" => /\ ~flush
                           /\ fill_addr' \in ReqAddrs
                           /\ valid_storage[fill_addr'.idx]
                           /\ tag_storage[fill_addr'.idx] = fill_addr'.tag
  BY DEF IdleEdge, Hit
<1>10. RespFresh'
  <2> SUFFICES ASSUME state' = "s_resp", NEW o \in Offsets
               PROVE  data_storage'[fill_addr'.idx][o] \in code'[WordAt(Block(fill_addr'), o)]
    BY DEF RespFresh, WordAt, Block
  <2>1. fill_addr'.idx \in Index /\ Block(fill_addr') = <<tag_storage[fill_addr'.idx], fill_addr'.idx>>
    BY <1>9, ReqAddrFacts
  <2> QED
    BY <1>5, <1>6, <1>9, <2>1
<1>11. ErrKnown'
  <2>1. state' = "s_resp" => ~Faulty(fill_addr')
    BY <1>9, ReqAddrFacts DEF LineReadable, NoFaultAlias
  <2> QED
    BY <1>5, <2>1 DEF ErrKnown, Faulty, Block
<1>12. LineReadable'
  BY <1>5 DEF LineReadable, Faulty, Block
<1> QED
  BY <1>1, <1>3, <1>4, <1>7, <1>8, <1>10, <1>11, <1>12

\* s_fill_addr: nothing of the lines changes, the burst opens.
LEMMA FillAddrStep ==
    ASSUME Inv, NEW kill \in BOOLEAN, NEW flush \in BOOLEAN, NEW arready \in BOOLEAN,
           KilledNext(kill), MemoryEdge(flush), FillAddrEdge(kill, flush, arready)
    PROVE  Inv'
<1> USE DEF Inv
<1>1. /\ mem' \in [Addr -> Values] /\ code' \in [Addr -> SUBSET Values] /\ MemInCode'
      /\ ~flush => \A a \in Addr : code[a] \subseteq code'[a]
  BY CodeGrows
<1>2. fill_addr \in ReqAddrs /\ Block(fill_addr) \in Tags \X Index /\ fill_cnt = 0 /\ 0 \in Offsets
  BY ReqAddrFacts, WordsAssumption DEF TypeOK, BurstAligned, FillAddrEdge, Offsets
<1>3. TypeOK'
  BY <1>1, <1>2 DEF TypeOK, FillAddrEdge, KilledNext, Flushed, Beat
<1>4. BurstAligned'
  <2>1. CASE arready
    BY <1>2, <2>1 DEF BurstAligned, FillAddrEdge, Beat, Block
  <2>2. CASE ~arready
    BY <1>2, <2>2 DEF BurstAligned, FillAddrEdge
  <2> QED
    BY <2>1, <2>2
<1>5. /\ tag_storage' = tag_storage /\ data_storage' = data_storage
      /\ state = "s_fill_addr" /\ state' \in {"s_fill_addr", "s_wait_mem"}
      /\ fill_cnt' = 0 /\ err' = err /\ ~err
      /\ \A i \in Index : valid_storage'[i] => valid_storage[i] /\ ~flush
  BY <1>2 DEF FillAddrEdge, Flushed, TypeOK, ErrKnown
<1>6. LineFresh'
  <2> SUFFICES ASSUME NEW i \in Index, valid_storage[i], ~flush, NEW o \in Offsets
               PROVE  data_storage[i][o] \in code'[WordAt(<<tag_storage[i], i>>, o)]
    BY <1>5 DEF LineFresh
  <2>1. WordAt(<<tag_storage[i], i>>, o) \in Addr
    BY WordAtFacts DEF TypeOK
  <2> QED
    BY <1>1, <1>5, <2>1 DEF LineFresh
<1>7. FillFresh' /\ RespFresh' /\ ErrKnown'
  BY <1>5 DEF FillFresh, RespFresh, ErrKnown, Offsets
<1>8. LineReadable'
  BY <1>5 DEF LineReadable, Faulty, Block
<1> QED
  BY <1>1, <1>3, <1>4, <1>6, <1>7, <1>8

\* s_resp: the lines are only read; a flush kills the request.
LEMMA RespStep ==
    ASSUME Inv, NEW kill \in BOOLEAN, NEW flush \in BOOLEAN, NEW ready \in BOOLEAN,
           flush => kill, KilledNext(kill), MemoryEdge(flush), RespEdge(kill, flush, ready)
    PROVE  Inv'
<1> USE DEF Inv
<1>1. /\ mem' \in [Addr -> Values] /\ code' \in [Addr -> SUBSET Values] /\ MemInCode'
      /\ ~flush => \A a \in Addr : code[a] \subseteq code'[a]
  BY CodeGrows
<1>2. TypeOK'
  BY <1>1 DEF TypeOK, RespEdge, KilledNext, Flushed, RespNext
<1>3. BurstAligned'
  BY DEF BurstAligned, RespEdge, RespNext
<1>4. /\ tag_storage' = tag_storage /\ data_storage' = data_storage
      /\ state = "s_resp" /\ state' \in {"s_idle", "s_resp"} /\ (flush => state' = "s_idle")
      /\ fill_addr' = fill_addr /\ err' = err
      /\ \A i \in Index : valid_storage'[i] => valid_storage[i] /\ ~flush
  BY DEF RespEdge, Flushed, TypeOK, RespNext
<1>5. LineFresh'
  <2> SUFFICES ASSUME NEW i \in Index, valid_storage[i], ~flush, NEW o \in Offsets
               PROVE  data_storage[i][o] \in code'[WordAt(<<tag_storage[i], i>>, o)]
    BY <1>4 DEF LineFresh
  <2>1. WordAt(<<tag_storage[i], i>>, o) \in Addr
    BY WordAtFacts DEF TypeOK
  <2> QED
    BY <1>1, <1>4, <2>1 DEF LineFresh
<1>6. RespFresh'
  <2> SUFFICES ASSUME ~flush, ~err, NEW o \in Offsets
               PROVE  data_storage[fill_addr.idx][o] \in code'[WordAt(Block(fill_addr), o)]
    BY <1>4 DEF RespFresh, Block
  <2>1. WordAt(Block(fill_addr), o) \in Addr
    BY WordAtFacts, ReqAddrFacts DEF TypeOK
  <2> QED
    BY <1>1, <1>4, <2>1 DEF RespFresh
<1>7. FillFresh' /\ ErrKnown' /\ LineReadable'
  BY <1>4 DEF FillFresh, ErrKnown, LineReadable, Faulty, Block
<1> QED
  BY <1>1, <1>2, <1>3, <1>5, <1>6, <1>7

\* s_wait_mem: a beat extends the fresh part of the line by one word; the last
\* one makes the whole line fresh.
LEMMA WaitMemStep ==
    ASSUME Inv, NoFaultAlias, NEW kill \in BOOLEAN, NEW flush \in BOOLEAN, NEW rvalid \in BOOLEAN,
           ~flush, KilledNext(kill), MemoryEdge(flush), WaitMemEdge(kill, flush, rvalid)
    PROVE  Inv'
<1> USE DEF Inv
<1> DEFINE blk == Block(fill_addr)
           fi == fill_addr.idx
           word == WordAt(blk, fill_cnt)
           done == rvalid /\ fill_cnt = WordsPerBlock - 1
<1>1. /\ mem' \in [Addr -> Values] /\ code' \in [Addr -> SUBSET Values] /\ MemInCode'
      /\ \A a \in Addr : code[a] \subseteq code'[a]
  BY CodeGrows
<1>2. /\ state = "s_wait_mem" /\ fill_addr \in ReqAddrs /\ fill_cnt \in Offsets
      /\ fi \in Index /\ blk = <<fill_addr.tag, fi>> /\ blk \in Tags \X Index
      /\ fill_addr.tag \in Tags
      /\ burst.block = blk /\ burst.beat = fill_cnt
      /\ WordsPerBlock \in Nat \ {0} /\ fill_cnt \in Nat /\ fill_cnt < WordsPerBlock
  BY ReqAddrFacts, WordsAssumption DEF TypeOK, BurstAligned, WaitMemEdge, Offsets
<1>3. /\ word \in Addr /\ (Faulty(word) <=> Faulty(fill_addr))
      /\ mem[word] \in code[word] /\ mem[word] \in Values
  BY <1>2, WordAtFacts DEF Faulty, MemInCode, TypeOK
<1>4. /\ fill_addr' = fill_addr
      /\ state' = WaitMemNext(done, kill)
      /\ fill_cnt' = (IF rvalid THEN FillCntNext ELSE fill_cnt)
      /\ err' = (IF rvalid THEN err \/ Faulty(fill_addr) ELSE err)
      /\ data_storage' = (IF rvalid THEN [data_storage EXCEPT ![fi][fill_cnt] = mem[word]]
                          ELSE data_storage)
      /\ tag_storage' = (IF done THEN [tag_storage EXCEPT ![fi] = fill_addr.tag] ELSE tag_storage)
      /\ valid_storage' = (IF done /\ ~(err \/ Faulty(fill_addr))
                           THEN [valid_storage EXCEPT ![fi] = TRUE] ELSE valid_storage)
      /\ burst' = (IF ~rvalid THEN burst
                   ELSE IF done THEN NoBurst ELSE Beat(blk, fill_cnt + 1))
  BY <1>2, <1>3 DEF WaitMemEdge, LastBeat, FillValid, Flushed
<1> HIDE DEF blk, fi, word, done
<1>5. /\ rvalid /\ done => FillCntNext = 0
      /\ rvalid /\ ~done => FillCntNext = fill_cnt + 1 /\ fill_cnt + 1 \in Offsets
      /\ 0 \in Offsets
  BY <1>2 DEF FillCntNext, Offsets, done
<1>6. TypeOK'
  <2>1. fill_cnt' \in Offsets
    BY <1>2, <1>4, <1>5
  <2>2. burst' \in {NoBurst} \cup [active : {TRUE}, block : Tags \X Index, beat : Offsets]
    BY <1>2, <1>4, <1>5 DEF TypeOK, done, Beat
  <2>3. data_storage' \in [Index -> [Offsets -> Values]]
    BY <1>2, <1>3, <1>4 DEF TypeOK
  <2>4. tag_storage' \in [Index -> Tags] /\ valid_storage' \in [Index -> BOOLEAN]
    BY <1>2, <1>4 DEF TypeOK
  <2>5. state' \in {"s_idle", "s_fill_addr", "s_wait_mem", "s_resp"}
    BY <1>4 DEF WaitMemNext
  <2>6. err' \in BOOLEAN /\ req_killed' \in BOOLEAN
    BY <1>4 DEF TypeOK, KilledNext, Faulty
  <2> QED
    BY <1>1, <1>2, <1>4, <2>1, <2>2, <2>3, <2>4, <2>5, <2>6 DEF TypeOK
<1>7. BurstAligned'
  <2>1. CASE ~rvalid
    BY <1>2, <1>4, <2>1 DEF BurstAligned, WaitMemNext, done, blk, Block
  <2>2. CASE rvalid /\ done
    BY <1>4, <1>5, <2>2 DEF BurstAligned, WaitMemNext, NoBurst
  <2>3. CASE rvalid /\ ~done
    <3>1. state' = "s_wait_mem" /\ burst' = Beat(blk, fill_cnt + 1) /\ fill_cnt' = fill_cnt + 1
      BY <1>4, <1>5, <2>3 DEF WaitMemNext, done
    <3>2. burst'.active /\ burst'.block = blk /\ burst'.beat = fill_cnt'
      BY <3>1 DEF Beat
    <3>3. Block(fill_addr') = blk
      BY <1>4 DEF blk, Block
    <3> QED
      BY <3>1, <3>2, <3>3 DEF BurstAligned
  <2> QED
    BY <2>1, <2>2, <2>3
\* Words of the filled line after the edge.
<1>8. ASSUME rvalid, NEW o \in Offsets, o < fill_cnt \/ o = fill_cnt
      PROVE  data_storage'[fi][o] \in code'[WordAt(blk, o)]
  <2>1. WordAt(blk, o) \in Addr
    BY <1>2, WordAtFacts
  <2>2. CASE o = fill_cnt
    <3>1. data_storage'[fi][o] = mem[word]
      BY <1>2, <1>4, <1>8, <2>2 DEF TypeOK
    <3> QED
      BY <1>1, <1>3, <2>1, <2>2, <3>1 DEF word
  <2>3. CASE o < fill_cnt
    <3>1. data_storage'[fi][o] = data_storage[fi][o]
      BY <1>2, <1>4, <1>8, <2>3 DEF TypeOK
    <3>2. data_storage[fi][o] \in code[WordAt(blk, o)]
      BY <1>2, <2>3 DEF FillFresh, fi, blk
    <3> QED
      BY <1>1, <2>1, <3>1, <3>2
  <2> QED
    BY <1>8, <2>2, <2>3
<1>9. ASSUME done, NEW o \in Offsets
      PROVE  data_storage'[fi][o] \in code'[WordAt(blk, o)]
  <2>1. rvalid /\ (o < fill_cnt \/ o = fill_cnt)
    BY <1>2, <1>9 DEF done, Offsets
  <2> QED
    BY <1>8, <2>1
<1>10. ASSUME NEW i \in Index, i # fi
       PROVE  /\ valid_storage'[i] = valid_storage[i] /\ tag_storage'[i] = tag_storage[i]
              /\ data_storage'[i] = data_storage[i]
  BY <1>2, <1>4, <1>10 DEF TypeOK
<1>11. valid_storage'[fi] /\ done => ~Faulty(fill_addr)
  <2>1. CASE valid_storage[fi]
    BY <1>2, <2>1 DEF LineReadable, NoFaultAlias, fi
  <2>2. CASE ~valid_storage[fi]
    BY <1>2, <1>4, <2>2 DEF TypeOK
  <2> QED
    BY <2>1, <2>2
<1>12. LineFresh'
  <2> SUFFICES ASSUME NEW i \in Index, valid_storage'[i], NEW o \in Offsets,
                      ~(state' = "s_wait_mem" /\ fill_addr'.idx = i)
               PROVE  data_storage'[i][o] \in code'[WordAt(<<tag_storage'[i], i>>, o)]
    BY DEF LineFresh
  <2>1. CASE i = fi
    <3>1. done
      BY <1>4, <2>1 DEF WaitMemNext, fi
    <3>2. tag_storage'[i] = fill_addr.tag
      BY <1>2, <1>4, <2>1, <3>1 DEF TypeOK
    <3> QED
      BY <1>2, <1>9, <2>1, <3>1, <3>2
  <2>2. CASE i # fi
    <3>1. WordAt(<<tag_storage[i], i>>, o) \in Addr
      BY WordAtFacts DEF TypeOK
    <3>2. data_storage[i][o] \in code[WordAt(<<tag_storage[i], i>>, o)]
      BY <1>10, <2>2 DEF LineFresh, fi
    <3> QED
      BY <1>1, <1>10, <2>2, <3>1, <3>2
  <2> QED
    BY <2>1, <2>2
<1>13. Block(fill_addr') = blk /\ fill_addr'.idx = fi
  BY <1>4 DEF blk, fi, Block
<1>14. FillFresh'
  <2> SUFFICES ASSUME state' = "s_wait_mem", NEW o \in Offsets, o < fill_cnt'
               PROVE  data_storage'[fi][o] \in code'[WordAt(blk, o)]
    BY <1>13 DEF FillFresh, WordAt
  <2>1. ~done
    BY <1>4 DEF WaitMemNext
  <2>2. CASE rvalid
    <3>1. o < fill_cnt \/ o = fill_cnt
      BY <1>2, <1>4, <1>5, <2>1, <2>2 DEF Offsets
    <3> QED
      BY <1>8, <2>2, <3>1
  <2>3. CASE ~rvalid
    <3>1. data_storage[fi][o] \in code[WordAt(blk, o)]
      BY <1>2, <1>4, <2>3 DEF FillFresh, fi, blk
    <3>2. WordAt(blk, o) \in Addr
      BY <1>2, WordAtFacts
    <3> QED
      BY <1>1, <1>4, <2>3, <3>1, <3>2
  <2> QED
    BY <2>2, <2>3
<1>15. RespFresh'
  <2> SUFFICES ASSUME state' = "s_resp", NEW o \in Offsets
               PROVE  data_storage'[fi][o] \in code'[WordAt(blk, o)]
    BY <1>13 DEF RespFresh, WordAt
  <2>1. done
    BY <1>4 DEF WaitMemNext
  <2> QED
    BY <1>9, <2>1
<1>16. ErrKnown'
  <2>1. Faulty(fill_addr') <=> Faulty(fill_addr)
    BY <1>4 DEF Faulty, Block
  <2>2. CASE ~rvalid
    BY <1>2, <1>4, <2>1, <2>2 DEF ErrKnown, WaitMemNext, done
  <2>3. CASE rvalid /\ done
    BY <1>2, <1>4, <2>1, <2>3 DEF ErrKnown, WaitMemNext
  <2>4. CASE rvalid /\ ~done
    <3>1. state' = "s_wait_mem" /\ fill_cnt' > 0
      BY <1>2, <1>4, <1>5, <2>4 DEF WaitMemNext
    <3> QED
      BY <1>2, <1>4, <2>1, <2>4, <3>1 DEF ErrKnown
  <2> QED
    BY <2>2, <2>3, <2>4
<1>17. LineReadable'
  <2> SUFFICES ASSUME NEW i \in Index, valid_storage'[i]
               PROVE  \E a \in ReqAddrs : a.idx = i /\ ~Faulty(a)
    BY DEF LineReadable, Faulty, Block
  <2>1. CASE i = fi
    BY <1>2, <1>4, <1>11, <2>1 DEF LineReadable, fi
  <2>2. CASE i # fi
    BY <1>10, <2>2 DEF LineReadable
  <2> QED
    BY <2>1, <2>2
<1> QED
  BY <1>1, <1>6, <1>7, <1>12, <1>14, <1>15, <1>16, <1>17

-----------------------------------------------------------------------------
\* The conditions of the theorems: no flush meets a running fill, and blocks
\* that share a set can all be read or all not.
Quiet == ~FlushDuringFill /\ NoFaultAlias

\* Under these conditions every edge keeps the invariant.
LEMMA InvStep == Quiet /\ Inv /\ [Next]_vars => Inv'
<1> SUFFICES ASSUME Quiet, Inv, [Next]_vars PROVE Inv'
  OBVIOUS
<1>1. CASE UNCHANGED vars
  BY <1>1 DEF vars, Inv, TypeOK, BurstAligned, MemInCode, LineFresh, FillFresh, RespFresh,
              ErrKnown, LineReadable, Block, Faulty, WordAt
<1>2. CASE Next
  <2>1. PICK kill, flush, ready, answered \in BOOLEAN : Edge(kill, flush, ready, answered)
    BY <1>2 DEF Next
  <2>2. CASE IdleEdge(kill, flush, ready)
    BY <2>1, <2>2, IdleStep DEF Edge, Quiet
  <2>3. CASE FillAddrEdge(kill, flush, answered)
    BY <2>1, <2>3, FillAddrStep DEF Edge
  <2>4. CASE WaitMemEdge(kill, flush, answered)
    <3>1. ~flush
      BY <2>1, <2>4 DEF Edge, FlushAllowed, WaitMemEdge, Quiet
    <3> QED
      BY <2>1, <2>4, <3>1, WaitMemStep DEF Edge, Quiet
  <2>5. CASE RespEdge(kill, flush, ready)
    BY <2>1, <2>5, RespStep DEF Edge
  <2> QED
    BY <2>1, <2>2, <2>3, <2>4, <2>5 DEF Edge
<1> QED
  BY <1>1, <1>2

\* The cache stays in step with memory: no line that can hit holds a word its
\* block has not held since the last flush, and no burst is lost or swallowed,
\* for every size of the cache.
THEOREM LinesStayFresh ==
    ASSUME Quiet
    PROVE  Spec => [](TypeOK /\ BurstAligned /\ LineFresh)
<1>1. Inv => TypeOK /\ BurstAligned /\ LineFresh
  BY DEF Inv
<1>2. Inv /\ [Next]_vars => Inv'
  BY InvStep
<1> QED
  BY InitInv, <1>1, <1>2, PTL DEF Spec
-----------------------------------------------------------------------------
\* The refinement.  PortState is the mapping of ICache!Port.
PortState(st, killed, addr) ==
    IF st = "s_idle" THEN [st |-> "idle"]
    ELSE IF killed THEN [st |-> "killed"]
    ELSE [st |-> "busy", addr |-> addr]

Before == PortState(state, req_killed, fill_addr)
After == PortState(state', req_killed', fill_addr')

\* The request that is at the port during an edge: the one being worked on, or
\* the one just made.
AtPort(a) == a \in Addr /\ Before \in {[st |-> "idle"], [st |-> "busy", addr |-> a]}

\* The edge ends the request, or leaves it killed, or keeps it, or answers it.
Dropped == After = [st |-> "idle"] /\ out' = NoAnswer
LeftKilled == Before # [st |-> "idle"] /\ After = [st |-> "killed"] /\ out' = NoAnswer
Kept(a) == AtPort(a) /\ After = [st |-> "busy", addr |-> a] /\ out' = NoAnswer
Answered(a, d, e) ==
    /\ AtPort(a)
    /\ After = [st |-> "idle"]
    /\ out' = [valid |-> TRUE, addr |-> a, data |-> d, error |-> e]
    /\ d \in Values /\ e \in BOOLEAN /\ (e <=> Faulty(a)) /\ (~e => d \in code[a])

Handled == \/ Dropped
           \/ LeftKilled
           \/ \E a \in Addr : Kept(a)
           \/ \E a \in Addr, d \in Values, e \in BOOLEAN : Answered(a, d, e)

\* The word of a request in its line.
LEMMA LineWord ==
    ASSUME Inv, NEW a \in ReqAddrs
    PROVE  a \in Addr /\ data_storage[a.idx][a.off] \in Values
BY ReqAddrFacts DEF Inv, TypeOK

\* A request met in s_idle is dropped, kept or answered as the port promises.
LEMMA IdleHandled ==
    ASSUME Inv, Quiet, NEW kill \in BOOLEAN, NEW flush \in BOOLEAN, NEW ready \in BOOLEAN,
           KilledNext(kill), IdleEdge(kill, flush, ready)
    PROVE  Handled
<1>1. Before = [st |-> "idle"] /\ state = "s_idle" /\ (~kill => ~req_killed')
  BY DEF IdleEdge, Before, PortState, KilledNext
<1>2. CASE kill
  BY <1>1, <1>2 DEF IdleEdge, After, PortState, Handled, Dropped
<1>3. ASSUME ~kill, NEW a \in ReqAddrs, fill_addr' = a,
             state' = IF ~Hit(a, flush) THEN "s_fill_addr"
                      ELSE IF ready /\ ~req_killed THEN "s_idle" ELSE "s_resp",
             out' = IF Hit(a, flush) /\ ready /\ ~req_killed THEN Answer(a, FALSE) ELSE NoAnswer
      PROVE  Handled
  <2>1. a \in Addr /\ AtPort(a)
    BY <1>1, LineWord DEF AtPort
  <2>2. CASE Hit(a, flush) /\ ready /\ ~req_killed
    <3>1. a.idx \in Index /\ a.off \in Offsets /\ WordAt(<<a.tag, a.idx>>, a.off) = a
      BY ReqAddrFacts
    <3>2. ~Faulty(a)
      BY <2>2, <3>1 DEF Hit, Inv, LineReadable, Quiet, NoFaultAlias
    <3>3. data_storage[a.idx][a.off] \in code[a]
      BY <1>1, <2>2, <3>1 DEF Hit, Inv, LineFresh
    <3>4. After = [st |-> "idle"]
      BY <1>3, <2>2 DEF After, PortState
    <3>5. Answered(a, data_storage[a.idx][a.off], FALSE)
      BY <1>3, <2>1, <2>2, <3>2, <3>3, <3>4, LineWord DEF Answered, Answer
    <3> QED
      BY <2>1, <3>5, LineWord DEF Handled
  <2>3. CASE ~(Hit(a, flush) /\ ready /\ ~req_killed)
    <3>1. After = [st |-> "busy", addr |-> a] /\ out' = NoAnswer
      BY <1>1, <1>3, <2>3 DEF After, PortState
    <3> QED
      BY <2>1, <3>1 DEF Handled, Kept
  <2> QED
    BY <2>2, <2>3
<1> QED
  BY <1>2, <1>3 DEF IdleEdge

\* While it fills, the cache gives no answer.
LEMMA FillHandled ==
    ASSUME Inv, NEW kill \in BOOLEAN, NEW flush \in BOOLEAN, NEW answered \in BOOLEAN,
           KilledNext(kill), FillAddrEdge(kill, flush, answered) \/ WaitMemEdge(kill, flush, answered)
    PROVE  Handled
<1>1. /\ out' = NoAnswer /\ fill_addr' = fill_addr /\ state # "s_idle"
      /\ req_killed' = (kill \/ req_killed) /\ (state' = "s_idle" => kill \/ req_killed)
  BY DEF FillAddrEdge, WaitMemEdge, WaitMemNext, KilledNext
<1>2. fill_addr \in Addr
  BY LineWord DEF Inv, TypeOK
<1>3. CASE state' = "s_idle"
  BY <1>1, <1>3 DEF Handled, Dropped, After, PortState
<1>4. CASE state' # "s_idle" /\ req_killed'
  BY <1>1, <1>4 DEF Handled, LeftKilled, Before, After, PortState
<1>5. CASE state' # "s_idle" /\ ~req_killed'
  BY <1>1, <1>2, <1>5 DEF Handled, Kept, AtPort, Before, After, PortState
<1> QED
  BY <1>3, <1>4, <1>5

\* In s_resp the request is dropped, killed, kept or answered as the port promises.
LEMMA RespHandled ==
    ASSUME Inv, NEW kill \in BOOLEAN, NEW flush \in BOOLEAN, NEW ready \in BOOLEAN,
           KilledNext(kill), RespEdge(kill, flush, ready)
    PROVE  Handled
<1>1. /\ state = "s_resp" /\ fill_addr' = fill_addr /\ req_killed' = (kill \/ req_killed)
      /\ state' = RespNext(kill, ready)
      /\ out' = IF ready /\ ~kill /\ ~req_killed THEN Answer(fill_addr, err) ELSE NoAnswer
  BY DEF RespEdge, KilledNext
<1>2. fill_addr \in ReqAddrs /\ fill_addr \in Addr
  BY LineWord DEF Inv, TypeOK
<1>3. CASE ready /\ ~kill /\ ~req_killed
  <2>1. WordAt(Block(fill_addr), fill_addr.off) = fill_addr /\ fill_addr.off \in Offsets
    BY <1>2, ReqAddrFacts
  <2>2. ~err => data_storage[fill_addr.idx][fill_addr.off] \in code[fill_addr]
    BY <1>1, <2>1 DEF Inv, RespFresh
  <2>3. AtPort(fill_addr) /\ After = [st |-> "idle"]
    BY <1>1, <1>2, <1>3 DEF AtPort, Before, After, PortState, RespNext
  <2>4. err \in BOOLEAN /\ (err <=> Faulty(fill_addr))
    BY <1>1 DEF Inv, TypeOK, ErrKnown
  <2>5. Answered(fill_addr, data_storage[fill_addr.idx][fill_addr.off], err)
    BY <1>1, <1>2, <1>3, <2>2, <2>3, <2>4, LineWord DEF Answered, Answer
  <2> QED
    BY <1>2, <2>4, <2>5, LineWord DEF Handled
<1>4. CASE kill \/ req_killed
  BY <1>1, <1>4 DEF Handled, Dropped, After, PortState, RespNext
<1>5. CASE ~ready /\ ~kill /\ ~req_killed
  BY <1>1, <1>2, <1>5 DEF Handled, Kept, AtPort, Before, After, PortState, RespNext
<1> QED
  BY <1>3, <1>4, <1>5
\* What an edge does to the port is a step of the port.
LEMMA PortStep == Quiet /\ Inv /\ Next => Port!PortNext
<1> SUFFICES ASSUME Quiet, Inv, Next PROVE Port!PortNext
  OBVIOUS
<1>1. PICK kill, flush, ready, answered \in BOOLEAN : Edge(kill, flush, ready, answered)
  BY DEF Next
<1>2. Handled
  BY <1>1, IdleHandled, FillHandled, RespHandled DEF Edge
<1>3. Port!CodeStep /\ code' \in [Addr -> SUBSET Values]
  BY <1>1, CodeGrows DEF Edge, Inv, Port!CodeStep
<1> DEFINE f == IF state = "s_idle" THEN [st |-> "idle"]
                ELSE IF req_killed THEN [st |-> "killed"]
                ELSE [st |-> "busy", addr |-> fill_addr]
<1>4. f = Before /\ f' = After
  BY DEF Before, After, PortState
<1>5. CASE Dropped \/ LeftKilled
  <2>1. Port!Kill
    BY <1>4, <1>5 DEF Dropped, LeftKilled, Port!Kill, Port!Idle, Port!Killed, Port!NoAnswer, NoAnswer
  <2> QED
    BY <1>3, <2>1 DEF Port!PortNext
<1>6. ASSUME NEW a \in Addr, AtPort(a), Port!Respond(a)
      PROVE  Port!PortNext
  <2>1. Port!Request \/ Port!Work
    BY <1>4, <1>6 DEF AtPort, Port!Request, Port!Work, Port!Idle
  <2> QED
    BY <1>3, <2>1 DEF Port!PortNext
<1>7. ASSUME NEW a \in Addr, Kept(a)
      PROVE  Port!PortNext
  <2>1. Port!Respond(a)
    BY <1>4, <1>7 DEF Kept, Port!Respond, Port!Busy, Port!NoAnswer, NoAnswer
  <2> QED
    BY <1>6, <1>7, <2>1 DEF Kept
<1>8. ASSUME NEW a \in Addr, NEW d \in Values, NEW e \in BOOLEAN, Answered(a, d, e)
      PROVE  Port!PortNext
  <2>1. out' \in IF Faulty(a) THEN Port!ErrorAnswers(a) ELSE Port!Answers(a)
    BY <1>8 DEF Answered, Port!ErrorAnswers, Port!Answers
  <2>2. Port!Respond(a)
    BY <1>4, <1>8, <2>1 DEF Answered, Port!Respond, Port!Idle
  <2> QED
    BY <1>6, <1>8, <2>2 DEF Answered
<1> QED
  BY <1>2, <1>5, <1>7, <1>8 DEF Handled

\* The cache implements the port the core relies on, for every size of the
\* cache: ICache.scala keeps the contract of FetchPort under Quiet.
THEOREM CacheImplementsPort ==
    ASSUME Quiet
    PROVE  Spec => ImplementsPort
<1>1. Init => Port!PortInit
  BY DEF Init, Port!PortInit, Port!Idle, Port!NoAnswer, NoAnswer
<1>2. Inv /\ [Next]_vars => [Port!PortNext]_(Port!port_vars)
  <2>1. UNCHANGED vars => UNCHANGED Port!port_vars
    BY DEF vars, Port!port_vars
  <2> QED
    BY <2>1, PortStep
<1>3. Inv /\ [Next]_vars => Inv'
  BY InvStep
<1> QED
  BY InitInv, <1>1, <1>2, <1>3, PTL DEF Spec, ImplementsPort, Port!PortSpec

-----------------------------------------------------------------------------
\* What a burst needs of the cache depends on neither condition: the same
\* steps without them, for a flush at any edge and any mix of blocks.
LEMMA MemoryTypes ==
    ASSUME TypeOK, NEW flush \in BOOLEAN, MemoryEdge(flush)
    PROVE  mem' \in [Addr -> Values] /\ code' \in [Addr -> SUBSET Values]
<1>1. CASE flush /\ mem' = mem /\ code' = [a \in Addr |-> {mem[a]}]
  BY <1>1 DEF TypeOK
<1>2. CASE ~flush /\ UNCHANGED <<mem, code>>
  BY <1>2 DEF TypeOK
<1>3. ASSUME NEW a \in Addr, NEW v \in Values,
             mem' = [mem EXCEPT ![a] = v], code' = [code EXCEPT ![a] = @ \cup {v}]
      PROVE  mem' \in [Addr -> Values] /\ code' \in [Addr -> SUBSET Values]
  BY <1>3 DEF TypeOK
<1> QED
  BY <1>1, <1>2, <1>3, StoreAddrsAssumption DEF MemoryEdge

\* A beat of a burst keeps the burst aligned with the line it fills.
LEMMA WaitMemKeeps ==
    ASSUME WellFormed, NEW kill \in BOOLEAN, NEW flush \in BOOLEAN, NEW rvalid \in BOOLEAN,
           KilledNext(kill), MemoryEdge(flush), WaitMemEdge(kill, flush, rvalid)
    PROVE  WellFormed'
<1> USE DEF WellFormed
<1> DEFINE blk == Block(fill_addr)
           fi == fill_addr.idx
           word == WordAt(blk, fill_cnt)
           done == rvalid /\ fill_cnt = WordsPerBlock - 1
           filled == IF FillValid(done, err \/ (rvalid /\ Faulty(word)))
                     THEN [valid_storage EXCEPT ![fi] = TRUE] ELSE valid_storage
<1>1. /\ state = "s_wait_mem" /\ fill_addr \in ReqAddrs /\ fill_cnt \in Offsets
      /\ fi \in Index /\ blk = <<fill_addr.tag, fi>> /\ blk \in Tags \X Index
      /\ fill_addr.tag \in Tags
      /\ burst.block = blk /\ burst.beat = fill_cnt
      /\ WordsPerBlock \in Nat \ {0} /\ fill_cnt \in Nat /\ fill_cnt < WordsPerBlock
  BY ReqAddrFacts, WordsAssumption DEF TypeOK, BurstAligned, WaitMemEdge, Offsets
<1>2. word \in Addr /\ mem[word] \in Values
  BY <1>1, WordAtFacts DEF TypeOK
<1>3. /\ fill_addr' = fill_addr
      /\ state' = WaitMemNext(done, kill)
      /\ fill_cnt' = (IF rvalid THEN FillCntNext ELSE fill_cnt)
      /\ err' = (IF rvalid THEN err \/ (rvalid /\ Faulty(word)) ELSE err)
      /\ data_storage' = (IF rvalid THEN [data_storage EXCEPT ![fi][fill_cnt] = mem[word]]
                          ELSE data_storage)
      /\ tag_storage' = (IF done THEN [tag_storage EXCEPT ![fi] = fill_addr.tag] ELSE tag_storage)
      /\ valid_storage' = Flushed(flush, filled)
      /\ burst' = (IF ~rvalid THEN burst
                   ELSE IF done THEN NoBurst ELSE Beat(blk, fill_cnt + 1))
  BY <1>1 DEF WaitMemEdge, LastBeat
<1>4. filled \in [Index -> BOOLEAN]
  BY <1>1 DEF TypeOK
<1> HIDE DEF blk, fi, word, done, filled
<1>5. /\ rvalid /\ done => FillCntNext = 0
      /\ rvalid /\ ~done => FillCntNext = fill_cnt + 1 /\ fill_cnt + 1 \in Offsets
      /\ 0 \in Offsets
  BY <1>1 DEF FillCntNext, Offsets, done
<1>6. TypeOK'
  <2>1. fill_cnt' \in Offsets
    BY <1>1, <1>3, <1>5
  <2>2. burst' \in {NoBurst} \cup [active : {TRUE}, block : Tags \X Index, beat : Offsets]
    BY <1>1, <1>3, <1>5 DEF TypeOK, done, Beat
  <2>3. data_storage' \in [Index -> [Offsets -> Values]]
    BY <1>1, <1>2, <1>3 DEF TypeOK
  <2>4. tag_storage' \in [Index -> Tags]
    BY <1>1, <1>3 DEF TypeOK
  <2>5. valid_storage' \in [Index -> BOOLEAN]
    BY <1>3, <1>4 DEF Flushed
  <2>6. state' \in {"s_idle", "s_fill_addr", "s_wait_mem", "s_resp"}
    BY <1>3 DEF WaitMemNext
  <2>7. err' \in BOOLEAN /\ req_killed' \in BOOLEAN
    BY <1>3 DEF TypeOK, KilledNext, Faulty
  <2>8. mem' \in [Addr -> Values] /\ code' \in [Addr -> SUBSET Values]
    BY MemoryTypes
  <2> QED
    BY <1>1, <1>3, <2>1, <2>2, <2>3, <2>4, <2>5, <2>6, <2>7, <2>8 DEF TypeOK
<1>7. BurstAligned'
  <2>1. CASE ~rvalid
    BY <1>1, <1>3, <2>1 DEF BurstAligned, WaitMemNext, done, blk, Block
  <2>2. CASE rvalid /\ done
    BY <1>3, <1>5, <2>2 DEF BurstAligned, WaitMemNext, NoBurst
  <2>3. CASE rvalid /\ ~done
    <3>1. state' = "s_wait_mem" /\ burst' = Beat(blk, fill_cnt + 1) /\ fill_cnt' = fill_cnt + 1
      BY <1>3, <1>5, <2>3 DEF WaitMemNext, done
    <3>2. burst'.active /\ burst'.block = blk /\ burst'.beat = fill_cnt'
      BY <3>1 DEF Beat
    <3>3. Block(fill_addr') = blk
      BY <1>3 DEF blk, Block
    <3> QED
      BY <3>1, <3>2, <3>3 DEF BurstAligned
  <2> QED
    BY <2>1, <2>2, <2>3
<1> QED
  BY <1>6, <1>7

\* Every edge keeps bursts, lines and requests aligned.
LEMMA WellFormedNext == WellFormed /\ [Next]_vars => WellFormed'
<1> SUFFICES ASSUME WellFormed, [Next]_vars PROVE WellFormed'
  OBVIOUS
<1> USE DEF WellFormed
<1>1. 0 \in Offsets
  BY WordsAssumption DEF Offsets
<1>2. ASSUME NEW kill \in BOOLEAN, NEW flush \in BOOLEAN, NEW ready \in BOOLEAN, NEW answered \in BOOLEAN,
             Edge(kill, flush, ready, answered)
      PROVE  WellFormed'
  <2>1. mem' \in [Addr -> Values] /\ code' \in [Addr -> SUBSET Values]
    BY <1>2, MemoryTypes DEF Edge
  <2>2. KilledNext(kill)
    BY <1>2 DEF Edge
  <2>3. CASE IdleEdge(kill, flush, ready)
    <3>1. TypeOK'
      BY <1>1, <2>1, <2>2, <2>3 DEF TypeOK, IdleEdge, KilledNext, Flushed
    <3>2. BurstAligned'
      BY <2>3 DEF BurstAligned, IdleEdge, NoBurst
    <3> QED
      BY <3>1, <3>2
  <2>4. CASE FillAddrEdge(kill, flush, answered)
    <3>1. fill_addr \in ReqAddrs /\ Block(fill_addr) \in Tags \X Index /\ fill_cnt = 0
      BY <2>4, ReqAddrFacts DEF TypeOK, BurstAligned, FillAddrEdge
    <3>2. TypeOK'
      BY <1>1, <2>1, <2>2, <2>4, <3>1 DEF TypeOK, FillAddrEdge, KilledNext, Flushed, Beat
    <3>3. CASE answered
      BY <2>4, <3>1, <3>2, <3>3 DEF BurstAligned, FillAddrEdge, Beat, Block
    <3>4. CASE ~answered
      BY <2>4, <3>1, <3>2, <3>4 DEF BurstAligned, FillAddrEdge
    <3> QED
      BY <3>3, <3>4
  <2>5. CASE WaitMemEdge(kill, flush, answered)
    BY <1>2, <2>5, WaitMemKeeps DEF Edge
  <2>6. CASE RespEdge(kill, flush, ready)
    <3>1. TypeOK'
      BY <2>1, <2>2, <2>6 DEF TypeOK, RespEdge, KilledNext, Flushed, RespNext
    <3>2. BurstAligned'
      BY <2>6 DEF BurstAligned, RespEdge, RespNext
    <3> QED
      BY <3>1, <3>2
  <2> QED
    BY <1>2, <2>3, <2>4, <2>5, <2>6 DEF Edge
<1>3. CASE UNCHANGED vars
  BY <1>3 DEF vars, TypeOK, BurstAligned, Block
<1> QED
  BY <1>2, <1>3 DEF Next

\* The cache never loses count of a burst, whatever is killed, flushed, stored
\* to or unreadable meanwhile: ICache.scala drains every burst it opened.
THEOREM BurstsStayAligned == Spec => []WellFormed
<1>1. Init => WellFormed
  BY InitInv DEF Inv, WellFormed
<1> QED
  BY <1>1, WellFormedNext, PTL DEF Spec
=============================================================================
