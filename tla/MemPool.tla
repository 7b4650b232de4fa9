------------------------------ MODULE MemPool ------------------------------
(***************************************************************************)
(* Memory pools (ipc/mempool.c) as operators on the pool p: the head lfree *)
(* of its free list and the header of every block, which is the next free  *)
(* block or, while the block is in use, the pool.  Blocks are numbered     *)
(* from 1; block 1 lies at memBuff.                                        *)
(***************************************************************************)
EXTENDS MdsKernel

CONSTANTS PoolQ,    \* queueWait of the pool
          BlkNums   \* the blocks of the pool

ASSUME MemPoolAssumption == BlkNums \in Nat \ {0, 1}

PoolBlock == 1..BlkNums
Pool == 0   \* the pool itself, where a header points to it
MemBuff == 1

\* A defect: the list starts at the last block, so that it is a circle.
ListInitCircle ==
  [lfree |-> BlkNums, header |-> [b \in PoolBlock |-> IF b = MemBuff THEN BlkNums ELSE b - 1]]

\* MDS_MemPoolListInit: the list starts at memBuff, which is the first block
\* as well, so that the first block is its own successor.
PoolListInit ==
  [lfree |-> BlkNums, header |-> [b \in PoolBlock |-> IF b = MemBuff THEN MemBuff ELSE b - 1]]

NewPool(life) ==
  [life |-> life, lfree |-> PoolListInit.lfree, header |-> PoolListInit.header,
   held |-> [b \in PoolBlock |-> 0]]   \* how often each block is handed out

\* MDS_MemPoolInit of a pool in use is refused with MDS_EAGAIN.
MemPoolInit(p) == IF p.life = "none" THEN NewPool("static") ELSE p

\* MDS_MemPoolCreate gives a pool only with its blocks.
MemPoolCreate(p, enough) == IF enough THEN NewPool("created") ELSE p

\* MDS_MemPoolDeInit, MDS_MemPoolDestroy: the first waiter is told.
MemPoolDeInit(k, p) == [k |-> WaitQueueDrain(k, PoolQ), p |-> [p EXCEPT !.life = "none"]]

MemPoolDestroy(k, p) ==
  [k |-> WaitQueueDrain(k, PoolQ),
   p |-> IF p.life = "created" THEN [p EXCEPT !.life = "none"] ELSE p]

\* MDS_MemPoolAlloc.  Nothing makes lfree NULL, so nobody waits.  When the
\* header of a used block became the head of the list, the pool itself is
\* handed out for a block.
MemPoolAlloc(k, p) ==
  IF p.lfree = Pool THEN [k |-> [k EXCEPT !.fault = "wild_block"], p |-> p]
  ELSE [k |-> k, p |-> [p EXCEPT !.lfree = p.header[p.lfree],
                                 !.header[p.lfree] = Pool,
                                 !.held[p.lfree] = @ + 1]]

\* MDS_MemPoolFree finds the pool in the header of the block; the header of
\* a block that was freed before may be another block.
MemPoolFree(k, p, b) ==
  IF p.header[b] # Pool
  THEN [k |-> [k EXCEPT !.fault = "wild_block"], p |-> p, check |-> FALSE]
  ELSE [k |-> WaitQueueResume(k, PoolQ),
        p |-> [p EXCEPT !.header[b] = p.lfree, !.lfree = b, !.held[b] = @ - 1],
        check |-> WaitQueuePeek(k, PoolQ) # NoThread]

\* The blocks on the free list: those in every set of blocks that has its
\* head and, with a block, the block its header points to.
FreeChain(p) ==
  LET Closed(S) == ({p.lfree} \cup {p.header[b] : b \in S}) \ {Pool} \subseteq S
  IN  {b \in PoolBlock : \A S \in SUBSET PoolBlock : Closed(S) => b \in S}
=============================================================================
