-------------------------------- MODULE Heap --------------------------------
(***************************************************************************)
(* The heap (mem/llff.c, mem/memory.c) as operators on a heap state h.     *)
(* The nodes of the circular list lie behind each other in memory, so the  *)
(* list is its set of addresses: h.node says of the node at each address   *)
(* whether it is used, h.begin is where a search starts, h.up whether the  *)
(* heap is set up.  The node at Limit ends the memory and counts as used.  *)
(* Sizes and addresses are in units of the header of a node.  A node       *)
(* stands for the pointer behind its header, Null for NULL.                *)
(***************************************************************************)
EXTENDS Integers, Functions, FiniteSetsExt

CONSTANTS Limit,     \* the address of memheap->limit, the first node is at 0
          MinRest,   \* MDS_MEMHEAP_LLFF_MINSIZE, the least rest split off
          Null       \* NULL

Header == 1

ASSUME HeapAssumption ==
  /\ Limit \in Nat \ {0} /\ MinRest \in Nat \ {0} /\ Header <= MinRest
  /\ Null \notin 0..Limit

\* Before the first use: the memory of a static variable.
NoHeap == [node |-> <<>>, begin |-> 0, up |-> FALSE]

\* MDS_MemHeapLLFF_Setup: one free node before the limit.
Setup == [node |-> [n \in {0} |-> FALSE], begin |-> 0, up |-> TRUE]

IsUsed(h, n) == n = Limit \/ h.node[n]
NextNode(h, n) == Min({m \in DOMAIN h.node : m > n} \cup {Limit})
PrevNode(h, n) == IF \E m \in DOMAIN h.node : m < n
                  THEN Max({m \in DOMAIN h.node : m < n}) ELSE Limit

\* MemHeapLLFF_NodeCombine, MemHeapLLFF_NodeSplit
Combine(h, n) == [h EXCEPT !.node = Restrict(@, DOMAIN @ \ {NextNode(h, n)})]
Split(h, at) == [h EXCEPT !.node = [n \in DOMAIN @ \cup {at} |-> n # at /\ @[n]]]

\* MemHeapLLFF_RelistFree: the first free node from n on, else the last
\* node.  From the limit the walk goes round to the first node.
RelistFree(h, n) ==
  LET from == IF n = Limit THEN 0 ELSE n IN
  [h EXCEPT !.begin = Min({m \in DOMAIN h.node :
                            m >= from /\ (~h.node[m] \/ NextNode(h, m) = Limit)})]

\* A defect: a node freed before the beginning is not searched any more.
NodeFreeKeepsBegin(h, n) ==
  LET freed == [h EXCEPT !.node[n] = FALSE]
      right == IF IsUsed(freed, NextNode(freed, n)) THEN freed ELSE Combine(freed, n)
      prev == PrevNode(right, n)
  IN  IF IsUsed(right, prev) THEN right ELSE Combine(right, prev)

\* MemHeapLLFF_NodeFree: the node is joined with its free neighbours.
NodeFree(h, n) ==
  LET freed == [h EXCEPT !.node[n] = FALSE]
      right == IF IsUsed(freed, NextNode(freed, n)) THEN freed ELSE Combine(freed, n)
      prev == PrevNode(right, n)
      joined == ~IsUsed(right, prev)
      node == IF joined THEN prev ELSE n
  IN  [(IF joined THEN Combine(right, prev) ELSE right) EXCEPT
         !.begin = IF node < @ THEN node ELSE @]

\* The rest of the node n behind at becomes a node of its own.
GiveBack(h, n, at) == IF NextNode(h, n) - at >= MinRest THEN Split(h, at) ELSE h

\* MemHeapLLFF_NodeAlloc: the first fit from the beginning on.
NodeAlloc(h, size) ==
  LET fits == {n \in DOMAIN h.node :
                 n >= h.begin /\ ~h.node[n] /\ NextNode(h, n) - n >= Header + size}
      n == Min(fits)
  IN  IF fits = {} THEN [h |-> h, at |-> Null]
      ELSE [h |-> RelistFree(GiveBack([h EXCEPT !.node[n] = TRUE], n, n + Header + size), h.begin),
            at |-> n]

\* MemHeapLLFF_NodeRealloc: in place where the node and a free node behind
\* it are large enough, else to another node, else not at all.
NodeRealloc(h, n, size) ==
  LET next == NextNode(h, n)
      end == n + Header + size
      grows == end > next
      moves == grows /\ (IsUsed(h, next) \/ end > NextNode(h, next))
      moved == NodeAlloc(h, size)
      held == IF grows THEN Combine(h, n) ELSE h
      cut == NextNode(held, n) - end >= MinRest
      rest == IF cut THEN Split(held, end) ELSE held
      fit == IF cut /\ ~IsUsed(rest, NextNode(rest, end)) THEN Combine(rest, end) ELSE rest
  IN  IF moves
      THEN IF moved.at = Null THEN [h |-> h, at |-> Null]
           ELSE [h |-> NodeFree(moved.h, n), at |-> moved.at]
      ELSE [h |-> IF n < h.begin THEN RelistFree(fit, NextNode(fit, n)) ELSE fit,
            at |-> n]

-----------------------------------------------------------------------------
(* MDS_SysMem: the system heap, set up by its first use.  Main code calls  *)
(* it and interrupts do not, so its semaphore is free on every call.       *)

SysMemInit(h) == IF h.up THEN h ELSE Setup

\* MDS_MemHeapLLFF_Alloc refuses a size of 0 and one beyond the whole heap.
SysMemAlloc(h, size) ==
  LET i == SysMemInit(h) IN
  IF size = 0 \/ size > Limit THEN [h |-> i, at |-> Null] ELSE NodeAlloc(i, size)

\* MDS_MemHeapLLFF_Free of a pointer inside, nothing for NULL.
SysMemFree(h, n) == IF n = Null THEN SysMemInit(h) ELSE NodeFree(SysMemInit(h), n)

\* MDS_MemHeapRealloc: NULL is allocated, a size of 0 frees.
SysMemRealloc(h, n, size) ==
  LET i == SysMemInit(h) IN
  IF n = Null THEN SysMemAlloc(i, size)
  ELSE IF size = 0 THEN [h |-> NodeFree(i, n), at |-> Null]
  ELSE IF size > Limit THEN [h |-> i, at |-> Null]
  ELSE NodeRealloc(i, n, size)

-----------------------------------------------------------------------------
(* Every node accounted for                                                *)

\* The search begins at a node with no free node before it, and no two free
\* nodes lie side by side.
WellFormed(h) ==
  h.up => /\ 0 \in DOMAIN h.node /\ h.begin \in DOMAIN h.node
          /\ \A n \in DOMAIN h.node :
               ~h.node[n] => n >= h.begin /\ IsUsed(h, NextNode(h, n))

UsedNodes(h) == {n \in DOMAIN h.node : h.node[n]}
=============================================================================
