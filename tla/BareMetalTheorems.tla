------------------------- MODULE BareMetalTheorems -------------------------
(***************************************************************************)
(* Proofs about the build without a scheduler: no acquisition outlasts its *)
(* timeout, every used node of the heap has an owner, MDS_DeviceIsBusy is  *)
(* exact, and drivers serve what is mounted.                               *)
(***************************************************************************)
EXTENDS BareMetal, DListTheorems

-----------------------------------------------------------------------------
(* The inductive invariant: types                                          *)

Address == 0..(Limit - 1)
Pointer == Address \cup Static \cup {Null}
Places == {"idle", "poll", "updating", "opening", "opened", "owned", "closing", "closed",
           "flagged", "retire", "forcing", "reopening"}

Struct ==
  [kind : {"none", "module", "adaptr", "periph"}, driver : BOOLEAN,
   handle : Address \cup {Null}, owner : Pointer, mount : Pointer, open : BOOLEAN,
   mutex : [life : BOOLEAN, value : {0, 1}], hw : Pointer]

\* The memory of a heap is a map of its nodes, the first one at 0.
Nodes(f) ==
  /\ f \in [DOMAIN f -> BOOLEAN]
  /\ DOMAIN f \subseteq Address
  /\ 0 \in DOMAIN f

HeapRecord(h) == h = [node |-> h.node, begin |-> h.begin, up |-> h.up]

HeapType(h) ==
  /\ HeapRecord(h)
  /\ h.up \in BOOLEAN
  /\ IF h.up THEN Nodes(h.node) /\ h.begin \in DOMAIN h.node ELSE h = NoHeap

\* The heap, the registry and the devices t.
Typed(t) ==
  /\ t = [h |-> t.h, linked |-> t.linked, mem |-> t.mem]
  /\ HeapType(t.h)
  /\ Static \subseteq DOMAIN t.mem /\ DOMAIN t.mem \subseteq Address \cup Static
  /\ t.mem \in [DOMAIN t.mem -> Struct]
  /\ t.linked \in Seq(DOMAIN t.mem)

MainType ==
  /\ main = [at |-> main.at, on |-> main.on, of |-> main.of, timeout |-> main.timeout,
             start |-> main.start, retire |-> main.retire]
  /\ main.at \in Places
  /\ main.at \notin {"idle", "poll"} => main.on \in OfKind(s, "periph")

-----------------------------------------------------------------------------
(* The inductive invariant: the parts of the properties                    *)

\* What the last round of the loop saw was within the timeout, and the tick
\* count is the start of the wait and the time waited, across the wrap.
LoopInv ==
  main.at = "poll" => LET seen == IF ticked THEN waited - 1 ELSE waited IN
    /\ ticked \in BOOLEAN /\ waited \in Nat /\ seen \in Nat
    /\ main.timeout \in 0..Forever /\ main.start \in 0..Forever
    /\ now = (main.start + waited) % TickMod
    /\ seen = 0 \/ seen < main.timeout

\* HeapExact of t: the used nodes are those main code holds, the created
\* devices and the handles.
Handles(mem) == {mem[o].handle : o \in DOMAIN mem}
Exact(t, H) ==
  /\ WellFormed(t.h)
  /\ UsedNodes(t.h) = (H \cup (DOMAIN t.mem \ Static) \cup Handles(t.mem)) \ {Null}

\* No node of the heap has two owners.
Apart(t, H) ==
  /\ H \subseteq Address /\ H \cap DOMAIN t.mem = {}
  /\ \A o \in DOMAIN t.mem : t.mem[o].handle \notin H \cup DOMAIN t.mem
  /\ \A o, p \in DOMAIN t.mem :
       t.mem[o].handle = t.mem[p].handle => o = p \/ t.mem[o].handle = Null

\* A structure is in use while its device is linked, and only the created
\* modules and adaptrs have a handle.
Registered(t) ==
  /\ Distinct(t.linked)
  /\ \A o \in DOMAIN t.mem :
       /\ Contains(t.linked, o) <=> t.mem[o].kind # "none"
       /\ o \in Static \/ t.mem[o].kind = "periph" => t.mem[o].handle = Null
       /\ o \notin Static => Contains(t.linked, o)

\* A periph is behind its adaptr, with nothing but periphs of it between.
Behind(t) ==
  \A i \in 1..Len(t.linked) :
    t.mem[t.linked[i]].kind = "periph" =>
      /\ Contains(t.linked, t.mem[t.linked[i]].mount)
      /\ t.mem[t.mem[t.linked[i]].mount].kind = "adaptr"
      /\ i > 1
      /\ \/ t.linked[i - 1] = t.mem[t.linked[i]].mount
         \/ /\ t.mem[t.linked[i - 1]].kind = "periph"
            /\ t.mem[t.linked[i - 1]].mount = t.mem[t.linked[i]].mount

Consistent(t, H) == Typed(t) /\ Exact(t, H) /\ Apart(t, H) /\ Registered(t) /\ Behind(t)

\* Every structure o serves a periph that is mounted on it, if any.
Mounts(t, p, o) == p \in OfKind(t, "periph") /\ t.mem[p].mount = o
Serving(t) ==
  \A o \in DOMAIN t.mem :
    /\ t.mem[o].hw = Null \/ Mounts(t, t.mem[o].hw, o)
    /\ t.mem[o].kind = "adaptr" /\ t.mem[o].open => Mounts(t, t.mem[o].owner, o)

\* What main code relies on between its accesses to an adaptr: the owner it
\* read is mounted there, a periph owns what it says is open, and the periph it
\* gives up comes back neither to the driver nor as the owner.
CallInv ==
  /\ main.at = "updating" => Mounted = main.of
  /\ main.at = "owned" => Mounts(s, s.mem[Mounted].owner, Mounted)
  /\ main.at \in {"closed", "flagged", "retire"} /\ main.retire =>
       s.mem[Mounted].hw # main.on
  /\ main.at = "retire" =>
       main.retire /\ (s.mem[Mounted].open => s.mem[Mounted].owner # main.on)

BareMetalInv ==
  /\ Consistent(s, held) /\ Serving(s)
  /\ MainType /\ LoopInv /\ CallInv


-----------------------------------------------------------------------------
(* No acquisition outlasts its timeout                                     *)

\* One turn below zero.
LEMMA ModulusBelow ==
  ASSUME NEW m \in Nat, m > 1, NEW t \in Nat, t < m
  PROVE  (t - m) % m = t
OBVIOUS

\* The time waited is read off the tick count, also when that has wrapped.
LEMMA ClockReads ==
  ASSUME NEW start \in 0..Forever, NEW t \in 0..Forever
  PROVE  (((start + t) % TickMod) - start) % TickMod = t
<1>1. TickMod \in Nat /\ TickMod > 1 /\ start \in Nat /\ t \in Nat
      /\ start < TickMod /\ t < TickMod
  BY NoSysAssumption DEF Forever
<1>2. CASE start + t < TickMod
  <2>1. (start + t) % TickMod = start + t
    BY <1>1, <1>2
  <2>2. start + t - start = t /\ t % TickMod = t
    BY <1>1
  <2> QED BY <2>1, <2>2
<1>3. CASE start + t >= TickMod
  <2>1. (start + t) % TickMod = start + t - TickMod
    BY <1>1, <1>3
  <2>2. ((start + t) % TickMod) - start = t - TickMod
    BY <1>1, <2>1
  <2>3. (t - TickMod) % TickMod = t
    BY <1>1, ModulusBelow
  <2> QED BY <2>2, <2>3
<1> QED BY <1>1, <1>2, <1>3

\* The next tick counts one more.
LEMMA ClockTicks ==
  ASSUME NEW start \in 0..Forever, NEW t \in 0..(Forever - 1)
  PROVE  ClockIncTickCount((start + t) % TickMod, 1) = (start + (t + 1)) % TickMod
<1>1. /\ TickMod \in Nat /\ TickMod > 1 /\ start \in Nat /\ t \in Nat
      /\ start < TickMod /\ t + 1 < TickMod
      /\ start + (t + 1) = start + t + 1
  BY NoSysAssumption DEF Forever
<1>2. CASE start + t + 1 < TickMod
  <2>1. (start + t) % TickMod = start + t /\ (start + t + 1) % TickMod = start + t + 1
    BY <1>1, <1>2
  <2> QED BY <1>1, <2>1 DEF ClockIncTickCount
<1>3. CASE start + t + 1 = TickMod
  <2>1. (start + t) % TickMod = start + t
    BY <1>1, <1>3
  <2> QED BY <1>1, <2>1 DEF ClockIncTickCount
<1>4. CASE start + t + 1 > TickMod
  <2>1. (start + t) % TickMod = start + t - TickMod
    BY <1>1, <1>4
  <2>2. (start + t + 1) % TickMod = start + t + 1 - TickMod
    BY <1>1, <1>4
  <2>3. (start + t - TickMod + 1) % TickMod = start + t - TickMod + 1
    BY <1>1, <1>4
  <2>4. start + t - TickMod + 1 = start + t + 1 - TickMod
    BY <1>1
  <2> QED BY <1>1, <2>1, <2>2, <2>3, <2>4 DEF ClockIncTickCount
<1> QED BY <1>1, <1>2, <1>3, <1>4

\* The greater of two numbers, as Max tells it.
LEMMA MaxOfTwo ==
  ASSUME NEW a \in Int, NEW b \in Int
  PROVE  Max({a, b}) \in {a, b} /\ Max({a, b}) >= a /\ Max({a, b}) >= b
<1>1. \E x \in {a, b} : \A y \in {a, b} : x >= y
  <2>1. CASE a >= b
    BY <2>1
  <2>2. CASE b >= a
    BY <2>2
  <2> QED BY <2>1, <2>2
<1>2. Max({a, b}) \in {a, b} /\ \A y \in {a, b} : Max({a, b}) >= y
  BY <1>1 DEF Max
<1> QED BY <1>2

\* What is at most 1 or at most b is at most the greater of the two.
LEMMA AtMostTheGreater ==
  ASSUME NEW b \in Int, NEW t \in Int, t <= 1 \/ t <= b
  PROVE  t <= Max({1, b})
<1>1. Max({1, b}) \in {1, b} /\ Max({1, b}) >= 1 /\ Max({1, b}) >= b
  BY 1 \in Int, MaxOfTwo
<1>2. PICK m : m = Max({1, b})
  OBVIOUS
<1>3. m \in {1, b} /\ m >= 1 /\ m >= b
  BY <1>1, <1>2
<1> QED BY <1>2, <1>3

\* A round that does not end the loop has seen less than the timeout.
LEMMA RoundInTime ==
  ASSUME LoopInv, main.at = "poll", NEW taken, Round(taken), MainType
  PROVE  LoopInv'
<1>1. CASE taken \/ GivesUp(now, main.start, main.timeout)
  BY <1>1 DEF Round, LoopInv, None
<1>2. CASE ~(taken \/ GivesUp(now, main.start, main.timeout))
  <2>1. main' = main /\ now' = now /\ waited' = waited /\ ticked' = FALSE
    BY <1>2 DEF Round
  <2>2. /\ waited \in Nat /\ main.timeout \in 0..Forever /\ main.start \in 0..Forever
        /\ now = (main.start + waited) % TickMod
        /\ ticked \in BOOLEAN
        /\ (IF ticked THEN waited - 1 ELSE waited) \in Nat
        /\ \/ (IF ticked THEN waited - 1 ELSE waited) = 0
           \/ (IF ticked THEN waited - 1 ELSE waited) < main.timeout
    BY DEF LoopInv
  <2>3. waited \in 0..Forever
    BY <2>2, NoSysAssumption DEF Forever
  <2>4. (now - main.start) % TickMod = waited
    BY <2>2, <2>3, ClockReads
  <2>5. ~(waited >= main.timeout)
    BY <1>2, <2>4 DEF GivesUp
  <2>6. waited < main.timeout
    BY <2>2, <2>5, NoSysAssumption DEF Forever
  <2> QED BY <2>1, <2>2, <2>6 DEF LoopInv
<1> QED BY <1>1, <1>2

LEMMA TickInTime ==
  ASSUME LoopInv, Tick
  PROVE  LoopInv'
<1>1. /\ main.at = "poll" /\ main' = main /\ ~ticked
      /\ now' = ClockIncTickCount(now, 1) /\ waited' = waited + 1 /\ ticked' = TRUE
  BY DEF Tick, Runs
<1>2. /\ waited \in Nat /\ main.timeout \in 0..Forever /\ main.start \in 0..Forever
      /\ now = (main.start + waited) % TickMod
      /\ waited = 0 \/ waited < main.timeout
  BY <1>1 DEF LoopInv
<1>3. now' = (main.start + (waited + 1)) % TickMod
  <2>1. waited \in 0..(Forever - 1)
    BY <1>2, NoSysAssumption DEF Forever
  <2> QED BY <1>1, <1>2, <2>1, ClockTicks
<1>4. waited + 1 \in Nat /\ waited + 1 - 1 = waited
  BY <1>2
<1> QED BY <1>1, <1>2, <1>3, <1>4 DEF LoopInv

-----------------------------------------------------------------------------
(* The list of the heap                                                    *)

LEMMA LeastAddress ==
  ASSUME NEW S \in SUBSET Nat, S # {}
  PROVE  Min(S) \in S /\ \A n \in S : Min(S) <= n
BY LeastNatural DEF Min

LEMMA GreatestAddress ==
  ASSUME NEW S \in SUBSET Address, S # {}
  PROVE  Max(S) \in S /\ \A n \in S : n <= Max(S)
<1> DEFINE T == {Limit - n : n \in S}
<1>1. Limit \in Nat /\ \A n \in S : n \in Nat /\ Limit - n \in Nat
  BY HeapAssumption DEF Address
<1>2. T \in SUBSET Nat /\ T # {}
  BY <1>1
<1>3. PICK t \in T : \A u \in T : t <= u
  <2> HIDE DEF T
  <2> QED BY <1>2, LeastNatural
<1>4. PICK m \in S : t = Limit - m
  OBVIOUS
<1>5. \A n \in S : m >= n
  <2>1. \A n \in S : t <= Limit - n
    BY <1>3
  <2> QED BY <1>1, <1>4, <2>1
<1>6. Max(S) \in S /\ \A n \in S : Max(S) >= n
  BY <1>5 DEF Max
<1> QED BY <1>1, <1>6

\* b is the first node behind a, the limit when there is none.
Follows(f, a, b) ==
  /\ b \in DOMAIN f \cup {Limit}
  /\ a < b
  /\ \A m \in DOMAIN f : a < m => b <= m

\* No two free nodes lie side by side.
Joined(f) == \A a, b \in DOMAIN f : Follows(f, a, b) => f[a] \/ f[b]

\* A heap in use, in the words of Follows.
Sound(h) ==
  /\ h.up /\ HeapType(h)
  /\ \A n \in DOMAIN h.node : ~h.node[n] => n >= h.begin
  /\ Joined(h.node)

LEMMA NextFollows ==
  ASSUME NEW h, Nodes(h.node), NEW n \in Address
  PROVE  Follows(h.node, n, NextNode(h, n))
<1> DEFINE S == {m \in DOMAIN h.node : m > n} \cup {Limit}
<1>1. Limit \in Nat /\ n \in Nat /\ n < Limit /\ DOMAIN h.node \subseteq Nat
  BY HeapAssumption DEF Nodes, Address
<1>2. S \in SUBSET Nat /\ S # {}
  BY <1>1
<1>3. Min(S) \in S /\ \A m \in S : Min(S) <= m
  <2> HIDE DEF S
  <2> QED BY <1>2, LeastAddress
<1> QED BY <1>1, <1>3 DEF Follows, NextNode

LEMMA PrevPrecedes ==
  ASSUME NEW h, Nodes(h.node), NEW n \in DOMAIN h.node
  PROVE  \/ /\ PrevNode(h, n) = Limit
            /\ \A m \in DOMAIN h.node : n <= m
         \/ /\ PrevNode(h, n) \in DOMAIN h.node
            /\ Follows(h.node, PrevNode(h, n), n)
<1> DEFINE S == {m \in DOMAIN h.node : m < n}
<1>1. DOMAIN h.node \subseteq Address /\ DOMAIN h.node \subseteq Nat
  BY HeapAssumption DEF Nodes, Address
<1>2. CASE S = {}
  <2>1. PrevNode(h, n) = Limit
    BY <1>2 DEF PrevNode
  <2> QED BY <1>1, <1>2, <2>1
<1>3. CASE S # {}
  <2>1. S \in SUBSET Address
    BY <1>1
  <2>2. Max(S) \in S /\ \A m \in S : m <= Max(S)
    <3> HIDE DEF S
    <3> QED BY <1>3, <2>1, GreatestAddress
  <2>3. PrevNode(h, n) = Max(S)
    BY <1>3 DEF PrevNode
  <2>4. \A m \in DOMAIN h.node : Max(S) < m => n <= m
    <3>1. ASSUME NEW m \in DOMAIN h.node, Max(S) < m, m < n PROVE FALSE
      BY <1>1, <2>2, <3>1
    <3> QED BY <1>1, <3>1
  <2> QED BY <1>1, <2>2, <2>3, <2>4 DEF Follows
<1> QED BY <1>2, <1>3

\* Sound is WellFormed: NextNode is the one node that follows.
LEMMA SoundIsWellFormed ==
  ASSUME NEW h, HeapType(h), h.up
  PROVE  Sound(h) <=> WellFormed(h)
<1>1. Nodes(h.node) /\ h.begin \in DOMAIN h.node /\ 0 \in DOMAIN h.node
      /\ DOMAIN h.node \subseteq Address /\ Limit \notin DOMAIN h.node
      /\ DOMAIN h.node \subseteq Nat /\ Limit \in Nat
  BY HeapAssumption DEF HeapType, Nodes, Address
<1>2. \A n \in DOMAIN h.node : Follows(h.node, n, NextNode(h, n))
  BY <1>1, NextFollows
<1>3. \A a, b \in DOMAIN h.node : Follows(h.node, a, b) => b = NextNode(h, a)
  <2>1. ASSUME NEW a \in DOMAIN h.node, NEW b \in DOMAIN h.node, Follows(h.node, a, b)
        PROVE  b = NextNode(h, a)
    <3>1. PICK c : c = NextNode(h, a)
      OBVIOUS
    <3>2. Follows(h.node, a, c)
      BY <1>2, <3>1
    <3>3. c \in Nat /\ b \in Nat
      BY <1>1, <3>2 DEF Follows
    <3>4. c <= b
      BY <2>1, <3>2 DEF Follows
    <3>5. c \in DOMAIN h.node
      BY <1>1, <3>2, <3>3, <3>4 DEF Follows, Address
    <3>6. b <= c
      BY <2>1, <3>2, <3>5 DEF Follows
    <3> QED BY <3>1, <3>3, <3>4, <3>6
  <2> QED BY <2>1
<1>4. Joined(h.node) <=>
        \A n \in DOMAIN h.node : ~h.node[n] => IsUsed(h, NextNode(h, n))
  <2>1. ASSUME Joined(h.node), NEW n \in DOMAIN h.node, ~h.node[n]
        PROVE  IsUsed(h, NextNode(h, n))
    <3>1. NextNode(h, n) \in DOMAIN h.node \cup {Limit}
      BY <1>2 DEF Follows
    <3> QED BY <1>2, <2>1, <3>1 DEF Joined, IsUsed
  <2>2. ASSUME \A n \in DOMAIN h.node : ~h.node[n] => IsUsed(h, NextNode(h, n)),
               NEW a \in DOMAIN h.node, NEW b \in DOMAIN h.node, Follows(h.node, a, b)
        PROVE  h.node[a] \/ h.node[b]
    BY <1>1, <1>3, <2>2 DEF IsUsed
  <2> QED BY <2>1, <2>2 DEF Joined
<1>5. Sound(h) <=> /\ \A n \in DOMAIN h.node : ~h.node[n] => n >= h.begin
                   /\ Joined(h.node)
  BY DEF Sound
<1>6. WellFormed(h) <=> /\ \A n \in DOMAIN h.node : ~h.node[n] => n >= h.begin
                        /\ \A n \in DOMAIN h.node :
                             ~h.node[n] => IsUsed(h, NextNode(h, n))
  BY <1>1 DEF WellFormed
<1> QED BY <1>4, <1>5, <1>6

-----------------------------------------------------------------------------
(* The operations on the nodes                                             *)

\* The map g is f without the node x, or with a free node x more.
Without(f, g, x) ==
  /\ Nodes(g) /\ DOMAIN g = DOMAIN f \ {x}
  /\ \A m \in DOMAIN g : g[m] = f[m]
With(f, g, x) ==
  /\ Nodes(g) /\ DOMAIN g = DOMAIN f \cup {x} /\ g[x] = FALSE
  /\ \A m \in DOMAIN f : g[m] = f[m]

\* The heaps g and h differ at most in their nodes.
SameHead(h, g) == HeapRecord(g) /\ g.begin = h.begin /\ g.up = h.up

LEMMA CombineProperties ==
  ASSUME NEW h, HeapRecord(h), Nodes(h.node), NEW n \in DOMAIN h.node,
         NextNode(h, n) # Limit, NEW g, g = Combine(h, n)
  PROVE  SameHead(h, g) /\ Without(h.node, g.node, NextNode(h, n))
<1>1. PICK x : x = NextNode(h, n)
  OBVIOUS
<1>2. DOMAIN h.node \subseteq Nat /\ 0 \in DOMAIN h.node /\ n \in Address
  BY HeapAssumption DEF Nodes, Address
<1>3. x \in DOMAIN h.node /\ n < x
  BY <1>1, <1>2, NextFollows DEF Follows
<1>4. x # 0
  BY <1>2, <1>3
<1>5. PICK f : f = [m \in DOMAIN h.node \ {x} |-> h.node[m]]
  OBVIOUS
<1>6. g = [node |-> f, begin |-> h.begin, up |-> h.up]
  BY <1>1, <1>5 DEF Combine, Restrict, HeapRecord
<1>7. Without(h.node, f, x)
  BY <1>2, <1>4, <1>5 DEF Without, Nodes
<1> QED BY <1>1, <1>6, <1>7 DEF SameHead, HeapRecord

LEMMA SplitProperties ==
  ASSUME NEW h, HeapRecord(h), Nodes(h.node), NEW at \in Address \ DOMAIN h.node,
         NEW g, g = Split(h, at)
  PROVE  SameHead(h, g) /\ With(h.node, g.node, at)
<1>1. PICK f : f = [n \in DOMAIN h.node \cup {at} |-> n # at /\ h.node[n]]
  OBVIOUS
<1>2. g = [node |-> f, begin |-> h.begin, up |-> h.up]
  BY <1>1 DEF Split, HeapRecord
<1>3. With(h.node, f, at)
  BY <1>1 DEF With, Nodes
<1> QED BY <1>2, <1>3 DEF SameHead, HeapRecord

\* The new beginning is a node, and no free node lies before it.
LEMMA RelistProperties ==
  ASSUME NEW h, HeapRecord(h), h.up, Nodes(h.node), Joined(h.node),
         NEW n \in DOMAIN h.node \cup {Limit},
         \A m \in DOMAIN h.node : ~h.node[m] => n <= m \/ n = Limit,
         NEW g, g = RelistFree(h, n)
  PROVE  Sound(g) /\ g.node = h.node
<1>1. PICK from : from = IF n = Limit THEN 0 ELSE n
  OBVIOUS
<1> DEFINE S == {m \in DOMAIN h.node :
                   m >= from /\ (~h.node[m] \/ NextNode(h, m) = Limit)}
<1>2. /\ DOMAIN h.node \subseteq Nat /\ DOMAIN h.node \subseteq Address
      /\ 0 \in DOMAIN h.node /\ Limit \in Nat
      /\ \A m \in DOMAIN h.node : m < Limit
      /\ Limit \notin DOMAIN h.node
  BY HeapAssumption DEF Nodes, Address
<1>3. from \in DOMAIN h.node
  BY <1>1, <1>2
<1>4. S # {}
  <2>1. PICK z : z = Max(DOMAIN h.node)
    OBVIOUS
  <2>2. z \in DOMAIN h.node /\ \A m \in DOMAIN h.node : m <= z
    BY <1>2, <2>1, GreatestAddress
  <2>3. Follows(h.node, z, NextNode(h, z))
    BY <1>2, <2>2, NextFollows
  <2>4. NextNode(h, z) = Limit
    <3>1. ASSUME NextNode(h, z) \in DOMAIN h.node PROVE FALSE
      BY <1>2, <2>2, <2>3, <3>1 DEF Follows
    <3> QED BY <2>3, <3>1 DEF Follows
  <2>5. z \in S
    BY <1>2, <1>3, <2>2, <2>4
  <2> QED BY <2>5
<1>5. Min(S) \in S /\ \A m \in S : Min(S) <= m
  <2>1. S \in SUBSET Nat
    BY <1>2
  <2> HIDE DEF S
  <2> QED BY <1>4, <2>1, LeastAddress
<1>6. g = [node |-> h.node, begin |-> Min(S), up |-> h.up]
  BY <1>1 DEF RelistFree, HeapRecord
<1>7. \A m \in DOMAIN h.node : ~h.node[m] => m >= Min(S)
  <2>1. ASSUME NEW m \in DOMAIN h.node, ~h.node[m] PROVE m >= Min(S)
    <3>1. m >= from
      BY <1>1, <1>2, <2>1
    <3>2. m \in S
      BY <2>1, <3>1
    <3>3. Min(S) \in Nat /\ Min(S) <= m
      <4>1. Min(S) <= m /\ Min(S) \in S
        <5> HIDE DEF S
        <5> QED BY <1>5, <3>2
      <4> QED BY <1>2, <4>1
    <3> QED BY <1>2, <3>3
  <2> QED BY <2>1
<1>8. Min(S) \in DOMAIN h.node
  BY <1>5
<1> HIDE DEF S
<1> QED BY <1>6, <1>7, <1>8 DEF Sound, HeapType, HeapRecord

\* A free node more, behind a used one, with no free node behind it.
LEMMA JoinedWith ==
  ASSUME NEW f, NEW g, Nodes(f), Joined(f), NEW n \in DOMAIN f, f[n], NEW x, NEW next,
         With(f, g, x), Follows(f, n, next), n < x, x < next, x \in Address,
         next \in DOMAIN f => f[next]
  PROVE  Joined(g)
<1> SUFFICES ASSUME NEW a \in DOMAIN g, NEW b \in DOMAIN g, Follows(g, a, b)
             PROVE  g[a] \/ g[b]
  BY DEF Joined
<1>1. /\ DOMAIN g \subseteq Nat /\ Limit \in Nat /\ next \in Nat /\ x \notin DOMAIN f
      /\ DOMAIN f \subseteq DOMAIN g /\ DOMAIN g = DOMAIN f \cup {x} /\ n \in Nat /\ x \in Nat
      /\ next \in DOMAIN f \cup {Limit} /\ \A m \in DOMAIN g : m < Limit
  <2>1. DOMAIN g \subseteq Nat /\ Limit \in Nat /\ x \in Nat /\ \A m \in DOMAIN g : m < Limit
    BY HeapAssumption DEF With, Nodes, Address
  <2>2. next \in DOMAIN f \cup {Limit} /\ DOMAIN g = DOMAIN f \cup {x}
    BY DEF Follows, With
  <2>3. ASSUME x \in DOMAIN f PROVE FALSE
    <3>1. next <= x
      BY <2>3 DEF Follows
    <3> QED BY <2>1, <2>2, <3>1
  <2> QED BY <2>1, <2>2, <2>3
<1>2. CASE a # x /\ b # x
  <2>1. a \in DOMAIN f /\ b \in DOMAIN f
    BY <1>1, <1>2
  <2>2. Follows(f, a, b)
    BY <1>1, <2>1 DEF Follows
  <2> QED BY <2>1, <2>2 DEF Joined, With
<1>3. CASE a = x
  <2>1. a < b /\ b \in DOMAIN f
    BY <1>1, <1>3 DEF Follows
  <2>2. next <= b
    BY <1>1, <1>3, <2>1 DEF Follows
  <2>3. next \in DOMAIN f
    BY <1>1, <2>1, <2>2
  <2>4. b <= next
    BY <1>1, <1>3, <2>3 DEF Follows
  <2>5. b = next
    BY <1>1, <2>2, <2>4
  <2> QED BY <2>3, <2>5 DEF With
<1>4. CASE b = x /\ a # x
  <2>1. a \in DOMAIN f /\ a < x
    BY <1>1, <1>4 DEF Follows
  <2>2. ~(a < n)
    <3>1. ASSUME a < n PROVE FALSE
      BY <1>1, <1>4, <3>1 DEF Follows
    <3> QED BY <3>1
  <2>3. ~(n < a)
    <3>1. ASSUME n < a PROVE FALSE
      <4>1. next <= a
        BY <2>1, <3>1 DEF Follows
      <4> QED BY <1>1, <2>1, <4>1
    <3> QED BY <3>1
  <2>4. a = n
    BY <1>1, <2>1, <2>2, <2>3
  <2> QED BY <2>4 DEF With
<1> QED BY <1>2, <1>3, <1>4

\* What an allocation returns was no used node before, and is one now.
Allocates(h, r) ==
  /\ Sound(r.h)
  /\ r.at \in Address \ UsedNodes(h)
  /\ UsedNodes(r.h) = UsedNodes(h) \cup {r.at}

LEMMA NodeAllocProperties ==
  ASSUME NEW h, Sound(h), NEW size \in Nat, NEW r, r = NodeAlloc(h, size)
  PROVE  r = [h |-> h, at |-> Null] \/ Allocates(h, r)
<1> DEFINE fits == {n \in DOMAIN h.node :
                      n >= h.begin /\ ~h.node[n] /\ NextNode(h, n) - n >= Header + size}
<1>1. CASE fits = {}
  BY <1>1 DEF NodeAlloc
<1>2. CASE fits # {}
  <2>1. PICK n : n = Min(fits)
    OBVIOUS
  <2>2. /\ HeapRecord(h) /\ Nodes(h.node) /\ h.begin \in DOMAIN h.node /\ h.up
        /\ \A m \in DOMAIN h.node : ~h.node[m] => m >= h.begin
        /\ Joined(h.node)
        /\ DOMAIN h.node \subseteq Nat /\ DOMAIN h.node \subseteq Address
        /\ Limit \in Nat /\ Limit \notin DOMAIN h.node /\ \A m \in Address : m < Limit
    BY HeapAssumption DEF Sound, HeapType, Nodes, Address
  <2>3. n \in fits
    <3>1. fits \in SUBSET Nat
      BY <2>2
    <3> HIDE DEF fits
    <3> QED BY <1>2, <2>1, <3>1, LeastAddress
  <2>4. n \in DOMAIN h.node /\ ~h.node[n] /\ n \in Nat /\ n \in Address /\ h.begin <= n
    BY <2>2, <2>3
  <2>5. PICK next : next = NextNode(h, n)
    OBVIOUS
  <2>6. PICK at : at = n + Header + size
    OBVIOUS
  <2>7. PICK u : u = [h EXCEPT !.node[n] = TRUE]
    OBVIOUS
  <2>8. PICK k : k = GiveBack(u, n, at)
    OBVIOUS
  <2>9. r = [h |-> RelistFree(k, h.begin), at |-> n]
    <3> DEFINE m == Min(fits)
    <3>1. NodeAlloc(h, size) =
            [h |-> RelistFree(GiveBack([h EXCEPT !.node[m] = TRUE], m, m + Header + size),
                              h.begin),
             at |-> m]
      BY <1>2 DEF NodeAlloc
    <3>2. m = n
      BY <2>1
    <3> HIDE DEF m, fits
    <3> QED BY <2>6, <2>7, <2>8, <3>1, <3>2
  <2> HIDE DEF fits
  <2>10. /\ SameHead(h, u) /\ Nodes(u.node) /\ DOMAIN u.node = DOMAIN h.node
         /\ u.node[n] = TRUE /\ \A m \in DOMAIN h.node \ {n} : u.node[m] = h.node[m]
    <3>1. u = [node |-> [h.node EXCEPT ![n] = TRUE], begin |-> h.begin, up |-> h.up]
      BY <2>2, <2>7 DEF HeapRecord
    <3>2. PICK f : f = [h.node EXCEPT ![n] = TRUE]
      OBVIOUS
    <3>3. /\ Nodes(f) /\ DOMAIN f = DOMAIN h.node /\ f[n] = TRUE
          /\ \A m \in DOMAIN h.node \ {n} : f[m] = h.node[m]
      BY <2>2, <2>4, <3>2 DEF Nodes
    <3> QED BY <3>1, <3>2, <3>3 DEF SameHead, HeapRecord
  <2>11. Joined(u.node) /\ NextNode(u, n) = next
    <3>1. \A a, b : Follows(u.node, a, b) <=> Follows(h.node, a, b)
      BY <2>10 DEF Follows
    <3>2. \A m \in DOMAIN h.node : h.node[m] => u.node[m]
      BY <2>4, <2>10
    <3>3. Joined(u.node)
      BY <2>2, <2>10, <3>1, <3>2 DEF Joined
    <3> QED BY <2>5, <2>10, <3>3 DEF NextNode
  <2>12. Follows(h.node, n, next)
    BY <2>2, <2>4, <2>5, NextFollows
  <2>13. /\ Follows(u.node, n, next)
         /\ next \in DOMAIN u.node => u.node[next]
         /\ next \in Nat /\ next <= Limit
    <3>1. next \in DOMAIN h.node \cup {Limit} /\ n < next
      BY <2>12 DEF Follows
    <3>2. ASSUME next \in DOMAIN h.node PROVE u.node[next]
      <4>1. h.node[next] /\ next # n
        BY <2>2, <2>4, <2>12, <3>1, <3>2 DEF Joined
      <4> QED BY <2>10, <3>2, <4>1
    <3> QED BY <2>2, <2>10, <2>12, <3>1, <3>2 DEF Follows
  <2>14. /\ SameHead(h, k) /\ Nodes(k.node) /\ Joined(k.node)
         /\ DOMAIN h.node \subseteq DOMAIN k.node
         /\ k.node[n] /\ \A m \in DOMAIN h.node \ {n} : k.node[m] = h.node[m]
         /\ \A m \in DOMAIN k.node \ DOMAIN h.node : m > n /\ ~k.node[m]
    <3>1. CASE next - at >= MinRest
      <4>1. k = Split(u, at)
        BY <2>8, <2>11, <3>1 DEF GiveBack
      <4>2. n < at /\ at < next /\ at \in Nat
        BY <2>4, <2>6, <2>13, <3>1, HeapAssumption DEF Header
      <4>3. at \in Address
        BY <2>2, <2>13, <4>2 DEF Address
      <4>4. ASSUME at \in DOMAIN u.node PROVE FALSE
        <5>1. next <= at
          BY <2>13, <4>2, <4>4 DEF Follows
        <5> QED BY <2>13, <4>2, <5>1
      <4>5. SameHead(u, k) /\ With(u.node, k.node, at)
        <5>1. HeapRecord(u) /\ at \in Address \ DOMAIN u.node
          BY <2>10, <4>3, <4>4 DEF SameHead
        <5> QED BY <2>10, <4>1, <5>1, SplitProperties
      <4>6. Joined(k.node)
        BY <2>4, <2>10, <2>11, <2>13, <4>2, <4>3, <4>5, JoinedWith
      <4> QED BY <2>4, <2>10, <4>2, <4>5, <4>6 DEF With, SameHead
    <3>2. CASE ~(next - at >= MinRest)
      <4>1. k = u
        BY <2>8, <2>11, <3>2 DEF GiveBack
      <4> QED BY <2>4, <2>10, <2>11, <4>1
    <3> QED BY <3>1, <3>2
  <2>15. \A m \in DOMAIN k.node : ~k.node[m] => h.begin <= m
    <3>1. ASSUME NEW m \in DOMAIN k.node, ~k.node[m] PROVE h.begin <= m
      <4>1. CASE m \in DOMAIN h.node
        BY <2>2, <2>14, <3>1, <4>1
      <4>2. CASE m \notin DOMAIN h.node
        <5>1. m > n /\ m \in Nat /\ h.begin \in Nat
          BY <2>2, <2>14, <4>2 DEF Nodes, Address
        <5> QED BY <2>4, <5>1
      <4> QED BY <4>1, <4>2
    <3> QED BY <3>1
  <2>16. PICK g : g = RelistFree(k, h.begin)
    OBVIOUS
  <2>17. Sound(g) /\ g.node = k.node
    <3>1. /\ HeapRecord(k) /\ k.up /\ Nodes(k.node) /\ Joined(k.node)
          /\ h.begin \in DOMAIN k.node \cup {Limit}
          /\ \A m \in DOMAIN k.node : ~k.node[m] => h.begin <= m \/ h.begin = Limit
      BY <2>2, <2>14, <2>15 DEF SameHead
    <3> QED BY <2>16, <3>1, RelistProperties
  <2>18. UsedNodes(g) = UsedNodes(h) \cup {n}
    BY <2>4, <2>14, <2>17 DEF UsedNodes
  <2>19. n \notin UsedNodes(h)
    BY <2>4 DEF UsedNodes
  <2>20. r.h = g /\ r.at = n
    BY <2>9, <2>16
  <2> QED BY <2>4, <2>17, <2>18, <2>19, <2>20 DEF Allocates
<1> QED BY <1>1, <1>2

\* What follows a node when the one behind p is gone.
LEMMA FollowsWithout ==
  ASSUME NEW f, NEW g, Nodes(f), NEW x, NEW p \in DOMAIN g, Without(f, g, x), Follows(f, p, x),
         x \in DOMAIN f, NEW a \in DOMAIN g, NEW b, Follows(g, a, b)
  PROVE  IF a = p THEN Follows(f, x, b) ELSE Follows(f, a, b)
<1>1. /\ DOMAIN f \subseteq Nat /\ Limit \in Nat /\ \A m \in DOMAIN f : m < Limit
      /\ DOMAIN g = DOMAIN f \ {x} /\ b \in DOMAIN g \cup {Limit} /\ b # x /\ p < x
  BY HeapAssumption DEF Nodes, Address, Without, Follows
<1>2. CASE a = p
  <2>1. x < b
    <3>1. CASE b = Limit
      BY <1>1, <3>1
    <3>2. CASE b \in DOMAIN f
      <4>1. p < b
        BY <1>2 DEF Follows
      <4>2. x <= b
        BY <3>2, <4>1 DEF Follows
      <4> QED BY <1>1, <3>2, <4>2
    <3> QED BY <1>1, <3>1, <3>2
  <2>2. ASSUME NEW m \in DOMAIN f, x < m PROVE b <= m
    <3>1. m \in DOMAIN g /\ a < m
      BY <1>1, <1>2, <2>2
    <3> QED BY <3>1 DEF Follows
  <2> QED BY <1>1, <1>2, <2>1, <2>2 DEF Follows
<1>3. CASE a # p
  <2>1. ASSUME a < x PROVE b <= x
    <3>1. CASE p < a
      <4>1. x <= a
        BY <1>1, <3>1 DEF Follows
      <4> QED BY <1>1, <2>1, <4>1
    <3>2. CASE ~(p < a)
      <4>1. a < p
        BY <1>1, <1>3, <3>2
      <4>2. b <= p
        BY <4>1 DEF Follows
      <4> QED BY <1>1, <4>2
    <3> QED BY <3>1, <3>2
  <2> QED BY <1>1, <1>3, <2>1 DEF Follows
<1> QED BY <1>2, <1>3

\* A node the block n has next to it goes, joined with n.
LEMMA JoinedFree ==
  ASSUME NEW f, NEW g, Nodes(f), NEW x \in DOMAIN f, NEW p \in DOMAIN g, Without(f, g, x),
         Follows(f, p, x), ~f[x],
         \A a, b \in DOMAIN f : Follows(f, a, b) => f[a] \/ f[b] \/ a = p \/ b = p
  PROVE  /\ \A b \in DOMAIN g : Follows(g, p, b) => g[b] \/ Follows(f, x, b)
         /\ \A a, b \in DOMAIN g : Follows(g, a, b) => g[a] \/ g[b] \/ a = p \/ b = p
<1>1. DOMAIN g \subseteq DOMAIN f /\ \A m \in DOMAIN g : g[m] = f[m]
  BY DEF Without
<1>2. ASSUME NEW a \in DOMAIN g, NEW b \in DOMAIN g, Follows(g, a, b)
      PROVE  IF a = p THEN Follows(f, x, b) ELSE Follows(f, a, b)
  BY <1>2, FollowsWithout
<1> QED BY <1>1, <1>2

Frees(h, g, n) == Sound(g) /\ UsedNodes(g) = UsedNodes(h) \ {n}

LEMMA NodeFreeProperties ==
  ASSUME NEW h, Sound(h), NEW n \in UsedNodes(h), NEW g, g = NodeFree(h, n)
  PROVE  Frees(h, g, n)
<1>1. /\ HeapRecord(h) /\ Nodes(h.node) /\ h.begin \in DOMAIN h.node /\ h.up
      /\ \A m \in DOMAIN h.node : ~h.node[m] => m >= h.begin
      /\ Joined(h.node)
      /\ DOMAIN h.node \subseteq Nat /\ DOMAIN h.node \subseteq Address
      /\ Limit \in Nat /\ Limit \notin DOMAIN h.node /\ \A m \in Address : m < Limit
      /\ n \in DOMAIN h.node /\ h.node[n] /\ n \in Address
  BY HeapAssumption DEF Sound, HeapType, Nodes, Address, UsedNodes
<1>2. PICK freed : freed = [h EXCEPT !.node[n] = FALSE]
  OBVIOUS
<1>3. PICK next : next = NextNode(freed, n)
  OBVIOUS
<1>4. PICK right : right = IF IsUsed(freed, next) THEN freed ELSE Combine(freed, n)
  OBVIOUS
<1>5. PICK prev : prev = PrevNode(right, n)
  OBVIOUS
<1>6. PICK joined : joined = ~IsUsed(right, prev)
  OBVIOUS
<1>7. PICK node : node = IF joined THEN prev ELSE n
  OBVIOUS
<1>8. PICK last : last = IF joined THEN Combine(right, prev) ELSE right
  OBVIOUS
<1>9. g = [last EXCEPT !.begin = IF node < @ THEN node ELSE @]
  BY <1>2, <1>3, <1>4, <1>5, <1>6, <1>7, <1>8 DEF NodeFree
<1>10. /\ SameHead(h, freed) /\ Nodes(freed.node) /\ DOMAIN freed.node = DOMAIN h.node
       /\ freed.node[n] = FALSE
       /\ \A m \in DOMAIN h.node \ {n} : freed.node[m] = h.node[m]
  <2>1. freed = [node |-> [h.node EXCEPT ![n] = FALSE], begin |-> h.begin, up |-> h.up]
    BY <1>1, <1>2 DEF HeapRecord
  <2>2. PICK f : f = [h.node EXCEPT ![n] = FALSE]
    OBVIOUS
  <2>3. /\ Nodes(f) /\ DOMAIN f = DOMAIN h.node /\ f[n] = FALSE
        /\ \A m \in DOMAIN h.node \ {n} : f[m] = h.node[m]
    BY <1>1, <2>2 DEF Nodes
  <2> QED BY <2>1, <2>2, <2>3 DEF SameHead, HeapRecord
<1>11. Follows(freed.node, n, next)
  BY <1>1, <1>3, <1>10, NextFollows
<1>12. \A a, b \in DOMAIN freed.node :
         Follows(freed.node, a, b) => freed.node[a] \/ freed.node[b] \/ a = n \/ b = n
  <2>1. \A a, b : Follows(freed.node, a, b) <=> Follows(h.node, a, b)
    BY <1>10 DEF Follows
  <2> QED BY <1>1, <1>10, <2>1 DEF Joined
\* The block n, with the free node behind it.
<1> DEFINE Right(k) ==
      /\ SameHead(h, k) /\ Nodes(k.node) /\ n \in DOMAIN k.node /\ k.node[n] = FALSE
      /\ \A m \in DOMAIN k.node : m \in DOMAIN h.node /\ (m # n => k.node[m] = h.node[m])
      /\ \A m \in DOMAIN h.node : m \in DOMAIN k.node \/ (~h.node[m] /\ n < m)
      /\ \A a, b \in DOMAIN k.node :
           Follows(k.node, a, b) => k.node[a] \/ k.node[b] \/ a = n \/ b = n
      /\ \A b \in DOMAIN k.node : Follows(k.node, n, b) => k.node[b]
<1>13. Right(right)
  <2>1. CASE IsUsed(freed, next)
    <3>1. right = freed
      BY <1>4, <2>1
    <3>2. ASSUME NEW b \in DOMAIN freed.node, Follows(freed.node, n, b) PROVE freed.node[b]
      <4>1. next <= b /\ next \in DOMAIN freed.node \cup {Limit}
        BY <1>11, <3>2 DEF Follows
      <4>2. next \in DOMAIN freed.node
        BY <1>1, <1>10, <4>1
      <4>3. b <= next
        BY <1>11, <3>2, <4>2 DEF Follows
      <4>4. b = next
        BY <1>1, <1>10, <4>1, <4>2, <4>3
      <4> QED BY <1>1, <1>10, <2>1, <4>2, <4>4 DEF IsUsed
    <3> QED BY <1>1, <1>10, <1>12, <3>1, <3>2
  <2>2. CASE ~IsUsed(freed, next)
    <3>1. next \in DOMAIN freed.node /\ ~freed.node[next] /\ next # Limit /\ n < next
      BY <1>11, <2>2 DEF IsUsed, Follows
    <3>2. SameHead(freed, right) /\ Without(freed.node, right.node, next)
      <4>1. HeapRecord(freed) /\ Nodes(freed.node) /\ n \in DOMAIN freed.node
            /\ NextNode(freed, n) # Limit /\ right = Combine(freed, n)
        BY <1>1, <1>3, <1>4, <1>10, <2>2, <3>1 DEF SameHead
      <4> QED BY <1>3, <4>1, CombineProperties
    <3>3. n \in DOMAIN right.node
      BY <1>1, <1>10, <3>1, <3>2 DEF Without
    <3>4. /\ \A b \in DOMAIN right.node :
               Follows(right.node, n, b) => right.node[b] \/ Follows(freed.node, next, b)
          /\ \A a, b \in DOMAIN right.node :
               Follows(right.node, a, b) => right.node[a] \/ right.node[b] \/ a = n \/ b = n
      BY <1>10, <1>11, <1>12, <3>1, <3>2, <3>3, JoinedFree
    <3>5. ASSUME NEW b \in DOMAIN right.node, Follows(right.node, n, b) PROVE right.node[b]
      <4>1. CASE Follows(freed.node, next, b)
        <5>1. b \in DOMAIN freed.node /\ b # n /\ next # n
          <6>1. b \in DOMAIN freed.node /\ n < b
            BY <3>2, <3>5 DEF Without, Follows
          <6> QED BY <1>1, <1>10, <3>1, <6>1
        <5>2. freed.node[b]
          BY <1>12, <3>1, <4>1, <5>1
        <5> QED BY <3>2, <3>5, <5>2 DEF Without
      <4> QED BY <3>4, <3>5, <4>1
    <3>6. SameHead(h, right)
      BY <1>10, <3>2 DEF SameHead
    <3>7. /\ Nodes(right.node) /\ right.node[n] = FALSE
          /\ \A m \in DOMAIN right.node :
               m \in DOMAIN h.node /\ (m # n => right.node[m] = h.node[m])
      BY <1>10, <3>2, <3>3 DEF Without
    <3>8. \A m \in DOMAIN h.node : m \in DOMAIN right.node \/ (~h.node[m] /\ n < m)
      BY <1>1, <1>10, <3>1, <3>2 DEF Without
    <3> QED BY <3>3, <3>4, <3>5, <3>6, <3>7, <3>8
  <2> QED BY <2>1, <2>2
<1>14. /\ DOMAIN right.node \subseteq Nat /\ DOMAIN right.node \subseteq Address
       /\ Limit \notin DOMAIN right.node
  BY <1>1, <1>13
<1>15. \/ prev = Limit /\ \A m \in DOMAIN right.node : n <= m
       \/ prev \in DOMAIN right.node /\ Follows(right.node, prev, n)
  BY <1>5, <1>13, PrevPrecedes
<1>16. UsedNodes(right) = UsedNodes(h) \ {n}
  BY <1>1, <1>13 DEF UsedNodes
<1>17. CASE ~joined
  <2>1. last = right /\ node = n
    BY <1>7, <1>8, <1>17
  <2>2. Joined(right.node)
    <3> SUFFICES ASSUME NEW a \in DOMAIN right.node, NEW b \in DOMAIN right.node,
                        Follows(right.node, a, b)
                 PROVE  right.node[a] \/ right.node[b]
      BY DEF Joined
    <3>1. CASE a = n
      BY <1>13, <3>1
    <3>2. CASE b = n
      <4>1. a < n
        BY <3>2 DEF Follows
      <4>2. prev \in DOMAIN right.node /\ Follows(right.node, prev, n)
        BY <1>1, <1>14, <1>15, <4>1
      <4>3. ~(a < prev) /\ ~(prev < a)
        <5>1. ASSUME a < prev PROVE FALSE
          <6>1. n <= prev /\ prev < n
            BY <3>2, <4>2, <5>1 DEF Follows
          <6> QED BY <1>1, <1>14, <4>2, <6>1
        <5>2. ASSUME prev < a PROVE FALSE
          <6>1. n <= a
            BY <4>2, <5>2 DEF Follows
          <6> QED BY <1>1, <1>14, <4>1, <6>1
        <5> QED BY <5>1, <5>2
      <4>4. a = prev
        BY <1>14, <4>2, <4>3
      <4> QED BY <1>6, <1>14, <1>17, <4>2, <4>4 DEF IsUsed
    <3> QED BY <1>13, <3>1, <3>2
  <2>3. PICK begin : begin = IF n < h.begin THEN n ELSE h.begin
    OBVIOUS
  <2>4. g = [node |-> right.node, begin |-> begin, up |-> TRUE]
    BY <1>1, <1>9, <1>13, <2>1, <2>3 DEF SameHead, HeapRecord
  <2>5. begin \in DOMAIN right.node
    <3>1. CASE h.begin \in DOMAIN right.node
      BY <1>13, <2>3, <3>1
    <3>2. CASE n < h.begin
      BY <1>13, <2>3, <3>2
    <3> QED BY <1>1, <1>13, <3>1, <3>2
  <2>6. \A m \in DOMAIN right.node : ~right.node[m] => m >= begin
    <3>1. ASSUME NEW m \in DOMAIN right.node, ~right.node[m] PROVE m >= begin
      <4>1. m = n \/ m >= h.begin
        BY <1>1, <1>13, <3>1
      <4>2. m \in Nat /\ n \in Nat /\ h.begin \in Nat
        BY <1>1, <1>14
      <4> QED BY <2>3, <4>1, <4>2
    <3> QED BY <3>1
  <2>7. HeapRecord(g) /\ HeapType(g)
    BY <1>13, <2>4, <2>5 DEF HeapRecord, HeapType
  <2>8. g.node = right.node
    BY <2>4
  <2> QED BY <1>16, <2>2, <2>4, <2>6, <2>7 DEF Sound, Frees, UsedNodes
<1>18. CASE joined
  <2>1. last = Combine(right, prev) /\ node = prev
    BY <1>7, <1>8, <1>18
  <2>2. /\ prev \in DOMAIN right.node /\ Follows(right.node, prev, n) /\ prev # n
        /\ ~right.node[prev] /\ prev < n
    <3>1. prev # Limit /\ ~right.node[prev]
      BY <1>6, <1>18 DEF IsUsed
    <3>2. prev \in DOMAIN right.node /\ Follows(right.node, prev, n)
      BY <1>15, <3>1
    <3>3. prev < n
      BY <3>2 DEF Follows
    <3> QED BY <1>1, <1>14, <3>1, <3>2, <3>3
  <2>3. NextNode(right, prev) = n
    <3>1. PICK x : x = NextNode(right, prev)
      OBVIOUS
    <3>2. Follows(right.node, prev, x)
      BY <1>13, <1>14, <2>2, <3>1, NextFollows
    <3>3. x <= n
      BY <1>13, <2>2, <3>2 DEF Follows
    <3>4. x \in DOMAIN right.node
      BY <1>1, <3>2, <3>3 DEF Follows
    <3>5. n <= x
      BY <2>2, <3>2, <3>4 DEF Follows
    <3> QED BY <1>1, <1>14, <3>1, <3>3, <3>4, <3>5
  <2>4. SameHead(right, last) /\ Without(right.node, last.node, n)
    <3>1. HeapRecord(right) /\ Nodes(right.node) /\ NextNode(right, prev) # Limit
      BY <1>1, <1>13, <2>3 DEF SameHead
    <3> QED BY <2>1, <2>2, <2>3, <3>1, CombineProperties
  <2>5. prev \in DOMAIN last.node
    BY <2>2, <2>4 DEF Without
  <2>6. Joined(last.node)
    <3> SUFFICES ASSUME NEW a \in DOMAIN last.node, NEW b \in DOMAIN last.node,
                        Follows(last.node, a, b)
                 PROVE  last.node[a] \/ last.node[b]
      BY DEF Joined
    <3>1. IF a = prev THEN Follows(right.node, n, b) ELSE Follows(right.node, a, b)
      BY <1>13, <2>2, <2>4, <2>5, FollowsWithout
    <3>2. a \in DOMAIN right.node /\ b \in DOMAIN right.node /\ a # n /\ b # n
          /\ last.node[a] = right.node[a] /\ last.node[b] = right.node[b]
      BY <2>4 DEF Without
    <3> QED BY <1>13, <3>1, <3>2
  <2>7. PICK begin : begin = IF prev < h.begin THEN prev ELSE h.begin
    OBVIOUS
  <2>8. g = [node |-> last.node, begin |-> begin, up |-> TRUE]
    BY <1>1, <1>9, <1>13, <2>1, <2>4, <2>7 DEF SameHead, HeapRecord
  <2>9. begin \in DOMAIN last.node
    <3>1. CASE h.begin \in DOMAIN last.node
      BY <2>5, <2>7, <3>1
    <3>2. CASE h.begin \notin DOMAIN last.node
      <4>1. h.begin = n \/ n < h.begin
        BY <1>1, <1>13, <2>4, <3>2 DEF Without
      <4>2. prev < h.begin
        BY <1>1, <1>14, <2>2, <4>1
      <4> QED BY <2>5, <2>7, <4>2
    <3> QED BY <3>1, <3>2
  <2>10. \A m \in DOMAIN last.node : ~last.node[m] => m >= begin
    <3>1. ASSUME NEW m \in DOMAIN last.node, ~last.node[m] PROVE m >= begin
      <4>1. m >= h.begin
        <5>1. m \in DOMAIN right.node /\ m # n /\ ~right.node[m]
          BY <2>4, <3>1 DEF Without
        <5> QED BY <1>1, <1>13, <5>1
      <4>2. m \in Nat /\ prev \in Nat /\ h.begin \in Nat
        BY <1>1, <1>14, <2>2, <2>4 DEF Without
      <4> QED BY <2>7, <4>1, <4>2
    <3> QED BY <3>1
  <2>11. HeapRecord(g) /\ HeapType(g)
    BY <2>4, <2>8, <2>9 DEF HeapRecord, HeapType, Without
  <2>12. UsedNodes(g) = UsedNodes(right)
    <3>1. g.node = last.node /\ right.node[n] = FALSE
      BY <1>13, <2>8
    <3>2. \A m : m \in DOMAIN last.node /\ last.node[m]
                <=> m \in DOMAIN right.node /\ right.node[m]
      <4> HIDE DEF Right
      <4> QED BY <2>4, <3>1 DEF Without
    <3> QED BY <3>1, <3>2 DEF UsedNodes
  <2>13. Sound(g)
    <3>1. g.node = last.node /\ g.begin = begin /\ g.up = TRUE
      BY <2>8
    <3> QED BY <2>6, <2>10, <2>11, <3>1 DEF Sound
  <2> QED BY <1>16, <2>12, <2>13 DEF Frees
<1> QED BY <1>17, <1>18

\* What a reallocation returns stands for n among the used nodes.
Moves(h, r, n) ==
  /\ Sound(r.h)
  /\ r.at \in Address \ (UsedNodes(h) \ {n})
  /\ UsedNodes(r.h) = (UsedNodes(h) \ {n}) \cup {r.at}

\* The heap k has the used nodes of h, and of the free ones behind n others.
Resized(h, k, n) ==
  /\ SameHead(h, k) /\ Nodes(k.node) /\ Joined(k.node)
  /\ n \in DOMAIN k.node /\ UsedNodes(k) = UsedNodes(h)
  /\ \A m \in DOMAIN h.node : n < m \/ m \in DOMAIN k.node
  /\ \A m \in DOMAIN k.node : ~k.node[m] => n < m \/ (m \in DOMAIN h.node /\ ~h.node[m])

\* What is left of the block n behind end becomes free, or joins the free
\* node behind the block.
LEMMA CutProperties ==
  ASSUME NEW h, HeapRecord(h), Nodes(h.node), Joined(h.node),
         NEW n \in UsedNodes(h), NEW end \in Nat, n < end, end < NextNode(h, n),
         NEW rest, rest = Split(h, end),
         NEW k, k = IF ~IsUsed(rest, NextNode(rest, end)) THEN Combine(rest, end) ELSE rest
  PROVE  Resized(h, k, n)
<1>1. PICK next : next = NextNode(h, n)
  OBVIOUS
<1>2. /\ DOMAIN h.node \subseteq Nat /\ DOMAIN h.node \subseteq Address
      /\ Limit \in Nat /\ Limit \notin DOMAIN h.node
      /\ \A m \in Address : m < Limit /\ m \in Nat
      /\ \A m \in Nat : m < Limit => m \in Address
      /\ n \in DOMAIN h.node /\ h.node[n] /\ n \in Address
  BY HeapAssumption DEF Nodes, Address, UsedNodes
<1>3. Follows(h.node, n, next)
  BY <1>1, <1>2, NextFollows
<1>4. next \in Nat /\ next <= Limit /\ end < next
  BY <1>1, <1>2, <1>3 DEF Follows
<1>5. end \in Address \ DOMAIN h.node
  <2>1. ASSUME end \in DOMAIN h.node PROVE FALSE
    <3>1. next <= end
      BY <1>3, <2>1 DEF Follows
    <3> QED BY <1>4, <3>1
  <2> QED BY <1>2, <1>4, <2>1
<1>6. SameHead(h, rest) /\ With(h.node, rest.node, end)
  BY <1>5, SplitProperties
<1>7. /\ HeapRecord(rest) /\ Nodes(rest.node) /\ end \in DOMAIN rest.node
      /\ n \in DOMAIN rest.node /\ rest.node[n] /\ ~rest.node[end]
      /\ DOMAIN rest.node = DOMAIN h.node \cup {end}
      /\ \A m \in DOMAIN h.node : rest.node[m] = h.node[m]
  BY <1>2, <1>6 DEF With, SameHead
<1>8. Follows(rest.node, end, next)
  <2>1. ASSUME NEW m \in DOMAIN rest.node, end < m PROVE next <= m
    <3>1. m \in DOMAIN h.node /\ n < m
      BY <1>2, <1>7, <2>1
    <3> QED BY <1>3, <3>1 DEF Follows
  <2>2. next \in DOMAIN rest.node \cup {Limit}
    BY <1>3, <1>7 DEF Follows
  <2> QED BY <1>4, <2>1, <2>2 DEF Follows
<1>9. NextNode(rest, end) = next
  <2>1. PICK x : x = NextNode(rest, end)
    OBVIOUS
  <2>2. Follows(rest.node, end, x)
    BY <1>5, <1>7, <2>1, NextFollows
  <2>3. x \in DOMAIN rest.node \cup {Limit} /\ x \in Nat /\ x <= Limit
    BY <1>2, <1>7, <2>2 DEF Follows
  <2>4. x \in DOMAIN rest.node => next <= x
    BY <1>8, <2>2 DEF Follows
  <2>5. next \in DOMAIN rest.node => x <= next
    BY <1>8, <2>2 DEF Follows
  <2>6. next \in DOMAIN rest.node \cup {Limit}
    BY <1>8 DEF Follows
  <2> QED BY <1>4, <2>1, <2>3, <2>4, <2>5, <2>6
<1>10. CASE IsUsed(rest, next)
  <2>1. k = rest
    BY <1>9, <1>10
  <2>2. next \in DOMAIN h.node => h.node[next]
    BY <1>2, <1>7, <1>10 DEF IsUsed
  <2>3. Joined(rest.node)
    BY <1>2, <1>3, <1>4, <1>5, <1>6, <2>2, JoinedWith
  <2>4. UsedNodes(rest) = UsedNodes(h)
    BY <1>7 DEF UsedNodes
  <2> QED BY <1>6, <1>7, <2>1, <2>3, <2>4 DEF Resized
<1>11. CASE ~IsUsed(rest, next)
  <2>1. k = Combine(rest, end)
    BY <1>9, <1>11
  <2>2. next \in DOMAIN h.node /\ next # Limit /\ ~rest.node[next] /\ next # end /\ n < next
    BY <1>3, <1>4, <1>11 DEF IsUsed, Follows
  <2>3. SameHead(rest, k) /\ Without(rest.node, k.node, next)
    BY <1>7, <1>9, <2>1, <2>2, CombineProperties
  <2>4. end \in DOMAIN k.node /\ n \in DOMAIN k.node
    BY <1>2, <1>7, <2>2, <2>3 DEF Without
  <2>5. Joined(k.node)
    <3> SUFFICES ASSUME NEW a \in DOMAIN k.node, NEW b \in DOMAIN k.node,
                        Follows(k.node, a, b)
                 PROVE  k.node[a] \/ k.node[b]
      BY DEF Joined
    <3>1. IF a = end THEN Follows(rest.node, next, b) ELSE Follows(rest.node, a, b)
      <4>1. next \in DOMAIN rest.node
        BY <1>7, <2>2
      <4> QED BY <1>7, <1>8, <2>3, <2>4, <4>1, FollowsWithout
    <3>2. /\ a \in DOMAIN rest.node /\ b \in DOMAIN rest.node /\ a # next /\ b # next
          /\ k.node[a] = rest.node[a] /\ k.node[b] = rest.node[b]
      BY <2>3 DEF Without
    <3>3. \A x, y : y # end /\ Follows(rest.node, x, y) => Follows(h.node, x, y)
      BY <1>7 DEF Follows
    <3>4. CASE a = end
      <4>1. b # end
        BY <1>4, <3>1, <3>4 DEF Follows
      <4>2. h.node[next] \/ h.node[b]
        BY <1>7, <2>2, <3>1, <3>2, <3>3, <3>4, <4>1 DEF Joined
      <4> QED BY <1>7, <2>2, <3>2, <4>1, <4>2
    <3>5. CASE a # end /\ b # end
      <4>1. h.node[a] \/ h.node[b]
        BY <1>7, <3>1, <3>2, <3>3, <3>5 DEF Joined
      <4> QED BY <1>7, <3>2, <3>5, <4>1
    <3>6. CASE a # end /\ b = end
      <4>1. a < end /\ a \in DOMAIN h.node /\ Follows(rest.node, a, end)
        BY <1>7, <3>1, <3>2, <3>6 DEF Follows
      <4>2. ~(a < n)
        <5>1. ASSUME a < n PROVE FALSE
          <6>1. end <= n
            BY <1>7, <4>1, <5>1 DEF Follows
          <6> QED BY <1>2, <6>1
        <5> QED BY <5>1
      <4>3. ~(n < a)
        <5>1. ASSUME n < a PROVE FALSE
          <6>1. next <= a
            BY <1>3, <4>1, <5>1 DEF Follows
          <6> QED BY <1>2, <1>4, <4>1, <6>1
        <5> QED BY <5>1
      <4>4. a = n
        BY <1>2, <4>1, <4>2, <4>3
      <4> QED BY <1>7, <3>2, <4>4
    <3> QED BY <3>4, <3>5, <3>6
  <2>6. UsedNodes(k) = UsedNodes(h)
    BY <1>7, <2>2, <2>3 DEF UsedNodes, Without
  <2>7. SameHead(h, k) /\ Nodes(k.node)
    BY <1>6, <2>3 DEF SameHead, Without
  <2>8. \A m \in DOMAIN h.node : n < m \/ m \in DOMAIN k.node
    BY <1>7, <2>2, <2>3 DEF Without
  <2>9. \A m \in DOMAIN k.node : ~k.node[m] => n < m \/ (m \in DOMAIN h.node /\ ~h.node[m])
    BY <1>7, <2>3 DEF Without
  <2> QED BY <2>4, <2>5, <2>6, <2>7, <2>8, <2>9 DEF Resized
<1> QED BY <1>10, <1>11

\* A block that is large enough, or takes the free node behind it.
LEMMA ResizeProperties ==
  ASSUME NEW h, Sound(h), NEW n \in UsedNodes(h), NEW end \in Nat, n < end,
         NEW next, next = NextNode(h, n), NEW grows, grows = (end > next),
         grows => ~IsUsed(h, next) /\ ~(end > NextNode(h, next)),
         NEW base, base = IF grows THEN Combine(h, n) ELSE h,
         NEW cut, cut = (NextNode(base, n) - end >= MinRest),
         NEW rest, rest = IF cut THEN Split(base, end) ELSE base,
         NEW k, k = IF cut /\ ~IsUsed(rest, NextNode(rest, end))
                    THEN Combine(rest, end) ELSE rest
  PROVE  Resized(h, k, n)
<1>1. /\ HeapRecord(h) /\ Nodes(h.node) /\ Joined(h.node)
      /\ DOMAIN h.node \subseteq Nat /\ DOMAIN h.node \subseteq Address
      /\ Limit \in Nat /\ Limit \notin DOMAIN h.node
      /\ \A m \in Address : m < Limit /\ m \in Nat
      /\ n \in DOMAIN h.node /\ h.node[n] /\ n \in Address
  BY HeapAssumption DEF Sound, HeapType, Nodes, Address, UsedNodes
<1>2. Follows(h.node, n, next)
  BY <1>1, NextFollows
\* The block with the free node behind it, or as it was.
<1>3. /\ HeapRecord(base) /\ Nodes(base.node) /\ Joined(base.node) /\ SameHead(h, base)
      /\ n \in UsedNodes(base) /\ UsedNodes(base) = UsedNodes(h)
      /\ \A m \in DOMAIN h.node : n < m \/ m \in DOMAIN base.node
      /\ \A m \in DOMAIN base.node : m \in DOMAIN h.node /\ base.node[m] = h.node[m]
  <2>1. CASE ~grows
    BY <1>1, <2>1 DEF SameHead
  <2>2. CASE grows
    <3>1. base = Combine(h, n) /\ next \in DOMAIN h.node /\ ~h.node[next] /\ next # Limit
          /\ n < next
      BY <1>2, <2>2 DEF IsUsed, Follows
    <3>2. SameHead(h, base) /\ Without(h.node, base.node, next)
      BY <1>1, <3>1, CombineProperties
    <3>3. n \in DOMAIN base.node /\ base.node[n]
      BY <1>1, <3>1, <3>2 DEF Without
    <3>4. ASSUME NEW a \in DOMAIN base.node, NEW b \in DOMAIN base.node,
                 Follows(base.node, a, b)
          PROVE  base.node[a] \/ base.node[b]
      <4>1. IF a = n THEN Follows(h.node, next, b) ELSE Follows(h.node, a, b)
        BY <1>1, <1>2, <3>1, <3>2, <3>3, <3>4, FollowsWithout
      <4> QED BY <1>1, <3>2, <3>3, <3>4, <4>1 DEF Joined, Without
    <3>5. Joined(base.node)
      BY <3>4 DEF Joined
    <3>6. UsedNodes(base) = UsedNodes(h) /\ n \in UsedNodes(base)
      BY <3>1, <3>2, <3>3 DEF UsedNodes, Without
    <3> QED BY <3>1, <3>2, <3>5, <3>6 DEF Without, SameHead
  <2> QED BY <2>1, <2>2
<1>4. CASE ~cut
  <2>1. k = base
    BY <1>4
  <2> QED BY <1>3, <2>1 DEF Resized, UsedNodes
<1>5. CASE cut
  <2>1. end < NextNode(base, n)
    <3>1. PICK x : x = NextNode(base, n)
      OBVIOUS
    <3>2. Follows(base.node, n, x)
      BY <1>1, <1>3, <3>1, NextFollows
    <3>3. x \in Nat
      BY <1>1, <1>3, <3>2 DEF Follows
    <3>4. x - end >= MinRest
      BY <1>5, <3>1
    <3>5. MinRest \in Nat /\ MinRest > 0
      BY HeapAssumption
    <3> QED BY <3>1, <3>3, <3>4, <3>5
  <2>2. rest = Split(base, end)
        /\ k = IF ~IsUsed(rest, NextNode(rest, end)) THEN Combine(rest, end) ELSE rest
    BY <1>5
  <2>3. Resized(base, k, n)
    BY <1>3, <2>1, <2>2, CutProperties
  <2> QED BY <1>1, <1>3, <2>3 DEF Resized, SameHead
<1> QED BY <1>4, <1>5

LEMMA NodeReallocProperties ==
  ASSUME NEW h, Sound(h), NEW n \in UsedNodes(h), NEW size \in Nat,
         NEW r, r = NodeRealloc(h, n, size)
  PROVE  r = [h |-> h, at |-> Null] \/ Moves(h, r, n)
<1>1. /\ HeapRecord(h) /\ Nodes(h.node) /\ Joined(h.node) /\ h.up
      /\ h.begin \in DOMAIN h.node
      /\ \A m \in DOMAIN h.node : ~h.node[m] => m >= h.begin
      /\ DOMAIN h.node \subseteq Nat /\ Limit \in Nat /\ DOMAIN h.node \subseteq Address
      /\ n \in DOMAIN h.node /\ h.node[n] /\ n \in Address /\ n \in Nat
  BY HeapAssumption DEF Sound, HeapType, Nodes, Address, UsedNodes
<1>2. PICK next : next = NextNode(h, n)
  OBVIOUS
<1>3. PICK end : end = n + Header + size
  OBVIOUS
<1>4. PICK grows : grows = (end > next)
  OBVIOUS
<1>5. PICK moves : moves = (grows /\ (IsUsed(h, next) \/ end > NextNode(h, next)))
  OBVIOUS
<1>6. PICK moved : moved = NodeAlloc(h, size)
  OBVIOUS
<1>7. PICK base : base = IF grows THEN Combine(h, n) ELSE h
  OBVIOUS
<1>8. PICK cut : cut = (NextNode(base, n) - end >= MinRest)
  OBVIOUS
<1>9. PICK rest : rest = IF cut THEN Split(base, end) ELSE base
  OBVIOUS
<1>10. PICK fit : fit = IF cut /\ ~IsUsed(rest, NextNode(rest, end))
                        THEN Combine(rest, end) ELSE rest
  OBVIOUS
<1>11. r = IF moves
           THEN IF moved.at = Null THEN [h |-> h, at |-> Null]
                ELSE [h |-> NodeFree(moved.h, n), at |-> moved.at]
           ELSE [h |-> IF n < h.begin THEN RelistFree(fit, NextNode(fit, n)) ELSE fit,
                 at |-> n]
  BY <1>2, <1>3, <1>4, <1>5, <1>6, <1>7, <1>8, <1>9, <1>10 DEF NodeRealloc
<1>12. CASE moves
  <2>1. moved = [h |-> h, at |-> Null] \/ Allocates(h, moved)
    BY <1>6, NodeAllocProperties
  <2>2. CASE moved.at = Null
    BY <1>11, <1>12, <2>2
  <2>3. CASE moved.at # Null
    <3>1. Allocates(h, moved)
      BY <2>1, <2>3
    <3>2. /\ Sound(moved.h) /\ n \in UsedNodes(moved.h)
          /\ moved.at \in Address \ UsedNodes(h) /\ moved.at # n
          /\ UsedNodes(moved.h) = UsedNodes(h) \cup {moved.at}
      BY <3>1 DEF Allocates
    <3>3. PICK g : g = NodeFree(moved.h, n)
      OBVIOUS
    <3>4. Frees(moved.h, g, n)
      BY <3>2, <3>3, NodeFreeProperties
    <3>5. r = [h |-> g, at |-> moved.at]
      BY <1>11, <1>12, <2>3, <3>3
    <3>6. r.h = g /\ r.at = moved.at
      BY <3>5
    <3> QED BY <3>2, <3>4, <3>6 DEF Frees, Moves
  <2> QED BY <2>2, <2>3
<1>13. CASE ~moves
  <2>1. n < end /\ end \in Nat
    BY <1>1, <1>3 DEF Header
  <2>2. grows => ~IsUsed(h, next) /\ ~(end > NextNode(h, next))
    BY <1>5, <1>13
  <2>3. Resized(h, fit, n)
    BY <1>2, <1>4, <1>7, <1>8, <1>9, <1>10, <2>1, <2>2, ResizeProperties
  <2>4. /\ HeapRecord(fit) /\ fit.up /\ fit.begin = h.begin /\ Nodes(fit.node)
        /\ Joined(fit.node) /\ n \in DOMAIN fit.node /\ UsedNodes(fit) = UsedNodes(h)
        /\ \A m \in DOMAIN h.node : n < m \/ m \in DOMAIN fit.node
        /\ \A m \in DOMAIN fit.node : ~fit.node[m] => n < m \/ (m \in DOMAIN h.node /\ ~h.node[m])
        /\ DOMAIN fit.node \subseteq Nat
    BY <1>1, <2>3, HeapAssumption DEF Resized, SameHead, Nodes, Address
  <2>5. CASE n < h.begin
    <3>1. PICK x : x = NextNode(fit, n)
      OBVIOUS
    <3>2. Follows(fit.node, n, x)
      BY <1>1, <2>4, <3>1, NextFollows
    <3>3. ASSUME NEW m \in DOMAIN fit.node, ~fit.node[m] PROVE x <= m
      <4>1. n < m
        <5>1. CASE m \in DOMAIN h.node /\ ~h.node[m]
          <6>1. m >= h.begin /\ m \in Nat /\ h.begin \in Nat
            BY <1>1, <5>1
          <6> QED BY <1>1, <2>5, <6>1
        <5> QED BY <2>4, <3>3, <5>1
      <4> QED BY <3>2, <4>1 DEF Follows
    <3>4. PICK g : g = RelistFree(fit, x)
      OBVIOUS
    <3>5. Sound(g) /\ g.node = fit.node
      <4>1. x \in DOMAIN fit.node \cup {Limit}
        BY <3>2 DEF Follows
      <4> QED BY <2>4, <3>3, <3>4, <4>1, RelistProperties
    <3>6. r = [h |-> g, at |-> n]
      BY <1>11, <1>13, <2>5, <3>1, <3>4
    <3>7. r.h = g /\ r.at = n
      BY <3>6
    <3>8. UsedNodes(g) = UsedNodes(h)
      BY <2>4, <3>5 DEF UsedNodes
    <3> QED BY <1>1, <3>5, <3>7, <3>8 DEF Moves
  <2>6. CASE ~(n < h.begin)
    <3>1. r = [h |-> fit, at |-> n]
      BY <1>11, <1>13, <2>6
    <3>2. r.h = fit /\ r.at = n
      BY <3>1
    <3>3. fit.begin \in DOMAIN fit.node
      BY <1>1, <2>4, <2>6
    <3>4. ASSUME NEW m \in DOMAIN fit.node, ~fit.node[m] PROVE m >= fit.begin
      <4>1. m \in Nat /\ h.begin \in Nat
        BY <1>1, <2>4
      <4>2. CASE n < m
        BY <1>1, <2>4, <2>6, <4>1, <4>2
      <4>3. CASE m \in DOMAIN h.node /\ ~h.node[m]
        BY <1>1, <2>4, <4>3
      <4> QED BY <2>4, <3>4, <4>2, <4>3
    <3>5. Sound(fit)
      BY <2>4, <3>3, <3>4 DEF Sound, HeapType
    <3> QED BY <1>1, <2>4, <3>2, <3>5 DEF Moves, UsedNodes
  <2> QED BY <2>5, <2>6
<1> QED BY <1>12, <1>13

-----------------------------------------------------------------------------
(* The system heap                                                         *)

GoodHeap(h) == HeapType(h) /\ WellFormed(h)

LEMMA UsedNodesAddress ==
  ASSUME NEW h, HeapType(h)
  PROVE  UsedNodes(h) \subseteq Address /\ Null \notin UsedNodes(h)
<1>1. Null \notin Address
  BY HeapAssumption DEF Address
<1>2. CASE h.up
  BY <1>1, <1>2 DEF HeapType, Nodes, UsedNodes
<1>3. CASE ~h.up
  <2>1. h.node = <<>>
    BY <1>3 DEF HeapType, NoHeap
  <2>2. UsedNodes(h) = {}
    BY <2>1 DEF UsedNodes
  <2> QED BY <2>2
<1> QED BY <1>2, <1>3

LEMMA SoundIsGood ==
  ASSUME NEW h, Sound(h)
  PROVE  GoodHeap(h)
BY SoundIsWellFormed DEF Sound, GoodHeap

\* The first use sets up one free node.
LEMMA SysMemInitProperties ==
  ASSUME NEW h, GoodHeap(h), NEW i, i = SysMemInit(h)
  PROVE  Sound(i) /\ UsedNodes(i) = UsedNodes(h)
<1>1. CASE h.up
  BY <1>1, SoundIsWellFormed DEF GoodHeap, SysMemInit
<1>2. CASE ~h.up
  <2>1. PICK f : f = [n \in {0} |-> FALSE]
    OBVIOUS
  <2>2. i = [node |-> f, begin |-> 0, up |-> TRUE]
    BY <1>2, <2>1 DEF SysMemInit, Setup
  <2>3. i.node = f /\ i.begin = 0 /\ i.up = TRUE /\ HeapRecord(i)
    BY <2>2 DEF HeapRecord
  <2>4. Nodes(f) /\ 0 \in DOMAIN f
    BY <2>1, HeapAssumption DEF Nodes, Address
  <2>5. Joined(f)
    BY <2>1 DEF Joined, Follows
  <2>6. Sound(i)
    <3>1. HeapType(i)
      BY <2>3, <2>4 DEF HeapType
    <3>2. \A n \in DOMAIN i.node : n >= i.begin
      BY <2>1, <2>3
    <3> QED BY <2>3, <2>5, <3>1, <3>2 DEF Sound
  <2>7. UsedNodes(i) = {}
    BY <2>1, <2>3 DEF UsedNodes
  <2>8. h.node = <<>>
    BY <1>2 DEF GoodHeap, HeapType, NoHeap
  <2>9. UsedNodes(h) = {}
    BY <2>8 DEF UsedNodes
  <2> QED BY <2>6, <2>7, <2>9
<1> QED BY <1>1, <1>2

LEMMA SysMemAllocProperties ==
  ASSUME NEW h, GoodHeap(h), NEW size \in Nat, NEW r, r = SysMemAlloc(h, size)
  PROVE  /\ GoodHeap(r.h)
         /\ \/ r.at = Null /\ UsedNodes(r.h) = UsedNodes(h)
            \/ /\ r.at \in Address \ UsedNodes(h)
               /\ UsedNodes(r.h) = UsedNodes(h) \cup {r.at}
<1>1. PICK i : i = SysMemInit(h)
  OBVIOUS
<1>2. Sound(i) /\ UsedNodes(i) = UsedNodes(h)
  BY <1>1, SysMemInitProperties
<1>3. r = [h |-> i, at |-> Null] \/ r = NodeAlloc(i, size)
  BY <1>1 DEF SysMemAlloc
<1>4. CASE r = [h |-> i, at |-> Null]
  <2>1. r.h = i /\ r.at = Null
    BY <1>4
  <2> QED BY <1>2, <2>1, SoundIsGood
<1>5. CASE r # [h |-> i, at |-> Null]
  <2>1. Allocates(i, r)
    BY <1>2, <1>3, <1>5, NodeAllocProperties
  <2> QED BY <1>2, <2>1, SoundIsGood DEF Allocates
<1> QED BY <1>4, <1>5

LEMMA SysMemFreeProperties ==
  ASSUME NEW h, GoodHeap(h), NEW n \in UsedNodes(h) \cup {Null}, NEW g, g = SysMemFree(h, n)
  PROVE  GoodHeap(g) /\ UsedNodes(g) = UsedNodes(h) \ {n}
<1>1. PICK i : i = SysMemInit(h)
  OBVIOUS
<1>2. Sound(i) /\ UsedNodes(i) = UsedNodes(h)
  BY <1>1, SysMemInitProperties
<1>3. Null \notin UsedNodes(h)
  BY UsedNodesAddress DEF GoodHeap
<1>4. CASE n = Null
  <2>1. g = i
    BY <1>1, <1>4 DEF SysMemFree
  <2> QED BY <1>2, <1>3, <1>4, <2>1, SoundIsGood
<1>5. CASE n # Null
  <2>1. g = NodeFree(i, n) /\ n \in UsedNodes(i)
    BY <1>1, <1>2, <1>5 DEF SysMemFree
  <2>2. Frees(i, g, n)
    BY <1>2, <2>1, NodeFreeProperties
  <2> QED BY <1>2, <2>2, SoundIsGood DEF Frees
<1> QED BY <1>4, <1>5

LEMMA SysMemReallocProperties ==
  ASSUME NEW h, GoodHeap(h), NEW n \in UsedNodes(h), NEW size \in Nat,
         NEW r, r = SysMemRealloc(h, n, size)
  PROVE  /\ GoodHeap(r.h)
         /\ \/ size = 0 /\ r.at = Null /\ UsedNodes(r.h) = UsedNodes(h) \ {n}
            \/ size # 0 /\ r.at = Null /\ UsedNodes(r.h) = UsedNodes(h)
            \/ /\ r.at \in Address \ (UsedNodes(h) \ {n})
               /\ UsedNodes(r.h) = (UsedNodes(h) \ {n}) \cup {r.at}
<1>1. PICK i : i = SysMemInit(h)
  OBVIOUS
<1>2. Sound(i) /\ UsedNodes(i) = UsedNodes(h)
  BY <1>1, SysMemInitProperties
<1>3. n # Null
  BY UsedNodesAddress DEF GoodHeap
<1>4. r = IF size = 0 THEN [h |-> NodeFree(i, n), at |-> Null]
          ELSE IF size > Limit THEN [h |-> i, at |-> Null]
          ELSE NodeRealloc(i, n, size)
  BY <1>1, <1>3 DEF SysMemRealloc
<1>5. CASE size = 0
  <2>1. PICK g : g = NodeFree(i, n)
    OBVIOUS
  <2>2. r.h = g /\ r.at = Null
    BY <1>4, <1>5, <2>1
  <2>3. Frees(i, g, n)
    BY <1>2, <2>1, NodeFreeProperties
  <2> QED BY <1>2, <1>5, <2>2, <2>3, SoundIsGood DEF Frees
<1>6. CASE size # 0 /\ r = [h |-> i, at |-> Null]
  <2>1. r.h = i /\ r.at = Null
    BY <1>6
  <2> QED BY <1>2, <1>6, <2>1, SoundIsGood
<1>7. CASE size # 0 /\ r # [h |-> i, at |-> Null]
  <2>1. r = NodeRealloc(i, n, size)
    BY <1>4, <1>7
  <2>2. Moves(i, r, n)
    BY <1>2, <1>7, <2>1, NodeReallocProperties
  <2> QED BY <1>2, <2>2, SoundIsGood DEF Moves
<1> QED BY <1>5, <1>6, <1>7

-----------------------------------------------------------------------------
(* The registry                                                            *)

LEMMA DeviceIsLinked ==
  ASSUME NEW t, Typed(t), NEW o
  PROVE  (o \in Device(t) <=> Contains(t.linked, o)) /\ (o \in Device(t) => o \in DOMAIN t.mem)
<1>1. /\ DOMAIN t.linked = 1..Len(t.linked)
      /\ \A i \in 1..Len(t.linked) : t.linked[i] \in DOMAIN t.mem
  BY LenProperties, ElementOfSeq DEF Typed
<1> QED BY <1>1 DEF Device, Range, Contains

\* Where what Unlink takes out has been.
LEMMA UnlinkPlace ==
  ASSUME NEW S, NEW q \in Seq(S), NEW o, Contains(q, o)
  PROVE  \E j \in 1..Len(q) :
           /\ q[j] = o /\ Len(Unlink(q, o)) = Len(q) - 1
           /\ \A i \in 1..(Len(q) - 1) :
                Unlink(q, o)[i] = IF i < j THEN q[i] ELSE q[i + 1]
<1>1. DOMAIN q = 1..Len(q)
  BY LenProperties
<1>2. PICK j : j = CHOOSE i \in DOMAIN q : q[i] = o
  OBVIOUS
<1>3. j \in 1..Len(q) /\ q[j] = o
  BY <1>1, <1>2 DEF Contains
<1>4. Unlink(q, o) = RemoveAt(q, j)
  BY <1>2 DEF Unlink
<1> QED BY <1>3, <1>4, RemoveAtProperties

LEMMA AppendIs ==
  ASSUME NEW S, NEW q \in Seq(S), NEW o \in S
  PROVE  /\ Append(q, o) \in Seq(S) /\ Len(Append(q, o)) = Len(q) + 1
         /\ \A i \in 1..(Len(q) + 1) : Append(q, o)[i] = IF i = Len(q) + 1 THEN o ELSE q[i]
BY AppendProperties, LenProperties

\* What was appended last leaves the list as it was.
LEMMA UnlinkAppended ==
  ASSUME NEW S, NEW q \in Seq(S), NEW o \in S, ~Contains(q, o)
  PROVE  Unlink(Append(q, o), o) = q
<1>1. PICK r : r = Append(q, o)
  OBVIOUS
<1>2. /\ r \in Seq(S) /\ Len(r) = Len(q) + 1
      /\ \A i \in 1..(Len(q) + 1) : r[i] = IF i = Len(q) + 1 THEN o ELSE q[i]
  BY <1>1, AppendIs
<1>3. Len(q) \in Nat /\ DOMAIN q = 1..Len(q) /\ DOMAIN r = 1..Len(r)
  BY <1>2, LenProperties
<1>4. Contains(r, o)
  <2>1. Len(q) + 1 \in 1..Len(r) /\ r[Len(q) + 1] = o
    BY <1>2, <1>3
  <2> QED BY <2>1 DEF Contains
<1>5. PICK j \in 1..Len(r) :
        /\ r[j] = o /\ Len(Unlink(r, o)) = Len(r) - 1
        /\ \A i \in 1..(Len(r) - 1) : Unlink(r, o)[i] = IF i < j THEN r[i] ELSE r[i + 1]
  BY <1>2, <1>4, UnlinkPlace
<1>6. j = Len(q) + 1
  <2>1. ASSUME j \in 1..Len(q) PROVE FALSE
    <3>1. q[j] = o
      BY <1>2, <1>3, <1>5, <2>1
    <3> QED BY <2>1, <3>1 DEF Contains
  <2> QED BY <1>2, <1>3, <1>5, <2>1
<1>7. PICK v : v = Unlink(r, o)
  OBVIOUS
<1>8. Len(v) = Len(q) /\ \A i \in 1..Len(q) : v[i] = q[i]
  BY <1>2, <1>3, <1>5, <1>6, <1>7
<1>9. v \in Seq(S)
  <2>1. v = RemoveAt(r, CHOOSE i \in DOMAIN r : r[i] = o)
    BY <1>4, <1>7 DEF Unlink
  <2>2. (CHOOSE i \in DOMAIN r : r[i] = o) \in 1..Len(r)
    BY <1>3, <1>5
  <2> QED BY <1>2, <2>1, <2>2, RemoveAtProperties
<1>10. v = q
  BY <1>8, <1>9, SeqEqual
<1> QED BY <1>1, <1>7, <1>10

\* Periphs are behind their adaptrs in the list q: Behind, without the state.
Ranked(q, mem) ==
  \A i \in 1..Len(q) :
    mem[q[i]].kind = "periph" =>
      /\ Contains(q, mem[q[i]].mount)
      /\ mem[mem[q[i]].mount].kind = "adaptr"
      /\ i > 1
      /\ \/ q[i - 1] = mem[q[i]].mount
         \/ mem[q[i - 1]].kind = "periph" /\ mem[q[i - 1]].mount = mem[q[i]].mount

Agree(q, mem, other, o) ==
  \A i \in 1..Len(q) :
    q[i] # o => other[q[i]].kind = mem[q[i]].kind /\ other[q[i]].mount = mem[q[i]].mount

LEMMA RankedContains ==
  ASSUME NEW q, NEW mem, Ranked(q, mem), NEW p, Contains(q, p), mem[p].kind = "periph"
  PROVE  Contains(q, mem[p].mount) /\ mem[mem[p].mount].kind = "adaptr"
BY DEF Ranked, Contains

LEMMA RankedAppended ==
  ASSUME NEW S, NEW q \in Seq(S), NEW mem, Ranked(q, mem), NEW o \in S, ~Contains(q, o),
         NEW other, Agree(q, mem, other, o), other[o].kind # "periph"
  PROVE  Ranked(Append(q, o), other)
<1>1. PICK r : r = Append(q, o)
  OBVIOUS
<1>2. /\ Len(r) = Len(q) + 1 /\ Len(q) \in Nat
      /\ \A i \in 1..(Len(q) + 1) : r[i] = IF i = Len(q) + 1 THEN o ELSE q[i]
  BY <1>1, AppendIs, LenProperties
<1>3. \A i \in 1..Len(q) : q[i] # o /\ r[i] = q[i]
  BY <1>2 DEF Contains
<1>4. \A x : Contains(q, x) => Contains(r, x) /\ other[x].kind = mem[x].kind
  BY <1>2, <1>3 DEF Contains, Agree
<1> SUFFICES ASSUME NEW i \in 1..Len(r), other[r[i]].kind = "periph"
             PROVE  /\ Contains(r, other[r[i]].mount)
                    /\ other[other[r[i]].mount].kind = "adaptr"
                    /\ i > 1
                    /\ \/ r[i - 1] = other[r[i]].mount
                       \/ /\ other[r[i - 1]].kind = "periph"
                          /\ other[r[i - 1]].mount = other[r[i]].mount
  BY <1>1 DEF Ranked
<1>5. i \in 1..Len(q)
  BY <1>2
<1>6. r[i] = q[i] /\ mem[q[i]].kind = "periph" /\ other[q[i]].mount = mem[q[i]].mount
  BY <1>3, <1>5 DEF Agree
<1>7. /\ Contains(q, mem[q[i]].mount)
      /\ mem[mem[q[i]].mount].kind = "adaptr"
      /\ i > 1
      /\ \/ q[i - 1] = mem[q[i]].mount
         \/ mem[q[i - 1]].kind = "periph" /\ mem[q[i - 1]].mount = mem[q[i]].mount
  BY <1>5, <1>6 DEF Ranked
<1>8. i - 1 \in 1..Len(q)
  BY <1>2, <1>5, <1>7
<1>9. /\ r[i - 1] = q[i - 1] /\ other[q[i - 1]].kind = mem[q[i - 1]].kind
      /\ other[q[i - 1]].mount = mem[q[i - 1]].mount
  BY <1>3, <1>8 DEF Agree
<1> QED BY <1>4, <1>6, <1>7, <1>9

\* The sequence q is l with o behind its place j.
Spliced(q, l, j, o) ==
  /\ Len(q) = Len(l) + 1
  /\ \A i \in 1..(Len(l) + 1) :
       q[i] = IF i < j + 1 THEN l[i] ELSE IF i = j + 1 THEN o ELSE l[i - 1]

LEMMA InsertAfter ==
  ASSUME NEW S, NEW l \in Seq(S), NEW j \in 1..Len(l), NEW o \in S
  PROVE  InsertAt(l, j + 1, o) \in Seq(S) /\ Spliced(InsertAt(l, j + 1, o), l, j, o)
<1>1. PICK m : m = j + 1
  OBVIOUS
<1>2. m \in 1..(Len(l) + 1)
  BY <1>1, LenProperties
<1>3. /\ InsertAt(l, m, o) \in Seq(S) /\ Len(InsertAt(l, m, o)) = Len(l) + 1
      /\ \A i \in 1..(Len(l) + 1) :
           InsertAt(l, m, o)[i] = IF i < m THEN l[i] ELSE IF i = m THEN o ELSE l[i - 1]
  BY <1>2, InsertAtProperties
<1> QED BY <1>1, <1>3 DEF Spliced

\* The next device behind an adaptr is one of its periphs or none at all.
LEMMA RankedInserted ==
  ASSUME NEW S, NEW q \in Seq(S), NEW mem, Ranked(q, mem), NEW o \in S, ~Contains(q, o),
         NEW j \in 1..Len(q), mem[q[j]].kind = "adaptr",
         NEW other, Agree(q, mem, other, o), other[o].kind = "periph", other[o].mount = q[j]
  PROVE  Ranked(InsertAt(q, j + 1, o), other)
<1>1. PICK r : r = InsertAt(q, j + 1, o)
  OBVIOUS
<1>2. Len(q) \in Nat
  BY LenProperties
<1>3. /\ Len(r) = Len(q) + 1
      /\ \A i \in 1..(Len(q) + 1) : r[i] = IF i < j + 1 THEN q[i]
                                           ELSE IF i = j + 1 THEN o ELSE q[i - 1]
  BY <1>1, <1>2, InsertAfter DEF Spliced
<1>4. \A i \in 1..Len(q) : q[i] # o
  BY DEF Contains
<1>5. \A x : Contains(q, x) => Contains(r, x) /\ other[x].kind = mem[x].kind
  <2>1. ASSUME NEW x, Contains(q, x) PROVE Contains(r, x) /\ other[x].kind = mem[x].kind
    <3>1. PICK i \in 1..Len(q) : q[i] = x
      BY <2>1 DEF Contains
    <3>2. CASE i < j + 1
      <4>1. i \in 1..(Len(q) + 1) /\ r[i] = x
        BY <1>2, <1>3, <3>1, <3>2
      <4> QED BY <1>3, <1>4, <3>1, <4>1 DEF Contains, Agree
    <3>3. CASE ~(i < j + 1)
      <4>1. i + 1 \in 1..(Len(q) + 1) /\ ~(i + 1 < j + 1) /\ i + 1 # j + 1 /\ i + 1 - 1 = i
        BY <1>2, <3>1, <3>3
      <4>2. r[i + 1] = x
        BY <1>3, <3>1, <4>1
      <4> QED BY <1>3, <1>4, <3>1, <4>1, <4>2 DEF Contains, Agree
    <3> QED BY <3>2, <3>3
  <2> QED BY <2>1
<1> DEFINE Ranks(i) ==
      /\ Contains(r, other[r[i]].mount)
      /\ other[other[r[i]].mount].kind = "adaptr"
      /\ i > 1
      /\ \/ r[i - 1] = other[r[i]].mount
         \/ /\ other[r[i - 1]].kind = "periph"
            /\ other[r[i - 1]].mount = other[r[i]].mount
<1> SUFFICES ASSUME NEW i \in 1..Len(r), other[r[i]].kind = "periph"
             PROVE  Ranks(i)
  BY <1>1 DEF Ranked
\* The place i of the new list that was the place k of the old one.
<1>6. ASSUME NEW k \in 1..Len(q), r[i] = q[k]
      PROVE  /\ mem[q[k]].kind = "periph" /\ other[q[k]].mount = mem[q[k]].mount
             /\ Contains(r, other[r[i]].mount) /\ other[other[r[i]].mount].kind = "adaptr"
             /\ k > 1 /\ k - 1 \in 1..Len(q)
             /\ other[q[k - 1]].kind = mem[q[k - 1]].kind
             /\ other[q[k - 1]].mount = mem[q[k - 1]].mount
             /\ \/ q[k - 1] = mem[q[k]].mount
                \/ mem[q[k - 1]].kind = "periph" /\ mem[q[k - 1]].mount = mem[q[k]].mount
  <2>1. mem[q[k]].kind = "periph" /\ other[q[k]].mount = mem[q[k]].mount
    BY <1>4, <1>6 DEF Agree
  <2>2. /\ Contains(q, mem[q[k]].mount) /\ mem[mem[q[k]].mount].kind = "adaptr" /\ k > 1
        /\ \/ q[k - 1] = mem[q[k]].mount
           \/ mem[q[k - 1]].kind = "periph" /\ mem[q[k - 1]].mount = mem[q[k]].mount
    BY <2>1 DEF Ranked
  <2>3. k - 1 \in 1..Len(q)
    BY <1>2, <2>2
  <2>4. /\ other[q[k - 1]].kind = mem[q[k - 1]].kind
        /\ other[q[k - 1]].mount = mem[q[k - 1]].mount
    BY <1>4, <2>3 DEF Agree
  <2> QED BY <1>5, <1>6, <2>1, <2>2, <2>3, <2>4
<1>7. CASE i < j + 1
  <2>1. i \in 1..Len(q) /\ r[i] = q[i]
    BY <1>2, <1>3, <1>7
  <2>2. i > 1 /\ i - 1 \in 1..Len(q)
    BY <1>6, <2>1
  <2>3. r[i - 1] = q[i - 1]
    BY <1>2, <1>3, <1>7, <2>2
  <2> QED BY <1>6, <2>1, <2>3
<1>8. CASE i = j + 1
  <2>1. r[i] = o /\ i > 1 /\ i - 1 = j
    BY <1>2, <1>3, <1>8
  <2>2. r[j] = q[j]
    BY <1>2, <1>3
  <2>3. Contains(q, q[j])
    BY DEF Contains
  <2> QED BY <1>5, <2>1, <2>2, <2>3
<1>9. CASE i > j + 1
  <2>1. PICK k : k = i - 1
    OBVIOUS
  <2>2. k \in 1..Len(q) /\ r[i] = q[k] /\ i > 1 /\ k > j
    BY <1>2, <1>3, <1>9, <2>1
  <2>3. CASE k = j + 1
    <3>1. r[i - 1] = o /\ k - 1 = j
      BY <1>2, <1>3, <2>1, <2>2, <2>3
    <3>2. mem[q[k]].mount = q[j]
      <4>1. q[k - 1] = q[j] /\ mem[q[k - 1]].kind = "adaptr"
        BY <3>1
      <4> QED BY <1>6, <2>2, <4>1
    <3>3. other[r[i]].mount = q[j]
      BY <1>6, <2>2, <3>2
    <3>4. Contains(r, other[r[i]].mount) /\ other[other[r[i]].mount].kind = "adaptr"
      BY <1>6, <2>2
    <3> QED BY <2>2, <3>1, <3>3, <3>4
  <2>4. CASE k # j + 1
    <3>1. r[i - 1] = q[k - 1]
      BY <1>2, <1>3, <2>1, <2>2, <2>4
    <3> QED BY <1>6, <2>2, <3>1
  <2> QED BY <2>3, <2>4
<1> QED BY <1>2, <1>3, <1>7, <1>8, <1>9

LEMMA RankedRemoved ==
  ASSUME NEW S, NEW q \in Seq(S), NEW mem, Ranked(q, mem), NEW o, Contains(q, o), Distinct(q),
         \A i \in 1..Len(q) : mem[q[i]].kind = "periph" => mem[q[i]].mount # o,
         NEW other, Agree(q, mem, other, o)
  PROVE  Ranked(Unlink(q, o), other)
<1>1. PICK r : r = Unlink(q, o)
  OBVIOUS
<1>2. PICK j \in 1..Len(q) :
        /\ q[j] = o /\ Len(r) = Len(q) - 1
        /\ \A i \in 1..(Len(q) - 1) : r[i] = IF i < j THEN q[i] ELSE q[i + 1]
  BY <1>1, UnlinkPlace
<1>3. Len(q) \in Nat /\ \A i \in 1..Len(q) : q[i] = o => i = j
  BY <1>2, LenProperties DEF Distinct
<1>4. \A x : Contains(q, x) /\ x # o => Contains(r, x) /\ other[x].kind = mem[x].kind
  <2>1. ASSUME NEW x, Contains(q, x), x # o
        PROVE  Contains(r, x) /\ other[x].kind = mem[x].kind
    <3>1. PICK i \in 1..Len(q) : q[i] = x
      BY <2>1 DEF Contains
    <3>2. CASE i < j
      <4>1. i \in 1..(Len(q) - 1) /\ r[i] = x
        BY <1>2, <1>3, <3>1, <3>2
      <4> QED BY <1>2, <2>1, <3>1, <4>1 DEF Contains, Agree
    <3>3. CASE ~(i < j)
      <4>1. i # j
        BY <1>2, <2>1, <3>1
      <4>2. i - 1 \in 1..(Len(q) - 1) /\ ~(i - 1 < j) /\ (i - 1) + 1 = i
        BY <1>2, <1>3, <3>1, <3>3, <4>1
      <4>3. r[i - 1] = x
        BY <1>2, <3>1, <4>2
      <4> QED BY <1>2, <2>1, <3>1, <4>2, <4>3 DEF Contains, Agree
    <3> QED BY <3>2, <3>3
  <2> QED BY <2>1
<1> DEFINE Ranks(i) ==
      /\ Contains(r, other[r[i]].mount)
      /\ other[other[r[i]].mount].kind = "adaptr"
      /\ i > 1
      /\ \/ r[i - 1] = other[r[i]].mount
         \/ /\ other[r[i - 1]].kind = "periph"
            /\ other[r[i - 1]].mount = other[r[i]].mount
<1> SUFFICES ASSUME NEW i \in 1..Len(r), other[r[i]].kind = "periph"
             PROVE  Ranks(i)
  BY <1>1 DEF Ranked
\* The place i of the new list that was the place k of the old one.
<1>5. ASSUME NEW k \in 1..Len(q), r[i] = q[k], k # j
      PROVE  /\ mem[q[k]].kind = "periph" /\ other[q[k]].mount = mem[q[k]].mount
             /\ mem[q[k]].mount # o
             /\ Contains(r, other[r[i]].mount) /\ other[other[r[i]].mount].kind = "adaptr"
             /\ k > 1 /\ k - 1 \in 1..Len(q)
             /\ \/ q[k - 1] = mem[q[k]].mount
                \/ mem[q[k - 1]].kind = "periph" /\ mem[q[k - 1]].mount = mem[q[k]].mount
             /\ q[k - 1] # o => /\ other[q[k - 1]].kind = mem[q[k - 1]].kind
                                /\ other[q[k - 1]].mount = mem[q[k - 1]].mount
  <2>1. q[k] # o /\ mem[q[k]].kind = "periph" /\ other[q[k]].mount = mem[q[k]].mount
    BY <1>3, <1>5 DEF Agree
  <2>2. /\ Contains(q, mem[q[k]].mount) /\ mem[mem[q[k]].mount].kind = "adaptr" /\ k > 1
        /\ \/ q[k - 1] = mem[q[k]].mount
           \/ mem[q[k - 1]].kind = "periph" /\ mem[q[k - 1]].mount = mem[q[k]].mount
    BY <2>1 DEF Ranked
  <2>3. k - 1 \in 1..Len(q)
    BY <1>3, <2>2
  <2>4. q[k - 1] # o => /\ other[q[k - 1]].kind = mem[q[k - 1]].kind
                        /\ other[q[k - 1]].mount = mem[q[k - 1]].mount
    BY <2>3 DEF Agree
  <2>5. mem[q[k]].mount # o
    BY <2>1
  <2>6. Contains(r, other[r[i]].mount) /\ other[other[r[i]].mount].kind = "adaptr"
    BY <1>4, <1>5, <2>1, <2>2, <2>5
  <2> QED BY <2>1, <2>2, <2>3, <2>4, <2>5, <2>6
<1>6. CASE i < j
  <2>1. i \in 1..Len(q) /\ r[i] = q[i] /\ i # j
    BY <1>2, <1>3, <1>6
  <2>2. i > 1 /\ i - 1 \in 1..Len(q) /\ i - 1 # j
    BY <1>5, <1>6, <2>1, <1>2, <1>3
  <2>3. r[i - 1] = q[i - 1] /\ q[i - 1] # o
    BY <1>2, <1>3, <1>6, <2>2
  <2> QED BY <1>5, <2>1, <2>3
<1>7. CASE i > j
  <2>1. PICK k : k = i + 1
    OBVIOUS
  <2>2. k \in 1..Len(q) /\ r[i] = q[k] /\ k # j /\ i > 1 /\ k - 1 = i
    BY <1>2, <1>3, <1>7, <2>1
  <2>3. r[i - 1] = q[i] /\ q[i] # o
    <3>1. i - 1 \in 1..(Len(q) - 1) /\ ~(i - 1 < j) /\ (i - 1) + 1 = i
      BY <1>2, <1>3, <1>7, <2>2
    <3> QED BY <1>2, <1>3, <1>7, <3>1
  <2> QED BY <1>5, <2>2, <2>3
\* The one behind o: it is no periph of o, so o is a periph like it.
<1>8. CASE i = j
  <2>1. PICK k : k = i + 1
    OBVIOUS
  <2>2. k \in 1..Len(q) /\ r[i] = q[k] /\ k # j /\ k - 1 = j
    BY <1>2, <1>3, <1>8, <2>1
  <2>3. mem[o].kind = "periph" /\ mem[o].mount = mem[q[k]].mount
    BY <1>2, <1>5, <2>2
  <2>4. /\ j > 1
        /\ \/ q[j - 1] = mem[o].mount
           \/ mem[q[j - 1]].kind = "periph" /\ mem[q[j - 1]].mount = mem[o].mount
    BY <1>2, <2>3 DEF Ranked
  <2>5. j - 1 \in 1..Len(q) /\ j - 1 # j /\ j - 1 \in 1..(Len(q) - 1) /\ j - 1 < j
    BY <1>2, <1>3, <2>4
  <2>6. r[i - 1] = q[j - 1] /\ q[j - 1] # o
    BY <1>2, <1>3, <1>8, <2>5
  <2>7. /\ other[q[j - 1]].kind = mem[q[j - 1]].kind
        /\ other[q[j - 1]].mount = mem[q[j - 1]].mount
    BY <2>5, <2>6 DEF Agree
  <2> QED BY <1>5, <1>8, <2>2, <2>3, <2>4, <2>6, <2>7
<1> QED BY <1>2, <1>3, <1>6, <1>7, <1>8

-----------------------------------------------------------------------------
(* MDS_DeviceIsBusy                                                        *)

LEMMA BehindIs ==
  ASSUME NEW t
  PROVE  Behind(t) <=> Ranked(t.linked, t.mem)
BY DEF Behind, Ranked

\* The first periph of a in the registry has a right before it.
LEMMA BusyIsMounted ==
  ASSUME NEW t, Typed(t), Behind(t), Registered(t), NEW a
  PROVE  IsBusy(t, a) <=> \E p \in OfKind(t, "periph") : t.mem[p].mount = a
<1>1. /\ DOMAIN t.linked = 1..Len(t.linked) /\ Len(t.linked) \in Nat
  BY LenProperties DEF Typed
<1>2. ASSUME IsBusy(t, a)
      PROVE  \E p \in OfKind(t, "periph") : t.mem[p].mount = a
  <2>1. PICK i \in DOMAIN t.linked :
          /\ t.linked[i] = a /\ i < Len(t.linked)
          /\ t.mem[t.linked[i + 1]].kind = "periph" /\ t.mem[t.linked[i + 1]].mount = a
    BY <1>2 DEF IsBusy
  <2>2. i + 1 \in DOMAIN t.linked
    BY <1>1, <2>1
  <2> QED BY <2>1, <2>2 DEF OfKind, Device, Range
<1>3. ASSUME NEW p \in OfKind(t, "periph"), t.mem[p].mount = a
      PROVE  IsBusy(t, a)
  <2> DEFINE of == {i \in 1..Len(t.linked) :
                      t.mem[t.linked[i]].kind = "periph" /\ t.mem[t.linked[i]].mount = a}
  <2>1. of \in SUBSET Nat /\ of # {}
    BY <1>1, <1>3 DEF OfKind, Device, Range
  <2>2. PICK m \in of : \A n \in of : m <= n
    <3> HIDE DEF of
    <3> QED BY <2>1, LeastNatural
  <2>3. /\ m > 1
        /\ \/ t.linked[m - 1] = a
           \/ /\ t.mem[t.linked[m - 1]].kind = "periph"
              /\ t.mem[t.linked[m - 1]].mount = a
    BY <2>2 DEF Behind
  <2>4. m - 1 \in 1..Len(t.linked) /\ ~(m <= m - 1) /\ m - 1 + 1 = m /\ m - 1 < Len(t.linked)
    BY <1>1, <2>2, <2>3
  <2>5. m - 1 \notin of
    <3> HIDE DEF of
    <3> QED BY <2>2, <2>4
  <2>6. t.linked[m - 1] = a
    BY <2>3, <2>4, <2>5
  <2> QED BY <1>1, <2>2, <2>4, <2>6 DEF IsBusy
<1> QED BY <1>2, <1>3

-----------------------------------------------------------------------------
(* A device more, a device less                                            *)

\* Of the devices t has, u keeps the owner of each adaptr that is open and what
\* its driver is open for, and the periphs, all but those in X.
HwKept(t, o, st) == st.hw = Null \/ (o \in DOMAIN t.mem /\ st.hw = t.mem[o].hw)
KeepsBut(t, u, X) ==
  /\ \A o \in DOMAIN u.mem :
       /\ HwKept(t, o, u.mem[o])
       /\ u.mem[o].kind = "adaptr" /\ u.mem[o].open =>
            /\ o \in DOMAIN t.mem /\ t.mem[o].kind = "adaptr" /\ t.mem[o].open
            /\ u.mem[o].owner = t.mem[o].owner
  /\ \A p \in OfKind(t, "periph") \ X :
       p \in OfKind(u, "periph") /\ u.mem[p].mount = t.mem[p].mount
Keeps(t, u) == KeepsBut(t, u, {})

LEMMA Disjoint ==
  /\ Null \notin Address /\ Null \notin Static /\ Address \cap Static = {}
BY HeapAssumption, ObjectAssumption DEF Address

LEMMA Owners ==
  ASSUME NEW t, NEW H, Consistent(t, H)
  PROVE  /\ H \subseteq UsedNodes(t.h) /\ DOMAIN t.mem \ Static \subseteq UsedNodes(t.h)
         /\ UsedNodes(t.h) \subseteq Address
         /\ \A o \in DOMAIN t.mem : t.mem[o].handle \in UsedNodes(t.h) \cup {Null}
<1>1. H \subseteq Address /\ DOMAIN t.mem \ Static \subseteq Address /\ Null \notin Address
  BY Disjoint DEF Consistent, Typed, Apart
<1>2. UsedNodes(t.h) = (H \cup (DOMAIN t.mem \ Static) \cup Handles(t.mem)) \ {Null}
  BY DEF Consistent, Exact
<1>3. UsedNodes(t.h) \subseteq Address
  BY UsedNodesAddress DEF Consistent, Typed
<1> QED BY <1>1, <1>2, <1>3 DEF Handles

LEMMA AddDevice ==
  ASSUME NEW t, NEW H, Consistent(t, H),
         NEW o \in Address \cup Static, ~Contains(t.linked, o), o \notin UsedNodes(t.h),
         NEW st \in Struct, st.kind # "none", ~st.open,
         HwKept(t, o, st), st.handle \notin UsedNodes(t.h) \cup {o},
         o \in Static \/ st.kind = "periph" => st.handle = Null,
         NEW h, GoodHeap(h),
         UsedNodes(h) = UsedNodes(t.h) \cup (({o} \ Static) \cup ({st.handle} \ {Null})),
         NEW q, q \in Seq(DOMAIN t.mem \cup {o}), Distinct(q),
         \A x : Contains(q, x) <=> Contains(t.linked, x) \/ x = o,
         NEW mem, mem = Given(t.mem, o, st), Ranked(q, mem),
         NEW u, u = [h |-> h, linked |-> q, mem |-> mem]
  PROVE  Consistent(u, H) /\ Keeps(t, u)
<1>1. u.h = h /\ u.linked = q /\ u.mem = mem
  OBVIOUS
<1>2. /\ DOMAIN mem = DOMAIN t.mem \cup {o} /\ mem[o] = st
      /\ \A x \in DOMAIN t.mem \ {o} : mem[x] = t.mem[x]
  BY DEF Given
<1>3. /\ Static \subseteq DOMAIN t.mem /\ DOMAIN t.mem \subseteq Address \cup Static
      /\ t.mem \in [DOMAIN t.mem -> Struct]
  BY DEF Consistent, Typed
<1>4. /\ H \subseteq UsedNodes(t.h) /\ DOMAIN t.mem \ Static \subseteq UsedNodes(t.h)
      /\ UsedNodes(t.h) \subseteq Address
      /\ \A x \in DOMAIN t.mem : t.mem[x].handle \in UsedNodes(t.h) \cup {Null}
  BY Owners
<1>5. o \in Static \/ o \notin DOMAIN t.mem
  BY <1>4
<1>6. o \in DOMAIN t.mem => t.mem[o].handle = Null
  BY <1>3, <1>5 DEF Consistent, Registered
<1>7. st.handle \in Address \cup {Null}
  BY DEF Struct
<1>8. Typed(u)
  <2>1. mem \in [DOMAIN mem -> Struct]
    BY <1>2, <1>3 DEF Given
  <2> QED BY <1>1, <1>2, <1>3, <2>1 DEF Typed, GoodHeap
<1>9. Exact(u, H)
  <2>1. Handles(mem) \ {Null} = (Handles(t.mem) \cup {st.handle}) \ {Null}
    <3>1. ASSUME NEW x, x \in Handles(mem), x # Null
          PROVE  x \in Handles(t.mem) \cup {st.handle}
      BY <1>2, <3>1 DEF Handles
    <3>2. ASSUME NEW x, x \in Handles(t.mem), x # Null
          PROVE  x \in Handles(mem)
      <4>1. PICK y \in DOMAIN t.mem : x = t.mem[y].handle
        BY <3>2 DEF Handles
      <4>2. y # o
        BY <1>6, <3>2, <4>1
      <4> QED BY <1>2, <4>1, <4>2 DEF Handles
    <3>3. st.handle \in Handles(mem)
      BY <1>2 DEF Handles
    <3> QED BY <3>1, <3>2, <3>3
  <2>2. UsedNodes(t.h) = (H \cup (DOMAIN t.mem \ Static) \cup Handles(t.mem)) \ {Null}
    BY DEF Consistent, Exact
  <2>3. o # Null
    BY Disjoint
  <2>4. UsedNodes(h) = (H \cup (DOMAIN mem \ Static) \cup Handles(mem)) \ {Null}
    BY <1>2, <2>1, <2>2, <2>3
  <2> QED BY <1>1, <2>4 DEF Exact, GoodHeap
<1>10. Apart(u, H)
  <2>1. /\ H \subseteq Address /\ H \cap DOMAIN t.mem = {}
        /\ \A x \in DOMAIN t.mem : t.mem[x].handle \notin H \cup DOMAIN t.mem
        /\ \A x, y \in DOMAIN t.mem :
             t.mem[x].handle = t.mem[y].handle => x = y \/ t.mem[x].handle = Null
    BY DEF Consistent, Apart
  <2>2. o \notin H /\ o # Null
    BY <1>4, Disjoint
  <2>3. st.handle \notin H \cup DOMAIN mem
    <3>1. st.handle \notin H /\ st.handle # o
      BY <1>4
    <3>2. st.handle \notin DOMAIN t.mem
      BY <1>3, <1>4, <1>7, Disjoint
    <3> QED BY <1>2, <3>1, <3>2
  <2>4. \A x \in DOMAIN t.mem : t.mem[x].handle # o
    BY <1>4, <2>2
  <2>5. \A x \in DOMAIN t.mem : t.mem[x].handle # Null => t.mem[x].handle # st.handle
    BY <1>4
  <2>6. ASSUME NEW x \in DOMAIN mem PROVE mem[x].handle \notin H \cup DOMAIN mem
    <3>1. CASE x = o
      BY <1>2, <2>3, <3>1
    <3>2. CASE x # o
      BY <1>2, <2>1, <2>4, <3>2
    <3> QED BY <3>1, <3>2
  <2>7. ASSUME NEW x \in DOMAIN mem, NEW y \in DOMAIN mem, mem[x].handle = mem[y].handle
        PROVE  x = y \/ mem[x].handle = Null
    <3>1. CASE x # o /\ y # o
      BY <1>2, <2>1, <2>7, <3>1
    <3>2. CASE x = o /\ y # o
      BY <1>2, <2>5, <2>7, <3>2
    <3>3. CASE x # o /\ y = o
      BY <1>2, <2>5, <2>7, <3>3
    <3> QED BY <3>1, <3>2, <3>3
  <2> QED BY <1>1, <1>2, <2>1, <2>2, <2>6, <2>7 DEF Apart
<1>11. Registered(u)
  <2>1. ASSUME NEW x \in DOMAIN mem
        PROVE  /\ Contains(q, x) <=> mem[x].kind # "none"
               /\ x \in Static \/ mem[x].kind = "periph" => mem[x].handle = Null
               /\ x \notin Static => Contains(q, x)
    <3>1. CASE x = o
      BY <1>2, <3>1
    <3>2. CASE x # o
      <4>1. x \in DOMAIN t.mem /\ mem[x] = t.mem[x]
        BY <1>2, <3>2
      <4>2. /\ Contains(t.linked, x) <=> t.mem[x].kind # "none"
            /\ x \in Static \/ t.mem[x].kind = "periph" => t.mem[x].handle = Null
            /\ x \notin Static => Contains(t.linked, x)
        BY <4>1 DEF Consistent, Registered
      <4> QED BY <3>2, <4>1, <4>2
    <3> QED BY <3>1, <3>2
  <2> QED BY <1>1, <2>1 DEF Registered
<1>12. Behind(u)
  BY <1>1, BehindIs
<1>13. Keeps(t, u)
  <2>1. ASSUME NEW x \in DOMAIN u.mem
        PROVE  /\ HwKept(t, x, u.mem[x])
               /\ u.mem[x].kind = "adaptr" /\ u.mem[x].open =>
                    /\ x \in DOMAIN t.mem /\ t.mem[x].kind = "adaptr" /\ t.mem[x].open
                    /\ u.mem[x].owner = t.mem[x].owner
    <3>1. CASE x = o
      BY <1>1, <1>2, <3>1
    <3>2. CASE x # o
      BY <1>1, <1>2, <3>2 DEF HwKept
    <3> QED BY <3>1, <3>2
  <2>2. ASSUME NEW p \in OfKind(t, "periph")
        PROVE  p \in OfKind(u, "periph") /\ u.mem[p].mount = t.mem[p].mount
    <3>1. p \in DOMAIN t.mem /\ Contains(t.linked, p) /\ t.mem[p].kind = "periph"
      BY DeviceIsLinked DEF OfKind, Consistent
    <3>2. p # o /\ Contains(u.linked, p) /\ u.mem[p] = t.mem[p]
      BY <1>1, <1>2, <3>1
    <3>3. p \in Device(u)
      BY <1>8, <3>2, DeviceIsLinked
    <3> QED BY <3>1, <3>2, <3>3 DEF OfKind
  <2> QED BY <2>1, <2>2 DEF Keeps, KeepsBut
<1> QED BY <1>8, <1>9, <1>10, <1>11, <1>12, <1>13 DEF Consistent

LEMMA RemoveDevice ==
  ASSUME NEW t, NEW H, Consistent(t, H), NEW o, Contains(t.linked, o),
         \A p \in OfKind(t, "periph") : t.mem[p].mount # o,
         NEW h, GoodHeap(h), UsedNodes(h) = UsedNodes(t.h) \ {o, t.mem[o].handle},
         NEW mem,
         \/ /\ o \notin Static
            /\ mem = Restrict(t.mem, DOMAIN t.mem \ {o})
         \/ /\ o \in Static
            /\ \E st \in Struct : /\ st.kind = "none" /\ st.handle = Null /\ st.hw = Null
                                  /\ mem = [t.mem EXCEPT ![o] = st],
         NEW u, u = [h |-> h, linked |-> Unlink(t.linked, o), mem |-> mem]
  PROVE  Consistent(u, H) /\ KeepsBut(t, u, {o})
<1>1. PICK q : q = Unlink(t.linked, o)
  OBVIOUS
<1>2. u.h = h /\ u.linked = q /\ u.mem = mem
  BY <1>1
<1>3. /\ Typed(t) /\ Ranked(t.linked, t.mem) /\ Distinct(t.linked)
      /\ t.linked \in Seq(DOMAIN t.mem)
      /\ Static \subseteq DOMAIN t.mem /\ DOMAIN t.mem \subseteq Address \cup Static
      /\ t.mem \in [DOMAIN t.mem -> Struct]
  BY BehindIs DEF Consistent, Typed, Registered
<1>4. o \in DOMAIN t.mem
  BY <1>3, DeviceIsLinked
<1>5. /\ q \in Seq(DOMAIN t.mem) /\ Distinct(q)
      /\ \A x : Contains(q, x) <=> Contains(t.linked, x) /\ x # o
  BY <1>1, <1>3, UnlinkProperties
<1>6. /\ \A x \in DOMAIN t.mem \ {o} : x \in DOMAIN mem /\ mem[x] = t.mem[x]
      /\ DOMAIN mem \subseteq DOMAIN t.mem /\ (o \in DOMAIN mem <=> o \in Static)
      /\ o \in DOMAIN mem => mem[o].kind = "none" /\ mem[o].handle = Null /\ mem[o].hw = Null
      /\ mem \in [DOMAIN mem -> Struct]
  <2>1. CASE o \notin Static
    BY <1>3, <2>1 DEF Restrict
  <2>2. CASE o \in Static
    BY <1>3, <1>4, <2>2
  <2> QED BY <2>1, <2>2
<1>7. /\ H \subseteq UsedNodes(t.h) /\ DOMAIN t.mem \ Static \subseteq UsedNodes(t.h)
      /\ UsedNodes(t.h) \subseteq Address
      /\ \A x \in DOMAIN t.mem : t.mem[x].handle \in UsedNodes(t.h) \cup {Null}
  BY Owners
<1>8. /\ H \subseteq Address /\ H \cap DOMAIN t.mem = {}
      /\ \A x \in DOMAIN t.mem : t.mem[x].handle \notin H \cup DOMAIN t.mem
      /\ \A x, y \in DOMAIN t.mem :
           t.mem[x].handle = t.mem[y].handle => x = y \/ t.mem[x].handle = Null
  BY DEF Consistent, Apart
<1>9. Typed(u)
  <2>1. q \in Seq(DOMAIN mem)
    <3>1. \A i \in 1..Len(q) : q[i] \in DOMAIN mem
      <4>1. ASSUME NEW i \in 1..Len(q) PROVE q[i] \in DOMAIN mem
        <5>1. q[i] \in DOMAIN t.mem
          BY <1>5, ElementOfSeq
        <5>2. Contains(q, q[i])
          BY DEF Contains
        <5> QED BY <1>5, <1>6, <5>1, <5>2
      <4> QED BY <4>1
    <3> QED BY <1>5, <3>1, SeqDef, LenProperties
  <2>2. Static \subseteq DOMAIN mem /\ DOMAIN mem \subseteq Address \cup Static
    BY <1>3, <1>6
  <2> QED BY <1>1, <1>2, <1>6, <2>1, <2>2 DEF Typed, GoodHeap
<1>10. Exact(u, H)
  <2>1. UsedNodes(t.h) = (H \cup (DOMAIN t.mem \ Static) \cup Handles(t.mem)) \ {Null}
    BY DEF Consistent, Exact
  <2>2. DOMAIN mem \ Static = (DOMAIN t.mem \ Static) \ {o}
    BY <1>6
  <2>3. Handles(mem) \ {Null} = Handles(t.mem) \ {Null, t.mem[o].handle}
    <3>1. ASSUME NEW x, x \in Handles(mem), x # Null
          PROVE  x \in Handles(t.mem) /\ x # t.mem[o].handle
      <4>1. PICK y \in DOMAIN mem : x = mem[y].handle
        BY <3>1 DEF Handles
      <4>2. y # o /\ y \in DOMAIN t.mem /\ mem[y] = t.mem[y]
        BY <1>6, <3>1, <4>1
      <4> QED BY <1>4, <1>8, <3>1, <4>1, <4>2 DEF Handles
    <3>2. ASSUME NEW x, x \in Handles(t.mem), x # Null, x # t.mem[o].handle
          PROVE  x \in Handles(mem)
      <4>1. PICK y \in DOMAIN t.mem : x = t.mem[y].handle
        BY <3>2 DEF Handles
      <4> QED BY <1>6, <3>2, <4>1 DEF Handles
    <3> QED BY <3>1, <3>2
  <2>4. /\ o \notin H /\ o \notin Handles(t.mem) /\ t.mem[o].handle \notin H
        /\ t.mem[o].handle \notin DOMAIN t.mem
    BY <1>4, <1>8 DEF Handles
  <2>5. UsedNodes(h) = (H \cup (DOMAIN mem \ Static) \cup Handles(mem)) \ {Null}
    BY <2>1, <2>2, <2>3, <2>4
  <2> QED BY <1>2, <2>5 DEF Exact, GoodHeap
<1>11. Apart(u, H)
  <2>1. ASSUME NEW x \in DOMAIN mem PROVE mem[x].handle \notin H \cup DOMAIN mem
    <3>1. CASE x = o
      <4>1. Null \notin H \cup DOMAIN mem
        BY <1>3, <1>6, <1>8, Disjoint
      <4> QED BY <1>6, <3>1, <4>1
    <3>2. CASE x # o
      BY <1>6, <1>8, <3>2
    <3> QED BY <3>1, <3>2
  <2>2. ASSUME NEW x \in DOMAIN mem, NEW y \in DOMAIN mem, mem[x].handle = mem[y].handle
        PROVE  x = y \/ mem[x].handle = Null
    BY <1>6, <1>8, <2>2
  <2> QED BY <1>2, <1>6, <1>8, <2>1, <2>2 DEF Apart
<1>12. Registered(u)
  <2>1. ASSUME NEW x \in DOMAIN mem
        PROVE  /\ Contains(q, x) <=> mem[x].kind # "none"
               /\ x \in Static \/ mem[x].kind = "periph" => mem[x].handle = Null
               /\ x \notin Static => Contains(q, x)
    <3>1. CASE x = o
      BY <1>5, <1>6, <3>1
    <3>2. CASE x # o
      <4>1. x \in DOMAIN t.mem /\ mem[x] = t.mem[x]
        BY <1>6, <3>2
      <4>2. /\ Contains(t.linked, x) <=> t.mem[x].kind # "none"
            /\ x \in Static \/ t.mem[x].kind = "periph" => t.mem[x].handle = Null
            /\ x \notin Static => Contains(t.linked, x)
        BY <4>1 DEF Consistent, Registered
      <4> QED BY <1>5, <3>2, <4>1, <4>2
    <3> QED BY <3>1, <3>2
  <2> QED BY <1>2, <1>5, <2>1 DEF Registered
<1>13. Behind(u)
  <2>1. Agree(t.linked, t.mem, mem, o)
    BY <1>3, <1>6, ElementOfSeq DEF Agree
  <2>2. \A i \in 1..Len(t.linked) :
          t.mem[t.linked[i]].kind = "periph" => t.mem[t.linked[i]].mount # o
    <3>1. ASSUME NEW i \in 1..Len(t.linked), t.mem[t.linked[i]].kind = "periph"
          PROVE  t.linked[i] \in OfKind(t, "periph")
      <4>1. Contains(t.linked, t.linked[i])
        BY DEF Contains
      <4> QED BY <1>3, <3>1, <4>1, DeviceIsLinked DEF OfKind
    <3> QED BY <3>1
  <2>3. Ranked(q, mem)
    BY <1>1, <1>3, <2>1, <2>2, RankedRemoved
  <2> QED BY <1>2, <2>3, BehindIs
<1>14. KeepsBut(t, u, {o})
  <2>1. ASSUME NEW x \in DOMAIN u.mem
        PROVE  /\ HwKept(t, x, u.mem[x])
               /\ u.mem[x].kind = "adaptr" /\ u.mem[x].open =>
                    /\ x \in DOMAIN t.mem /\ t.mem[x].kind = "adaptr" /\ t.mem[x].open
                    /\ u.mem[x].owner = t.mem[x].owner
    <3>1. CASE x = o
      BY <1>2, <1>6, <3>1 DEF HwKept
    <3>2. CASE x # o
      BY <1>2, <1>6, <3>2 DEF HwKept
    <3> QED BY <3>1, <3>2
  <2>2. ASSUME NEW p \in OfKind(t, "periph"), p # o
        PROVE  p \in OfKind(u, "periph") /\ u.mem[p].mount = t.mem[p].mount
    <3>1. p \in DOMAIN t.mem /\ Contains(t.linked, p) /\ t.mem[p].kind = "periph"
      BY <1>3, DeviceIsLinked DEF OfKind
    <3>2. Contains(u.linked, p) /\ u.mem[p] = t.mem[p]
      BY <1>2, <1>5, <1>6, <2>2, <3>1
    <3>3. p \in Device(u)
      BY <1>9, <3>2, DeviceIsLinked
    <3> QED BY <3>1, <3>2, <3>3 DEF OfKind
  <2> QED BY <2>1, <2>2 DEF KeepsBut
<1> QED BY <1>9, <1>10, <1>11, <1>12, <1>13, <1>14 DEF Consistent

\* The state u has other flags in its structures than t.
Touched(t, u) ==
  /\ u = [h |-> t.h, linked |-> t.linked, mem |-> u.mem]
  /\ DOMAIN u.mem = DOMAIN t.mem /\ u.mem \in [DOMAIN t.mem -> Struct]
  /\ \A o \in DOMAIN t.mem :
       /\ u.mem[o].kind = t.mem[o].kind /\ u.mem[o].mount = t.mem[o].mount
       /\ u.mem[o].handle = t.mem[o].handle

LEMMA TouchDevice ==
  ASSUME NEW t, NEW H, Consistent(t, H), NEW u, Touched(t, u)
  PROVE  /\ Consistent(u, H) /\ Device(u) = Device(t)
         /\ \A kind : OfKind(u, kind) = OfKind(t, kind)
<1>1. u.h = t.h /\ u.linked = t.linked /\ DOMAIN u.mem = DOMAIN t.mem
  BY DEF Touched
<1>2. Typed(t) /\ t.linked \in Seq(DOMAIN t.mem)
  BY DEF Consistent, Typed
<1>3. \A i \in 1..Len(t.linked) : t.linked[i] \in DOMAIN t.mem
  BY <1>2, ElementOfSeq
<1>4. Typed(u)
  BY <1>1, <1>2 DEF Touched, Typed
<1>5. Handles(u.mem) = Handles(t.mem)
  BY DEF Touched, Handles
<1>6. Exact(u, H)
  BY <1>1, <1>5 DEF Consistent, Exact
<1>7. Apart(u, H)
  BY <1>1 DEF Consistent, Apart, Touched
<1>8. Registered(u)
  BY <1>1 DEF Consistent, Registered, Touched
<1>9. Behind(u)
  <2> SUFFICES ASSUME NEW i \in 1..Len(t.linked), u.mem[t.linked[i]].kind = "periph"
               PROVE  /\ Contains(t.linked, u.mem[t.linked[i]].mount)
                      /\ u.mem[u.mem[t.linked[i]].mount].kind = "adaptr"
                      /\ i > 1
                      /\ \/ t.linked[i - 1] = u.mem[t.linked[i]].mount
                         \/ /\ u.mem[t.linked[i - 1]].kind = "periph"
                            /\ u.mem[t.linked[i - 1]].mount = u.mem[t.linked[i]].mount
    BY <1>1 DEF Behind
  <2>1. /\ t.mem[t.linked[i]].kind = "periph"
        /\ u.mem[t.linked[i]].mount = t.mem[t.linked[i]].mount
    BY <1>3 DEF Touched
  <2>2. /\ Contains(t.linked, t.mem[t.linked[i]].mount)
        /\ t.mem[t.mem[t.linked[i]].mount].kind = "adaptr"
        /\ i > 1
        /\ \/ t.linked[i - 1] = t.mem[t.linked[i]].mount
           \/ /\ t.mem[t.linked[i - 1]].kind = "periph"
              /\ t.mem[t.linked[i - 1]].mount = t.mem[t.linked[i]].mount
    BY <2>1 DEF Consistent, Behind
  <2>3. t.mem[t.linked[i]].mount \in DOMAIN t.mem
    BY <1>2, <2>2, DeviceIsLinked
  <2>4. i - 1 \in 1..Len(t.linked)
    BY <1>2, <2>2, LenProperties
  <2>5. t.linked[i - 1] \in DOMAIN t.mem
    BY <1>3, <2>4
  <2> QED BY <2>1, <2>2, <2>3, <2>5 DEF Touched
<1>10. Device(u) = Device(t)
  BY <1>1 DEF Device
<1>11. \A o \in Device(t) : o \in DOMAIN t.mem
  BY <1>2, DeviceIsLinked
<1> QED BY <1>4, <1>6, <1>7, <1>8, <1>9, <1>10, <1>11 DEF Consistent, OfKind, Touched

-----------------------------------------------------------------------------
(* The calls of the device layer that change the registry                  *)

LEMMA BlankType ==
  /\ Blank \in Struct /\ NewMutex \in [life : BOOLEAN, value : {0, 1}]
  /\ Blank.mutex \in [life : BOOLEAN, value : {0, 1}]
  /\ Blank.handle = Null /\ Blank.kind = "none" /\ Blank.open = FALSE /\ Blank.hw = Null
<1>1. Null \in Pointer /\ Null \in Address \cup {Null}
  BY DEF Pointer
<1>2. Blank \in Struct
  BY <1>1 DEF Blank, Struct
<1>3. NewMutex \in [life : BOOLEAN, value : {0, 1}]
  BY DEF Blank, NewMutex, MutexInit
<1> QED BY <1>2, <1>3 DEF Blank

LEMMA KeepsSame ==
  ASSUME NEW t, NEW H, Consistent(t, H), NEW u, u.mem = t.mem, u.linked = t.linked
  PROVE  Keeps(t, u)
BY DEF Keeps, KeepsBut, HwKept, OfKind, Device

\* A call that leaves the registry alone, and of the heap the used nodes.
LEMMA SameDevices ==
  ASSUME NEW t, NEW H, Consistent(t, H), NEW h, GoodHeap(h), UsedNodes(h) = UsedNodes(t.h),
         NEW u, u = [h |-> h, linked |-> t.linked, mem |-> t.mem]
  PROVE  Consistent(u, H) /\ Keeps(t, u)
<1>1. u.h = h /\ u.linked = t.linked /\ u.mem = t.mem
  OBVIOUS
<1>2. Keeps(t, u)
  BY <1>1, KeepsSame
<1>3. Typed(u)
  BY <1>1 DEF Consistent, Typed, GoodHeap
<1>4. Exact(u, H)
  BY <1>1 DEF Consistent, Exact, GoodHeap
<1> QED BY <1>1, <1>2, <1>3, <1>4 DEF Consistent, Apart, Registered, Behind

\* A module or an adaptr comes to the tail of the registry.
LEMMA AddAtTail ==
  ASSUME NEW t, NEW H, Consistent(t, H),
         NEW o \in Address \cup Static, ~Contains(t.linked, o), o \notin UsedNodes(t.h),
         NEW st \in Struct, st.kind \in {"module", "adaptr"}, ~st.open,
         st.handle \notin UsedNodes(t.h) \cup {o}, o \in Static => st.handle = Null,
         HwKept(t, o, st),
         NEW h, GoodHeap(h),
         UsedNodes(h) = UsedNodes(t.h) \cup (({o} \ Static) \cup ({st.handle} \ {Null})),
         NEW u, u = [h |-> h, linked |-> Append(t.linked, o), mem |-> Given(t.mem, o, st)]
  PROVE  Consistent(u, H) /\ Keeps(t, u)
<1>1. PICK q : q = Append(t.linked, o)
  OBVIOUS
<1>2. PICK mem : mem = Given(t.mem, o, st)
  OBVIOUS
<1>3. PICK S : S = DOMAIN t.mem \cup {o}
  OBVIOUS
<1>4. t.linked \in Seq(S) /\ o \in S /\ Distinct(t.linked)
  <2>1. t.linked \in Seq(DOMAIN t.mem) /\ Distinct(t.linked)
    BY DEF Consistent, Typed, Registered
  <2> QED BY <1>3, <2>1, SeqDef, ElementOfSeq, LenProperties
<1>5. q \in Seq(S) /\ Distinct(q) /\ \A x : Contains(q, x) <=> Contains(t.linked, x) \/ x = o
  BY <1>1, <1>4, PushProperties DEF PushTail
<1>6. Ranked(q, mem)
  <2>1. Agree(t.linked, t.mem, mem, o)
    <3>1. \A i \in 1..Len(t.linked) : t.linked[i] \in DOMAIN t.mem
      BY ElementOfSeq DEF Consistent, Typed
    <3> QED BY <1>2, <3>1 DEF Agree, Given
  <2>2. mem[o].kind # "periph"
    BY <1>2 DEF Given
  <2>3. Ranked(t.linked, t.mem)
    BY BehindIs DEF Consistent
  <2> QED BY <1>1, <1>4, <2>1, <2>2, <2>3, RankedAppended
<1>7. /\ u = [h |-> h, linked |-> q, mem |-> mem]
      /\ st.kind # "none" /\ (o \in Static \/ st.kind = "periph" => st.handle = Null)
  BY <1>1, <1>2
<1> QED BY <1>2, <1>3, <1>5, <1>6, <1>7, AddDevice

LEMMA InsertIs ==
  ASSUME NEW S, NEW l \in Seq(S), NEW j \in 1..Len(l), NEW o \in S,
         ~Contains(l, o), Distinct(l), NEW q, q = InsertAt(l, j + 1, o)
  PROVE  q \in Seq(S) /\ Distinct(q) /\ \A x : Contains(q, x) <=> Contains(l, x) \/ x = o
<1>1. Len(l) \in Nat /\ DOMAIN l = 1..Len(l)
  BY LenProperties
<1>2. /\ q \in Seq(S) /\ Len(q) = Len(l) + 1
      /\ \A i \in 1..(Len(l) + 1) :
           q[i] = IF i < j + 1 THEN l[i] ELSE IF i = j + 1 THEN o ELSE l[i - 1]
  <2>1. q \in Seq(S) /\ Spliced(q, l, j, o)
    BY InsertAfter
  <2> QED BY <2>1 DEF Spliced
<1>3. \A i \in 1..Len(l) : l[i] # o
  BY DEF Contains
<1>4. Distinct(q)
  <2>1. DOMAIN q = 1..(Len(l) + 1)
    BY <1>2, LenProperties
  <2>2. \A i, k \in 1..Len(l) : l[i] = l[k] => i = k
    BY <1>1 DEF Distinct
  <2>3. ASSUME NEW i \in DOMAIN q
        PROVE  \/ i < j + 1 /\ i \in 1..Len(l) /\ q[i] = l[i]
               \/ i = j + 1 /\ q[i] = o
               \/ i > j + 1 /\ i - 1 \in 1..Len(l) /\ q[i] = l[i - 1]
    <3>1. i \in 1..(Len(l) + 1)
      BY <2>1
    <3>2. q[i] = IF i < j + 1 THEN l[i] ELSE IF i = j + 1 THEN o ELSE l[i - 1]
      BY <1>2, <3>1
    <3>3. CASE i < j + 1
      BY <1>1, <3>1, <3>2, <3>3
    <3>4. CASE i = j + 1
      BY <3>2, <3>4
    <3>5. CASE i > j + 1
      BY <1>1, <3>1, <3>2, <3>5
    <3> QED BY <1>1, <3>1, <3>3, <3>4, <3>5
  <2>4. ASSUME NEW i \in DOMAIN q, NEW k \in DOMAIN q, q[i] = q[k] PROVE i = k
    <3>1. CASE i = j + 1
      BY <1>3, <2>3, <2>4, <3>1
    <3>2. CASE k = j + 1
      BY <1>3, <2>3, <2>4, <3>2
    <3>3. ASSUME NEW z \in DOMAIN q, z # j + 1
          PROVE  \E x \in 1..Len(l) : q[z] = l[x] /\ x = IF z < j + 1 THEN z ELSE z - 1
      BY <2>1, <2>3, <3>3
    <3>4. CASE i # j + 1 /\ k # j + 1
      <4>1. PICK x \in 1..Len(l) : q[i] = l[x] /\ x = IF i < j + 1 THEN i ELSE i - 1
        BY <3>3, <3>4
      <4>2. PICK y \in 1..Len(l) : q[k] = l[y] /\ y = IF k < j + 1 THEN k ELSE k - 1
        BY <3>3, <3>4
      <4>3. x = y
        BY <2>2, <2>4, <4>1, <4>2
      <4>4. i \in Nat /\ k \in Nat
        BY <1>1, <2>1
      <4> QED BY <3>4, <4>1, <4>2, <4>3, <4>4
    <3> QED BY <3>1, <3>2, <3>4
  <2> QED BY <2>4 DEF Distinct
<1>5. \A x : Contains(q, x) <=> Contains(l, x) \/ x = o
  <2>1. ASSUME NEW x, Contains(q, x) PROVE Contains(l, x) \/ x = o
    <3>1. PICK i \in 1..(Len(l) + 1) : q[i] = x
      BY <1>2, <2>1 DEF Contains
    <3>2. CASE i < j + 1
      <4>1. i \in 1..Len(l) /\ l[i] = x
        BY <1>1, <1>2, <3>1, <3>2
      <4> QED BY <4>1 DEF Contains
    <3>3. CASE i = j + 1
      <4>1. x = o
        BY <1>1, <1>2, <3>1, <3>3
      <4> QED BY <4>1
    <3>4. CASE i > j + 1
      <4>1. i - 1 \in 1..Len(l) /\ l[i - 1] = x
        BY <1>1, <1>2, <3>1, <3>4
      <4> QED BY <4>1 DEF Contains
    <3> QED BY <1>1, <3>2, <3>3, <3>4
  <2>2. ASSUME NEW x, Contains(l, x) PROVE Contains(q, x)
    <3>1. PICK i \in 1..Len(l) : l[i] = x
      BY <2>2 DEF Contains
    <3>2. CASE i < j + 1
      <4>1. i \in 1..Len(q) /\ q[i] = x
        BY <1>1, <1>2, <3>1, <3>2
      <4> QED BY <4>1 DEF Contains
    <3>3. CASE ~(i < j + 1)
      <4>1. i + 1 \in 1..Len(q) /\ ~(i + 1 < j + 1) /\ i + 1 # j + 1 /\ i + 1 - 1 = i
        BY <1>1, <1>2, <3>1, <3>3
      <4>2. q[i + 1] = x
        BY <1>2, <3>1, <4>1
      <4> QED BY <4>1, <4>2 DEF Contains
    <3> QED BY <3>2, <3>3
  <2>3. Contains(q, o)
    <3>1. j + 1 \in 1..Len(q) /\ q[j + 1] = o
      BY <1>1, <1>2
    <3> QED BY <3>1 DEF Contains
  <2> QED BY <2>1, <2>2, <2>3
<1> QED BY <1>2, <1>4, <1>5

\* A periph comes behind its adaptr.
LEMMA AddBehind ==
  ASSUME NEW t, NEW H, Consistent(t, H),
         NEW o \in Address \cup Static, ~Contains(t.linked, o), o \notin UsedNodes(t.h),
         NEW st \in Struct, st.kind = "periph", ~st.open, st.handle = Null, HwKept(t, o, st),
         NEW a \in OfKind(t, "adaptr"), st.mount = a,
         NEW h, GoodHeap(h), UsedNodes(h) = UsedNodes(t.h) \cup ({o} \ Static),
         NEW u, NEW j \in 1..Len(t.linked), t.linked[j] = a,
         u = [h |-> h, linked |-> InsertAt(t.linked, j + 1, o), mem |-> Given(t.mem, o, st)]
  PROVE  Consistent(u, H) /\ Keeps(t, u)
<1>1. PICK q : q = InsertAt(t.linked, j + 1, o)
  OBVIOUS
<1>2. PICK mem : mem = Given(t.mem, o, st)
  OBVIOUS
<1>3. PICK S : S = DOMAIN t.mem \cup {o}
  OBVIOUS
<1>4. /\ t.linked \in Seq(S) /\ o \in S /\ Distinct(t.linked)
      /\ Len(t.linked) \in Nat /\ DOMAIN t.linked = 1..Len(t.linked)
  <2>1. t.linked \in Seq(DOMAIN t.mem) /\ Distinct(t.linked)
    BY DEF Consistent, Typed, Registered
  <2> QED BY <1>3, <2>1, SeqDef, ElementOfSeq, LenProperties
<1>5. q \in Seq(S) /\ Distinct(q) /\ \A x : Contains(q, x) <=> Contains(t.linked, x) \/ x = o
  BY <1>1, <1>4, InsertIs
<1>6. Ranked(q, mem)
  <2>1. Agree(t.linked, t.mem, mem, o)
    <3>1. \A i \in 1..Len(t.linked) : t.linked[i] \in DOMAIN t.mem
      BY ElementOfSeq DEF Consistent, Typed
    <3> QED BY <1>2, <3>1 DEF Agree, Given
  <2>2. mem[o].kind = "periph" /\ mem[o].mount = t.linked[j]
    BY <1>2 DEF Given
  <2>3. Ranked(t.linked, t.mem) /\ t.mem[t.linked[j]].kind = "adaptr"
    BY BehindIs DEF Consistent, OfKind
  <2> QED BY <1>1, <1>4, <2>1, <2>2, <2>3, RankedInserted
<1>7. /\ u = [h |-> h, linked |-> q, mem |-> mem]
       /\ st.kind # "none" /\ (o \in Static \/ st.kind = "periph" => st.handle = Null)
       /\ UsedNodes(h) = UsedNodes(t.h) \cup (({o} \ Static) \cup ({st.handle} \ {Null}))
  BY <1>1, <1>2
<1>8. st.handle \notin UsedNodes(t.h) \cup {o}
  BY Owners, Disjoint
<1>9. q \in Seq(DOMAIN t.mem \cup {o})
  BY <1>3, <1>5
<1> QED BY <1>2, <1>5, <1>6, <1>7, <1>8, <1>9, AddDevice

-----------------------------------------------------------------------------
(* The calls of the device layer between the critical sections             *)

\* What a call of main code keeps of devices that t has.
Good(t, H, u) == Consistent(u, H) /\ Keeps(t, u)

LEMMA NothingDone ==
  ASSUME NEW t, NEW H, Consistent(t, H)
  PROVE  Good(t, H, t)
BY DEF Good, Keeps, KeepsBut, HwKept

LEMMA ModuleInitGood ==
  ASSUME NEW t, NEW H, Consistent(t, H), NEW o \in Static, ~Contains(t.linked, o),
         NEW driver \in BOOLEAN, NEW ok \in BOOLEAN, NEW u, u = ModuleInit(t, o, driver, ok)
  PROVE  Good(t, H, u)
<1>1. CASE ~ok
  BY <1>1, NothingDone DEF ModuleInit
<1>2. CASE ok
  <2>1. PICK st : st = [t.mem[o] EXCEPT !.kind = "module", !.open = FALSE, !.driver = driver]
    OBVIOUS
  <2>2. /\ t = [h |-> t.h, linked |-> t.linked, mem |-> t.mem] /\ o \in DOMAIN t.mem
        /\ t.mem \in [DOMAIN t.mem -> Struct] /\ HeapType(t.h) /\ WellFormed(t.h)
    BY DEF Consistent, Typed, Exact
  <2>3. t.mem[o] \in Struct /\ t.mem[o].handle = Null
    BY <2>2 DEF Consistent, Registered
  <2>4. /\ st \in Struct /\ st.kind = "module" /\ ~st.open /\ st.handle = Null
        /\ HwKept(t, o, st)
    BY <2>1, <2>2, <2>3 DEF Struct, HwKept
  <2>5. [t.mem EXCEPT ![o].kind = "module", ![o].open = FALSE, ![o].driver = driver]
          = Given(t.mem, o, st)
    BY <2>1, <2>2 DEF Given
  <2>6. u = [h |-> t.h, linked |-> Append(t.linked, o), mem |-> Given(t.mem, o, st)]
    BY <1>2, <2>2, <2>5 DEF ModuleInit, ObjectInit, IsLinked, PushTail
  <2>7. UsedNodes(t.h) = UsedNodes(t.h) \cup (({o} \ Static) \cup ({st.handle} \ {Null}))
    BY <2>4
  <2>8. o \notin UsedNodes(t.h) /\ st.handle \notin UsedNodes(t.h) \cup {o}
    BY <2>4, Owners, Disjoint
  <2>9. GoodHeap(t.h)
    BY <2>2 DEF GoodHeap
  <2> QED BY <2>4, <2>6, <2>7, <2>8, <2>9, AddAtTail DEF Good
<1> QED BY <1>1, <1>2

LEMMA AdaptrInitGood ==
  ASSUME NEW t, NEW H, Consistent(t, H), NEW o \in Static, ~Contains(t.linked, o),
         NEW driver \in BOOLEAN, NEW ok \in BOOLEAN, NEW u, u = AdaptrInit(t, o, driver, ok)
  PROVE  Good(t, H, u)
<1>1. CASE ~ok
  BY <1>1, NothingDone DEF AdaptrInit
<1>2. CASE ok
  <2>1. PICK st : st = [t.mem[o] EXCEPT !.kind = "adaptr", !.open = FALSE, !.driver = driver,
                                        !.mutex = NewMutex]
    OBVIOUS
  <2>2. /\ t = [h |-> t.h, linked |-> t.linked, mem |-> t.mem] /\ o \in DOMAIN t.mem
        /\ t.mem \in [DOMAIN t.mem -> Struct] /\ HeapType(t.h) /\ WellFormed(t.h)
    BY DEF Consistent, Typed, Exact
  <2>3. t.mem[o] \in Struct /\ t.mem[o].handle = Null
    BY <2>2 DEF Consistent, Registered
  <2>4. /\ st \in Struct /\ st.kind = "adaptr" /\ ~st.open /\ st.handle = Null
        /\ HwKept(t, o, st)
    <3>1. NewMutex \in [life : BOOLEAN, value : {0, 1}]
      BY BlankType
    <3> QED BY <2>1, <2>2, <2>3, <3>1 DEF Struct, HwKept
  <2>5. [t.mem EXCEPT ![o].kind = "adaptr", ![o].open = FALSE, ![o].driver = driver,
                      ![o].mutex = NewMutex] = Given(t.mem, o, st)
    BY <2>1, <2>2 DEF Given
  <2>6. u = [h |-> t.h, linked |-> Append(t.linked, o), mem |-> Given(t.mem, o, st)]
    BY <1>2, <2>2, <2>5 DEF AdaptrInit, ObjectInit, IsLinked, PushTail
  <2>7. UsedNodes(t.h) = UsedNodes(t.h) \cup (({o} \ Static) \cup ({st.handle} \ {Null}))
    BY <2>4
  <2>8. o \notin UsedNodes(t.h) /\ st.handle \notin UsedNodes(t.h) \cup {o}
    BY <2>4, Owners, Disjoint
  <2>9. GoodHeap(t.h)
    BY <2>2 DEF GoodHeap
  <2> QED BY <2>4, <2>6, <2>7, <2>8, <2>9, AddAtTail DEF Good
<1> QED BY <1>1, <1>2

\* What a static device leaves when it is given up.
LEMMA StaticGone ==
  ASSUME NEW t, NEW H, Consistent(t, H), NEW o \in Static, Contains(t.linked, o),
         \A p \in OfKind(t, "periph") : t.mem[p].mount # o,
         NEW u, u = Gone(ObjectDeInit(t, o), o)
  PROVE  Consistent(u, H) /\ KeepsBut(t, u, {o})
<1>1. PICK st : st = [Blank EXCEPT !.owner = t.mem[o].owner]
  OBVIOUS
<1>2. /\ t = [h |-> t.h, linked |-> t.linked, mem |-> t.mem] /\ o \in DOMAIN t.mem
      /\ t.mem \in [DOMAIN t.mem -> Struct] /\ HeapType(t.h) /\ WellFormed(t.h)
  BY DEF Consistent, Typed, Exact
<1>3. st \in Struct /\ st.kind = "none" /\ st.handle = Null /\ st.hw = Null
  <2>1. t.mem[o] \in Struct
    BY <1>2
  <2> QED BY <1>1, <2>1, BlankType DEF Struct
<1>4. PICK mem : mem = [t.mem EXCEPT ![o] = st]
  OBVIOUS
<1>5. u = [h |-> t.h, linked |-> Unlink(t.linked, o), mem |-> mem]
  BY <1>1, <1>2, <1>4 DEF Gone, IsCreated, ObjectDeInit
<1>6. GoodHeap(t.h) /\ UsedNodes(t.h) = UsedNodes(t.h) \ {o, t.mem[o].handle}
  <2>1. t.mem[o].handle = Null
    BY <1>2 DEF Consistent, Registered
  <2>2. o \notin UsedNodes(t.h) /\ Null \notin UsedNodes(t.h)
    BY Owners, Disjoint
  <2> QED BY <1>2, <2>1, <2>2 DEF GoodHeap
<1>7. o \in Static /\ \E x \in Struct : /\ x.kind = "none" /\ x.handle = Null /\ x.hw = Null
                                       /\ mem = [t.mem EXCEPT ![o] = x]
  BY <1>3, <1>4
<1> QED BY <1>5, <1>6, <1>7, RemoveDevice

\* The same for a created device with the node of its handle.
LEMMA Discarded ==
  ASSUME NEW t, NEW H, Consistent(t, H), NEW o, o \notin Static, Contains(t.linked, o),
         \A p \in OfKind(t, "periph") : t.mem[p].mount # o,
         NEW g, g = SysMemFree(t.h, t.mem[o].handle),
         NEW h, h = SysMemFree(g, o),
         NEW u, u = [h |-> h, linked |-> Unlink(t.linked, o),
                     mem |-> Restrict(t.mem, DOMAIN t.mem \ {o})]
  PROVE  Consistent(u, H) /\ KeepsBut(t, u, {o})
<1>1. o \in DOMAIN t.mem /\ GoodHeap(t.h)
  BY DeviceIsLinked DEF Consistent, Typed, Exact, GoodHeap
<1>2. t.mem[o].handle \in UsedNodes(t.h) \cup {Null} /\ o \in UsedNodes(t.h)
  BY <1>1, Owners
<1>3. GoodHeap(g) /\ UsedNodes(g) = UsedNodes(t.h) \ {t.mem[o].handle}
  BY <1>1, <1>2, SysMemFreeProperties
<1>4. t.mem[o].handle # o
  BY <1>1 DEF Consistent, Apart
<1>5. o \in UsedNodes(g) \cup {Null}
  BY <1>2, <1>3, <1>4
<1>6. GoodHeap(h) /\ UsedNodes(h) = UsedNodes(g) \ {o}
  BY <1>3, <1>5, SysMemFreeProperties
<1>7. UsedNodes(h) = UsedNodes(t.h) \ {o, t.mem[o].handle}
  BY <1>3, <1>6
<1>8. PICK mem : mem = Restrict(t.mem, DOMAIN t.mem \ {o})
  OBVIOUS
<1>9. u = [h |-> h, linked |-> Unlink(t.linked, o), mem |-> mem]
  BY <1>8
<1> QED BY <1>6, <1>7, <1>8, <1>9, RemoveDevice

LEMMA DiscardIs ==
  ASSUME NEW t, t = [h |-> t.h, linked |-> t.linked, mem |-> t.mem], NEW o, o \notin Static
  PROVE  Discard(t, o) = [h |-> SysMemFree(SysMemFree(t.h, t.mem[o].handle), o),
                          linked |-> Unlink(t.linked, o),
                          mem |-> Restrict(t.mem, DOMAIN t.mem \ {o})]
BY DEF Discard, Gone, ObjectDestroy, IsCreated, ObjectDeInit

\* MDS_DeviceIsBusy lets no device go that a periph is mounted on.
LEMMA FreeToGo ==
  ASSUME NEW t, NEW H, Consistent(t, H), NEW o, ~IsBusy(t, o)
  PROVE  \A p \in OfKind(t, "periph") : t.mem[p].mount # o
BY BusyIsMounted DEF Consistent

LEMMA PeriphsStay ==
  ASSUME NEW t, NEW H, NEW o, o \notin OfKind(t, "periph"),
         NEW u, Consistent(u, H), KeepsBut(t, u, {o})
  PROVE  Good(t, H, u)
BY DEF Good, Keeps, KeepsBut

LEMMA DeInitGood ==
  ASSUME NEW t, NEW H, Consistent(t, H), NEW o \in Static, Contains(t.linked, o),
         t.mem[o].kind # "periph",
         NEW ok \in BOOLEAN, NEW u, u = ModuleDeInit(t, o, ok) \/ u = AdaptrDeInit(t, o, ok)
  PROVE  Good(t, H, u)
<1>1. u = IF IsBusy(t, o) \/ ~ok THEN t ELSE Gone(ObjectDeInit(t, o), o)
  BY DEF ModuleDeInit, AdaptrDeInit
<1>2. CASE u = t
  BY <1>2, NothingDone
<1>3. CASE u # t
  <2>1. ~IsBusy(t, o) /\ u = Gone(ObjectDeInit(t, o), o)
    BY <1>1, <1>3
  <2>2. \A p \in OfKind(t, "periph") : t.mem[p].mount # o
    BY <2>1, FreeToGo
  <2>3. Consistent(u, H) /\ KeepsBut(t, u, {o})
    BY <2>1, <2>2, StaticGone
  <2>4. o \notin OfKind(t, "periph")
    BY DEF OfKind
  <2> QED BY <2>3, <2>4, PeriphsStay
<1> QED BY <1>2, <1>3

LEMMA DestroyGood ==
  ASSUME NEW t, NEW H, Consistent(t, H), NEW o, o \notin Static, Contains(t.linked, o),
         t.mem[o].kind # "periph",
         NEW ok \in BOOLEAN, NEW u, u = ModuleDestroy(t, o, ok) \/ u = AdaptrDestroy(t, o, ok)
  PROVE  Good(t, H, u)
<1>1. u = IF IsBusy(t, o) \/ ~ok THEN t ELSE Discard(t, o)
  BY DEF ModuleDestroy, AdaptrDestroy
<1>2. CASE u = t
  BY <1>2, NothingDone
<1>3. CASE u # t
  <2>1. ~IsBusy(t, o) /\ u = Discard(t, o)
    BY <1>1, <1>3
  <2>2. \A p \in OfKind(t, "periph") : t.mem[p].mount # o
    BY <2>1, FreeToGo
  <2>3. t = [h |-> t.h, linked |-> t.linked, mem |-> t.mem]
    BY DEF Consistent, Typed
  <2>4. PICK g : g = SysMemFree(t.h, t.mem[o].handle)
    OBVIOUS
  <2>5. PICK h : h = SysMemFree(g, o)
    OBVIOUS
  <2>6. u = [h |-> h, linked |-> Unlink(t.linked, o),
             mem |-> Restrict(t.mem, DOMAIN t.mem \ {o})]
    BY <2>1, <2>3, <2>4, <2>5, DiscardIs
  <2>7. Consistent(u, H) /\ KeepsBut(t, u, {o})
    BY <2>2, <2>4, <2>5, <2>6, Discarded
  <2>8. o \notin OfKind(t, "periph")
    BY DEF OfKind
  <2> QED BY <2>7, <2>8, PeriphsStay
<1> QED BY <1>2, <1>3

-----------------------------------------------------------------------------
(* Created devices and periphs                                             *)

LEMMA NewObject ==
  ASSUME NEW t, NEW H, Consistent(t, H), NEW size \in Nat, NEW a, a = SysMemAlloc(t.h, size)
  PROVE  /\ GoodHeap(a.h)
         /\ \/ a.at = Null /\ UsedNodes(a.h) = UsedNodes(t.h)
            \/ /\ a.at \in Address \ UsedNodes(t.h) /\ a.at # Null /\ a.at \notin Static
               /\ ~Contains(t.linked, a.at) /\ a.at \notin DOMAIN t.mem
               /\ UsedNodes(a.h) = UsedNodes(t.h) \cup {a.at}
<1>1. GoodHeap(t.h)
  BY DEF Consistent, Typed, Exact, GoodHeap
<1>2. /\ GoodHeap(a.h)
      /\ \/ a.at = Null /\ UsedNodes(a.h) = UsedNodes(t.h)
         \/ /\ a.at \in Address \ UsedNodes(t.h)
            /\ UsedNodes(a.h) = UsedNodes(t.h) \cup {a.at}
  BY <1>1, SysMemAllocProperties
<1>3. ASSUME a.at \in Address \ UsedNodes(t.h)
      PROVE  /\ a.at # Null /\ a.at \notin Static
             /\ ~Contains(t.linked, a.at) /\ a.at \notin DOMAIN t.mem
  <2>1. a.at # Null /\ a.at \notin Static
    BY <1>3, Disjoint
  <2>2. a.at \notin DOMAIN t.mem
    BY <1>3, <2>1, Owners
  <2> QED BY <2>1, <2>2, DeviceIsLinked DEF Consistent
<1> QED BY <1>2, <1>3

\* The structure of a created device, with its driver, its handle, its mutex.
Bare(struct, driver) == [struct EXCEPT !.driver = driver]
Wired(struct, driver, handle) == [struct EXCEPT !.driver = driver, !.handle = handle]
Whole(struct, driver, handle, mutex) ==
  [struct EXCEPT !.driver = driver, !.handle = handle, !.mutex = mutex]
WithMutex(t, o, mutex) == [t EXCEPT !.mem[o].mutex = mutex]
Mutexed(struct, mutex) == [struct EXCEPT !.mutex = mutex]

Registry(h, q, mem) == [h |-> h, linked |-> q, mem |-> mem]

LEMMA MutexGiven ==
  ASSUME NEW h, NEW q, NEW mem, NEW o, NEW struct, NEW mutex
  PROVE  WithMutex(Registry(h, q, Given(mem, o, struct)), o, mutex)
           = Registry(h, q, Given(mem, o, Mutexed(struct, mutex)))
<1>1. [Given(mem, o, struct) EXCEPT ![o].mutex = mutex]
        = Given(mem, o, Mutexed(struct, mutex))
  BY DEF Given, Mutexed
<1>2. PICK given : given = Given(mem, o, struct)
  OBVIOUS
<1>3. WithMutex(Registry(h, q, given), o, mutex)
        = Registry(h, q, [given EXCEPT ![o].mutex = mutex])
  BY DEF WithMutex, Registry
<1> QED BY <1>1, <1>2, <1>3

\* The stages of a creation: the object, the handle, the mutex.
LEMMA CreateIs ==
  ASSUME NEW t, t = [h |-> t.h, linked |-> t.linked, mem |-> t.mem],
         NEW struct \in Struct, struct.handle = Null,
         NEW mutex, NEW driver \in BOOLEAN, NEW size \in Nat, NEW ok \in BOOLEAN,
         NEW a, a = SysMemAlloc(t.h, ObjectSize),
         NEW o, o = a.at, o # Null, ~Contains(t.linked, o),
         NEW b, b = SysMemAlloc(a.h, size),
         NEW h, h = IF size = 0 THEN a.h ELSE b.h,
         NEW handle, handle = IF size = 0 THEN Null ELSE b.at,
         NEW bare, bare = Bare(struct, driver),
         NEW wired, wired = Wired(struct, driver, handle),
         NEW done, done = Whole(struct, driver, handle, mutex),
         NEW full, full = Registry(h, Append(t.linked, o), Given(t.mem, o, wired)),
         NEW u, u = Create(t, struct, mutex, driver, size, ok)
  PROVE  \/ ~driver /\ u = Registry(a.h, Append(t.linked, o), Given(t.mem, o, bare))
         \/ driver /\ ok /\ u = Registry(h, Append(t.linked, o), Given(t.mem, o, done))
         \/ driver /\ ~ok /\ u = Discard(full, o)
<1>1. PICK q : q = Append(t.linked, o)
  OBVIOUS
<1>2. ObjectCreate(t) = [s |-> [h |-> a.h, linked |-> q, mem |-> t.mem], o |-> o]
  BY <1>1 DEF ObjectCreate, ObjectInit, IsLinked, PushTail
<1>3. PICK made : made = [h |-> a.h, linked |-> q, mem |-> Given(t.mem, o, bare)]
  OBVIOUS
<1>4. u = IF ~driver THEN made
          ELSE IF ok THEN [WithHandle(made, o, size) EXCEPT !.mem[o].mutex = mutex]
          ELSE Discard(WithHandle(made, o, size), o)
  <2>1. PICK c : c = ObjectCreate(t)
    OBVIOUS
  <2>2. c.o = o /\ c.s = [h |-> a.h, linked |-> q, mem |-> t.mem]
    BY <1>2, <2>1
  <2>3. [c.s EXCEPT !.mem = Given(@, o, Bare(struct, driver))] = made
    BY <1>3, <2>2
  <2> QED BY <2>1, <2>2, <2>3 DEF Create, Bare
<1>5. WithHandle(made, o, size) = full
  <2>1. made.h = a.h
    BY <1>3
  <2>2. CASE size = 0
    <3>1. wired = bare
      BY <2>2 DEF Struct, Bare, Wired
    <3> QED BY <1>1, <1>3, <2>2, <3>1 DEF WithHandle, Registry
  <2>3. CASE size # 0
    <3>1. WithHandle(made, o, size) = [made EXCEPT !.h = b.h, !.mem[o].handle = b.at]
      BY <2>1, <2>3 DEF WithHandle
    <3>2. [Given(t.mem, o, bare) EXCEPT ![o].handle = b.at] = Given(t.mem, o, wired)
      BY <2>3 DEF Given, Struct, Bare, Wired
    <3> QED BY <1>1, <1>3, <2>3, <3>1, <3>2 DEF Registry
  <2> QED BY <2>2, <2>3
<1>6. PICK v : v = WithMutex(full, o, mutex)
  OBVIOUS
<1>7. v = [h |-> h, linked |-> q, mem |-> Given(t.mem, o, done)]
  <2>1. full = Registry(h, q, Given(t.mem, o, wired))
    BY <1>1
  <2>2. Mutexed(wired, mutex) = done
    BY DEF Struct, Wired, Whole, Mutexed
  <2>3. WithMutex(Registry(h, q, Given(t.mem, o, wired)), o, mutex)
          = Registry(h, q, Given(t.mem, o, Mutexed(wired, mutex)))
    BY MutexGiven
  <2>4. v = Registry(h, q, Given(t.mem, o, done))
    BY <1>6, <2>1, <2>2, <2>3, Zenon
  <2> QED BY <2>4 DEF Registry
<1>8. u = IF ~driver THEN made ELSE IF ok THEN v ELSE Discard(full, o)
  BY <1>4, <1>5, <1>6 DEF WithMutex
<1>9. /\ made = Registry(a.h, Append(t.linked, o), Given(t.mem, o, bare))
      /\ v = Registry(h, Append(t.linked, o), Given(t.mem, o, done))
  BY <1>1, <1>3, <1>7 DEF Registry
<1> QED BY <1>8, <1>9

LEMMA MadeType ==
  ASSUME NEW struct \in Struct, NEW driver \in BOOLEAN, NEW handle \in Address \cup {Null},
         NEW mutex \in [life : BOOLEAN, value : {0, 1}],
         NEW bare, bare = Bare(struct, driver),
         NEW wired, wired = Wired(struct, driver, handle),
         NEW done, done = Whole(struct, driver, handle, mutex)
  PROVE  /\ bare \in Struct /\ bare.kind = struct.kind /\ bare.open = struct.open
         /\ bare.handle = struct.handle /\ bare.hw = struct.hw
         /\ done \in Struct /\ done.kind = struct.kind /\ done.open = struct.open
         /\ done.handle = handle /\ done.hw = struct.hw /\ wired.handle = handle
<1>1. bare \in Struct /\ bare.kind = struct.kind /\ bare.open = struct.open
      /\ bare.handle = struct.handle /\ bare.hw = struct.hw
  BY DEF Struct, Bare
<1>2. done \in Struct /\ done.kind = struct.kind /\ done.open = struct.open
      /\ done.handle = handle /\ done.hw = struct.hw
  BY DEF Struct, Whole
<1>3. wired.handle = handle
  BY DEF Struct, Wired
<1> QED BY <1>1, <1>2, <1>3

LEMMA RestrictGiven ==
  ASSUME NEW mem, mem \in [DOMAIN mem -> Struct], NEW o, o \notin DOMAIN mem, NEW st,
         NEW g, g = Given(mem, o, st)
  PROVE  Restrict(g, DOMAIN g \ {o}) = mem
BY DEF Restrict, Given

LEMMA CreateGood ==
  ASSUME NEW t, NEW H, Consistent(t, H),
         NEW struct \in Struct, struct.handle = Null, struct.kind \in {"module", "adaptr"},
         ~struct.open, struct.hw = Null,
         NEW mutex \in [life : BOOLEAN, value : {0, 1}],
         NEW driver \in BOOLEAN, NEW size \in Nat, NEW ok \in BOOLEAN,
         NEW u, u = Create(t, struct, mutex, driver, size, ok)
  PROVE  Good(t, H, u)
<1>1. PICK a : a = SysMemAlloc(t.h, ObjectSize)
  OBVIOUS
<1>2. /\ GoodHeap(a.h)
      /\ \/ a.at = Null /\ UsedNodes(a.h) = UsedNodes(t.h)
         \/ /\ a.at \in Address \ UsedNodes(t.h) /\ a.at # Null /\ a.at \notin Static
            /\ ~Contains(t.linked, a.at) /\ a.at \notin DOMAIN t.mem
            /\ UsedNodes(a.h) = UsedNodes(t.h) \cup {a.at}
  BY <1>1, NewObject, ObjectAssumption
<1>3. t = [h |-> t.h, linked |-> t.linked, mem |-> t.mem] /\ t.mem \in [DOMAIN t.mem -> Struct]
  BY DEF Consistent, Typed
<1>4. CASE a.at = Null
  <2>1. ObjectCreate(t) = [s |-> [h |-> a.h, linked |-> t.linked, mem |-> t.mem], o |-> Null]
    BY <1>1, <1>3, <1>4 DEF ObjectCreate
  <2>2. u = [h |-> a.h, linked |-> t.linked, mem |-> t.mem]
    BY <2>1 DEF Create
  <2>3. UsedNodes(a.h) = UsedNodes(t.h)
    BY <1>2, <1>4
  <2> QED BY <1>2, <2>2, <2>3, SameDevices DEF Good
<1>5. CASE a.at # Null
  <2>1. PICK o : o = a.at
    OBVIOUS
  <2>2. /\ o \in Address \ UsedNodes(t.h) /\ o \notin Static /\ o # Null
        /\ ~Contains(t.linked, o) /\ o \notin DOMAIN t.mem
        /\ UsedNodes(a.h) = UsedNodes(t.h) \cup {o}
    BY <1>2, <1>5, <2>1
  <2>3. PICK b : b = SysMemAlloc(a.h, size)
    OBVIOUS
  <2>4. /\ GoodHeap(b.h)
        /\ \/ b.at = Null /\ UsedNodes(b.h) = UsedNodes(a.h)
           \/ /\ b.at \in Address \ UsedNodes(a.h)
              /\ UsedNodes(b.h) = UsedNodes(a.h) \cup {b.at}
    BY <1>2, <2>3, SysMemAllocProperties
  <2>5. PICK h : h = IF size = 0 THEN a.h ELSE b.h
    OBVIOUS
  <2>6. PICK handle : handle = IF size = 0 THEN Null ELSE b.at
    OBVIOUS
  <2>7. Null \notin UsedNodes(t.h)
    BY Owners, Disjoint
  <2>8. /\ GoodHeap(h) /\ handle \in Address \cup {Null}
        /\ handle \notin UsedNodes(t.h) \cup {o}
        /\ UsedNodes(h) = UsedNodes(t.h) \cup (({o} \ Static) \cup ({handle} \ {Null}))
    BY <1>2, <2>2, <2>4, <2>5, <2>6, <2>7, Disjoint
  <2>9. PICK bare : bare = Bare(struct, driver)
    OBVIOUS
  <2>10. PICK wired : wired = Wired(struct, driver, handle)
    OBVIOUS
  <2>11. PICK done : done = Whole(struct, driver, handle, mutex)
    OBVIOUS
  <2>12. PICK full : full = Registry(h, Append(t.linked, o), Given(t.mem, o, wired))
    OBVIOUS
  <2>13. \/ ~driver /\ u = Registry(a.h, Append(t.linked, o), Given(t.mem, o, bare))
         \/ driver /\ ok /\ u = Registry(h, Append(t.linked, o), Given(t.mem, o, done))
         \/ driver /\ ~ok /\ u = Discard(full, o)
    BY <1>1, <1>3, <2>1, <2>2, <2>3, <2>5, <2>6, <2>9, <2>10, <2>11, <2>12, CreateIs
  <2>14. /\ bare \in Struct /\ bare.kind = struct.kind /\ bare.open = struct.open
         /\ bare.handle = struct.handle /\ bare.hw = struct.hw
         /\ done \in Struct /\ done.kind = struct.kind /\ done.open = struct.open
         /\ done.handle = handle /\ done.hw = struct.hw /\ wired.handle = handle
    BY <2>8, <2>9, <2>10, <2>11, MadeType
  <2>15. CASE ~driver
    <3>1. PICK st : st = bare
      OBVIOUS
    <3>2. /\ st \in Struct /\ st.kind = struct.kind /\ st.open = struct.open /\ st.handle = Null
          /\ HwKept(t, o, st)
      BY <2>14, <3>1 DEF HwKept
    <3>3. u = [h |-> a.h, linked |-> Append(t.linked, o), mem |-> Given(t.mem, o, st)]
      BY <2>13, <2>15, <3>1 DEF Registry
    <3>4. /\ UsedNodes(a.h) = UsedNodes(t.h) \cup (({o} \ Static) \cup ({st.handle} \ {Null}))
          /\ st.handle \notin UsedNodes(t.h) \cup {o} /\ o \notin UsedNodes(t.h)
          /\ o \in Address \cup Static /\ (o \in Static => st.handle = Null)
          /\ st.kind \in {"module", "adaptr"} /\ ~st.open
      BY <2>2, <2>7, <3>2
    <3> QED BY <1>2, <2>2, <3>2, <3>3, <3>4, AddAtTail DEF Good
  <2>16. CASE driver /\ ok
    <3>1. PICK st : st = done
      OBVIOUS
    <3>2. /\ st \in Struct /\ st.kind = struct.kind /\ st.open = struct.open /\ st.handle = handle
          /\ HwKept(t, o, st)
      BY <2>14, <3>1 DEF HwKept
    <3>3. u = [h |-> h, linked |-> Append(t.linked, o), mem |-> Given(t.mem, o, st)]
      BY <2>13, <2>16, <3>1 DEF Registry
    <3>4. /\ UsedNodes(h) = UsedNodes(t.h) \cup (({o} \ Static) \cup ({st.handle} \ {Null}))
          /\ st.handle \notin UsedNodes(t.h) \cup {o} /\ o \notin UsedNodes(t.h)
          /\ o \in Address \cup Static /\ (o \in Static => st.handle = Null)
          /\ st.kind \in {"module", "adaptr"} /\ ~st.open
      BY <2>2, <2>8, <3>2
    <3> QED BY <2>2, <2>8, <3>2, <3>3, <3>4, AddAtTail DEF Good
  <2>17. CASE driver /\ ~ok
    <3>1. PICK st : st = wired
      OBVIOUS
    <3>2. st.handle = handle
      BY <2>14, <3>1
    <3>3. PICK q : q = Append(t.linked, o)
      OBVIOUS
    <3>4. PICK mem : mem = Given(t.mem, o, st)
      OBVIOUS
    <3>5. full = [h |-> h, linked |-> q, mem |-> mem]
      BY <2>12, <3>1, <3>3, <3>4 DEF Registry
    <3>6. mem[o] = st /\ Restrict(mem, DOMAIN mem \ {o}) = t.mem
      <4>1. mem[o] = st
        BY <3>4 DEF Given
      <4>2. Restrict(mem, DOMAIN mem \ {o}) = t.mem
        BY <1>3, <2>2, <3>4, RestrictGiven
      <4> QED BY <4>1, <4>2
    <3>7. Unlink(q, o) = t.linked
      <4>1. t.linked \in Seq(DOMAIN t.mem \cup {o})
        <5>1. t.linked \in Seq(DOMAIN t.mem)
          BY DEF Consistent, Typed
        <5> QED BY <5>1, SeqDef, ElementOfSeq, LenProperties
      <4> QED BY <2>2, <3>3, <4>1, UnlinkAppended
    <3>8. PICK g : g = SysMemFree(h, handle)
      OBVIOUS
    <3>9. PICK f : f = SysMemFree(g, o)
      OBVIOUS
    <3>10. u = [h |-> f, linked |-> t.linked, mem |-> t.mem]
      <4>1. u = Discard(full, o)
        BY <2>13, <2>17
      <4>2. full.h = h /\ full.linked = q /\ full.mem = mem
        BY <3>5
      <4>3. Discard(full, o) = [h |-> SysMemFree(SysMemFree(full.h, full.mem[o].handle), o),
                                linked |-> Unlink(full.linked, o),
                                mem |-> Restrict(full.mem, DOMAIN full.mem \ {o})]
        <5>1. full = [h |-> full.h, linked |-> full.linked, mem |-> full.mem]
          BY <3>5
        <5> QED BY <2>2, <5>1, DiscardIs
      <4> QED BY <3>2, <3>6, <3>7, <3>8, <3>9, <4>1, <4>2, <4>3
    <3>11. handle \in UsedNodes(h) \cup {Null}
      BY <2>8
    <3>12. GoodHeap(g) /\ UsedNodes(g) = UsedNodes(h) \ {handle}
      BY <2>8, <3>8, <3>11, SysMemFreeProperties
    <3>13. o \in UsedNodes(g) \cup {Null}
      BY <2>2, <2>8, <3>12
    <3>14. GoodHeap(f) /\ UsedNodes(f) = UsedNodes(g) \ {o}
      BY <3>9, <3>12, <3>13, SysMemFreeProperties
    <3>15. UsedNodes(f) = UsedNodes(t.h)
      BY <2>2, <2>8, <3>12, <3>14
    <3> QED BY <3>10, <3>14, <3>15, SameDevices DEF Good
  <2> QED BY <2>13, <2>15, <2>16, <2>17
<1> QED BY <1>4, <1>5

LEMMA CreatesGood ==
  ASSUME NEW t, NEW H, Consistent(t, H),
         NEW driver \in BOOLEAN, NEW size \in Nat, NEW ok \in BOOLEAN,
         NEW u, u = ModuleCreate(t, driver, size, ok) \/ u = AdaptrCreate(t, driver, size, ok)
  PROVE  Good(t, H, u)
<1>1. CASE u = ModuleCreate(t, driver, size, ok)
  <2>1. PICK st : st = [Blank EXCEPT !.kind = "module"]
    OBVIOUS
  <2>2. /\ st \in Struct /\ st.handle = Null /\ st.kind \in {"module", "adaptr"} /\ ~st.open
        /\ st.hw = Null
    BY <2>1, BlankType DEF Struct
  <2>3. u = Create(t, st, Blank.mutex, driver, size, ok)
    BY <1>1, <2>1 DEF ModuleCreate
  <2> QED BY <2>2, <2>3, BlankType, CreateGood
<1>2. CASE u = AdaptrCreate(t, driver, size, ok)
  <2>1. PICK st : st = [Blank EXCEPT !.kind = "adaptr"]
    OBVIOUS
  <2>2. /\ st \in Struct /\ st.handle = Null /\ st.kind \in {"module", "adaptr"} /\ ~st.open
        /\ st.hw = Null
    BY <2>1, BlankType DEF Struct
  <2>3. u = Create(t, st, NewMutex, driver, size, ok)
    BY <1>2, <2>1 DEF AdaptrCreate
  <2> QED BY <2>2, <2>3, BlankType, CreateGood
<1> QED BY <1>1, <1>2

-----------------------------------------------------------------------------
(* Periphs                                                                 *)

Placed(struct, a) == [struct EXCEPT !.mount = a]

BehindAdaptr(t, h, p, a, struct, u) ==
  \E j \in 1..Len(t.linked) :
    /\ t.linked[j] = a
    /\ u = Registry(h, InsertAt(t.linked, j + 1, p), Given(t.mem, p, struct))

LEMMA MountIs ==
  ASSUME NEW t, NEW H, Consistent(t, H), NEW p \in Address \cup Static, ~Contains(t.linked, p),
         NEW a \in OfKind(t, "adaptr"), NEW h,
         NEW bare, NEW struct, struct = Placed(bare, a),
         NEW r, r = Registry(h, Append(t.linked, p), Given(t.mem, p, bare)),
         NEW u, u = Mount(r, p, a)
  PROVE  BehindAdaptr(t, h, p, a, struct, u)
<1>1. t.linked \in Seq(DOMAIN t.mem) /\ DOMAIN t.linked = 1..Len(t.linked)
  BY LenProperties DEF Consistent, Typed
<1>2. Unlink(Append(t.linked, p), p) = t.linked
  <2>1. t.linked \in Seq(DOMAIN t.mem \cup {p})
    BY <1>1, SeqDef, ElementOfSeq, LenProperties
  <2> QED BY <2>1, UnlinkAppended
<1>3. PICK j : j = CHOOSE i \in DOMAIN t.linked : t.linked[i] = a
  OBVIOUS
<1>4. j \in 1..Len(t.linked) /\ t.linked[j] = a
  <2>1. \E i \in DOMAIN t.linked : t.linked[i] = a
    BY DEF OfKind, Device, Range
  <2> QED BY <1>1, <1>3, <2>1
<1>5. [Given(t.mem, p, bare) EXCEPT ![p].mount = a] = Given(t.mem, p, struct)
  BY DEF Given, Placed
<1>6. PICK mem : mem = Given(t.mem, p, bare)
  OBVIOUS
<1>7. PICK q : q = InsertAt(t.linked, j + 1, p)
  OBVIOUS
<1>8. PICK l : l = Append(t.linked, p)
  OBVIOUS
<1>9. u = [h |-> h, linked |-> q, mem |-> [mem EXCEPT ![p].mount = a]]
  <2>1. r.h = h /\ r.linked = l /\ r.mem = mem /\ r = [h |-> h, linked |-> l, mem |-> mem]
    BY <1>6, <1>8 DEF Registry
  <2>2. Unlink(r.linked, p) = t.linked
    BY <1>2, <1>8, <2>1
  <2>3. u = [r EXCEPT !.linked = q, !.mem[p].mount = a]
    BY <1>3, <1>7, <2>2 DEF Mount
  <2> QED BY <2>1, <2>3
<1> QED BY <1>4, <1>5, <1>6, <1>7, <1>9 DEF Registry, BehindAdaptr

\* A periph without a handle is mounted in the heap h.
LEMMA MountGood ==
  ASSUME NEW t, NEW H, Consistent(t, H), NEW p \in Address \cup Static, ~Contains(t.linked, p),
         p \notin UsedNodes(t.h), NEW a \in OfKind(t, "adaptr"),
         NEW h, GoodHeap(h), UsedNodes(h) = UsedNodes(t.h) \cup ({p} \ Static),
         NEW bare \in Struct, bare.kind = "periph", ~bare.open, bare.handle = Null,
         HwKept(t, p, bare),
         NEW r, r = [h |-> h, linked |-> Append(t.linked, p), mem |-> Given(t.mem, p, bare)],
         NEW u, u = Mount(r, p, a)
  PROVE  Good(t, H, u)
<1>1. PICK st : st = Placed(bare, a)
  OBVIOUS
<1>2. PICK j \in 1..Len(t.linked) :
        /\ t.linked[j] = a
        /\ u = [h |-> h, linked |-> InsertAt(t.linked, j + 1, p), mem |-> Given(t.mem, p, st)]
  <2>1. r = Registry(h, Append(t.linked, p), Given(t.mem, p, bare))
    BY DEF Registry
  <2>2. BehindAdaptr(t, h, p, a, st, u)
    BY <1>1, <2>1, MountIs
  <2> QED BY <2>2 DEF Registry, BehindAdaptr
<1>3. a \in Pointer
  <2>1. a \in DOMAIN t.mem
    BY DeviceIsLinked DEF Consistent, OfKind
  <2> QED BY <2>1 DEF Consistent, Typed, Pointer
<1>4. /\ st \in Struct /\ st.kind = "periph" /\ ~st.open /\ st.handle = Null /\ st.mount = a
      /\ HwKept(t, p, st)
  BY <1>1, <1>3 DEF Struct, Placed, HwKept
<1> QED BY <1>2, <1>4, AddBehind DEF Good

LEMMA PeriphInitGood ==
  ASSUME NEW t, NEW H, Consistent(t, H), NEW p \in Static, ~Contains(t.linked, p),
         NEW a \in OfKind(t, "adaptr"), NEW u, u = PeriphInit(t, p, a)
  PROVE  Good(t, H, u)
<1>1. PICK st : st = [t.mem[p] EXCEPT !.kind = "periph", !.open = FALSE]
  OBVIOUS
<1>2. /\ t = [h |-> t.h, linked |-> t.linked, mem |-> t.mem] /\ p \in DOMAIN t.mem
      /\ t.mem \in [DOMAIN t.mem -> Struct] /\ GoodHeap(t.h)
  BY DEF Consistent, Typed, Exact, GoodHeap
<1>3. /\ st \in Struct /\ st.kind = "periph" /\ ~st.open /\ st.handle = Null
      /\ HwKept(t, p, st)
  <2>1. t.mem[p] \in Struct /\ t.mem[p].handle = Null
    BY <1>2 DEF Consistent, Registered
  <2> QED BY <1>1, <1>2, <2>1 DEF Struct, HwKept
<1>4. [t.mem EXCEPT ![p].kind = "periph", ![p].open = FALSE] = Given(t.mem, p, st)
  BY <1>1, <1>2 DEF Given
<1>5. PICK r : r = [ObjectInit(t, p) EXCEPT !.mem[p].kind = "periph", !.mem[p].open = FALSE]
  OBVIOUS
<1>6. r = [h |-> t.h, linked |-> Append(t.linked, p), mem |-> Given(t.mem, p, st)]
  BY <1>2, <1>4, <1>5 DEF ObjectInit, IsLinked, PushTail
<1>7. p \notin UsedNodes(t.h) /\ UsedNodes(t.h) = UsedNodes(t.h) \cup ({p} \ Static)
  BY Owners, Disjoint
<1>8. u = Mount(r, p, a)
  BY <1>5 DEF PeriphInit
<1> QED BY <1>2, <1>3, <1>6, <1>7, <1>8, MountGood

LEMMA PeriphCreateGood ==
  ASSUME NEW t, NEW H, Consistent(t, H), NEW a \in OfKind(t, "adaptr"),
         NEW u, u = PeriphCreate(t, a)
  PROVE  Good(t, H, u)
<1>1. PICK b : b = SysMemAlloc(t.h, ObjectSize)
  OBVIOUS
<1>2. /\ GoodHeap(b.h)
      /\ \/ b.at = Null /\ UsedNodes(b.h) = UsedNodes(t.h)
         \/ /\ b.at \in Address \ UsedNodes(t.h) /\ b.at # Null /\ b.at \notin Static
            /\ ~Contains(t.linked, b.at) /\ b.at \notin DOMAIN t.mem
            /\ UsedNodes(b.h) = UsedNodes(t.h) \cup {b.at}
  BY <1>1, NewObject, ObjectAssumption
<1>3. t = [h |-> t.h, linked |-> t.linked, mem |-> t.mem]
  BY DEF Consistent, Typed
<1>4. CASE b.at = Null
  <2>1. ObjectCreate(t) = [s |-> [h |-> b.h, linked |-> t.linked, mem |-> t.mem], o |-> Null]
    BY <1>1, <1>3, <1>4 DEF ObjectCreate
  <2>2. u = [h |-> b.h, linked |-> t.linked, mem |-> t.mem]
    BY <2>1 DEF PeriphCreate
  <2>3. UsedNodes(b.h) = UsedNodes(t.h)
    BY <1>2, <1>4
  <2> QED BY <1>2, <2>2, <2>3, SameDevices DEF Good
<1>5. CASE b.at # Null
  <2>1. PICK p : p = b.at
    OBVIOUS
  <2>2. PICK st : st = [Blank EXCEPT !.kind = "periph"]
    OBVIOUS
  <2>3. /\ st \in Struct /\ st.kind = "periph" /\ ~st.open /\ st.handle = Null
        /\ HwKept(t, p, st)
    BY <2>2, BlankType DEF Struct, HwKept
  <2>4. PICK q : q = Append(t.linked, p)
    OBVIOUS
  <2>5. ObjectCreate(t) = [s |-> [h |-> b.h, linked |-> q, mem |-> t.mem], o |-> p]
    BY <1>1, <1>2, <1>3, <1>5, <2>1, <2>4 DEF ObjectCreate, ObjectInit, IsLinked, PushTail
  <2>6. PICK c : c = ObjectCreate(t)
    OBVIOUS
  <2>7. c.o = p /\ c.o # Null /\ c.s = [h |-> b.h, linked |-> q, mem |-> t.mem]
    BY <1>5, <2>1, <2>5, <2>6
  <2>8. PICK r : r = [c.s EXCEPT !.mem = Given(@, p, st)]
    OBVIOUS
  <2>9. r = [h |-> b.h, linked |-> q, mem |-> Given(t.mem, p, st)]
    BY <2>7, <2>8
  <2>10. r = [h |-> b.h, linked |-> Append(t.linked, p), mem |-> Given(t.mem, p, st)]
    BY <2>4, <2>9
  <2>11. u = Mount(r, p, a)
    BY <2>2, <2>6, <2>7, <2>8 DEF PeriphCreate
  <2>12. /\ p \in Address \cup Static /\ ~Contains(t.linked, p) /\ p \notin UsedNodes(t.h)
         /\ UsedNodes(b.h) = UsedNodes(t.h) \cup ({p} \ Static)
    BY <1>2, <1>5, <2>1
  <2> QED BY <1>2, <2>3, <2>10, <2>11, <2>12, MountGood
<1> QED BY <1>4, <1>5

LEMMA PeriphHasNone ==
  ASSUME NEW t, NEW H, Consistent(t, H), NEW p \in OfKind(t, "periph")
  PROVE  /\ p \in DOMAIN t.mem /\ Contains(t.linked, p) /\ t.mem[p].handle = Null
         /\ t.mem[p].mount \in OfKind(t, "adaptr") /\ t.mem[p].mount \in DOMAIN t.mem
         /\ t.mem[p].mount # p
         /\ \A o \in OfKind(t, "periph") : t.mem[o].mount # p
<1>1. Typed(t) /\ Ranked(t.linked, t.mem)
  BY BehindIs DEF Consistent
<1>2. \A o \in OfKind(t, "periph") :
        o \in DOMAIN t.mem /\ Contains(t.linked, o) /\ t.mem[o].kind = "periph"
  BY <1>1, DeviceIsLinked DEF OfKind
<1>3. ASSUME NEW o \in OfKind(t, "periph")
      PROVE  Contains(t.linked, t.mem[o].mount) /\ t.mem[t.mem[o].mount].kind = "adaptr"
  BY <1>1, <1>2, RankedContains
<1>4. \A o \in OfKind(t, "periph") : t.mem[o].mount # p
  BY <1>2, <1>3
<1>5. t.mem[p].mount \in Device(t) /\ t.mem[p].mount \in DOMAIN t.mem
  BY <1>1, <1>3, DeviceIsLinked
<1>6. t.mem[p].handle = Null
  BY <1>2 DEF Consistent, Registered
<1> QED BY <1>2, <1>3, <1>4, <1>5, <1>6 DEF OfKind

LEMMA PeriphRetireGood ==
  ASSUME NEW t, NEW H, Consistent(t, H), NEW p \in OfKind(t, "periph"),
         NEW u, u = PeriphRetire(t, p)
  PROVE  Consistent(u, H) /\ KeepsBut(t, u, {p})
<1>1. /\ p \in DOMAIN t.mem /\ Contains(t.linked, p) /\ t.mem[p].handle = Null
      /\ \A o \in OfKind(t, "periph") : t.mem[o].mount # p
  BY PeriphHasNone
<1>2. t = [h |-> t.h, linked |-> t.linked, mem |-> t.mem] /\ GoodHeap(t.h)
  BY DEF Consistent, Typed, Exact, GoodHeap
<1>3. CASE p \in Static
  <2>1. u = Gone(ObjectDeInit(t, p), p)
    BY <1>3 DEF PeriphRetire, IsCreated
  <2> QED BY <1>1, <1>3, <2>1, StaticGone
<1>4. CASE p \notin Static
  <2>1. PICK h : h = SysMemFree(t.h, p)
    OBVIOUS
  <2>2. PICK mem : mem = Restrict(t.mem, DOMAIN t.mem \ {p})
    OBVIOUS
  <2>3. u = [h |-> h, linked |-> Unlink(t.linked, p), mem |-> mem]
    BY <1>2, <1>4, <2>1, <2>2 DEF PeriphRetire, IsCreated, Gone, ObjectDestroy, ObjectDeInit
  <2>4. p \in UsedNodes(t.h) \cup {Null} /\ Null \notin UsedNodes(t.h)
    BY <1>1, <1>4, Owners, Disjoint
  <2>5. GoodHeap(h) /\ UsedNodes(h) = UsedNodes(t.h) \ {p}
    BY <1>2, <2>1, <2>4, SysMemFreeProperties
  <2>6. UsedNodes(h) = UsedNodes(t.h) \ {p, t.mem[p].handle}
    BY <1>1, <2>4, <2>5
  <2> QED BY <1>1, <1>4, <2>2, <2>3, <2>5, <2>6, RemoveDevice
<1> QED BY <1>3, <1>4

-----------------------------------------------------------------------------
(* Opens and closes                                                        *)

\* But for the parts that are told, every structure has the flags it had.
SameHw(t, u) == \A o \in DOMAIN t.mem : u.mem[o].hw = t.mem[o].hw
SameOwner(t, u) == \A o \in DOMAIN t.mem : u.mem[o].owner = t.mem[o].owner
SameOpen(t, u) == \A o \in DOMAIN t.mem : u.mem[o].open = t.mem[o].open

WithOwner(t, a, p) == [t EXCEPT !.mem[a].owner = p]
Raised(t, o) == [t EXCEPT !.mem[o].open = TRUE]
Rewritten(t, a, st) ==
  [h |-> t.h, linked |-> t.linked, mem |-> [t.mem EXCEPT ![a] = st]]

LEMMA TouchOne ==
  ASSUME NEW t, Typed(t), NEW a \in DOMAIN t.mem,
         NEW st \in Struct, st.kind = t.mem[a].kind, st.mount = t.mem[a].mount,
         st.handle = t.mem[a].handle,
         NEW u, u = Rewritten(t, a, st)
  PROVE  /\ Touched(t, u)
         /\ u.mem[a] = st /\ \A o \in DOMAIN t.mem \ {a} : u.mem[o] = t.mem[o]
<1>1. t.mem \in [DOMAIN t.mem -> Struct]
  BY DEF Typed
<1>2. u = [h |-> t.h, linked |-> t.linked, mem |-> [t.mem EXCEPT ![a] = st]]
  BY DEF Rewritten
<1>4. u.h = t.h /\ u.linked = t.linked /\ u.mem = [t.mem EXCEPT ![a] = st]
  BY <1>2
<1>3. /\ DOMAIN u.mem = DOMAIN t.mem /\ u.mem \in [DOMAIN t.mem -> Struct]
      /\ u.mem[a] = st /\ \A o \in DOMAIN t.mem \ {a} : u.mem[o] = t.mem[o]
  BY <1>1, <1>4
<1> QED BY <1>2, <1>3, <1>4 DEF Touched

LEMMA MutexTouched ==
  ASSUME NEW t, Typed(t), NEW a \in DOMAIN t.mem,
         NEW u, \/ u = [t EXCEPT !.mem[a].mutex = MutexAcquire(@)]
                \/ u = [t EXCEPT !.mem[a].mutex = MutexRelease(@)]
  PROVE  Touched(t, u) /\ SameHw(t, u) /\ SameOwner(t, u) /\ SameOpen(t, u)
<1>1. /\ t = [h |-> t.h, linked |-> t.linked, mem |-> t.mem]
      /\ t.mem \in [DOMAIN t.mem -> Struct] /\ t.mem[a] \in Struct
  BY DEF Typed
<1>2. PICK m \in {MutexAcquire(t.mem[a].mutex), MutexRelease(t.mem[a].mutex)} :
        u = [t EXCEPT !.mem[a].mutex = m]
  OBVIOUS
<1>3. m \in [life : BOOLEAN, value : {0, 1}]
  BY <1>1 DEF Struct, MutexAcquire, MutexRelease
<1>4. PICK st : st = [t.mem[a] EXCEPT !.mutex = m]
  OBVIOUS
<1>5. /\ st \in Struct /\ st.kind = t.mem[a].kind /\ st.mount = t.mem[a].mount
      /\ st.handle = t.mem[a].handle
      /\ st.hw = t.mem[a].hw /\ st.owner = t.mem[a].owner /\ st.open = t.mem[a].open
      /\ st.driver = t.mem[a].driver
  BY <1>1, <1>3, <1>4 DEF Struct
<1>6. u = Rewritten(t, a, st)
  BY <1>1, <1>2, <1>4 DEF Rewritten
<1>7. /\ Touched(t, u)
      /\ u.mem[a] = st /\ \A o \in DOMAIN t.mem \ {a} : u.mem[o] = t.mem[o]
  BY <1>5, <1>6, TouchOne
<1> QED BY <1>5, <1>7 DEF SameHw, SameOwner, SameOpen

LEMMA HwTouched ==
  ASSUME NEW t, Typed(t), NEW a \in DOMAIN t.mem, NEW p \in Pointer,
         NEW u, u = Driven(t, a, p)
  PROVE  /\ Touched(t, u) /\ SameOwner(t, u) /\ SameOpen(t, u)
         /\ u.mem[a].hw = p /\ \A o \in DOMAIN t.mem \ {a} : u.mem[o].hw = t.mem[o].hw
<1>1. /\ t = [h |-> t.h, linked |-> t.linked, mem |-> t.mem]
      /\ t.mem \in [DOMAIN t.mem -> Struct] /\ t.mem[a] \in Struct
  BY DEF Typed
<1>4. PICK st : st = [t.mem[a] EXCEPT !.hw = p]
  OBVIOUS
<1>5. /\ st \in Struct /\ st.kind = t.mem[a].kind /\ st.mount = t.mem[a].mount
      /\ st.handle = t.mem[a].handle
      /\ st.hw = p /\ st.owner = t.mem[a].owner /\ st.open = t.mem[a].open
      /\ st.driver = t.mem[a].driver
  BY <1>1, <1>4 DEF Struct
<1>6. u = Rewritten(t, a, st)
  BY <1>1, <1>4 DEF Rewritten, Driven
<1>7. /\ Touched(t, u)
      /\ u.mem[a] = st /\ \A o \in DOMAIN t.mem \ {a} : u.mem[o] = t.mem[o]
  BY <1>5, <1>6, TouchOne
<1> QED BY <1>5, <1>7 DEF SameOwner, SameOpen

LEMMA OpenTouched ==
  ASSUME NEW t, Typed(t), NEW o \in DOMAIN t.mem,
         NEW u, u = Raised(t, o) \/ u = FlagCleared(t, o)
  PROVE  /\ Touched(t, u) /\ SameOwner(t, u) /\ SameHw(t, u)
         /\ u = FlagCleared(t, o) => ~u.mem[o].open
         /\ \A x \in DOMAIN t.mem \ {o} : u.mem[x].open = t.mem[x].open
<1>1. /\ t = [h |-> t.h, linked |-> t.linked, mem |-> t.mem]
      /\ t.mem \in [DOMAIN t.mem -> Struct] /\ t.mem[o] \in Struct
  BY DEF Typed
<1>2. CASE u = Raised(t, o)
  <2>1. PICK st : st = [t.mem[o] EXCEPT !.open = TRUE]
    OBVIOUS
  <2>2. /\ st \in Struct /\ st.kind = t.mem[o].kind /\ st.mount = t.mem[o].mount
        /\ st.handle = t.mem[o].handle
        /\ st.hw = t.mem[o].hw /\ st.owner = t.mem[o].owner /\ st.driver = t.mem[o].driver
        /\ st.open = TRUE
    BY <1>1, <2>1 DEF Struct
  <2>3. u = Rewritten(t, o, st)
    BY <1>1, <1>2, <2>1 DEF Rewritten, Raised
  <2>4. /\ Touched(t, u)
        /\ u.mem[o] = st /\ \A x \in DOMAIN t.mem \ {o} : u.mem[x] = t.mem[x]
    BY <2>2, <2>3, TouchOne
  <2>5. u = FlagCleared(t, o) => ~u.mem[o].open
    BY <1>1 DEF FlagCleared
  <2> QED BY <2>2, <2>4, <2>5 DEF SameOwner, SameHw
<1>3. CASE u = FlagCleared(t, o)
  <2>1. PICK st : st = [t.mem[o] EXCEPT !.open = FALSE]
    OBVIOUS
  <2>2. /\ st \in Struct /\ st.kind = t.mem[o].kind /\ st.mount = t.mem[o].mount
        /\ st.handle = t.mem[o].handle
        /\ st.hw = t.mem[o].hw /\ st.owner = t.mem[o].owner /\ st.driver = t.mem[o].driver
        /\ ~st.open
    BY <1>1, <2>1 DEF Struct
  <2>3. u = Rewritten(t, o, st)
    BY <1>1, <1>3, <2>1 DEF Rewritten, FlagCleared
  <2>4. /\ Touched(t, u)
        /\ u.mem[o] = st /\ \A x \in DOMAIN t.mem \ {o} : u.mem[x] = t.mem[x]
    BY <2>2, <2>3, TouchOne
  <2> QED BY <2>2, <2>4 DEF SameOwner, SameHw
<1> QED BY <1>2, <1>3

LEMMA OwnerTouched ==
  ASSUME NEW t, Typed(t), NEW a \in DOMAIN t.mem, NEW p \in Pointer,
         NEW u, u = WithOwner(t, a, p)
  PROVE  /\ Touched(t, u) /\ SameHw(t, u) /\ SameOpen(t, u)
         /\ u.mem[a].owner = p /\ \A o \in DOMAIN t.mem \ {a} : u.mem[o].owner = t.mem[o].owner
<1>1. /\ t = [h |-> t.h, linked |-> t.linked, mem |-> t.mem]
      /\ t.mem \in [DOMAIN t.mem -> Struct] /\ t.mem[a] \in Struct
  BY DEF Typed
<1>4. PICK st : st = [t.mem[a] EXCEPT !.owner = p]
  OBVIOUS
<1>5. /\ st \in Struct /\ st.kind = t.mem[a].kind /\ st.mount = t.mem[a].mount
      /\ st.handle = t.mem[a].handle
      /\ st.hw = t.mem[a].hw /\ st.owner = p /\ st.open = t.mem[a].open
      /\ st.driver = t.mem[a].driver
  BY <1>1, <1>4 DEF Struct
<1>6. u = Rewritten(t, a, st)
  BY <1>1, <1>4 DEF Rewritten, WithOwner
<1>7. /\ Touched(t, u)
      /\ u.mem[a] = st /\ \A o \in DOMAIN t.mem \ {a} : u.mem[o] = t.mem[o]
  BY <1>5, <1>6, TouchOne
<1> QED BY <1>5, <1>7 DEF SameHw, SameOpen

LEMMA TouchedTwice ==
  ASSUME NEW t, NEW v, NEW u, Typed(t), Touched(t, v), Touched(v, u)
  PROVE  Touched(t, u) /\ Typed(v) /\ DOMAIN v.mem = DOMAIN t.mem
<1>1. v = [h |-> t.h, linked |-> t.linked, mem |-> v.mem] /\ v.h = t.h /\ v.linked = t.linked
  <2>1. v = [h |-> t.h, linked |-> t.linked, mem |-> v.mem]
    BY DEF Touched
  <2> QED BY <2>1
<1>2. DOMAIN v.mem = DOMAIN t.mem
  BY DEF Touched
<1> QED BY <1>1, <1>2 DEF Touched, Typed

LEMMA TypedTouched ==
  ASSUME NEW t, NEW v, Typed(t), Touched(t, v)
  PROVE  Typed(v) /\ DOMAIN v.mem = DOMAIN t.mem
<1>1. v = [h |-> t.h, linked |-> t.linked, mem |-> v.mem]
  BY DEF Touched
<1>2. v.h = t.h /\ v.linked = t.linked
  BY <1>1
<1> QED BY <1>1, <1>2 DEF Touched, Typed

LEMMA TouchedItself ==
  ASSUME NEW t, Typed(t)
  PROVE  Touched(t, t)
BY DEF Touched, Typed

\* In u the driver of a may be open for p and p may own a, and an adaptr that
\* says it is open did so in t or belongs to p.
Steered(t, u, a, p) ==
  /\ Touched(t, u)
  /\ \A o \in DOMAIN t.mem :
       /\ u.mem[o].hw = t.mem[o].hw \/ u.mem[o].hw = Null \/ (o = a /\ u.mem[o].hw = p)
       /\ u.mem[o].owner = t.mem[o].owner \/ (o = a /\ u.mem[o].owner = p)
       /\ t.mem[o].kind = "adaptr" /\ u.mem[o].open =>
            t.mem[o].open \/ (o = a /\ u.mem[o].owner = p)

LEMMA SteeredItself ==
  ASSUME NEW t, Typed(t), NEW a, NEW p
  PROVE  Steered(t, t, a, p)
BY TouchedItself DEF Steered

LEMMA SteeredTwice ==
  ASSUME NEW t, Typed(t), NEW a, NEW p, NEW v, NEW u, Steered(t, v, a, p), Steered(v, u, a, p)
  PROVE  Steered(t, u, a, p)
<1>1. Touched(t, v) /\ Touched(v, u)
  BY DEF Steered
<1>2. Touched(t, u) /\ DOMAIN v.mem = DOMAIN t.mem
  BY <1>1, TouchedTwice
<1>3. \A o \in DOMAIN t.mem : v.mem[o].kind = t.mem[o].kind
  BY <1>1 DEF Touched
<1> QED BY <1>2, <1>3 DEF Steered

LEMMA DrivenSteers ==
  ASSUME NEW t, Typed(t), NEW a \in DOMAIN t.mem, NEW p, NEW hw \in Pointer, hw \in {Null, p},
         NEW u, u = Driven(t, a, hw)
  PROVE  Steered(t, u, a, p) /\ u.mem[a].hw = hw
<1>1. /\ Touched(t, u) /\ SameOwner(t, u) /\ SameOpen(t, u)
      /\ u.mem[a].hw = hw /\ \A o \in DOMAIN t.mem \ {a} : u.mem[o].hw = t.mem[o].hw
  BY HwTouched
<1> QED BY <1>1 DEF Steered, SameOwner, SameOpen

LEMMA ClearedSteers ==
  ASSUME NEW t, Typed(t), NEW o \in DOMAIN t.mem, NEW u, u = FlagCleared(t, o), NEW a, NEW p
  PROVE  Steered(t, u, a, p) /\ SameHw(t, u) /\ ~u.mem[o].open
<1>1. /\ Touched(t, u) /\ SameOwner(t, u) /\ SameHw(t, u) /\ ~u.mem[o].open
      /\ \A x \in DOMAIN t.mem \ {o} : u.mem[x].open = t.mem[x].open
  BY OpenTouched
<1> QED BY <1>1 DEF Steered, SameOwner, SameHw

LEMMA MutexSteers ==
  ASSUME NEW t, Typed(t), NEW a \in DOMAIN t.mem, NEW p,
         NEW u, \/ u = [t EXCEPT !.mem[a].mutex = MutexAcquire(@)]
                \/ u = [t EXCEPT !.mem[a].mutex = MutexRelease(@)]
  PROVE  Steered(t, u, a, p) /\ SameHw(t, u) /\ SameOpen(t, u)
<1>1. Touched(t, u) /\ SameHw(t, u) /\ SameOwner(t, u) /\ SameOpen(t, u)
  BY MutexTouched
<1> QED BY <1>1 DEF Steered, SameHw, SameOwner, SameOpen

LEMMA ReleasedSteers ==
  ASSUME NEW t, Typed(t), NEW a \in DOMAIN t.mem, NEW p, NEW u, u = Released(t, a)
  PROVE  Steered(t, u, a, p) /\ SameHw(t, u) /\ ~u.mem[a].open
<1>1. PICK v : v = FlagCleared(t, a)
  OBVIOUS
<1>2. Steered(t, v, a, p) /\ SameHw(t, v) /\ ~v.mem[a].open
  BY <1>1, ClearedSteers
<1>3. Typed(v) /\ DOMAIN v.mem = DOMAIN t.mem
  BY <1>2, TypedTouched DEF Steered
<1>4. u = [v EXCEPT !.mem[a].mutex = MutexRelease(@)]
  BY <1>1 DEF Released
<1>5. Steered(v, u, a, p) /\ SameHw(v, u) /\ SameOpen(v, u)
  BY <1>3, <1>4, MutexSteers
<1>6. Steered(t, u, a, p)
  BY <1>2, <1>5, SteeredTwice
<1> QED BY <1>2, <1>3, <1>5, <1>6 DEF SameHw, SameOpen

LEMMA OwnedSteers ==
  ASSUME NEW t, Typed(t), NEW p \in DOMAIN t.mem, NEW a \in DOMAIN t.mem, a = t.mem[p].mount,
         NEW u, u = Owned(t, p)
  PROVE  Steered(t, u, a, p) /\ u.mem[a].owner = p
<1>1. u = WithOwner(t, a, p) /\ p \in Pointer
  BY DEF Owned, WithOwner, Typed, Pointer
<1>2. /\ Touched(t, u) /\ SameHw(t, u) /\ SameOpen(t, u)
      /\ u.mem[a].owner = p /\ \A o \in DOMAIN t.mem \ {a} : u.mem[o].owner = t.mem[o].owner
  BY <1>1, OwnerTouched
<1> QED BY <1>2 DEF Steered, SameHw, SameOpen

\* The flags are for whoever owns the adaptr by then.
LEMMA FlagsSteer ==
  ASSUME NEW t, Typed(t), NEW p \in DOMAIN t.mem, NEW a \in DOMAIN t.mem, a = t.mem[p].mount,
         t.mem[p].kind = "periph", NEW q, t.mem[a].owner = q, NEW u, u = FlagsSet(t, p)
  PROVE  Steered(t, u, a, q)
<1>1. PICK v : v = Raised(t, a)
  OBVIOUS
<1>2. /\ Touched(t, v) /\ SameOwner(t, v) /\ SameHw(t, v)
      /\ \A x \in DOMAIN t.mem \ {a} : v.mem[x].open = t.mem[x].open
  BY <1>1, OpenTouched
<1>3. Typed(v) /\ DOMAIN v.mem = DOMAIN t.mem
  BY <1>2, TypedTouched
<1>4. u = Raised(v, p)
  BY <1>1 DEF FlagsSet, Raised
<1>5. /\ Touched(v, u) /\ SameOwner(v, u) /\ SameHw(v, u)
      /\ \A x \in DOMAIN v.mem \ {p} : u.mem[x].open = v.mem[x].open
  BY <1>3, <1>4, OpenTouched
<1>6. Touched(t, u)
  BY <1>2, <1>5, TouchedTwice
<1> QED BY <1>2, <1>3, <1>5, <1>6 DEF Steered, SameOwner, SameHw

LEMMA ToldSteers ==
  ASSUME NEW t, Typed(t), NEW p, NEW u, u = Told(t, p), NEW a
  PROVE  Steered(t, u, a, p)
<1>1. PICK o : o = t.mem[t.mem[p].mount].owner
  OBVIOUS
<1>2. u = IF o \in DOMAIN t.mem THEN FlagCleared(t, o) ELSE t
  BY <1>1 DEF Told
<1>3. CASE o \in DOMAIN t.mem
  BY <1>2, <1>3, ClearedSteers
<1>4. CASE o \notin DOMAIN t.mem
  BY <1>2, <1>4, SteeredItself
<1> QED BY <1>3, <1>4

\* An owner and its flags, as both ends of an open have it.
LEMMA OpenedSteers ==
  ASSUME NEW t, Typed(t), NEW p \in DOMAIN t.mem, NEW a \in DOMAIN t.mem, a = t.mem[p].mount,
         t.mem[p].kind = "periph", NEW u, u = FlagsSet(Owned(t, p), p)
  PROVE  Steered(t, u, a, p)
<1>1. PICK v : v = Owned(t, p)
  OBVIOUS
<1>2. Steered(t, v, a, p) /\ v.mem[a].owner = p
  BY <1>1, OwnedSteers
<1>3. /\ Typed(v) /\ DOMAIN v.mem = DOMAIN t.mem
      /\ v.mem[p].kind = "periph" /\ v.mem[p].mount = a
  BY <1>2, TypedTouched DEF Steered, Touched
<1>4. u = FlagsSet(v, p)
  BY <1>1
<1>5. Steered(v, u, a, p)
  BY <1>2, <1>3, <1>4, FlagsSteer
<1> QED BY <1>2, <1>5, SteeredTwice

LEMMA OpenForceSteers ==
  ASSUME NEW t, Typed(t), NEW p \in DOMAIN t.mem, NEW a \in DOMAIN t.mem, a = t.mem[p].mount,
         t.mem[p].kind = "periph", NEW closes \in BOOLEAN, NEW opens \in BOOLEAN,
         NEW u, u = OpenForce(t, p, closes, opens)
  PROVE  Steered(t, u, a, p)
<1>1. PICK v : v = Told(t, p)
  OBVIOUS
<1>2. Steered(t, v, a, p)
  BY <1>1, ToldSteers
<1>3. /\ Typed(v) /\ DOMAIN v.mem = DOMAIN t.mem
      /\ v.mem[p].kind = "periph" /\ v.mem[p].mount = a
  BY <1>2, TypedTouched DEF Steered, Touched
<1>4. PICK w : w = IF closes THEN Driven(v, a, Null) ELSE v
  OBVIOUS
<1>5. Steered(v, w, a, p)
  <2>1. CASE closes
    <3>1. PICK n : n = Null
      OBVIOUS
    <3>2. n \in Pointer /\ n \in {Null, p} /\ w = Driven(v, a, n)
      BY <1>4, <2>1, <3>1 DEF Pointer
    <3> QED BY <1>3, <3>2, DrivenSteers
  <2>2. CASE ~closes
    BY <1>3, <1>4, <2>2, SteeredItself
  <2> QED BY <2>1, <2>2
<1>6. Steered(t, w, a, p)
  BY <1>2, <1>5, SteeredTwice
<1>7. /\ Typed(w) /\ DOMAIN w.mem = DOMAIN t.mem
      /\ w.mem[p].kind = "periph" /\ w.mem[p].mount = a
  BY <1>6, TypedTouched DEF Steered, Touched
<1>8. PICK x : x = Driven(w, a, p)
  OBVIOUS
<1>9. Steered(w, x, a, p)
  <2>1. p \in Pointer /\ p \in {Null, p}
    BY DEF Typed, Pointer
  <2> QED BY <1>7, <1>8, <2>1, DrivenSteers
<1>10. Steered(t, x, a, p)
  BY <1>6, <1>9, SteeredTwice
<1>11. /\ Typed(x) /\ DOMAIN x.mem = DOMAIN t.mem
       /\ x.mem[p].kind = "periph" /\ x.mem[p].mount = a
  BY <1>10, TypedTouched DEF Steered, Touched
<1>12. \/ u = FlagsSet(Owned(v, p), p) \/ u = FlagsSet(Owned(x, p), p) \/ u = w
  BY <1>1, <1>4, <1>8 DEF OpenForce
<1>13. CASE u = FlagsSet(Owned(v, p), p)
  <2>1. Steered(v, u, a, p)
    BY <1>3, <1>13, OpenedSteers
  <2> QED BY <1>2, <2>1, SteeredTwice
<1>14. CASE u = FlagsSet(Owned(x, p), p)
  <2>1. Steered(x, u, a, p)
    BY <1>11, <1>14, OpenedSteers
  <2> QED BY <1>10, <2>1, SteeredTwice
<1> QED BY <1>6, <1>12, <1>13, <1>14

-----------------------------------------------------------------------------
(* Drivers serve what is mounted                                           *)

LEMMA ServingSteered ==
  ASSUME NEW t, NEW H, Consistent(t, H), Serving(t), NEW a, NEW p, Mounts(t, p, a),
         NEW u, Steered(t, u, a, p)
  PROVE  Serving(u) /\ \A x, o : Mounts(u, x, o) <=> Mounts(t, x, o)
<1>1. Touched(t, u)
  BY DEF Steered
<1>2. DOMAIN u.mem = DOMAIN t.mem /\ \A o \in DOMAIN t.mem : u.mem[o].kind = t.mem[o].kind
  BY <1>1 DEF Touched
<1>3. \A kind : OfKind(u, kind) = OfKind(t, kind)
  BY <1>1, TouchDevice
<1>4. OfKind(u, "periph") = OfKind(t, "periph")
  BY <1>3
<1>5. ASSUME NEW x \in OfKind(t, "periph") PROVE u.mem[x].mount = t.mem[x].mount
  <2>1. x \in DOMAIN t.mem
    BY PeriphHasNone
  <2> QED BY <1>1, <2>1 DEF Touched
<1>6. \A x, o : Mounts(u, x, o) <=> Mounts(t, x, o)
  BY <1>4, <1>5 DEF Mounts
<1>7. ASSUME NEW o \in DOMAIN u.mem
      PROVE  /\ u.mem[o].hw = Null \/ Mounts(u, u.mem[o].hw, o)
             /\ u.mem[o].kind = "adaptr" /\ u.mem[o].open => Mounts(u, u.mem[o].owner, o)
  BY <1>2, <1>6 DEF Serving, Steered
<1> QED BY <1>6, <1>7 DEF Serving

\* The periphs that go, X, are in no adaptr that is open and in no driver.
LEMMA ServingKept ==
  ASSUME NEW t, Serving(t), NEW X,
         \A o \in DOMAIN t.mem :
           /\ t.mem[o].hw \notin X
           /\ t.mem[o].kind = "adaptr" /\ t.mem[o].open => t.mem[o].owner \notin X,
         NEW u, KeepsBut(t, u, X)
  PROVE  Serving(u)
BY DEF Serving, KeepsBut, HwKept, Mounts

-----------------------------------------------------------------------------
(* The memory of main code                                                 *)

\* Main code gives back the node n, or none, and gets the nodes N, or none.
LEMMA HeldChanges ==
  ASSUME NEW t, NEW H, Consistent(t, H), NEW n \in H \cup {Null}, NEW N, N \subseteq Address,
         N \cap (UsedNodes(t.h) \ {n}) = {},
         NEW h, GoodHeap(h), UsedNodes(h) = (UsedNodes(t.h) \ {n}) \cup N,
         NEW u, u = Registry(h, t.linked, t.mem), NEW G, G = (H \ {n}) \cup N
  PROVE  Good(t, G, u)
<1>0. u = [h |-> h, linked |-> t.linked, mem |-> t.mem]
  BY DEF Registry
<1>1. u.h = h /\ u.linked = t.linked /\ u.mem = t.mem
  BY <1>0
<1>2. Keeps(t, u)
  BY <1>1, KeepsSame
<1>3. Typed(u)
  BY <1>0, <1>1 DEF Consistent, Typed, GoodHeap
<1>4. /\ H \subseteq UsedNodes(t.h) /\ DOMAIN t.mem \ Static \subseteq UsedNodes(t.h)
      /\ UsedNodes(t.h) \subseteq Address
      /\ \A o \in DOMAIN t.mem : t.mem[o].handle \in UsedNodes(t.h) \cup {Null}
  BY Owners
<1>5. /\ H \subseteq Address /\ H \cap DOMAIN t.mem = {}
      /\ \A o \in DOMAIN t.mem : t.mem[o].handle \notin H \cup DOMAIN t.mem
      /\ \A o, p \in DOMAIN t.mem :
           t.mem[o].handle = t.mem[p].handle => o = p \/ t.mem[o].handle = Null
  BY DEF Consistent, Apart
<1>6. Null \notin N /\ N \cap Static = {}
  BY Disjoint
<1>7. N \cap DOMAIN t.mem = {} /\ \A o \in DOMAIN t.mem : t.mem[o].handle \notin N
  <2>1. ASSUME NEW o \in DOMAIN t.mem PROVE o \notin N
    BY <1>4, <1>5, <1>6
  <2>2. ASSUME NEW o \in DOMAIN t.mem PROVE t.mem[o].handle \notin N
    BY <1>4, <1>5, <1>6
  <2> QED BY <2>1, <2>2
<1>8. Exact(u, G)
  <2>1. UsedNodes(t.h) = (H \cup (DOMAIN t.mem \ Static) \cup Handles(t.mem)) \ {Null}
    BY DEF Consistent, Exact
  <2>2. \A x \in Handles(t.mem) : x \notin H
    BY <1>5 DEF Handles
  <2>3. UsedNodes(h) = (G \cup (DOMAIN t.mem \ Static) \cup Handles(t.mem)) \ {Null}
    BY <1>5, <1>6, <2>1, <2>2
  <2> QED BY <1>1, <2>3 DEF Exact, GoodHeap
<1>9. Apart(u, G)
  BY <1>1, <1>5, <1>7 DEF Apart
<1> QED BY <1>1, <1>2, <1>3, <1>8, <1>9 DEF Good, Consistent, Registered, Behind

LEMMA AllocGood ==
  ASSUME NEW t, NEW H, Consistent(t, H), NEW size \in Nat,
         NEW a, a = SysMemAlloc(t.h, size), NEW u, u = [t EXCEPT !.h = a.h],
         NEW G, G = H \cup ({a.at} \ {Null})
  PROVE  Good(t, G, u)
<1>1. t = [h |-> t.h, linked |-> t.linked, mem |-> t.mem] /\ GoodHeap(t.h)
  BY DEF Consistent, Typed, Exact, GoodHeap
<1>2. /\ GoodHeap(a.h)
      /\ \/ a.at = Null /\ UsedNodes(a.h) = UsedNodes(t.h)
         \/ /\ a.at \in Address \ UsedNodes(t.h)
            /\ UsedNodes(a.h) = UsedNodes(t.h) \cup {a.at}
  BY <1>1, SysMemAllocProperties
<1>3. PICK N : N = {a.at} \ {Null}
  OBVIOUS
<1>4. Null \notin UsedNodes(t.h) /\ Null \notin H /\ Null \notin Address
  BY Owners, Disjoint
<1>5. /\ N \subseteq Address /\ N \cap (UsedNodes(t.h) \ {Null}) = {}
      /\ UsedNodes(a.h) = (UsedNodes(t.h) \ {Null}) \cup N
      /\ G = (H \ {Null}) \cup N
  BY <1>2, <1>3, <1>4
<1>6. PICK h : h = a.h
  OBVIOUS
<1>7. PICK n : n = Null
  OBVIOUS
<1>8. /\ n \in H \cup {Null} /\ GoodHeap(h)
      /\ N \cap (UsedNodes(t.h) \ {n}) = {} /\ UsedNodes(h) = (UsedNodes(t.h) \ {n}) \cup N
      /\ G = (H \ {n}) \cup N
  BY <1>2, <1>5, <1>6, <1>7
<1>9. u = Registry(h, t.linked, t.mem)
  BY <1>1, <1>6 DEF Registry
<1> QED BY <1>5, <1>8, <1>9, HeldChanges

LEMMA FreeGood ==
  ASSUME NEW t, NEW H, Consistent(t, H), NEW n \in H,
         NEW u, u = [t EXCEPT !.h = SysMemFree(@, n)], NEW G, G = H \ {n}
  PROVE  Good(t, G, u)
<1>1. t = [h |-> t.h, linked |-> t.linked, mem |-> t.mem] /\ GoodHeap(t.h)
  BY DEF Consistent, Typed, Exact, GoodHeap
<1>2. n \in UsedNodes(t.h) \cup {Null}
  BY Owners
<1>3. PICK h : h = SysMemFree(t.h, n)
  OBVIOUS
<1>4. GoodHeap(h) /\ UsedNodes(h) = UsedNodes(t.h) \ {n}
  BY <1>1, <1>2, <1>3, SysMemFreeProperties
<1>5. PICK N : N = {}
  OBVIOUS
<1>6. /\ N \subseteq Address /\ N \cap (UsedNodes(t.h) \ {n}) = {}
      /\ UsedNodes(h) = (UsedNodes(t.h) \ {n}) \cup N
      /\ G = (H \ {n}) \cup N /\ n \in H \cup {Null}
  BY <1>4, <1>5
<1>7. u = Registry(h, t.linked, t.mem)
  BY <1>1, <1>3 DEF Registry
<1> QED BY <1>4, <1>6, <1>7, HeldChanges

LEMMA ReallocGood ==
  ASSUME NEW t, NEW H, Consistent(t, H), NEW n \in H, NEW size \in Nat,
         NEW a, a = SysMemRealloc(t.h, n, size), NEW u, u = [t EXCEPT !.h = a.h],
         NEW G, G = IF a.at = Null /\ size # 0 THEN H ELSE (H \ {n}) \cup ({a.at} \ {Null})
  PROVE  Good(t, G, u)
<1>1. t = [h |-> t.h, linked |-> t.linked, mem |-> t.mem] /\ GoodHeap(t.h)
  BY DEF Consistent, Typed, Exact, GoodHeap
<1>2. n \in UsedNodes(t.h) /\ Null \notin UsedNodes(t.h) /\ Null \notin H /\ Null \notin Address
  BY Owners, Disjoint
<1>3. /\ GoodHeap(a.h)
      /\ \/ size = 0 /\ a.at = Null /\ UsedNodes(a.h) = UsedNodes(t.h) \ {n}
         \/ size # 0 /\ a.at = Null /\ UsedNodes(a.h) = UsedNodes(t.h)
         \/ /\ a.at \in Address \ (UsedNodes(t.h) \ {n})
            /\ UsedNodes(a.h) = (UsedNodes(t.h) \ {n}) \cup {a.at}
  BY <1>1, <1>2, SysMemReallocProperties
<1>4. u = [h |-> a.h, linked |-> t.linked, mem |-> t.mem]
  BY <1>1
<1>5. CASE a.at = Null /\ size # 0
  <2>1. UsedNodes(a.h) = UsedNodes(t.h) /\ G = H
    BY <1>2, <1>3, <1>5
  <2> QED BY <1>3, <1>4, <2>1, SameDevices DEF Good
<1>6. CASE ~(a.at = Null /\ size # 0)
  <2>1. PICK N : N = {a.at} \ {Null}
    OBVIOUS
  <2>2. /\ N \subseteq Address /\ N \cap (UsedNodes(t.h) \ {n}) = {}
        /\ UsedNodes(a.h) = (UsedNodes(t.h) \ {n}) \cup N
        /\ G = (H \ {n}) \cup N /\ n \in H \cup {Null}
    BY <1>2, <1>3, <1>6, <2>1
  <2>3. PICK h : h = a.h
    OBVIOUS
  <2>4. /\ GoodHeap(h) /\ UsedNodes(h) = (UsedNodes(t.h) \ {n}) \cup N
        /\ u = Registry(h, t.linked, t.mem)
    BY <1>3, <1>4, <2>2, <2>3 DEF Registry
  <2> QED BY <2>2, <2>4, HeldChanges
<1> QED BY <1>5, <1>6

-----------------------------------------------------------------------------
(* Calls that are one step, and the loop                                   *)

\* Between its accesses to an adaptr nothing but the devices matters.
LEMMA QuietStep ==
  ASSUME BareMetalInv, main.at \in {"idle", "retire"}, main' = main \/ main' = None,
         main'.at = "idle", Consistent(s', held'), Serving(s')
  PROVE  BareMetalInv'
<1>1. MainType'
  BY DEF BareMetalInv, MainType, None, Places
<1>2. LoopInv' /\ CallInv'
  BY DEF LoopInv, CallInv
<1> QED BY <1>1, <1>2 DEF BareMetalInv

LEMMA IdleStep ==
  ASSUME BareMetalInv, main.at = "idle", main' = main, Good(s, held', s')
  PROVE  BareMetalInv'
<1>1. PICK X : X = {}
  OBVIOUS
<1>2. KeepsBut(s, s', X) /\ \A o : o \notin X
  BY <1>1 DEF Good, Keeps
<1>3. Serving(s')
  BY <1>2, ServingKept DEF BareMetalInv
<1> QED BY <1>3, QuietStep DEF Good

\* The registry is not touched.
LEMMA LoopStep ==
  ASSUME BareMetalInv, s' = s, held' = held,
         main.at \in {"idle", "poll"}, main'.at \in {"idle", "poll"},
         main' = [at |-> main'.at, on |-> main'.on, of |-> main'.of,
                  timeout |-> main'.timeout,
                  start |-> main'.start, retire |-> main'.retire], LoopInv'
  PROVE  BareMetalInv'
<1>1. Consistent(s', held')
  BY DEF BareMetalInv
<1>2. MainType'
  BY DEF BareMetalInv, MainType, Places
<1>3. CallInv'
  BY DEF CallInv
<1>4. Serving(s')
  BY DEF BareMetalInv
<1> QED BY <1>1, <1>2, <1>3, <1>4 DEF BareMetalInv

LEMMA UnchangedStep ==
  ASSUME BareMetalInv, UNCHANGED vars
  PROVE  BareMetalInv'
<1>1. Consistent(s', held') /\ MainType' /\ LoopInv'
  <2>1. Consistent(s', held')
    BY DEF vars, BareMetalInv
  <2>2. MainType'
    BY DEF vars, BareMetalInv, MainType, OfKind, Device
  <2>3. LoopInv'
    BY DEF vars, BareMetalInv, LoopInv
  <2> QED BY <2>1, <2>2, <2>3
<1>2. CallInv' /\ Serving(s')
  BY DEF vars, BareMetalInv, CallInv, Mounts, OfKind, Device, Mounted
<1> QED BY <1>1, <1>2 DEF BareMetalInv

LEMMA InitInv == Init => BareMetalInv
<1> SUFFICES ASSUME Init PROVE BareMetalInv
  OBVIOUS
<1>1. /\ s = NoDevices /\ s.h = NoHeap /\ s.linked = <<>> /\ s.mem = [o \in Static |-> Blank]
      /\ s = [h |-> s.h, linked |-> s.linked, mem |-> s.mem] /\ held = {}
  <2>1. s = [h |-> NoHeap, linked |-> <<>>, mem |-> [o \in Static |-> Blank]]
    BY DEF Init, NoDevices
  <2> QED BY <2>1 DEF Init, NoDevices
<1>2. DOMAIN s.mem = Static /\ \A o \in Static : s.mem[o] = Blank
  BY <1>1
<1>3. NoHeap.up = FALSE /\ DOMAIN NoHeap.node = {} /\ NoHeap = [node |-> NoHeap.node,
          begin |-> NoHeap.begin, up |-> NoHeap.up]
  BY DEF NoHeap
<1>4. Typed(s)
  <2>1. HeapType(s.h)
    BY <1>1, <1>3 DEF HeapType, HeapRecord
  <2>2. s.mem \in [DOMAIN s.mem -> Struct]
    BY <1>1, <1>2, BlankType
  <2>3. s.linked \in Seq(DOMAIN s.mem)
    BY <1>1
  <2> QED BY <1>1, <1>2, <2>1, <2>2, <2>3 DEF Typed
<1>5. UsedNodes(s.h) = {} /\ Handles(s.mem) \subseteq {Null}
  BY <1>1, <1>2, <1>3, BlankType DEF UsedNodes, Handles
<1>6. Exact(s, held)
  BY <1>1, <1>2, <1>3, <1>5 DEF Exact, WellFormed
<1>7. Apart(s, held)
  BY <1>1, <1>2, BlankType, Disjoint DEF Apart
<1>8. \A o : ~Contains(s.linked, o)
  BY <1>1 DEF Contains
<1>9. Registered(s)
  <2>1. Distinct(s.linked)
    BY <1>1 DEF Distinct
  <2> QED BY <1>2, <1>8, <2>1, BlankType DEF Registered
<1>10. Behind(s)
  BY <1>1 DEF Behind
<1>11. MainType /\ LoopInv /\ CallInv
  BY DEF Init, None, MainType, LoopInv, CallInv, Places
<1>12. Serving(s)
  BY <1>2, BlankType DEF Serving
<1> QED BY <1>4, <1>6, <1>7, <1>9, <1>10, <1>11, <1>12 DEF BareMetalInv, Consistent

\* The calls of main code.
LEMMA AllocStep ==
  ASSUME BareMetalInv, AllocMemory
  PROVE  BareMetalInv'
<1>1. Consistent(s, held) /\ main.at = "idle" /\ main' = main
  BY DEF BareMetalInv, AllocMemory, Call, Runs
<1>2. PICK size \in Sizes : /\ s' = [s EXCEPT !.h = SysMemAlloc(s.h, size).h]
                            /\ held' = held \cup ({SysMemAlloc(s.h, size).at} \ {Null})
  BY DEF AllocMemory
<1>3. PICK a : a = SysMemAlloc(s.h, size)
  OBVIOUS
<1>4. size \in Nat
  BY BareMetalAssumption
<1>5. s' = [s EXCEPT !.h = a.h] /\ held' = held \cup ({a.at} \ {Null})
  BY <1>2, <1>3
<1>6. Good(s, held', s')
  BY <1>1, <1>3, <1>4, <1>5, AllocGood
<1> QED BY <1>1, <1>6, IdleStep

LEMMA FreeStep ==
  ASSUME BareMetalInv, FreeMemory
  PROVE  BareMetalInv'
<1>1. Consistent(s, held) /\ main.at = "idle" /\ main' = main
  BY DEF BareMetalInv, FreeMemory, Call, Runs
<1>2. PICK n \in held : s' = [s EXCEPT !.h = SysMemFree(@, n)] /\ held' = held \ {n}
  BY DEF FreeMemory
<1>3. Good(s, held', s')
  BY <1>1, <1>2, FreeGood
<1> QED BY <1>1, <1>3, IdleStep

LEMMA ReallocStep ==
  ASSUME BareMetalInv, ReallocMemory
  PROVE  BareMetalInv'
<1>1. Consistent(s, held) /\ main.at = "idle" /\ main' = main
  BY DEF BareMetalInv, ReallocMemory, Call, Runs
<1>2. PICK n \in held, size \in Sizes \cup {0} :
        /\ s' = [s EXCEPT !.h = SysMemRealloc(s.h, n, size).h]
        /\ held' = IF SysMemRealloc(s.h, n, size).at = Null /\ size # 0 THEN held
                   ELSE (held \ {n}) \cup ({SysMemRealloc(s.h, n, size).at} \ {Null})
  BY DEF ReallocMemory
<1>3. PICK a : a = SysMemRealloc(s.h, n, size)
  OBVIOUS
<1>4. size \in Nat
  BY BareMetalAssumption
<1>5. /\ s' = [s EXCEPT !.h = a.h]
      /\ held' = IF a.at = Null /\ size # 0 THEN held ELSE (held \ {n}) \cup ({a.at} \ {Null})
  BY <1>2, <1>3
<1>6. Good(s, held', s')
  BY <1>1, <1>3, <1>4, <1>5, ReallocGood
<1> QED BY <1>1, <1>6, IdleStep

LEMMA DeviceStep ==
  ASSUME BareMetalInv, DeviceCall, Good(s, held, s')
  PROVE  BareMetalInv'
<1>1. held' = held /\ main.at = "idle" /\ main' = main
  BY DEF DeviceCall, Call, Runs
<1>2. Good(s, held', s')
  BY <1>1
<1> QED BY <1>1, <1>2, IdleStep

LEMMA LinkedDevice ==
  ASSUME Consistent(s, held), NEW o
  PROVE  o \in Device(s) <=> Contains(s.linked, o)
BY DeviceIsLinked DEF Consistent

LEMMA InitDeviceStep ==
  ASSUME BareMetalInv, InitDevice
  PROVE  BareMetalInv'
<1>1. Consistent(s, held) /\ DeviceCall
  BY DEF BareMetalInv, InitDevice
<1>2. PICK driver \in BOOLEAN, ok \in BOOLEAN :
        \/ \E o \in StaticModule \ Device(s) : s' = ModuleInit(s, o, driver, ok)
        \/ \E o \in StaticAdaptr \ Device(s) : s' = AdaptrInit(s, o, driver, ok)
  BY DEF InitDevice
<1>3. CASE \E o \in StaticModule \ Device(s) : s' = ModuleInit(s, o, driver, ok)
  <2>1. PICK o \in StaticModule \ Device(s) : s' = ModuleInit(s, o, driver, ok)
    BY <1>3
  <2>2. o \in Static /\ ~Contains(s.linked, o)
    BY <1>1, LinkedDevice, DeviceAssumption
  <2>3. Good(s, held, s')
    BY <1>1, <2>1, <2>2, ModuleInitGood
  <2> QED BY <1>1, <2>3, DeviceStep
<1>4. CASE \E o \in StaticAdaptr \ Device(s) : s' = AdaptrInit(s, o, driver, ok)
  <2>1. PICK o \in StaticAdaptr \ Device(s) : s' = AdaptrInit(s, o, driver, ok)
    BY <1>4
  <2>2. o \in Static /\ ~Contains(s.linked, o)
    BY <1>1, LinkedDevice, DeviceAssumption
  <2>3. Good(s, held, s')
    BY <1>1, <2>1, <2>2, AdaptrInitGood
  <2> QED BY <1>1, <2>3, DeviceStep
<1> QED BY <1>2, <1>3, <1>4

LEMMA DeInitDeviceStep ==
  ASSUME BareMetalInv, DeInitDevice
  PROVE  BareMetalInv'
<1>1. Consistent(s, held) /\ DeviceCall
  BY DEF BareMetalInv, DeInitDevice
<1>2. PICK ok \in BOOLEAN, o \in Device(s) \cap Static :
        /\ s.mem[o].kind # "periph"
        /\ s' = ModuleDeInit(s, o, ok) \/ s' = AdaptrDeInit(s, o, ok)
  BY DEF DeInitDevice
<1>3. Contains(s.linked, o)
  BY <1>1, LinkedDevice
<1>4. Good(s, held, s')
  BY <1>1, <1>2, <1>3, DeInitGood
<1> QED BY <1>1, <1>4, DeviceStep

LEMMA CreateDeviceStep ==
  ASSUME BareMetalInv, CreateDevice
  PROVE  BareMetalInv'
<1>1. Consistent(s, held) /\ DeviceCall
  BY DEF BareMetalInv, CreateDevice
<1>2. PICK driver \in BOOLEAN, ok \in BOOLEAN, size \in HandleSizes :
        s' = ModuleCreate(s, driver, size, ok) \/ s' = AdaptrCreate(s, driver, size, ok)
  BY DEF CreateDevice
<1>3. size \in Nat
  BY BareMetalAssumption
<1>4. Good(s, held, s')
  BY <1>1, <1>2, <1>3, CreatesGood
<1> QED BY <1>1, <1>4, DeviceStep

LEMMA DestroyDeviceStep ==
  ASSUME BareMetalInv, DestroyDevice
  PROVE  BareMetalInv'
<1>1. Consistent(s, held) /\ held' = held /\ main.at = "idle" /\ main' = main
     
  BY DEF BareMetalInv, DestroyDevice, Call, Runs
<1>2. PICK ok \in BOOLEAN, o \in Device(s) \ Static :
        /\ s.mem[o].kind # "periph"
        /\ s' = ModuleDestroy(s, o, ok) \/ s' = AdaptrDestroy(s, o, ok)
  BY DEF DestroyDevice
<1>3. Contains(s.linked, o)
  BY <1>1, LinkedDevice
<1>4. Good(s, held, s')
  BY <1>1, <1>2, <1>3, DestroyGood
<1>5. Good(s, held', s')
  BY <1>1, <1>4
<1> QED BY <1>1, <1>5, IdleStep

LEMMA NewPeriphStep ==
  ASSUME BareMetalInv, NewPeriph
  PROVE  BareMetalInv'
<1>1. Consistent(s, held) /\ DeviceCall
  BY DEF BareMetalInv, NewPeriph
<1>2. PICK a \in OfKind(s, "adaptr") :
        \/ \E p \in StaticPeriph \ Device(s) : s' = PeriphInit(s, p, a)
        \/ s' = PeriphCreate(s, a)
  BY DEF NewPeriph
<1>3. CASE \E p \in StaticPeriph \ Device(s) : s' = PeriphInit(s, p, a)
  <2>1. PICK p \in StaticPeriph \ Device(s) : s' = PeriphInit(s, p, a)
    BY <1>3
  <2>2. p \in Static /\ ~Contains(s.linked, p)
    BY <1>1, LinkedDevice, DeviceAssumption
  <2>3. Good(s, held, s')
    BY <1>1, <2>1, <2>2, PeriphInitGood
  <2> QED BY <1>1, <2>3, DeviceStep
<1>4. CASE s' = PeriphCreate(s, a)
  <2>1. Good(s, held, s')
    BY <1>1, <1>4, PeriphCreateGood
  <2> QED BY <1>1, <2>1, DeviceStep
<1> QED BY <1>2, <1>3, <1>4

LEMMA RetireStep ==
  ASSUME BareMetalInv, Retire
  PROVE  BareMetalInv'
<1>1. /\ Consistent(s, held) /\ held' = held /\ main.at = "retire" /\ main' = None
      /\ s' = PeriphRetire(s, main.on)
  BY DEF BareMetalInv, Retire, Runs, Step, Between
<1>2. main.on \in OfKind(s, "periph")
  BY <1>1 DEF BareMetalInv, MainType
<1>3. Consistent(s', held) /\ KeepsBut(s, s', {main.on})
  BY <1>1, <1>2, PeriphRetireGood
<1>4. PICK X : X = {main.on}
  OBVIOUS
<1>5. ASSUME NEW o \in DOMAIN s.mem
      PROVE  /\ s.mem[o].hw \notin X
             /\ s.mem[o].kind = "adaptr" /\ s.mem[o].open => s.mem[o].owner \notin X
  <2>1. /\ s.mem[Mounted].hw # main.on
        /\ s.mem[Mounted].open => s.mem[Mounted].owner # main.on
    BY <1>1 DEF BareMetalInv, CallInv
  <2>2. main.on # Null
    <3>1. main.on \in DOMAIN s.mem
      BY <1>1, <1>2, PeriphHasNone
    <3> QED BY <1>1, <3>1, Disjoint DEF Consistent, Typed
  <2>3. \A x : Mounts(s, main.on, x) => x = Mounted
    BY DEF Mounts, Mounted
  <2>4. Serving(s)
    BY DEF BareMetalInv
  <2>5. s.mem[o].hw # main.on
    BY <2>1, <2>2, <2>3, <2>4 DEF Serving
  <2>6. ASSUME s.mem[o].kind = "adaptr", s.mem[o].open, s.mem[o].owner = main.on PROVE FALSE
    BY <2>1, <2>3, <2>4, <2>6 DEF Serving
  <2> QED BY <1>4, <2>5, <2>6
<1>6. Serving(s')
  BY <1>3, <1>4, <1>5, ServingKept DEF BareMetalInv
<1>7. main'.at = "idle" /\ Consistent(s', held')
  BY <1>1, <1>3 DEF None
<1> QED BY <1>1, <1>6, <1>7, QuietStep

-----------------------------------------------------------------------------
(* Acquisitions                                                            *)

LEMMA AcquireStep ==
  ASSUME BareMetalInv, Acquire
  PROVE  BareMetalInv'
<1>1. PICK timeout \in Timeouts, on \in {Sem, Event}, start \in 0..(TickMod - 1) :
        /\ now' = start
        /\ main' = [None EXCEPT !.at = "poll", !.on = on, !.timeout = timeout, !.start = start]
  BY DEF Acquire
<1>2. /\ s' = s /\ held' = held /\ main.at = "idle"
      /\ waited' = 0 /\ ticked' = FALSE
  BY DEF Acquire, Runs
<1>3. /\ main'.at = "poll" /\ main'.timeout = timeout /\ main'.start = start
      /\ main' = [at |-> main'.at, on |-> main'.on, of |-> main'.of,
                  timeout |-> main'.timeout,
                  start |-> main'.start, retire |-> main'.retire]
  BY <1>1 DEF None
<1>4. LoopInv'
  <2>1. timeout \in 0..Forever /\ start \in 0..Forever
    BY BareMetalAssumption DEF Forever
  <2>2. start = (start + 0) % TickMod
    BY <2>1, NoSysAssumption, ModulusBelow DEF Forever
  <2> QED BY <1>1, <1>2, <1>3, <2>1, <2>2 DEF LoopInv
<1> QED BY <1>2, <1>3, <1>4, LoopStep

LEMMA PollStep ==
  ASSUME BareMetalInv, PollSemaphore \/ PollEvent
  PROVE  BareMetalInv'
<1>1. PICK taken : Round(taken)
  <2>1. CASE PollSemaphore
    BY <2>1 DEF PollSemaphore
  <2>2. CASE PollEvent
    BY <2>2 DEF PollEvent
  <2> QED BY <2>1, <2>2
<1>2. main.at = "poll" /\ s' = s /\ held' = held
  BY DEF PollSemaphore, PollEvent, Runs
<1>3. MainType /\ LoopInv
  BY DEF BareMetalInv
<1>4. LoopInv'
  BY <1>1, <1>2, <1>3, RoundInTime
<1>5. /\ main' = [at |-> main'.at, on |-> main'.on, of |-> main'.of,
                  timeout |-> main'.timeout,
                  start |-> main'.start, retire |-> main'.retire]
      /\ main'.at \in {"idle", "poll"}
  BY <1>1, <1>2, <1>3 DEF Round, MainType, None
<1> QED BY <1>2, <1>4, <1>5, LoopStep

LEMMA TickStep ==
  ASSUME BareMetalInv, Tick
  PROVE  BareMetalInv'
<1>1. main.at = "poll" /\ s' = s /\ held' = held /\ main' = main
  BY DEF Tick, Runs
<1>2. LoopInv'
  BY TickInTime DEF BareMetalInv
<1> QED BY <1>1, <1>2, LoopStep DEF BareMetalInv, MainType

LEMMA OtherStep ==
  ASSUME BareMetalInv, Renew \/ InterruptGives
  PROVE  BareMetalInv'
<1>1. /\ s' = s /\ held' = held /\ main' = main /\ main.at \in {"idle", "poll"}
      /\ now' = now /\ waited' = waited /\ ticked' = ticked
  BY DEF Renew, InterruptGives, Call, Runs
<1>2. LoopInv'
  BY <1>1 DEF BareMetalInv, LoopInv
<1> QED BY <1>1, <1>2, LoopStep DEF BareMetalInv, MainType

-----------------------------------------------------------------------------
(* The calls of main code to drivers, step by step                         *)

LEMMA PeriphIs ==
  ASSUME BareMetalInv, NEW p \in OfKind(s, "periph"), NEW a, a = s.mem[p].mount
  PROVE  /\ p \in DOMAIN s.mem /\ a \in DOMAIN s.mem /\ Typed(s) /\ Mounts(s, p, a)
         /\ p # Null /\ p \in Pointer /\ Null \in Pointer
         /\ s.mem[p].kind = "periph" /\ s.mem[a].kind = "adaptr"
<1>1. Consistent(s, held) /\ Typed(s)
  BY DEF BareMetalInv, Consistent
<1>2. p \in DOMAIN s.mem /\ a \in DOMAIN s.mem /\ a \in OfKind(s, "adaptr")
  BY <1>1, PeriphHasNone
<1>3. p # Null /\ p \in Pointer /\ Null \in Pointer
  BY <1>1, <1>2, Disjoint DEF Typed, Pointer
<1> QED BY <1>1, <1>2, <1>3 DEF OfKind, Mounts

MainIs(next) ==
  next = [at |-> next.at, on |-> next.on, of |-> next.of, timeout |-> next.timeout,
          start |-> next.start, retire |-> next.retire]

\* What a step between two accesses to an adaptr has to keep.
LEMMA BetweenStep ==
  ASSUME BareMetalInv, NEW a, NEW p, Mounts(s, p, a), Steered(s, s', a, p), held' = held,
         MainIs(main'), main'.at \in Places \ {"poll"},
         main'.at # "idle" => main'.on \in OfKind(s, "periph"), CallInv'
  PROVE  BareMetalInv'
<1>1. Consistent(s, held) /\ Serving(s) /\ Touched(s, s')
  BY DEF BareMetalInv, Steered
<1>2. Consistent(s', held') /\ \A kind : OfKind(s', kind) = OfKind(s, kind)
  BY <1>1, TouchDevice
<1>3. Serving(s')
  BY <1>1, ServingSteered
<1>4. OfKind(s', "periph") = OfKind(s, "periph")
  BY <1>2
<1>5. MainType'
  BY <1>4 DEF MainType, MainIs
<1>6. LoopInv'
  BY DEF LoopInv
<1> QED BY <1>2, <1>3, <1>5, <1>6 DEF BareMetalInv

\* The periph main code is at and its adaptr.
LEMMA MainOn ==
  ASSUME BareMetalInv, main.at \notin {"idle", "poll"}
  PROVE  /\ main.on \in OfKind(s, "periph") /\ main.on \in DOMAIN s.mem
         /\ Mounted \in DOMAIN s.mem /\ Mounted = s.mem[main.on].mount
         /\ Mounts(s, main.on, Mounted) /\ Typed(s)
         /\ main.on # Null /\ main.on \in Pointer /\ Null \in Pointer
         /\ s.mem[main.on].kind = "periph" /\ s.mem[Mounted].kind = "adaptr"
         /\ MainIs(main)
<1>1. main.on \in OfKind(s, "periph") /\ MainIs(main)
  BY DEF BareMetalInv, MainType, MainIs
<1>2. PICK a : a = s.mem[main.on].mount
  OBVIOUS
<1> QED BY <1>1, <1>2, PeriphIs DEF Mounted

\* It is mounted there after the step too.
LEMMA StillMounted ==
  ASSUME BareMetalInv, NEW a, NEW p, Mounts(s, p, a), Steered(s, s', a, p),
         main.at \notin {"idle", "poll"}, main'.on = main.on
  PROVE  /\ Mounted' = Mounted
         /\ \A x, o : Mounts(s', x, o) <=> Mounts(s, x, o)
<1>1. \A x, o : Mounts(s', x, o) <=> Mounts(s, x, o)
  BY ServingSteered DEF BareMetalInv
<1>2. Mounts(s', main.on, Mounted)
  BY <1>1, MainOn
<1> QED BY <1>1, <1>2 DEF Mounts, Mounted

LEMMA UpdateOpenStep ==
  ASSUME BareMetalInv, UpdateOpen
  PROVE  BareMetalInv'
<1>1. PICK a \in OfKind(s, "adaptr") :
        /\ s.mem[a].open
        /\ main' = [None EXCEPT !.at = "updating", !.on = s.mem[a].owner, !.of = a]
  BY DEF UpdateOpen
<1>2. s' = s /\ held' = held
  BY DEF UpdateOpen, Between
<1>3. PICK p : p = s.mem[a].owner
  OBVIOUS
<1>4. Typed(s) /\ Consistent(s, held) /\ Serving(s)
  BY DEF BareMetalInv, Consistent
<1>5. a \in DOMAIN s.mem /\ s.mem[a].kind = "adaptr"
  BY <1>4, DeviceIsLinked DEF OfKind
<1>6. Mounts(s, p, a)
  BY <1>1, <1>3, <1>4, <1>5 DEF Serving
<1>7. Steered(s, s', a, p)
  BY <1>2, <1>4, SteeredItself
<1>8. main'.at = "updating" /\ main'.on = p /\ main'.of = a /\ MainIs(main')
  BY <1>1, <1>3 DEF None, MainIs
<1>9. CallInv'
  BY <1>2, <1>6, <1>8 DEF CallInv, Mounted, Mounts
<1>10. p \in OfKind(s, "periph")
  BY <1>6 DEF Mounts
<1> QED BY <1>2, <1>6, <1>7, <1>8, <1>9, <1>10, BetweenStep DEF Places

LEMMA UpdateDriverStep ==
  ASSUME BareMetalInv, UpdateDriver
  PROVE  BareMetalInv'
<1>1. held' = held /\ main.at = "updating" /\ main' = None
  BY DEF UpdateDriver, Runs, Between, Step
<1>2. PICK a : a = Mounted
  OBVIOUS
<1>3. PICK p : p = main.on
  OBVIOUS
<1>4. Mounts(s, p, a) /\ a \in DOMAIN s.mem /\ Typed(s) /\ p \in Pointer /\ p \in {Null, p}
  BY <1>1, <1>2, <1>3, MainOn
<1>5. a = main.of
  BY <1>1, <1>2 DEF BareMetalInv, CallInv
<1>6. s' = s \/ s' = Driven(s, a, p)
  BY <1>3, <1>5 DEF UpdateDriver
<1>7. Steered(s, s', a, p)
  <2>1. CASE s' = s
    BY <1>4, <2>1, SteeredItself
  <2>2. CASE s' = Driven(s, a, p)
    BY <1>4, <2>2, DrivenSteers
  <2> QED BY <1>6, <2>1, <2>2
<1>8. main'.at = "idle" /\ MainIs(main')
  BY <1>1 DEF None, MainIs
<1>9. CallInv'
  BY <1>8 DEF CallInv
<1> QED BY <1>1, <1>4, <1>7, <1>8, <1>9, BetweenStep DEF Places

LEMMA OpenStep ==
  ASSUME BareMetalInv, Open
  PROVE  BareMetalInv'
<1>1. PICK p \in OfKind(s, "periph") :
        /\ s' = [s EXCEPT !.mem[s.mem[p].mount].mutex = MutexAcquire(@)]
        /\ main' = [None EXCEPT !.at = "opening", !.on = p]
  BY DEF Open
<1>2. held' = held
  BY DEF Open, Between
<1>3. PICK a : a = s.mem[p].mount
  OBVIOUS
<1>4. a \in DOMAIN s.mem /\ Typed(s) /\ Mounts(s, p, a)
  BY <1>3, PeriphIs
<1>5. s' = [s EXCEPT !.mem[a].mutex = MutexAcquire(@)]
  BY <1>1, <1>3
<1>6. Steered(s, s', a, p)
  BY <1>4, <1>5, MutexSteers
<1>7. main'.at = "opening" /\ main'.on = p /\ MainIs(main')
  BY <1>1 DEF None, MainIs
<1>8. CallInv'
  BY <1>7 DEF CallInv
<1> QED BY <1>2, <1>4, <1>6, <1>7, <1>8, BetweenStep DEF Places

LEMMA OpenDriverStep ==
  ASSUME BareMetalInv, OpenDriver
  PROVE  BareMetalInv'
<1>1. held' = held /\ main.at = "opening"
  BY DEF OpenDriver, Runs, Between
<1>2. PICK a : a = Mounted
  OBVIOUS
<1>3. PICK p : p = main.on
  OBVIOUS
<1>4. /\ Mounts(s, p, a) /\ a \in DOMAIN s.mem /\ Typed(s) /\ p \in Pointer /\ p \in {Null, p}
      /\ p \in OfKind(s, "periph") /\ MainIs(main)
  BY <1>1, <1>2, <1>3, MainOn
<1>5. \/ s' = s \/ s' = Driven(s, a, p)
      \/ s' = [s EXCEPT !.mem[a].mutex = MutexRelease(@)]
  BY <1>2, <1>3 DEF OpenDriver
<1>6. Steered(s, s', a, p)
  <2>1. CASE s' = s
    BY <1>4, <2>1, SteeredItself
  <2>2. CASE s' = Driven(s, a, p)
    BY <1>4, <2>2, DrivenSteers
  <2>3. CASE s' = [s EXCEPT !.mem[a].mutex = MutexRelease(@)]
    BY <1>4, <2>3, MutexSteers
  <2> QED BY <1>5, <2>1, <2>2, <2>3
<1>7. main' = None \/ main' = [main EXCEPT !.at = "opened"]
  BY DEF OpenDriver, Step
<1>8. /\ main'.at \in {"idle", "opened"} /\ MainIs(main')
      /\ main'.at # "idle" => main'.on = p
  BY <1>3, <1>4, <1>7 DEF None, MainIs
<1>9. CallInv'
  BY <1>8 DEF CallInv
<1> QED BY <1>1, <1>4, <1>6, <1>8, <1>9, BetweenStep DEF Places

LEMMA OpenOwnerStep ==
  ASSUME BareMetalInv, OpenOwner
  PROVE  BareMetalInv'
<1>1. /\ held' = held /\ main.at = "opened" /\ s' = Owned(s, main.on)
      /\ main' = [main EXCEPT !.at = "owned"]
  BY DEF OpenOwner, Runs, Between, Step
<1>2. PICK a : a = Mounted
  OBVIOUS
<1>3. PICK p : p = main.on
  OBVIOUS
<1>4. /\ Mounts(s, p, a) /\ a \in DOMAIN s.mem /\ p \in DOMAIN s.mem /\ Typed(s)
      /\ a = s.mem[p].mount /\ p \in OfKind(s, "periph") /\ MainIs(main)
  BY <1>1, <1>2, <1>3, MainOn
<1>5. s' = Owned(s, p)
  BY <1>1, <1>3
<1>6. Steered(s, s', a, p) /\ s'.mem[a].owner = p
  BY <1>4, <1>5, OwnedSteers
<1>7. main'.at = "owned" /\ main'.on = main.on /\ MainIs(main')
  BY <1>1, <1>4 DEF MainIs
<1>8. Mounted' = a /\ Mounts(s', p, a)
  BY <1>1, <1>2, <1>4, <1>6, <1>7, StillMounted
<1>9. CallInv'
  BY <1>6, <1>7, <1>8 DEF CallInv
<1> QED BY <1>1, <1>3, <1>4, <1>6, <1>7, <1>9, BetweenStep DEF Places

LEMMA OpenEndStep ==
  ASSUME BareMetalInv, OpenEnd
  PROVE  BareMetalInv'
<1>1. held' = held /\ main.at = "owned" /\ s' = FlagsSet(s, main.on) /\ main' = None
  BY DEF OpenEnd, Runs, Between, Step
<1>2. PICK a : a = Mounted
  OBVIOUS
<1>3. PICK p : p = main.on
  OBVIOUS
<1>4. PICK q : q = s.mem[a].owner
  OBVIOUS
<1>5. /\ a \in DOMAIN s.mem /\ p \in DOMAIN s.mem /\ Typed(s)
      /\ a = s.mem[p].mount /\ s.mem[p].kind = "periph"
  BY <1>1, <1>2, <1>3, MainOn
<1>6. Mounts(s, q, a)
  BY <1>1, <1>2, <1>4 DEF BareMetalInv, CallInv
<1>7. s' = FlagsSet(s, p)
  BY <1>1, <1>3
<1>8. Steered(s, s', a, q)
  BY <1>4, <1>5, <1>7, FlagsSteer
<1>9. main'.at = "idle" /\ MainIs(main')
  BY <1>1 DEF None, MainIs
<1>10. CallInv'
  BY <1>9 DEF CallInv
<1> QED BY <1>1, <1>6, <1>8, <1>9, <1>10, BetweenStep DEF Places

LEMMA CloseStep ==
  ASSUME BareMetalInv, Close
  PROVE  BareMetalInv'
<1>1. PICK p \in OfKind(s, "periph"), retire \in BOOLEAN :
        main' = [None EXCEPT !.at = "closing", !.on = p, !.retire = retire]
  BY DEF Close
<1>2. s' = s /\ held' = held
  BY DEF Close, Between
<1>3. PICK a : a = s.mem[p].mount
  OBVIOUS
<1>4. Typed(s) /\ Mounts(s, p, a)
  BY <1>3, PeriphIs
<1>5. Steered(s, s', a, p)
  BY <1>2, <1>4, SteeredItself
<1>6. main'.at = "closing" /\ main'.on = p /\ MainIs(main')
  BY <1>1 DEF None, MainIs
<1>7. CallInv'
  BY <1>6 DEF CallInv
<1> QED BY <1>2, <1>4, <1>5, <1>6, <1>7, BetweenStep DEF Places

LEMMA CloseDriverStep ==
  ASSUME BareMetalInv, CloseDriver
  PROVE  BareMetalInv'
<1>1. held' = held /\ main.at = "closing"
  BY DEF CloseDriver, Runs, Between
<1>2. PICK a : a = Mounted
  OBVIOUS
<1>3. PICK p : p = main.on
  OBVIOUS
<1>4. PICK n : n = Null
  OBVIOUS
<1>5. /\ Mounts(s, p, a) /\ a \in DOMAIN s.mem /\ Typed(s) /\ n \in Pointer /\ n \in {Null, p}
      /\ p \in OfKind(s, "periph") /\ MainIs(main) /\ p # n
  BY <1>1, <1>2, <1>3, <1>4, MainOn
<1>6. PICK ok \in BOOLEAN :
        /\ s' = IF ok THEN Driven(s, a, n) ELSE s
        /\ main' = [main EXCEPT !.at = "closed", !.retire = @ /\ ok]
  BY <1>2, <1>4 DEF CloseDriver
<1>7. Steered(s, s', a, p) /\ (ok => s'.mem[a].hw = n)
  <2>1. CASE ok
    BY <1>5, <1>6, <2>1, DrivenSteers
  <2>2. CASE ~ok
    BY <1>5, <1>6, <2>2, SteeredItself
  <2> QED BY <2>1, <2>2
<1>8. /\ main'.at = "closed" /\ main'.on = main.on /\ MainIs(main')
      /\ main'.retire = (main.retire /\ ok)
  BY <1>5, <1>6 DEF MainIs
<1>9. Mounted' = a
  BY <1>1, <1>2, <1>5, <1>7, <1>8, StillMounted
<1>10. ASSUME main'.retire PROVE s'.mem[Mounted'].hw # main'.on
  BY <1>3, <1>5, <1>7, <1>8, <1>9, <1>10
<1>11. CallInv'
  BY <1>8, <1>10 DEF CallInv
<1> QED BY <1>1, <1>3, <1>5, <1>7, <1>8, <1>11, BetweenStep DEF Places

LEMMA CloseFlagStep ==
  ASSUME BareMetalInv, CloseFlag
  PROVE  BareMetalInv'
<1>1. /\ held' = held /\ main.at = "closed" /\ s' = FlagCleared(s, main.on)
      /\ main' = [main EXCEPT !.at = "flagged"]
  BY DEF CloseFlag, Runs, Between, Step
<1>2. PICK a : a = Mounted
  OBVIOUS
<1>3. PICK p : p = main.on
  OBVIOUS
<1>4. /\ Mounts(s, p, a) /\ a \in DOMAIN s.mem /\ p \in DOMAIN s.mem /\ Typed(s)
      /\ p \in OfKind(s, "periph") /\ MainIs(main)
  BY <1>1, <1>2, <1>3, MainOn
<1>5. s' = FlagCleared(s, p)
  BY <1>1, <1>3
<1>6. Steered(s, s', a, p) /\ SameHw(s, s')
  BY <1>4, <1>5, ClearedSteers
<1>7. /\ main'.at = "flagged" /\ main'.on = main.on /\ MainIs(main')
      /\ main'.retire = main.retire
  BY <1>1, <1>4 DEF MainIs
<1>8. Mounted' = a
  BY <1>1, <1>2, <1>4, <1>6, <1>7, StillMounted
<1>9. main.retire => s.mem[a].hw # main.on
  BY <1>1, <1>2 DEF BareMetalInv, CallInv
<1>10. CallInv'
  BY <1>4, <1>6, <1>7, <1>8, <1>9 DEF CallInv, SameHw
<1> QED BY <1>1, <1>3, <1>4, <1>6, <1>7, <1>10, BetweenStep DEF Places

LEMMA CloseEndStep ==
  ASSUME BareMetalInv, CloseEnd
  PROVE  BareMetalInv'
<1>1. /\ held' = held /\ main.at = "flagged"
      /\ main' = IF main.retire THEN [main EXCEPT !.at = "retire"] ELSE None
  BY DEF CloseEnd, Runs, Between, Step
<1>2. PICK a : a = Mounted
  OBVIOUS
<1>3. PICK p : p = main.on
  OBVIOUS
<1>4. /\ Mounts(s, p, a) /\ a \in DOMAIN s.mem /\ Typed(s)
      /\ p \in OfKind(s, "periph") /\ MainIs(main)
  BY <1>1, <1>2, <1>3, MainOn
<1>5. s' = Released(s, a)
  BY <1>2 DEF CloseEnd
<1>6. Steered(s, s', a, p) /\ SameHw(s, s') /\ ~s'.mem[a].open
  BY <1>4, <1>5, ReleasedSteers
<1>7. CASE main.retire
  <2>1. /\ main'.at = "retire" /\ main'.on = main.on /\ MainIs(main') /\ main'.retire
    BY <1>1, <1>4, <1>7 DEF MainIs
  <2>2. Mounted' = a
    BY <1>1, <1>2, <1>4, <1>6, <2>1, StillMounted
  <2>3. s.mem[a].hw # main.on
    BY <1>1, <1>2, <1>7 DEF BareMetalInv, CallInv
  <2>4. CallInv'
    BY <1>4, <1>6, <2>1, <2>2, <2>3 DEF CallInv, SameHw
  <2> QED BY <1>1, <1>3, <1>4, <1>6, <2>1, <2>4, BetweenStep DEF Places
<1>8. CASE ~main.retire
  <2>1. main'.at = "idle" /\ MainIs(main')
    BY <1>1, <1>8 DEF None, MainIs
  <2>2. CallInv'
    BY <2>1 DEF CallInv
  <2> QED BY <1>1, <1>4, <1>6, <2>1, <2>2, BetweenStep DEF Places
<1> QED BY <1>7, <1>8

-----------------------------------------------------------------------------
(* Opens by force                                                          *)

LEMMA ForceOwnerStep ==
  ASSUME BareMetalInv, ForceOwner
  PROVE  BareMetalInv'
<1>1. PICK p \in OfKind(s, "periph") :
        /\ s' = Told(s, p)
        /\ main' = [None EXCEPT !.on = p,
                      !.at = IF s.mem[s.mem[p].mount].driver THEN "forcing" ELSE "opened"]
  BY DEF ForceOwner
<1>2. held' = held
  BY DEF ForceOwner
<1>3. PICK a : a = s.mem[p].mount
  OBVIOUS
<1>4. Typed(s) /\ Mounts(s, p, a)
  BY <1>3, PeriphIs
<1>5. Steered(s, s', a, p)
  BY <1>1, <1>4, ToldSteers
<1>6. main'.at \in {"forcing", "opened"} /\ main'.on = p /\ MainIs(main')
  BY <1>1 DEF None, MainIs
<1>7. CallInv'
  BY <1>6 DEF CallInv
<1> QED BY <1>2, <1>4, <1>5, <1>6, <1>7, BetweenStep DEF Places

LEMMA ForceDriverStep ==
  ASSUME BareMetalInv, ForceClose \/ ForceDriver
  PROVE  BareMetalInv'
<1>1. held' = held /\ main.at \in {"forcing", "reopening"}
  BY DEF ForceClose, ForceDriver, Runs, Between
<1>2. PICK a : a = Mounted
  OBVIOUS
<1>3. PICK p : p = main.on
  OBVIOUS
<1>4. PICK n : n = Null
  OBVIOUS
<1>5. /\ Mounts(s, p, a) /\ a \in DOMAIN s.mem /\ Typed(s) /\ n \in Pointer /\ n \in {Null, p}
      /\ p \in Pointer /\ p \in {Null, p} /\ p \in OfKind(s, "periph") /\ MainIs(main)
  BY <1>1, <1>2, <1>3, <1>4, MainOn
<1>6. s' = s \/ s' = Driven(s, a, n) \/ s' = Driven(s, a, p)
  BY <1>2, <1>3, <1>4 DEF ForceClose, ForceDriver
<1>7. Steered(s, s', a, p)
  <2>1. CASE s' = s
    BY <1>5, <2>1, SteeredItself
  <2>2. CASE s' = Driven(s, a, n)
    BY <1>5, <2>2, DrivenSteers
  <2>3. CASE s' = Driven(s, a, p)
    BY <1>5, <2>3, DrivenSteers
  <2> QED BY <1>6, <2>1, <2>2, <2>3
<1>8. main' = None \/ main' = [main EXCEPT !.at = "reopening"]
                   \/ main' = [main EXCEPT !.at = "opened"]
  BY DEF ForceClose, ForceDriver, Step
<1>9. /\ main'.at \in {"idle", "reopening", "opened"} /\ MainIs(main')
      /\ main'.at # "idle" => main'.on = p
  BY <1>3, <1>5, <1>8 DEF None, MainIs
<1>10. CallInv'
  BY <1>9 DEF CallInv
<1> QED BY <1>1, <1>5, <1>7, <1>9, <1>10, BetweenStep DEF Places

\* What main code relies on outlasts an open by force of another periph than the
\* one it gives up.
LEMMA CallForced ==
  ASSUME BareMetalInv, NEW a, NEW p, Mounts(s, p, a), Steered(s, s', a, p), main' = main,
         ~(main.retire /\ p = main.on), main.at \notin {"idle", "poll"}
  PROVE  CallInv'
<1>1. /\ Mounted \in DOMAIN s.mem /\ main.on # Null /\ s.mem[Mounted].kind = "adaptr"
      /\ Mounted' = Mounted /\ \A x, o : Mounts(s', x, o) <=> Mounts(s, x, o)
  BY MainOn, StillMounted
<1>2. /\ \/ s'.mem[Mounted].hw = s.mem[Mounted].hw \/ s'.mem[Mounted].hw = Null
         \/ s'.mem[Mounted].hw = p
      /\ \/ s'.mem[Mounted].owner = s.mem[Mounted].owner
         \/ Mounted = a /\ s'.mem[Mounted].owner = p
      /\ s'.mem[Mounted].open => s.mem[Mounted].open \/ s'.mem[Mounted].owner = p
  BY <1>1 DEF Steered
<1>3. CallInv
  BY DEF BareMetalInv
<1>4. main.at = "updating" => Mounted' = main'.of
  BY <1>1, <1>3 DEF CallInv
<1>5. main.at = "owned" => Mounts(s', s'.mem[Mounted'].owner, Mounted')
  BY <1>1, <1>2, <1>3 DEF CallInv
<1>6. main.at \in {"closed", "flagged", "retire"} /\ main.retire =>
        s'.mem[Mounted'].hw # main.on
  BY <1>1, <1>2, <1>3 DEF CallInv
<1>7. main.at = "retire" =>
        main.retire /\ (s'.mem[Mounted'].open => s'.mem[Mounted'].owner # main.on)
  BY <1>1, <1>2, <1>3 DEF CallInv
<1> QED BY <1>4, <1>5, <1>6, <1>7 DEF CallInv

LEMMA OpenByForceStep ==
  ASSUME BareMetalInv, OpenByForce
  PROVE  BareMetalInv'
<1>1. held' = held /\ main' = main /\ now' = now /\ waited' = waited /\ ticked' = ticked
  BY DEF OpenByForce
<1>2. PICK p \in OfKind(s, "periph"), closes \in BOOLEAN, opens \in BOOLEAN :
        s' = OpenForce(s, p, closes, opens) /\ ~(main.retire /\ p = main.on)
  BY DEF OpenByForce
<1>3. PICK a : a = s.mem[p].mount
  OBVIOUS
<1>4. /\ p \in DOMAIN s.mem /\ a \in DOMAIN s.mem /\ Typed(s) /\ Mounts(s, p, a)
      /\ s.mem[p].kind = "periph"
  BY <1>3, PeriphIs
<1>5. Steered(s, s', a, p)
  BY <1>2, <1>3, <1>4, OpenForceSteers
<1>6. CASE main.at \notin {"idle", "poll"}
  <2>1. CallInv'
    BY <1>1, <1>2, <1>4, <1>5, <1>6, CallForced
  <2>2. MainIs(main) /\ main.on \in OfKind(s, "periph")
    BY <1>6, MainOn
  <2>3. MainIs(main') /\ main'.at \in Places \ {"poll"} /\ main'.on \in OfKind(s, "periph")
    BY <1>1, <1>6, <2>2 DEF BareMetalInv, MainType
  <2> QED BY <1>1, <1>4, <1>5, <2>1, <2>3, BetweenStep
<1>7. CASE main.at \in {"idle", "poll"}
  <2>1. Consistent(s, held) /\ Serving(s) /\ MainType /\ LoopInv
    BY DEF BareMetalInv
  <2>2. Consistent(s', held') /\ Serving(s')
    BY <1>1, <1>4, <1>5, <2>1, TouchDevice, ServingSteered DEF Steered
  <2>3. MainType' /\ LoopInv' /\ CallInv'
    BY <1>1, <1>7, <2>1 DEF MainType, LoopInv, CallInv
  <2> QED BY <2>2, <2>3 DEF BareMetalInv
<1> QED BY <1>6, <1>7

-----------------------------------------------------------------------------
(* The invariant and what follows from it                                  *)

\* No step of main code and no interrupt breaks the invariant.
LEMMA BareMetalStep ==
  BareMetalInv /\ [Next]_vars => BareMetalInv'
<1> SUFFICES ASSUME BareMetalInv, [Next]_vars PROVE BareMetalInv'
  OBVIOUS
<1>1. CASE UNCHANGED vars
  BY <1>1, UnchangedStep
<1>2. CASE AllocMemory
  BY <1>2, AllocStep
<1>3. CASE FreeMemory
  BY <1>3, FreeStep
<1>4. CASE ReallocMemory
  BY <1>4, ReallocStep
<1>5. CASE InitDevice
  BY <1>5, InitDeviceStep
<1>6. CASE DeInitDevice
  BY <1>6, DeInitDeviceStep
<1>7. CASE CreateDevice
  BY <1>7, CreateDeviceStep
<1>8. CASE DestroyDevice
  BY <1>8, DestroyDeviceStep
<1>9. CASE NewPeriph
  BY <1>9, NewPeriphStep
<1>10. CASE UpdateOpen
  BY <1>10, UpdateOpenStep
<1>11. CASE UpdateDriver
  BY <1>11, UpdateDriverStep
<1>12. CASE Open
  BY <1>12, OpenStep
<1>13. CASE OpenDriver
  BY <1>13, OpenDriverStep
<1>14. CASE OpenOwner
  BY <1>14, OpenOwnerStep
<1>15. CASE OpenEnd
  BY <1>15, OpenEndStep
<1>16. CASE Close
  BY <1>16, CloseStep
<1>17. CASE CloseDriver
  BY <1>17, CloseDriverStep
<1>18. CASE CloseFlag
  BY <1>18, CloseFlagStep
<1>19. CASE CloseEnd
  BY <1>19, CloseEndStep
<1>20. CASE Retire
  BY <1>20, RetireStep
<1>21. CASE ForceOwner
  BY <1>21, ForceOwnerStep
<1>22. CASE ForceClose \/ ForceDriver
  BY <1>22, ForceDriverStep
<1>23. CASE Acquire
  BY <1>23, AcquireStep
<1>24. CASE PollSemaphore \/ PollEvent
  BY <1>24, PollStep
<1>25. CASE Renew \/ InterruptGives
  BY <1>25, OtherStep
<1>26. CASE Tick
  BY <1>26, TickStep
<1>27. CASE OpenByForce
  BY <1>27, OpenByForceStep
<1> QED
  BY <1>1, <1>2, <1>3, <1>4, <1>5, <1>6, <1>7, <1>8, <1>9, <1>10, <1>11, <1>12, <1>13,
     <1>14, <1>15, <1>16, <1>17, <1>18, <1>19, <1>20, <1>21, <1>22, <1>23, <1>24, <1>25, <1>26, <1>27 DEF Next

\* The inductive invariant of the build without a scheduler holds.
LEMMA BareMetalAlways == Spec => []BareMetalInv
BY InitInv, BareMetalStep, PTL DEF Spec

LEMMA InvParts ==
  ASSUME BareMetalInv
  PROVE  HeapExact /\ BusyMeansMounted /\ DriverServesMounted /\ PollInTime
<1>1. Consistent(s, held) /\ Typed(s) /\ Behind(s) /\ Registered(s)
  BY DEF BareMetalInv, Consistent
<1>2. HeapExact
  BY <1>1 DEF Consistent, Exact, Handles, HeapExact
<1>3. BusyMeansMounted
  BY <1>1, BusyIsMounted DEF BusyMeansMounted
<1>4. PollInTime
  <2> SUFFICES ASSUME main.at = "poll" PROVE waited <= Max({1, main.timeout})
    BY DEF PollInTime
  <2>1. main.timeout \in Nat /\ waited \in Nat /\ (waited <= 1 \/ waited <= main.timeout)
    BY NoSysAssumption DEF BareMetalInv, LoopInv, Forever
  <2>2. main.timeout \in Int /\ waited \in Int
    BY <2>1
  <2> QED BY <2>1, <2>2, AtMostTheGreater
<1>5. DriverServesMounted
  <2> SUFFICES ASSUME NEW a \in OfKind(s, "adaptr")
               PROVE  /\ s.mem[a].hw = Null \/ IsPeriphOf(s.mem[a].hw, a)
                      /\ s.mem[a].open => IsPeriphOf(s.mem[a].owner, a)
    BY DEF DriverServesMounted
  <2>1. a \in DOMAIN s.mem /\ s.mem[a].kind = "adaptr"
    BY <1>1, DeviceIsLinked DEF OfKind
  <2> QED BY <2>1 DEF BareMetalInv, Serving, Mounts, IsPeriphOf
<1> QED BY <1>2, <1>3, <1>4, <1>5

\* Every used node of the heap belongs to main code, to a created device or to
\* its handle, and each of these has its node, whatever is allocated, freed,
\* reallocated, created and undone (llff.c:66, llff.c:111, llff.c:213,
\* device.c:124).
THEOREM HeapIsExact == Spec => []HeapExact
BY BareMetalAlways, InvParts, PTL

\* MDS_DeviceIsBusy, which looks at one neighbour, is true of exactly the
\* devices some periph is mounted on (device.c:43, device.c:297).
THEOREM BusyIsExact == Spec => []BusyMeansMounted
BY BareMetalAlways, InvParts, PTL

\* Neither a driver nor an adaptr that says it is open has a periph that is gone
\* or is mounted elsewhere, wherever opens by force come between the steps of
\* main code and whichever calls to drivers fail (device.c:276, device.c:353,
\* device.c:425).
THEOREM DriverServesTheMounted == Spec => []DriverServesMounted
BY BareMetalAlways, InvParts, PTL

\* No loop of an acquisition outlasts its timeout by more than the tick before
\* its first round, wherever the tick count wraps (nosys.c:74, nosys.c:270).
THEOREM PollsInTime == Spec => []PollInTime
BY BareMetalAlways, InvParts, PTL
=============================================================================
