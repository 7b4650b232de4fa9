---------------------------- MODULE DListTheorems ----------------------------
(***************************************************************************)
(* What the list operations of DList return, for lists of any length.      *)
(***************************************************************************)
EXTENDS DList, SequenceTheorems, WellFoundedInduction, TLAPS

\* Removing the node at position j shifts the nodes after it by one.
LEMMA RemoveAtProperties ==
  ASSUME NEW S, NEW s \in Seq(S), NEW j \in 1..Len(s)
  PROVE  /\ RemoveAt(s, j) \in Seq(S)
         /\ Len(RemoveAt(s, j)) = Len(s) - 1
         /\ \A i \in 1..(Len(s) - 1) :
              RemoveAt(s, j)[i] = IF i < j THEN s[i] ELSE s[i + 1]
<1> DEFINE a == SubSeq(s, 1, j - 1)
           b == SubSeq(s, j + 1, Len(s))
<1>0. /\ Len(s) \in Nat /\ j \in Int /\ DOMAIN s = 1..Len(s)
      /\ \A i \in 1..Len(s) : s[i] \in S
  BY LenProperties, ElementOfSeq
<1>1. /\ a \in Seq(S) /\ Len(a) = j - 1
      /\ \A i \in 1..(j - 1) : a[i] = s[i]
  BY <1>0, SubSeqProperties, SMT
<1>2. /\ b \in Seq(S) /\ Len(b) = Len(s) - j
      /\ \A i \in 1..(Len(s) - j) : b[i] = s[j + i]
  <2> DEFINE m == j + 1
  <2>1. m \in Int /\ Len(s) \in Int /\ \A i \in m..Len(s) : s[i] \in S
    BY <1>0
  <2> HIDE DEF m
  <2>2. /\ b \in Seq(S) /\ Len(b) = IF m <= Len(s) THEN Len(s) - m + 1 ELSE 0
        /\ \A i \in 1..(Len(s) - m + 1) : b[i] = s[m + i - 1]
    <3>1. b = SubSeq(s, m, Len(s))
      BY DEF m
    <3> QED BY <2>1, <3>1, SubSeqProperties
  <2>3. Len(b) = Len(s) - j
    <3> HIDE DEF a, b
    <3>1. m = j + 1
      BY DEF m
    <3>2. Len(b) = IF m <= Len(s) THEN Len(s) - m + 1 ELSE 0
      BY <2>2
    <3>3. \A n \in Nat : \A i \in 1..n :
            (IF i + 1 <= n THEN n - (i + 1) + 1 ELSE 0) = n - i
      OBVIOUS
    <3>4. Len(s) \in Nat /\ j \in 1..Len(s)
      BY <1>0
    <3> QED BY <3>1, <3>2, <3>3, <3>4
  <2>4. ASSUME NEW i \in 1..(Len(s) - j) PROVE b[i] = s[j + i]
    <3>1. i \in 1..(Len(s) - m + 1) /\ m + i - 1 = j + i
      BY <1>0 DEF m
    <3> QED BY <2>2, <3>1
  <2> QED BY <2>2, <2>3, <2>4
<1> HIDE DEF a, b
<1>3. /\ a \o b \in Seq(S)
      /\ Len(a \o b) = Len(a) + Len(b)
      /\ \A i \in 1..(Len(a) + Len(b)) :
           (a \o b)[i] = IF i <= Len(a) THEN a[i] ELSE b[i - Len(a)]
  BY <1>1, <1>2, ConcatProperties
<1>4. RemoveAt(s, j) = a \o b
  BY DEF RemoveAt, a, b
<1>5. \A i \in 1..(Len(s) - 1) :
        RemoveAt(s, j)[i] = IF i < j THEN s[i] ELSE s[i + 1]
  <2> TAKE i \in 1..(Len(s) - 1)
  <2>1. CASE i < j
    BY <2>1, <1>0, <1>1, <1>2, <1>3, <1>4
  <2>2. CASE ~(i < j)
    <3>1. i - (j - 1) \in 1..(Len(s) - j) /\ j + (i - (j - 1)) = i + 1
      BY <2>2, <1>0
    <3>2. RemoveAt(s, j)[i] = b[i - (j - 1)]
      BY <2>2, <1>0, <1>1, <1>2, <1>3, <1>4
    <3> QED BY <3>1, <3>2, <1>2, <2>2
  <2> QED BY <2>1, <2>2
<1>6. Len(RemoveAt(s, j)) = Len(s) - 1
  <2>1. Len(RemoveAt(s, j)) = Len(a) + Len(b)
    BY <1>3, <1>4
  <2> QED BY <1>0, <1>1, <1>2, <2>1
<1> QED BY <1>3, <1>4, <1>5, <1>6

\* Inserting at position j shifts the nodes from j on by one.
LEMMA InsertAtProperties ==
  ASSUME NEW S, NEW s \in Seq(S), NEW j \in 1..(Len(s) + 1), NEW t \in S
  PROVE  /\ InsertAt(s, j, t) \in Seq(S)
         /\ Len(InsertAt(s, j, t)) = Len(s) + 1
         /\ \A i \in 1..(Len(s) + 1) :
              InsertAt(s, j, t)[i] = IF i < j THEN s[i]
                                     ELSE IF i = j THEN t ELSE s[i - 1]
<1> DEFINE a == SubSeq(s, 1, j - 1)
           b == SubSeq(s, j, Len(s))
           c == <<t>>
<1>0. /\ Len(s) \in Nat /\ j \in Int
      /\ \A i \in 1..Len(s) : s[i] \in S
  BY LenProperties, ElementOfSeq
<1>1. /\ a \in Seq(S) /\ Len(a) = j - 1
      /\ \A i \in 1..(j - 1) : a[i] = s[i]
  BY <1>0, SubSeqProperties, SMT
<1>2. /\ b \in Seq(S) /\ Len(b) = Len(s) - j + 1
      /\ \A i \in 1..(Len(s) - j + 1) : b[i] = s[j + i - 1]
  BY <1>0, SubSeqProperties, SMT
<1>3. c \in Seq(S) /\ Len(c) = 1 /\ c[1] = t
  OBVIOUS
<1> HIDE DEF a, b, c
<1>4. /\ a \o c \in Seq(S)
      /\ Len(a \o c) = j
      /\ \A i \in 1..j : (a \o c)[i] = IF i < j THEN s[i] ELSE t
  <2>1. /\ a \o c \in Seq(S)
        /\ Len(a \o c) = Len(a) + Len(c)
        /\ \A i \in 1..(Len(a) + Len(c)) :
             (a \o c)[i] = IF i <= Len(a) THEN a[i] ELSE c[i - Len(a)]
    BY <1>1, <1>3, ConcatProperties
  <2> QED BY <2>1, <1>0, <1>1, <1>3
<1> DEFINE ac == a \o c
<1> HIDE DEF ac
<1>4a. /\ ac \in Seq(S) /\ Len(ac) = j
      /\ \A i \in 1..j : ac[i] = IF i < j THEN s[i] ELSE t
  BY <1>4 DEF ac
<1>5. /\ ac \o b \in Seq(S)
      /\ Len(ac \o b) = Len(ac) + Len(b)
      /\ \A i \in 1..(Len(ac) + Len(b)) :
           (ac \o b)[i] = IF i <= Len(ac) THEN ac[i] ELSE b[i - Len(ac)]
  BY <1>2, <1>4a, ConcatProperties
<1>6. InsertAt(s, j, t) = ac \o b
  BY DEF InsertAt, a, b, c, ac
<1>7. \A i \in 1..(Len(s) + 1) :
        InsertAt(s, j, t)[i] = IF i < j THEN s[i]
                               ELSE IF i = j THEN t ELSE s[i - 1]
  <2> TAKE i \in 1..(Len(s) + 1)
  <2>1. CASE i <= j
    BY <2>1, <1>0, <1>2, <1>4a, <1>5, <1>6
  <2>2. CASE ~(i <= j)
    <3>1. i - j \in 1..(Len(s) - j + 1) /\ j + (i - j) - 1 = i - 1
      BY <2>2, <1>0
    <3>2. InsertAt(s, j, t)[i] = b[i - j]
      BY <2>2, <1>0, <1>2, <1>4a, <1>5, <1>6
    <3> QED BY <3>1, <3>2, <1>2, <2>2
  <2> QED BY <2>1, <2>2, <1>0
<1> QED BY <1>0, <1>2, <1>4a, <1>5, <1>6, <1>7

\* MDS_DListRemoveNode takes out the one node it is given and no other.
THEOREM UnlinkProperties ==
  ASSUME NEW S, NEW s \in Seq(S), Distinct(s), NEW t
  PROVE  /\ Unlink(s, t) \in Seq(S)
         /\ Distinct(Unlink(s, t))
         /\ \A u : Contains(Unlink(s, t), u) <=> Contains(s, u) /\ u # t
         /\ ~Contains(s, t) => Unlink(s, t) = s
<1>0. Len(s) \in Nat /\ DOMAIN s = 1..Len(s)
  BY LenProperties
<1>1. CASE ~Contains(s, t)
  BY <1>0, <1>1 DEF Unlink, Contains
<1>2. CASE Contains(s, t)
  <2> DEFINE j == CHOOSE i \in DOMAIN s : s[i] = t
             r == RemoveAt(s, j)
  <2>1. j \in 1..Len(s) /\ s[j] = t
    BY <1>0, <1>2 DEF Contains
  <2>2. Unlink(s, t) = r
    BY <1>2 DEF Unlink
  <2> HIDE DEF j
  <2>3. /\ r \in Seq(S) /\ Len(r) = Len(s) - 1
        /\ \A i \in 1..(Len(s) - 1) : r[i] = IF i < j THEN s[i] ELSE s[i + 1]
    BY <2>1, RemoveAtProperties
  <2> HIDE DEF r
  <2>4. DOMAIN r = 1..(Len(s) - 1)
    BY <2>3, LenProperties
  <2>5. \A i, m \in 1..Len(s) : s[i] = s[m] => i = m
    BY <1>0 DEF Distinct
  <2>6. Distinct(r)
    <3> SUFFICES ASSUME NEW i \in 1..(Len(s) - 1), NEW m \in 1..(Len(s) - 1), r[i] = r[m]
                 PROVE  i = m
      BY <2>4 DEF Distinct
    <3> QED BY <1>0, <2>1, <2>3, <2>5
  <2>7. ASSUME NEW u, Contains(r, u) PROVE Contains(s, u) /\ u # t
    <3>1. PICK i \in 1..(Len(s) - 1) : r[i] = u
      BY <2>3, <2>7 DEF Contains
    <3> QED BY <1>0, <2>1, <2>3, <2>5, <3>1 DEF Contains
  <2>8. ASSUME NEW u, Contains(s, u), u # t PROVE Contains(r, u)
    <3>1. PICK i \in 1..Len(s) : s[i] = u
      BY <2>8 DEF Contains
    <3>2. CASE i < j
      BY <1>0, <2>1, <2>3, <3>1, <3>2 DEF Contains
    <3>3. CASE ~(i < j)
      <4>1. i - 1 \in 1..(Len(s) - 1) /\ ~(i - 1 < j) /\ (i - 1) + 1 = i
        BY <1>0, <2>1, <2>8, <3>1, <3>3
      <4>2. r[i - 1] = u
        BY <4>1, <2>3, <3>1
      <4> QED BY <4>1, <4>2, <2>3 DEF Contains
    <3> QED BY <3>2, <3>3
  <2> QED BY <1>2, <2>2, <2>3, <2>6, <2>7, <2>8
<1> QED BY <1>1, <1>2

\* A node that was on no list may be put at the head, at the tail or before
\* any node, and the list gains that node and no other.
THEOREM PushProperties ==
  ASSUME NEW S, NEW s \in Seq(S), NEW t \in S
  PROVE  /\ PushTail(s, t) \in Seq(S) /\ PushHead(s, t) \in Seq(S)
         /\ PushTail(s, t) # <<>> /\ PushHead(s, t) # <<>>
         /\ \A u : Contains(PushTail(s, t), u) <=> Contains(s, u) \/ u = t
         /\ \A u : Contains(PushHead(s, t), u) <=> Contains(s, u) \/ u = t
         /\ Distinct(s) /\ ~Contains(s, t) =>
              Distinct(PushTail(s, t)) /\ Distinct(PushHead(s, t))
<1>0. Len(s) \in Nat /\ DOMAIN s = 1..Len(s)
  BY LenProperties
<1> DEFINE a == PushTail(s, t)
           h == PushHead(s, t)
<1>1. /\ a \in Seq(S) /\ Len(a) = Len(s) + 1 /\ DOMAIN a = 1..(Len(s) + 1)
      /\ \A i \in 1..(Len(s) + 1) : a[i] = IF i <= Len(s) THEN s[i] ELSE t
  <2>1. a \in Seq(S) /\ Len(a) = Len(s) + 1
    BY AppendProperties DEF PushTail
  <2>2. \A i \in 1..Len(s) : a[i] = s[i]
    BY AppendProperties DEF PushTail
  <2>3. a[Len(s) + 1] = t
    BY AppendProperties DEF PushTail
  <2> QED BY <1>0, <2>1, <2>2, <2>3, LenProperties
<1>2. /\ h \in Seq(S) /\ Len(h) = Len(s) + 1 /\ DOMAIN h = 1..(Len(s) + 1)
      /\ \A i \in 1..(Len(s) + 1) : h[i] = IF i = 1 THEN t ELSE s[i - 1]
  <2> DEFINE c == <<t>>
  <2>1. c \in Seq(S) /\ Len(c) = 1 /\ c[1] = t
    OBVIOUS
  <2> HIDE DEF c
  <2>2. /\ c \o s \in Seq(S)
        /\ Len(c \o s) = Len(c) + Len(s)
        /\ \A i \in 1..(Len(c) + Len(s)) :
             (c \o s)[i] = IF i <= Len(c) THEN c[i] ELSE s[i - Len(c)]
    BY <2>1, ConcatProperties
  <2>3. h = c \o s
    BY DEF PushHead, c
  <2> HIDE DEF h
  <2>4. DOMAIN h = 1..Len(h)
    BY <2>2, <2>3, LenProperties
  <2> QED BY <1>0, <2>1, <2>2, <2>3, <2>4
<1>3. a # <<>> /\ h # <<>>
  BY <1>0, <1>1, <1>2
<1> HIDE DEF a, h
<1>4. ASSUME NEW u PROVE Contains(a, u) <=> Contains(s, u) \/ u = t
  <2>1. Contains(a, u) => Contains(s, u) \/ u = t
    BY <1>0, <1>1 DEF Contains
  <2>2. Contains(s, u) => Contains(a, u)
    BY <1>0, <1>1 DEF Contains
  <2>3. u = t => Contains(a, u)
    BY <1>0, <1>1 DEF Contains
  <2> QED BY <2>1, <2>2, <2>3
<1>5. ASSUME NEW u PROVE Contains(h, u) <=> Contains(s, u) \/ u = t
  <2>1. Contains(h, u) => Contains(s, u) \/ u = t
    BY <1>0, <1>2 DEF Contains
  <2>2. ASSUME Contains(s, u) PROVE Contains(h, u)
    <3>1. PICK i \in 1..Len(s) : s[i] = u
      BY <2>2 DEF Contains
    <3>2. i + 1 \in 1..Len(h) /\ h[i + 1] = u
      BY <1>0, <1>2, <3>1
    <3> QED BY <3>2 DEF Contains
  <2>3. u = t => Contains(h, u)
    BY <1>0, <1>2 DEF Contains
  <2> QED BY <2>1, <2>2, <2>3
<1>6. Distinct(s) /\ ~Contains(s, t) => Distinct(a)
  BY <1>0, <1>1 DEF Distinct, Contains
<1>7. Distinct(s) /\ ~Contains(s, t) => Distinct(h)
  <2> SUFFICES ASSUME Distinct(s), ~Contains(s, t),
                      NEW i \in 1..(Len(s) + 1), NEW m \in 1..(Len(s) + 1), h[i] = h[m]
               PROVE  i = m
    BY <1>2 DEF Distinct
  <2>1. \A n \in 2..(Len(s) + 1) : n - 1 \in 1..Len(s) /\ h[n] = s[n - 1] /\ h[n] # t
    BY <1>0, <1>2 DEF Contains
  <2>2. h[1] = t
    BY <1>0, <1>2
  <2>3. (i = 1 \/ i \in 2..(Len(s) + 1)) /\ (m = 1 \/ m \in 2..(Len(s) + 1))
    BY <1>0
  <2>4. CASE i = 1 \/ m = 1
    BY <2>1, <2>2, <2>3, <2>4
  <2>5. CASE i # 1 /\ m # 1
    <3>1. i - 1 = m - 1
      BY <1>0, <2>1, <2>3, <2>5 DEF Distinct
    <3> QED BY <1>0, <2>5, <3>1
  <2> QED BY <2>4, <2>5
<1> QED BY <1>1, <1>2, <1>3, <1>4, <1>5, <1>6, <1>7 DEF a, h

\* Inserting t before the first node of Later, or at the end, adds t and
\* nothing else (the search of MDS_KernelWaitQueueSuspend).
THEOREM InsertBeforeProperties ==
  ASSUME NEW S, NEW s \in Seq(S), NEW t \in S, NEW Later
  PROVE  /\ InsertBefore(s, t, Later) \in Seq(S)
         /\ \A u : Contains(InsertBefore(s, t, Later), u) <=> Contains(s, u) \/ u = t
         /\ Distinct(s) /\ ~Contains(s, t) => Distinct(InsertBefore(s, t, Later))
<1> DEFINE stop == {i \in DOMAIN s :
                      s[i] \in Later /\ \A m \in 1..(i - 1) : s[m] \notin Later}
<1>0. Len(s) \in Nat /\ DOMAIN s = 1..Len(s)
  BY LenProperties
<1>1. CASE stop = {}
  BY <1>1, PushProperties DEF InsertBefore
<1>2. CASE stop # {}
  <2> DEFINE j == CHOOSE i \in stop : TRUE
             r == InsertAt(s, j, t)
  <2>1. j \in 1..Len(s)
    BY <1>0, <1>2
  <2>2. InsertBefore(s, t, Later) = r
    BY <1>2 DEF InsertBefore
  <2> HIDE DEF j
  <2>3. j \in 1..(Len(s) + 1)
    BY <1>0, <2>1
  <2>4. /\ r \in Seq(S) /\ Len(r) = Len(s) + 1
        /\ \A i \in 1..(Len(s) + 1) :
             r[i] = IF i < j THEN s[i] ELSE IF i = j THEN t ELSE s[i - 1]
    BY <2>3, InsertAtProperties
  <2> HIDE DEF r
  <2>5. DOMAIN r = 1..(Len(s) + 1)
    BY <2>4, LenProperties
  <2>a. /\ \A i \in 1..(Len(s) + 1) : i < j => i \in 1..Len(s) /\ r[i] = s[i]
        /\ \A i \in 1..(Len(s) + 1) : ~(i < j) /\ i # j =>
             i - 1 \in 1..Len(s) /\ r[i] = s[i - 1]
        /\ r[j] = t
    BY <1>0, <2>1, <2>4
  <2>6. ASSUME NEW u, Contains(r, u) PROVE Contains(s, u) \/ u = t
    <3>1. PICK i \in 1..(Len(s) + 1) : r[i] = u
      BY <2>4, <2>6 DEF Contains
    <3> QED BY <2>a, <3>1 DEF Contains
  <2>7. ASSUME NEW u, Contains(s, u) PROVE Contains(r, u)
    <3>1. PICK i \in 1..Len(s) : s[i] = u
      BY <2>7 DEF Contains
    <3>2. CASE i < j
      BY <1>0, <2>1, <2>4, <3>1, <3>2 DEF Contains
    <3>3. CASE ~(i < j)
      <4>1. i + 1 \in 1..(Len(s) + 1) /\ ~(i + 1 < j) /\ i + 1 # j /\ (i + 1) - 1 = i
        BY <1>0, <2>1, <3>3
      <4>2. r[i + 1] = u
        BY <4>1, <2>4, <3>1
      <4> QED BY <4>1, <4>2, <2>4 DEF Contains
    <3> QED BY <3>2, <3>3
  <2>8. Contains(r, t)
    BY <1>0, <2>1, <2>4 DEF Contains
  <2>9. ASSUME Distinct(s), ~Contains(s, t) PROVE Distinct(r)
    <3> SUFFICES ASSUME NEW i \in 1..(Len(s) + 1), NEW m \in 1..(Len(s) + 1), r[i] = r[m]
                 PROVE  i = m
      BY <2>5 DEF Distinct
    <3>1. \A n \in 1..Len(s) : s[n] # t
      BY <2>9 DEF Contains
    <3>2. \A n, o \in 1..Len(s) : s[n] = s[o] => n = o
      BY <1>0, <2>9 DEF Distinct
    <3>3. i = j <=> m = j
      BY <2>a, <3>1
    <3>4. CASE i < j /\ m < j
      BY <2>a, <3>2, <3>4
    <3>5. CASE i < j /\ ~(m < j) /\ m # j
      <4>1. i = m - 1
        BY <2>a, <3>2, <3>5
      <4> QED BY <1>0, <2>1, <3>5, <4>1
    <3>6. CASE m < j /\ ~(i < j) /\ i # j
      <4>1. m = i - 1
        BY <2>a, <3>2, <3>6
      <4> QED BY <1>0, <2>1, <3>6, <4>1
    <3>7. CASE ~(i < j) /\ i # j /\ ~(m < j) /\ m # j
      <4>1. i - 1 = m - 1
        BY <2>a, <3>2, <3>7
      <4> QED BY <1>0, <4>1
    <3> QED BY <3>3, <3>4, <3>5, <3>6, <3>7
  <2> QED BY <2>2, <2>4, <2>6, <2>7, <2>8, <2>9
<1> QED BY <1>1, <1>2

\* Taking the first node off leaves the others, in their order.
LEMMA TailProperties ==
  ASSUME NEW S, NEW s \in Seq(S), s # <<>>, Distinct(s)
  PROVE  /\ Tail(s) \in Seq(S) /\ Distinct(Tail(s))
         /\ \A u : Contains(Tail(s), u) <=> Contains(s, u) /\ u # Head(s)
<1>1. /\ Tail(s) \in Seq(S) /\ Len(Tail(s)) = Len(s) - 1 /\ Head(s) = s[1]
      /\ \A i \in 1..(Len(s) - 1) : Tail(s)[i] = s[i + 1]
      /\ Len(s) \in Nat \ {0}
  BY HeadTailProperties
<1> DEFINE r == Tail(s)
<1>2. /\ r \in Seq(S) /\ Len(r) = Len(s) - 1 /\ \A i \in 1..(Len(s) - 1) : r[i] = s[i + 1]
  BY <1>1
<1> HIDE DEF r
<1>3. DOMAIN r = 1..(Len(s) - 1) /\ DOMAIN s = 1..Len(s)
  BY <1>2, LenProperties
<1>4. Distinct(r)
  <2> SUFFICES ASSUME NEW i \in DOMAIN r, NEW j \in DOMAIN r, r[i] = r[j] PROVE i = j
    BY DEF Distinct
  <2>1. /\ i \in Int /\ j \in Int /\ i + 1 \in DOMAIN s /\ j + 1 \in DOMAIN s
        /\ s[i + 1] = s[j + 1]
    BY <1>1, <1>2, <1>3
  <2>2. i + 1 = j + 1
    BY <2>1 DEF Distinct
  <2> QED BY <2>1, <2>2
<1>5. ASSUME NEW u PROVE Contains(r, u) <=> Contains(s, u) /\ u # s[1]
  <2>1. ASSUME Contains(r, u) PROVE Contains(s, u) /\ u # s[1]
    <3>1. PICK i \in 1..Len(r) : r[i] = u
      BY <2>1 DEF Contains
    <3>2. i + 1 \in 1..Len(s) /\ s[i + 1] = u /\ i + 1 # 1 /\ 1 \in 1..Len(s)
      BY <1>1, <1>2, <3>1
    <3> QED BY <1>3, <3>2 DEF Contains, Distinct
  <2>2. ASSUME Contains(s, u), u # s[1] PROVE Contains(r, u)
    <3>1. PICK i \in 1..Len(s) : s[i] = u
      BY <2>2 DEF Contains
    <3>2. i # 1
      BY <2>2, <3>1
    <3>3. i - 1 \in 1..Len(r) /\ i - 1 \in 1..(Len(s) - 1) /\ (i - 1) + 1 = i
      BY <1>1, <1>2, <3>1, <3>2
    <3>4. r[i - 1] = u
      BY <1>2, <3>1, <3>3
    <3> QED BY <3>3, <3>4 DEF Contains
  <2> QED BY <2>1, <2>2
<1> QED BY <1>1, <1>2, <1>4, <1>5 DEF r

-----------------------------------------------------------------------------
(* Sorted lists                                                            *)

\* A set of naturals has a least element: the walk of a sorted insertion
\* stops at the first element it looks for, if there is one at all.
LEMMA LeastNatural ==
  ASSUME NEW T \in SUBSET Nat, T # {}
  PROVE  \E m \in T : \A n \in T : m <= n
<1> DEFINE R == OpToRel(<, Nat)
<1>1. IsWellFoundedOn(R, Nat)
  BY NatLessThanWellFounded, Zenon
<1>2. \A m, n \in Nat : <<n, m>> \in R <=> n < m
  BY DEF OpToRel
<1> HIDE DEF R
<1>3. PICK m \in T : \A n \in T : ~(<<n, m>> \in R)
  BY <1>1, WFMin, Zenon
<1>4. \A n \in T : m <= n
  <2> TAKE n \in T
  <2>1. m \in Nat /\ n \in Nat /\ ~(<<n, m>> \in R)
    BY <1>3
  <2>2. ~(n < m)
    BY <1>2, <2>1
  <2> QED BY <2>1, <2>2
<1> QED BY <1>4

\* The rank of the elements does not fall along the list.
Ascends(s, rank) == \A i, j \in DOMAIN s : i < j => rank[s[i]] <= rank[s[j]]

\* Where a sorted insertion puts its element.
LEMMA InsertBeforePlace ==
  ASSUME NEW S, NEW s \in Seq(S), NEW t \in S, NEW Later
  PROVE  \E j \in 1..(Len(s) + 1) :
           /\ Len(InsertBefore(s, t, Later)) = Len(s) + 1
           /\ \A i \in 1..(Len(s) + 1) :
                InsertBefore(s, t, Later)[i] = IF i < j THEN s[i]
                                               ELSE IF i = j THEN t ELSE s[i - 1]
           /\ \A i \in 1..(j - 1) : s[i] \notin Later
           /\ j <= Len(s) => s[j] \in Later
<1> DEFINE stop == {i \in DOMAIN s :
                      s[i] \in Later /\ \A m \in 1..(i - 1) : s[m] \notin Later}
<1>0. Len(s) \in Nat /\ DOMAIN s = 1..Len(s)
  BY LenProperties
<1>1. CASE stop = {}
  <2> DEFINE later == {i \in 1..Len(s) : s[i] \in Later}
  <2>1. later = {}
    <3> SUFFICES ASSUME later # {} PROVE FALSE
      OBVIOUS
    <3>1. PICK m \in later : \A n \in later : m <= n
      <4>1. later \in SUBSET Nat
        BY <1>0
      <4> QED BY <4>1, LeastNatural
    <3>2. m \in stop
      BY <1>0, <3>1
    <3> QED BY <1>1, <3>2
  <2>2. InsertBefore(s, t, Later) = Append(s, t)
    BY <1>1 DEF InsertBefore, PushTail
  <2>3. /\ Len(Append(s, t)) = Len(s) + 1
        /\ \A i \in 1..Len(s) : Append(s, t)[i] = s[i]
        /\ Append(s, t)[Len(s) + 1] = t
    BY <1>0, AppendProperties
  <2>4. \A i \in 1..(Len(s) + 1) :
          Append(s, t)[i] = IF i < Len(s) + 1 THEN s[i]
                            ELSE IF i = Len(s) + 1 THEN t ELSE s[i - 1]
    BY <1>0, <2>3
  <2>5. /\ Len(s) + 1 \in 1..(Len(s) + 1)
        /\ \A i \in 1..((Len(s) + 1) - 1) : s[i] \notin Later
        /\ ~(Len(s) + 1 <= Len(s))
    BY <1>0, <2>1
  <2> QED BY <2>2, <2>3, <2>4, <2>5
<1>2. CASE stop # {}
  <2> DEFINE j == CHOOSE i \in stop : TRUE
  <2>1. /\ j \in 1..Len(s) /\ s[j] \in Later
        /\ \A m \in 1..(j - 1) : s[m] \notin Later
    BY <1>0, <1>2
  <2>2. InsertBefore(s, t, Later) = InsertAt(s, j, t)
    BY <1>2 DEF InsertBefore
  <2> HIDE DEF j
  <2>3. j \in 1..(Len(s) + 1)
    BY <1>0, <2>1
  <2>4. /\ Len(InsertAt(s, j, t)) = Len(s) + 1
        /\ \A i \in 1..(Len(s) + 1) :
             InsertAt(s, j, t)[i] = IF i < j THEN s[i] ELSE IF i = j THEN t ELSE s[i - 1]
    BY <2>3, InsertAtProperties
  <2> QED BY <2>1, <2>2, <2>3, <2>4
<1> QED BY <1>1, <1>2

\* Removing a node keeps a list sorted.
LEMMA UnlinkAscends ==
  ASSUME NEW S, NEW s \in Seq(S), NEW t, NEW rank \in [S -> Int], Ascends(s, rank)
  PROVE  Ascends(Unlink(s, t), rank)
<1>0. Len(s) \in Nat /\ DOMAIN s = 1..Len(s) /\ \A i \in 1..Len(s) : s[i] \in S
  BY LenProperties, ElementOfSeq
<1>1. CASE ~Contains(s, t)
  BY <1>1 DEF Unlink
<1>2. CASE Contains(s, t)
  <2> DEFINE j == CHOOSE i \in DOMAIN s : s[i] = t
             r == RemoveAt(s, j)
  <2>1. j \in 1..Len(s)
    BY <1>0, <1>2 DEF Contains
  <2>2. Unlink(s, t) = r
    BY <1>2 DEF Unlink
  <2> HIDE DEF j
  <2>3. /\ r \in Seq(S) /\ Len(r) = Len(s) - 1
        /\ \A i \in 1..(Len(s) - 1) : r[i] = IF i < j THEN s[i] ELSE s[i + 1]
    BY <2>1, RemoveAtProperties
  <2> HIDE DEF r
  <2>4. DOMAIN r = 1..(Len(s) - 1)
    BY <2>3, LenProperties
  <2> DEFINE from(i) == IF i < j THEN i ELSE i + 1
  <2>5. ASSUME NEW i \in 1..(Len(s) - 1) PROVE from(i) \in 1..Len(s) /\ r[i] = s[from(i)]
    <3>1. CASE i < j
      <4>1. from(i) = i /\ r[i] = s[i] /\ i \in 1..Len(s)
        BY <1>0, <2>1, <2>3, <3>1
      <4> QED BY <4>1
    <3>2. CASE ~(i < j)
      <4>1. from(i) = i + 1 /\ r[i] = s[i + 1] /\ i + 1 \in 1..Len(s)
        BY <1>0, <2>1, <2>3, <3>2
      <4> QED BY <4>1
    <3> QED BY <3>1, <3>2
  <2>6. \A i, m \in 1..(Len(s) - 1) : i < m => from(i) < from(m)
    BY <1>0, <2>1
  <2> HIDE DEF from
  <2>7. Ascends(r, rank)
    BY <1>0, <2>4, <2>5, <2>6 DEF Ascends
  <2> QED BY <2>2, <2>7
<1> QED BY <1>1, <1>2

\* The elements of s in Later are those that rank above t.
RanksAbove(Later, s, t, rank) == \A i \in DOMAIN s : s[i] \in Later <=> rank[t] < rank[s[i]]

\* Inserting a node before the first of a higher rank keeps a list sorted,
\* however the walk tells that a listed node ranks higher.
LEMMA InsertSorted ==
  ASSUME NEW S, NEW s \in Seq(S), NEW t \in S, NEW rank \in [S -> Int], Ascends(s, rank),
         NEW Later, RanksAbove(Later, s, t, rank)
  PROVE  Ascends(InsertBefore(s, t, Later), rank)
<1> DEFINE r == InsertBefore(s, t, Later)
<1>0. Len(s) \in Nat /\ DOMAIN s = 1..Len(s) /\ \A i \in 1..Len(s) : s[i] \in S
  BY LenProperties, ElementOfSeq
<1>1. PICK j \in 1..(Len(s) + 1) :
           /\ Len(r) = Len(s) + 1
           /\ \A i \in 1..(Len(s) + 1) : r[i] = IF i < j THEN s[i]
                                                ELSE IF i = j THEN t ELSE s[i - 1]
           /\ \A i \in 1..(j - 1) : s[i] \notin Later
           /\ j <= Len(s) => s[j] \in Later
  BY InsertBeforePlace, SMTT(20)
<1>2. r \in Seq(S)
  BY InsertBeforeProperties
<1>3. DOMAIN r = 1..(Len(s) + 1)
  BY <1>1, <1>2, LenProperties
<1>4. \A i \in 1..Len(s) : rank[s[i]] \in Int /\ rank[t] \in Int
  BY <1>0
<1>5. \A i, m \in 1..Len(s) : i < m => rank[s[i]] <= rank[s[m]]
  BY <1>0 DEF Ascends
<1>6. \A i \in 1..(j - 1) : i \in 1..Len(s) /\ rank[s[i]] <= rank[t]
  <2> TAKE i \in 1..(j - 1)
  <2>1. i \in 1..Len(s) /\ s[i] \in S
    BY <1>0, <1>1
  <2>2. ~(rank[t] < rank[s[i]])
    BY <1>0, <1>1, <2>1 DEF RanksAbove
  <2> QED BY <1>4, <2>1, <2>2
<1>7. \A i \in 1..Len(s) : j <= i => rank[t] <= rank[s[i]]
  <2> TAKE i \in 1..Len(s)
  <2> HAVE j <= i
  <2>1. j \in 1..Len(s) /\ rank[t] < rank[s[j]]
    BY <1>0, <1>1 DEF RanksAbove
  <2>2. rank[s[j]] <= rank[s[i]]
    BY <1>4, <1>5, <2>1
  <2> QED BY <1>4, <2>1, <2>2
<1> HIDE DEF r
<1>8. ASSUME NEW i \in 1..(Len(s) + 1), NEW m \in 1..(Len(s) + 1), i < m
      PROVE  rank[r[i]] <= rank[r[m]]
  <2>1. CASE m < j
    BY <1>0, <1>1, <1>5, <1>8, <2>1
  <2>2. CASE m = j
    <3>1. i \in 1..(j - 1)
      BY <1>8, <2>2
    <3>2. r[m] = t /\ r[i] = s[i]
      BY <1>1, <2>2, <3>1
    <3> QED BY <1>6, <3>1, <3>2
  <2>3. CASE j < m
    <3>1. r[m] = s[m - 1] /\ m - 1 \in 1..Len(s) /\ j <= m - 1
      BY <1>0, <1>1, <2>3
    <3>2. CASE i < j
      <4>1. r[i] = s[i] /\ i \in 1..Len(s) /\ i < m - 1
        BY <1>0, <1>1, <3>1, <3>2
      <4> QED BY <1>5, <3>1, <4>1
    <3>3. CASE i = j
      BY <1>1, <1>7, <3>1, <3>3
    <3>4. CASE j < i
      <4>1. r[i] = s[i - 1] /\ i - 1 \in 1..Len(s) /\ i - 1 < m - 1
        BY <1>0, <1>1, <1>8, <3>1, <3>4
      <4> QED BY <1>5, <3>1, <4>1
    <3> QED BY <3>2, <3>3, <3>4
  <2> QED BY <2>1, <2>2, <2>3
<1>9. Ascends(r, rank)
  BY <1>3, <1>8 DEF Ascends
<1> QED BY <1>9 DEF r

\* The same when the ranks are compared as they are.
LEMMA InsertAscends ==
  ASSUME NEW S, NEW s \in Seq(S), NEW t \in S, NEW rank \in [S -> Int], Ascends(s, rank)
  PROVE  Ascends(InsertBefore(s, t, {u \in S : rank[t] < rank[u]}), rank)
<1>1. PICK Later : Later = {u \in S : rank[t] < rank[u]}
  OBVIOUS
<1>2. RanksAbove(Later, s, t, rank)
  BY <1>1, LenProperties, ElementOfSeq DEF RanksAbove
<1> QED BY <1>1, <1>2, InsertSorted

\* The order is one of the listed elements only.
LEMMA AscendsFrame ==
  ASSUME NEW S, NEW s \in Seq(S), NEW a, NEW b, Ascends(s, a),
         \A u \in S : Contains(s, u) => b[u] = a[u]
  PROVE  Ascends(s, b)
<1>1. DOMAIN s = 1..Len(s) /\ \A i \in 1..Len(s) : s[i] \in S /\ Contains(s, s[i])
  BY LenProperties, ElementOfSeq DEF Contains
<1> QED BY <1>1 DEF Ascends
=============================================================================
