------------------------------- MODULE DList -------------------------------
(***************************************************************************)
(* The intrusive doubly linked lists of inc/mds_def.h, read in the "next"  *)
(* direction of their header as sequences of the objects whose nodes they  *)
(* link.  An object that is on no list is a node that points to itself.    *)
(***************************************************************************)
EXTENDS Integers, Sequences, SequencesExt

\* No node is linked twice into the list.
Distinct(s) == \A i, j \in DOMAIN s : s[i] = s[j] => i = j

\* MDS_DListRemoveNode, for a node that may or may not be on the list s.
Unlink(s, t) ==
  IF Contains(s, t)
  THEN RemoveAt(s, CHOOSE i \in DOMAIN s : s[i] = t)
  ELSE s

\* MDS_DListInsertNodePrev on the header, and MDS_DListInsertNodeNext on it.
PushTail(s, t) == Append(s, t)
PushHead(s, t) == <<t>> \o s

\* The walk the sorted insertions make: t goes before the first element
\* that belongs to Later, and to the tail when there is none.
InsertBefore(s, t, Later) ==
  LET stop == {i \in DOMAIN s :
                 s[i] \in Later /\ \A j \in 1..(i - 1) : s[j] \notin Later}
  IN  IF stop = {} THEN PushTail(s, t)
      ELSE InsertAt(s, CHOOSE i \in stop : TRUE, t)
=============================================================================
