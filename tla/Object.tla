------------------------------- MODULE Object -------------------------------
(***************************************************************************)
(* The object registry (object.c) for the objects of one type, as          *)
(* operators on a state s: s.linked, the list of the type, and s.h, the    *)
(* heap of the created objects.  An object is its address: a static one    *)
(* belongs to Static, a created one is a node of the heap.  A linked       *)
(* object is one whose type is not MDS_OBJECT_TYPE_NONE.                   *)
(***************************************************************************)
EXTENDS Heap, DList

CONSTANTS Static,      \* the objects that are static variables
          ObjectSize   \* the size of a created object

ASSUME ObjectAssumption ==
  /\ Null \notin Static /\ ObjectSize \in Nat \ {0}
  /\ Static \cap 0..Limit = {}   \* the heap has memory of its own

IsLinked(s, o) == Contains(s.linked, o)
IsCreated(o) == o \notin Static

\* MDS_ObjectInit appends; an object in use is refused with MDS_EAGAIN.
ObjectInit(s, o) == IF IsLinked(s, o) THEN s ELSE [s EXCEPT !.linked = PushTail(@, o)]

ObjectDeInit(s, o) == [s EXCEPT !.linked = Unlink(@, o)]

\* MDS_ObjectCreate: o is NULL when the memory is exhausted.
ObjectCreate(s) ==
  LET a == SysMemAlloc(s.h, ObjectSize)
      t == [s EXCEPT !.h = a.h]
  IN  [s |-> IF a.at = Null THEN t ELSE ObjectInit(t, a.at), o |-> a.at]

\* MDS_ObjectDestroy: a static object is refused with MDS_EFAULT.
ObjectDestroy(s, o) ==
  IF ~IsCreated(o) THEN s
  ELSE LET t == ObjectDeInit(s, o) IN [t EXCEPT !.h = SysMemFree(@, o)]
=============================================================================
