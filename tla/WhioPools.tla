----------------------------- MODULE WhioPools ------------------------------
(***************************************************************************)
(* The pools of objects.  When WHIO_CONFIG_ENABLE_STATIC_MALLOC is set,    *)
(* twelve types of objects are taken from arrays, and from malloc when the *)
(* array is used up; otherwise they are all from malloc.  The code is      *)
(* repeated for every type, with differences: some pools remember where    *)
(* the search begins, some make an object empty when it is handed out, and *)
(* some only if it comes from the array.                                   *)
(*                                                                         *)
(* A behaviour is that of one pool.  An array has at most MaxSlots places  *)
(* here, and malloc at most MaxHeap objects at a time; it may fail.        *)
(***************************************************************************)
EXTENDS Integers, FiniteSets

CONSTANTS
  MaxSlots,  \* bound on the places of an array
  MaxHeap    \* bound on the objects from malloc

BoundAssumption == MaxSlots \in Nat \ {0} /\ MaxHeap \in Nat

VARIABLES
  pool,    \* which pool, and whether the program is built with arrays
  used,    \* the marks of the places, 0 to Places - 1
  next,    \* where the search begins, 0 in a pool that does not remember it
  object,  \* what is in the object at each address: "empty", "set" by its owner,
           \* "zero" as the program starts, "garbage" as malloc leaves it
  owned    \* the addresses somebody has

vars == <<pool, used, next, object, owned>>

-----------------------------------------------------------------------------
\* places: the size of the array.  hinted: next is used.  emptied: what alloc makes
\* empty.  cleared: what free makes empty.
Pool(places, hinted, emptied, cleared) ==
  [places |-> places, hinted |-> hinted, emptied |-> emptied, cleared |-> cleared]

InodeList == Pool(10, TRUE, "any", "any")
InodeMeta == Pool(10, TRUE, "any", "any")
Fs        == Pool(2, TRUE, "any", "any")
Dev       == Pool(15, TRUE, "any", "any")
Closer    == Pool(4, TRUE, "any", "any")
File      == Pool(10, FALSE, "any", "any")
BlockDev  == Pool(10, FALSE, "any", "any")
DevFILE   == Pool(5, FALSE, "any", "place")
Subdev    == Pool(4, FALSE, "place", "place")
Membuf    == Pool(5, FALSE, "place", "place")
Memmap    == Pool(5, FALSE, "place", "place")
Fileno    == Pool(5, FALSE, "place", "place")

Pools ==
  {InodeList, InodeMeta, Fs, Dev, Closer, File, BlockDev, DevFILE, Subdev, Membuf,
   Memmap, Fileno}

Places == IF pool.array THEN 0..(IF pool.type.places < MaxSlots THEN pool.type.places
                                                               ELSE MaxSlots) - 1
                        ELSE {}
\* Addresses outside of the array.
Heap == {-k : k \in 1..MaxHeap}

Init ==
  /\ pool \in [type : Pools, array : BOOLEAN]
  /\ used = [p \in Places |-> FALSE]
  /\ next = 0
  /\ object = [a \in Places \cup Heap |-> IF a = 0 THEN "empty"
                                          ELSE IF a \in Places THEN "zero" ELSE "garbage"]
  /\ owned = {}

-----------------------------------------------------------------------------
\* The first place from next on that is not marked, -1 if there is none.
Found ==
  LET free == {p \in Places : p >= next /\ ~used[p]}
  IN IF free = {} THEN -1 ELSE CHOOSE p \in free : \A q \in free : p <= q

\* Mutant: an object is handed out as it is.
TakePlaceAsIs(p) ==
  /\ used' = [used EXCEPT ![p] = TRUE]
  /\ next' = IF pool.type.hinted THEN p + 1 ELSE 0
  /\ object' = object
  /\ owned' = owned \cup {p}
  /\ UNCHANGED pool

TakePlace(p) ==
  /\ used' = [used EXCEPT ![p] = TRUE]
  /\ next' = IF pool.type.hinted THEN p + 1 ELSE 0
  /\ object' = [object EXCEPT ![p] = "empty"]
  /\ owned' = owned \cup {p}
  /\ UNCHANGED pool

Alloc == Places # {} /\ Found # -1 /\ TakePlace(Found)

AllocFromHeap ==
  \E a \in Heap \ owned :
    /\ Found = -1
    /\ object' = [object EXCEPT ![a] = IF pool.type.emptied = "any" THEN "empty" ELSE "garbage"]
    /\ owned' = owned \cup {a}
    /\ UNCHANGED <<pool, used, next>>

\* What made the object allocated it for fills it in, all of it where alloc does not
\* make objects from malloc empty.
Fill ==
  \E a \in owned :
    /\ object' = [object EXCEPT ![a] = "set"]
    /\ UNCHANGED <<pool, used, next, owned>>

\* Mutant: the last place is taken for one that malloc gave.
BelongsShort(a) == a \in Places /\ a + 1 \in Places \cup {1}

\* The comparison of the address with both ends of the array.
Belongs(a) == a \in Places

\* Mutant: the search does not go back.
NextAfterStays(p) == next

NextAfter(p) == IF pool.type.hinted /\ p < next THEN p ELSE next

FreePlace ==
  \E a \in owned :
    /\ Belongs(a)
    /\ used' = [used EXCEPT ![a] = FALSE]
    /\ next' = NextAfter(a)
    /\ object' = [object EXCEPT ![a] = "empty"]
    /\ owned' = owned \ {a}
    /\ UNCHANGED pool

FreeToHeap ==
  \E a \in owned :
    /\ ~Belongs(a)
    /\ object' = [object EXCEPT ![a] = "garbage"]
    /\ owned' = owned \ {a}
    /\ UNCHANGED <<pool, used, next>>

Next == Alloc \/ AllocFromHeap \/ Fill \/ FreePlace \/ FreeToHeap

Spec == Init /\ [][Next]_vars

-----------------------------------------------------------------------------
\* An object has one owner: a place is marked while somebody has it, and only malloc's
\* objects go back to malloc.  A search finds every free place, wherever it begins, so
\* that malloc is only asked when the array is used up.  Nothing of an earlier owner is
\* in an object that is handed out, but for what malloc left in those that are filled in
\* as a whole.
PoolsSound ==
  /\ \A p \in Places : used[p] <=> p \in owned
  /\ \A p \in Places : p < next => used[p]
  /\ \A a \in owned :
       object[a] \in {"empty", "set"} \/ (a \in Heap /\ pool.type.emptied = "place")
  /\ \A p \in Places \ owned : object[p] \in {"empty", "zero"}
=============================================================================
