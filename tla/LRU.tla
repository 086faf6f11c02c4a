--------------------------------- MODULE LRU ---------------------------------
(***************************************************************************)
(* The class LRU<T> of lru.h.  It keeps the same elements twice: lru_, a   *)
(* list in order of use, and pos_, a hash map from an element to its place *)
(* in the list.  Size() and Contains() ask pos_ alone, Pop() and Peek()    *)
(* ask lru_ alone, so every operation has to keep the two in step.         *)
(*                                                                         *)
(* A DCHECK states what the caller owes; it is the guard of the action.    *)
(***************************************************************************)
EXTENDS LRUList

CONSTANT Element        \* the values of type T

VARIABLES
  lru,        \* lru_: most recently used first
  pos,        \* the keys of pos_
  touched,    \* history: {x} after Insert and Use of x, {} otherwise
  returned    \* what the last operation returned: {x} for Pop, {} otherwise

vars == <<lru, pos, touched, returned>>

Init ==
  /\ lru = << >>
  /\ pos = {}
  /\ touched = {}
  /\ returned = {}

Insert(x) ==
  /\ x \notin pos
  /\ lru' = Pushed(lru, x)
  /\ pos' = pos \cup {x}
  /\ touched' = {x}
  /\ returned' = {}

\* Mutant of RemoveElement: the list is updated, pos_.erase is forgotten.
RemoveFromListOnly(x) ==
  /\ x \in pos
  /\ lru' = Removed(lru, x)
  /\ touched' = {}
  /\ returned' = {}
  /\ UNCHANGED pos

RemoveElement(x) ==
  /\ x \in pos
  /\ lru' = Removed(lru, x)
  /\ pos' = pos \ {x}
  /\ touched' = {}
  /\ returned' = {}

\* Mutant of Use: a member keeps its place.
UseInPlace(x) ==
  /\ lru' = IF x \in pos THEN lru ELSE Pushed(lru, x)
  /\ pos' = pos \cup {x}
  /\ touched' = {x}
  /\ returned' = {}

\* Use calls Contains, Remove and Insert: it asks pos_, not the list.
Use(x) ==
  /\ lru' = Pushed(IF x \in pos THEN Removed(lru, x) ELSE lru, x)
  /\ pos' = pos \cup {x}
  /\ touched' = {x}
  /\ returned' = {}

Pop ==
  /\ lru # << >>
  /\ lru' = Popped(lru)
  /\ pos' = pos \ {Oldest(lru)}
  /\ touched' = {}
  /\ returned' = {Oldest(lru)}

Next ==
  \/ \E x \in Element : Insert(x) \/ RemoveElement(x) \/ Use(x)
  \/ Pop

Spec == Init /\ [][Next]_vars
-----------------------------------------------------------------------------
TypeOK ==
  /\ lru \in Seq(Element)
  /\ pos \subseteq Element
  /\ {touched, returned} \subseteq SUBSET Element

\* The two halves of the class agree: the keys of pos_ are exactly the
\* elements of the list and none is in the list twice, whatever sequence of
\* legal calls was made.  Otherwise Size() and Contains() answer for other
\* elements than Pop() hands out, and an erased iterator is used again.
HalvesAgree ==
  /\ pos = ToSet(lru)
  /\ IsInjective(lru)

\* The list and the map together implement the order of use of LRUOrder:
\* whatever Use, Insert and Remove did before, Pop returns the element used
\* longest ago.
Order == INSTANCE LRUOrder WITH members <- pos, older <- UsedBefore(lru)
ImplementsLRUOrder == Order!Spec
=============================================================================
