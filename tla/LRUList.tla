------------------------------- MODULE LRUList -------------------------------
(***************************************************************************)
(* The recency list inside LRU<T> (lru.h): a sequence without repetition   *)
(* whose first element is the most recently used one.  The operators are   *)
(* the list's share of LRU::Insert, Remove, Use, Pop and Peek; they are    *)
(* used by module LRU and by the block cache of ResourceMultiBuffer.       *)
(***************************************************************************)
EXTENDS Naturals, SequencesExt

\* The place of x, which is in l: what the iterator pos_[x] stands for.
Place(l, x) == CHOOSE i \in DOMAIN l : l[i] = x

\* lru_.push_front(x)
Pushed(l, x) == Cons(x, l)

\* lru_.erase(pos_[x])
Removed(l, x) == RemoveAt(l, Place(l, x))

\* Use: out of its place if it has one, then to the front.
Used(l, x) == Pushed(IF Contains(l, x) THEN Removed(l, x) ELSE l, x)

\* lru_.back() and lru_.pop_back()
Oldest(l) == Last(l)
Popped(l) == Front(l)

\* The order of use a list stands for: <<x, y>> when x was last used before y,
\* that is, when x has the place farther back.
UsedBefore(l) ==
  {p \in ToSet(l) \X ToSet(l) : \E i, j \in DOMAIN l : l[j] = p[1] /\ l[i] = p[2] /\ i < j}
=============================================================================
