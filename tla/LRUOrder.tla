------------------------------- MODULE LRUOrder -------------------------------
(***************************************************************************)
(* What LRU<T> promises, without a list: a set of members and the order in *)
(* which they were last used.  "Returns the Least Recently Used T and      *)
(* removes it" (lru.h) is Pop.                                             *)
(***************************************************************************)
EXTENDS Naturals

CONSTANT Element

VARIABLES members, older, touched, returned

vars == <<members, older, touched, returned>>

Init ==
  /\ members = {}
  /\ older = {}
  /\ touched = {}
  /\ returned = {}

\* The order of the others, with x taken out of it.
Without(x) == {p \in older : p[1] # x /\ p[2] # x}

\* x becomes the youngest member, whether or not it was one before.
Touch(x) ==
  /\ members' = members \cup {x}
  /\ older' = Without(x) \cup ((members \ {x}) \X {x})
  /\ touched' = {x}
  /\ returned' = {}

Drop(x) ==
  /\ x \in members
  /\ members' = members \ {x}
  /\ older' = Without(x)
  /\ touched' = {}
  /\ returned' = {}

\* Every other member has been used since x was.
Pop ==
  \E x \in members :
    /\ \A y \in members \ {x} : <<x, y>> \in older
    /\ members' = members \ {x}
    /\ older' = Without(x)
    /\ touched' = {}
    /\ returned' = {x}

Next == Pop \/ \E x \in Element : Touch(x) \/ Drop(x)

Spec == Init /\ [][Next]_vars
=============================================================================
