-------------------------- MODULE DataSourceContract --------------------------
(***************************************************************************)
(* What media::DataSource promises its reader, whichever class implements  *)
(* it: a read is answered at most once, with one or more of the bytes that *)
(* were asked for, starting at the position that was asked for, or with an *)
(* error; and once the source is stopped, no read touches the reader's     *)
(* buffer any more.                                                        *)
(***************************************************************************)
EXTENDS Integers

CONSTANTS
  Length,       \* bytes in the resource
  Positions,    \* where reads may start
  Sizes         \* sizes a read may ask for

VARIABLES
  request,    \* the pending read, as a set of at most one
  stopped,    \* Stop or Abort was called
  answer,     \* what the last read was answered with; {} while it is pending
  broken      \* the resource could not be opened

vars == <<request, stopped, answer, broken>>

Init ==
  /\ request = {}
  /\ stopped = FALSE
  /\ answer = {}
  /\ broken = FALSE

Bytes(position, n) ==
  [position |-> position, bytes |-> [k \in 1 .. n |-> position + k - 1]]
Error == [position |-> -1, bytes |-> << >>]

Ask ==
  /\ request = {}
  /\ \E p \in Positions, s \in Sizes : request' = {[position |-> p, size |-> s]}
  /\ answer' = {}
  /\ UNCHANGED <<stopped, broken>>

\* The bytes from the position on: at least one, at most as many as asked for.
Deliver ==
  /\ ~stopped /\ ~broken
  /\ \E r \in request :
       \E n \in 1 .. r.size :
         r.position + n <= Length /\ answer' = {Bytes(r.position, n)}
  /\ request' = {}
  /\ UNCHANGED <<stopped, broken>>

\* There is nothing at the position.
Fail ==
  /\ ~stopped
  /\ \E r \in request : broken \/ r.position >= Length
  /\ answer' = {Error}
  /\ request' = {}
  /\ UNCHANGED <<stopped, broken>>

\* A read of a stopped source.
Refuse ==
  /\ stopped
  /\ answer' = {Error}
  /\ UNCHANGED <<request, stopped, broken>>

Stop ==
  /\ stopped' = TRUE
  /\ UNCHANGED <<request, answer, broken>>

\* Opening the resource fails, before any read.
Break ==
  /\ request = {} /\ answer = {}
  /\ broken' = TRUE
  /\ UNCHANGED <<request, stopped, answer>>

Next == Ask \/ Deliver \/ Fail \/ Refuse \/ Stop \/ Break

Spec == Init /\ [][Next]_vars
=============================================================================
