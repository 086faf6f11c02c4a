------------------------ MODULE FileDataSource_proofs ------------------------
(***************************************************************************)
(* Proofs about FileDataSource, for a file of any length and any reads:    *)
(* each pending read has exactly one ReadTask, and the class implements    *)
(* DataSourceContract.                                                     *)
(***************************************************************************)
EXTENDS FileDataSource, TLAPS

\* The file is opened before the init callback is posted, and read only after
\* it has run; once it is open its size is known.
OpenedFirst ==
  /\ init_cb = "unset" <=> mapped_file = "unopened"
  /\ init_cb # "run" => reader_pc = "idle" /\ answer = {}
  /\ mapped_file = "valid" => total_bytes = Length

\* read_op_ is set from Read to the answer, and there is one of it.
OneOperation ==
  /\ reader_pc = "idle" <=> read_op = {}
  /\ \A a, b \in read_op : a = b

Inv == TypeOK /\ OpenedFirst /\ OneOperation /\ OneTaskPerRead

LEMMA OutcomeType ==
  ASSUME TypeOK, NEW op \in Operation
  PROVE  Outcome(op) \in [position : Nat \cup {-1}, bytes : Seq(Nat)]
<1> USE FileAssumption DEF TypeOK, Operation
<1>1. op.position \in Nat /\ op.size \in Nat /\ total_bytes \in Int
  <2>1. op.position \in Positions /\ op.size \in Sizes
    OBVIOUS
  <2>2. Length \in Int /\ -1 \in Int
    OBVIOUS
  <2> QED BY <2>1, <2>2
<1>2. ASSUME NEW n \in Nat
      PROVE  Result(op.position, n) \in [position : Nat \cup {-1}, bytes : Seq(Nat)]
  <2>1. \A k \in 1 .. n : op.position + k - 1 \in Nat
    BY <1>1
  <2>2. [k \in 1 .. n |-> op.position + k - 1] \in Seq(Nat)
    BY <2>1
  <2> QED BY <1>1, <2>2 DEF Result
<1>3. ReadError \in [position : Nat \cup {-1}, bytes : Seq(Nat)]
  BY DEF ReadError
<1>4. total_bytes - op.position > 0 => Lesser(total_bytes - op.position, op.size) \in Nat
  BY <1>1 DEF Lesser
<1> QED BY <1>2, <1>3, <1>4 DEF Outcome

LEMMA InitInv == Init => Inv
<1>1. Init => TypeOK
  <2> SUFFICES ASSUME Init PROVE TypeOK
    OBVIOUS
  <2>1. read_op = {} /\ answer = {} /\ total_bytes = -1
    BY DEF Init
  <2>2. read_tasks \in Nat /\ reads \in Nat /\ stop_signal_received \in BOOLEAN
    BY DEF Init
  <2>3. /\ mapped_file \in {"unopened", "valid", "invalid"}
        /\ init_cb \in {"unset", "posted", "run"}
        /\ reader_pc \in {"idle", "set", "waiting"}
    BY DEF Init
  <2> QED BY <2>1, <2>2, <2>3 DEF TypeOK
<1>2. Init => OpenedFirst /\ OneOperation /\ OneTaskPerRead
  BY DEF Init, OpenedFirst, OneOperation, OneTaskPerRead
<1> QED BY <1>1, <1>2 DEF Inv

LEMMA StepKeepsInv ==
  ASSUME Inv, [Next]_vars
  PROVE  Inv'
<1> USE DEF Inv, TypeOK, OpenedFirst, OneOperation, OneTaskPerRead
<1>1. ASSUME Initialize PROVE Inv'
  BY <1>1 DEF Initialize
<1>2. ASSUME RunInitCB PROVE Inv'
  BY <1>2 DEF RunInitCB
<1>3. ASSUME ReadTask PROVE Inv'
  <2>1. answer' \subseteq [position : Nat \cup {-1}, bytes : Seq(Nat)]
    BY <1>3, OutcomeType DEF ReadTask
  <2>2. read_tasks = 1 /\ read_tasks' = 0 /\ reader_pc = "waiting" /\ init_cb = "run"
    BY <1>3 DEF ReadTask
  <2>3. CASE stop_signal_received
    BY <1>3, <2>1, <2>2, <2>3 DEF ReadTask
  <2>4. CASE ~stop_signal_received
    BY <1>3, <2>1, <2>2, <2>4 DEF ReadTask
  <2> QED BY <2>3, <2>4
<1>4. ASSUME NEW op \in Operation, Read(op) PROVE Inv'
  <2>1. ReadError \in [position : Nat \cup {-1}, bytes : Seq(Nat)]
    BY DEF ReadError
  <2>2. read_tasks = 0
    BY <1>4 DEF Read
  <2>3. CASE stop_signal_received
    BY <1>4, <2>1, <2>2, <2>3 DEF Read
  <2>4. CASE ~stop_signal_received
    <3>1. read_op' = {op} /\ reader_pc' = "set" /\ answer' = {} /\ reads' \in Nat
      BY <1>4, <2>4 DEF Read
    <3>2. UNCHANGED <<mapped_file, total_bytes, stop_signal_received, init_cb, read_tasks>>
      BY <1>4 DEF Read
    <3>3. TypeOK'
      BY <3>1, <3>2
    <3>4. OpenedFirst' /\ OneOperation' /\ OneTaskPerRead'
      BY <1>4, <2>2, <3>1, <3>2 DEF Read
    <3> QED BY <3>3, <3>4
  <2> QED BY <2>3, <2>4
<1>5. ASSUME ReadPost PROVE Inv'
  BY <1>5 DEF ReadPost
<1>6. ASSUME Stop PROVE Inv'
  BY <1>6 DEF Stop
<1>7. CASE UNCHANGED vars
  BY <1>7 DEF vars
<1> QED BY <1>1, <1>2, <1>3, <1>4, <1>5, <1>6, <1>7 DEF Next, Render, Reader

LEMMA AlwaysInv == Spec => []Inv
<1>1. Inv /\ [Next]_vars => Inv'
  BY StepKeepsInv
<1> QED BY InitInv, <1>1, PTL DEF Spec

\* For any file, the variables keep their types: total_bytes_ is -1 or the
\* length of the mapping, and every answer is a result of a read.
THEOREM TypeCorrect == Spec => []TypeOK
<1>1. Inv => TypeOK
  BY DEF Inv
<1> QED BY AlwaysInv, <1>1, PTL

\* For any file and any reads, a ReadTask is queued exactly while a posted
\* read is pending (Read, file_data_source.cc:50, and ReadTask, :89).
THEOREM EachReadHasItsTask == Spec => []OneTaskPerRead
<1>1. Inv => OneTaskPerRead
  BY DEF Inv
<1> QED BY AlwaysInv, <1>1, PTL

LEMMA InitImplements == Init => Contract!Init
  BY DEF Init, Contract!Init

\* What ReadTask answers is what the contract lets the source deliver, or the
\* failure it allows.
LEMMA OutcomeAllowed ==
  ASSUME Inv, NEW op \in read_op, init_cb = "run"
  PROVE  \/ /\ mapped_file # "invalid"
            /\ \E n \in 1 .. op.size : /\ op.position + n <= Length
                                       /\ Outcome(op) = Contract!Bytes(op.position, n)
         \/ /\ mapped_file = "invalid" \/ op.position >= Length
            /\ Outcome(op) = Contract!Error
<1> USE FileAssumption DEF Inv, TypeOK, Operation, OpenedFirst
<1>1. op.position \in Nat /\ op.size \in Nat \ {0} /\ Length \in Nat
  OBVIOUS
<1>2. CASE mapped_file = "valid" /\ Length - op.position > 0
  <2> DEFINE n == Lesser(total_bytes - op.position, op.size)
  <2>1. n \in 1 .. op.size /\ op.position + n <= Length
    BY <1>1, <1>2 DEF Lesser
  <2>2. Outcome(op) = Contract!Bytes(op.position, n)
    BY <1>2 DEF Outcome, Result, Contract!Bytes
  <2> QED BY <1>2, <2>1, <2>2
<1>3. CASE ~(mapped_file = "valid" /\ Length - op.position > 0)
  <2>1. mapped_file = "invalid" \/ op.position >= Length
    BY <1>1, <1>3
  <2>2. Outcome(op) = Contract!Error
    BY <1>1, <1>3 DEF Outcome, ReadError, Contract!Error
  <2> QED BY <2>1, <2>2
<1> QED BY <1>2, <1>3

LEMMA StepImplements ==
  ASSUME Inv, [Next]_vars
  PROVE  [Contract!Next]_(Contract!vars)
<1> USE DEF Inv, TypeOK, OpenedFirst, OneOperation, OneTaskPerRead
<1>1. ASSUME Initialize PROVE [Contract!Next]_(Contract!vars)
  <2>1. CASE mapped_file' = "valid"
    BY <1>1, <2>1 DEF Initialize, Contract!vars
  <2>2. CASE mapped_file' = "invalid"
    BY <1>1, <2>2 DEF Initialize, Contract!Next, Contract!Break
  <2> QED BY <1>1, <2>1, <2>2 DEF Initialize
<1>2. ASSUME RunInitCB PROVE UNCHANGED Contract!vars
  BY <1>2 DEF RunInitCB, Contract!vars
<1>3. ASSUME ReadTask PROVE [Contract!Next]_(Contract!vars)
  <2>1. CASE stop_signal_received
    BY <1>3, <2>1 DEF ReadTask, Contract!vars
  <2>2. CASE ~stop_signal_received
    <3>1. read_op # {} /\ init_cb = "run"
      BY <1>3 DEF ReadTask
    <3>2. PICK op \in read_op : answer' = {Outcome(op)}
      BY <1>3, <2>2, <3>1 DEF ReadTask
    <3>3. read_op' = {} /\ UNCHANGED <<stop_signal_received, mapped_file>>
      BY <1>3, <2>2, <3>1 DEF ReadTask
    <3>4. Contract!Deliver \/ Contract!Fail
      BY <2>2, <3>1, <3>2, <3>3, OutcomeAllowed DEF Contract!Deliver, Contract!Fail
    <3> QED BY <3>4 DEF Contract!Next
  <2> QED BY <2>1, <2>2
<1>4. ASSUME NEW op \in Operation, Read(op) PROVE Contract!Next
  <2>1. CASE stop_signal_received
    BY <1>4, <2>1 DEF Read, ReadError, Contract!Next, Contract!Refuse, Contract!Error
  <2>2. CASE ~stop_signal_received
    <3>1. op = [position |-> op.position, size |-> op.size]
          /\ op.position \in Positions /\ op.size \in Sizes
      BY DEF Operation
    <3>2. Contract!Ask
      BY <1>4, <2>2, <3>1 DEF Read, Contract!Ask
    <3> QED BY <3>2 DEF Contract!Next
  <2> QED BY <2>1, <2>2
<1>5. ASSUME ReadPost PROVE UNCHANGED Contract!vars
  BY <1>5 DEF ReadPost, Contract!vars
<1>6. ASSUME Stop PROVE Contract!Next
  BY <1>6 DEF Stop, Contract!Next, Contract!Stop
<1>7. CASE UNCHANGED vars
  BY <1>7 DEF vars, Contract!vars
<1> QED BY <1>1, <1>2, <1>3, <1>4, <1>5, <1>6, <1>7 DEF Next, Render, Reader

\* For any file and any reads, the class implements DataSourceContract: reads
\* deliver the file's bytes at their position or fail as they should, and
\* nothing is delivered after Stop.
THEOREM FileSourceImplements == Spec => ImplementsContract
<1>1. Inv /\ [Next]_vars => [Contract!Next]_(Contract!vars)
  BY StepImplements
<1> QED BY InitImplements, AlwaysInv, <1>1, PTL DEF Spec, ImplementsContract, Contract!Spec
=============================================================================
