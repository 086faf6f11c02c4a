---------------------------- MODULE FileDataSource ----------------------------
(***************************************************************************)
(* FileDataSource: a memory mapped file behind the same interface as       *)
(* ResourceDataSource.  The render thread runs Initialize, the init        *)
(* callback and ReadTask; the demuxer's thread reads; Stop may come from   *)
(* anywhere.  Read sets read_op_ under lock_ and posts ReadTask after it   *)
(* has unlocked; ReadTask holds lock_ throughout, so it is one step.       *)
(***************************************************************************)
EXTENDS Integers, Sequences, FiniteSets

CONSTANTS
  Length,       \* bytes in the file
  Positions,    \* where reads may start; also behind the end
  Sizes,        \* sizes a reader asks for
  MaxReads      \* bound: calls of Read

ASSUME FileAssumption ==
  /\ Length \in Nat
  /\ Positions \subseteq Nat
  /\ Sizes \subseteq Nat \ {0}
  /\ MaxReads \in Nat

VARIABLES
  mapped_file,           \* mapped_file_: unopened, valid or invalid
  total_bytes,           \* total_bytes_, -1 while unknown
  stop_signal_received,  \* stop_signal_received_
  init_cb,               \* init_cb_: unset, posted, run
  read_op,               \* read_op_, as the set of the operations it holds
  read_tasks,            \* ReadTasks in the render thread's queue
  reader_pc,             \* the reader: idle, set (not yet posted), waiting
  reads,                 \* calls of Read
  answer                 \* history: what the last read callback was run with

vars == <<mapped_file, total_bytes, stop_signal_received, init_cb, read_op,
          read_tasks, reader_pc, reads, answer>>

Operation == [position : Positions, size : Sizes]

\* The bytes of the file by their position, as in ResourceMultiBuffer.
Result(position, n) ==
  [position |-> position, bytes |-> [k \in 1 .. n |-> position + k - 1]]
ReadError == [position |-> -1, bytes |-> << >>]

Init ==
  /\ mapped_file = "unopened"
  /\ total_bytes = -1
  /\ stop_signal_received = FALSE
  /\ init_cb = "unset"
  /\ read_op = {}
  /\ read_tasks = 0
  /\ reader_pc = "idle"
  /\ reads = 0
  /\ answer = {}

Initialize ==
  /\ init_cb = "unset"
  /\ init_cb' = "posted"
  /\ \/ mapped_file' = "valid" /\ total_bytes' = Length
     \/ mapped_file' = "invalid" /\ UNCHANGED total_bytes
  /\ UNCHANGED <<stop_signal_received, read_op, read_tasks, reader_pc, reads, answer>>

RunInitCB ==
  /\ init_cb = "posted"
  /\ init_cb' = "run"
  /\ UNCHANGED <<mapped_file, total_bytes, stop_signal_received, read_op, read_tasks,
                 reader_pc, reads, answer>>

\* Mutant of Stop: it answers the pending read, and leaves its task in the queue.
StopAndAnswer ==
  /\ ~stop_signal_received
  /\ stop_signal_received' = TRUE
  /\ read_op' = {}
  /\ answer' = IF read_op = {} THEN answer ELSE {ReadError}
  /\ reader_pc' = "idle"
  /\ UNCHANGED <<mapped_file, total_bytes, init_cb, read_tasks, reads>>

\* Stop and Abort.
Stop ==
  /\ ~stop_signal_received
  /\ stop_signal_received' = TRUE
  /\ UNCHANGED <<mapped_file, total_bytes, init_cb, read_op, read_tasks, reader_pc,
                 reads, answer>>

\* A client whose init callback reported failure may still read.
Read(op) ==
  /\ init_cb = "run"
  /\ reader_pc = "idle" /\ reads < MaxReads
  /\ reads' = reads + 1
  /\ \/ /\ stop_signal_received
        /\ answer' = {ReadError}
        /\ UNCHANGED <<read_op, reader_pc>>
     \/ /\ ~stop_signal_received
        /\ read_op' = {op}
        /\ reader_pc' = "set"
        /\ answer' = {}
  /\ UNCHANGED <<mapped_file, total_bytes, stop_signal_received, init_cb, read_tasks>>

ReadPost ==
  /\ reader_pc = "set"
  /\ reader_pc' = "waiting"
  /\ read_tasks' = read_tasks + 1
  /\ UNCHANGED <<mapped_file, total_bytes, stop_signal_received, init_cb, read_op,
                 reads, answer>>

Lesser(a, b) == IF a < b THEN a ELSE b

\* Mutant of Outcome: the end of the file is no limit.
OutcomeUnclamped(op) ==
  IF mapped_file = "valid" THEN Result(op.position, op.size) ELSE ReadError

\* What ReadTask answers: bytes of the file, or kReadError at and behind its
\* end and when there is no file.
Outcome(op) ==
  IF mapped_file = "valid" /\ total_bytes - op.position > 0
  THEN Result(op.position, Lesser(total_bytes - op.position, op.size))
  ELSE ReadError

\* Mutant of ReadTask: an error is not reported.
ReadTaskSilentError ==
  /\ read_tasks > 0
  /\ read_tasks' = read_tasks - 1
  /\ \/ /\ stop_signal_received \/ read_op = {}
        /\ UNCHANGED <<read_op, answer, reader_pc>>
     \/ /\ ~stop_signal_received
        /\ \E op \in read_op :
             IF Outcome(op) = ReadError THEN UNCHANGED <<read_op, answer, reader_pc>>
             ELSE answer' = {Outcome(op)} /\ read_op' = {} /\ reader_pc' = "idle"
  /\ UNCHANGED <<mapped_file, total_bytes, stop_signal_received, init_cb, reads>>

ReadTask ==
  /\ read_tasks > 0
  /\ read_tasks' = read_tasks - 1
  /\ \/ /\ stop_signal_received \/ read_op = {}
        /\ UNCHANGED <<read_op, answer, reader_pc>>
     \/ /\ ~stop_signal_received
        /\ \E op \in read_op : answer' = {Outcome(op)}
        /\ read_op' = {}
        /\ reader_pc' = "idle"
  /\ UNCHANGED <<mapped_file, total_bytes, stop_signal_received, init_cb, reads>>

Render == Initialize \/ RunInitCB \/ ReadTask
Reader == (\E op \in Operation : Read(op)) \/ ReadPost

Next == Render \/ Reader \/ Stop

Spec == Init /\ [][Next]_vars

\* The render thread's message loop does not stop while a task is ready, and a
\* Read that was begun comes to its end.
FairSpec == Spec /\ WF_vars(Render) /\ WF_vars(ReadPost)
-----------------------------------------------------------------------------
TypeOK ==
  /\ mapped_file \in {"unopened", "valid", "invalid"}
  /\ total_bytes \in {-1, Length}
  /\ stop_signal_received \in BOOLEAN
  /\ init_cb \in {"unset", "posted", "run"}
  /\ read_op \subseteq Operation
  /\ read_tasks \in Nat
  /\ reader_pc \in {"idle", "set", "waiting"}
  /\ reads \in Nat
  /\ answer \subseteq [position : Nat \cup {-1}, bytes : Seq(Nat)]

\* A ReadTask is queued exactly while a posted read is pending: no task of an
\* earlier read is left to answer a later one before its Read has posted, and a
\* read that is not stopped always has its task.
OneTaskPerRead ==
  /\ read_tasks <= 1
  /\ read_tasks = 1 => reader_pc = "waiting" /\ read_op # {}
  /\ reader_pc = "waiting" /\ ~stop_signal_received => read_tasks = 1

\* The file source behind its interface: a read inside an opened file delivers
\* the bytes at its position, one behind the end or of no file fails, and after
\* Stop nothing is delivered.
Contract == INSTANCE DataSourceContract
              WITH request <- read_op, stopped <- stop_signal_received,
                   broken <- mapped_file = "invalid"
ImplementsContract == Contract!Spec

\* Every read of a source that is not stopped is answered.
ReadsAnswered == reader_pc = "waiting" ~> reader_pc # "waiting" \/ stop_signal_received
=============================================================================
