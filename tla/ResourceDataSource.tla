-------------------------- MODULE ResourceDataSource --------------------------
(***************************************************************************)
(* ResourceDataSource on top of ResourceMultiBuffer.                       *)
(*                                                                         *)
(* The reader is the demuxer's thread: Read, GetSize, Stop and Abort, one  *)
(* read at a time.  The render thread runs Initialize, the init callback   *)
(* and ReadTask.  The io thread runs the fetches; the multibuffer calls    *)
(* DidInitialize and OnUpdateState on it.                                  *)
(*                                                                         *)
(* lock_ is held by ReadTask from its check to its end, across the two     *)
(* calls into the multibuffer, each of which takes the multibuffer's own   *)
(* lock; the writer may come between them.  Read takes lock_ only for its  *)
(* check of the stop flag, not for what it then does with read_op_.        *)
(***************************************************************************)
EXTENDS ResourceMultiBuffer

CONSTANTS
  Sizes,       \* sizes a reader asks for
  MaxReads     \* bound: calls of Read

ASSUME ReadAssumption ==
  /\ Sizes \subseteq Nat \ {0}
  /\ MaxReads \in Nat

VARIABLES
  init_cb,               \* init_cb_: unset, armed, posted, run
  stop_signal_received,  \* stop_signal_received_
  read_op,               \* read_op_, as the set of the operations it holds
  read_tasks,            \* ReadTasks in the render thread's queue, delayed or not
  task_pc,               \* the ReadTask at work: idle, or seeked (lock_ is held)
  reader_pc,             \* the reader: idle, checked, set, waiting, gone
  reads,                 \* calls of Read
  size,                  \* total_bytes_ of the data source: GetSize's last answer
  answer,               \* history: what the last read callback was run with
  destroyed              \* the destructor has run

source_vars == <<init_cb, stop_signal_received, read_op, read_tasks, task_pc,
                 reader_pc, reads, size, answer, destroyed>>
vars == <<buffer_vars, source_vars>>

LockFree == task_pc = "idle"

Operation == [position : ReadPositions, size : Sizes]

\* What a read callback is run with: the bytes now in the reader's buffer, from
\* which position; or kReadError.
Result(op, bytes) == [position |-> op.position, bytes |-> bytes]
ReadError == [position |-> -1, bytes |-> << >>]

Init ==
  /\ BufferInit
  /\ init_cb = "unset"
  /\ stop_signal_received = FALSE
  /\ read_op = {}
  /\ read_tasks = 0
  /\ task_pc = "idle"
  /\ reader_pc = "idle"
  /\ reads = 0
  /\ size = 0
  /\ answer = {}
  /\ destroyed = FALSE
-----------------------------------------------------------------------------
(* The reader's thread *)

\* Read up to the end of its locked part.  The callback of a stopped source is
\* run at once, with lock_ held.
ReadCheck ==
  /\ reader_pc = "idle" /\ reads < MaxReads
  /\ init_cb = "run"
  /\ LockFree
  /\ reads' = reads + 1
  /\ \/ stop_signal_received /\ answer' = {ReadError} /\ UNCHANGED reader_pc
     \/ ~stop_signal_received /\ reader_pc' = "checked" /\ UNCHANGED answer
  /\ UNCHANGED <<buffer_vars, init_cb, stop_signal_received, read_op, read_tasks,
                 task_pc, size, destroyed>>

\* read_op_.reset(...), without lock_.
ReadSetOp(op) ==
  /\ reader_pc = "checked"
  /\ reader_pc' = "set"
  /\ read_op' = {op}
  /\ answer' = {}
  /\ UNCHANGED <<buffer_vars, init_cb, stop_signal_received, read_tasks, task_pc,
                 reads, size, destroyed>>

\* The log line reads the operation through read_op_, then ReadTask is posted.
\* There is no next step from a read_op_ that has become null meanwhile.
ReadPost ==
  /\ reader_pc = "set"
  /\ read_op # {}
  /\ reader_pc' = "waiting"
  /\ read_tasks' = read_tasks + 1
  /\ UNCHANGED <<buffer_vars, init_cb, stop_signal_received, read_op, task_pc,
                 reads, size, answer, destroyed>>

GetSize ==
  /\ reader_pc = "idle" /\ init_cb = "run"
  /\ LockFree /\ Unlocked
  /\ size' = BufferSize
  /\ UNCHANGED <<buffer_vars, init_cb, stop_signal_received, read_op, read_tasks, task_pc,
                 reader_pc, reads, answer, destroyed>>

\* Stop and Abort: a flag under lock_, set by another thread than the one that
\* waits in a read.
Stop ==
  /\ LockFree
  /\ init_cb = "run"
  /\ ~stop_signal_received
  /\ stop_signal_received' = TRUE
  /\ UNCHANGED <<buffer_vars, init_cb, read_op, read_tasks, task_pc, reader_pc,
                 reads, size, answer, destroyed>>

\* The reader's wait is cut short by its own abort signal once the source is
\* stopped, and the source is destroyed.  WeakPtrs drop the queued ReadTasks.
Destroy ==
  /\ stop_signal_received
  /\ reader_pc \in {"idle", "waiting"}
  /\ LockFree /\ Unlocked
  /\ reader_pc' = "gone"
  /\ destroyed' = TRUE
  /\ read_tasks' = 0
  /\ UNCHANGED <<buffer_vars, init_cb, stop_signal_received, read_op, task_pc,
                 reads, size, answer>>
-----------------------------------------------------------------------------
(* The render thread *)

Initialize ==
  /\ init_cb = "unset"
  /\ init_cb' = "armed"
  /\ Start
  /\ UNCHANGED <<stop_signal_received, read_op, read_tasks, task_pc, reader_pc,
                 reads, size, answer, destroyed>>

\* The posted init callback, always with TRUE.
RunInitCB ==
  /\ init_cb = "posted"
  /\ LockFree
  /\ init_cb' = "run"
  /\ UNCHANGED <<buffer_vars, stop_signal_received, read_op, read_tasks, task_pc,
                 reader_pc, reads, size, answer, destroyed>>

\* Mutant of ReadTask: the stop flag is not looked at.
ReadTaskUnstopped ==
  /\ LockFree /\ read_tasks > 0
  /\ read_tasks' = read_tasks - 1
  /\ \/ read_op = {} /\ UNCHANGED <<buffer_vars, task_pc>>
     \/ (\E op \in read_op : Seek(op.position)) /\ task_pc' = "seeked"
  /\ UNCHANGED <<init_cb, stop_signal_received, read_op, reader_pc, reads, size,
                 answer, destroyed>>

\* ReadTask: nothing to do, or the multibuffer's Seek.
ReadTask ==
  /\ LockFree /\ read_tasks > 0
  /\ read_tasks' = read_tasks - 1
  /\ \/ /\ stop_signal_received \/ read_op = {}
        /\ UNCHANGED <<buffer_vars, task_pc>>
     \/ /\ ~stop_signal_received
        /\ \E op \in read_op : Seek(op.position)
        /\ task_pc' = "seeked"
  /\ UNCHANGED <<init_cb, stop_signal_received, read_op, reader_pc, reads, size,
                 answer, destroyed>>

\* Mutant of ReadTaskFill: it waits for OnUpdateState instead of posting itself.
ReadTaskFillOnce ==
  /\ task_pc = "seeked" /\ Unlocked
  /\ task_pc' = "idle"
  /\ \E op \in read_op :
       LET bytes == FillBytes(cache, op.position, op.size)
       IN  IF bytes = << >> THEN UNCHANGED <<answer, read_op, reader_pc>>
           ELSE /\ answer' = {Result(op, bytes)}
                /\ read_op' = {}
                /\ reader_pc' = IF reader_pc = "waiting" THEN "idle" ELSE reader_pc
  /\ UNCHANGED <<buffer_vars, init_cb, stop_signal_received, read_tasks, reads, size, destroyed>>

\* ReadTask goes on with Fill, answer or posts itself again, and unlocks.  Fill
\* never returns an error other than ERR_IO_PENDING.
ReadTaskFill ==
  /\ task_pc = "seeked" /\ Unlocked
  /\ task_pc' = "idle"
  /\ \E op \in read_op :
       LET bytes == FillBytes(cache, op.position, op.size)
       IN  \/ /\ bytes # << >>
              /\ answer' = {Result(op, bytes)}
              /\ read_op' = {}
              /\ reader_pc' = IF reader_pc = "waiting" THEN "idle" ELSE reader_pc
              /\ UNCHANGED read_tasks
           \/ /\ bytes = << >>
              /\ read_tasks' = read_tasks + 1
              /\ UNCHANGED <<answer, read_op, reader_pc>>
  /\ UNCHANGED <<buffer_vars, init_cb, stop_signal_received, reads, size, destroyed>>
-----------------------------------------------------------------------------
(* The io thread *)

CreateFetcherTask == CreateFetcherFrom /\ UNCHANGED source_vars

\* The first fetch's DidInitialize posts the init callback; init_cb_ is reset
\* with that, so the later ones find it null.
SourceDidInitialize ==
  /\ DidInitialize
  /\ \/ init_cb = "armed" /\ LockFree /\ init_cb' = "posted"
     \/ init_cb # "armed" /\ UNCHANGED init_cb
  /\ UNCHANGED <<stop_signal_received, read_op, read_tasks, task_pc, reader_pc,
                 reads, size, answer, destroyed>>

Write == (OnWrite \/ WriteBlock) /\ UNCHANGED source_vars

\* OnFinish calls OnUpdateState, which posts a ReadTask.
OnUpdateState ==
  /\ OnFinish
  /\ read_tasks' = read_tasks + 1
  /\ UNCHANGED <<init_cb, stop_signal_received, read_op, task_pc, reader_pc,
                 reads, size, answer, destroyed>>
-----------------------------------------------------------------------------
ReaderThread == ReadCheck \/ (\E op \in Operation : ReadSetOp(op)) \/ ReadPost \/ GetSize
Render == Initialize \/ RunInitCB \/ ReadTask \/ ReadTaskFill
Io == CreateFetcherTask \/ SourceDidInitialize \/ Write \/ OnUpdateState

Next ==
  /\ ~destroyed
  /\ ReaderThread \/ Stop \/ Destroy \/ Render \/ Io

Spec == Init /\ [][Next]_vars

\* Each thread runs its message loop: it does not stop while a task is ready.  A
\* Read that has passed its check comes to its end; whether there is a next
\* Read, a Stop or a GetSize is the client's choice.
FairSpec ==
  /\ Spec
  /\ WF_vars(~destroyed /\ Render)
  /\ WF_vars(~destroyed /\ Io)
  /\ WF_vars(~destroyed /\ ((\E op \in Operation : ReadSetOp(op)) \/ ReadPost))
-----------------------------------------------------------------------------
TypeOK ==
  /\ BufferTypeOK
  /\ init_cb \in {"unset", "armed", "posted", "run"}
  /\ stop_signal_received \in BOOLEAN
  /\ read_op \subseteq Operation /\ \A o, p \in read_op : o = p
  /\ read_tasks \in Nat
  /\ task_pc \in {"idle", "seeked"}
  /\ reader_pc \in {"idle", "checked", "set", "waiting", "gone"}
  /\ reads \in 0 .. MaxReads
  /\ size \in Nat \cup {-1}
  /\ answer \subseteq [position : ReadPositions \cup {-1}, bytes : Seq(Nat \cup {Garbage})]
  /\ destroyed \in BOOLEAN

\* A posted read is never forgotten: while it is pending a ReadTask is queued,
\* delayed or at work.  Nothing else looks at read_op_ again: OnUpdateState is
\* not called when data arrive, so ReadTask has to keep reposting itself.
PendingReadIsPolled ==
  reader_pc = "waiting" /\ ~stop_signal_received =>
    read_op # {} /\ (read_tasks > 0 \/ task_pc = "seeked")

\* Read owns the operation it has made until it has posted the task that runs
\* it: its log line still reads the operation, and "Runs |callback_| with the
\* given |result|, deleting the operation afterwards" must not come before.
OperationOutlivesRead == reader_pc = "set" => read_op # {}

\* DCHECK(callback_.is_null()) in ~ReadOperation: no operation is destroyed
\* before its callback was run, nor with the data source.
NoOperationDropped == destroyed => read_op = {}

\* The data source behind its interface: see DataSourceContract.  Of a cache that
\* a replaced fetcher has written into nothing is promised.
Contract == INSTANCE DataSourceContract
              WITH Positions <- ReadPositions, request <- read_op, stopped <- stop_signal_received, broken <- FALSE
ImplementsContract == Contract!Init /\ [][stale \/ Contract!Next]_(Contract!vars)

Answered == reader_pc # "waiting" \/ stop_signal_received

\* A read inside the resource is answered, unless the source is stopped or the
\* last fetch has failed for good: whatever the writer was doing, Seek has it
\* bring the position, and the poll finds it.
ReadsAnswered ==
  (reader_pc = "waiting" /\ \E op \in read_op : op.position < Length)
    ~> (Answered \/ []FetchFailed)

\* "wait until OnUpdateState": also a read at the end of the resource is told
\* that nothing comes any more.
ReadsAtEndAnswered == reader_pc = "waiting" ~> (Answered \/ []FetchFailed)
=============================================================================
