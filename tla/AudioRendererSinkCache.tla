------------------------ MODULE AudioRendererSinkCache ------------------------
(***************************************************************************)
(* AudioRendererSinkCacheImpl: the sinks that were created to ask a device *)
(* for its parameters are kept for a while, in case one is wanted for      *)
(* output next.                                                            *)
(*                                                                         *)
(* Threads.  GetSinkInfo may be called from several threads at once; it    *)
(* looks in the cache, creates a sink, caches it and posts its deletion,   *)
(* and takes cache_lock_ for the first and the third of these alone.       *)
(* GetSink and the first half of DeleteSink hold cache_lock_ throughout.   *)
(* The delayed DeleteSink tasks run on task_runner_, one after the other,  *)
(* and stop the sink after the lock is released.                           *)
(*                                                                         *)
(* Sinks are numbered as they are created.  A used sink belongs to the     *)
(* client that got it, which releases it and then stops it.                *)
(***************************************************************************)
EXTENDS Naturals, SequencesExt

CONSTANTS
  Frames, Devices, Origins,    \* what a sink is created for
  DefaultDevices,              \* the device ids that name the default device
  Threads,                     \* threads that call GetSinkInfo
  CreationMayFail,             \* whether a sink may come up unhealthy
  MaxSinks                     \* bound: sinks created

VARIABLES
  cache,           \* cache_: entries [sink, key, used] in order of insertion
  sinks,           \* the sinks created: healthy, stopped, users, and owed, when
                   \*   the client has released it and must still stop it
  calls,           \* GetSinkInfo in each thread: idle, missed, cached
  delete_tasks,    \* sinks with a delayed DeleteSink in task_runner_'s queue
  sink_to_stop,    \* DeleteSink between unlocking and Stop; 0 for none
  destroyed        \* the destructor has run

vars == <<cache, sinks, calls, delete_tasks, sink_to_stop, destroyed>>

Key == [frame : Frames, device : Devices, origin : Origins]
SinkIds == DOMAIN sinks

Idle == [pc |-> "idle"]
Missed(key) == [pc |-> "missed", key |-> key]
Cached(s) == [pc |-> "cached", sink |-> s]

Init ==
  /\ cache = << >>
  /\ sinks = << >>
  /\ calls = [t \in Threads |-> Idle]
  /\ delete_tasks = {}
  /\ sink_to_stop = 0
  /\ destroyed = FALSE

\* Mutant of Matches: unused_only is not looked at.
MatchesUsedToo(entry, key, unused_only) ==
  /\ entry.key.frame = key.frame
  /\ \/ {entry.key.device, key.device} \subseteq DefaultDevices
     \/ entry.key.device = key.device /\ entry.key.origin = key.origin

\* The default device has two names, and its origin does not count.
Matches(entry, key, unused_only) ==
  /\ unused_only => ~entry.used
  /\ entry.key.frame = key.frame
  /\ \/ {entry.key.device, key.device} \subseteq DefaultDevices
     \/ entry.key.device = key.device /\ entry.key.origin = key.origin

\* The place of the first entry that matches, 0 for cache_.end().
FindCacheEntry(key, unused_only) ==
  SelectInSeq(cache, LAMBDA entry : Matches(entry, key, unused_only))

EntryOf(s) == SelectInSeq(cache, LAMBDA entry : entry.sink = s)

Entry(s, key, used) == [sink |-> s, key |-> key, used |-> used]

\* create_sink_cb_ and the sink's status.
NewSink == Len(sinks) + 1
Created(users) ==
  {[healthy |-> h, stopped |-> FALSE, users |-> users, owed |-> FALSE] :
     h \in IF CreationMayFail THEN BOOLEAN ELSE {TRUE}}
-----------------------------------------------------------------------------
(* GetSinkInfo *)

\* A matching sink answers at once, used or not; that changes nothing.  A
\* session id names a device of its own, which is not looked up.
GetSinkInfo(t, key) ==
  /\ calls[t] = Idle
  /\ calls' = [calls EXCEPT ![t] = Missed(key)]
  /\ \E by_session \in BOOLEAN : by_session \/ FindCacheEntry(key, FALSE) = 0
  /\ UNCHANGED <<cache, sinks, delete_tasks, sink_to_stop, destroyed>>

\* The new sink, known to this thread alone until it is in the cache.  An
\* unhealthy one is not cached: GetSinkInfo returns and drops its reference.
CacheUnusedSinkIfHealthy(t) ==
  /\ calls[t].pc = "missed"
  /\ NewSink <= MaxSinks
  /\ \E sink \in Created(0) :
       /\ sinks' = Append(sinks, sink)
       /\ \/ /\ sink.healthy
             /\ cache' = Append(cache, Entry(NewSink, calls[t].key, FALSE))
             /\ calls' = [calls EXCEPT ![t] = Cached(NewSink)]
          \/ /\ ~sink.healthy
             /\ calls' = [calls EXCEPT ![t] = Idle]
             /\ UNCHANGED cache
  /\ UNCHANGED <<delete_tasks, sink_to_stop, destroyed>>

\* Mutant of DeleteLaterIfUnused: the task is not posted.
DeleteLaterForgotten(t) ==
  /\ calls[t].pc = "cached"
  /\ calls' = [calls EXCEPT ![t] = Idle]
  /\ UNCHANGED <<cache, sinks, delete_tasks, sink_to_stop, destroyed>>

DeleteLaterIfUnused(t) ==
  /\ calls[t].pc = "cached"
  /\ delete_tasks' = delete_tasks \cup {calls[t].sink}
  /\ calls' = [calls EXCEPT ![t] = Idle]
  /\ UNCHANGED <<cache, sinks, sink_to_stop, destroyed>>
-----------------------------------------------------------------------------
(* The clients *)

\* GetSink returns s: the first unused sink that matches, or a new one, which
\* is cached when it is healthy.
GetSink(key, s) ==
  LET i == FindCacheEntry(key, TRUE)
  IN  /\ \/ /\ i # 0
            /\ s = cache[i].sink
            /\ cache' = [cache EXCEPT ![i].used = TRUE]
            /\ sinks' = [sinks EXCEPT ![s].users = @ + 1]
         \/ /\ i = 0
            /\ NewSink <= MaxSinks
            /\ s = NewSink
            /\ \E sink \in Created(1) :
                 /\ sinks' = Append(sinks, sink)
                 /\ cache' = IF sink.healthy THEN Append(cache, Entry(s, key, TRUE))
                                             ELSE cache
      /\ UNCHANGED <<calls, delete_tasks, sink_to_stop, destroyed>>

\* DeleteSink(s, true): the entry, if the sink ever had one, goes at once.
ReleaseSink(s) ==
  /\ sinks[s].users > 0
  /\ cache' = IF EntryOf(s) = 0 THEN cache ELSE RemoveAt(cache, EntryOf(s))
  /\ sinks' = [sinks EXCEPT ![s].users = @ - 1, ![s].owed = TRUE]
  /\ UNCHANGED <<calls, delete_tasks, sink_to_stop, destroyed>>

\* "The sink must be stopped by the user before deletion, but after releasing
\* it from the cache."
StopReleased(s) ==
  /\ sinks[s].owed
  /\ sinks' = [sinks EXCEPT ![s].owed = FALSE, ![s].stopped = TRUE]
  /\ UNCHANGED <<cache, calls, delete_tasks, sink_to_stop, destroyed>>
-----------------------------------------------------------------------------
(* task_runner_ *)

\* Mutant of DeleteTask: used sinks are deleted too, and stopped.
DeleteTaskForced(s) ==
  /\ sink_to_stop = 0
  /\ s \in delete_tasks
  /\ delete_tasks' = delete_tasks \ {s}
  /\ LET i == EntryOf(s)
     IN  \/ i = 0 /\ UNCHANGED <<cache, sink_to_stop>>
         \/ i # 0 /\ cache' = RemoveAt(cache, i) /\ sink_to_stop' = s
  /\ UNCHANGED <<sinks, calls, destroyed>>

\* Mutant of DeleteTask: no reference is kept to stop the sink by.
DeleteTaskWithoutStop(s) ==
  /\ sink_to_stop = 0
  /\ s \in delete_tasks
  /\ delete_tasks' = delete_tasks \ {s}
  /\ LET i == EntryOf(s)
     IN  cache' = IF i = 0 THEN cache ELSE IF cache[i].used THEN cache ELSE RemoveAt(cache, i)
  /\ UNCHANGED <<sinks, calls, sink_to_stop, destroyed>>

\* DeleteSink(s, false) up to the end of its lock scope.
DeleteTask(s) ==
  /\ sink_to_stop = 0
  /\ s \in delete_tasks
  /\ delete_tasks' = delete_tasks \ {s}
  /\ LET i == EntryOf(s)
     IN  IF i # 0 /\ ~cache[i].used
         THEN cache' = RemoveAt(cache, i) /\ sink_to_stop' = s
         ELSE UNCHANGED <<cache, sink_to_stop>>
  /\ UNCHANGED <<sinks, calls, destroyed>>

StopDeleted ==
  /\ sink_to_stop # 0
  /\ sinks' = [sinks EXCEPT ![sink_to_stop].stopped = TRUE]
  /\ sink_to_stop' = 0
  /\ UNCHANGED <<cache, calls, delete_tasks, destroyed>>

\* The destructor, on task_runner_ and when no thread is in a call.  It stops
\* every cached sink; the WeakPtr drops the queued tasks.
Destroy ==
  /\ sink_to_stop = 0
  /\ \A t \in Threads : calls[t] = Idle
  /\ destroyed' = TRUE
  /\ sinks' = [s \in SinkIds |->
                 [sinks[s] EXCEPT !.stopped = @ \/ s \in {cache[i].sink : i \in DOMAIN cache}]]
  /\ cache' = << >>
  /\ delete_tasks' = {}
  /\ UNCHANGED <<calls, sink_to_stop>>
-----------------------------------------------------------------------------
InfoThread(t) ==
  (\E key \in Key : GetSinkInfo(t, key)) \/ CacheUnusedSinkIfHealthy(t) \/ DeleteLaterIfUnused(t)
Client ==
  (\E key \in Key, s \in 1 .. MaxSinks : GetSink(key, s))
    \/ \E s \in SinkIds : ReleaseSink(s) \/ StopReleased(s)
TaskRunner == (\E s \in SinkIds : DeleteTask(s)) \/ StopDeleted \/ Destroy

Next == ~destroyed /\ ((\E t \in Threads : InfoThread(t)) \/ Client \/ TaskRunner)

Spec == Init /\ [][Next]_vars
-----------------------------------------------------------------------------
\* A sink has at most one user.
TypeOK ==
  /\ sinks \in Seq([healthy : BOOLEAN, stopped : BOOLEAN, users : {0, 1}, owed : BOOLEAN])
  /\ cache \in Seq([sink : SinkIds, key : Key, used : BOOLEAN])
  /\ calls \in [Threads -> {Idle} \cup {Missed(key) : key \in Key}
                           \cup {Cached(s) : s \in SinkIds}]
  /\ delete_tasks \subseteq SinkIds
  /\ sink_to_stop \in SinkIds \cup {0}
  /\ destroyed \in BOOLEAN

\* The cache knows who uses what: no sink is in it twice, its "used" marks are
\* the sinks a client has got and not released, and so ReleaseSink never meets
\* a sink that was not acquired (DCHECK "Attempt to delete a non-aquired sink").
UsedMeansAcquired ==
  /\ \A i, j \in DOMAIN cache : cache[i].sink = cache[j].sink => i = j
  /\ \A i \in DOMAIN cache : cache[i].used <=> sinks[cache[i].sink].users = 1

\* Whoever holds the last reference to a sink stops it: the cache, its deletion
\* task, or the client that acquired it ("To stop the sink before deletion if
\* it's not used, we need to hold a ref").
Dropped(s) ==
  /\ EntryOf(s) = 0 /\ sink_to_stop # s
  /\ sinks[s].users = 0 /\ ~sinks[s].owed
SinksAreStopped ==
  \A s \in SinkIds : Dropped(s) /\ sinks[s].healthy => sinks[s].stopped

\* "The sink must be stopped by the user before deletion": an unhealthy one too.
UnhealthySinksAreStopped ==
  \A s \in SinkIds : Dropped(s) => sinks[s].stopped
=============================================================================
