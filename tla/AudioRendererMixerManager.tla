---------------------- MODULE AudioRendererMixerManager ----------------------
(***************************************************************************)
(* AudioRendererMixerManager on top of AudioRendererSinkCache.  Inputs     *)
(* that play with the same configuration share a mixer, counted by         *)
(* ref_count; a mixer has a sink of its own, acquired from the cache.      *)
(*                                                                         *)
(* mixers_lock_ is held through GetMixer and ReturnMixer and excludes them *)
(* from each other.  It does not keep away the other users of the cache:   *)
(* GetSinkInfo in any thread and the delayed deletions on task_runner_ run *)
(* between the calls that GetMixer and ReturnMixer make into the cache.    *)
(*                                                                         *)
(* A mixer is named by its sink.  Frames, parameters, devices and origins  *)
(* are numbers in the order in which the map's comparison sorts them;      *)
(* device ids are strings, so "" is the least of them, and an id may well  *)
(* lie between "" and "default".                                           *)
(***************************************************************************)
EXTENDS Naturals, Sequences, FiniteSets

CONSTANTS Frames, Devices, Origins, DefaultDevices, Threads, CreationMayFail, MaxSinks

CONSTANTS
  Params,     \* channels, latency and channel layout
  Inputs      \* the AudioRendererMixerInputs

VARIABLES cache, sinks, calls, delete_tasks, sink_to_stop, destroyed

VARIABLES
  mixers,     \* mixers_: for each key a mixer and its ref_count
  root,       \* the key at the root of mixers_' search tree, as a set
  input,      \* the mixer each input has got; 0 for none
  lock        \* what is going on under mixers_lock_

SC == INSTANCE AudioRendererSinkCache

cache_vars == <<cache, sinks, calls, delete_tasks, sink_to_stop, destroyed>>
vars == <<cache_vars, mixers, root, input, lock>>

MixerKey == [frame : Frames, params : Params, device : Devices, origin : Origins]
SinkKey(key) == [frame |-> key.frame, device |-> key.device, origin |-> key.origin]

Free == [pc |-> "free"]
GotSink(i, key, s) == [pc |-> "got sink", input |-> i, key |-> key, sink |-> s]
Refused(s) == [pc |-> "refused", sink |-> s]
Deleting(key) == [pc |-> "deleting", key |-> key]

Mixer(s, n) == [mixer |-> s, ref_count |-> n]

Init ==
  /\ SC!Init
  /\ mixers = [k \in {} |-> Mixer(0, 0)]
  /\ root = {}
  /\ input = [i \in Inputs |-> 0]
  /\ lock = Free
-----------------------------------------------------------------------------
(* The map *)

\* Mutant of Less: the two names of the default device are two devices.
LessByName(a, b) ==
  \/ a.frame < b.frame
  \/ a.frame = b.frame /\ a.params < b.params
  \/ /\ a.frame = b.frame /\ a.params = b.params
     /\ a.device < b.device \/ (a.device = b.device /\ a.origin < b.origin)

\* MixerKeyCompare
Less(a, b) ==
  \/ a.frame < b.frame
  \/ a.frame = b.frame /\ a.params < b.params
  \/ /\ a.frame = b.frame /\ a.params = b.params
     /\ ~({a.device, b.device} \subseteq DefaultDevices)
     /\ a.device < b.device \/ (a.device = b.device /\ a.origin < b.origin)

Equivalent(a, b) == ~Less(a, b) /\ ~Less(b, a)

\* From the tree node e the search for key goes to the side where k is not.  It
\* cannot happen under a strict weak order.
Hides(e, k, key) == (Less(k, e) /\ Less(e, key)) \/ (Less(key, e) /\ Less(e, k))

Matching(key) == {k \in DOMAIN mixers : Equivalent(k, key)}
Missed(key) == \A k \in Matching(key) : \E e \in root : Hides(e, k, key)

\* The first of two keys is the root; balancing a larger tree, and taking the
\* root out, may bring any key there.
Grown(key) ==
  IF Cardinality(DOMAIN mixers) < 2
  THEN {IF root = {} THEN {key} ELSE root}
  ELSE {{k} : k \in DOMAIN mixers \cup {key}}

Shrunk(key) ==
  LET rest == DOMAIN mixers \ {key}
  IN  IF rest = {} THEN {{}} ELSE IF key \notin root THEN {root} ELSE {{k} : k \in rest}
-----------------------------------------------------------------------------
(* GetMixer *)

\* Mutant of ReuseMixer: ref_count is not raised.
ReuseMixerUncounted(i, key) ==
  /\ lock = Free /\ input[i] = 0
  /\ ~Missed(key)
  /\ \E k \in Matching(key) : input' = [input EXCEPT ![i] = mixers[k].mixer]
  /\ UNCHANGED <<cache_vars, mixers, root, lock>>

ReuseMixer(i, key) ==
  /\ lock = Free /\ input[i] = 0
  /\ ~Missed(key)
  /\ \E k \in Matching(key) :
       /\ mixers' = [mixers EXCEPT ![k].ref_count = @ + 1]
       /\ input' = [input EXCEPT ![i] = mixers[k].mixer]
  /\ UNCHANGED <<cache_vars, root, lock>>

GetSinkForMixer(i, key) ==
  /\ lock = Free /\ input[i] = 0
  /\ Missed(key)
  /\ \E s \in 1 .. MaxSinks : SC!GetSink(SinkKey(key), s) /\ lock' = GotSink(i, key, s)
  /\ UNCHANGED <<mixers, root, input>>

CreateMixer ==
  /\ lock.pc = "got sink"
  /\ sinks[lock.sink].healthy
  /\ mixers' = [k \in DOMAIN mixers \cup {lock.key} |->
                  IF k = lock.key THEN Mixer(lock.sink, 1) ELSE mixers[k]]
  /\ root' \in Grown(lock.key)
  /\ input' = [input EXCEPT ![lock.input] = lock.sink]
  /\ lock' = Free
  /\ UNCHANGED cache_vars

\* The sink's status is not OK: release and stop it, and return nullptr.
RefuseMixer ==
  /\ lock.pc = "got sink"
  /\ ~sinks[lock.sink].healthy
  /\ SC!ReleaseSink(lock.sink)
  /\ lock' = Refused(lock.sink)
  /\ UNCHANGED <<mixers, root, input>>

StopRefused ==
  /\ lock.pc = "refused"
  /\ SC!StopReleased(lock.sink)
  /\ lock' = Free
  /\ UNCHANGED <<mixers, root, input>>
-----------------------------------------------------------------------------
(* ReturnMixer *)

ReturnMixer(i) ==
  /\ lock = Free /\ input[i] # 0
  /\ input' = [input EXCEPT ![i] = 0]
  /\ \E k \in DOMAIN mixers :
       /\ mixers[k].mixer = input[i]
       /\ mixers' = [mixers EXCEPT ![k].ref_count = @ - 1]
       /\ IF mixers[k].ref_count = 1
          THEN SC!ReleaseSink(mixers[k].mixer) /\ lock' = Deleting(k)
          ELSE UNCHANGED <<cache_vars, lock>>
  /\ UNCHANGED root

\* delete mixer: its destructor stops the sink.
DeleteMixer ==
  /\ lock.pc = "deleting"
  /\ SC!StopReleased(mixers[lock.key].mixer)
  /\ mixers' = [k \in DOMAIN mixers \ {lock.key} |-> mixers[k]]
  /\ root' \in Shrunk(lock.key)
  /\ lock' = Free
  /\ UNCHANGED input
-----------------------------------------------------------------------------
GetMixer ==
  \/ \E i \in Inputs, key \in MixerKey : ReuseMixer(i, key) \/ GetSinkForMixer(i, key)
  \/ CreateMixer \/ RefuseMixer \/ StopRefused

\* GetOutputDeviceInfo, also for CreateInput; and the cache's own tasks.
CacheAlone ==
  /\ \/ \E t \in Threads : SC!InfoThread(t)
     \/ (\E s \in DOMAIN sinks : SC!DeleteTask(s)) \/ SC!StopDeleted
     \/ lock = Free /\ SC!Destroy
  /\ UNCHANGED <<mixers, root, input, lock>>

Next == ~destroyed /\ (GetMixer \/ (\E i \in Inputs : ReturnMixer(i)) \/ DeleteMixer \/ CacheAlone)

Spec == Init /\ [][Next]_vars
-----------------------------------------------------------------------------
TypeOK ==
  /\ SC!TypeOK
  /\ DOMAIN mixers \subseteq MixerKey
  /\ \A k \in DOMAIN mixers : mixers[k] \in [mixer : DOMAIN sinks, ref_count : Nat]
  /\ root \subseteq DOMAIN mixers
  /\ (root = {}) = (DOMAIN mixers = {})
  /\ input \in [Inputs -> DOMAIN sinks \cup {0}]
  /\ lock.pc \in {"free", "got sink", "refused", "deleting"}

\* A mixer lives exactly as long as an input has it: ref_count is the number of
\* inputs that do, and a mixer nobody has is on its way out.  ReturnMixer always
\* finds the mixer it is given (its DCHECK).
RefCountsInputs ==
  /\ \A k \in DOMAIN mixers :
       /\ mixers[k].ref_count = Cardinality({i \in Inputs : input[i] = mixers[k].mixer})
       /\ mixers[k].ref_count = 0 => lock = Deleting(k)
  /\ \A i \in Inputs : input[i] # 0 => \E k \in DOMAIN mixers : mixers[k].mixer = input[i]

\* A mixer that an input has plays into a sink that is this mixer's alone and
\* that runs, whatever the cache, GetSinkInfo and the deletion timer do.
MixersOwnRunningSinks ==
  /\ \A k, l \in DOMAIN mixers : mixers[k].mixer = mixers[l].mixer => k = l
  /\ ~destroyed => \A i \in Inputs :
       input[i] # 0 => sinks[input[i]].users = 1 /\ ~sinks[input[i]].stopped

\* The configuration of an input: where two keys differ in device or origin,
\* both name the default device.
SameConfiguration(k, l) ==
  /\ k.frame = l.frame /\ k.params = l.params
  /\ \/ k.device = l.device /\ k.origin = l.origin
     \/ {k.device, l.device} \subseteq DefaultDevices

\* "Inputs with the same AudioParameters configuration will share a mixer".
OneMixerPerConfiguration ==
  \A k, l \in DOMAIN mixers : SameConfiguration(k, l) => k = l

\* e's device id lies between those of k and l.
Splits(e, k, l) ==
  /\ e.frame = k.frame /\ e.params = k.params
  /\ (k.device < e.device /\ e.device < l.device) \/ (l.device < e.device /\ e.device < k.device)

NewMixersSplit ==
  \A l \in DOMAIN mixers' \ DOMAIN mixers, k \in DOMAIN mixers :
    SameConfiguration(k, l) => \E e \in DOMAIN mixers : Splits(e, k, l)

\* A configuration is given a second mixer only while the map holds the mixer of
\* a device whose id lies between the two names: nothing else keeps a search,
\* from whatever root, from the mixer that is there.
SharedUnlessSplit == [][NewMixersSplit]_mixers
=============================================================================
