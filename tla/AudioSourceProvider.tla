--------------------------- MODULE AudioSourceProvider ---------------------------
(***************************************************************************)
(* AudioSourceProviderImpl: the sink that the pipeline's audio renderer    *)
(* plays into.  Its sink_ is an AudioRendererMixerInput, until the device  *)
(* turns out not to be OK: then it is a NullAudioSink, for good.           *)
(*                                                                         *)
(* This module composes the audio output as a whole: several providers,    *)
(* one per player, share AudioRendererMixerManager and through it          *)
(* AudioRendererSinkCache.  Each provider is called on a media thread of   *)
(* its own, under its sink_lock_, so it has one call at a time; the steps  *)
(* that a call takes in the manager and the cache interleave with those of *)
(* the other providers, of other callers of GetSinkInfo, and of the        *)
(* delayed deletions.                                                      *)
(*                                                                         *)
(* External: AudioRendererMixerInput, which asks the manager for a mixer   *)
(* when it is started and returns it when it is stopped, and the renderer, *)
(* which initializes, starts and stops the provider, in this order.        *)
(***************************************************************************)
EXTENDS Naturals, FiniteSets

CONSTANTS
  Providers,             \* the AudioSourceProviderImpls
  Keys,                  \* the MixerKeys they may have, as functions
  \* see AudioRendererMixerManager and AudioRendererSinkCache
  Frames, Params, Origins, Devices, DefaultDevices, CreationMayFail, MaxSinks

ASSUME ProviderAssumption ==
  /\ IsFiniteSet(Providers)
  /\ \A S \in {Frames, Params, Origins, Devices} : S \subseteq Nat
  /\ Keys \subseteq [Providers -> [frame : Frames, params : Params,
                                   device : Devices, origin : Origins]]
  /\ DefaultDevices \subseteq Devices
  /\ CreationMayFail \in BOOLEAN
  /\ MaxSinks \in Nat

VARIABLES
  cache, sinks, calls, delete_tasks, sink_to_stop, destroyed,   \* the sink cache
  mixers, root, input, lock                                     \* the mixer manager

VARIABLES
  key,          \* the configuration each provider plays with
  provider,     \* what each provider is at: see TypeOK
  null_sink     \* whether its sink_ is the null sink

MM == INSTANCE AudioRendererMixerManager WITH Threads <- Providers, Inputs <- Providers

cache_vars == <<cache, sinks, calls, delete_tasks, sink_to_stop, destroyed>>
manager_vars == <<mixers, root, input, lock>>
provider_vars == <<key, provider, null_sink>>
vars == <<cache_vars, manager_vars, provider_vars>>

Init ==
  /\ MM!Init
  /\ key \in Keys
  /\ provider = [p \in Providers |-> "new"]
  /\ null_sink = [p \in Providers |-> FALSE]

CacheKey(p) == MM!SinkKey(key[p])

At(p, from, to) ==
  /\ provider[p] \in from
  /\ provider' = [provider EXCEPT ![p] = to]
-----------------------------------------------------------------------------
(* Initialize, and GetOutputDeviceInfo, which does not touch sink_ *)

\* The null sink is always OK, and so is a device that has a sink in the cache.
InitializeKnown(p) ==
  /\ At(p, {"new"}, "initialized")
  /\ null_sink[p] \/ MM!SC!FindCacheEntry(CacheKey(p), FALSE) # 0
  /\ UNCHANGED <<cache_vars, manager_vars, key, null_sink>>

AskDevice(p) ==
  /\ At(p, {"new"}, "initializing")
  /\ ~null_sink[p] /\ MM!SC!FindCacheEntry(CacheKey(p), FALSE) = 0
  /\ MM!SC!GetSinkInfo(p, CacheKey(p))
  /\ UNCHANGED <<manager_vars, key, null_sink>>

\* Also CreateInput, before there is a provider, which may name a session.
GetOutputDeviceInfo(p) ==
  /\ At(p, {"new"}, "asking")
  /\ ~null_sink[p]
  /\ MM!SC!GetSinkInfo(p, CacheKey(p))
  /\ UNCHANGED <<manager_vars, key, null_sink>>

\* The cache has no sink to ask, one is made: and cached if the device is OK.
DeviceOk(p) ==
  /\ MM!SC!CacheUnusedSinkIfHealthy(p) /\ calls'[p] # MM!SC!Idle
  /\ UNCHANGED <<manager_vars, provider_vars>>

\* If it is not, Initialize stops the input, which was not started, and lets it go.
DeviceNotOk(p) ==
  /\ MM!SC!CacheUnusedSinkIfHealthy(p) /\ calls'[p] = MM!SC!Idle
  /\ \/ At(p, {"initializing"}, "initialized") /\ null_sink' = [null_sink EXCEPT ![p] = TRUE]
     \/ At(p, {"asking"}, "new") /\ UNCHANGED null_sink
  /\ UNCHANGED <<manager_vars, key>>

DeviceAsked(p) ==
  /\ MM!SC!DeleteLaterIfUnused(p)
  /\ At(p, {"initializing"}, "initialized") \/ At(p, {"asking"}, "new")
  /\ UNCHANGED <<manager_vars, key, null_sink>>
-----------------------------------------------------------------------------
(* Start *)

StartNullSink(p) ==
  /\ At(p, {"initialized"}, "started")
  /\ null_sink[p]
  /\ UNCHANGED <<cache_vars, manager_vars, key, null_sink>>

\* The input asks for a mixer.  What Initialize has heard of the device is not
\* asked for again.
StartWithMixer(p) ==
  /\ At(p, {"initialized"}, "started")
  /\ ~null_sink[p]
  /\ MM!ReuseMixer(p, key[p])
  /\ UNCHANGED <<key, null_sink>>

StartWithoutMixer(p) ==
  /\ At(p, {"initialized"}, "starting")
  /\ ~null_sink[p]
  /\ MM!GetSinkForMixer(p, key[p])
  /\ UNCHANGED <<key, null_sink>>

GotMixer(p) ==
  /\ At(p, {"starting"}, "started")
  /\ MM!CreateMixer
  /\ UNCHANGED <<key, null_sink>>

GotNoMixer ==
  /\ MM!RefuseMixer
  /\ UNCHANGED provider_vars

\* No mixer: the renderer's OnRenderError is called, the provider keeps the input.
StartFailed(p) ==
  /\ At(p, {"starting"}, "failed")
  /\ MM!StopRefused
  /\ UNCHANGED <<key, null_sink>>
-----------------------------------------------------------------------------
(* Stop *)

\* Mutant of Stop: the input is not told.
StopUntold(p) ==
  /\ At(p, {"initialized", "started", "failed"}, "new")
  /\ UNCHANGED <<cache_vars, manager_vars, key, null_sink>>

\* The input returns its mixer, if it has got one.  Another renderer may use the
\* provider next.
Stop(p) ==
  /\ At(p, {"initialized", "started", "failed"}, "new")
  /\ IF input[p] = 0 THEN UNCHANGED <<cache_vars, manager_vars>> ELSE MM!ReturnMixer(p)
  /\ UNCHANGED <<key, null_sink>>

\* The mixer's destructor, still in ReturnMixer.
MixerDeleted ==
  /\ MM!DeleteMixer
  /\ UNCHANGED provider_vars
-----------------------------------------------------------------------------
InitializeCall(p) ==
  \/ InitializeKnown(p) \/ AskDevice(p) \/ GetOutputDeviceInfo(p)
  \/ DeviceOk(p) \/ DeviceNotOk(p) \/ DeviceAsked(p)
StartCall(p) ==
  StartNullSink(p) \/ StartWithMixer(p) \/ StartWithoutMixer(p) \/ GotMixer(p) \/ StartFailed(p)

\* The cache's task_runner_.
Deletions ==
  /\ (\E s \in DOMAIN sinks : MM!SC!DeleteTask(s)) \/ MM!SC!StopDeleted
  /\ UNCHANGED <<manager_vars, provider_vars>>

\* The manager and its cache are destroyed when nobody is in a call.
Destroy ==
  /\ \A p \in Providers : provider[p] = "new"
  /\ lock = MM!Free
  /\ MM!SC!Destroy
  /\ UNCHANGED <<manager_vars, provider_vars>>

Next ==
  /\ ~destroyed
  /\ \/ \E p \in Providers : InitializeCall(p) \/ StartCall(p) \/ Stop(p)
     \/ GotNoMixer \/ MixerDeleted
     \/ Deletions \/ Destroy

Spec == Init /\ [][Next]_vars

\* A mixer's deletion that has begun ends, and the delayed tasks come due.
FairSpec == Spec /\ WF_vars(MixerDeleted) /\ WF_vars(~destroyed /\ Deletions)
-----------------------------------------------------------------------------
TypeOK ==
  /\ MM!TypeOK
  /\ key \in Keys
  /\ provider \in [Providers -> {"new", "asking", "initializing", "initialized",
                                "starting", "started", "failed"}]
  /\ null_sink \in [Providers -> BOOLEAN]

\* A provider has a mixer while it is started with a device that is OK, and only
\* then: it holds none after a failure, a fallback or Stop.
MixerWhileStarted ==
  \A p \in Providers : input[p] # 0 <=> provider[p] = "started" /\ ~null_sink[p]

\* No sink is in the cache twice, and its "used" marks are the sinks that the
\* mixers have acquired and not released.
UsedMeansAcquired == MM!SC!UsedMeansAcquired

\* Whoever drops the last reference to a healthy sink has stopped it: the
\* deletion task, or the mixer that acquired it.
SinksAreStopped == MM!SC!SinksAreStopped

\* A mixer's ref_count is the number of providers that hold it, and it lives as
\* long as one does.
RefCountsInputs == MM!RefCountsInputs

\* A mixer that a provider holds has a sink of its own, which runs, whatever the
\* other providers and the deletion timer do.
MixersOwnRunningSinks == MM!MixersOwnRunningSinks

\* Providers with the same configuration share a mixer, by whichever of its
\* names they call the default device, unless there is a mixer of a device whose
\* id lies between the two names.
SharedUnlessSplit == MM!SharedUnlessSplit

\* When the last renderer has stopped its provider and none asks any more, all
\* sinks that ever came up, for output or to be asked, are stopped in the end.
EverythingStops ==
  <>[](\A p \in Providers : provider[p] = "new")
    => <>[](\A s \in DOMAIN sinks : sinks[s].healthy => sinks[s].stopped)

\* "we will fall back to [the null sink] once and forever": a renderer is never
\* left without a sink.
StartNeverFails == \A p \in Providers : provider[p] # "failed"
=============================================================================
