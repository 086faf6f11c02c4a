# A TLA+ development of chromium_media_lib

The library plays media outside a browser by driving Chromium's media pipeline.
What is its own, and what is modelled here, is the code around that pipeline: a
cache that is filled from the network, the data sources that read it, the audio
sinks and how they are shared, the control of audio output streams, and the sink
that receives video frames. All of it is small, and nearly all of it is shared
between threads.

Paths below are relative to `src/`. `PROJECT.json` maps every definition that
models code to its lines.

## 1. The system

### Components and their state

| Component | State | Operations | Talks to |
|---|---|---|---|
| `LRU<T>` (`lru.h`) | a list and a map into it | Insert, Remove, Use, Pop, Peek | used by the multibuffer |
| `ResourceMultiBuffer` | `cache_` of 32 KB blocks, `lru_`, `pinned_range_`, write position, `fetcher_`, all under `lock_` except `fetcher_` | Start, Seek, Fill, GetSize on the reader's side; CreateFetcherFrom and the URL fetcher's writer callbacks on the io thread | a URL fetcher; calls the data source back |
| `ResourceDataSource` | `read_op_`, stop flag, `init_cb_` | Initialize, Read, ReadTask, GetSize, Stop, Abort | the multibuffer below, Chromium's demuxer above |
| `FileDataSource` | the mapped file and the same | the same | a file, the demuxer |
| `ReadOperation` | one callback | Run, destructor | owned by a data source |
| `AudioRendererSinkCacheImpl` | `cache_` of sinks with a `used` mark, delayed deletions | GetSinkInfo, GetSink, ReleaseSink, DeleteSink | `AudioDeviceFactory` makes its sinks |
| `AudioRendererMixerManager` | `mixers_` with `ref_count` | GetMixer, ReturnMixer, GetOutputDeviceInfo | the sink cache below, mixer inputs above |
| `AudioSyncReader` | `buffer_index_`, shared memory, a socket | RequestMoreData, Read, Close | a renderer at the other end of the socket |
| `VideoRendererSinkImpl` | `callback_`, `rendering_`, a timer, the current frame | Start, Stop, SetVideoRendererSinkClient, CallRender | the video renderer above, a client below |
| `AudioMessageFilter` | its listeners by stream id | the `AudioOutputIPC` calls and the three answers | `AudioRendererHost` |
| `AudioRendererHost` | `delegates_`, `authorizations_` | RequestDeviceAuthorization, CreateStream, PlayStream | `AudioOutputDelegateImpl` |
| `AudioOutputDelegateImpl` | controller, reader, foreign socket, `playing_` | OnPlayStream, notifications of the controller | Chromium's AudioOutputController |
| `MediaPlayerImpl` | two data sources, the demuxer, `paused_`, `paused_time_`, `seeking_`, `ended_`, `playback_rate_` | Load, Play, Pause, Seek, SetRate, and the reports of sources and pipeline | its sources, Chromium's PipelineController |
| `AudioSourceProviderImpl` | `sink_`, a mixer input or the null sink, under `sink_lock_` | Initialize, Start, Stop, Play, Pause, GetOutputDeviceInfo, SwitchOutputDevice | the mixer manager through its input, the audio renderer above |
| `AudioDeviceFactory` | none | makes a sink, with a timeout for its authorization | `AudioMessageFilter` |
| `MediaContext`, `MediaInternals`, example, build files | none or set once | | |

### What is hard about it

* **Asynchronous replacement.** `Seek` moves the write position at once, and the
  fetcher that writes there is replaced by a task posted to another thread.
* **Two locks, one after the other.** `ReadTask` calls `Seek` and then `Fill`;
  the writer may store or evict between them.
* **Nothing wakes the reader.** Arriving data notify nobody: `ReadTask` polls.
* **Unlocked halves.** `Read` uses `read_op_` without `lock_`; `GetSinkInfo`
  looks up, creates and caches under three separate critical sections.
* **Timers that come late.** Delayed sink deletions, the video sink's background
  timer, a renderer's answer after the reader's timeout.
* **Answers to requests that were withdrawn.** Authorizations and notifications
  of streams that were closed or timed out in the meantime; an end of the media
  that was reported before a seek.
* **Requests that overtake their answers.** Seeks before the pipeline has started
  and during another seek, a second load, a pause in the middle of a seek.
* **A check in one call, its use in the next.** A provider asks whether its device
  is OK in `Initialize` and gets the sink in `Start`.
* **Counters in two processes.** `AudioSyncReader` shares memory without a lock;
  two counters that wrap tell whose data are in it.

The hazards are listed line by line in `PROJECT.json`.

## 2. Modules

```
 LRUList ── LRU ──(implements)── LRUOrder
    └── BlockCache ── BlockCacheLoops
            └── ResourceMultiBuffer ── MCMultiBuffer
                     └── ResourceDataSource ──(implements)── DataSourceContract
                                  FileDataSource ──(implements)──┘
 AudioRendererSinkCache ── AudioRendererMixerManager ── AudioSourceProvider ── MCAudioOutput
 AudioSyncReader     VideoRendererSink     AudioOutputStreams     MediaPlayer
```

A line leads to the module that extends or instantiates the one before it. Beside
LRU, ResourceDataSource, FileDataSource, AudioSourceProvider, AudioSyncReader,
VideoRendererSink, AudioOutputStreams and MediaPlayer stands a module of proofs
with `_proofs` in its name. `ResourceDataSource_proofs` also covers what
ResourceDataSource is made of, and BlockCacheLoops.

**LRUList, LRU, LRUOrder.** `LRUList` has the list operations. `LRU` is the class:
`lru` is `lru_`, `pos` the keys of `pos_`. Each call is an action, with the
class's DCHECKs as guards. `LRUOrder` is the promise: a set with the order of use.

**BlockCache, BlockCacheLoops.** `BlockCache` gives block arithmetic and the closed
forms of `Fill`, `CheckCacheMiss` and `PurgeIfNecessary`. `BlockCacheLoops` has the
loops as written: a behavior is one call, a step one turn, with the position of the
iterator and the local variables in `call`. Two comparisons follow: of the result with
the closed form, and of the number of turns with a bound. No other thread has a step
there, as each call holds `lock_`.

**ResourceMultiBuffer.** Bytes are named by their position in the resource, so a
cached byte tells where it came from. `OnWrite` and `WriteBlock` are one call of
`OnWrite`: its head, and one turn of its loop, with `lock_` held (`writing > 0`)
until the chunk is stored. `io_tasks` is the queue of posted `CreateFetcherFrom`.
The URL fetcher and its server are external: 206, 200 or 404, any chunking, and an
end before its time. `stale` is a history variable: it becomes true when bytes
come for a position that is not theirs, either because a replaced fetcher still
writes, or because the server answered a range request with 200. A read may begin
anywhere up to `MaxPosition`, which lies behind the end: while the size is unknown
the reader cannot know better. A range behind the end is answered with an error, or
with the whole resource.

**ResourceDataSource.** Extends the multibuffer's module: each of its steps is one of
the data source together with what that does to the data source's own variables. It
adds `Read` in three parts (the
locked check, `read_op_.reset`, the log line and the post), `ReadTask` in two
(up to `Seek`, and from `Fill` on), `Stop`/`Abort`, the init callback and the
destructor. The reader is Chromium's demuxer: one read at a time, and its wait is
cut short once the source is stopped.

**FileDataSource.** The same interface on a mapped file. `Read` posts its task after
it unlocks, so an older task may run in the gap.

**DataSourceContract.** What both promise: an answer at most once, from the position
asked for, one to `size` bytes, an error otherwise, and after `Stop` nothing.

**AudioRendererSinkCache, AudioRendererMixerManager.** The manager is composed with
the cache: `mixers_lock_` keeps `GetMixer` and `ReturnMixer` apart, but the other
users of the cache run between their calls. Sinks are numbered as created; a mixer
is named by its sink. The map's comparison, and a search in the map with it, are
modelled as written, as the comparison is what is delicate. Both modules have a
specification of their own, with any client, which the reproductions of section 5
use.

**AudioSourceProvider.** The whole of audio output: each provider takes the manager's
and the cache's steps as its own, with `Initialize` as AskDevice, DeviceOk or
DeviceNotOk, and DeviceAsked, or InitializeKnown when the cache has a sink to ask;
`Start` as one of StartNullSink, StartWithMixer, and StartWithoutMixer followed by
GotMixer, or by GotNoMixer and StartFailed; and `Stop`. The mixer input, which is
Chromium's, gets a mixer when it is started and returns it when it is stopped. A
provider may be used again by the next renderer. `MCAudioOutput` gives three
players their devices and parameters.

**MediaPlayer.** The player's methods are one action each, on the main thread, whose
queue (`main_tasks`) brings the answers of the sources and the reports of the
pipeline. The controller is external: it starts once, does one seek at a time,
remembers the last one asked for meanwhile, elides one to where it seeks already,
and reports when it is stable. The media thread takes up starts, seeks and rates
in its own time and plays on until then. A rate is 0, out of range, or in range.
A source is known to have failed only if it is a file. The source of a URL says that
it is initialized before its request goes out (`resource_multibuffer.cc:49`), so the
pipeline starts on it whatever the server does. If the server does not send what the
demuxer reads, `PolledForEver` makes the source silent: what the media thread has to
do then is never done, and no error is reported.

**AudioSyncReader.** The browser's thread, the renderer's thread, and a socket of
bounded room each way; the buffer holds the index its data were rendered for,
silence, or a mixture (`Torn`) after it was zeroed while being written.

**VideoRendererSink.** The compositor's task queue, the timer, and `CallRender` apart
from the delivery that follows it. `OneThread` is TRUE where the media thread is
the compositor thread, as in `mediaplayer_impl.cc:37`.

**AudioOutputStreams.** Message filter, host and delegates: all on the io thread, so
a call through the three is one step; the answers and the controller are apart.
`Named` are devices that are not the default one: the host does nothing for them,
its `assert(false)` being empty in a release build. With `Timeouts` (Windows and
Mac) an authorization may time out at any moment, which closes the stream; its
answer may still come.

## 3. Runs

| Run | Question | Instance |
|---|---|---|
| LRU | Do list and map agree, and does Pop return the element used longest ago? | 5 elements, all sequences |
| BlockCacheLoops | Do the loops compute the closed forms, and end? | every cache of 4 block ids, each block of 1 or 2 bytes, every question up to behind the last block; every list of 4 with every pinned range that spares one |
| MultiBuffer | Are cached bytes right and whole, does eviction end and spare the reader, is waiting justified? | 4 blocks, the last one not full, 3 cached, chunks up to 3 bytes on blocks of 2, reads up to behind the end, all answers, failures, 2 queued fetches |
| DataSource | Does the source keep the contract, forget no read, answer each one inside the resource? | 3 blocks, 2 cached, 2 reads inside, at and behind the end, Stop and destruction anywhere |
| FileDataSource | The same for files, with one task per read | 4 bytes, reads inside, across and behind the end, file that does not open |
| AudioOutput | Are mixers counted and shared by configuration, where the order of the keys allows it, do they own running sinks, does every sink stop in the end? | 3 providers, 3 sinks; two providers on the two names of the default device and one on a device between them, or two with the same and one with other parameters on one device; any sink may come up unhealthy |
| Player | Does the last seek win, does it end unless the pipeline fails or a URL is not served, does a paused player stay where it is? | media of 2 time units, 3 seeks, 2 loads, rates 0, too low, in range and too high |
| SyncReader | Is only the last request's whole data copied? | index of 9 values, 2 signals of room, 2 lost |
| VideoSink | Do `rendering_` and the client follow Start and Stop, do frames keep coming? | 3 starts, 2 frames, 3 queued tasks, two threads |
| Streams | Do both ends agree and is each request answered? | 3 devices, one of them not the default one, 3 streams, with timeouts |
| MBStaleWrite | Finding: is the cached content the resource's? | no |
| VideoRestart | Finding: does `DCHECK(rendering_)` hold? | no |

**Why the bounds suffice.** A block of two bytes has an inside and an end, and chunks of three
straddle a block at either end. A cache one block larger than the pinned range is
the smallest that the assumption allows, where eviction has no choice to spare. The
resource is larger than the cache, so purging happens in every run. With two
reads, the second meets whatever the first has left: queued fetches, posted tasks,
an evicted block. Three providers and three sinks give GetSinkInfo its race, let two
of them share a mixer while the third takes or deletes a sink, and put three
keys into the mixers' map, the fewest for which its order matters: one of them
lies between the two names of the default device, and the run does reach states with
two mixers for that device. Three seeks
are one under way, one that waits and one that replaces it; two units of time let
a seek go forward and back, and the media end behind it. A third load meets what
the second met. Nine values are the fewest that keep the
assumption on lost signals (section 6), and the index wraps several times.
MultiBuffer stops at the first misplaced bytes (`UntilStale`, in
`MCMultiBuffer`): the contents are arbitrary from there on. DataSource goes on
behind them, as answering does not depend on content. Bounds that act as guards
(MaxTasks, MaxReads, MaxSinks, MaxStarts, MaxStreams, MaxLost, Capacity) are named
CONSTANTS.

**Deadlock** is not checked: in each bounded instance, and in the
program, everything may come to rest (a stopped source, a full set of streams).
Where something must go on, a liveness property says so. LRU has no bound and
is checked for deadlock.

## 4. Fairness

Fairness is assumed of the code's own scheduling, and, where said below, of parties
outside it: the server that answers a fetch, the demuxer and decoders of the pipeline,
and the AudioOutputController.

* *DataSource*: weak fairness of the render thread and of the io thread, which run
  message loops, and of finishing a `Read` that has begun. Among the io thread's steps
  are the server's: it answers each request and goes on sending, or breaks off. A
  server that says nothing for ever is left out; to the reader it is like one that
  breaks off, which the property names: while the last fetch has failed nothing
  retries it (`[]FetchFailed`). Reads at the end and behind it are made, but
  `ReadsAnswered` only speaks of those inside the resource, see DSReadAtEnd in
  section 5. The client owes nothing.
* *FileDataSource*: weak fairness of the render thread and of the post in `Read`.
* *AudioOutput*: a mixer's deletion that has begun ends, and `task_runner_` runs what
  is due. The providers and their renderers owe nothing: `EverythingStops` speaks of
  the time when none of them is in use any more.
* *Streams*: the io thread's notifications, timers, each authorization reply, and each
  controller's opening or failing. A device that is not the default one gets no reply.
* *Player*: the main thread's queue, and the media thread doing the start or the seek
  it was told to do. The latter takes the demuxer, so that it is only assumed while
  the demuxer's source answers: a file does, with an error if it could not be opened,
  and a URL may cease to at any time (`PolledForEver`). `SeeksFinish` leaves these two
  ways out: an error (`[]~failed`), as the player has no way back from one, and a URL
  that is not served (`Silent`), see PlayerSilent in section 5. Neither the user nor
  playing is fair.

`ReadsAnswered` of ResourceDataSource depends on `kMaxWaitForReaderOffset` being at
least two blocks less a byte: a fetch begins one block before the reader, and a
smaller allowance would start it anew at each poll. In the code it is 16 blocks.

## 5. Findings and known divergences

Two are checked by runs:

* **MBStaleWrite** (`resource_multibuffer.cc:206`). Between `Seek` and the posted
  `CreateFetcherFrom` the old fetcher stores its bytes at the new write position.
* **VideoRestart** (`video_renderer_sink_impl.cc:117`). `Stop` leaves the timer
  running. After a new `Start` it may fire between the two posted state updates,
  with a callback and `rendering_` false: `DCHECK(rendering_)` fails.

The others were met while modelling. Each has a property in its module and a
configuration that lets TLC print the trace; these are kept as reproductions and
are not among the runs of `PROJECT.json`.

| Configuration (module) | Property | What happens |
|---|---|---|
| MBNoRange (MCMultiBuffer) | BufferHoldsResource | `resource_multibuffer.cc:203`: a 200 answer to a range request is stored at the position asked for |
| MBFailedFetch (MCMultiBuffer) | WaitIsServed | `resource_multibuffer.cc:239`: after a failed fetch Seek lets the reader wait for what nothing brings |
| MBLookBehind (MCMultiBuffer) | LookBehindKept | `resource_multibuffer.cc:247`: look-ahead and look-behind are exchanged, 5 blocks behind the reader are pinned and 50 in front |
| DSReadAtEnd (ResourceDataSource) | ReadsAtEndAnswered | `resource_data_source.cc:99`: while the size is unknown a read at the end of the resource is made; Fill has nothing for it (`resource_multibuffer.cc:171`), no fetch brings anything, and ReadTask posts itself for ever |
| DSReadRace (ResourceDataSource) | OperationOutlivesRead | `resource_data_source.cc:57`: a ReadTask already queued destroys the new operation before Read's log line uses it |
| DSDestroy (ResourceDataSource) | NoOperationDropped | `resource_data_source.cc:24`: a stopped source is destroyed with a callback that was not run, against `DCHECK(callback_.is_null())` in `read_operation.cc:16` |
| SinkUnhealthy (AudioRendererSinkCache) | UnhealthySinksAreStopped | `audio_renderer_sink_cache_impl.cc:259`: an unhealthy sink made by GetSinkInfo is dropped unstopped |
| MixerOrder (AudioRendererMixerManager) | OneMixerPerConfiguration | `audio_renderer_mixer_manager.h:129`: with a device id that sorts between "" and "default" the comparison is no strict weak order |
| SyncLost (AudioSyncReader) | CaughtUpIsInSync | `audio_sync_reader.cc:104`: a lost signal leaves the counters apart for good |
| VideoRedelivery (VideoRendererSink) | OnlyUnseenFrames | `video_renderer_sink_impl.cc:114`: `rendered_last_frame_` is never set, a frame is returned again |
| ProviderStale (MCAudioOutput) | StartNeverFails | `audiosourceprovider_impl.cc:80`: a device that was OK in Initialize and is not in Start gets no null sink, the renderer gets OnRenderError |
| PlayerSilent (MediaPlayer) | SeeksFinishOrFail | `mediaplayer_impl.cc:60`: a URL that is not served starts the pipeline like any other (`resource_data_source.cc:110`), its reads are polled for ever, and a Seek neither ends nor fails |
| PlayerSecondLoad (MediaPlayer) | OnePipeline | `mediaplayer_impl.cc:61`: a second load, unless the first was a file that could not be opened, starts the pipeline twice, or destroys the source the demuxer reads from; so does one after a URL that is not served, as nothing says that it is not |
| PlayerWrongSource (MediaPlayer) | PlaysLastLoad | `mediaplayer_impl.cc:242`: after a file that does not open, a URL is answered and the file's source is played |
| PlayerLateEnd (MediaPlayer) | EndedIsCurrent | `mediaplayer_impl.cc:153`: an end reported before a Seek sets `ended_` after it, and Pause then takes the duration for the time |
| StreamsNoTimeout (AudioOutputStreams) | RequestsAnswered | `audio_renderer_host.cc:51`: without a timeout a device that is not the default one waits for ever |
| StreamsClosed (AudioOutputStreams) | ClosedStreamsAreGone | `audio_message_filter.cc:122`: the host keeps what belongs to closed streams |

## 6. Proofs

Every safety property that a passing run checks, invariant or action property, is
also a theorem, and so are the three refinements: they hold for every value of the
constants that the named assumptions allow. TLC evaluates these assumptions in the
runs. `PROJECT.json` lists the theorems. In each module an inductive invariant comes
first, then that every action keeps it, then the theorems.

**LRU** (`LRU_proofs`). `Inv`, which is `TypeOK /\ HalvesAgree`, is inductive. With it,
each call maps to the same call of `LRUOrder`: the list's positions are the order of
use, and removing an element or putting one in front changes that order as specified.

**ResourceMultiBuffer** (`ResourceDataSource_proofs`, first part; it takes the lemmas
about lists from `LRU_proofs`). The inductive invariant `IInv` is the conjunction of

* `BufferTypeOK`; `WriterOpen` and `FetcherStates`, which say when bytes may come;
* `PinnedNarrow`: the pinned range is at most ahead + 1 + behind blocks wide;
* `CacheMirrorsLru`: `cache_` and `lru_` hold the same blocks, each once;
* `NoHoleInBlock`: the write position is at the end of a cached block or at the
  start of one;
* `FetchTracksWriter` and `ContentRight`.

No conjunct stands alone. Content is right because the fetcher is where the writer
is; that survives refetches because a queued fetch begins at the write position; a
block can be continued because it was not evicted half-written; it was not evicted
because it is the newest in `lru_` or pinned; and an evictable block exists because
the pinned range is narrower than the cache (`CacheAssumption`: 1000 > 5 + 1 + 50
in the code), which by a counting argument over the injective list gives
`PurgeTerminates`. `WaitIsJustified` and the action property `EvictionSparesReader`
follow. Unlike the run, the theorems also cover what follows misplaced bytes.

**ResourceDataSource** (second part). `SourceRunsTheBuffer`: every step of the data
source is one of the multibuffer's or leaves it alone, so all of the above holds
under it. `SourceInv` adds that a chunk lies inside the resource (`ChunkInside`), that
cached bytes exist there (`BytesExist`), that the reader has one operation at a time
(`OperationAwaited`), that a ReadTask between `Seek` and `Fill` keeps what it has seen
(`SeekedInTime`), and `PendingReadIsPolled`. `SourceImplements` is the refinement of
`DataSourceContract`. A failing, empty or stopped read is easy; the step that matters
is the answer with data, which is right because what `Fill` copies are available
bytes, these are right (`ContentRight`), and the bytes exist. As in the run, the
contract is only claimed until bytes were misplaced.

**The loops** (third part). For `Fill`, `LoopsInv` says what was copied so far
(`CopiedRight`), and that the iterator stands on the entry of the position's block,
or on the neighbour that is missing there (`AtPosition`), except that in its first
turn it may stand on an earlier entry (`BeforePosition`); such an entry must be full
and end right at the position, and that turn copies nothing. This is why one turn
more is allowed than bytes are copied. For `PurgeIfNecessary` it says that the list
is the first one with as many elements rotated from back to front as turns were taken
(`Rotated`), all of them pinned. `CheckCacheMiss` has no loop, and its theorem
follows from where `upper_bound` and the decrement stand.

**FileDataSource** (`FileDataSource_proofs`). With `OpenedFirst` (no read before the
file was tried), `OneOperation` and `OneTaskPerRead`, every step is a step of
`DataSourceContract` or leaves it alone.

**AudioSyncReader** (`AudioSyncReader_proofs`). Both properties rest on distances
modulo the width: the renderer's counter is behind the last signalled index by the
requests under way and the signals lost (`CounterLag`), and each value queued towards
the browser is behind the counter by its place in the queue (`ValuesLag`). Two indices
at a distance below the width are the same only at distance 0, so that the index
`Read` waits for can come only from the last request, and only while no signal was
lost; the buffer then still has that request's data (`LastRequestUndisturbed`,
`CopyInPeace`).
`IndexAssumption`, that lost and queued signals do not add up to the width, is what
keeps the distances apart. The code has 2^32 for the width, a socket buffer
for the room, and an index that is stepped once per request: the assumption excludes
a stream that loses some 2^32 signals.

**VideoRendererSink** (`VideoRendererSink_proofs`). The three properties of the run are
inductive together with `TaskInProgress`: while a compositor task is between two of
its parts, nobody changes `rendering_` or the client under it.

**AudioOutputStreams** (`AudioOutputStreams_proofs`). `OpenStreams`, `IdsGivenOut`,
`RepliesAwaited`, `NotCreatedYet` and `CreatedPosted` strengthen the two properties: a
stream id has one device, a new id is unknown to everyone, and the answers under way
name streams that the host knows. Late answers are harmless because ids are never
used twice.

**AudioSourceProvider** (`AudioSourceProvider_proofs`). One invariant for the provider,
the manager and the cache: the states that the lock of the manager allows (`LockInv`),
whose sinks run (`MixersRun`), that mixers have different sinks (`MixersDistinct`),
that what is in the cache is neither stopped nor about to be
(`CachedSinksUntouched`), that `DeleteSink` stops what nobody has (`StopsUnused`), and
which providers are starting (`StartingUnderLock`). `ref_count` is a cardinality:
a `Start` adds a provider to the holders of a mixer, a `Stop` takes one away,
which is where `IsFiniteSet(Providers)` is used. `ConfigurationsShareMixers` rests on
`HiddenIsSplit`: only a node whose device id lies between those of two keys of one
configuration can send the search for one of them away from the other. What the
search has missed is still so when the mixer is created, since the map does not
change under the lock (`MissedIsSplit`). That there is one mixer per configuration is
not claimed: with such a node it is false (MixerOrder, section 5).

**MediaPlayer** (`MediaPlayer_proofs`). `SeekingIsAwaited` and `PausedHolds` hold of any
user (`AnyUserInv`). `PausedTimeNotAhead`, `LastSeekWins` and `TypeOK` are proved for a user who
loads again only after a file that could not be opened (`~Impatient`), as they are
checked: the controller may be started once, and the player does not see to it.
`OneLoad` has at most one pipeline start queued or done, `OneWorkAtATime` one report of
the controller, and `SeekingIsTheLastSeek` says that `seeking_` stands for the seek
asked for last, whether it waits or is carried out.

Assumptions used: `BlockSizeAssumption`, `SizeAssumption`, `CacheAssumption`,
`ReadAssumption`, `LoopsAssumption`, `FileAssumption`, `IndexAssumption`,
`FrameAssumption`, `StreamAssumption`, `ProviderAssumption`, `PlayerAssumption`, and, as
a hypothesis of the theorems named, `~Impatient`. All but `CacheAssumption`,
`IndexAssumption` and this one only say of what kind the constants are. Bounds such as MaxReads and MaxSinks are any number, so the theorems hold for
runs of any length; MaxLost is the exception, by `IndexAssumption`.

**Only model-checked**: the five liveness properties (`ReadsAnswered` of either source,
`EverythingStops`, `SeeksFinish`, `RequestsAnswered`), since fairness means ENABLED, which
the prover does not handle; and the findings and divergences of section 5, which are
counterexamples. That the loops of `Fill` and `PurgeIfNecessary` end is proved as a
bound on their turns, not as liveness.

## 7. Not modelled

* `MediaPlayerImpl`: SetVolume, the metadata and the client of the video sink are
  stored or passed on. Its destructor: the weak pointers drop what is queued.
* `AudioSourceProviderImpl`: Play, Pause, SetVolume and the copying filter forward;
  `SwitchOutputDevice`, which uses `sink_` without the lock, has no caller.
* `AudioSyncReader::Create` returns nullptr when there is no shared memory or socket
  pair to be had (`audio_sync_reader.cc:63`). The delegate uses the reader without
  asking (`audio_output_delegate_impl.cc:141`); the streams are modelled with readers
  that were created.
* A video client that is replaced or removed while it renders: it is not told to stop
  (`video_renderer_sink_impl.cc:49`). The model takes each client that is set for a
  new one, and keeps nothing of the one before.
* A server that accepts a request and stays silent for ever, in the multibuffer's and
  the data source's runs (section 4); the player's has it.
* What a debug build does instead: it ends at a DCHECK, at NOTREACHED in `OnError`, or
  at `assert(false)` for a device that is not the default one.
* `OnCloseStream`, and the destructor and `OnPauseStream` of a delegate: no caller.
* `MediaContext`, `MediaInternals`, the example, the build files: no state that
  changes after the start, or logging (`UpdateAudioLog` is empty).
* Undefined behaviour behind the data race on `fetcher_` (`GetSize` reads it under
  `lock_`, `CreateFetcherFrom` assigns it without) and behind `base::Unretained`
  after destruction (`resource_multibuffer.cc:271`); the conversion of 64-bit positions
  to `int` in `Seek` and `Fill`; a read callback that reads again while
  `ResourceDataSource::ReadTask` holds `lock_`, which Chromium's does not.

## 8. Plan

Done, in this order: LRU; block cache and multibuffer; data source and contract;
file source; sink cache, mixer manager; sync reader; video sink; streams; proofs
of LRU, multibuffer and file source; the player; audio output as a whole;
authorization timeouts; proofs of the sync reader, the video sink, the player, audio
output, the streams, the data source on the multibuffer, and the loops.

Next:

1. An abstract specification of the sync reader (Read returns the data of the last
   request, or silence), which the present invariants should prove to be implemented.
2. The same for a sink (free, in use by one mixer, or stopped), under the cache, the
   manager and the providers.
3. For an impatient user of the player, the weaker properties that still hold.

## 9. Running

In this directory:

    tlc -config MultiBuffer.cfg MCMultiBuffer
    tlapm ResourceDataSource_proofs.tla

Every other run is named in `PROJECT.json` with its module and configuration.
