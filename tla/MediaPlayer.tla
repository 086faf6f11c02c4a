------------------------------- MODULE MediaPlayer -------------------------------
(***************************************************************************)
(* MediaPlayerImpl: it loads a URL or a file, starts Chromium's pipeline   *)
(* on it, and keeps what the user asked for: paused or not, the rate, a    *)
(* seek under way.                                                         *)
(*                                                                         *)
(* All its methods run on the main thread.  What it hears from others      *)
(* comes through that thread's queue: a source's InitializeCB, the         *)
(* pipeline's status, and OnEnded, which may have been posted before a     *)
(* Seek that the user has made meanwhile.                                  *)
(*                                                                         *)
(* External: media::PipelineController, which starts once, carries out one *)
(* seek at a time, keeps the last one asked for meanwhile, and reports     *)
(* when it is stable; and the pipeline on the media thread.                *)
(*                                                                         *)
(* A URL is never known to have failed.  Its source says that it is        *)
(* initialized before the request goes out, so the pipeline starts also on *)
(* one that no server answers, and a read of it is then polled for ever.   *)
(***************************************************************************)
EXTENDS Integers, Sequences

CONSTANTS
  Duration,              \* the media's length; times are 0 .. Duration
  Rates,                 \* what SetRate is called with; a negative rate changes nothing
  kMinRate, kMaxRate,
  Impatient,             \* whether the user loads again although the last load has not failed
  MaxLoads,              \* bound: calls of Load
  MaxSeeks               \* bound: calls of Seek

ASSUME PlayerAssumption ==
  /\ Duration \in Nat /\ Rates \subseteq Nat
  /\ {kMinRate, kMaxRate} \subseteq Nat \ {0} /\ kMinRate <= kMaxRate
  /\ Impatient \in BOOLEAN
  /\ {MaxLoads, MaxSeeks} \subseteq Nat

VARIABLES
  sources,           \* the sources made by Load: initializing, ready; failed, for a file that
                     \* could not be opened; silent, when a read of a URL is polled for ever
  data_source,       \* data_source_, as the number of its load; 0 for none
  resource_source,   \* resource_source_, likewise
  demuxer,           \* the source that demuxer_ reads from; 0 for no demuxer
  playback_rate,     \* playback_rate_
  paused,            \* paused_
  paused_time,       \* paused_time_
  seeking,           \* seeking_
  ended,             \* ended_
  controller,        \* the controller: see TypeOK
  pipeline_rate,     \* the rate it was given last
  work,              \* what the media thread has been told to do: start, seek
  position,          \* the pipeline's media time
  media_rate,        \* the rate in force on the media thread
  end_reported,      \* whether the pipeline has reported the end it has reached
  main_tasks,        \* the main thread's queue
  failed,            \* history: the pipeline has met an error
  asked,             \* history: the time of the last Seek
  seeks, starts      \* how often Seek and the controller's Start were called

load_vars == <<sources, data_source, resource_source, demuxer, starts>>
player_vars == <<playback_rate, paused, paused_time, seeking, ended>>
media_vars == <<position, media_rate, end_reported, failed>>
seek_vars == <<asked, seeks>>
vars == <<load_vars, player_vars, controller, pipeline_rate, work, media_vars, seek_vars,
          main_tasks>>

None == 0
Times == 0 .. Duration
NoTime == -1

Initialized(load, success) == [kind |-> "initialized", load |-> load, success |-> success]
Task(kind) == [kind |-> kind]
IsNext(kind) == main_tasks # << >> /\ Head(main_tasks).kind = kind

Init ==
  /\ sources = << >>
  /\ data_source = None /\ resource_source = None /\ demuxer = None
  /\ playback_rate = 0
  /\ paused = TRUE /\ paused_time = 0
  /\ seeking = FALSE /\ ended = FALSE
  /\ controller = [state |-> "created", target |-> 0, pending |-> NoTime, callback |-> FALSE]
  /\ pipeline_rate = 0 /\ media_rate = 0
  /\ work = "none" /\ position = 0 /\ end_reported = FALSE
  /\ main_tasks = << >>
  /\ failed = FALSE
  /\ asked = NoTime /\ seeks = 0 /\ starts = 0
-----------------------------------------------------------------------------
(* Loading *)

\* The controller starts once: a user who keeps to that loads again only after a
\* file that could not be opened.
MayLoad ==
  /\ Len(sources) < MaxLoads
  /\ sources # << >> => Impatient \/ sources[Len(sources)] = "failed"

\* The source before it, if there was one, is destroyed.
LoadUrl ==
  /\ MayLoad
  /\ sources' = Append(sources, "initializing")
  /\ resource_source' = Len(sources')
  /\ UNCHANGED <<data_source, demuxer, starts, player_vars, controller, pipeline_rate, work,
                 media_vars, seek_vars, main_tasks>>

\* A file is opened at once, only the answer comes later.
LoadFile ==
  /\ MayLoad
  /\ \E success \in BOOLEAN :
       /\ sources' = Append(sources, IF success THEN "ready" ELSE "failed")
       /\ main_tasks' = Append(main_tasks, Initialized(Len(sources'), success))
  /\ data_source' = Len(sources')
  /\ UNCHANGED <<resource_source, demuxer, starts, player_vars, controller, pipeline_rate,
                 work, media_vars, seek_vars>>

\* On the io thread, before the request goes out, and so whatever the server does.
UrlInitialized ==
  /\ resource_source # None
  /\ sources[resource_source] = "initializing"
  /\ sources' = [sources EXCEPT ![resource_source] = "ready"]
  /\ main_tasks' = Append(main_tasks, Initialized(resource_source, TRUE))
  /\ UNCHANGED <<data_source, resource_source, demuxer, starts, player_vars, controller,
                 pipeline_rate, work, media_vars, seek_vars>>

\* The server has not sent what the demuxer reads, and sends no more: ReadTask
\* posts itself from now on.
PolledForEver ==
  /\ demuxer # None /\ demuxer = resource_source
  /\ sources[demuxer] = "ready"
  /\ sources' = [sources EXCEPT ![demuxer] = "silent"]
  /\ UNCHANGED <<data_source, resource_source, demuxer, starts, player_vars, controller,
                 pipeline_rate, work, media_vars, seek_vars, main_tasks>>

\* Which source is taken does not depend on which one is initialized.
StartPipeline ==
  /\ demuxer' = IF data_source # None THEN data_source ELSE resource_source
  /\ starts' = starts + 1
  /\ controller' = [controller EXCEPT !.state = "starting", !.callback = TRUE]
  /\ work' = "start"

DataSourceInitialized ==
  /\ IsNext("initialized")
  /\ main_tasks' = Tail(main_tasks)
  /\ IF Head(main_tasks).success THEN StartPipeline
                                 ELSE UNCHANGED <<demuxer, starts, controller, work>>
  /\ UNCHANGED <<sources, data_source, resource_source, player_vars, pipeline_rate, media_vars,
                 seek_vars>>
-----------------------------------------------------------------------------
(* The controls *)

Play ==
  /\ paused' = FALSE
  /\ pipeline_rate' = playback_rate
  /\ UNCHANGED <<load_vars, playback_rate, paused_time, seeking, ended, controller, work,
                 media_vars, seek_vars, main_tasks>>

Pause ==
  /\ paused' = TRUE
  /\ pipeline_rate' = 0
  /\ paused_time' = IF ended THEN Duration ELSE position
  /\ UNCHANGED <<load_vars, playback_rate, seeking, ended, controller, work, media_vars,
                 seek_vars, main_tasks>>

Clamped(rate) ==
  CASE rate = 0 -> 0
    [] rate # 0 /\ rate < kMinRate -> kMinRate
    [] rate > kMaxRate -> kMaxRate
    [] OTHER -> rate

\* Mutant of SetRate: the pipeline is told also while the player is paused.
SetRateAnyway(rate) ==
  /\ playback_rate' = Clamped(rate)
  /\ pipeline_rate' = playback_rate'
  /\ UNCHANGED <<load_vars, paused, paused_time, seeking, ended, controller, work, media_vars,
                 seek_vars, main_tasks>>

SetRate(rate) ==
  /\ playback_rate' = Clamped(rate)
  /\ pipeline_rate' = IF paused THEN pipeline_rate ELSE playback_rate'
  /\ UNCHANGED <<load_vars, paused, paused_time, seeking, ended, controller, work, media_vars,
                 seek_vars, main_tasks>>

\* PipelineController::Seek: a seek to where it is seeking already is elided.
ControllerSeek(time) ==
  /\ \/ /\ controller.state = "playing"
        /\ controller' = [controller EXCEPT !.state = "seeking", !.target = time,
                                            !.callback = TRUE]
        /\ work' = "seek"
     \/ /\ controller.state # "playing"
        /\ controller' =
             [controller EXCEPT !.callback = TRUE,
                !.pending = IF controller.state = "seeking" /\ controller.target = time
                            THEN NoTime ELSE time]
        /\ UNCHANGED work

\* Mutant of DoSeek: while a seek is under way the controller is not told.
DoSeekOnce(time) ==
  /\ seeks < MaxSeeks
  /\ seeks' = seeks + 1 /\ asked' = time
  /\ ended' = FALSE
  /\ seeking' = TRUE
  /\ paused_time' = IF paused THEN time ELSE paused_time
  /\ IF seeking THEN UNCHANGED <<controller, work>> ELSE ControllerSeek(time)
  /\ UNCHANGED <<load_vars, playback_rate, paused, pipeline_rate, media_vars, main_tasks>>

\* Mutant of DoSeek: seeking_ is set in an else branch.
DoSeekPausedOr(time) ==
  /\ seeks < MaxSeeks
  /\ seeks' = seeks + 1 /\ asked' = time
  /\ ended' = FALSE
  /\ seeking' = (~paused \/ seeking)
  /\ paused_time' = IF paused THEN time ELSE paused_time
  /\ ControllerSeek(time)
  /\ UNCHANGED <<load_vars, playback_rate, paused, pipeline_rate, media_vars, main_tasks>>

DoSeek(time) ==
  /\ seeks < MaxSeeks
  /\ seeks' = seeks + 1 /\ asked' = time
  /\ ended' = FALSE
  /\ seeking' = TRUE
  /\ paused_time' = IF paused THEN time ELSE paused_time
  /\ ControllerSeek(time)
  /\ UNCHANGED <<load_vars, playback_rate, paused, pipeline_rate, media_vars, main_tasks>>
-----------------------------------------------------------------------------
(* The pipeline's reports, on the main thread *)

\* Mutant of OnPipelineSeeked: paused_time_ is left as Pause has set it.
OnPipelineSeekedUntimed ==
  /\ seeking' = FALSE
  /\ UNCHANGED paused_time

\* Mutant of OnPipelineSeeked: seeking_ is reset under the condition.
OnPipelineSeekedIfPaused ==
  /\ seeking' = (seeking /\ ~paused)
  /\ paused_time' = IF paused THEN position ELSE paused_time

OnPipelineSeeked ==
  /\ seeking' = FALSE
  /\ paused_time' = IF paused THEN position ELSE paused_time

\* The controller's OnPipelineStatus and Dispatch: the seek asked for meanwhile
\* comes first, and when there is none, the pipeline is stable.
OnPipelineStatus ==
  /\ IsNext("status")
  /\ main_tasks' = Tail(main_tasks)
  /\ \/ /\ controller.pending # NoTime
        /\ controller' = [controller EXCEPT !.state = "seeking", !.target = controller.pending,
                                            !.pending = NoTime]
        /\ work' = "seek"
        /\ UNCHANGED player_vars
     \/ /\ controller.pending = NoTime
        /\ controller' = [controller EXCEPT !.state = "playing", !.callback = FALSE]
        /\ IF controller.callback THEN OnPipelineSeeked ELSE UNCHANGED <<seeking, paused_time>>
        /\ UNCHANGED <<playback_rate, paused, ended, work>>
  /\ UNCHANGED <<load_vars, pipeline_rate, media_vars, seek_vars>>

\* Whether the end is still the end is not asked.
OnEnded ==
  /\ IsNext("ended")
  /\ main_tasks' = Tail(main_tasks)
  /\ ended' = TRUE
  /\ UNCHANGED <<load_vars, playback_rate, paused, paused_time, seeking, controller,
                 pipeline_rate, work, media_vars, seek_vars>>

\* NOTREACHED, which does nothing in a release build.
OnError ==
  /\ IsNext("error")
  /\ main_tasks' = Tail(main_tasks)
  /\ UNCHANGED <<load_vars, player_vars, controller, pipeline_rate, work, media_vars, seek_vars>>
-----------------------------------------------------------------------------
(* The media thread *)

\* What there is to do needs the source's answers.
WorkDone ==
  /\ work # "none" /\ ~failed
  /\ sources[demuxer] = "ready"
  /\ work' = "none"
  /\ position' = IF work = "seek" THEN controller.target ELSE position
  /\ end_reported' = FALSE
  /\ main_tasks' = Append(main_tasks, Task("status"))
  /\ UNCHANGED <<load_vars, player_vars, controller, pipeline_rate, media_rate, failed, seek_vars>>

RateChanges ==
  /\ media_rate # pipeline_rate
  /\ media_rate' = pipeline_rate
  /\ UNCHANGED <<load_vars, player_vars, controller, pipeline_rate, work, position,
                 end_reported, failed, seek_vars, main_tasks>>

\* The pipeline plays until it takes up what it has been told to do, and reports
\* the end once.
Running == controller.state \in {"playing", "seeking"} /\ media_rate > 0 /\ ~failed

PlayOn ==
  /\ Running
  /\ \/ position < Duration /\ position' = position + 1 /\ UNCHANGED <<end_reported, main_tasks>>
     \/ /\ position = Duration /\ ~end_reported
        /\ end_reported' = TRUE
        /\ main_tasks' = Append(main_tasks, Task("ended"))
        /\ UNCHANGED position
  /\ UNCHANGED <<load_vars, player_vars, controller, pipeline_rate, work, media_rate, failed,
                 seek_vars>>

Fail ==
  /\ controller.state # "created" /\ ~failed
  /\ failed' = TRUE
  /\ main_tasks' = Append(main_tasks, Task("error"))
  /\ UNCHANGED <<load_vars, player_vars, controller, pipeline_rate, work, position, media_rate,
                 end_reported, seek_vars>>
\* A file that could not be opened answers each read with an error.
WorkFails ==
  /\ work # "none"
  /\ sources[demuxer] = "failed"
  /\ Fail
-----------------------------------------------------------------------------
Control == Play \/ Pause \/ (\E r \in Rates : SetRate(r)) \/ \E t \in Times : DoSeek(t)
Report == DataSourceInitialized \/ OnPipelineStatus \/ OnEnded \/ OnError
Media == WorkDone \/ RateChanges \/ PlayOn \/ Fail

Next == LoadUrl \/ LoadFile \/ UrlInitialized \/ PolledForEver \/ Control \/ Report \/ Media

Spec == Init /\ [][Next]_vars

\* The main thread runs its queue, and the media thread does what it is told while
\* the demuxer's source answers.
FairSpec == Spec /\ WF_vars(Report) /\ WF_vars(WorkDone) /\ WF_vars(WorkFails)
-----------------------------------------------------------------------------
TypeOK ==
  /\ sources \in Seq({"initializing", "ready", "silent", "failed"})
  /\ {data_source, resource_source, demuxer} \subseteq 0 .. Len(sources)
  /\ {paused, seeking, ended, end_reported, failed} \subseteq BOOLEAN
  /\ {playback_rate, pipeline_rate, media_rate} \subseteq {0} \cup (kMinRate .. kMaxRate)
  /\ {paused_time, position} \subseteq Times
  /\ controller \in [state : {"created", "starting", "playing", "seeking"}, target : Times,
                     pending : Times \cup {NoTime}, callback : BOOLEAN]
  /\ work \in {"none", "start", "seek"}
  /\ main_tasks \in Seq([kind : {"initialized"}, load : 1 .. Len(sources), success : BOOLEAN]
                          \cup [kind : {"status", "ended", "error"}])
  /\ asked \in Times \cup {NoTime} /\ {seeks, starts} \subseteq Nat

\* seeking_ says that the controller has still to report: for each Seek there is
\* a report to come, and after the last one there is none.
SeekingIsAwaited ==
  controller.callback <=> seeking \/ controller.state = "starting"

\* What a paused player remembers as its time was never ahead of the media, be
\* it paused before, during or after a seek.
PausedTimeNotAhead ==
  paused /\ ~seeking /\ ~ended => paused_time <= position

\* A paused player does not play on, once its rate is in force: the media time
\* changes for a seek alone.
PausedHolds ==
  [][paused /\ media_rate = pipeline_rate /\ position' # position
       => work = "seek" /\ position' = controller.target]_vars

\* However many seeks came before the first was done, the one carried out last
\* is the one asked for last.
LastSeekWins ==
  [][seeking /\ ~seeking' => controller'.target = asked /\ controller'.pending = NoTime]_vars

\* Each seek of a started player comes to an end, unless the pipeline fails or
\* the demuxer waits for a read that is polled for ever.
Silent == demuxer # None /\ sources[demuxer] = "silent"
SeeksFinish ==
  []~failed => (seeking /\ demuxer # None ~> ~seeking \/ Silent)

\* Each seek of a started player comes to an end, or the player is told of an
\* error.
SeeksFinishOrFail ==
  []~failed => (seeking /\ demuxer # None ~> ~seeking)

\* The source that plays is the one loaded last.
PlaysLastLoad == demuxer # None => demuxer = Len(sources)

\* ended_ says that the media is at its end.
EndedIsCurrent == ended /\ ~seeking => position = Duration
\* The pipeline is started once, and the demuxer reads from a source that is
\* still there.
OnePipeline ==
  /\ starts <= 1
  /\ demuxer # None => demuxer \in {data_source, resource_source}
=============================================================================
