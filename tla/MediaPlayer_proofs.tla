-------------------------- MODULE MediaPlayer_proofs --------------------------
(***************************************************************************)
(* Proofs about MediaPlayer, for media of any length, any rates and any    *)
(* number of loads and seeks.  Two of them hold of every user; the others, *)
(* of a user who loads again only after a file that could not be opened:   *)
(* the controller starts once, and a load of any other kind starts it.     *)
(*                                                                         *)
(* The argument.  A load that has succeeded is the last one, so its        *)
(* InitializeCB starts the controller once.  From then on there is one     *)
(* piece of work or one status report under way at a time, the controller  *)
(* seeks only while seeking_ is set, and what it seeks to last is what     *)
(* Seek was called with last.                                              *)
(***************************************************************************)
EXTENDS MediaPlayer, SequenceTheorems, TLAPS

Tasks(loads) ==
  [kind : {"initialized"}, load : 1 .. loads, success : BOOLEAN]
    \cup [kind : {"status", "ended", "error"}]

\* Where in the main thread's queue the pipeline is to be started, and where the
\* controller has a report.
Successes == {i \in DOMAIN main_tasks : main_tasks[i].kind = "initialized" /\ main_tasks[i].success}
Statuses == {i \in DOMAIN main_tasks : main_tasks[i].kind = "status"}

LastReady == sources # << >> /\ sources[Len(sources)] \in {"ready", "silent"}

OneLoad ==
  /\ \A i \in DOMAIN sources : i # Len(sources) => sources[i] = "failed"
  /\ \A i, j \in Successes : i = j
  /\ Successes # {} => starts = 0 /\ LastReady
  /\ starts = 0 => demuxer = None
  /\ starts # 0 => starts = 1 /\ LastReady

OneWorkAtATime ==
  /\ controller.state = "created" <=> starts = 0
  /\ \A i, j \in Statuses : i = j
  /\ Statuses # {} => work = "none" /\ controller.state \in {"starting", "seeking"}
  /\ work = "start" => controller.state = "starting"
  /\ work = "seek" => controller.state = "seeking"

\* seeking_ stands for a seek of the controller: one that waits, or one that is
\* carried out.  Either way it is the one asked for last.
SeekingIsTheLastSeek ==
  /\ controller.state = "seeking" => seeking
  /\ controller.pending # NoTime => seeking /\ controller.state # "playing"
  /\ seeking =>
       \/ controller.pending = asked /\ asked # NoTime
       \/ controller.pending = NoTime /\ controller.state = "seeking" /\ controller.target = asked

PausedRate == paused => pipeline_rate = 0

IInv ==
  /\ TypeOK /\ OneLoad /\ OneWorkAtATime /\ SeekingIsTheLastSeek /\ PausedRate
  /\ SeekingIsAwaited /\ PausedTimeNotAhead

LEMMA ConstantTypes ==
  /\ Duration \in Nat /\ Rates \subseteq Nat
  /\ kMinRate \in Nat \ {0} /\ kMaxRate \in Nat \ {0} /\ kMinRate <= kMaxRate
  /\ MaxLoads \in Nat /\ MaxSeeks \in Nat
BY PlayerAssumption

\* A report goes to the end of the main thread's queue.
LEMMA Posted ==
  ASSUME NEW loads \in Nat, NEW task \in Tasks(loads),
         main_tasks \in Seq(Tasks(loads)), main_tasks' = Append(main_tasks, task)
  PROVE  /\ main_tasks' \in Seq(Tasks(loads))
         /\ Statuses' = IF task.kind = "status" THEN Statuses \cup {Len(main_tasks) + 1}
                                                ELSE Statuses
         /\ Successes' = IF task.kind = "initialized" /\ task.success
                           THEN Successes \cup {Len(main_tasks) + 1} ELSE Successes
<1>1. /\ main_tasks' \in Seq(Tasks(loads)) /\ Len(main_tasks) \in Nat
      /\ Len(main_tasks') = Len(main_tasks) + 1
      /\ \A i \in 1 .. Len(main_tasks) : main_tasks'[i] = main_tasks[i]
      /\ main_tasks'[Len(main_tasks) + 1] = task
  BY AppendProperties
<1>2. DOMAIN main_tasks = 1 .. Len(main_tasks) /\ DOMAIN main_tasks' = 1 .. Len(main_tasks) + 1
  BY <1>1
<1> QED BY <1>1, <1>2 DEF Statuses, Successes

\* The main thread takes a report from the front: the others move up.
LEMMA Taken ==
  ASSUME NEW loads \in Nat, main_tasks \in Seq(Tasks(loads)), main_tasks # << >>,
         main_tasks' = Tail(main_tasks)
  PROVE  /\ main_tasks' \in Seq(Tasks(loads)) /\ Head(main_tasks) \in Tasks(loads)
         /\ \A i \in Statuses' : i \in Nat \ {0} /\ i + 1 \in Statuses
         /\ \A i \in Successes' : i \in Nat \ {0} /\ i + 1 \in Successes
         /\ Head(main_tasks).kind = "status" => 1 \in Statuses
         /\ Head(main_tasks).kind = "initialized" /\ Head(main_tasks).success => 1 \in Successes
<1>1. /\ main_tasks' \in Seq(Tasks(loads)) /\ Len(main_tasks) \in Nat \ {0}
      /\ Len(main_tasks') = Len(main_tasks) - 1 /\ Head(main_tasks) \in Tasks(loads)
      /\ \A i \in 1 .. Len(main_tasks') : main_tasks'[i] = main_tasks[i + 1]
      /\ Head(main_tasks) = main_tasks[1]
  BY HeadTailProperties, EmptySeq
<1>2. DOMAIN main_tasks = 1 .. Len(main_tasks) /\ DOMAIN main_tasks' = 1 .. Len(main_tasks) - 1
  BY <1>1
<1> QED BY <1>1, <1>2 DEF Statuses, Successes

\* A report that is the only one of its kind leaves none behind.
LEMMA TakenAlone ==
  ASSUME NEW S, NEW T, \A i, j \in S : i = j, \A i \in T : i \in Nat \ {0} /\ i + 1 \in S
  PROVE  /\ \A i, j \in T : i = j
         /\ 1 \in S => T = {}
         /\ S = {} => T = {}
<1>1. ASSUME NEW i \in T, NEW j \in T PROVE i = j
  <2>1. i + 1 = j + 1
    OBVIOUS
  <2> QED BY <2>1
<1>2. ASSUME 1 \in S, NEW i \in T PROVE FALSE
  <2>1. i + 1 = 1 /\ i \in Nat \ {0}
    BY <1>2
  <2> QED BY <2>1
<1> QED BY <1>1, <1>2

LEMMA SourcesTyped ==
  ASSUME TypeOK
  PROVE  /\ sources \in Seq({"initializing", "ready", "silent", "failed"}) /\ Len(sources) \in Nat
         /\ DOMAIN sources = 1 .. Len(sources)
         /\ main_tasks \in Seq(Tasks(Len(sources)))
BY DEF TypeOK, Tasks

LEMMA InitIInv == Init => IInv
<1> SUFFICES ASSUME Init PROVE IInv
  OBVIOUS
<1> USE ConstantTypes DEF Init, None, NoTime, Times
<1>1. TypeOK
  <2>1. controller \in [state : {"created", "starting", "playing", "seeking"}, target : Times,
                        pending : Times \cup {NoTime}, callback : BOOLEAN]
    OBVIOUS
  <2>2. sources \in Seq({"initializing", "ready", "silent", "failed"}) /\ Len(sources) = 0
    OBVIOUS
  <2>3. {paused, seeking, ended, end_reported, failed} \subseteq BOOLEAN
    OBVIOUS
  <2> QED BY <2>1, <2>2, <2>3 DEF TypeOK
<1>2. Successes = {} /\ Statuses = {}
  BY DEF Successes, Statuses
<1>3. OneLoad /\ OneWorkAtATime
  BY <1>2 DEF OneLoad, OneWorkAtATime
<1>4. SeekingIsTheLastSeek /\ PausedRate
  BY DEF SeekingIsTheLastSeek, PausedRate
<1>5. SeekingIsAwaited /\ PausedTimeNotAhead
  BY DEF SeekingIsAwaited, PausedTimeNotAhead
<1> QED BY <1>1, <1>3, <1>4, <1>5 DEF IInv
-----------------------------------------------------------------------------
\* What a load leaves alone.
LEMMA LoadFrame ==
  ASSUME IInv, starts' = starts, demuxer' = demuxer, Statuses' = Statuses,
         UNCHANGED <<player_vars, controller, pipeline_rate, work, media_vars, seek_vars>>
  PROVE  /\ OneWorkAtATime' /\ SeekingIsTheLastSeek' /\ PausedRate'
         /\ SeekingIsAwaited' /\ PausedTimeNotAhead'
BY DEF IInv, OneWorkAtATime, SeekingIsTheLastSeek, PausedRate, SeekingIsAwaited,
       PausedTimeNotAhead, player_vars, media_vars, seek_vars

\* A user who is not impatient loads only what comes to nothing or is the first.
LEMMA LoadsBeforeStart ==
  ASSUME IInv, MayLoad, ~Impatient
  PROVE  /\ starts = 0 /\ demuxer = None /\ Successes = {}
         /\ \A i \in DOMAIN sources : sources[i] = "failed"
<1>1. sources # << >> => sources[Len(sources)] = "failed"
  BY DEF MayLoad
<1>2. ~LastReady
  BY <1>1 DEF LastReady
<1>3. \A i \in DOMAIN sources : sources # << >>
  BY SourcesTyped DEF IInv
<1> QED BY <1>1, <1>2, <1>3 DEF IInv, OneLoad

LEMMA LoadUrlKeepsIInv ==
  ASSUME IInv, LoadUrl, ~Impatient
  PROVE  IInv'
<1>1. /\ TypeOK /\ MayLoad /\ sources' = Append(sources, "initializing")
      /\ resource_source' = Len(sources') /\ main_tasks' = main_tasks
      /\ UNCHANGED <<data_source, demuxer, starts>>
      /\ UNCHANGED <<player_vars, controller, pipeline_rate, work, media_vars, seek_vars>>
  BY DEF LoadUrl, IInv
<1>2. /\ sources' \in Seq({"initializing", "ready", "silent", "failed"})
      /\ Len(sources') = Len(sources) + 1 /\ Len(sources) \in Nat
      /\ \A i \in 1 .. Len(sources) : sources'[i] = sources[i]
      /\ DOMAIN sources = 1 .. Len(sources) /\ DOMAIN sources' = 1 .. Len(sources) + 1
  BY <1>1, SourcesTyped, AppendProperties
<1>3. TypeOK'
  <2>1. main_tasks' \in Seq(Tasks(Len(sources')))
    <3>1. Tasks(Len(sources)) \subseteq Tasks(Len(sources'))
      BY <1>2 DEF Tasks
    <3> QED BY <1>1, <3>1, SourcesTyped, SeqMonotonic
  <2>2. {data_source', resource_source', demuxer'} \subseteq 0 .. Len(sources')
    BY <1>1, <1>2 DEF TypeOK
  <2> QED BY <1>1, <1>2, <2>1, <2>2 DEF TypeOK, Tasks, player_vars, media_vars, seek_vars
<1>4. Statuses' = Statuses /\ Successes' = Successes
  BY <1>1 DEF Statuses, Successes
<1>5. OneLoad'
  BY <1>1, <1>2, <1>4, LoadsBeforeStart DEF OneLoad
<1> QED BY <1>1, <1>3, <1>4, <1>5, LoadFrame DEF IInv

LEMMA LoadFileKeepsIInv ==
  ASSUME IInv, LoadFile, ~Impatient
  PROVE  IInv'
<1>1. /\ TypeOK /\ MayLoad /\ data_source' = Len(sources')
      /\ UNCHANGED <<resource_source, demuxer, starts>>
      /\ UNCHANGED <<player_vars, controller, pipeline_rate, work, media_vars, seek_vars>>
  BY DEF LoadFile, IInv
<1>2. PICK success \in BOOLEAN :
        /\ sources' = Append(sources, IF success THEN "ready" ELSE "failed")
        /\ main_tasks' = Append(main_tasks, Initialized(Len(sources'), success))
  BY DEF LoadFile
<1>3. /\ sources' \in Seq({"initializing", "ready", "silent", "failed"})
      /\ Len(sources') = Len(sources) + 1 /\ Len(sources) \in Nat
      /\ \A i \in 1 .. Len(sources) : sources'[i] = sources[i]
      /\ sources'[Len(sources')] = IF success THEN "ready" ELSE "failed"
      /\ DOMAIN sources = 1 .. Len(sources) /\ DOMAIN sources' = 1 .. Len(sources) + 1
  BY <1>1, <1>2, SourcesTyped, AppendProperties
<1>4. /\ Initialized(Len(sources'), success) \in Tasks(Len(sources'))
      /\ Initialized(Len(sources'), success).kind = "initialized"
      /\ Initialized(Len(sources'), success).success = success
  BY <1>3 DEF Initialized, Tasks
<1>5. main_tasks \in Seq(Tasks(Len(sources')))
  <2>1. Tasks(Len(sources)) \subseteq Tasks(Len(sources'))
    BY <1>3 DEF Tasks
  <2> QED BY <1>1, <2>1, SourcesTyped, SeqMonotonic
<1>6. /\ main_tasks' \in Seq(Tasks(Len(sources'))) /\ Statuses' = Statuses
      /\ Successes' = IF success THEN Successes \cup {Len(main_tasks) + 1} ELSE Successes
  BY <1>2, <1>3, <1>4, <1>5, Posted
<1>7. TypeOK'
  <2>1. {data_source', resource_source', demuxer'} \subseteq 0 .. Len(sources')
    BY <1>1, <1>3 DEF TypeOK
  <2> QED BY <1>1, <1>3, <1>6, <2>1 DEF TypeOK, Tasks, player_vars, media_vars, seek_vars
<1>8. OneLoad'
  <2>1. starts = 0 /\ demuxer = None /\ Successes = {} /\ \A i \in DOMAIN sources : sources[i] = "failed"
    BY <1>1, LoadsBeforeStart
  <2>2. success => LastReady'
    BY <1>3, EmptySeq DEF LastReady
  <2> QED BY <1>1, <1>3, <1>6, <2>1, <2>2 DEF OneLoad
<1> QED BY <1>1, <1>6, <1>7, <1>8, LoadFrame DEF IInv

\* What becomes of the sources when the state of the last one changes.
SourcesBut(state) ==
  /\ sources' \in Seq({"initializing", "ready", "silent", "failed"}) /\ sources' # << >>
  /\ \A i \in DOMAIN sources : i # Len(sources) => sources'[i] = sources[i]
  /\ sources'[Len(sources)] = state

LEMMA LastSourceChanged ==
  ASSUME TypeOK, NEW state \in {"ready", "silent"},
         resource_source = Len(sources), resource_source \in DOMAIN sources,
         sources' = [sources EXCEPT ![resource_source] = state]
  PROVE  SourcesBut(state) /\ Len(sources') = Len(sources) /\ DOMAIN sources' = DOMAIN sources
<1>1. resource_source \in 1 .. Len(sources) /\ state \in {"initializing", "ready", "silent", "failed"}
  BY SourcesTyped
<1>2. /\ sources' \in Seq({"initializing", "ready", "silent", "failed"})
      /\ Len(sources') = Len(sources)
      /\ \A i \in 1 .. Len(sources) :
           sources'[i] = IF i = resource_source THEN state ELSE sources[i]
  BY <1>1, SourcesTyped, ExceptSeq
<1> QED BY <1>1, <1>2, SourcesTyped DEF SourcesBut

LEMMA UrlInitializedKeepsIInv ==
  ASSUME IInv, UrlInitialized
  PROVE  IInv'
<1>1. /\ TypeOK /\ resource_source # None /\ sources[resource_source] = "initializing"
      /\ UNCHANGED <<data_source, resource_source, demuxer, starts>>
      /\ UNCHANGED <<player_vars, controller, pipeline_rate, work, media_vars, seek_vars>>
      /\ sources' = [sources EXCEPT ![resource_source] = "ready"]
      /\ main_tasks' = Append(main_tasks, Initialized(resource_source, TRUE))
  BY DEF UrlInitialized, IInv
<1>2. resource_source = Len(sources) /\ resource_source \in DOMAIN sources
  <2>1. resource_source \in DOMAIN sources
    BY <1>1, SourcesTyped DEF TypeOK, None
  <2> QED BY <1>1, <2>1 DEF IInv, OneLoad
<1>3. starts = 0 /\ Successes = {} /\ demuxer = None
  <2>1. ~LastReady
    BY <1>1, <1>2 DEF LastReady
  <2> QED BY <2>1 DEF IInv, OneLoad
<1>4. /\ SourcesBut("ready") /\ Len(sources') = Len(sources)
      /\ DOMAIN sources' = DOMAIN sources
  BY <1>1, <1>2, LastSourceChanged
<1>5. /\ Initialized(resource_source, TRUE) \in Tasks(Len(sources))
      /\ Initialized(resource_source, TRUE).kind = "initialized"
      /\ Initialized(resource_source, TRUE).success = TRUE
  BY <1>1, <1>2, SourcesTyped DEF Initialized, Tasks
<1>6. /\ main_tasks' \in Seq(Tasks(Len(sources'))) /\ Statuses' = Statuses
      /\ Successes' = Successes \cup {Len(main_tasks) + 1}
  BY <1>1, <1>4, <1>5, SourcesTyped, Posted
<1>7. TypeOK'
  BY <1>1, <1>4, <1>6 DEF TypeOK, Tasks, player_vars, media_vars, seek_vars, SourcesBut
<1>8. OneLoad'
  <2>1. LastReady'
    BY <1>4 DEF LastReady, SourcesBut
  <2> QED BY <1>1, <1>3, <1>4, <1>6, <2>1 DEF IInv, OneLoad, SourcesBut
<1> QED BY <1>1, <1>6, <1>7, <1>8, LoadFrame DEF IInv

LEMMA PolledForEverKeepsIInv ==
  ASSUME IInv, PolledForEver
  PROVE  IInv'
<1>1. /\ TypeOK /\ demuxer # None /\ demuxer = resource_source /\ sources[demuxer] = "ready"
      /\ UNCHANGED <<data_source, resource_source, demuxer, starts>>
      /\ UNCHANGED <<player_vars, controller, pipeline_rate, work, media_vars, seek_vars>>
      /\ sources' = [sources EXCEPT ![resource_source] = "silent"]
      /\ main_tasks' = main_tasks
  BY DEF PolledForEver, IInv
<1>2. resource_source = Len(sources) /\ resource_source \in DOMAIN sources
  <2>1. resource_source \in DOMAIN sources
    BY <1>1, SourcesTyped DEF TypeOK, None
  <2> QED BY <1>1, <2>1 DEF IInv, OneLoad
<1>3. /\ SourcesBut("silent") /\ Len(sources') = Len(sources)
      /\ DOMAIN sources' = DOMAIN sources
  BY <1>1, <1>2, LastSourceChanged
<1>4. Statuses' = Statuses /\ Successes' = Successes
  BY <1>1 DEF Statuses, Successes
<1>5. TypeOK'
  BY <1>1, <1>3 DEF TypeOK, player_vars, media_vars, seek_vars, SourcesBut
<1>6. OneLoad'
  <2>1. LastReady'
    BY <1>3 DEF LastReady, SourcesBut
  <2> QED BY <1>1, <1>3, <1>4, <2>1 DEF IInv, OneLoad, SourcesBut
<1> QED BY <1>1, <1>4, <1>5, <1>6, LoadFrame DEF IInv
-----------------------------------------------------------------------------
\* What a step of another kind leaves alone of the loads.
LEMMA LoadsFrame ==
  ASSUME IInv, UNCHANGED load_vars, main_tasks' = main_tasks
  PROVE  OneLoad' /\ Statuses' = Statuses
BY DEF IInv, OneLoad, LastReady, load_vars, Statuses, Successes

LEMMA ControllerTyped ==
  ASSUME TypeOK
  PROVE  /\ controller \in [state : {"created", "starting", "playing", "seeking"}, target : Times,
                            pending : Times \cup {NoTime}, callback : BOOLEAN]
         /\ NoTime \notin Times
BY ConstantTypes DEF TypeOK, NoTime, Times

LEMMA PlayPauseKeepIInv ==
  ASSUME IInv, Play \/ Pause
  PROVE  IInv'
<1>1. /\ TypeOK /\ UNCHANGED load_vars /\ main_tasks' = main_tasks
      /\ UNCHANGED <<playback_rate, seeking, ended, controller, work, media_vars, seek_vars>>
      /\ \/ paused' = FALSE /\ pipeline_rate' = playback_rate /\ paused_time' = paused_time
         \/ /\ paused' = TRUE /\ pipeline_rate' = 0
            /\ paused_time' = IF ended THEN Duration ELSE position
  BY DEF IInv, Play, Pause
<1>2. OneLoad' /\ Statuses' = Statuses
  BY <1>1, LoadsFrame
<1>3. TypeOK'
  <2>1. paused_time' \in Times
    BY <1>1, ConstantTypes DEF TypeOK, Times
  <2>2. pipeline_rate' \in {0} \cup (kMinRate .. kMaxRate) /\ paused' \in BOOLEAN
    BY <1>1 DEF TypeOK
  <2> QED BY <1>1, <2>1, <2>2 DEF TypeOK, load_vars, media_vars, seek_vars
<1>4. OneWorkAtATime' /\ SeekingIsTheLastSeek' /\ SeekingIsAwaited'
  BY <1>1, <1>2 DEF IInv, OneWorkAtATime, SeekingIsTheLastSeek, SeekingIsAwaited, load_vars, seek_vars
<1>5. PausedRate'
  BY <1>1 DEF PausedRate
<1>6. PausedTimeNotAhead'
  BY <1>1, ConstantTypes DEF PausedTimeNotAhead, media_vars, TypeOK, Times
<1> QED BY <1>2, <1>3, <1>4, <1>5, <1>6 DEF IInv

LEMMA ClampedType ==
  ASSUME NEW rate \in Nat
  PROVE  Clamped(rate) \in {0} \cup (kMinRate .. kMaxRate)
<1> USE ConstantTypes DEF Clamped
<1>1. CASE rate = 0
  BY <1>1
<1>2. CASE rate # 0 /\ rate < kMinRate
  BY <1>2
<1>3. CASE rate > kMaxRate
  BY <1>3
<1>4. CASE rate # 0 /\ ~(rate < kMinRate) /\ ~(rate > kMaxRate)
  BY <1>4
<1> QED BY <1>1, <1>2, <1>3, <1>4

LEMMA SetRateKeepsIInv ==
  ASSUME IInv, NEW rate \in Rates, SetRate(rate)
  PROVE  IInv'
<1>1. /\ TypeOK /\ UNCHANGED load_vars /\ main_tasks' = main_tasks
      /\ UNCHANGED <<paused, paused_time, seeking, ended, controller, work, media_vars, seek_vars>>
      /\ playback_rate' = Clamped(rate)
      /\ pipeline_rate' = IF paused THEN pipeline_rate ELSE playback_rate'
  BY DEF IInv, SetRate
<1>2. OneLoad' /\ Statuses' = Statuses
  BY <1>1, LoadsFrame
<1>3. TypeOK'
  <2>1. {playback_rate', pipeline_rate'} \subseteq {0} \cup (kMinRate .. kMaxRate)
    BY <1>1, ClampedType, ConstantTypes DEF TypeOK
  <2> QED BY <1>1, <2>1 DEF TypeOK, load_vars, media_vars, seek_vars
<1>4. OneWorkAtATime' /\ SeekingIsTheLastSeek' /\ SeekingIsAwaited'
  BY <1>1, <1>2 DEF IInv, OneWorkAtATime, SeekingIsTheLastSeek, SeekingIsAwaited, load_vars, seek_vars
<1>5. PausedRate' /\ PausedTimeNotAhead'
  BY <1>1 DEF IInv, PausedRate, PausedTimeNotAhead, media_vars
<1> QED BY <1>2, <1>3, <1>4, <1>5 DEF IInv

LEMMA DoSeekKeepsIInv ==
  ASSUME IInv, NEW time \in Times, DoSeek(time)
  PROVE  IInv'
<1>1. /\ TypeOK /\ UNCHANGED load_vars /\ main_tasks' = main_tasks
      /\ UNCHANGED <<playback_rate, paused, pipeline_rate, media_vars>>
      /\ seeks < MaxSeeks /\ seeks' = seeks + 1 /\ asked' = time
      /\ ended' = FALSE /\ seeking' = TRUE
      /\ paused_time' = IF paused THEN time ELSE paused_time
      /\ ControllerSeek(time)
  BY DEF IInv, DoSeek
<1>2. OneLoad' /\ Statuses' = Statuses
  BY <1>1, LoadsFrame
<1>3. PausedRate' /\ PausedTimeNotAhead'
  BY <1>1 DEF IInv, PausedRate, PausedTimeNotAhead
<1>4. ASSUME controller' \in [state : {"created", "starting", "playing", "seeking"}, target : Times,
                             pending : Times \cup {NoTime}, callback : BOOLEAN],
             work' \in {"none", "start", "seek"}
      PROVE  TypeOK'
  <2>1. {paused_time', position'} \subseteq Times /\ asked' \in Times \cup {NoTime} /\ seeks' \in Nat
    BY <1>1 DEF TypeOK, media_vars
  <2>2. {paused', seeking', ended', end_reported', failed'} \subseteq BOOLEAN
    BY <1>1 DEF TypeOK, media_vars
  <2> QED BY <1>1, <1>4, <2>1, <2>2 DEF TypeOK, load_vars, media_vars
<1>5. CASE /\ controller.state = "playing"
           /\ controller' = [controller EXCEPT !.state = "seeking", !.target = time,
                                               !.callback = TRUE]
           /\ work' = "seek"
  <2>1. controller'.state = "seeking" /\ controller'.target = time /\ controller'.callback = TRUE
    BY <1>1, <1>5, ControllerTyped
  <2>2. controller'.pending = NoTime
    BY <1>1, <1>5, ControllerTyped DEF IInv, SeekingIsTheLastSeek
  <2>3. TypeOK'
    BY <1>1, <1>4, <1>5, ControllerTyped
  <2>4. Statuses' = {} /\ starts' # 0
    BY <1>1, <1>2, <1>5 DEF IInv, OneWorkAtATime, load_vars
  <2>5. OneWorkAtATime'
    BY <1>1, <1>5, <2>1, <2>4 DEF OneWorkAtATime
  <2>6. SeekingIsTheLastSeek' /\ SeekingIsAwaited'
    BY <1>1, <2>1, <2>2 DEF SeekingIsTheLastSeek, SeekingIsAwaited
  <2> QED BY <1>2, <1>3, <2>3, <2>5, <2>6 DEF IInv
<1>6. CASE /\ controller.state # "playing"
           /\ controller' =
                [controller EXCEPT !.callback = TRUE,
                   !.pending = IF controller.state = "seeking" /\ controller.target = time
                               THEN NoTime ELSE time]
           /\ work' = work
  <2>1. /\ controller'.state = controller.state /\ controller'.target = controller.target
        /\ controller'.callback = TRUE
        /\ controller'.pending = IF controller.state = "seeking" /\ controller.target = time
                                  THEN NoTime ELSE time
    BY <1>1, <1>6, ControllerTyped
  <2>2. TypeOK'
    <3>1. work' \in {"none", "start", "seek"}
      BY <1>1, <1>6 DEF TypeOK
    <3> QED BY <1>1, <1>4, <1>6, <3>1, ControllerTyped
  <2>3. OneWorkAtATime'
    BY <1>1, <1>2, <1>6, <2>1 DEF IInv, OneWorkAtATime, load_vars
  <2>4. SeekingIsTheLastSeek'
    BY <1>1, <1>6, <2>1, ControllerTyped DEF SeekingIsTheLastSeek
  <2>5. SeekingIsAwaited'
    BY <1>1, <2>1 DEF SeekingIsAwaited
  <2> QED BY <1>2, <1>3, <2>2, <2>3, <2>4, <2>5 DEF IInv
<1> QED BY <1>1, <1>5, <1>6 DEF ControllerSeek
-----------------------------------------------------------------------------
\* What is left of the loads and the queue when the main thread takes a report
\* that starts nothing.
LEMMA ReportTaken ==
  ASSUME IInv, main_tasks # << >>, main_tasks' = Tail(main_tasks), UNCHANGED load_vars
  PROVE  /\ OneLoad'
         /\ main_tasks' \in Seq(Tasks(Len(sources)))
         /\ \A i, j \in Statuses' : i = j
         /\ Head(main_tasks).kind = "status" => Statuses # {} /\ Statuses' = {}
         /\ Statuses = {} => Statuses' = {}
<1>1. /\ main_tasks \in Seq(Tasks(Len(sources))) /\ Len(sources) \in Nat
  BY SourcesTyped DEF IInv
<1>2. /\ main_tasks' \in Seq(Tasks(Len(sources)))
      /\ \A i \in Statuses' : i \in Nat \ {0} /\ i + 1 \in Statuses
      /\ \A i \in Successes' : i \in Nat \ {0} /\ i + 1 \in Successes
      /\ Head(main_tasks).kind = "status" => 1 \in Statuses
  BY <1>1, Taken
<1>3. \A i, j \in Statuses : i = j
  BY DEF IInv, OneWorkAtATime
<1>4. \A i, j \in Successes : i = j
  BY DEF IInv, OneLoad
<1>5. /\ \A i, j \in Statuses' : i = j
      /\ 1 \in Statuses => Statuses' = {}
      /\ Statuses = {} => Statuses' = {}
  BY <1>2, <1>3, TakenAlone
<1>6. /\ \A i, j \in Successes' : i = j
      /\ Successes = {} => Successes' = {}
  BY <1>2, <1>4, TakenAlone
<1>7. OneLoad'
  BY <1>6 DEF IInv, OneLoad, LastReady, load_vars
<1> QED BY <1>2, <1>5, <1>7

LEMMA DataSourceInitializedKeepsIInv ==
  ASSUME IInv, DataSourceInitialized
  PROVE  IInv'
<1>1. /\ TypeOK /\ main_tasks # << >> /\ Head(main_tasks).kind = "initialized"
      /\ main_tasks' = Tail(main_tasks)
      /\ UNCHANGED <<sources, data_source, resource_source>>
      /\ UNCHANGED <<player_vars, pipeline_rate, media_vars, seek_vars>>
  BY DEF IInv, DataSourceInitialized, IsNext
<1>2. CASE ~Head(main_tasks).success
  <2>1. UNCHANGED load_vars /\ UNCHANGED <<controller, work>>
    BY <1>1, <1>2 DEF DataSourceInitialized, load_vars
  <2>2. /\ OneLoad' /\ main_tasks' \in Seq(Tasks(Len(sources)))
        /\ \A i, j \in Statuses' : i = j
        /\ Statuses = {} => Statuses' = {}
    BY <1>1, <2>1, ReportTaken
  <2>3. TypeOK'
    BY <1>1, <2>1, <2>2 DEF TypeOK, Tasks, load_vars, player_vars, media_vars, seek_vars
  <2>4. OneWorkAtATime'
    BY <2>1, <2>2 DEF IInv, OneWorkAtATime, load_vars
  <2>5. SeekingIsTheLastSeek' /\ PausedRate' /\ SeekingIsAwaited' /\ PausedTimeNotAhead'
    BY <1>1, <2>1 DEF IInv, SeekingIsTheLastSeek, PausedRate, SeekingIsAwaited, PausedTimeNotAhead,
                      player_vars, media_vars, seek_vars
  <2> QED BY <2>2, <2>3, <2>4, <2>5 DEF IInv
<1>3. CASE Head(main_tasks).success
  <2>1. /\ demuxer' = IF data_source # None THEN data_source ELSE resource_source
        /\ starts' = starts + 1 /\ work' = "start"
        /\ controller' = [controller EXCEPT !.state = "starting", !.callback = TRUE]
    BY <1>3 DEF DataSourceInitialized, StartPipeline
  <2>2. /\ main_tasks' \in Seq(Tasks(Len(sources))) /\ 1 \in Successes
        /\ \A i \in Statuses' : i \in Nat \ {0} /\ i + 1 \in Statuses
        /\ \A i \in Successes' : i \in Nat \ {0} /\ i + 1 \in Successes
    BY <1>1, <1>3, SourcesTyped, Taken
  <2>3. starts = 0 /\ LastReady /\ controller.state = "created"
    BY <2>2 DEF IInv, OneLoad, OneWorkAtATime
  <2>4. Statuses' = {} /\ Successes' = {}
    <3>1. Statuses = {} /\ \A i, j \in Successes : i = j
      BY <2>3 DEF IInv, OneLoad, OneWorkAtATime
    <3> QED BY <2>2, <3>1, TakenAlone
  <2>5. /\ controller'.state = "starting" /\ controller'.callback = TRUE
        /\ controller'.pending = controller.pending
        /\ controller' \in [state : {"created", "starting", "playing", "seeking"}, target : Times,
                             pending : Times \cup {NoTime}, callback : BOOLEAN]
    BY <1>1, <2>1, ControllerTyped
  <2>6. TypeOK'
    <3>1. demuxer' \in 0 .. Len(sources) /\ starts' \in Nat
      BY <1>1, <2>1 DEF TypeOK
    <3> QED BY <1>1, <2>1, <2>2, <2>5, <3>1 DEF TypeOK, Tasks, player_vars, media_vars, seek_vars
  <2>7. OneLoad'
    BY <1>1, <2>1, <2>3, <2>4 DEF IInv, OneLoad, LastReady
  <2>8. OneWorkAtATime'
    BY <2>1, <2>3, <2>4, <2>5 DEF OneWorkAtATime
  <2>9. SeekingIsTheLastSeek' /\ SeekingIsAwaited'
    BY <1>1, <2>3, <2>5 DEF IInv, SeekingIsTheLastSeek, SeekingIsAwaited, player_vars, seek_vars
  <2>10. PausedRate' /\ PausedTimeNotAhead'
    BY <1>1 DEF IInv, PausedRate, PausedTimeNotAhead, player_vars, media_vars
  <2> QED BY <2>6, <2>7, <2>8, <2>9, <2>10 DEF IInv
<1> QED BY <1>2, <1>3

LEMMA OnPipelineStatusKeepsIInv ==
  ASSUME IInv, OnPipelineStatus
  PROVE  IInv'
<1>1. /\ TypeOK /\ main_tasks # << >> /\ Head(main_tasks).kind = "status"
      /\ main_tasks' = Tail(main_tasks) /\ UNCHANGED load_vars
      /\ UNCHANGED <<pipeline_rate, media_vars, seek_vars>>
  BY DEF IInv, OnPipelineStatus, IsNext
<1>2. /\ OneLoad' /\ main_tasks' \in Seq(Tasks(Len(sources)))
      /\ Statuses # {} /\ Statuses' = {}
  BY <1>1, ReportTaken
<1>3. work = "none" /\ controller.state \in {"starting", "seeking"} /\ starts # 0
  BY <1>2 DEF IInv, OneWorkAtATime
<1>4. CASE /\ controller.pending # NoTime
           /\ controller' = [controller EXCEPT !.state = "seeking", !.target = controller.pending,
                                               !.pending = NoTime]
           /\ work' = "seek"
           /\ UNCHANGED player_vars
  <2>1. /\ controller'.state = "seeking" /\ controller'.target = controller.pending
        /\ controller'.pending = NoTime /\ controller'.callback = controller.callback
        /\ controller' \in [state : {"created", "starting", "playing", "seeking"}, target : Times,
                             pending : Times \cup {NoTime}, callback : BOOLEAN]
    BY <1>1, <1>4, ControllerTyped
  <2>2. seeking /\ controller.pending = asked
    BY <1>4 DEF IInv, SeekingIsTheLastSeek
  <2>3. TypeOK'
    BY <1>1, <1>2, <1>4, <2>1 DEF TypeOK, Tasks, load_vars, player_vars, media_vars, seek_vars
  <2>4. OneWorkAtATime'
    BY <1>1, <1>2, <1>3, <1>4, <2>1 DEF OneWorkAtATime, load_vars
  <2>5. SeekingIsTheLastSeek' /\ SeekingIsAwaited'
    BY <1>1, <1>4, <2>1, <2>2 DEF IInv, SeekingIsTheLastSeek, SeekingIsAwaited, player_vars, seek_vars
  <2>6. PausedRate' /\ PausedTimeNotAhead'
    BY <1>1, <1>4 DEF IInv, PausedRate, PausedTimeNotAhead, player_vars, media_vars
  <2> QED BY <1>2, <2>3, <2>4, <2>5, <2>6 DEF IInv
<1>5. CASE /\ controller.pending = NoTime
           /\ controller' = [controller EXCEPT !.state = "playing", !.callback = FALSE]
           /\ IF controller.callback THEN OnPipelineSeeked ELSE UNCHANGED <<seeking, paused_time>>
           /\ UNCHANGED <<playback_rate, paused, ended, work>>
  <2>1. /\ controller'.state = "playing" /\ controller'.callback = FALSE
        /\ controller'.pending = NoTime
        /\ controller' \in [state : {"created", "starting", "playing", "seeking"}, target : Times,
                             pending : Times \cup {NoTime}, callback : BOOLEAN]
    BY <1>1, <1>5, ControllerTyped
  <2>2. seeking' = FALSE
    BY <1>5 DEF IInv, SeekingIsAwaited, OnPipelineSeeked, TypeOK
  <2>3. \/ paused_time' = IF paused THEN position ELSE paused_time
        \/ ~seeking /\ paused_time' = paused_time
    BY <1>5 DEF IInv, SeekingIsAwaited, OnPipelineSeeked
  <2>4. TypeOK'
    <3>1. paused_time' \in Times
      BY <1>1, <2>3 DEF TypeOK
    <3> QED BY <1>1, <1>2, <1>5, <2>1, <2>2, <3>1 DEF TypeOK, Tasks, load_vars, media_vars, seek_vars
  <2>5. OneWorkAtATime'
    BY <1>1, <1>2, <1>3, <1>5, <2>1 DEF OneWorkAtATime, load_vars
  <2>6. SeekingIsTheLastSeek' /\ SeekingIsAwaited'
    BY <2>1, <2>2 DEF SeekingIsTheLastSeek, SeekingIsAwaited
  <2>7. PausedTimeNotAhead'
    <3>1. position \in Nat /\ position' = position
      BY <1>1, ConstantTypes DEF TypeOK, Times, media_vars
    <3> QED BY <1>5, <2>3, <3>1 DEF IInv, PausedTimeNotAhead
  <2>8. PausedRate'
    BY <1>1, <1>5 DEF IInv, PausedRate
  <2> QED BY <1>2, <2>4, <2>5, <2>6, <2>7, <2>8 DEF IInv
<1> QED BY <1>4, <1>5 DEF OnPipelineStatus

LEMMA OtherReportsKeepIInv ==
  ASSUME IInv, OnEnded \/ OnError
  PROVE  IInv'
<1>1. /\ TypeOK /\ main_tasks # << >> /\ main_tasks' = Tail(main_tasks) /\ UNCHANGED load_vars
      /\ UNCHANGED <<playback_rate, paused, paused_time, seeking, controller, pipeline_rate, work>>
      /\ UNCHANGED <<media_vars, seek_vars>>
      /\ ended' \in BOOLEAN /\ (ended => ended')
  <2>1. CASE OnEnded
    BY <2>1 DEF IInv, OnEnded, IsNext
  <2>2. CASE OnError
    <3>1. UNCHANGED player_vars /\ ended \in BOOLEAN
      BY <2>2 DEF OnError, IInv, TypeOK
    <3> QED BY <2>2, <3>1 DEF IInv, OnError, IsNext, player_vars
  <2> QED BY <2>1, <2>2
<1>2. /\ OneLoad' /\ main_tasks' \in Seq(Tasks(Len(sources)))
      /\ \A i, j \in Statuses' : i = j
      /\ Statuses = {} => Statuses' = {}
  BY <1>1, ReportTaken
<1>3. TypeOK'
  BY <1>1, <1>2 DEF TypeOK, Tasks, load_vars, media_vars, seek_vars
<1>4. OneWorkAtATime'
  BY <1>1, <1>2 DEF IInv, OneWorkAtATime, load_vars
<1>5. SeekingIsTheLastSeek' /\ SeekingIsAwaited' /\ PausedRate'
  BY <1>1 DEF IInv, SeekingIsTheLastSeek, SeekingIsAwaited, PausedRate, seek_vars
<1>6. PausedTimeNotAhead'
  BY <1>1 DEF IInv, PausedTimeNotAhead, media_vars
<1> QED BY <1>2, <1>3, <1>4, <1>5, <1>6 DEF IInv
-----------------------------------------------------------------------------
\* The media thread changes nothing of the main thread's but its queue.
LEMMA MediaFrame ==
  ASSUME IInv, UNCHANGED <<load_vars, player_vars, controller, pipeline_rate, seek_vars>>,
         Successes' = Successes
  PROVE  OneLoad' /\ SeekingIsTheLastSeek' /\ SeekingIsAwaited' /\ PausedRate'
BY DEF IInv, OneLoad, LastReady, SeekingIsTheLastSeek, SeekingIsAwaited, PausedRate,
       load_vars, player_vars, seek_vars

LEMMA ReportTasks ==
  ASSUME NEW kind \in {"status", "ended", "error"}, NEW loads \in Nat
  PROVE  Task(kind) \in Tasks(loads) /\ Task(kind).kind = kind
BY DEF Task, Tasks

LEMMA WorkDoneKeepsIInv ==
  ASSUME IInv, WorkDone
  PROVE  IInv'
<1>1. /\ TypeOK /\ work # "none" /\ work' = "none"
      /\ position' = IF work = "seek" THEN controller.target ELSE position
      /\ end_reported' = FALSE
      /\ main_tasks' = Append(main_tasks, Task("status"))
      /\ UNCHANGED <<load_vars, player_vars, controller, pipeline_rate, seek_vars>>
      /\ UNCHANGED <<media_rate, failed>>
  BY DEF IInv, WorkDone
<1>2. /\ main_tasks' \in Seq(Tasks(Len(sources))) /\ Successes' = Successes
      /\ Statuses' = Statuses \cup {Len(main_tasks) + 1}
  <2>1. Task("status") \in Tasks(Len(sources)) /\ Task("status").kind = "status"
    BY <1>1, SourcesTyped, ReportTasks
  <2> QED BY <1>1, <2>1, SourcesTyped, Posted
<1>3. OneLoad' /\ SeekingIsTheLastSeek' /\ SeekingIsAwaited' /\ PausedRate'
  BY <1>1, <1>2, MediaFrame
<1>4. TypeOK'
  <2>1. position' \in Times
    BY <1>1, ControllerTyped DEF TypeOK
  <2> QED BY <1>1, <1>2, <2>1 DEF TypeOK, Tasks, load_vars, player_vars, seek_vars
<1>5. OneWorkAtATime'
  <2>1. Statuses = {}
    BY <1>1 DEF IInv, OneWorkAtATime
  <2>2. controller.state \in {"starting", "seeking"}
    BY <1>1 DEF IInv, OneWorkAtATime, TypeOK
  <2> QED BY <1>1, <1>2, <2>1, <2>2 DEF IInv, OneWorkAtATime, load_vars
<1>6. PausedTimeNotAhead'
  <2>1. work = "seek" => seeking
    BY DEF IInv, OneWorkAtATime, SeekingIsTheLastSeek
  <2> QED BY <1>1, <2>1 DEF IInv, PausedTimeNotAhead, player_vars
<1> QED BY <1>3, <1>4, <1>5, <1>6 DEF IInv

LEMMA RateChangesKeepsIInv ==
  ASSUME IInv, RateChanges
  PROVE  IInv'
<1>1. /\ TypeOK /\ media_rate' = pipeline_rate /\ main_tasks' = main_tasks
      /\ UNCHANGED <<load_vars, player_vars, controller, pipeline_rate, seek_vars>>
      /\ UNCHANGED <<work, position, end_reported, failed>>
  BY DEF IInv, RateChanges
<1>2. Successes' = Successes /\ Statuses' = Statuses
  BY <1>1 DEF Successes, Statuses
<1>3. OneLoad' /\ SeekingIsTheLastSeek' /\ SeekingIsAwaited' /\ PausedRate'
  BY <1>1, <1>2, MediaFrame
<1>4. TypeOK'
  BY <1>1 DEF TypeOK, load_vars, player_vars, seek_vars
<1>5. OneWorkAtATime' /\ PausedTimeNotAhead'
  BY <1>1, <1>2 DEF IInv, OneWorkAtATime, PausedTimeNotAhead, load_vars, player_vars
<1> QED BY <1>3, <1>4, <1>5 DEF IInv

LEMMA PlayOnOrFailKeepsIInv ==
  ASSUME IInv, PlayOn \/ Fail
  PROVE  IInv'
<1>1. /\ TypeOK /\ UNCHANGED <<load_vars, player_vars, controller, pipeline_rate, seek_vars>>
      /\ UNCHANGED <<work, media_rate>>
      /\ {end_reported', failed'} \subseteq BOOLEAN
      /\ \/ position' = position
         \/ position < Duration /\ position' = position + 1
      /\ \/ main_tasks' = main_tasks
         \/ \E kind \in {"ended", "error"} : main_tasks' = Append(main_tasks, Task(kind))
  <2>1. CASE PlayOn
    BY <2>1 DEF IInv, PlayOn, TypeOK
  <2>2. CASE Fail
    BY <2>2 DEF IInv, Fail, TypeOK
  <2> QED BY <2>1, <2>2
<1>2. /\ main_tasks' \in Seq(Tasks(Len(sources)))
      /\ Successes' = Successes /\ Statuses' = Statuses
  <2>1. CASE main_tasks' = main_tasks
    BY <1>1, <2>1, SourcesTyped DEF Successes, Statuses
  <2>2. ASSUME NEW kind \in {"ended", "error"}, main_tasks' = Append(main_tasks, Task(kind))
        PROVE  /\ main_tasks' \in Seq(Tasks(Len(sources)))
               /\ Successes' = Successes /\ Statuses' = Statuses
    <3>1. Task(kind) \in Tasks(Len(sources)) /\ Task(kind).kind = kind
      BY <1>1, SourcesTyped, ReportTasks
    <3> QED BY <1>1, <2>2, <3>1, SourcesTyped, Posted
  <2> QED BY <1>1, <2>1, <2>2
<1>3. OneLoad' /\ SeekingIsTheLastSeek' /\ SeekingIsAwaited' /\ PausedRate'
  BY <1>1, <1>2, MediaFrame
<1>4. position \in Nat /\ position' \in Times /\ position' >= position
  BY <1>1, ConstantTypes DEF TypeOK, Times
<1>5. TypeOK'
  BY <1>1, <1>2, <1>4 DEF TypeOK, Tasks, load_vars, player_vars, seek_vars
<1>6. OneWorkAtATime'
  BY <1>1, <1>2 DEF IInv, OneWorkAtATime, load_vars
<1>7. PausedTimeNotAhead'
  <2>1. UNCHANGED <<paused, seeking, ended, paused_time>>
    BY <1>1 DEF player_vars
  <2>2. paused_time \in Nat /\ position \in Nat /\ position' \in Nat
    BY <1>1, <1>4, ConstantTypes DEF TypeOK, Times
  <2>3. paused /\ ~seeking /\ ~ended => paused_time <= position'
    BY <1>4, <2>2 DEF IInv, PausedTimeNotAhead
  <2> QED BY <2>1, <2>3 DEF PausedTimeNotAhead
<1> QED BY <1>3, <1>5, <1>6, <1>7 DEF IInv

LEMMA StepKeepsIInv ==
  ASSUME IInv, [Next]_vars, ~Impatient
  PROVE  IInv'
<1>1. ASSUME LoadUrl \/ LoadFile \/ UrlInitialized \/ PolledForEver PROVE IInv'
  BY <1>1, LoadUrlKeepsIInv, LoadFileKeepsIInv, UrlInitializedKeepsIInv, PolledForEverKeepsIInv
<1>2. ASSUME Control PROVE IInv'
  BY <1>2, PlayPauseKeepIInv, SetRateKeepsIInv, DoSeekKeepsIInv DEF Control
<1>3. ASSUME Report PROVE IInv'
  BY <1>3, DataSourceInitializedKeepsIInv, OnPipelineStatusKeepsIInv, OtherReportsKeepIInv DEF Report
<1>4. ASSUME Media PROVE IInv'
  BY <1>4, WorkDoneKeepsIInv, RateChangesKeepsIInv, PlayOnOrFailKeepsIInv DEF Media
<1>5. CASE UNCHANGED vars
  <2>1. /\ UNCHANGED <<load_vars, player_vars, controller, pipeline_rate, seek_vars>>
        /\ UNCHANGED <<work, media_vars, main_tasks>>
    BY <1>5 DEF vars
  <2>2. Successes' = Successes /\ Statuses' = Statuses
    BY <2>1 DEF Successes, Statuses
  <2>3. TypeOK'
    BY <2>1 DEF IInv, TypeOK, load_vars, player_vars, media_vars, seek_vars
  <2>4. OneWorkAtATime' /\ PausedTimeNotAhead'
    BY <2>1, <2>2 DEF IInv, OneWorkAtATime, PausedTimeNotAhead, load_vars, player_vars, media_vars
  <2> QED BY <2>1, <2>2, <2>3, <2>4, MediaFrame DEF IInv
<1> QED BY <1>1, <1>2, <1>3, <1>4, <1>5 DEF Next

LEMMA AlwaysIInv ==
  ASSUME ~Impatient
  PROVE  Spec => []IInv
<1>1. IInv /\ [Next]_vars => IInv'
  BY StepKeepsIInv
<1> QED BY InitIInv, <1>1, PTL DEF Spec
-----------------------------------------------------------------------------
\* What holds of an impatient user as well.
Controllers ==
  [state : {"created", "starting", "playing", "seeking"}, target : Times,
   pending : Times \cup {NoTime}, callback : BOOLEAN]

AnyUserInv ==
  /\ controller \in Controllers
  /\ seeking \in BOOLEAN
  /\ controller.pending # NoTime => seeking
  /\ SeekingIsAwaited
  /\ PausedRate

LEMMA InitAnyUserInv == Init => AnyUserInv
<1> SUFFICES ASSUME Init PROVE AnyUserInv
  OBVIOUS
<1>1. TypeOK /\ SeekingIsAwaited /\ PausedRate
  BY InitIInv DEF IInv
<1>2. controller.pending = NoTime /\ seeking = FALSE
  BY DEF Init
<1> QED BY <1>1, <1>2 DEF AnyUserInv, Controllers, TypeOK

LEMMA StepKeepsAnyUserInv ==
  ASSUME AnyUserInv, [Next]_vars
  PROVE  AnyUserInv'
<1> USE DEF AnyUserInv, Controllers, SeekingIsAwaited, PausedRate
<1>1. CASE UNCHANGED <<controller, seeking, paused, pipeline_rate>>
  BY <1>1
<1>2. CASE Play \/ Pause \/ \E r \in Rates : SetRate(r)
  BY <1>2 DEF Play, Pause, SetRate
<1>3. ASSUME NEW time \in Times, DoSeek(time) PROVE AnyUserInv'
  <2>1. /\ seeking' = TRUE /\ UNCHANGED <<paused, pipeline_rate>>
        /\ \/ controller' = [controller EXCEPT !.state = "seeking", !.target = time,
                                                !.callback = TRUE]
           \/ \E pending \in {NoTime, time} :
                controller' = [controller EXCEPT !.callback = TRUE, !.pending = pending]
    BY <1>3 DEF DoSeek, ControllerSeek
  <2>2. controller'.callback = TRUE /\ controller' \in Controllers
    <3>1. CASE controller' = [controller EXCEPT !.state = "seeking", !.target = time,
                                                !.callback = TRUE]
      BY <3>1
    <3>2. ASSUME NEW pending \in {NoTime, time},
                 controller' = [controller EXCEPT !.callback = TRUE, !.pending = pending]
          PROVE  controller'.callback = TRUE /\ controller' \in Controllers
      <4>1. pending \in Times \cup {NoTime}
        OBVIOUS
      <4> QED BY <3>2, <4>1
    <3> QED BY <2>1, <3>1, <3>2
  <2> QED BY <2>1, <2>2
<1>4. CASE DataSourceInitialized
  <2>1. UNCHANGED <<seeking, paused, pipeline_rate>>
    BY <1>4 DEF DataSourceInitialized, player_vars
  <2>2. CASE controller' = controller
    BY <2>1, <2>2
  <2>3. CASE controller' = [controller EXCEPT !.state = "starting", !.callback = TRUE]
    BY <2>1, <2>3
  <2> QED BY <1>4, <2>2, <2>3 DEF DataSourceInitialized, StartPipeline
<1>5. CASE OnPipelineStatus
  <2>1. UNCHANGED pipeline_rate
    BY <1>5 DEF OnPipelineStatus
  <2>2. CASE /\ controller.pending # NoTime
             /\ controller' = [controller EXCEPT !.state = "seeking", !.target = controller.pending,
                                                 !.pending = NoTime]
             /\ UNCHANGED player_vars
    BY <2>1, <2>2 DEF player_vars
  <2>3. CASE /\ controller.pending = NoTime
             /\ controller' = [controller EXCEPT !.state = "playing", !.callback = FALSE]
             /\ IF controller.callback THEN OnPipelineSeeked ELSE UNCHANGED <<seeking, paused_time>>
             /\ UNCHANGED paused
    <3>1. controller'.state = "playing" /\ controller'.callback = FALSE /\ controller'.pending = NoTime
      BY <2>3
    <3>2. seeking' = FALSE
      BY <2>3 DEF OnPipelineSeeked
    <3> QED BY <2>1, <2>3, <3>1, <3>2
  <2> QED BY <1>5, <2>2, <2>3 DEF OnPipelineStatus
<1>6. CASE \/ LoadUrl \/ LoadFile \/ UrlInitialized \/ PolledForEver
           \/ OnEnded \/ OnError \/ Media \/ UNCHANGED vars
  BY <1>1, <1>6 DEF LoadUrl, LoadFile, UrlInitialized, PolledForEver, OnEnded, OnError, Media,
                    WorkDone, RateChanges, PlayOn, Fail, vars, player_vars
<1> QED BY <1>2, <1>3, <1>4, <1>5, <1>6 DEF Next, Control, Report

LEMMA AlwaysAnyUserInv == Spec => []AnyUserInv
<1>1. AnyUserInv /\ [Next]_vars => AnyUserInv'
  BY StepKeepsAnyUserInv
<1> QED BY InitAnyUserInv, <1>1, PTL DEF Spec
-----------------------------------------------------------------------------
\* seeking_ and the start are what the controller has still to report, however
\* seeks, reports and the end of the media interleave.
THEOREM ReportsAreAwaited == Spec => []SeekingIsAwaited
<1>1. AnyUserInv => SeekingIsAwaited
  BY DEF AnyUserInv
<1> QED BY AlwaysAnyUserInv, <1>1, PTL

\* paused_time_ of a paused player is not ahead of the media (Pause, DoSeek and
\* OnPipelineSeeked each set it).
THEOREM PausedTimeIsPast ==
  ASSUME ~Impatient
  PROVE  Spec => []PausedTimeNotAhead
<1>1. IInv => PausedTimeNotAhead
  BY DEF IInv
<1> QED BY AlwaysIInv, <1>1, PTL

\* Once its rate is in force, a paused player's media time moves for a seek
\* alone, and to where the seek goes.
THEOREM PausedPlayersHold == Spec => PausedHolds
<1>1. ASSUME AnyUserInv, [Next]_vars
      PROVE  [paused /\ media_rate = pipeline_rate /\ position' # position
                => work = "seek" /\ position' = controller.target]_vars
  <2> SUFFICES ASSUME Next, paused, media_rate = pipeline_rate, position' # position
               PROVE  work = "seek" /\ position' = controller.target
    BY <1>1
  <2>1. media_rate = 0
    BY <1>1 DEF AnyUserInv, PausedRate
  <2>2. WorkDone \/ PlayOn
    BY DEF Next, Control, Report, Media, LoadUrl, LoadFile, UrlInitialized, PolledForEver,
           Play, Pause, SetRate, DoSeek,
           DataSourceInitialized, OnPipelineStatus, OnEnded, OnError, RateChanges, Fail, media_vars
  <2>3. ~PlayOn
    BY <2>1 DEF PlayOn, Running
  <2> QED BY <2>2, <2>3 DEF WorkDone
<1>2. AnyUserInv /\ [Next]_vars
        => [paused /\ media_rate = pipeline_rate /\ position' # position
              => work = "seek" /\ position' = controller.target]_vars
  BY <1>1
<1> QED BY AlwaysAnyUserInv, <1>2, PTL DEF Spec, PausedHolds

\* When seeking_ ends, the controller has carried out the seek that was asked
\* for last, and there is none behind it (OnPipelineSeeked, after any number of
\* calls of Seek).
THEOREM LastSeekIsCarriedOut ==
  ASSUME ~Impatient
  PROVE  Spec => LastSeekWins
<1>1. ASSUME IInv, [Next]_vars
      PROVE  [seeking /\ ~seeking' => controller'.target = asked /\ controller'.pending = NoTime]_vars
  <2> SUFFICES ASSUME Next, seeking, ~seeking'
               PROVE  controller'.target = asked /\ controller'.pending = NoTime
    BY <1>1
  <2>1. OnPipelineStatus
    BY DEF Next, Control, Report, Media, LoadUrl, LoadFile, UrlInitialized, PolledForEver,
           Play, Pause, SetRate, DoSeek,
           DataSourceInitialized, OnEnded, OnError, WorkDone, RateChanges, PlayOn, Fail, player_vars
  <2>2. /\ controller.pending = NoTime
        /\ controller' = [controller EXCEPT !.state = "playing", !.callback = FALSE]
    BY <2>1 DEF OnPipelineStatus, player_vars
  <2>3. controller'.target = controller.target /\ controller'.pending = NoTime
    BY <1>1, <2>2, ControllerTyped DEF IInv
  <2>4. controller.target = asked
    BY <1>1, <2>2 DEF IInv, SeekingIsTheLastSeek
  <2> QED BY <2>3, <2>4
<1>2. IInv /\ [Next]_vars
        => [seeking /\ ~seeking' => controller'.target = asked /\ controller'.pending = NoTime]_vars
  BY <1>1
<1> QED BY AlwaysIInv, <1>2, PTL DEF Spec, LastSeekWins

\* The variables keep their types: the demuxer's and the player's sources are
\* loads that were made, rates and times stay in their ranges.
THEOREM TypeCorrect ==
  ASSUME ~Impatient
  PROVE  Spec => []TypeOK
<1>1. IInv => TypeOK
  BY DEF IInv
<1> QED BY AlwaysIInv, <1>1, PTL
=============================================================================
