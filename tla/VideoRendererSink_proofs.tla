----------------------- MODULE VideoRendererSink_proofs -----------------------
(***************************************************************************)
(* Proofs about VideoRendererSink, for any frames, any number of starts    *)
(* and any length of the queue, with the media thread and the compositor   *)
(* thread apart or the same.                                               *)
(***************************************************************************)
EXTENDS VideoRendererSink, SequenceTheorems, TLAPS

TaskKinds == {"start", "stop", "client", "no client"}

\* Between the parts of a compositor task the sink's state stands still: an
\* update that has set rendering_ still finds it set, and a timer's task finds
\* the client as it was.
TaskInProgress ==
  /\ step.pc # "idle" /\ step.started => rendering
  /\ step.pc # "idle" /\ ~step.started => client_rendering = (client /\ rendering)

IInv == TypeOK /\ RenderingFollowsCallback /\ ClientInStep /\ RenderingGoesOn /\ TaskInProgress

LEMMA InitIInv == Init => IInv
<1> SUFFICES ASSUME Init PROVE IInv
  OBVIOUS
<1> USE FrameAssumption DEF Init
<1>1. TypeOK
  <2>1. starts \in 0 .. MaxStarts
    OBVIOUS
  <2>2. {callback, rendering, timer, new_background_frame, client, client_rendering} \subseteq BOOLEAN
    OBVIOUS
  <2> QED BY <2>1, <2>2 DEF TypeOK
<1>2. Updates = {}
  BY DEF Updates
<1>3. RenderingFollowsCallback /\ ClientInStep /\ RenderingGoesOn /\ TaskInProgress
  BY <1>2 DEF RenderingFollowsCallback, ClientInStep, RenderingGoesOn, TaskInProgress, Idle
<1> QED BY <1>1, <1>3 DEF IInv

\* A task goes to the end of the queue: it is the last update, if it is one.
LEMMA PostedIsLast ==
  ASSUME NEW task \in TaskKinds, tasks \in Seq(TaskKinds), tasks' = Append(tasks, task)
  PROVE  /\ tasks' \in Seq(TaskKinds)
         /\ Updates' = IF task \in {"start", "stop"} THEN Updates \cup {Len(tasks) + 1} ELSE Updates
         /\ \A i \in Updates : i < Len(tasks) + 1 /\ tasks'[i] = tasks[i]
         /\ Len(tasks) \in Nat /\ tasks'[Len(tasks) + 1] = task
<1>1. /\ tasks' \in Seq(TaskKinds) /\ Len(tasks') = Len(tasks) + 1 /\ Len(tasks) \in Nat
      /\ \A i \in 1 .. Len(tasks) : tasks'[i] = tasks[i]
      /\ tasks'[Len(tasks) + 1] = task
  BY AppendProperties
<1>2. DOMAIN tasks = 1 .. Len(tasks) /\ DOMAIN tasks' = 1 .. Len(tasks) + 1
  BY <1>1
<1> QED BY <1>1, <1>2 DEF Updates

\* The queue moves up when its first task is run, and the updates with it.
LEMMA TakenFromFront ==
  ASSUME tasks \in Seq(TaskKinds), tasks # << >>, tasks' = Tail(tasks)
  PROVE  /\ tasks' \in Seq(TaskKinds)
         /\ \A i \in Nat : i \in Updates' <=> i # 0 /\ i + 1 \in Updates
         /\ \A i \in Updates' : i \in Nat /\ tasks'[i] = tasks[i + 1]
         /\ \A i \in Updates : i \in Nat \ {0}
         /\ 1 \in Updates <=> Head(tasks) \in {"start", "stop"}
         /\ Head(tasks) = tasks[1]
<1>1. /\ tasks' \in Seq(TaskKinds) /\ Len(tasks') = Len(tasks) - 1 /\ Len(tasks) \in Nat \ {0}
      /\ \A i \in 1 .. Len(tasks') : tasks'[i] = tasks[i + 1]
      /\ Head(tasks) = tasks[1]
  BY HeadTailProperties, EmptySeq
<1>2. DOMAIN tasks = 1 .. Len(tasks) /\ DOMAIN tasks' = 1 .. Len(tasks) - 1
  BY <1>1
<1> QED BY <1>1, <1>2 DEF Updates

LEMMA StartKeepsIInv ==
  ASSUME IInv, Start
  PROVE  IInv'
<1> USE DEF IInv
<1>1. /\ callback' = TRUE /\ tasks' = Append(tasks, "start") /\ tasks \in Seq(TaskKinds)
      /\ starts' = starts + 1 /\ starts < MaxStarts
      /\ UNCHANGED <<step, rendering, timer, current_frame, new_background_frame,
                     client, client_rendering, seen>>
  BY DEF Start, TypeOK, TaskKinds
<1>2. /\ tasks' \in Seq(TaskKinds) /\ Updates' = Updates \cup {Len(tasks) + 1}
      /\ \A i \in Updates : i < Len(tasks) + 1 /\ tasks'[i] = tasks[i]
      /\ Len(tasks) \in Nat /\ tasks'[Len(tasks) + 1] = "start"
  BY <1>1, PostedIsLast DEF TaskKinds
<1>3. TypeOK'
  <2>1. starts' \in 0 .. MaxStarts
    <3>1. MaxStarts \in Nat
      BY FrameAssumption
    <3>2. starts \in 0 .. MaxStarts
      BY DEF TypeOK
    <3> QED BY <1>1, <3>1, <3>2
  <2> QED BY <1>1, <1>2, <2>1 DEF TypeOK, TaskKinds
<1>4. RenderingFollowsCallback'
  <2>1. \A i \in Updates' : i # Len(tasks) + 1 => i < Len(tasks) + 1 /\ i \in DOMAIN tasks
    BY <1>2 DEF Updates
  <2> SUFFICES ASSUME NEW last \in Updates', \A i \in Updates' : i <= last
               PROVE  last = Len(tasks) + 1
    BY <1>1, <1>2 DEF RenderingFollowsCallback
  <2> QED BY <1>1, <1>2, <2>1
<1>5. ClientInStep' /\ RenderingGoesOn' /\ TaskInProgress'
  BY <1>1, <1>2 DEF ClientInStep, RenderingGoesOn, TaskInProgress
<1> QED BY <1>3, <1>4, <1>5

LEMMA StopKeepsIInv ==
  ASSUME IInv, Stop
  PROVE  IInv'
<1> USE DEF IInv
<1>1. /\ callback' = FALSE /\ tasks' = Append(tasks, "stop") /\ tasks \in Seq(TaskKinds)
      /\ UNCHANGED <<step, rendering, timer, current_frame, new_background_frame,
                     client, client_rendering, seen, starts>>
  BY DEF Stop, TypeOK, TaskKinds
<1>2. /\ tasks' \in Seq(TaskKinds) /\ Updates' = Updates \cup {Len(tasks) + 1}
      /\ \A i \in Updates : i < Len(tasks) + 1 /\ tasks'[i] = tasks[i]
      /\ Len(tasks) \in Nat /\ tasks'[Len(tasks) + 1] = "stop"
  BY <1>1, PostedIsLast DEF TaskKinds
<1>3. TypeOK'
  BY <1>1, <1>2 DEF TypeOK, TaskKinds
<1>4. RenderingFollowsCallback'
  <2>1. \A i \in Updates' : i # Len(tasks) + 1 => i < Len(tasks) + 1 /\ i \in DOMAIN tasks
    BY <1>2 DEF Updates
  <2> SUFFICES ASSUME NEW last \in Updates', \A i \in Updates' : i <= last
               PROVE  last = Len(tasks) + 1
    BY <1>1, <1>2 DEF RenderingFollowsCallback
  <2> QED BY <1>1, <1>2, <2>1
<1>5. ClientInStep' /\ RenderingGoesOn' /\ TaskInProgress'
  BY <1>1, <1>2 DEF ClientInStep, RenderingGoesOn, TaskInProgress
<1> QED BY <1>3, <1>4, <1>5

LEMMA SetClientKeepsIInv ==
  ASSUME IInv, SetVideoRendererSinkClient
  PROVE  IInv'
<1> USE DEF IInv
<1>1. /\ tasks \in Seq(TaskKinds)
      /\ UNCHANGED <<callback, step, rendering, timer, current_frame, new_background_frame,
                     client, client_rendering, seen, starts>>
  BY DEF SetVideoRendererSinkClient, TypeOK, TaskKinds
<1>2. PICK task \in {"client", "no client"} : tasks' = Append(tasks, task)
  BY DEF SetVideoRendererSinkClient
<1>3. /\ tasks' \in Seq(TaskKinds) /\ Updates' = Updates
      /\ \A i \in Updates : tasks'[i] = tasks[i]
  BY <1>1, <1>2, PostedIsLast DEF TaskKinds
<1>4. TypeOK'
  BY <1>1, <1>3 DEF TypeOK, TaskKinds
<1>5. RenderingFollowsCallback'
  BY <1>1, <1>3 DEF RenderingFollowsCallback
<1>6. ClientInStep' /\ RenderingGoesOn' /\ TaskInProgress'
  BY <1>1, <1>3 DEF ClientInStep, RenderingGoesOn, TaskInProgress
<1> QED BY <1>4, <1>5, <1>6

LEMMA SetClientTaskKeepsIInv ==
  ASSUME IInv, SetClientTask
  PROVE  IInv'
<1> USE DEF IInv
<1>1. /\ step = Idle /\ tasks \in Seq(TaskKinds) /\ tasks # << >> /\ tasks' = Tail(tasks)
      /\ Head(tasks) \in {"client", "no client"}
      /\ client' = (Head(tasks) = "client") /\ client_rendering' = (client' /\ rendering)
      /\ seen' = NoFrame
      /\ UNCHANGED <<callback, step, rendering, timer, current_frame, new_background_frame, starts>>
  BY DEF SetClientTask, TypeOK, TaskKinds
<1>2. /\ tasks' \in Seq(TaskKinds)
      /\ \A i \in Nat : i \in Updates' <=> i # 0 /\ i + 1 \in Updates
      /\ \A i \in Updates' : i \in Nat /\ tasks'[i] = tasks[i + 1]
      /\ \A i \in Updates : i \in Nat \ {0}
      /\ 1 \notin Updates
  BY <1>1, TakenFromFront
<1>3. TypeOK'
  <2>1. {client', client_rendering'} \subseteq BOOLEAN
    BY <1>1
  <2> QED BY <1>1, <1>2, <2>1 DEF TypeOK, TaskKinds
<1>4. Updates' = {} => Updates = {}
  <2> SUFFICES ASSUME NEW i \in Updates PROVE Updates' # {}
    OBVIOUS
  <2>1. i - 1 \in Nat /\ i - 1 # 0 /\ (i - 1) + 1 = i
    BY <1>2
  <2> QED BY <1>2, <2>1
<1>5. RenderingFollowsCallback'
  <2>1. ASSUME NEW last \in Updates', \A i \in Updates' : i <= last
        PROVE  last + 1 \in Updates /\ \A i \in Updates : i <= last + 1
    <3>1. last \in Nat /\ last + 1 \in Updates
      BY <1>2
    <3>2. ASSUME NEW i \in Updates PROVE i <= last + 1
      <4>1. i - 1 \in Nat /\ i - 1 # 0 /\ (i - 1) + 1 = i
        BY <1>2
      <4>2. i - 1 \in Updates'
        BY <1>2, <4>1
      <4> QED BY <2>1, <3>1, <4>1, <4>2
    <3> QED BY <3>1, <3>2
  <2>2. Updates' = {} => callback' = rendering'
    BY <1>1, <1>4 DEF RenderingFollowsCallback
  <2>3. ASSUME NEW last \in Updates', \A i \in Updates' : i <= last
        PROVE  callback' = (tasks'[last] = "start")
    <3>1. callback = (tasks[last + 1] = "start")
      BY <2>1, <2>3 DEF RenderingFollowsCallback
    <3>2. tasks'[last] = tasks[last + 1] /\ callback' = callback
      BY <1>1, <1>2, <2>3
    <3> QED BY <3>1, <3>2
  <2> QED BY <2>2, <2>3 DEF RenderingFollowsCallback
<1>6. ClientInStep' /\ RenderingGoesOn' /\ TaskInProgress'
  BY <1>1, <1>4 DEF ClientInStep, RenderingGoesOn, TaskInProgress, Idle
<1> QED BY <1>3, <1>5, <1>6

LEMMA UpdateTaskKeepsIInv ==
  ASSUME IInv, OnRendererStateUpdate
  PROVE  IInv'
<1> USE DEF IInv
<1>1. /\ step = Idle /\ tasks \in Seq(TaskKinds) /\ tasks # << >> /\ tasks' = Tail(tasks)
      /\ \/ /\ Head(tasks) = "start" /\ rendering' = TRUE /\ step' = Render(TRUE)
            /\ client_rendering' = client_rendering
         \/ /\ Head(tasks) = "stop" /\ rendering' = FALSE /\ step' = step
            /\ client_rendering' = FALSE
      /\ UNCHANGED <<callback, timer, current_frame, new_background_frame, client, seen, starts>>
  BY DEF OnRendererStateUpdate, TypeOK, TaskKinds
<1>2. /\ tasks' \in Seq(TaskKinds)
      /\ \A i \in Nat : i \in Updates' <=> i # 0 /\ i + 1 \in Updates
      /\ \A i \in Updates' : i \in Nat /\ tasks'[i] = tasks[i + 1]
      /\ \A i \in Updates : i \in Nat \ {0}
      /\ 1 \in Updates /\ Head(tasks) = tasks[1]
  BY <1>1, TakenFromFront
<1>3. TypeOK'
  <2>1. step' \in {Idle} \cup [pc : {"render"}, started : BOOLEAN]
    <3>1. Render(TRUE) \in [pc : {"render"}, started : BOOLEAN]
      BY DEF Render
    <3> QED BY <1>1, <3>1
  <2>2. {rendering', client_rendering'} \subseteq BOOLEAN
    BY <1>1 DEF TypeOK
  <2> QED BY <1>1, <1>2, <2>1, <2>2 DEF TypeOK, TaskKinds
\* The update at work was the last one if there is none behind it.
<1>4. Updates' = {} => callback = rendering'
  <2> SUFFICES ASSUME Updates' = {} PROVE \A i \in Updates : i <= 1
    BY <1>1, <1>2 DEF RenderingFollowsCallback
  <2> SUFFICES ASSUME NEW i \in Updates, i # 1 PROVE FALSE
    BY <1>2
  <2>1. i - 1 \in Nat /\ i - 1 # 0 /\ (i - 1) + 1 = i
    BY <1>2
  <2> QED BY <1>2, <2>1
<1>5. RenderingFollowsCallback'
  <2>1. ASSUME NEW last \in Updates', \A i \in Updates' : i <= last
        PROVE  last + 1 \in Updates /\ \A i \in Updates : i <= last + 1
    <3>1. last \in Nat /\ last # 0 /\ last + 1 \in Updates
      BY <1>2
    <3>2. ASSUME NEW i \in Updates PROVE i <= last + 1
      <4>1. CASE i = 1
        BY <3>1, <4>1
      <4>2. CASE i # 1
        <5>1. i - 1 \in Nat /\ i - 1 # 0 /\ (i - 1) + 1 = i
          BY <1>2, <4>2
        <5>2. i - 1 \in Updates'
          BY <1>2, <5>1
        <5> QED BY <2>1, <3>1, <5>1, <5>2
      <4> QED BY <4>1, <4>2
    <3> QED BY <3>1, <3>2
  <2>2. ASSUME NEW last \in Updates', \A i \in Updates' : i <= last
        PROVE  callback' = (tasks'[last] = "start")
    <3>1. callback = (tasks[last + 1] = "start")
      BY <2>1, <2>2 DEF RenderingFollowsCallback
    <3>2. tasks'[last] = tasks[last + 1] /\ callback' = callback
      BY <1>1, <1>2, <2>2
    <3> QED BY <3>1, <3>2
  <2>3. Updates' = {} => callback' = rendering'
    BY <1>1, <1>4
  <2> QED BY <2>2, <2>3 DEF RenderingFollowsCallback
<1>6. ClientInStep' /\ RenderingGoesOn' /\ TaskInProgress'
  <2>1. CASE Head(tasks) = "start"
    <3>1. step'.pc = "render" /\ step'.started = TRUE /\ rendering' = TRUE
      BY <1>1, <2>1 DEF Render
    <3> QED BY <3>1 DEF ClientInStep, RenderingGoesOn, TaskInProgress, Idle
  <2>2. CASE Head(tasks) = "stop"
    <3>1. step'.pc = "idle" /\ rendering' = FALSE /\ client_rendering' = FALSE
      <4>1. step' = Idle /\ rendering' = FALSE /\ client_rendering' = FALSE
        BY <1>1, <2>2
      <4>2. Idle.pc = "idle"
        BY DEF Idle
      <4> QED BY <4>1, <4>2
    <3> QED BY <3>1 DEF ClientInStep, RenderingGoesOn, TaskInProgress
  <2> QED BY <1>1, <2>1, <2>2
<1> QED BY <1>3, <1>5, <1>6

LEMMA BackgroundRenderKeepsIInv ==
  ASSUME IInv, BackgroundRender
  PROVE  IInv'
<1> USE DEF IInv, BackgroundRender
<1>1. step' \in [pc : {"render"}, started : BOOLEAN] /\ step'.pc = "render" /\ step'.started = FALSE
  BY DEF Render
<1>2. TypeOK'
  BY <1>1 DEF TypeOK
<1>3. RenderingFollowsCallback'
  BY DEF RenderingFollowsCallback, Updates
<1>4. ClientInStep' /\ RenderingGoesOn' /\ TaskInProgress'
  BY <1>1 DEF ClientInStep, RenderingGoesOn, TaskInProgress, Idle
<1> QED BY <1>2, <1>3, <1>4

LEMMA CallRenderKeepsIInv ==
  ASSUME IInv, CallRender
  PROVE  IInv'
<1> USE DEF IInv
<1>1. step.pc = "render" /\ step.started \in BOOLEAN
  <2>1. step.pc = "render" /\ Idle.pc = "idle"
    BY DEF CallRender, Idle
  <2>2. step \in [pc : {"render"}, started : BOOLEAN]
                 \cup [pc : {"deliver"}, started : BOOLEAN, new : BOOLEAN]
    BY <2>1 DEF TypeOK
  <2> QED BY <2>1, <2>2
<1>2. /\ UNCHANGED <<callback, tasks, rendering, client, client_rendering, seen, starts>>
      /\ callback => timer' = TRUE
      /\ ~callback => timer' = timer
  BY DEF CallRender
<1>3. /\ current_frame' \in Frames \cup {NoFrame} /\ {new_background_frame', timer'} \subseteq BOOLEAN
      /\ \E new \in BOOLEAN : step' = Deliver(step.started, new)
  <2>1. CASE ~callback
    BY <2>1 DEF CallRender, TypeOK
  <2>2. CASE callback
    BY <2>2 DEF CallRender, TypeOK
  <2> QED BY <2>1, <2>2 DEF TypeOK
<1>4. /\ step' \in [pc : {"deliver"}, started : BOOLEAN, new : BOOLEAN]
      /\ step'.pc = "deliver" /\ step'.started = step.started
  BY <1>1, <1>3 DEF Deliver
<1>5. TypeOK'
  BY <1>2, <1>3, <1>4 DEF TypeOK
<1>6. RenderingFollowsCallback'
  BY <1>2 DEF RenderingFollowsCallback, Updates
<1>7. RenderingGoesOn'
  BY <1>2 DEF RenderingGoesOn
<1>8. ClientInStep' /\ TaskInProgress'
  BY <1>1, <1>2, <1>4 DEF ClientInStep, TaskInProgress, Idle
<1> QED BY <1>5, <1>6, <1>7, <1>8

LEMMA DidReceiveFrameKeepsIInv ==
  ASSUME IInv, DidReceiveFrame
  PROVE  IInv'
<1> USE DEF IInv
<1>1. /\ step.pc = "deliver" /\ step' = Idle
      /\ client_rendering' = IF step.started THEN client ELSE client_rendering
      /\ seen' \in {current_frame, seen}
      /\ UNCHANGED <<callback, tasks, rendering, timer, current_frame, new_background_frame,
                     client, starts>>
  BY DEF DidReceiveFrame
<1>2. TypeOK'
  BY <1>1 DEF TypeOK
<1>3. RenderingFollowsCallback'
  BY <1>1 DEF RenderingFollowsCallback, Updates
<1>4. ClientInStep' /\ RenderingGoesOn' /\ TaskInProgress'
  BY <1>1 DEF ClientInStep, RenderingGoesOn, TaskInProgress, Idle, Updates, TypeOK
<1> QED BY <1>2, <1>3, <1>4

LEMMA StepKeepsIInv ==
  ASSUME IInv, [Next]_vars
  PROVE  IInv'
<1>1. ASSUME Media \/ SetVideoRendererSinkClient PROVE IInv'
  BY <1>1, StartKeepsIInv, StopKeepsIInv, SetClientKeepsIInv DEF Media
<1>2. ASSUME Compositor PROVE IInv'
  BY <1>2, SetClientTaskKeepsIInv, UpdateTaskKeepsIInv, BackgroundRenderKeepsIInv,
     CallRenderKeepsIInv, DidReceiveFrameKeepsIInv DEF Compositor
<1>3. CASE UNCHANGED vars
  BY <1>3 DEF vars, IInv, TypeOK, RenderingFollowsCallback, Updates, ClientInStep,
              RenderingGoesOn, TaskInProgress
<1> QED BY <1>1, <1>2, <1>3 DEF Next

LEMMA AlwaysIInv == Spec => []IInv
<1>1. IInv /\ [Next]_vars => IInv'
  BY StepKeepsIInv
<1> QED BY InitIInv, <1>1, PTL DEF Spec
-----------------------------------------------------------------------------
\* However many Starts and Stops are queued, rendering_ ends up where the last
\* of them put callback_ (Start and Stop, video_renderer_sink_impl.cc, post
\* OnRendererStateUpdate under callback_lock_).
THEOREM RenderingEndsAtCallback == Spec => []RenderingFollowsCallback
<1>1. IInv => RenderingFollowsCallback
  BY DEF IInv
<1> QED BY AlwaysIInv, <1>1, PTL

\* Between the compositor's tasks the client renders exactly while the sink
\* does, in whichever order the two were set up (SetVideoRendererSinkClient and
\* OnRendererStateUpdate).
THEOREM ClientAlwaysInStep == Spec => []ClientInStep
<1>1. IInv => ClientInStep
  BY DEF IInv
<1> QED BY AlwaysIInv, <1>1, PTL

\* A started sink whose updates are processed has a render at work or the timer
\* running: it never falls asleep (CallRender starts the timer anew).
THEOREM RenderingNeverStalls == Spec => []RenderingGoesOn
<1>1. IInv => RenderingGoesOn
  BY DEF IInv
<1> QED BY AlwaysIInv, <1>1, PTL

\* The variables keep their types: the frames that the sink and its client hold
\* are frames of the callback, and the queue holds the posted tasks alone.
THEOREM TypeCorrect == Spec => []TypeOK
<1>1. IInv => TypeOK
  BY DEF IInv
<1> QED BY AlwaysIInv, <1>1, PTL
=============================================================================
