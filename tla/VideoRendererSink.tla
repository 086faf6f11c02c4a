--------------------------- MODULE VideoRendererSink ---------------------------
(***************************************************************************)
(* VideoRendererSinkImpl: it pulls frames from a RenderCallback and pushes *)
(* them to a client.  The media thread calls Start and Stop, which change  *)
(* callback_ under callback_lock_ and post OnRendererStateUpdate; the main *)
(* thread posts SetVideoRendererSinkClient.  The compositor thread runs    *)
(* the posted tasks and a timer, BackgroundRender, that each CallRender    *)
(* starts anew.  CallRender holds callback_lock_; the rest of a compositor *)
(* task does not, so callback_ may change between its parts.               *)
(*                                                                         *)
(* MediaPlayerImpl gives the sink its media task runner for a compositor:  *)
(* there, the two threads are one, and Start and Stop come between tasks.  *)
(***************************************************************************)
EXTENDS Naturals, Sequences

CONSTANTS
  Frames,      \* video frames, by unique_id
  NoFrame,     \* nullptr
  OneThread,   \* whether the media thread is the compositor thread
  MaxStarts,   \* bound: calls of Start
  MaxTasks     \* bound: tasks queued on the compositor thread

ASSUME FrameAssumption ==
  /\ NoFrame \notin Frames
  /\ OneThread \in BOOLEAN
  /\ {MaxStarts, MaxTasks} \subseteq Nat

VARIABLES
  callback,               \* callback_ is set
  tasks,                  \* the compositor's queue: start, stop, client, no client
  step,                   \* the compositor's task at work: see TypeOK
  rendering,              \* rendering_
  timer,                  \* background_rendering_timer_ is running
  current_frame,          \* current_frame_
  new_background_frame,   \* new_background_frame_
  client,                 \* client_ is set
  client_rendering,       \* the client's view: StartRendering came last
  seen,                   \* the frame the client received last
  starts                  \* calls of Start

vars == <<callback, tasks, step, rendering, timer, current_frame, new_background_frame,
          client, client_rendering, seen, starts>>

Idle == [pc |-> "idle"]
Render(started) == [pc |-> "render", started |-> started]
Deliver(started, new) == [pc |-> "deliver", started |-> started, new |-> new]

Init ==
  /\ callback = FALSE
  /\ tasks = << >>
  /\ step = Idle
  /\ rendering = FALSE
  /\ timer = FALSE
  /\ current_frame = NoFrame
  /\ new_background_frame = FALSE
  /\ client = FALSE /\ client_rendering = FALSE /\ seen = NoFrame
  /\ starts = 0
-----------------------------------------------------------------------------
(* The media thread and the main thread *)

Start ==
  /\ OneThread => step = Idle
  /\ ~callback
  /\ starts < MaxStarts /\ Len(tasks) < MaxTasks
  /\ callback' = TRUE
  /\ tasks' = Append(tasks, "start")
  /\ starts' = starts + 1
  /\ UNCHANGED <<step, rendering, timer, current_frame, new_background_frame,
                 client, client_rendering, seen>>

\* Mutant of Stop: the compositor is told only if it is already rendering.
StopIfRendering ==
  /\ OneThread => step = Idle
  /\ callback
  /\ Len(tasks) < MaxTasks
  /\ callback' = FALSE
  /\ tasks' = IF rendering THEN Append(tasks, "stop") ELSE tasks
  /\ UNCHANGED <<step, rendering, timer, current_frame, new_background_frame,
                 client, client_rendering, seen, starts>>

Stop ==
  /\ OneThread => step = Idle
  /\ callback
  /\ Len(tasks) < MaxTasks
  /\ callback' = FALSE
  /\ tasks' = Append(tasks, "stop")
  /\ UNCHANGED <<step, rendering, timer, current_frame, new_background_frame,
                 client, client_rendering, seen, starts>>

SetVideoRendererSinkClient ==
  /\ Len(tasks) < MaxTasks
  /\ \E task \in {"client", "no client"} : tasks' = Append(tasks, task)
  /\ UNCHANGED <<callback, step, rendering, timer, current_frame, new_background_frame,
                 client, client_rendering, seen, starts>>
-----------------------------------------------------------------------------
(* The compositor thread *)

\* Mutant of SetClientTask: a client that comes late is not told.
SetClientSilently ==
  /\ step = Idle
  /\ tasks # << >> /\ Head(tasks) \in {"client", "no client"}
  /\ tasks' = Tail(tasks)
  /\ client' = (Head(tasks) = "client")
  /\ client_rendering' = FALSE
  /\ seen' = NoFrame
  /\ UNCHANGED <<callback, step, rendering, timer, current_frame, new_background_frame, starts>>

\* A new client has seen nothing; while rendering it is told at once.
SetClientTask ==
  /\ step = Idle
  /\ tasks # << >> /\ Head(tasks) \in {"client", "no client"}
  /\ tasks' = Tail(tasks)
  /\ client' = (Head(tasks) = "client")
  /\ client_rendering' = (client' /\ rendering)
  /\ seen' = NoFrame
  /\ UNCHANGED <<callback, step, rendering, timer, current_frame, new_background_frame, starts>>

\* OnRendererStateUpdate up to BackgroundRender, or to its end.
OnRendererStateUpdate ==
  /\ step = Idle
  /\ tasks # << >>
  /\ \/ /\ Head(tasks) = "start"
        /\ rendering' = TRUE
        /\ step' = Render(TRUE)
        /\ UNCHANGED client_rendering
     \/ /\ Head(tasks) = "stop"
        /\ rendering' = FALSE
        /\ client_rendering' = FALSE
        /\ UNCHANGED step
  /\ tasks' = Tail(tasks)
  /\ UNCHANGED <<callback, timer, current_frame, new_background_frame, client, seen, starts>>

\* The timer is not stopped by Stop.
BackgroundRender ==
  /\ step = Idle
  /\ timer
  /\ timer' = FALSE
  /\ step' = Render(FALSE)
  /\ UNCHANGED <<callback, tasks, rendering, current_frame, new_background_frame,
                 client, client_rendering, seen, starts>>

\* Mutant of CallRender: the timer is started anew for a new frame alone.
CallRenderTimerForNew ==
  /\ step.pc = "render"
  /\ callback
  /\ \E frame \in Frames \cup {NoFrame} :
       LET new == frame = NoFrame \/ frame # current_frame
       IN  /\ current_frame' = frame
           /\ new_background_frame' = new
           /\ step' = Deliver(step.started, new \/ new_background_frame)
           /\ timer' = (timer \/ new)
  /\ UNCHANGED <<callback, tasks, rendering, client, client_rendering, seen, starts>>

\* Under callback_lock_.  rendered_last_frame_ is never set, and the callers
\* are all background rendering, so OnFrameDropped is not reached.  A frame
\* like the current one is no news, a null one is.
CallRender ==
  /\ step.pc = "render"
  /\ \/ /\ ~callback
        /\ step' = Deliver(step.started, current_frame # NoFrame)
        /\ UNCHANGED <<current_frame, new_background_frame, timer>>
     \/ /\ callback
        /\ \E frame \in Frames \cup {NoFrame} :
             LET new == frame = NoFrame \/ frame # current_frame
             IN  /\ current_frame' = frame
                 /\ new_background_frame' = new
                 /\ step' = Deliver(step.started, new \/ new_background_frame)
        /\ timer' = TRUE
  /\ UNCHANGED <<callback, tasks, rendering, client, client_rendering, seen, starts>>

\* DidReceiveFrame, and StartRendering at the end of OnRendererStateUpdate.
DidReceiveFrame ==
  /\ step.pc = "deliver"
  /\ seen' = IF step.new /\ client THEN current_frame ELSE seen
  /\ client_rendering' = IF step.started THEN client ELSE client_rendering
  /\ step' = Idle
  /\ UNCHANGED <<callback, tasks, rendering, timer, current_frame, new_background_frame,
                 client, starts>>
-----------------------------------------------------------------------------
Media == Start \/ Stop
Compositor == SetClientTask \/ OnRendererStateUpdate \/ BackgroundRender \/ CallRender \/ DidReceiveFrame

Next == Media \/ SetVideoRendererSinkClient \/ Compositor

Spec == Init /\ [][Next]_vars
-----------------------------------------------------------------------------
TypeOK ==
  /\ {callback, rendering, timer, new_background_frame, client, client_rendering} \subseteq BOOLEAN
  /\ tasks \in Seq({"start", "stop", "client", "no client"})
  /\ step \in {Idle} \cup [pc : {"render"}, started : BOOLEAN]
                \cup [pc : {"deliver"}, started : BOOLEAN, new : BOOLEAN]
  /\ {current_frame, seen} \subseteq Frames \cup {NoFrame}
  /\ starts \in 0 .. MaxStarts

\* Where in the queue the state updates are.
Updates == {i \in DOMAIN tasks : tasks[i] \in {"start", "stop"}}

\* rendering_ ends up where the last Start or Stop put callback_, however many
\* of them came before the compositor ran: they are posted in order under the
\* lock, and the last update queued is the one that counts.
RenderingFollowsCallback ==
  /\ Updates = {} => callback = rendering
  /\ \A last \in Updates :
       (\A i \in Updates : i <= last) => callback = (tasks[last] = "start")

\* A client is told to render exactly while the sink renders, whichever of the
\* two came first.
ClientInStep ==
  step = Idle => client_rendering = (client /\ rendering)

\* A started sink goes on pulling frames: once the start is processed, a render
\* is at work or the timer will bring the next one.
RenderingGoesOn ==
  callback /\ rendering /\ Updates = {} => timer \/ step.pc = "render"

\* DCHECK(rendering_): with a callback, CallRender runs only while rendering.
RendersOnlyWhileRendering == step.pc = "render" /\ callback => rendering

\* "Even if we no longer have a callback, return true if we have a frame which
\* |client_| hasn't seen before": no callback, no frame the client has seen.
OnlyUnseenFrames ==
  step.pc = "render" /\ ~callback /\ client /\ current_frame # NoFrame => seen # current_frame
=============================================================================
