--------------------------- MODULE AudioOutputStreams ---------------------------
(***************************************************************************)
(* The control of audio output streams: each AudioOutputIPCImpl asks the   *)
(* AudioRendererHost for a stream, the host makes an                       *)
(* AudioOutputDelegateImpl for it, whose controller reports back through   *)
(* the AudioMessageFilter.                                                 *)
(*                                                                         *)
(* All of this runs on the io thread, one task at a time, so a call from   *)
(* the client through the host is one step.  What is asynchronous are the  *)
(* two answers: the device's parameters for an authorization, and the      *)
(* controller, which lives on the audio thread and posts what it has done. *)
(* An answer names its stream, and it may come after CloseStream.          *)
(*                                                                         *)
(* The user of an AudioOutputIPCImpl is Chromium's AudioOutputDevice, the  *)
(* controller its AudioOutputController; both are outside this repository. *)
(***************************************************************************)
EXTENDS Naturals, Sequences, FiniteSets

CONSTANTS
  Devices,      \* AudioOutputDevices, each with its AudioOutputIPCImpl
  Named,        \* those of them whose device_id does not name the default device
  Timeouts,     \* whether authorizations time out: on Windows and Mac
  MaxStreams    \* bound: stream ids given out

ASSUME StreamAssumption ==
  Named \subseteq Devices /\ Timeouts \in BOOLEAN /\ MaxStreams \in Nat

VARIABLES
  stream_id,         \* stream_id_ of each device's AudioOutputIPCImpl, or NotSet
  stream_created,    \* stream_created_ of each
  device,            \* the state of each device: see TypeOK
  listeners,         \* AudioMessageFilter::delegates_: the device of a stream id
  last_id,           \* the id that delegates_ gave out last
  authorizations,    \* authorizations_ of the host: stream ids
  replies,           \* streams with an AudioSystem reply under way
  delegates,         \* delegates_ of the host: for each stream id its delegate
  io_tasks           \* what the controllers posted to the io thread

vars == <<stream_id, stream_created, device, listeners, last_id, authorizations,
          replies, delegates, io_tasks>>

NotSet == 0
Ids == 1 .. MaxStreams

\* A delegate: its controller, whether it has been told to play, whether the
\* socket for the renderer is still there, and playing_.
NewDelegate ==
  [controller |-> "creating", play |-> FALSE, foreign_socket |-> TRUE, playing |-> FALSE]

Event(kind, id) == [kind |-> kind, stream |-> id]

Init ==
  /\ stream_id = [d \in Devices |-> NotSet]
  /\ stream_created = [d \in Devices |-> FALSE]
  /\ device = [d \in Devices |-> "new"]
  /\ listeners = [id \in {} |-> {}]
  /\ last_id = 0
  /\ authorizations = {}
  /\ replies = {}
  /\ delegates = [id \in {} |-> NewDelegate]
  /\ io_tasks = << >>
-----------------------------------------------------------------------------
(* Calls of the devices *)

Listen(d, id) == [i \in DOMAIN listeners \cup {id} |-> IF i = id THEN d ELSE listeners[i]]

\* The default device is authorized at once, and its parameters asked for.  For
\* another one nothing is done: assert(false) is nothing in a release build.
RequestDeviceAuthorization(d) ==
  LET id == last_id + 1
  IN  /\ device[d] \in {"new", "closed"}
      /\ stream_id[d] = NotSet
      /\ id \in Ids
      /\ stream_id' = [stream_id EXCEPT ![d] = id]
      /\ listeners' = Listen(d, id)
      /\ last_id' = id
      /\ IF d \in Named THEN UNCHANGED <<authorizations, replies>>
         ELSE authorizations' = authorizations \cup {id} /\ replies' = replies \cup {id}
      /\ device' = [device EXCEPT ![d] = "authorizing"]
      /\ UNCHANGED <<stream_created, delegates, io_tasks>>

\* A device that is started again after CloseStream need not ask again: its
\* stream gets an id here, and there is no authorization to look up.
CreateStream(d) ==
  LET id == IF stream_id[d] = NotSet THEN last_id + 1 ELSE stream_id[d]
  IN  /\ device[d] = "authorized" \/ (device[d] = "closed" /\ d \notin Named)
      /\ id \in Ids
      /\ stream_id' = [stream_id EXCEPT ![d] = id]
      /\ \/ stream_id[d] = NotSet /\ listeners' = Listen(d, id) /\ last_id' = id
         \/ stream_id[d] # NotSet /\ UNCHANGED <<listeners, last_id>>
      /\ authorizations' = authorizations \ {id}
      /\ delegates' = [i \in DOMAIN delegates \cup {id} |->
                         IF i = id THEN NewDelegate ELSE delegates[i]]
      /\ stream_created' = [stream_created EXCEPT ![d] = TRUE]
      /\ device' = [device EXCEPT ![d] = "creating"]
      /\ UNCHANGED <<replies, io_tasks>>

\* The host looks the delegate up; it answers with an error when there is none.
PlayStream(d) ==
  LET id == stream_id[d]
  IN  /\ device[d] = "ready"
      /\ delegates' = [i \in DOMAIN delegates |->
                         IF i = id THEN [delegates[i] EXCEPT !.play = TRUE] ELSE delegates[i]]
      /\ device' = [device EXCEPT ![d] = IF id \in DOMAIN delegates THEN "playing" ELSE "failed"]
      /\ UNCHANGED <<stream_id, stream_created, listeners, last_id, authorizations,
                     replies, io_tasks>>

\* PauseStream tells nobody.
PauseStream(d) ==
  /\ device[d] = "playing"
  /\ device' = [device EXCEPT ![d] = "ready"]
  /\ UNCHANGED <<stream_id, stream_created, listeners, last_id, authorizations,
                 replies, delegates, io_tasks>>

\* Mutant of CloseStream: delegates_.Remove is forgotten.
CloseStreamListening(d, state) ==
  /\ stream_id[d] # NotSet
  /\ stream_id' = [stream_id EXCEPT ![d] = NotSet]
  /\ stream_created' = [stream_created EXCEPT ![d] = FALSE]
  /\ device' = [device EXCEPT ![d] = state]
  /\ UNCHANGED <<listeners, last_id, authorizations, replies, delegates, io_tasks>>

\* Mutant of CloseStream: the id is kept, and used again.
CloseStreamKeepsId(d, state) ==
  /\ stream_id[d] # NotSet
  /\ stream_created' = [stream_created EXCEPT ![d] = FALSE]
  /\ device' = [device EXCEPT ![d] = state]
  /\ UNCHANGED <<stream_id, listeners, last_id, authorizations, replies, delegates, io_tasks>>

\* CloseStream ends on the client's side: the host is not told.
CloseStream(d, state) ==
  /\ stream_id[d] # NotSet
  /\ listeners' = [i \in DOMAIN listeners \ {stream_id[d]} |-> listeners[i]]
  /\ stream_id' = [stream_id EXCEPT ![d] = NotSet]
  /\ stream_created' = [stream_created EXCEPT ![d] = FALSE]
  /\ device' = [device EXCEPT ![d] = state]
  /\ UNCHANGED <<last_id, authorizations, replies, delegates, io_tasks>>

\* AudioOutputDevice gives up its authorization, and its IPC for good.
AuthorizationTimesOut(d) ==
  Timeouts /\ device[d] = "authorizing" /\ CloseStream(d, "timed out")
-----------------------------------------------------------------------------
(* Answers on the io thread *)

\* The listener of the stream, if it has one, takes the answer; AudioOutputDevice
\* ignores an answer it does not wait for.
Tell(id, waiting, state) ==
  device' = [d \in Devices |->
               IF id \in DOMAIN listeners /\ listeners[id] = d /\ device[d] \in waiting
               THEN state ELSE device[d]]

TellError(id) == Tell(id, {"creating", "ready", "playing"}, "failed")

\* DeviceParametersReceived runs the callback.
OnAuthorizationCompleted(id) ==
  /\ id \in replies
  /\ replies' = replies \ {id}
  /\ Tell(id, {"authorizing"}, "authorized")
  /\ UNCHANGED <<stream_id, stream_created, listeners, last_id, authorizations,
                 delegates, io_tasks>>

\* Mutant of SendCreatedNotification: a failure to share the buffer is dropped.
SendCreatedNotificationSilently ==
  /\ io_tasks # << >> /\ Head(io_tasks).kind = "created"
  /\ io_tasks' = Tail(io_tasks)
  /\ LET id == Head(io_tasks).stream
     IN  /\ delegates' = [delegates EXCEPT ![id].foreign_socket = FALSE]
         /\ Tell(id, {"creating"}, "ready") \/ UNCHANGED device
  /\ UNCHANGED <<stream_id, stream_created, listeners, last_id, authorizations, replies>>

\* SendCreatedNotification gives the socket away, and the host's and the
\* filter's OnStreamCreated pass the handles on, or report that they cannot be
\* shared.
SendCreatedNotification ==
  /\ io_tasks # << >> /\ Head(io_tasks).kind = "created"
  /\ io_tasks' = Tail(io_tasks)
  /\ LET id == Head(io_tasks).stream
     IN  /\ delegates' = [delegates EXCEPT ![id].foreign_socket = FALSE]
         /\ Tell(id, {"creating"}, "ready") \/ TellError(id)
  /\ UNCHANGED <<stream_id, stream_created, listeners, last_id, authorizations, replies>>

UpdatePlayingState ==
  /\ io_tasks # << >> /\ Head(io_tasks).kind = "playing"
  /\ io_tasks' = Tail(io_tasks)
  /\ delegates' = [delegates EXCEPT ![Head(io_tasks).stream].playing = TRUE]
  /\ UNCHANGED <<stream_id, stream_created, device, listeners, last_id, authorizations, replies>>

OnError ==
  /\ io_tasks # << >> /\ Head(io_tasks).kind = "error"
  /\ io_tasks' = Tail(io_tasks)
  /\ TellError(Head(io_tasks).stream)
  /\ UNCHANGED <<stream_id, stream_created, listeners, last_id, authorizations,
                 replies, delegates>>
-----------------------------------------------------------------------------
(* The controllers, on the audio thread *)

\* The controller of id goes from one state to another and posts that it did.
Controller(id, from, to, kind) ==
  /\ id \in DOMAIN delegates
  /\ delegates[id].controller \in from
  /\ delegates' = [delegates EXCEPT ![id].controller = to]
  /\ io_tasks' = Append(io_tasks, Event(kind, id))
  /\ UNCHANGED <<stream_id, stream_created, device, listeners, last_id, authorizations, replies>>

OnControllerCreated(id) == Controller(id, {"creating"}, "created", "created")
OnControllerPlaying(id) ==
  id \in DOMAIN delegates /\ delegates[id].play
    /\ Controller(id, {"created"}, "playing", "playing")
OnControllerError(id) ==
  Controller(id, {"creating", "created", "playing"}, "error", "error")
-----------------------------------------------------------------------------
Call(d) ==
  \/ RequestDeviceAuthorization(d) \/ CreateStream(d)
  \/ PlayStream(d) \/ PauseStream(d) \/ CloseStream(d, "closed") \/ AuthorizationTimesOut(d)

Notification == SendCreatedNotification \/ UpdatePlayingState \/ OnError

Next ==
  \/ \E d \in Devices : Call(d)
  \/ \E id \in Ids : OnAuthorizationCompleted(id)
  \/ Notification
  \/ \E id \in Ids : OnControllerCreated(id) \/ OnControllerPlaying(id) \/ OnControllerError(id)

Spec == Init /\ [][Next]_vars

\* The io thread runs what was posted to it, timers fire, the audio system
\* replies, and a new controller opens its device or fails to.
FairSpec ==
  /\ Spec
  /\ WF_vars(Notification)
  /\ \A d \in Devices : WF_vars(AuthorizationTimesOut(d))
  /\ \A id \in Ids :
       /\ WF_vars(OnAuthorizationCompleted(id))
       /\ WF_vars(OnControllerCreated(id) \/ Controller(id, {"creating"}, "error", "error"))
-----------------------------------------------------------------------------
TypeOK ==
  /\ stream_id \in [Devices -> Ids \cup {NotSet}]
  /\ stream_created \in [Devices -> BOOLEAN]
  /\ device \in [Devices -> {"new", "authorizing", "authorized", "creating", "ready",
                             "playing", "failed", "closed", "timed out"}]
  /\ DOMAIN listeners \subseteq Ids /\ \A id \in DOMAIN listeners : listeners[id] \in Devices
  /\ last_id \in Ids \cup {0}
  /\ authorizations \subseteq Ids /\ replies \subseteq Ids
  /\ DOMAIN delegates \subseteq Ids
  /\ \A id \in DOMAIN delegates :
       delegates[id] \in [controller : {"creating", "created", "playing", "error"},
                          play : BOOLEAN, foreign_socket : BOOLEAN, playing : BOOLEAN]
  /\ io_tasks \in Seq([kind : {"created", "playing", "error"}, stream : DOMAIN delegates])

\* The filter's map holds the open streams and no others, each under the device
\* it was opened for: an answer is passed to a device exactly while the stream
\* it names is the device's own.
ListenersAreOpenStreams ==
  /\ \A id \in DOMAIN listeners : stream_id[listeners[id]] = id
  /\ \A d \in Devices :
       stream_id[d] # NotSet => stream_id[d] \in DOMAIN listeners

Posted(kind, id) == \E i \in DOMAIN io_tasks : io_tasks[i] = Event(kind, id)

\* Both ends agree how far a stream has got, whatever answers of streams closed
\* before are still under way: an authorization that is waited for is to come,
\* one that was given is there to be used, a stream that is waited for is being
\* created, and one that is ready has a delegate that gave its socket away.
StagesAgree ==
  \A d \in Devices :
    LET id == stream_id[d]
    IN  /\ stream_created[d] <=> device[d] \in {"creating", "ready", "playing", "failed"}
        /\ stream_created[d] => id \in DOMAIN delegates
        /\ device[d] = "authorizing" /\ d \notin Named => id \in replies \cap authorizations
        /\ device[d] = "authorized" => id \in authorizations \ replies
        /\ device[d] = "creating" =>
             /\ delegates[id].foreign_socket
             /\ \/ delegates[id].controller = "creating"
                \/ Posted("created", id) \/ Posted("error", id)
        /\ device[d] \in {"ready", "playing"} =>
             /\ ~delegates[id].foreign_socket
             /\ delegates[id].controller # "creating"

\* A device that waits for its authorization or for its stream gets an answer,
\* be it an error or that its time is up, unless it is stopped.
RequestsAnswered ==
  \A d \in Devices :
    device[d] \in {"authorizing", "creating"} ~> device[d] \notin {"authorizing", "creating"}

\* OnCloseStream: what the host keeps for a stream goes when the stream is
\* closed, at the latest when nothing is under way any more.
ClosedStreamsAreGone ==
  io_tasks = << >> /\ replies = {} =>
    \A id \in DOMAIN delegates \cup authorizations : \E d \in Devices : stream_id[d] = id
=============================================================================
