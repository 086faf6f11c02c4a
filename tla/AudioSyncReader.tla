---------------------------- MODULE AudioSyncReader ----------------------------
(***************************************************************************)
(* AudioSyncReader: the browser's end of a shared audio buffer that a      *)
(* renderer in another process fills on request.                           *)
(*                                                                         *)
(* The buffer has no lock.  The two ends agree by counting: each request   *)
(* is one signal on a socket and one step of buffer_index_, and for each   *)
(* signal the renderer steps a counter of its own and sends its value back *)
(* when the buffer is filled.  The browser copies the buffer only when the *)
(* value it receives is buffer_index_.  Both are uint32_t and wrap.        *)
(*                                                                         *)
(* The browser's device thread calls RequestMoreData and Read in turn; a   *)
(* pause sends a last request with a signal of its own.  The renderer's    *)
(* thread is Chromium's AudioDeviceThread, outside this repository.        *)
(***************************************************************************)
EXTENDS Naturals, Sequences

CONSTANTS
  IndexSize,     \* 2^32 in the code: the values of buffer_index_
  Capacity,      \* signals that fit into a socket's buffer
  MaxLost        \* bound: signals lost

\* The values in the sockets and the signals lost do not add up to 2^32: no old
\* value is taken for a new one.
ASSUME IndexAssumption ==
  /\ {IndexSize, Capacity} \subseteq Nat \ {0}
  /\ MaxLost \in Nat
  /\ MaxLost + 2 * Capacity + 2 < IndexSize

VARIABLES
  buffer_index,   \* buffer_index_
  bus,            \* output_bus_, the shared buffer: silence, torn, or a request's data
  to_renderer,    \* the signals in the socket, oldest first
  to_browser,     \* the counter values in the socket, oldest first
  reader,         \* the device thread: see TypeOK
  signal,         \* control_signal of the RequestMoreData at work
  renderer,       \* the renderer's thread: see TypeOK
  counter,        \* the renderer's counter
  lost            \* history: how many signals found no room in the socket

vars == <<buffer_index, bus, to_renderer, to_browser, reader, signal, renderer, counter, lost>>

Index == 0 .. IndexSize - 1
Successor(i) == (i + 1) % IndexSize

Silence == [kind |-> "silence"]
Torn == [kind |-> "torn"]
Data(i) == [kind |-> "data", index |-> i]

Init ==
  /\ buffer_index = 0
  /\ bus = Silence
  /\ to_renderer = << >> /\ to_browser = << >>
  /\ reader = "stopped"
  /\ signal = "data"
  /\ renderer = "idle"
  /\ counter = 0
  /\ lost = 0
-----------------------------------------------------------------------------
(* RequestMoreData *)

\* When the stream starts and after each Read; for a pause, instead of it.  The
\* buffer is zeroed, whatever the renderer is doing with it.
ZeroBus(s) ==
  /\ \/ s = "data" /\ reader \in {"stopped", "read"}
     \/ s = "pause" /\ reader \in {"requested", "read"}
  /\ reader' = "zeroed"
  /\ signal' = s
  /\ bus' = IF renderer \in {"rendering", "disturbed"} THEN Torn ELSE Silence
  /\ renderer' = IF renderer = "rendering" THEN "disturbed" ELSE renderer
  /\ UNCHANGED <<buffer_index, to_renderer, to_browser, counter, lost>>

\* A signal that finds no room is lost; that is logged, and no more.
SendSignal ==
  /\ reader = "zeroed"
  /\ reader' = "sent"
  /\ \/ /\ Len(to_renderer) < Capacity
        /\ to_renderer' = Append(to_renderer, signal)
        /\ UNCHANGED lost
     \/ /\ Len(to_renderer) = Capacity
        /\ lost < MaxLost
        /\ lost' = lost + 1
        /\ UNCHANGED to_renderer
  /\ UNCHANGED <<buffer_index, bus, to_browser, signal, renderer, counter>>

\* Mutant of StepIndex: a pause does not count.
StepIndexForData ==
  /\ reader = "sent"
  /\ buffer_index' = IF signal = "data" THEN Successor(buffer_index) ELSE buffer_index
  /\ reader' = IF signal = "data" THEN "requested" ELSE "stopped"
  /\ UNCHANGED <<bus, to_renderer, to_browser, signal, renderer, counter, lost>>

StepIndex ==
  /\ reader = "sent"
  /\ buffer_index' = Successor(buffer_index)
  /\ reader' = IF signal = "data" THEN "requested" ELSE "stopped"
  /\ UNCHANGED <<bus, to_renderer, to_browser, signal, renderer, counter, lost>>
-----------------------------------------------------------------------------
(* Read *)

\* Mutant of ReceiveIndex: any value that comes in time is an answer.
ReceiveAnyIndex ==
  /\ reader = "requested"
  /\ to_browser # << >>
  /\ to_browser' = Tail(to_browser)
  /\ reader' = "copying"
  /\ UNCHANGED <<buffer_index, bus, to_renderer, signal, renderer, counter, lost>>

\* One turn of WaitUntilDataIsReady's loop.  A value that is not the index of
\* the last request is dropped.
ReceiveIndex ==
  /\ reader = "requested"
  /\ to_browser # << >>
  /\ to_browser' = Tail(to_browser)
  /\ reader' = IF Head(to_browser) = buffer_index THEN "copying" ELSE "requested"
  /\ UNCHANGED <<buffer_index, bus, to_renderer, signal, renderer, counter, lost>>

\* maximum_wait_time_ is over, before or after some value came: silence.
TimeOut ==
  /\ reader = "requested"
  /\ reader' = "read"
  /\ UNCHANGED <<buffer_index, bus, to_renderer, to_browser, signal, renderer, counter, lost>>

CopyBus ==
  /\ reader = "copying"
  /\ reader' = "read"
  /\ UNCHANGED <<buffer_index, bus, to_renderer, to_browser, signal, renderer, counter, lost>>

Close ==
  /\ reader \in {"stopped", "requested", "read"}
  /\ reader' = "closed"
  /\ UNCHANGED <<buffer_index, bus, to_renderer, to_browser, signal, renderer, counter, lost>>
-----------------------------------------------------------------------------
(* The renderer's thread *)

\* A pause is counted, but not rendered.
RendererReceive ==
  /\ renderer = "idle"
  /\ to_renderer # << >>
  /\ to_renderer' = Tail(to_renderer)
  /\ \/ Head(to_renderer) = "data" /\ renderer' = "rendering" /\ bus' = Torn
     \/ Head(to_renderer) = "pause" /\ renderer' = "rendered" /\ UNCHANGED bus
  /\ UNCHANGED <<buffer_index, to_browser, reader, signal, counter, lost>>

Rendered ==
  /\ renderer \in {"rendering", "disturbed"}
  /\ bus' = IF renderer = "rendering" THEN Data(Successor(counter)) ELSE Torn
  /\ renderer' = "rendered"
  /\ UNCHANGED <<buffer_index, to_renderer, to_browser, reader, signal, counter, lost>>

\* The thread ends when its value finds no room.
RendererSend ==
  /\ renderer = "rendered"
  /\ counter' = Successor(counter)
  /\ \/ /\ Len(to_browser) < Capacity
        /\ to_browser' = Append(to_browser, counter')
        /\ renderer' = "idle"
     \/ /\ Len(to_browser) = Capacity
        /\ renderer' = "ended"
        /\ UNCHANGED to_browser
  /\ UNCHANGED <<buffer_index, bus, to_renderer, reader, signal, lost>>
-----------------------------------------------------------------------------
RequestMoreData == (\E s \in {"data", "pause"} : ZeroBus(s)) \/ SendSignal \/ StepIndex
Read == ReceiveIndex \/ TimeOut \/ CopyBus
Renderer == RendererReceive \/ Rendered \/ RendererSend

Next == reader # "closed" /\ (RequestMoreData \/ Read \/ Close \/ Renderer)

Spec == Init /\ [][Next]_vars
-----------------------------------------------------------------------------
TypeOK ==
  /\ {buffer_index, counter} \subseteq Index
  /\ bus \in {Silence, Torn} \cup {Data(i) : i \in Index}
  /\ to_renderer \in Seq({"data", "pause"}) /\ Len(to_renderer) <= Capacity
  /\ to_browser \in Seq(Index) /\ Len(to_browser) <= Capacity
  /\ reader \in {"stopped", "zeroed", "sent", "requested", "copying", "read", "closed"}
  /\ signal \in {"data", "pause"}
  /\ renderer \in {"idle", "rendering", "disturbed", "rendered", "ended"}
  /\ lost \in 0 .. MaxLost

\* What Read copies is the data rendered for the last request, whole: not those
\* of an earlier request that came late, not zeroed half way by a request, and
\* not being written any more.  The counting alone ensures it, also when signals
\* were lost: then there is silence, but never the wrong data.
CopyIsWholeAndLatest ==
  reader = "copying" =>
    /\ bus = Data(buffer_index)
    /\ renderer \notin {"rendering", "disturbed"}

\* Requests that the renderer has still to answer.
Outstanding ==
  Len(to_renderer) + (IF renderer \in {"rendering", "disturbed", "rendered"} THEN 1 ELSE 0)

\* The two counters differ by exactly the requests that are on their way and
\* the signals that were lost, through pauses, timeouts and the renderer's end.
CountersInStep ==
  (counter + Outstanding + lost) % IndexSize =
    IF reader = "sent" THEN Successor(buffer_index) ELSE buffer_index

\* "The counter values may temporarily become out of sync if the renderer is
\* unable to deliver audio fast enough.  It's assumed that the renderer will
\* catch up at some point": a renderer that has answered every signal there is
\* has caught up, and then the two counters are equal.
CaughtUpIsInSync ==
  reader \in {"stopped", "requested", "read"} /\ renderer = "idle" /\ Outstanding = 0 =>
    counter = buffer_index
=============================================================================
