------------------------ MODULE AudioSyncReader_proofs ------------------------
(***************************************************************************)
(* Proofs about AudioSyncReader, for counters of any width, sockets of any *)
(* capacity and any number of lost signals that the width can tell apart:  *)
(* the counting protocol lets no stale and no torn buffer through.         *)
(*                                                                         *)
(* The argument.  Modulo the counters' width, every value under way lags   *)
(* behind the index of the last request by what is still to be answered,   *)
(* what was lost and what was sent after it.  The lag is less than the     *)
(* width, so a value that equals buffer_index_ has no lag: it is the       *)
(* answer to the last request, and nothing else is under way.              *)
(***************************************************************************)
EXTENDS AudioSyncReader, Integers, SequenceTheorems, TLAPS

\* How far index b is behind index a.
Lag(a, b) == IF b <= a THEN a - b ELSE a + IndexSize - b

\* The index that RequestMoreData has signalled, stepped or about to be.
Requested == IF reader = "sent" THEN Successor(buffer_index) ELSE buffer_index

\* The value that found no room, if the renderer has ended over it.
Unsent == IF renderer = "ended" THEN 1 ELSE 0

CounterLag == Lag(Requested, counter) = Outstanding + lost

ValuesLag ==
  \A i \in DOMAIN to_browser :
    Lag(counter, to_browser[i]) = Len(to_browser) - i + Unsent

DataAwaited == reader \in {"requested", "copying"} => signal = "data"

\* While every signal so far has arrived, the last request's data is on its way:
\* its signal is last in the socket, or the buffer is being filled for it.
LastRequestUndisturbed ==
  lost = 0 /\ reader \in {"sent", "requested"} /\ signal = "data" =>
    /\ to_renderer # << >> => to_renderer[Len(to_renderer)] = "data"
    /\ to_renderer = << >> =>
         /\ renderer # "disturbed"
         /\ renderer = "rendered" => bus = Data(Successor(counter))
         /\ renderer = "idle" => bus = Data(counter)

CopyInPeace ==
  reader = "copying" =>
    bus = Data(buffer_index) /\ renderer = "idle" /\ to_renderer = << >>

IInv ==
  TypeOK /\ CounterLag /\ ValuesLag /\ DataAwaited /\ LastRequestUndisturbed /\ CopyInPeace

LEMMA SuccessorIs ==
  ASSUME NEW i \in Index
  PROVE  Successor(i) \in Index /\ Successor(i) = IF i + 1 = IndexSize THEN 0 ELSE i + 1
<1> USE IndexAssumption DEF Index, Successor
<1>1. IndexSize \in Nat \ {0} /\ i \in Nat /\ i < IndexSize
  OBVIOUS
<1>2. CASE i + 1 = IndexSize
  <2>1. IndexSize % IndexSize = 0
    BY <1>1
  <2> QED BY <1>1, <1>2, <2>1
<1>3. CASE i + 1 # IndexSize
  <2>1. \A j \in 0 .. IndexSize - 1 : j % IndexSize = j
    BY <1>1
  <2> QED BY <1>1, <1>3, <2>1
<1> QED BY <1>2, <1>3

LEMMA LagIs ==
  ASSUME NEW a \in Index, NEW b \in Index
  PROVE  /\ Lag(a, b) \in 0 .. IndexSize - 1
         /\ Lag(a, b) = 0 <=> a = b
BY IndexAssumption DEF Index, Lag

LEMMA LagGrows ==
  ASSUME NEW a \in Index, NEW b \in Index, Lag(a, b) < IndexSize - 1
  PROVE  Lag(Successor(a), b) = Lag(a, b) + 1
BY SuccessorIs, IndexAssumption DEF Index, Lag

LEMMA LagShrinks ==
  ASSUME NEW a \in Index, NEW b \in Index, a # b
  PROVE  Lag(a, Successor(b)) = Lag(a, b) - 1
BY SuccessorIs, IndexAssumption DEF Index, Lag

\* Lags add up as long as they stay below the width.
LEMMA LagsAdd ==
  ASSUME NEW a \in Index, NEW b \in Index, NEW c \in Index,
         Lag(a, b) + Lag(b, c) < IndexSize
  PROVE  Lag(a, c) = Lag(a, b) + Lag(b, c)
BY IndexAssumption DEF Index, Lag

\* A lag is what % makes up for.
LEMMA LagIsModulo ==
  ASSUME NEW a \in Index, NEW b \in Index
  PROVE  (b + Lag(a, b)) % IndexSize = a
<1>1. IndexSize \in Nat \ {0} /\ a \in 0 .. IndexSize - 1 /\ b \in 0 .. IndexSize - 1
  BY IndexAssumption DEF Index
<1>2. b + Lag(a, b) \in {a, a + IndexSize}
  BY <1>1 DEF Lag
<1>3. a % IndexSize = a /\ (a + IndexSize) % IndexSize = a
  BY <1>1
<1> QED BY <1>2, <1>3
-----------------------------------------------------------------------------
\* All that can be under way at once is less than the counters' width.
LEMMA Bounds ==
  ASSUME TypeOK
  PROVE  /\ IndexSize \in Nat \ {0}
         /\ Len(to_renderer) \in Nat /\ Len(to_browser) \in Nat /\ lost \in Nat
         /\ Outstanding \in Nat /\ Unsent \in {0, 1}
         /\ Outstanding + lost + Len(to_browser) + Unsent < IndexSize
         /\ Outstanding + lost < IndexSize - 1
         /\ Requested \in Index
<1> USE IndexAssumption DEF TypeOK
<1>1. /\ Len(to_renderer) \in Nat /\ Len(to_browser) \in Nat
      /\ IndexSize \in Nat \ {0} /\ Capacity \in Nat \ {0} /\ MaxLost \in Nat
      /\ Len(to_renderer) <= Capacity /\ Len(to_browser) <= Capacity
      /\ lost \in Nat /\ lost <= MaxLost
  OBVIOUS
<1>2. Outstanding \in Nat /\ Unsent \in {0, 1} /\ Outstanding + Unsent <= Capacity + 1
  <2>1. CASE renderer = "ended"
    BY <1>1, <2>1 DEF Outstanding, Unsent
  <2>2. CASE renderer # "ended"
    BY <1>1, <2>2 DEF Outstanding, Unsent
  <2> QED BY <2>1, <2>2
<1>3. Requested \in Index
  BY SuccessorIs DEF Requested
<1> QED BY <1>1, <1>2, <1>3

LEMMA InitIInv == Init => IInv
<1> SUFFICES ASSUME Init PROVE IInv
  OBVIOUS
<1> USE IndexAssumption DEF Init
<1>1. TypeOK
  BY DEF TypeOK, Index
<1>2. CounterLag
  BY DEF CounterLag, Requested, Lag, Outstanding
<1>3. ValuesLag
  BY DEF ValuesLag
<1>4. DataAwaited /\ LastRequestUndisturbed /\ CopyInPeace
  BY DEF DataAwaited, LastRequestUndisturbed, CopyInPeace
<1> QED BY <1>1, <1>2, <1>3, <1>4 DEF IInv

LEMMA ZeroBusKeepsIInv ==
  ASSUME IInv, NEW s \in {"data", "pause"}, ZeroBus(s)
  PROVE  IInv'
<1> USE DEF IInv, ZeroBus
<1>1. TypeOK'
  BY DEF TypeOK
<1>2. CounterLag' /\ ValuesLag'
  BY DEF CounterLag, ValuesLag, Requested, Outstanding, Unsent, Lag
<1>3. DataAwaited' /\ LastRequestUndisturbed' /\ CopyInPeace'
  BY DEF DataAwaited, LastRequestUndisturbed, CopyInPeace
<1> QED BY <1>1, <1>2, <1>3

LEMMA SendSignalKeepsIInv ==
  ASSUME IInv, SendSignal
  PROVE  IInv'
<1> USE DEF IInv
<1>1. /\ reader = "zeroed" /\ reader' = "sent" /\ signal \in {"data", "pause"}
      /\ UNCHANGED <<buffer_index, bus, to_browser, signal, renderer, counter>>
      /\ to_renderer \in Seq({"data", "pause"}) /\ buffer_index \in Index /\ counter \in Index
  BY DEF SendSignal, TypeOK
<1>2. CASE Len(to_renderer) < Capacity /\ to_renderer' = Append(to_renderer, signal) /\ lost' = lost
  <2>1. /\ to_renderer' \in Seq({"data", "pause"}) /\ to_renderer' # << >>
        /\ Len(to_renderer') = Len(to_renderer) + 1
        /\ to_renderer'[Len(to_renderer')] = signal
    BY <1>1, <1>2, AppendProperties
  <2>2. TypeOK'
    BY <1>1, <1>2, <2>1, IndexAssumption DEF TypeOK
  <2>3. Outstanding' = Outstanding + 1
    BY <1>1, <2>1, Bounds DEF Outstanding
  <2> QED BY <1>1, <1>2, <2>1, <2>2, <2>3, Bounds, LagGrows
          DEF CounterLag, ValuesLag, Requested, Unsent, DataAwaited, LastRequestUndisturbed,
              CopyInPeace
<1>3. CASE lost < MaxLost /\ lost' = lost + 1 /\ to_renderer' = to_renderer
  <2>1. TypeOK'
    BY <1>1, <1>3, IndexAssumption DEF TypeOK
  <2>2. Outstanding' = Outstanding
    BY <1>1, <1>3 DEF Outstanding
  <2>3. CounterLag'
    BY <1>1, <1>3, <2>2, Bounds, LagGrows DEF CounterLag, Requested
  <2> QED BY <1>1, <1>3, <2>1, <2>3, Bounds
          DEF ValuesLag, Unsent, DataAwaited, LastRequestUndisturbed, CopyInPeace
<1> QED BY <1>2, <1>3 DEF SendSignal

LEMMA StepIndexKeepsIInv ==
  ASSUME IInv, StepIndex
  PROVE  IInv'
<1> USE DEF IInv, StepIndex
<1>1. TypeOK'
  BY SuccessorIs DEF TypeOK
<1>2. CounterLag' /\ ValuesLag'
  BY DEF CounterLag, ValuesLag, Requested, Outstanding, Unsent, Lag
<1>3. DataAwaited' /\ LastRequestUndisturbed' /\ CopyInPeace'
  BY DEF DataAwaited, LastRequestUndisturbed, CopyInPeace, TypeOK
<1> QED BY <1>1, <1>2, <1>3

\* The first value in the socket equals the awaited index only if there is
\* nothing else under way and nothing was lost.
LEMMA MatchIsLast ==
  ASSUME IInv, reader = "requested", to_browser # << >>, Head(to_browser) = buffer_index
  PROVE  /\ counter = buffer_index /\ lost = 0
         /\ to_renderer = << >> /\ renderer = "idle"
<1> USE DEF IInv
<1>1. /\ to_browser \in Seq(Index) /\ to_renderer \in Seq({"data", "pause"})
      /\ counter \in Index /\ buffer_index \in Index
      /\ renderer \in {"idle", "rendering", "disturbed", "rendered", "ended"}
  BY DEF TypeOK
<1>2. Head(to_browser) = to_browser[1] /\ 1 \in DOMAIN to_browser /\ Len(to_browser) >= 1
  BY <1>1
<1>3. Lag(counter, buffer_index) = Len(to_browser) - 1 + Unsent
  BY <1>2 DEF ValuesLag
<1>4. Lag(buffer_index, counter) = Outstanding + lost
  BY DEF CounterLag, Requested
<1>5. Lag(buffer_index, buffer_index) = Len(to_browser) - 1 + Unsent + Outstanding + lost
  BY <1>1, <1>3, <1>4, LagsAdd, Bounds
<1>6. Len(to_browser) - 1 + Unsent + Outstanding + lost = 0
  BY <1>1, <1>5, LagIs
<1>7. Outstanding = 0 /\ lost = 0 /\ Unsent = 0
  BY <1>2, <1>6, Bounds
<1>8. to_renderer = << >> /\ renderer \notin {"rendering", "disturbed", "rendered"}
  BY <1>1, <1>7, Bounds DEF Outstanding
<1> QED BY <1>1, <1>4, <1>7, <1>8, LagIs DEF Unsent

LEMMA ReceiveIndexKeepsIInv ==
  ASSUME IInv, ReceiveIndex
  PROVE  IInv'
<1> USE DEF IInv, ReceiveIndex
<1>1. /\ to_browser' \in Seq(Index) /\ Len(to_browser') = Len(to_browser) - 1
      /\ \A i \in DOMAIN to_browser' : to_browser'[i] = to_browser[i + 1] /\ i + 1 \in DOMAIN to_browser
  BY HeadTailProperties DEF TypeOK
<1>2. TypeOK'
  BY <1>1, IndexAssumption DEF TypeOK
<1>3. CounterLag'
  BY DEF CounterLag, Requested, Outstanding, Lag
<1>4. ValuesLag'
  BY <1>1, Bounds DEF ValuesLag, Unsent, Lag
<1>5. DataAwaited' /\ LastRequestUndisturbed'
  BY DEF DataAwaited, LastRequestUndisturbed
<1>6. CopyInPeace'
  BY MatchIsLast DEF CopyInPeace, LastRequestUndisturbed, DataAwaited
<1> QED BY <1>2, <1>3, <1>4, <1>5, <1>6

\* TimeOut, CopyBus and Close only move the reader on.
LEMMA ReaderKeepsIInv ==
  ASSUME IInv, TimeOut \/ CopyBus \/ Close
  PROVE  IInv'
<1> USE DEF IInv, TimeOut, CopyBus, Close
<1>1. TypeOK'
  BY DEF TypeOK
<1>2. CounterLag' /\ ValuesLag'
  BY DEF CounterLag, ValuesLag, Requested, Outstanding, Unsent, Lag
<1>3. DataAwaited' /\ LastRequestUndisturbed' /\ CopyInPeace'
  BY DEF DataAwaited, LastRequestUndisturbed, CopyInPeace
<1> QED BY <1>1, <1>2, <1>3

LEMMA RendererReceiveKeepsIInv ==
  ASSUME IInv, RendererReceive
  PROVE  IInv'
<1> USE DEF IInv
<1>1. /\ renderer = "idle" /\ to_renderer \in Seq({"data", "pause"}) /\ to_renderer # << >>
      /\ to_renderer' = Tail(to_renderer)
      /\ UNCHANGED <<buffer_index, to_browser, reader, signal, counter, lost>>
      /\ \/ Head(to_renderer) = "data" /\ renderer' = "rendering" /\ bus' = Torn
         \/ Head(to_renderer) = "pause" /\ renderer' = "rendered" /\ bus' = bus
  BY DEF RendererReceive, TypeOK
<1>2. /\ to_renderer' \in Seq({"data", "pause"}) /\ Len(to_renderer') = Len(to_renderer) - 1
      /\ \A i \in 1 .. Len(to_renderer') : to_renderer'[i] = to_renderer[i + 1]
      /\ Len(to_renderer) \in Nat \ {0} /\ Head(to_renderer) = to_renderer[1]
  BY <1>1, HeadTailProperties, EmptySeq
<1>3. TypeOK'
  BY <1>1, <1>2, IndexAssumption DEF TypeOK
<1>4. Outstanding' = Outstanding
  BY <1>1, <1>2 DEF Outstanding
<1>5. CounterLag' /\ ValuesLag'
  BY <1>1, <1>4 DEF CounterLag, ValuesLag, Requested, Unsent, Lag
<1>6. LastRequestUndisturbed'
  <2> SUFFICES ASSUME lost = 0, reader \in {"sent", "requested"}, signal = "data"
               PROVE  LastRequestUndisturbed'
    BY <1>1 DEF LastRequestUndisturbed
  <2>1. to_renderer[Len(to_renderer)] = "data"
    BY <1>1 DEF LastRequestUndisturbed
  <2>2. to_renderer' # << >> => to_renderer'[Len(to_renderer')] = "data"
    BY <1>2, <2>1, EmptySeq
  <2>3. to_renderer' = << >> => renderer' = "rendering"
    <3>1. to_renderer' = << >> => Len(to_renderer) = 1
      BY <1>2
    <3> QED BY <1>1, <1>2, <2>1, <3>1
  <2> QED BY <2>2, <2>3 DEF LastRequestUndisturbed
<1>7. DataAwaited' /\ CopyInPeace'
  BY <1>1 DEF DataAwaited, CopyInPeace
<1> QED BY <1>3, <1>5, <1>6, <1>7

LEMMA RenderedKeepsIInv ==
  ASSUME IInv, Rendered
  PROVE  IInv'
<1> USE DEF IInv, Rendered
<1>1. TypeOK'
  BY SuccessorIs DEF TypeOK
<1>2. CounterLag' /\ ValuesLag'
  BY DEF CounterLag, ValuesLag, Requested, Outstanding, Unsent, Lag
<1>3. DataAwaited' /\ LastRequestUndisturbed' /\ CopyInPeace'
  BY DEF DataAwaited, LastRequestUndisturbed, CopyInPeace
<1> QED BY <1>1, <1>2, <1>3

LEMMA RendererSendKeepsIInv ==
  ASSUME IInv, RendererSend
  PROVE  IInv'
<1> USE DEF IInv
<1>1. /\ renderer = "rendered" /\ counter' = Successor(counter)
      /\ counter \in Index /\ counter' \in Index /\ to_browser \in Seq(Index)
      /\ UNCHANGED <<buffer_index, bus, to_renderer, reader, signal, lost>>
  BY SuccessorIs DEF RendererSend, TypeOK
<1>2. Outstanding' = Outstanding - 1 /\ Outstanding \in Nat \ {0}
  <2>1. renderer' \in {"idle", "ended"}
    BY DEF RendererSend
  <2> QED BY <1>1, <2>1, Bounds DEF Outstanding
<1>3. CounterLag'
  <2>1. Requested' = Requested /\ Requested # counter
    BY <1>1, <1>2, Bounds, LagIs DEF CounterLag, Requested
  <2> QED BY <1>1, <1>2, <2>1, Bounds, LagShrinks DEF CounterLag
<1>4. \A i \in DOMAIN to_browser :
        Lag(counter', to_browser[i]) = Len(to_browser) - i + 1
  <2> SUFFICES ASSUME NEW i \in DOMAIN to_browser
               PROVE  Lag(counter', to_browser[i]) = Len(to_browser) - i + 1
    OBVIOUS
  <2>1. to_browser[i] \in Index /\ i \in 1 .. Len(to_browser)
    BY <1>1
  <2>2. Lag(counter, to_browser[i]) = Len(to_browser) - i
    BY <1>1, <2>1 DEF ValuesLag, Unsent
  <2>3. Len(to_browser) - i < IndexSize - 1
    BY <1>2, <2>1, Bounds
  <2> QED BY <1>1, <2>1, <2>2, <2>3, LagGrows
<1>5. DataAwaited' /\ CopyInPeace'
  BY <1>1 DEF DataAwaited, CopyInPeace
<1>6. CASE Len(to_browser) < Capacity /\ to_browser' = Append(to_browser, counter') /\ renderer' = "idle"
  <2>1. /\ to_browser' \in Seq(Index) /\ Len(to_browser') = Len(to_browser) + 1
        /\ \A i \in 1 .. Len(to_browser) : to_browser'[i] = to_browser[i]
        /\ to_browser'[Len(to_browser')] = counter'
    BY <1>1, <1>6, AppendProperties
  <2>2. TypeOK'
    BY <1>1, <1>6, <2>1, IndexAssumption DEF TypeOK
  <2>3. ValuesLag'
    <3> SUFFICES ASSUME NEW i \in 1 .. Len(to_browser')
                 PROVE  Lag(counter', to_browser'[i]) = Len(to_browser') - i
      BY <1>6, <2>1 DEF ValuesLag, Unsent
    <3>1. CASE i = Len(to_browser')
      BY <1>1, <2>1, <3>1, LagIs
    <3>2. CASE i # Len(to_browser')
      BY <1>4, <2>1, <3>2, Bounds
    <3> QED BY <3>1, <3>2
  <2>4. LastRequestUndisturbed'
    BY <1>1, <1>6 DEF LastRequestUndisturbed
  <2> QED BY <1>3, <1>5, <2>2, <2>3, <2>4
<1>7. CASE Len(to_browser) = Capacity /\ renderer' = "ended" /\ to_browser' = to_browser
  <2>1. TypeOK'
    BY <1>1, <1>7, IndexAssumption DEF TypeOK
  <2>2. ValuesLag'
    BY <1>4, <1>7 DEF ValuesLag, Unsent
  <2>3. LastRequestUndisturbed'
    BY <1>1, <1>7 DEF LastRequestUndisturbed
  <2> QED BY <1>3, <1>5, <2>1, <2>2, <2>3
<1> QED BY <1>6, <1>7 DEF RendererSend

LEMMA StepKeepsIInv ==
  ASSUME IInv, [Next]_vars
  PROVE  IInv'
<1>1. ASSUME RequestMoreData PROVE IInv'
  BY <1>1, ZeroBusKeepsIInv, SendSignalKeepsIInv, StepIndexKeepsIInv DEF RequestMoreData
<1>2. ASSUME Read \/ Close PROVE IInv'
  BY <1>2, ReceiveIndexKeepsIInv, ReaderKeepsIInv DEF Read
<1>3. ASSUME Renderer PROVE IInv'
  BY <1>3, RendererReceiveKeepsIInv, RenderedKeepsIInv, RendererSendKeepsIInv DEF Renderer
<1>4. CASE UNCHANGED vars
  BY <1>4 DEF vars, IInv, TypeOK, CounterLag, ValuesLag, DataAwaited, LastRequestUndisturbed,
              CopyInPeace, Requested, Outstanding, Unsent, Lag
<1> QED BY <1>1, <1>2, <1>3, <1>4 DEF Next

LEMMA AlwaysIInv == Spec => []IInv
<1>1. IInv /\ [Next]_vars => IInv'
  BY StepKeepsIInv
<1> QED BY InitIInv, <1>1, PTL DEF Spec
-----------------------------------------------------------------------------
\* For counters of any width and sockets of any size, what Read copies is the
\* whole of the data rendered for the last request, and nobody is writing it
\* (WaitUntilDataIsReady, audio_sync_reader.cc:135, which compares indices alone).
THEOREM CopiesAreWholeAndLatest == Spec => []CopyIsWholeAndLatest
<1>1. IInv => CopyIsWholeAndLatest
  BY DEF IInv, CopyInPeace, CopyIsWholeAndLatest
<1> QED BY AlwaysIInv, <1>1, PTL

\* For counters of any width, the renderer's counter and buffer_index_ differ,
\* modulo the width, by the requests on their way and the signals lost
\* (RequestMoreData, audio_sync_reader.cc:108).
THEOREM CountersStayInStep == Spec => []CountersInStep
<1>1. IInv => CountersInStep
  <2> SUFFICES ASSUME IInv PROVE CountersInStep
    OBVIOUS
  <2>1. counter \in Index /\ counter \in Nat
    BY IndexAssumption DEF IInv, TypeOK, Index
  <2>2. counter + Outstanding + lost = counter + Lag(Requested, counter)
    BY <2>1, Bounds DEF IInv, CounterLag
  <2> QED BY <2>1, <2>2, Bounds, LagIsModulo DEF IInv, CountersInStep, Requested
<1> QED BY AlwaysIInv, <1>1, PTL

\* The indices stay below the width and the sockets within their capacity.
THEOREM TypeCorrect == Spec => []TypeOK
<1>1. IInv => TypeOK
  BY DEF IInv
<1> QED BY AlwaysIInv, <1>1, PTL
=============================================================================
