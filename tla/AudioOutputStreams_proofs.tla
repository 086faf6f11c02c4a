----------------------- MODULE AudioOutputStreams_proofs -----------------------
(***************************************************************************)
(* Proofs about the control of audio output streams, for any devices, any  *)
(* of them unknown to the host, with and without timeouts, and any number  *)
(* of streams.                                                             *)
(***************************************************************************)
EXTENDS AudioOutputStreams, SequenceTheorems, TLAPS

Delegate == [controller : {"creating", "created", "playing", "error"},
             play : BOOLEAN, foreign_socket : BOOLEAN, playing : BOOLEAN]
Posting == [kind : {"created", "playing", "error"}, stream : DOMAIN delegates]
DeviceStates == {"new", "authorizing", "authorized", "creating", "ready",
                 "playing", "failed", "closed", "timed out"}

\* A device without a stream is one that is new or closed; a stream is listened
\* to by the device that has it, so no two devices have the same.
OpenStreams ==
  \A d \in Devices :
    /\ stream_id[d] = NotSet <=> device[d] \in {"new", "closed", "timed out"}
    /\ stream_id[d] # NotSet =>
         stream_id[d] \in DOMAIN listeners /\ listeners[stream_id[d]] = d

\* Nothing is known yet of the next stream id.
IdsGivenOut ==
  DOMAIN listeners \cup authorizations \cup DOMAIN delegates \subseteq 1 .. last_id

\* The host knows of an authorization until its reply has come.
RepliesAwaited == replies \subseteq authorizations

\* A stream has no delegate, and so no notification, before it is created.
NotCreatedYet ==
  \A d \in Devices :
    device[d] \in {"authorizing", "authorized"} => stream_id[d] \notin DOMAIN delegates

\* Who has posted that he was created has been.
CreatedPosted ==
  \A id \in DOMAIN delegates :
    Posted("created", id) => delegates[id].controller # "creating"

IInv ==
  /\ TypeOK
  /\ ListenersAreOpenStreams
  /\ StagesAgree
  /\ OpenStreams
  /\ IdsGivenOut
  /\ RepliesAwaited
  /\ NotCreatedYet
  /\ CreatedPosted

\* How far the stream of one device has got: StagesAgree, device by device.
StageOf(d) ==
  /\ stream_created[d] <=> device[d] \in {"creating", "ready", "playing", "failed"}
  /\ stream_created[d] => stream_id[d] \in DOMAIN delegates
  /\ device[d] = "authorizing" /\ d \notin Named => stream_id[d] \in replies \cap authorizations
  /\ device[d] = "authorized" => stream_id[d] \in authorizations \ replies
  /\ device[d] = "creating" =>
       /\ delegates[stream_id[d]].foreign_socket
       /\ \/ delegates[stream_id[d]].controller = "creating"
          \/ Posted("created", stream_id[d]) \/ Posted("error", stream_id[d])
  /\ device[d] \in {"ready", "playing"} =>
       /\ ~delegates[stream_id[d]].foreign_socket
       /\ delegates[stream_id[d]].controller # "creating"

LEMMA StagesOneByOne ==
  /\ StagesAgree <=> \A d \in Devices : StageOf(d)
  /\ StagesAgree' <=> \A d \in Devices : StageOf(d)'
BY DEF StagesAgree, StageOf

\* What is posted is posted until it is taken up, and nothing else comes in.
LEMMA PostedAfterAppend ==
  ASSUME NEW S, io_tasks \in Seq(S), NEW e \in S, io_tasks' = Append(io_tasks, e),
         NEW kind, NEW id
  PROVE  Posted(kind, id)' <=> Posted(kind, id) \/ e = Event(kind, id)
<1>1. /\ Len(io_tasks) \in Nat /\ DOMAIN io_tasks = 1 .. Len(io_tasks)
      /\ DOMAIN io_tasks' = 1 .. Len(io_tasks) + 1
      /\ io_tasks'[Len(io_tasks) + 1] = e
      /\ \A i \in 1 .. Len(io_tasks) : io_tasks'[i] = io_tasks[i]
  BY AppendProperties
<1>2. Posted(kind, id) => Posted(kind, id)'
  BY <1>1 DEF Posted, Event
<1>3. e = Event(kind, id) => Posted(kind, id)'
  BY <1>1 DEF Posted, Event
<1>4. ASSUME Posted(kind, id)' PROVE Posted(kind, id) \/ e = Event(kind, id)
  <2>1. PICK i \in 1 .. Len(io_tasks) + 1 : io_tasks'[i] = Event(kind, id)
    BY <1>1, <1>4 DEF Posted, Event
  <2>2. CASE i = Len(io_tasks) + 1
    BY <1>1, <2>1, <2>2
  <2>3. CASE i \in 1 .. Len(io_tasks)
    BY <1>1, <2>1, <2>3 DEF Posted
  <2> QED BY <1>1, <2>2, <2>3
<1> QED BY <1>2, <1>3, <1>4

LEMMA PostedAfterTail ==
  ASSUME NEW S, io_tasks \in Seq(S), io_tasks # << >>, io_tasks' = Tail(io_tasks),
         NEW kind, NEW id
  PROVE  /\ Posted(kind, id)' => Posted(kind, id)
         /\ Posted(kind, id) => Posted(kind, id)' \/ Head(io_tasks) = Event(kind, id)
<1>1. /\ Len(io_tasks) \in Nat \ {0} /\ DOMAIN io_tasks = 1 .. Len(io_tasks)
      /\ Head(io_tasks) = io_tasks[1]
      /\ DOMAIN io_tasks' = 1 .. Len(io_tasks) - 1
      /\ \A i \in 1 .. Len(io_tasks) - 1 : io_tasks'[i] = io_tasks[i + 1]
  BY HeadTailProperties, EmptySeq
<1>2. ASSUME Posted(kind, id)' PROVE Posted(kind, id)
  <2>1. PICK i \in 1 .. Len(io_tasks) - 1 : io_tasks'[i] = Event(kind, id)
    BY <1>1, <1>2 DEF Posted, Event
  <2>2. i + 1 \in DOMAIN io_tasks /\ io_tasks[i + 1] = Event(kind, id)
    BY <1>1, <2>1
  <2> QED BY <2>2 DEF Posted
<1>3. ASSUME Posted(kind, id) PROVE Posted(kind, id)' \/ Head(io_tasks) = Event(kind, id)
  <2>1. PICK i \in 1 .. Len(io_tasks) : io_tasks[i] = Event(kind, id)
    BY <1>1, <1>3 DEF Posted
  <2>2. CASE i = 1
    BY <1>1, <2>1, <2>2
  <2>3. CASE i # 1
    <3>1. i - 1 \in 1 .. Len(io_tasks) - 1 /\ (i - 1) + 1 = i
      BY <1>1, <2>1, <2>3
    <3>2. i - 1 \in DOMAIN io_tasks' /\ io_tasks'[i - 1] = Event(kind, id)
      BY <1>1, <2>1, <3>1
    <3> QED BY <3>2 DEF Posted, Event
  <2> QED BY <2>2, <2>3
<1> QED BY <1>2, <1>3

LEMMA SeqGrows ==
  ASSUME NEW S, NEW T, S \subseteq T, NEW s \in Seq(S)
  PROVE  s \in Seq(T)
OBVIOUS

LEMMA PostedUnchanged ==
  ASSUME UNCHANGED io_tasks, NEW kind, NEW id
  PROVE  Posted(kind, id)' <=> Posted(kind, id)
BY DEF Posted, Event

\* The types, one by one.
LEMMA Types ==
  ASSUME TypeOK
  PROVE  /\ stream_id \in [Devices -> Nat] /\ \A d \in Devices : stream_id[d] \in 0 .. MaxStreams
         /\ stream_created \in [Devices -> BOOLEAN]
         /\ device \in [Devices -> DeviceStates]
         /\ DOMAIN listeners \subseteq Ids /\ \A id \in DOMAIN listeners : listeners[id] \in Devices
         /\ last_id \in Nat /\ last_id <= MaxStreams /\ MaxStreams \in Nat
         /\ authorizations \subseteq Ids /\ replies \subseteq Ids
         /\ DOMAIN delegates \subseteq Ids
         /\ \A id \in DOMAIN delegates : delegates[id] \in Delegate
         /\ io_tasks \in Seq(Posting)
         /\ Ids \subseteq Nat \ {0} /\ NotSet = 0
<1>1. MaxStreams \in Nat /\ Ids \subseteq Nat \ {0} /\ NotSet = 0 /\ Ids = 1 .. MaxStreams
  BY StreamAssumption DEF Ids, NotSet
<1>2. stream_id \in [Devices -> Nat] /\ \A d \in Devices : stream_id[d] \in 0 .. MaxStreams
  <2>1. \A i \in Ids \cup {NotSet} : i \in Nat /\ i \in 0 .. MaxStreams
    BY <1>1
  <2>2. stream_id \in [Devices -> Ids \cup {NotSet}]
    BY DEF TypeOK
  <2> QED BY <2>1, <2>2
<1>3. last_id \in Nat /\ last_id <= MaxStreams
  <2>1. last_id \in (1 .. MaxStreams) \cup {0}
    BY <1>1 DEF TypeOK
  <2> QED BY <1>1, <2>1
<1>4. stream_created \in [Devices -> BOOLEAN] /\ device \in [Devices -> DeviceStates]
  BY DEF TypeOK, DeviceStates
<1>5. io_tasks \in Seq(Posting) /\ \A id \in DOMAIN delegates : delegates[id] \in Delegate
  BY DEF TypeOK, Posting, Delegate
<1> QED BY <1>1, <1>2, <1>3, <1>4, <1>5 DEF TypeOK
-----------------------------------------------------------------------------
(* Calls of the devices *)

LEMMA InitIInv == Init => IInv
<1> SUFFICES ASSUME Init PROVE IInv
  OBVIOUS
<1> USE StreamAssumption DEF Init
<1>1. TypeOK
  <2>1. stream_id \in [Devices -> Ids \cup {NotSet}] /\ stream_created \in [Devices -> BOOLEAN]
    OBVIOUS
  <2>2. last_id \in Ids \cup {0} /\ io_tasks = << >>
    OBVIOUS
  <2>3. io_tasks \in Seq([kind : {"created", "playing", "error"}, stream : DOMAIN delegates])
    BY <2>2
  <2> QED BY <2>1, <2>2, <2>3 DEF TypeOK
<1>2. ListenersAreOpenStreams /\ OpenStreams /\ IdsGivenOut /\ RepliesAwaited
  BY DEF ListenersAreOpenStreams, OpenStreams, IdsGivenOut, RepliesAwaited
<1>3. NotCreatedYet /\ CreatedPosted
  BY DEF NotCreatedYet, CreatedPosted
<1>4. StagesAgree
  BY StagesOneByOne DEF StageOf
<1> QED BY <1>1, <1>2, <1>3, <1>4 DEF IInv

\* A device that gets a stream, or has got one already, is the one that listens
\* to it.
LEMMA StreamOpened ==
  ASSUME TypeOK, OpenStreams, ListenersAreOpenStreams,
         NEW d \in Devices, NEW id \in Ids,
         stream_id[d] \in {NotSet, id}, \A e \in Devices \ {d} : stream_id[e] # id,
         stream_id'[d] = id, \A e \in Devices \ {d} : stream_id'[e] = stream_id[e],
         DOMAIN listeners' = DOMAIN listeners \cup {id}, listeners'[id] = d,
         \A i \in DOMAIN listeners \ {id} : listeners'[i] = listeners[i],
         device'[d] \in {"authorizing", "creating"},
         \A e \in Devices \ {d} : device'[e] = device[e]
  PROVE  OpenStreams' /\ ListenersAreOpenStreams'
<1>1. id # NotSet
  BY Types
<1>2. ASSUME NEW e \in Devices
      PROVE  /\ stream_id'[e] = NotSet <=> device'[e] \in {"new", "closed", "timed out"}
             /\ stream_id'[e] # NotSet =>
                  stream_id'[e] \in DOMAIN listeners' /\ listeners'[stream_id'[e]] = e
  <2>1. CASE e = d
    <3>1. stream_id'[e] = id /\ device'[e] \in {"authorizing", "creating"}
      BY <2>1
    <3>2. id \in DOMAIN listeners' /\ listeners'[id] = e
      BY <2>1
    <3> QED BY <1>1, <3>1, <3>2
  <2>2. CASE e # d
    <3>1. /\ stream_id[e] = NotSet <=> device[e] \in {"new", "closed", "timed out"}
          /\ stream_id[e] # NotSet =>
               stream_id[e] \in DOMAIN listeners /\ listeners[stream_id[e]] = e
      BY DEF OpenStreams
    <3>2. stream_id'[e] = stream_id[e] /\ device'[e] = device[e] /\ stream_id[e] # id
      BY <2>2
    <3>3. \A i \in DOMAIN listeners \ {id} : i \in DOMAIN listeners' /\ listeners'[i] = listeners[i]
      OBVIOUS
    <3> QED BY <3>1, <3>2, <3>3
  <2> QED BY <2>1, <2>2
<1>3. ASSUME NEW i \in DOMAIN listeners' PROVE stream_id'[listeners'[i]] = i
  <2>1. CASE i = id
    BY <2>1
  <2>2. CASE i # id
    <3>1. i \in DOMAIN listeners /\ listeners'[i] = listeners[i] /\ listeners[i] \in Devices
      BY <2>2, Types
    <3>2. stream_id[listeners[i]] = i /\ i # NotSet
      BY <3>1, Types DEF ListenersAreOpenStreams
    <3>3. listeners[i] # d
      BY <2>2, <3>2
    <3> QED BY <3>1, <3>2, <3>3
  <2> QED BY <2>1, <2>2
<1>4. OpenStreams'
  BY <1>2 DEF OpenStreams, NotSet
<1>5. ListenersAreOpenStreams'
  BY <1>2, <1>3 DEF ListenersAreOpenStreams, NotSet
<1> QED BY <1>4, <1>5

LEMMA RequestIInv ==
  ASSUME IInv, NEW d \in Devices, RequestDeviceAuthorization(d)
  PROVE  IInv'
<1> DEFINE id == last_id + 1
<1>1. TypeOK /\ ListenersAreOpenStreams /\ OpenStreams /\ IdsGivenOut /\ RepliesAwaited
      /\ NotCreatedYet /\ CreatedPosted /\ \A e \in Devices : StageOf(e)
  BY StagesOneByOne DEF IInv
<1>2. /\ device[d] \in {"new", "closed"} /\ stream_id[d] = NotSet /\ id \in Ids
      /\ stream_id' = [stream_id EXCEPT ![d] = id]
      /\ DOMAIN listeners' = DOMAIN listeners \cup {id}
      /\ listeners'[id] = d /\ \A i \in DOMAIN listeners \ {id} : listeners'[i] = listeners[i]
      /\ last_id' = id
      /\ d \in Named => UNCHANGED <<authorizations, replies>>
      /\ d \notin Named => authorizations' = authorizations \cup {id}
                           /\ replies' = replies \cup {id}
      /\ device' = [device EXCEPT ![d] = "authorizing"]
      /\ UNCHANGED <<stream_created, delegates, io_tasks>>
  BY DEF RequestDeviceAuthorization, Listen
<1>3. /\ stream_id'[d] = id /\ device'[d] = "authorizing"
      /\ \A e \in Devices \ {d} : stream_id'[e] = stream_id[e] /\ device'[e] = device[e]
  BY <1>1, <1>2, Types
<1>4. id \notin DOMAIN listeners \cup authorizations \cup DOMAIN delegates \cup replies
      /\ id # NotSet
  BY <1>1, Types DEF IdsGivenOut, RepliesAwaited
<1> HIDE DEF id
<1>5. \A e \in Devices : stream_id[e] # id
  BY <1>1, <1>4 DEF OpenStreams
<1>6. TypeOK'
  <2>1. stream_id' \in [Devices -> Ids \cup {NotSet}] /\ stream_created' \in [Devices -> BOOLEAN]
    BY <1>1, <1>2 DEF TypeOK
  <2>2. device' \in [Devices -> DeviceStates]
    BY <1>1, <1>2, Types DEF DeviceStates
  <2>3. /\ DOMAIN listeners' \subseteq Ids /\ \A i \in DOMAIN listeners' : listeners'[i] \in Devices
        /\ last_id' \in Ids \cup {0} /\ authorizations' \subseteq Ids /\ replies' \subseteq Ids
    BY <1>1, <1>2 DEF TypeOK
  <2> QED BY <1>1, <1>2, <2>1, <2>2, <2>3 DEF TypeOK, DeviceStates
<1>7. OpenStreams' /\ ListenersAreOpenStreams'
  BY <1>1, <1>2, <1>3, <1>5, StreamOpened
<1>8. IdsGivenOut' /\ RepliesAwaited'
  BY <1>1, <1>2, <1>4, Types DEF IdsGivenOut, RepliesAwaited, id
<1>9. NotCreatedYet' /\ CreatedPosted'
  BY <1>1, <1>2, <1>3, <1>4, PostedUnchanged DEF NotCreatedYet, CreatedPosted
<1>10. ASSUME NEW e \in Devices PROVE StageOf(e)'
  <2>1. CASE e = d
    BY <1>1, <1>2, <1>3, <2>1 DEF StageOf
  <2>2. CASE e # d
    BY <1>1, <1>2, <1>3, <1>5, <2>2, PostedUnchanged DEF StageOf
  <2> QED BY <2>1, <2>2
<1> QED BY <1>1, <1>6, <1>7, <1>8, <1>9, <1>10, StagesOneByOne DEF IInv

LEMMA CreateIInv ==
  ASSUME IInv, NEW d \in Devices, CreateStream(d)
  PROVE  IInv'
<1> DEFINE id == IF stream_id[d] = NotSet THEN last_id + 1 ELSE stream_id[d]
<1>1. TypeOK /\ ListenersAreOpenStreams /\ OpenStreams /\ IdsGivenOut /\ RepliesAwaited
      /\ NotCreatedYet /\ CreatedPosted /\ \A e \in Devices : StageOf(e)
  BY StagesOneByOne DEF IInv
<1>2. /\ device[d] \in {"authorized", "closed"} /\ id \in Ids
      /\ stream_id' = [stream_id EXCEPT ![d] = id]
      /\ \/ stream_id[d] = NotSet /\ listeners' = Listen(d, id) /\ last_id' = id
         \/ stream_id[d] # NotSet /\ UNCHANGED <<listeners, last_id>>
      /\ authorizations' = authorizations \ {id}
      /\ DOMAIN delegates' = DOMAIN delegates \cup {id}
      /\ delegates'[id] = NewDelegate
      /\ \A i \in DOMAIN delegates \ {id} : delegates'[i] = delegates[i]
      /\ stream_created' = [stream_created EXCEPT ![d] = TRUE]
      /\ device' = [device EXCEPT ![d] = "creating"]
      /\ UNCHANGED <<replies, io_tasks>>
  BY DEF CreateStream
<1>3. /\ stream_id'[d] = id /\ device'[d] = "creating" /\ stream_created'[d]
      /\ \A e \in Devices \ {d} : stream_id'[e] = stream_id[e] /\ device'[e] = device[e]
                                  /\ (stream_created'[e] <=> stream_created[e])
  BY <1>1, <1>2, Types
<1>4. /\ id \notin DOMAIN delegates \cup replies /\ id # NotSet /\ stream_id[d] \in {NotSet, id}
      /\ id <= last_id' /\ last_id <= last_id' /\ last_id' \in Ids
      /\ \A e \in Devices \ {d} : stream_id[e] # id
      /\ DOMAIN listeners' = DOMAIN listeners \cup {id} /\ listeners'[id] = d
      /\ \A i \in DOMAIN listeners \ {id} : listeners'[i] = listeners[i]
  <2>1. CASE stream_id[d] = NotSet
    <3>1. id = last_id + 1 /\ last_id' = id /\ listeners' = Listen(d, id)
      BY <1>2, <2>1
    <3>2. id \notin DOMAIN listeners \cup DOMAIN delegates \cup replies /\ last_id <= id
      BY <1>1, <3>1, Types DEF IdsGivenOut, RepliesAwaited
    <3> HIDE DEF id
    <3>3. /\ DOMAIN listeners' = DOMAIN listeners \cup {id} /\ listeners'[id] = d
          /\ \A i \in DOMAIN listeners \ {id} : listeners'[i] = listeners[i]
      BY <3>1 DEF Listen
    <3>4. \A e \in Devices : stream_id[e] # id
      BY <1>1, <1>2, <3>2, Types DEF OpenStreams
    <3> QED BY <1>2, <2>1, <3>1, <3>2, <3>3, <3>4, Types, <1>1
  <2>2. CASE stream_id[d] # NotSet
    <3>1. id = stream_id[d] /\ UNCHANGED <<listeners, last_id>>
      BY <1>2, <2>2
    <3> HIDE DEF id
    <3>2. id \in DOMAIN listeners /\ listeners[id] = d /\ device[d] = "authorized"
      BY <1>1, <1>2, <2>2, <3>1 DEF OpenStreams
    <3>3. id \notin DOMAIN delegates \cup replies
      BY <1>1, <3>1, <3>2 DEF NotCreatedYet, StageOf
    <3>4. id <= last_id /\ last_id \in Ids
      BY <1>1, <1>2, <3>2, Types DEF IdsGivenOut, Ids
    <3>5. id # NotSet
      BY <2>2, <3>1
    <3>6. ASSUME NEW e \in Devices \ {d} PROVE stream_id[e] # id
      <4>1. stream_id[e] # NotSet => listeners[stream_id[e]] = e
        BY <1>1 DEF OpenStreams
      <4> QED BY <3>2, <3>5, <4>1
    <3>7. last_id \in Nat
      BY <1>1, Types
    <3>8. /\ DOMAIN listeners' = DOMAIN listeners \cup {id} /\ listeners'[id] = d
          /\ \A i \in DOMAIN listeners \ {id} : listeners'[i] = listeners[i]
      BY <3>1, <3>2
    <3> QED BY <3>1, <3>3, <3>4, <3>5, <3>6, <3>7, <3>8
  <2> QED BY <2>1, <2>2
<1> HIDE DEF id
<1>5. NewDelegate \in Delegate /\ NewDelegate.foreign_socket /\ NewDelegate.controller = "creating"
  BY DEF NewDelegate, Delegate
<1>6. TypeOK'
  <2>1. stream_id' \in [Devices -> Ids \cup {NotSet}] /\ stream_created' \in [Devices -> BOOLEAN]
    BY <1>1, <1>2 DEF TypeOK
  <2>2. device' \in [Devices -> DeviceStates]
    BY <1>1, <1>2, Types DEF DeviceStates
  <2>3. /\ DOMAIN listeners' \subseteq Ids /\ \A i \in DOMAIN listeners' : listeners'[i] \in Devices
        /\ last_id' \in Ids \cup {0} /\ authorizations' \subseteq Ids /\ replies' \subseteq Ids
    BY <1>1, <1>2, <1>4 DEF TypeOK
  <2>4. DOMAIN delegates' \subseteq Ids /\ \A i \in DOMAIN delegates' : delegates'[i] \in Delegate
    BY <1>1, <1>2, <1>5, Types
  <2>5. io_tasks' \in Seq([kind : {"created", "playing", "error"}, stream : DOMAIN delegates'])
    <3>1. Posting \subseteq [kind : {"created", "playing", "error"}, stream : DOMAIN delegates']
      BY <1>2 DEF Posting
    <3> QED BY <1>1, <1>2, <3>1, Types, SeqGrows
  <2> QED BY <2>1, <2>2, <2>3, <2>4, <2>5 DEF TypeOK, DeviceStates, Delegate
<1>7. OpenStreams' /\ ListenersAreOpenStreams'
  BY <1>1, <1>2, <1>3, <1>4, StreamOpened
<1>8. IdsGivenOut' /\ RepliesAwaited'
  BY <1>1, <1>2, <1>4, Types DEF IdsGivenOut, RepliesAwaited
<1>9. NotCreatedYet'
  BY <1>1, <1>2, <1>3, <1>4 DEF NotCreatedYet
<1>10. CreatedPosted'
  <2>1. ~Posted("created", id)
    <3>1. \A i \in DOMAIN io_tasks : io_tasks[i] \in Posting
      BY <1>1, Types
    <3> QED BY <1>4, <3>1 DEF Posted, Event, Posting
  <2> QED BY <1>1, <1>2, <2>1, PostedUnchanged DEF CreatedPosted
<1>11. ASSUME NEW e \in Devices PROVE StageOf(e)'
  <2>1. CASE e = d
    BY <1>1, <1>2, <1>3, <1>5, <2>1 DEF StageOf
  <2>2. CASE e # d
    <3>1. stream_id[e] # id
      BY <1>4, <2>2
    <3> QED BY <1>1, <1>2, <1>3, <2>2, <3>1, PostedUnchanged DEF StageOf
  <2> QED BY <2>1, <2>2
<1> QED BY <1>6, <1>7, <1>8, <1>9, <1>10, <1>11, StagesOneByOne DEF IInv

\* A step that neither opens nor closes a stream leaves the two maps in step.
LEMMA StreamsKept ==
  ASSUME IInv, UNCHANGED <<stream_id, listeners, last_id, authorizations>>,
         replies' \subseteq replies, DOMAIN delegates' = DOMAIN delegates,
         \A d \in Devices :
           /\ device'[d] \in {"new", "closed", "timed out"}
                <=> device[d] \in {"new", "closed", "timed out"}
           /\ device'[d] \in {"authorizing", "authorized"}
                => device[d] \in {"authorizing", "authorized"}
  PROVE  ListenersAreOpenStreams' /\ OpenStreams' /\ IdsGivenOut' /\ RepliesAwaited'
         /\ NotCreatedYet'
<1>1. ListenersAreOpenStreams'
  BY DEF IInv, ListenersAreOpenStreams, NotSet
<1>2. OpenStreams'
  BY DEF IInv, OpenStreams, NotSet
<1>3. IdsGivenOut' /\ RepliesAwaited'
  BY DEF IInv, IdsGivenOut, RepliesAwaited
<1>4. NotCreatedYet'
  BY DEF IInv, NotCreatedYet
<1> QED BY <1>1, <1>2, <1>3, <1>4

LEMMA PlayIInv ==
  ASSUME IInv, NEW d \in Devices, PlayStream(d)
  PROVE  IInv'
<1> DEFINE id == stream_id[d]
<1>1. TypeOK /\ CreatedPosted /\ \A e \in Devices : StageOf(e)
  BY StagesOneByOne DEF IInv
<1>2. /\ device[d] = "ready"
      /\ DOMAIN delegates' = DOMAIN delegates
      /\ \A i \in DOMAIN delegates :
           delegates'[i] = IF i = id THEN [delegates[i] EXCEPT !.play = TRUE] ELSE delegates[i]
      /\ device' = [device EXCEPT ![d] = IF id \in DOMAIN delegates THEN "playing" ELSE "failed"]
      /\ UNCHANGED <<stream_id, stream_created, listeners, last_id, authorizations,
                     replies, io_tasks>>
  BY DEF PlayStream
<1>3. \A i \in DOMAIN delegates : /\ delegates'[i] \in Delegate
                                  /\ delegates'[i].controller = delegates[i].controller
                                  /\ delegates'[i].foreign_socket <=> delegates[i].foreign_socket
  <2> TAKE i \in DOMAIN delegates
  <2>1. delegates[i] \in Delegate
    BY <1>1, Types
  <2>2. CASE i = id
    <3>1. delegates'[i] = [delegates[i] EXCEPT !.play = TRUE]
      BY <1>2, <2>2
    <3> QED BY <2>1, <3>1 DEF Delegate
  <2>3. CASE i # id
    BY <1>2, <2>1, <2>3
  <2> QED BY <2>2, <2>3
<1>4. device'[d] = "playing" /\ \A e \in Devices \ {d} : device'[e] = device[e]
  BY <1>1, <1>2, Types DEF StageOf
<1>5. TypeOK'
  <2>1. device' \in [Devices -> DeviceStates]
    BY <1>1, <1>2, Types DEF DeviceStates
  <2> QED BY <1>1, <1>2, <1>3, <2>1 DEF TypeOK, DeviceStates, Delegate
<1>6. ListenersAreOpenStreams' /\ OpenStreams' /\ IdsGivenOut' /\ RepliesAwaited' /\ NotCreatedYet'
  BY <1>2, <1>4, StreamsKept
<1>7. CreatedPosted'
  BY <1>1, <1>2, <1>3, PostedUnchanged DEF CreatedPosted
<1>8. ASSUME NEW e \in Devices PROVE StageOf(e)'
  <2>1. CASE e = d
    BY <1>1, <1>2, <1>3, <1>4, <2>1, PostedUnchanged DEF StageOf
  <2>2. CASE e # d
    BY <1>1, <1>2, <1>3, <1>4, <2>2, PostedUnchanged DEF StageOf
  <2> QED BY <2>1, <2>2
<1> QED BY <1>5, <1>6, <1>7, <1>8, StagesOneByOne DEF IInv

LEMMA PauseIInv ==
  ASSUME IInv, NEW d \in Devices, PauseStream(d)
  PROVE  IInv'
<1>1. TypeOK /\ CreatedPosted /\ \A e \in Devices : StageOf(e)
  BY StagesOneByOne DEF IInv
<1>2. /\ device[d] = "playing"
      /\ device' = [device EXCEPT ![d] = "ready"]
      /\ UNCHANGED <<stream_id, stream_created, listeners, last_id, authorizations,
                     replies, delegates, io_tasks>>
  BY DEF PauseStream
<1>3. device'[d] = "ready" /\ \A e \in Devices \ {d} : device'[e] = device[e]
  BY <1>1, <1>2, Types
<1>4. TypeOK'
  <2>1. device' \in [Devices -> DeviceStates]
    BY <1>1, <1>2, Types DEF DeviceStates
  <2> QED BY <1>1, <1>2, <2>1 DEF TypeOK, DeviceStates
<1>5. ListenersAreOpenStreams' /\ OpenStreams' /\ IdsGivenOut' /\ RepliesAwaited' /\ NotCreatedYet'
  BY <1>2, <1>3, StreamsKept
<1>6. CreatedPosted'
  BY <1>1, <1>2, PostedUnchanged DEF CreatedPosted
<1>7. ASSUME NEW e \in Devices PROVE StageOf(e)'
  <2>1. CASE e = d
    BY <1>1, <1>2, <1>3, <2>1, PostedUnchanged DEF StageOf
  <2>2. CASE e # d
    BY <1>1, <1>2, <1>3, <2>2, PostedUnchanged DEF StageOf
  <2> QED BY <2>1, <2>2
<1> QED BY <1>4, <1>5, <1>6, <1>7, StagesOneByOne DEF IInv

LEMMA CloseIInv ==
  ASSUME IInv, NEW d \in Devices, NEW state \in {"closed", "timed out"}, CloseStream(d, state)
  PROVE  IInv'
<1> DEFINE id == stream_id[d]
<1>1. TypeOK /\ ListenersAreOpenStreams /\ OpenStreams /\ IdsGivenOut /\ RepliesAwaited
      /\ NotCreatedYet /\ CreatedPosted /\ \A e \in Devices : StageOf(e)
  BY StagesOneByOne DEF IInv
<1>2. /\ id # NotSet
      /\ DOMAIN listeners' = DOMAIN listeners \ {id}
      /\ \A i \in DOMAIN listeners \ {id} : listeners'[i] = listeners[i]
      /\ stream_id' = [stream_id EXCEPT ![d] = NotSet]
      /\ stream_created' = [stream_created EXCEPT ![d] = FALSE]
      /\ device' = [device EXCEPT ![d] = state]
      /\ UNCHANGED <<last_id, authorizations, replies, delegates, io_tasks>>
  BY DEF CloseStream
<1>3. /\ stream_id'[d] = NotSet /\ device'[d] = state /\ ~stream_created'[d]
      /\ \A e \in Devices \ {d} : stream_id'[e] = stream_id[e] /\ device'[e] = device[e]
                                  /\ (stream_created'[e] <=> stream_created[e])
  BY <1>1, <1>2, Types
<1>4. listeners[id] = d /\ id \in DOMAIN listeners
  BY <1>1, <1>2 DEF OpenStreams
<1> HIDE DEF id
<1>5. TypeOK'
  <2>1. device' \in [Devices -> DeviceStates]
    BY <1>1, <1>2, Types DEF DeviceStates
  <2>2. stream_id' \in [Devices -> Ids \cup {NotSet}] /\ stream_created' \in [Devices -> BOOLEAN]
    BY <1>1, <1>2 DEF TypeOK
  <2>3. DOMAIN listeners' \subseteq Ids /\ \A i \in DOMAIN listeners' : listeners'[i] \in Devices
    BY <1>1, <1>2 DEF TypeOK
  <2> QED BY <1>1, <1>2, <2>1, <2>2, <2>3 DEF TypeOK, DeviceStates
<1>6. OpenStreams'
  <2>1. ASSUME NEW e \in Devices
        PROVE  /\ stream_id'[e] = NotSet <=> device'[e] \in {"new", "closed", "timed out"}
               /\ stream_id'[e] # NotSet =>
                    stream_id'[e] \in DOMAIN listeners' /\ listeners'[stream_id'[e]] = e
    <3>1. CASE e = d
      BY <1>3, <3>1
    <3>2. CASE e # d
      <4>1. /\ stream_id[e] = NotSet <=> device[e] \in {"new", "closed", "timed out"}
            /\ stream_id[e] # NotSet =>
                 stream_id[e] \in DOMAIN listeners /\ listeners[stream_id[e]] = e
        BY <1>1 DEF OpenStreams
      <4>2. stream_id'[e] = stream_id[e] /\ device'[e] = device[e]
        BY <1>3, <3>2
      <4>3. \A i \in DOMAIN listeners : listeners[i] = e =>
              i \in DOMAIN listeners' /\ listeners'[i] = listeners[i]
        BY <1>2, <1>4, <3>2
      <4> QED BY <4>1, <4>2, <4>3
    <3> QED BY <3>1, <3>2
  <2> QED BY <2>1 DEF OpenStreams, NotSet
<1>7. ListenersAreOpenStreams'
  <2>1. ASSUME NEW i \in DOMAIN listeners' PROVE stream_id'[listeners'[i]] = i
    <3>1. i \in DOMAIN listeners /\ i # id /\ listeners'[i] = listeners[i] /\ listeners[i] \in Devices
      BY <1>1, <1>2, Types
    <3>2. stream_id[listeners[i]] = i
      BY <1>1, <3>1 DEF ListenersAreOpenStreams
    <3>3. listeners[i] # d
      BY <3>1, <3>2 DEF id
    <3> QED BY <1>3, <3>1, <3>2, <3>3
  <2> QED BY <1>6, <2>1 DEF ListenersAreOpenStreams, OpenStreams, NotSet
<1>8. IdsGivenOut' /\ RepliesAwaited'
  BY <1>1, <1>2 DEF IdsGivenOut, RepliesAwaited
<1>9. NotCreatedYet' /\ CreatedPosted'
  BY <1>1, <1>2, <1>3, PostedUnchanged DEF NotCreatedYet, CreatedPosted
<1>10. ASSUME NEW e \in Devices PROVE StageOf(e)'
  <2>1. CASE e = d
    BY <1>1, <1>2, <1>3, <2>1 DEF StageOf
  <2>2. CASE e # d
    BY <1>1, <1>2, <1>3, <2>2, PostedUnchanged DEF StageOf
  <2> QED BY <2>1, <2>2
<1> QED BY <1>5, <1>6, <1>7, <1>8, <1>9, <1>10, StagesOneByOne DEF IInv

LEMMA CallIInv ==
  ASSUME IInv, NEW d \in Devices, Call(d)
  PROVE  IInv'
<1>1. CASE CloseStream(d, "closed")
  BY <1>1, CloseIInv
<1>2. CASE AuthorizationTimesOut(d)
  BY <1>2, CloseIInv DEF AuthorizationTimesOut
<1> QED BY <1>1, <1>2, RequestIInv, CreateIInv, PlayIInv, PauseIInv DEF Call
-----------------------------------------------------------------------------
(* Answers on the io thread *)

\* Who hears of the stream is the device that has it.
LEMMA Told ==
  ASSUME TypeOK, OpenStreams, ListenersAreOpenStreams,
         NEW id \in Ids, NEW waiting, NEW state \in DeviceStates, Tell(id, waiting, state)
  PROVE  /\ device' \in [Devices -> DeviceStates]
         /\ \A d \in Devices :
              \/ stream_id[d] = id /\ device[d] \in waiting /\ device'[d] = state
              \/ ~(stream_id[d] = id /\ device[d] \in waiting) /\ device'[d] = device[d]
<1>1. device' = [d \in Devices |->
                   IF id \in DOMAIN listeners /\ listeners[id] = d /\ device[d] \in waiting
                   THEN state ELSE device[d]]
  BY DEF Tell
<1>2. id # NotSet
  BY Types
<1>3. \A d \in Devices : stream_id[d] = id <=> id \in DOMAIN listeners /\ listeners[id] = d
  <2> TAKE d \in Devices
  <2>1. stream_id[d] = id => id \in DOMAIN listeners /\ listeners[id] = d
    BY <1>2 DEF OpenStreams
  <2>2. id \in DOMAIN listeners /\ listeners[id] = d => stream_id[d] = id
    BY DEF ListenersAreOpenStreams
  <2> QED BY <2>1, <2>2
<1>4. \A d \in Devices : device[d] \in DeviceStates
  BY Types
<1>5. device' \in [Devices -> DeviceStates]
  BY <1>1, <1>4
<1>6. ASSUME NEW d \in Devices
      PROVE  \/ stream_id[d] = id /\ device[d] \in waiting /\ device'[d] = state
             \/ ~(stream_id[d] = id /\ device[d] \in waiting) /\ device'[d] = device[d]
  <2>1. CASE stream_id[d] = id /\ device[d] \in waiting
    BY <1>1, <1>3, <2>1
  <2>2. CASE ~(stream_id[d] = id /\ device[d] \in waiting)
    BY <1>1, <1>3, <2>2
  <2> QED BY <2>1, <2>2
<1> QED BY <1>5, <1>6

LEMMA AuthorizedIInv ==
  ASSUME IInv, NEW id \in Ids, OnAuthorizationCompleted(id)
  PROVE  IInv'
<1>1. TypeOK /\ OpenStreams /\ ListenersAreOpenStreams /\ RepliesAwaited /\ CreatedPosted
      /\ \A e \in Devices : StageOf(e)
  BY StagesOneByOne DEF IInv
<1>2. /\ id \in replies /\ replies' = replies \ {id}
      /\ Tell(id, {"authorizing"}, "authorized")
      /\ UNCHANGED <<stream_id, stream_created, listeners, last_id, authorizations,
                     delegates, io_tasks>>
  BY DEF OnAuthorizationCompleted
<1>3. /\ device' \in [Devices -> DeviceStates]
      /\ \A d \in Devices :
           \/ stream_id[d] = id /\ device[d] = "authorizing" /\ device'[d] = "authorized"
           \/ ~(stream_id[d] = id /\ device[d] = "authorizing") /\ device'[d] = device[d]
  <2>1. "authorized" \in DeviceStates
    BY DEF DeviceStates
  <2> QED BY <1>1, <1>2, <2>1, Told
<1>4. TypeOK'
  BY <1>1, <1>2, <1>3 DEF TypeOK, DeviceStates
<1>5. ListenersAreOpenStreams' /\ OpenStreams' /\ IdsGivenOut' /\ RepliesAwaited' /\ NotCreatedYet'
  <2>1. \A d \in Devices :
          /\ device'[d] \in {"new", "closed", "timed out"}
               <=> device[d] \in {"new", "closed", "timed out"}
          /\ device'[d] \in {"authorizing", "authorized"}
               => device[d] \in {"authorizing", "authorized"}
    BY <1>3
  <2> QED BY <1>2, <2>1, StreamsKept
<1>6. CreatedPosted'
  BY <1>1, <1>2, PostedUnchanged DEF CreatedPosted
<1>7. ASSUME NEW e \in Devices PROVE StageOf(e)'
  <2>1. CASE stream_id[e] = id /\ device[e] = "authorizing"
    <3>1. device'[e] = "authorized" /\ id \in authorizations \ replies'
      BY <1>1, <1>2, <1>3, <2>1 DEF RepliesAwaited
    <3> QED BY <1>1, <1>2, <2>1, <3>1 DEF StageOf
  <2>2. CASE ~(stream_id[e] = id /\ device[e] = "authorizing")
    <3>1. device'[e] = device[e]
      BY <1>3, <2>2
    <3> QED BY <1>1, <1>2, <2>2, <3>1, PostedUnchanged DEF StageOf
  <2> QED BY <2>1, <2>2
<1> QED BY <1>4, <1>5, <1>6, <1>7, StagesOneByOne DEF IInv

\* The head of the queue is of a stream that has a delegate.
LEMMA HeadOfQueue ==
  ASSUME TypeOK, io_tasks # << >>, io_tasks' = Tail(io_tasks),
         DOMAIN delegates' = DOMAIN delegates
  PROVE  /\ Head(io_tasks).stream \in DOMAIN delegates
         /\ Head(io_tasks) = Event(Head(io_tasks).kind, Head(io_tasks).stream)
         /\ Posted(Head(io_tasks).kind, Head(io_tasks).stream)
         /\ io_tasks' \in Seq([kind : {"created", "playing", "error"},
                               stream : DOMAIN delegates'])
<1>1. io_tasks \in Seq(Posting)
  BY Types
<1>2. /\ Head(io_tasks) \in Posting /\ Tail(io_tasks) \in Seq(Posting)
      /\ 1 \in DOMAIN io_tasks /\ Head(io_tasks) = io_tasks[1]
  BY <1>1, HeadTailProperties, EmptySeq
<1>3. Head(io_tasks) = Event(Head(io_tasks).kind, Head(io_tasks).stream)
  BY <1>2 DEF Posting, Event
<1>4. Posted(Head(io_tasks).kind, Head(io_tasks).stream)
  BY <1>2, <1>3 DEF Posted
<1> QED BY <1>2, <1>3, <1>4 DEF Posting

LEMMA CreatedIInv ==
  ASSUME IInv, SendCreatedNotification
  PROVE  IInv'
<1> DEFINE id == Head(io_tasks).stream
<1>1. TypeOK /\ OpenStreams /\ ListenersAreOpenStreams /\ CreatedPosted
      /\ \A e \in Devices : StageOf(e)
  BY StagesOneByOne DEF IInv
<1>2. /\ io_tasks # << >> /\ Head(io_tasks).kind = "created" /\ io_tasks' = Tail(io_tasks)
      /\ delegates' = [delegates EXCEPT ![id].foreign_socket = FALSE]
      /\ Tell(id, {"creating"}, "ready") \/ TellError(id)
      /\ UNCHANGED <<stream_id, stream_created, listeners, last_id, authorizations, replies>>
  BY DEF SendCreatedNotification
<1>3. DOMAIN delegates' = DOMAIN delegates
  BY <1>2
<1>4. /\ id \in DOMAIN delegates /\ id \in Ids /\ Posted("created", id)
      /\ Head(io_tasks) = Event("created", id)
      /\ io_tasks' \in Seq([kind : {"created", "playing", "error"}, stream : DOMAIN delegates'])
  BY <1>1, <1>2, <1>3, HeadOfQueue, Types
<1> HIDE DEF id
<1>5. delegates[id].controller # "creating"
  BY <1>1, <1>4 DEF CreatedPosted
<1>6. \A i \in DOMAIN delegates : /\ delegates'[i] \in Delegate
                                  /\ delegates'[i].controller = delegates[i].controller
                                  /\ i # id => delegates'[i] = delegates[i]
                                  /\ i = id => ~delegates'[i].foreign_socket
  <2> TAKE i \in DOMAIN delegates
  <2>1. delegates[i] \in Delegate
    BY <1>1, Types
  <2>2. CASE i = id
    <3>1. delegates'[i] = [delegates[i] EXCEPT !.foreign_socket = FALSE]
      BY <1>2, <2>2
    <3> QED BY <2>1, <2>2, <3>1 DEF Delegate
  <2>3. CASE i # id
    <3>1. delegates'[i] = delegates[i]
      BY <1>2, <2>3
    <3> QED BY <2>1, <2>3, <3>1
  <2> QED BY <2>2, <2>3
<1>7. /\ device' \in [Devices -> DeviceStates]
      /\ \A d \in Devices :
           \/ stream_id[d] = id /\ device[d] = "creating" /\ device'[d] \in {"ready", "failed"}
           \/ stream_id[d] = id /\ device[d] \in {"ready", "playing"} /\ device'[d] = "failed"
           \/ ~(stream_id[d] = id /\ device[d] = "creating") /\ device'[d] = device[d]
  <2>1. "ready" \in DeviceStates /\ "failed" \in DeviceStates
    BY DEF DeviceStates
  <2>2. CASE Tell(id, {"creating"}, "ready")
    <3>1. /\ device' \in [Devices -> DeviceStates]
          /\ \A d \in Devices :
               \/ stream_id[d] = id /\ device[d] \in {"creating"} /\ device'[d] = "ready"
               \/ ~(stream_id[d] = id /\ device[d] \in {"creating"}) /\ device'[d] = device[d]
      BY <1>1, <1>4, <2>1, <2>2, Told
    <3> QED BY <3>1
  <2>3. CASE TellError(id)
    <3>1. /\ device' \in [Devices -> DeviceStates]
          /\ \A d \in Devices :
               \/ /\ stream_id[d] = id /\ device[d] \in {"creating", "ready", "playing"}
                  /\ device'[d] = "failed"
               \/ /\ ~(stream_id[d] = id /\ device[d] \in {"creating", "ready", "playing"})
                  /\ device'[d] = device[d]
      BY <1>1, <1>4, <2>1, <2>3, Told DEF TellError
    <3> QED BY <3>1
  <2> QED BY <1>2, <2>2, <2>3
<1>8. TypeOK'
  BY <1>1, <1>2, <1>3, <1>4, <1>6, <1>7 DEF TypeOK, DeviceStates, Delegate
<1>9. ListenersAreOpenStreams' /\ OpenStreams' /\ IdsGivenOut' /\ RepliesAwaited' /\ NotCreatedYet'
  <2>1. \A d \in Devices :
          /\ device'[d] \in {"new", "closed", "timed out"}
               <=> device[d] \in {"new", "closed", "timed out"}
          /\ device'[d] \in {"authorizing", "authorized"}
               => device[d] \in {"authorizing", "authorized"}
    BY <1>7
  <2> QED BY <1>2, <1>3, <2>1, StreamsKept
<1>10. io_tasks \in Seq(Posting)
  BY <1>1, Types
<1>11. CreatedPosted'
  <2> SUFFICES ASSUME NEW i \in DOMAIN delegates, Posted("created", i)'
               PROVE  delegates'[i].controller # "creating"
    BY <1>3 DEF CreatedPosted, Posted, Event
  <2>1. Posted("created", i)
    BY <1>2, <1>10, PostedAfterTail
  <2> QED BY <1>1, <1>6, <2>1 DEF CreatedPosted
<1>12. ASSUME NEW e \in Devices PROVE StageOf(e)'
  <2>1. stream_created[e] => stream_id[e] \in DOMAIN delegates
    BY <1>1 DEF StageOf
  <2>2. CASE stream_id[e] # id
    <3>1. device'[e] = device[e]
      BY <1>7, <2>2
    <3>2. /\ Posted("created", stream_id[e]) => Posted("created", stream_id[e])'
          /\ Posted("error", stream_id[e]) => Posted("error", stream_id[e])'
      <4> DEFINE i == stream_id[e]
      <4>1. stream_id'[e] = i
        BY <1>2
      <4>2. Head(io_tasks) # Event("created", i) /\ Head(io_tasks) # Event("error", i)
        BY <1>4, <2>2 DEF Event
      <4> QED BY <1>2, <1>10, <4>1, <4>2, PostedAfterTail DEF Posted
    <3> QED BY <1>1, <1>2, <1>3, <1>6, <2>1, <2>2, <3>1, <3>2 DEF StageOf
  <2>3. CASE stream_id[e] = id
    <3>1. device'[e] # "creating"
      BY <1>7, <2>3
    <3>2. device'[e] = device[e] \/ (device[e] \in {"creating", "ready", "playing"}
                                     /\ device'[e] \in {"ready", "failed"})
      BY <1>7
    <3> QED BY <1>1, <1>2, <1>3, <1>5, <1>6, <2>1, <2>3, <3>1, <3>2 DEF StageOf
  <2> QED BY <2>2, <2>3
<1> QED BY <1>8, <1>9, <1>11, <1>12, StagesOneByOne DEF IInv

LEMMA PlayingIInv ==
  ASSUME IInv, UpdatePlayingState
  PROVE  IInv'
<1> DEFINE id == Head(io_tasks).stream
<1>1. TypeOK /\ CreatedPosted /\ \A e \in Devices : StageOf(e)
  BY StagesOneByOne DEF IInv
<1>2. /\ io_tasks # << >> /\ Head(io_tasks).kind = "playing" /\ io_tasks' = Tail(io_tasks)
      /\ delegates' = [delegates EXCEPT ![id].playing = TRUE]
      /\ UNCHANGED <<stream_id, stream_created, device, listeners, last_id, authorizations,
                     replies>>
  BY DEF UpdatePlayingState
<1>3. DOMAIN delegates' = DOMAIN delegates
  BY <1>2
<1>4. /\ Head(io_tasks) = Event("playing", id)
      /\ io_tasks' \in Seq([kind : {"created", "playing", "error"}, stream : DOMAIN delegates'])
      /\ io_tasks \in Seq(Posting)
  BY <1>1, <1>2, <1>3, HeadOfQueue, Types
<1> HIDE DEF id
<1>5. \A i \in DOMAIN delegates : /\ delegates'[i] \in Delegate
                                  /\ delegates'[i].controller = delegates[i].controller
                                  /\ delegates'[i].foreign_socket <=> delegates[i].foreign_socket
  <2> TAKE i \in DOMAIN delegates
  <2>1. delegates[i] \in Delegate
    BY <1>1, Types
  <2>2. CASE i = id
    <3>1. delegates'[i] = [delegates[i] EXCEPT !.playing = TRUE]
      BY <1>2, <2>2
    <3> QED BY <2>1, <3>1 DEF Delegate
  <2>3. CASE i # id
    BY <1>2, <2>1, <2>3
  <2> QED BY <2>2, <2>3
<1>6. TypeOK'
  BY <1>1, <1>2, <1>3, <1>4, <1>5 DEF TypeOK, Delegate
<1>7. ListenersAreOpenStreams' /\ OpenStreams' /\ IdsGivenOut' /\ RepliesAwaited' /\ NotCreatedYet'
  BY <1>2, <1>3, StreamsKept
<1>8. ASSUME NEW kind \in {"created", "error"}, NEW i
      PROVE  Posted(kind, i)' <=> Posted(kind, i)
  <2>1. Head(io_tasks) # Event(kind, i)
    BY <1>4 DEF Event
  <2> QED BY <1>2, <1>4, <2>1, PostedAfterTail
<1>9. CreatedPosted'
  <2> SUFFICES ASSUME NEW i \in DOMAIN delegates, Posted("created", i)'
               PROVE  delegates'[i].controller # "creating"
    BY <1>3 DEF CreatedPosted, Posted, Event
  <2> QED BY <1>1, <1>5, <1>8 DEF CreatedPosted
<1>10. ASSUME NEW e \in Devices PROVE StageOf(e)'
  <2>1. stream_created[e] => stream_id[e] \in DOMAIN delegates
    BY <1>1 DEF StageOf
  <2>2. /\ Posted("created", stream_id[e]) => Posted("created", stream_id[e])'
        /\ Posted("error", stream_id[e]) => Posted("error", stream_id[e])'
    <3> DEFINE i == stream_id[e]
    <3>1. stream_id'[e] = i
      BY <1>2
    <3> QED BY <1>8, <3>1 DEF Posted
  <2> QED BY <1>1, <1>2, <1>3, <1>5, <2>1, <2>2 DEF StageOf
<1> QED BY <1>6, <1>7, <1>9, <1>10, StagesOneByOne DEF IInv

LEMMA ErrorIInv ==
  ASSUME IInv, OnError
  PROVE  IInv'
<1> DEFINE id == Head(io_tasks).stream
<1>1. TypeOK /\ OpenStreams /\ ListenersAreOpenStreams /\ CreatedPosted
      /\ \A e \in Devices : StageOf(e)
  BY StagesOneByOne DEF IInv
<1>2. /\ io_tasks # << >> /\ Head(io_tasks).kind = "error" /\ io_tasks' = Tail(io_tasks)
      /\ TellError(id)
      /\ UNCHANGED <<stream_id, stream_created, listeners, last_id, authorizations,
                     replies, delegates>>
  BY DEF OnError
<1>3. /\ id \in Ids /\ Head(io_tasks) = Event("error", id)
      /\ io_tasks' \in Seq([kind : {"created", "playing", "error"}, stream : DOMAIN delegates'])
      /\ io_tasks \in Seq(Posting)
  BY <1>1, <1>2, HeadOfQueue, Types
<1> HIDE DEF id
<1>4. /\ device' \in [Devices -> DeviceStates]
      /\ \A d \in Devices :
           \/ /\ stream_id[d] = id /\ device[d] \in {"creating", "ready", "playing"}
              /\ device'[d] = "failed"
           \/ /\ ~(stream_id[d] = id /\ device[d] \in {"creating", "ready", "playing"})
              /\ device'[d] = device[d]
  <2>1. "failed" \in DeviceStates
    BY DEF DeviceStates
  <2> QED BY <1>1, <1>2, <1>3, <2>1, Told DEF TellError
<1>5. TypeOK'
  BY <1>1, <1>2, <1>3, <1>4 DEF TypeOK, DeviceStates
<1>6. ListenersAreOpenStreams' /\ OpenStreams' /\ IdsGivenOut' /\ RepliesAwaited' /\ NotCreatedYet'
  <2>1. \A d \in Devices :
          /\ device'[d] \in {"new", "closed", "timed out"}
               <=> device[d] \in {"new", "closed", "timed out"}
          /\ device'[d] \in {"authorizing", "authorized"}
               => device[d] \in {"authorizing", "authorized"}
    BY <1>4
  <2> QED BY <1>2, <2>1, StreamsKept
<1>7. CreatedPosted'
  <2> SUFFICES ASSUME NEW i \in DOMAIN delegates, Posted("created", i)'
               PROVE  delegates'[i].controller # "creating"
    BY <1>2 DEF CreatedPosted, Posted, Event
  <2>1. Posted("created", i)
    BY <1>2, <1>3, PostedAfterTail
  <2> QED BY <1>1, <1>2, <2>1 DEF CreatedPosted
<1>8. ASSUME NEW e \in Devices PROVE StageOf(e)'
  <2>1. CASE stream_id[e] # id
    <3>1. device'[e] = device[e]
      BY <1>4, <2>1
    <3>2. /\ Posted("created", stream_id[e]) => Posted("created", stream_id[e])'
          /\ Posted("error", stream_id[e]) => Posted("error", stream_id[e])'
      <4> DEFINE i == stream_id[e]
      <4>1. stream_id'[e] = i
        BY <1>2
      <4>2. Head(io_tasks) # Event("created", i) /\ Head(io_tasks) # Event("error", i)
        BY <1>3, <2>1 DEF Event
      <4> QED BY <1>2, <1>3, <4>1, <4>2, PostedAfterTail DEF Posted
    <3> QED BY <1>1, <1>2, <2>1, <3>1, <3>2 DEF StageOf
  <2>2. CASE stream_id[e] = id
    <3>1. device'[e] \notin {"creating", "ready", "playing"}
      BY <1>4, <2>2
    <3>2. device'[e] = device[e] \/ (device[e] \in {"creating", "ready", "playing"}
                                     /\ device'[e] = "failed")
      BY <1>4
    <3> QED BY <1>1, <1>2, <2>2, <3>1, <3>2 DEF StageOf
  <2> QED BY <2>1, <2>2
<1> QED BY <1>5, <1>6, <1>7, <1>8, StagesOneByOne DEF IInv
-----------------------------------------------------------------------------
(* The controllers *)

\* A controller leaves its state for good and, when it leaves the first one, says
\* so.
LEMMA ControllerIInv ==
  ASSUME IInv, NEW id \in Ids,
         NEW from, NEW to \in {"created", "playing", "error"},
         NEW kind \in {"created", "playing", "error"},
         Controller(id, from, to, kind),
         "creating" \in from => kind \in {"created", "error"}
  PROVE  IInv'
<1> DEFINE event == Event(kind, id)
<1>1. TypeOK /\ CreatedPosted /\ \A e \in Devices : StageOf(e)
  BY StagesOneByOne DEF IInv
<1>2. /\ id \in DOMAIN delegates /\ delegates[id].controller \in from
      /\ delegates' = [delegates EXCEPT ![id].controller = to]
      /\ io_tasks' = Append(io_tasks, event)
      /\ UNCHANGED <<stream_id, stream_created, device, listeners, last_id, authorizations,
                     replies>>
  BY DEF Controller
<1>3. DOMAIN delegates' = DOMAIN delegates
  BY <1>2
<1>4. event \in Posting /\ io_tasks \in Seq(Posting) /\ io_tasks' \in Seq(Posting)
  <2>1. event \in Posting
    BY <1>2 DEF Posting, Event
  <2>2. io_tasks \in Seq(Posting)
    BY <1>1, Types
  <2> HIDE DEF event
  <2> QED BY <1>2, <2>1, <2>2, AppendProperties
<1> HIDE DEF event
<1>5. \A i \in DOMAIN delegates : /\ delegates'[i] \in Delegate
                                  /\ delegates'[i].foreign_socket <=> delegates[i].foreign_socket
                                  /\ i # id => delegates'[i] = delegates[i]
                                  /\ i = id => delegates'[i].controller # "creating"
  <2> TAKE i \in DOMAIN delegates
  <2>1. delegates[i] \in Delegate
    BY <1>1, Types
  <2>2. CASE i = id
    <3>1. delegates'[i] = [delegates[i] EXCEPT !.controller = to]
      BY <1>2, <2>2
    <3> QED BY <2>1, <2>2, <3>1 DEF Delegate
  <2>3. CASE i # id
    BY <1>2, <2>1, <2>3
  <2> QED BY <2>2, <2>3
<1>6. TypeOK'
  BY <1>1, <1>2, <1>3, <1>4, <1>5 DEF TypeOK, Delegate, Posting
<1>7. ListenersAreOpenStreams' /\ OpenStreams' /\ IdsGivenOut' /\ RepliesAwaited' /\ NotCreatedYet'
  BY <1>2, <1>3, StreamsKept
<1>8. ASSUME NEW k, NEW i
      PROVE  Posted(k, i)' <=> Posted(k, i) \/ event = Event(k, i)
  BY <1>2, <1>4, PostedAfterAppend
<1>9. CreatedPosted'
  <2> SUFFICES ASSUME NEW i \in DOMAIN delegates, Posted("created", i)'
               PROVE  delegates'[i].controller # "creating"
    BY <1>3 DEF CreatedPosted, Posted, Event
  <2>1. CASE i = id
    BY <1>5, <2>1
  <2>2. CASE i # id
    <3>1. event # Event("created", i)
      BY <2>2 DEF event, Event
    <3> QED BY <1>1, <1>5, <1>8, <2>2, <3>1 DEF CreatedPosted
  <2> QED BY <2>1, <2>2
<1>10. ASSUME NEW e \in Devices PROVE StageOf(e)'
  <2>1. stream_created[e] => stream_id[e] \in DOMAIN delegates
    BY <1>1 DEF StageOf
  <2>2. /\ Posted("created", stream_id[e]) => Posted("created", stream_id[e])'
        /\ Posted("error", stream_id[e]) => Posted("error", stream_id[e])'
    <3> DEFINE i == stream_id[e]
    <3>1. stream_id'[e] = i
      BY <1>2
    <3> QED BY <1>8, <3>1 DEF Posted
  <2>3. CASE stream_id[e] # id
    BY <1>1, <1>2, <1>3, <1>5, <2>1, <2>2, <2>3 DEF StageOf
  <2>4. CASE stream_id[e] = id
    <3>1. stream_id[e] \in DOMAIN delegates /\ delegates'[stream_id[e]].controller # "creating"
      BY <1>2, <1>5, <2>4
    <3>2. \/ Posted("created", stream_id[e])' \/ Posted("error", stream_id[e])'
          \/ delegates[id].controller # "creating"
      <4>1. stream_id'[e] = id
        BY <1>2, <2>4
      <4>2. "creating" \in from => Posted("created", id)' \/ Posted("error", id)'
        BY <1>8 DEF event, Event
      <4> QED BY <1>2, <4>1, <4>2 DEF Posted
    <3> QED BY <1>1, <1>2, <1>3, <1>5, <2>1, <2>2, <2>4, <3>1, <3>2 DEF StageOf
  <2> QED BY <2>3, <2>4
<1> QED BY <1>6, <1>7, <1>9, <1>10, StagesOneByOne DEF IInv
-----------------------------------------------------------------------------
(* The theorems *)

LEMMA UnchangedIInv == ASSUME IInv, UNCHANGED vars PROVE IInv'
<1> USE DEF vars
<1>1. TypeOK'
  BY DEF IInv, TypeOK
<1>2. ListenersAreOpenStreams' /\ OpenStreams' /\ IdsGivenOut' /\ RepliesAwaited' /\ NotCreatedYet'
  BY StreamsKept
<1>3. CreatedPosted' /\ StagesAgree'
  BY PostedUnchanged DEF IInv, CreatedPosted, StagesAgree, Posted, Event
<1> QED BY <1>1, <1>2, <1>3 DEF IInv

LEMMA StepIInv == ASSUME IInv, [Next]_vars PROVE IInv'
<1>1. ASSUME NEW d \in Devices, Call(d) PROVE IInv'
  BY <1>1, CallIInv
<1>2. ASSUME NEW id \in Ids, OnAuthorizationCompleted(id) PROVE IInv'
  BY <1>2, AuthorizedIInv
<1>3. CASE Notification
  BY <1>3, CreatedIInv, PlayingIInv, ErrorIInv DEF Notification
<1>4. ASSUME NEW id \in Ids, OnControllerCreated(id) PROVE IInv'
  BY <1>4, ControllerIInv DEF OnControllerCreated
<1>5. ASSUME NEW id \in Ids, OnControllerPlaying(id) PROVE IInv'
  BY <1>5, ControllerIInv DEF OnControllerPlaying
<1>6. ASSUME NEW id \in Ids, OnControllerError(id) PROVE IInv'
  BY <1>6, ControllerIInv DEF OnControllerError
<1> QED BY <1>1, <1>2, <1>3, <1>4, <1>5, <1>6, UnchangedIInv DEF Next

LEMMA AlwaysIInv == Spec => []IInv
BY InitIInv, StepIInv, PTL DEF Spec

\* For any devices and any number of streams the variables keep their types; in
\* particular what is posted names a stream the host has a delegate for, so that
\* no notification is about an unknown stream (AudioOutputDelegateImpl).
THEOREM TypeCorrect == Spec => []TypeOK
<1>1. IInv => TypeOK
  BY DEF IInv
<1> QED BY <1>1, AlwaysIInv, PTL

\* The message filter's map holds exactly the open streams, each under its own
\* device, however many were closed or timed out before: an answer never goes to
\* a device that has another stream by now (audio_message_filter.cc:157).
THEOREM ListenersRight == Spec => []ListenersAreOpenStreams
<1>1. IInv => ListenersAreOpenStreams
  BY DEF IInv
<1> QED BY <1>1, AlwaysIInv, PTL

\* Client, host and delegate agree how far each stream has got, whatever late
\* answers are under way: who waits for an authorization or a stream has an answer
\* to come, and who has been told it is ready has a delegate that is.
THEOREM StagesAlwaysAgree == Spec => []StagesAgree
<1>1. IInv => StagesAgree
  BY DEF IInv
<1> QED BY <1>1, AlwaysIInv, PTL
=============================================================================
