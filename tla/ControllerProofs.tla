-------------------------- MODULE ControllerProofs --------------------------
(***************************************************************************)
(* Proofs about Controller and TrackMap: the types, that the active haptic *)
(* track is always registered, and, as long as the host does not renumber  *)
(* its tracks, that it is the one of the selected track and that answers   *)
(* show the track that was selected when they were asked for; where a      *)
(* request is at any time, that m_pool does what TaskPool promises, and    *)
(* what becomes of the poll and of the connection check.                   *)
(***************************************************************************)
EXTENDS Controller, TLAPS

-----------------------------------------------------------------------------
(* The map.                                                                *)

(* What the actions of the map change, without the controller.             *)
MapNext ==
  \/ \E t \in MediaTracks : InsertTrack(t) \/ DeleteTrack(t)
  \/ \E t \in AnyTrack : t \in Present \union {Master, NoTrack} /\ Select(t)

(* A step of the controller changes the map as MapNext says, or not at all.*)
LEMMA StepOfMap ==
  ASSUME MapTypeOK, [Next]_vars
  PROVE  MapNext \/ UNCHANGED mapVars
<1>1. CASE EditTracks
  BY <1>1 DEF EditTracks, MapNext
<1>2. CASE OnTrackSelection
  <2>1. Present \subseteq MediaTracks
    BY DEF MapTypeOK, Present
  <2>2. PICK t \in Present \union {Master, NoTrack} : Select(t)
    BY <1>2 DEF OnTrackSelection
  <2> QED
    BY <2>1, <2>2 DEF MapNext, AnyTrack
<1>3. CASE SendPacket \/ AnswerPing
  BY <1>3 DEF SendPacket, AnswerPing
<1>4. CASE Run
  BY <1>4 DEF Run, Receive, HandleMessage, HandlePixels, HandleSetMode, HandleFlushMap,
              HandlePingAck, HandleOther, HandleMalformed, Poll
<1>5. CASE \E th \in Threads : Task(th)
  BY <1>5 DEF Task, TakeTask, SendPixels
<1>6. CASE StartCheck \/ EndCheck
  BY <1>6 DEF StartCheck, EndCheck
<1>7. CASE UNCHANGED vars
  BY <1>7 DEF vars
<1> QED
  BY <1>1, <1>2, <1>3, <1>4, <1>5, <1>6, <1>7 DEF Next

(* A track's number is one that IP_TRACKNUMBER may be.                     *)
LEMMA NumberOfTrack ==
  ASSUME MapTypeOK, NEW t \in AnyTrack
  PROVE  /\ TrackNumber(t) \in Nat \union {MasterNumber}
         /\ TrackNumber(t) = MasterNumber <=> t = Master
         /\ TrackNumber(t) # MasterNumber /\ t \in Present =>
              TrackNumber(t) \in DOMAIN order /\ order[TrackNumber(t)] = t
         /\ t # Master /\ t \notin Present => TrackNumber(t) = NotFound
<1>1. DOMAIN order = 1 .. Len(order) /\ Len(order) \in Nat
  BY DEF MapTypeOK
<1>2. ASSUME t # Master, t \in Present
      PROVE  TrackNumber(t) \in DOMAIN order /\ order[TrackNumber(t)] = t
  <2>1. PICK i \in DOMAIN order : order[i] = t
    BY <1>2 DEF Present
  <2> QED
    BY <1>2, <2>1 DEF TrackNumber
<1> QED
  BY <1>1, <1>2 DEF TrackNumber, MasterNumber, NotFound

(* add(t) registers the number of t and leaves the others alone.           *)
LEMMA AddedRegisters ==
  ASSUME NEW t
  PROVE  /\ DOMAIN Added(t) = DOMAIN tracks \union {TrackNumber(t)}
         /\ \A n \in DOMAIN tracks : Added(t)[n] = tracks[n]
         /\ TrackNumber(t) \notin DOMAIN tracks =>
              Added(t)[TrackNumber(t)] = IF TrackNumber(t) = NotFound THEN NoTrack ELSE t
  BY DEF Added

LEMMA MapTypeStep ==
  ASSUME TracksAssumption, MapTypeOK, MapNext \/ UNCHANGED mapVars
  PROVE  MapTypeOK'
<1>1. ASSUME NEW t \in MediaTracks, InsertTrack(t)
      PROVE  MapTypeOK'
  <2>1. order' \in Seq(MediaTracks)
    <3>1. CASE order' = Append(order, t)
      BY <1>1, <3>1 DEF MapTypeOK
    <3>2. ASSUME NEW i \in 1 .. Len(order), order' = InsertAt(order, i, t)
          PROVE  order' \in Seq(MediaTracks)
      <4>1. SubSeq(order, 1, i - 1) \in Seq(MediaTracks)
        BY <3>2 DEF MapTypeOK
      <4>2. SubSeq(order, i, Len(order)) \in Seq(MediaTracks)
        BY <3>2 DEF MapTypeOK
      <4>3. <<t>> \in Seq(MediaTracks)
        OBVIOUS
      <4> QED
        BY <3>2, <4>1, <4>2, <4>3 DEF InsertAt
    <3> QED
      BY <1>1, <3>1, <3>2 DEF InsertTrack
  <2> QED
    BY <1>1, <2>1 DEF InsertTrack, MapTypeOK
<1>2. ASSUME NEW t \in MediaTracks, DeleteTrack(t)
      PROVE  MapTypeOK'
  <2>1. PICK i \in DOMAIN order : order' = RemoveAt(order, i)
    BY <1>2 DEF DeleteTrack
  <2>2. SubSeq(order, 1, i - 1) \in Seq(MediaTracks)
    BY <2>1 DEF MapTypeOK
  <2>3. SubSeq(order, i + 1, Len(order)) \in Seq(MediaTracks)
    BY <2>1 DEF MapTypeOK
  <2>4. order' \in Seq(MediaTracks)
    BY <2>1, <2>2, <2>3 DEF RemoveAt
  <2> QED
    BY <1>2, <2>4 DEF DeleteTrack, MapTypeOK
<1>3. ASSUME NEW t \in AnyTrack, Select(t)
      PROVE  MapTypeOK'
  <2>1. TrackNumber(t) \in Nat \union {MasterNumber}
    BY NumberOfTrack
  <2>2. tracks' = Added(t) /\ active_track' = TrackNumber(t) /\ selected' = t /\ order' = order
    BY <1>3 DEF Select
  <2>3. \A n \in DOMAIN tracks' : tracks'[n] \in AnyTrack
    <3>1. NoTrack \in AnyTrack
      BY DEF AnyTrack
    <3>2. \A n \in DOMAIN tracks : Added(t)[n] \in AnyTrack
      BY AddedRegisters DEF MapTypeOK
    <3>3. TrackNumber(t) \notin DOMAIN tracks => Added(t)[TrackNumber(t)] \in AnyTrack
      BY <3>1, AddedRegisters
    <3>4. DOMAIN Added(t) = DOMAIN tracks \union {TrackNumber(t)}
      BY AddedRegisters
    <3>5. \A n \in DOMAIN Added(t) : Added(t)[n] \in AnyTrack
      BY <3>2, <3>3, <3>4, Zenon
    <3> QED
      BY <2>2, <3>5, Zenon
  <2>4. DOMAIN tracks' \subseteq Nat \union {MasterNumber}
    <3>1. DOMAIN tracks \subseteq Nat \union {MasterNumber}
      BY DEF MapTypeOK
    <3>2. DOMAIN Added(t) = DOMAIN tracks \union {TrackNumber(t)}
      BY AddedRegisters
    <3>3. DOMAIN Added(t) \subseteq Nat \union {MasterNumber}
      BY <2>1, <3>1, <3>2
    <3> QED
      BY <2>2, <3>3
  <2> QED
    BY <2>1, <2>2, <2>3, <2>4 DEF MapTypeOK
<1>4. CASE UNCHANGED mapVars
  BY <1>4 DEF mapVars, MapTypeOK
<1> QED
  BY <1>1, <1>2, <1>3, <1>4 DEF MapNext

LEMMA MapTypeInit == MapInit => MapTypeOK
  BY DEF MapInit, MapTypeOK, MasterNumber, AnyTrack

LEMMA MapTypeCorrect == Safety => []MapTypeOK
<1>1. Init => MapTypeOK
  BY MapTypeInit DEF Init
<1>2. MapTypeOK /\ [Next]_vars => MapTypeOK'
  BY StepOfMap, MapTypeStep, TracksAssumption
<1> QED
  BY <1>1, <1>2, PTL DEF Safety

(* The number of the active haptic track is registered as soon as there is *)
(* one, so active() never throws, however the host renumbers its tracks.   *)
THEOREM ActiveAlwaysRegistered == Safety => []ActiveIsRegistered
<1>1. Init => ActiveIsRegistered
  BY DEF Init, MapInit, ActiveIsRegistered
<1>2. ASSUME MapTypeOK, ActiveIsRegistered, [Next]_vars
      PROVE  ActiveIsRegistered'
  <2>1. ASSUME NEW t, Select(t)
        PROVE  ActiveIsRegistered'
    BY <2>1, AddedRegisters DEF Select, ActiveIsRegistered
  <2>2. CASE UNCHANGED <<tracks, active_track>>
    BY <1>2, <2>2 DEF ActiveIsRegistered
  <2> QED
    BY <1>2, <2>1, <2>2, StepOfMap DEF MapNext, mapVars, InsertTrack, DeleteTrack
<1> QED
  BY <1>1, <1>2, MapTypeCorrect, PTL DEF Safety

-----------------------------------------------------------------------------
(* Without renumbering.                                                    *)

(* What is registered under n as long as numbers do not change.            *)
RegisteredAs(n) ==
  IF n = MasterNumber THEN Master ELSE IF n = NotFound THEN NoTrack ELSE order[n]

MapInv ==
  /\ \A i, j \in DOMAIN order : order[i] = order[j] => i = j
  /\ DOMAIN tracks \subseteq DOMAIN order \union {MasterNumber, NotFound}
  /\ \A n \in DOMAIN tracks : tracks[n] = RegisteredAs(n)
  /\ DOMAIN tracks = {} => selected = NoTrack
  /\ DOMAIN tracks # {} => active_track \in DOMAIN tracks /\ tracks[active_track] = selected

LEMMA MapInvStep ==
  ASSUME TracksAssumption, ~Renumbering, MapTypeOK, MapInv, MapNext \/ UNCHANGED mapVars
  PROVE  MapInv'
<1>0. DOMAIN order = 1 .. Len(order) /\ Len(order) \in Nat
  BY DEF MapTypeOK
<1>1. ASSUME NEW t \in MediaTracks, InsertTrack(t)
      PROVE  MapInv'
  <2>1. order' = Append(order, t) /\ t \notin Present
    BY <1>1 DEF InsertTrack
  <2>2. DOMAIN order' = DOMAIN order \union {Len(order) + 1}
    BY <2>1, <1>0 DEF MapTypeOK
  <2>3. \A i \in DOMAIN order : order'[i] = order[i]
    BY <2>1, <1>0 DEF MapTypeOK
  <2>4. order'[Len(order) + 1] = t
    BY <2>1, <1>0 DEF MapTypeOK
  <2>5. \A i, j \in DOMAIN order' : order'[i] = order'[j] => i = j
    BY <2>1, <2>2, <2>3, <2>4 DEF MapInv, Present
  <2>6. \A n \in DOMAIN tracks : RegisteredAs(n)' = RegisteredAs(n)
    BY <2>3 DEF MapInv, RegisteredAs
  <2> QED
    BY <1>1, <2>2, <2>5, <2>6 DEF MapInv, InsertTrack
<1>2. ASSUME NEW t \in MediaTracks, DeleteTrack(t)
      PROVE  MapInv'
  BY <1>2 DEF DeleteTrack
<1>3. ASSUME NEW t \in AnyTrack, t \in Present \union {Master, NoTrack}, Select(t)
      PROVE  MapInv'
  <2> DEFINE n == TrackNumber(t)
  <2>1. tracks' = Added(t) /\ active_track' = n /\ selected' = t /\ order' = order
    BY <1>3 DEF Select
  <2>2. n \in DOMAIN order \union {MasterNumber, NotFound} /\ RegisteredAs(n) = t
    <3>1. CASE t = Master
      BY <3>1 DEF TrackNumber, RegisteredAs
    <3>2. CASE t # Master /\ t \in Present
      <4>1. n \in DOMAIN order /\ order[n] = t
        BY <3>2, NumberOfTrack
      <4> QED
        BY <4>1, <1>0 DEF RegisteredAs, MasterNumber, NotFound
    <3>3. CASE t # Master /\ t \notin Present
      <4>1. t = NoTrack /\ n = NotFound
        BY <1>3, <3>3, NumberOfTrack
      <4> QED
        BY <4>1 DEF RegisteredAs, MasterNumber, NotFound
    <3> QED
      BY <3>1, <3>2, <3>3
  <2>3. DOMAIN tracks' = DOMAIN tracks \union {n}
    BY <2>1, AddedRegisters
  <2>4. \A m \in DOMAIN tracks' : tracks'[m] = RegisteredAs(m)
    <3>1. ASSUME n \notin DOMAIN tracks
          PROVE  tracks'[n] = RegisteredAs(n)
      <4>1. n = NotFound => RegisteredAs(n) = NoTrack
        BY DEF RegisteredAs, NotFound, MasterNumber
      <4> QED
        BY <2>1, <2>2, <3>1, <4>1, AddedRegisters
    <3>2. \A m \in DOMAIN tracks : tracks'[m] = RegisteredAs(m)
      BY <2>1, AddedRegisters DEF MapInv
    <3> QED
      BY <2>3, <3>1, <3>2
  <2>5. \A m : RegisteredAs(m)' = RegisteredAs(m)
    BY <2>1 DEF RegisteredAs
  <2> QED
    BY <2>1, <2>2, <2>3, <2>4, <2>5 DEF MapInv
<1>4. CASE UNCHANGED mapVars
  BY <1>4 DEF mapVars, MapInv, RegisteredAs
<1> QED
  BY <1>1, <1>2, <1>3, <1>4 DEF MapNext

LEMMA MapInvCorrect ==
  ASSUME ~Renumbering
  PROVE  Safety => []MapInv
<1>1. Init => MapInv
  BY DEF Init, MapInit, MapInv
<1>2. MapTypeOK /\ MapInv /\ [Next]_vars => MapInv'
  BY StepOfMap, MapInvStep, TracksAssumption
<1> QED
  BY <1>1, <1>2, MapTypeCorrect, PTL DEF Safety

(* Without renumbering, the active haptic track is the selected track's.   *)
THEOREM ActiveIsTheSelected ==
  ASSUME ~Renumbering
  PROVE  Safety => []ActiveIsSelected
<1>1. MapTypeOK /\ MapInv => ActiveIsSelected
  <2> SUFFICES ASSUME MapTypeOK, MapInv, selected \in Present \union {Master}
               PROVE  tracks[active_track] = selected
    BY DEF ActiveIsSelected
  <2>1. Present \subseteq MediaTracks
    BY DEF MapTypeOK, Present
  <2>2. selected # NoTrack
    BY <2>1, TracksAssumption DEF TracksAssumption
  <2> QED
    BY <2>2 DEF MapInv
<1> QED
  BY <1>1, MapTypeCorrect, MapInvCorrect, PTL

(* Without renumbering, no track is in the map twice.                      *)
THEOREM OneHapticTrackForEach ==
  ASSUME ~Renumbering
  PROVE  Safety => []OneHapticTrackEach
<1>1. MapTypeOK /\ MapInv => OneHapticTrackEach
  <2> SUFFICES ASSUME MapTypeOK, MapInv,
                      NEW m \in DOMAIN tracks, NEW n \in DOMAIN tracks, tracks[m] = tracks[n]
               PROVE  m = n
    BY DEF OneHapticTrackEach
  <2>1. \A i \in DOMAIN order : order[i] \in MediaTracks
    BY DEF MapTypeOK
  <2>2. RegisteredAs(m) = RegisteredAs(n)
    BY DEF MapInv
  <2> QED
    BY <2>1, <2>2, TracksAssumption DEF MapInv, RegisteredAs, TracksAssumption
<1> QED
  BY <1>1, MapTypeCorrect, MapInvCorrect, PTL

-----------------------------------------------------------------------------
(* The types of the controller.                                            *)

(* A sequence that is taken from, and one that is added to.                *)
LEMMA TakeFirst ==
  ASSUME NEW S, NEW s \in Seq(S), s # <<>>
  PROVE  /\ Head(s) \in S /\ Head(s) = s[1] /\ 1 \in DOMAIN s
         /\ Tail(s) \in Seq(S) /\ Len(Tail(s)) = Len(s) - 1
         /\ \A i \in DOMAIN Tail(s) : Tail(s)[i] = s[i + 1] /\ i + 1 \in DOMAIN s
  OBVIOUS

LEMMA AddLast ==
  ASSUME NEW S, NEW s \in Seq(S), NEW e \in S
  PROVE  /\ Append(s, e) \in Seq(S) /\ Len(Append(s, e)) = Len(s) + 1
         /\ \A i \in DOMAIN Append(s, e) :
              (i \in DOMAIN s /\ Append(s, e)[i] = s[i]) \/ Append(s, e)[i] = e
  OBVIOUS

LEMMA Lengths ==
  ASSUME TypeOK
  PROVE  /\ inbox \in Seq(Seq(Message)) /\ Len(inbox) \in Nat /\ SocketSize \in Nat
         /\ queue \in Seq(Tasks) /\ Len(queue) \in Nat /\ MaxQueueSize \in Nat
         /\ batch \in Seq(Message)
         /\ Len(inbox) <= SocketSize /\ Len(queue) <= MaxQueueSize
<1>1. inbox \in Seq(Seq(Message)) /\ queue \in Seq(Tasks) /\ batch \in Seq(Message)
  BY DEF TypeOK
<1>2. Len(inbox) <= SocketSize /\ Len(queue) <= MaxQueueSize
  BY DEF TypeOK
<1>3. SocketSize \in Nat /\ MaxQueueSize \in Nat
  BY ControllerAssumption DEF ControllerAssumption
<1> QED
  BY <1>1, <1>2, <1>3

LEMMA TypeInit == Init => TypeOK
<1> SUFFICES ASSUME Init
             PROVE  TypeOK
  OBVIOUS
<1>1. MapTypeOK
  BY MapTypeInit DEF Init
<1>2. SocketSize \in Nat \ {0} /\ MaxQueueSize \in Nat \ {0} /\ MaxChecks \in Nat
  BY ControllerAssumption DEF ControllerAssumption
<1>3. Len(inbox) <= SocketSize /\ Len(queue) <= MaxQueueSize /\ checks \in 0 .. MaxChecks
  BY <1>2 DEF Init
<1>4. inbox \in Seq(Seq(Message)) /\ batch \in Seq(Message) /\ queue \in Seq(Tasks)
  BY DEF Init
<1>5. stage \in [Requests -> Stages]
  BY DEF Init, Stages
<1>6. reply \in [Requests -> AnyTrack] /\ asked \in [Requests -> AnyTrack]
  BY DEF Init, AnyTrack
<1>7. job \in [Threads -> Tasks \union {NoJob}]
  BY DEF Init
<1> QED
  BY <1>1, <1>3, <1>4, <1>5, <1>6, <1>7 DEF Init, TypeOK, Modes

(* Become gives some requests a stage.                                     *)
LEMMA BecomesStage ==
  ASSUME TypeOK, NEW rs, NEW s \in Stages, Become(rs, s)
  PROVE  stage' \in [Requests -> Stages]
  BY DEF TypeOK, Become

(* The main thread has a message to handle.                                *)
LEMMA HeadOfBatch ==
  ASSUME TypeOK, NEW kind, NextIs(kind)
  PROVE  /\ Head(batch) \in Message /\ Head(batch).kind = kind
         /\ Tail(batch) \in Seq(Message)
  BY Lengths, TakeFirst DEF NextIs

(* What a callback takes out of its message.                               *)
LEMMA Arguments ==
  ASSUME NEW m \in Message
  PROVE  /\ m.kind = "pixels" => m.arg \in Requests
         /\ m.kind = "set_mode" => m.arg \in Modes
  BY DEF Message

(* The active haptic track and the closure of a task.                      *)
LEMMA TaskType ==
  ASSUME TypeOK, ActiveIsRegistered, HasActive, NEW r \in Requests
  PROVE  TaskFor(r) \in Tasks
<1>1. Active \in AnyTrack /\ selected \in AnyTrack
  BY DEF TypeOK, MapTypeOK, ActiveIsRegistered, HasActive, Active
<1> QED
  BY <1>1 DEF TaskFor, Tasks

LEMMA TypeStep ==
  ASSUME TypeOK, ActiveIsRegistered, [Next]_vars
  PROVE  TypeOK'
<1>0. MapTypeOK'
  BY StepOfMap, MapTypeStep, TracksAssumption DEF TypeOK
<1>1. CASE EditTracks \/ OnTrackSelection
  BY <1>0, <1>1 DEF TypeOK, EditTracks, OnTrackSelection, pollVars, poolVars, deviceVars, checkVars
<1>2. CASE SendPacket
  <2>1. PICK p \in unsent :
          /\ unsent' = unsent \ {p}
          /\ \/ /\ Len(inbox) < SocketSize /\ inbox' = Append(inbox, p)
                /\ Become(RequestsOf(p), "sent")
             \/ UNCHANGED inbox /\ Become(RequestsOf(p), "lost")
    BY <1>2 DEF SendPacket
  <2>2. p \in Seq(Message)
    BY <2>1, ControllerAssumption DEF TypeOK, ControllerAssumption
  <2>4. inbox' \in Seq(Seq(Message)) /\ Len(inbox') <= SocketSize
    <3>1. Append(inbox, p) \in Seq(Seq(Message)) /\ Len(Append(inbox, p)) = Len(inbox) + 1
      BY <2>2, Lengths, AddLast
    <3>2. CASE Len(inbox) < SocketSize /\ inbox' = Append(inbox, p)
      <4>1. Len(inbox) + 1 <= SocketSize
        BY <3>2, Lengths
      <4> QED
        BY <3>1, <3>2, <4>1
    <3>3. CASE UNCHANGED inbox
      BY <3>3, Lengths
    <3> QED
      BY <2>1, <3>2, <3>3
  <2>5. stage' \in [Requests -> Stages]
    BY <2>1, BecomesStage DEF Stages
  <2> QED
    BY <1>0, <1>2, <2>1, <2>4, <2>5 DEF TypeOK, SendPacket, mapVars, pollVars, poolVars, checkVars
<1>3. CASE AnswerPing
  <2>1. <<PingAck>> \in Seq(Message)
    BY DEF PingAck, Message
  <2>2. /\ Append(inbox, <<PingAck>>) \in Seq(Seq(Message))
        /\ Len(Append(inbox, <<PingAck>>)) = Len(inbox) + 1
    BY <2>1, Lengths, AddLast
  <2>3. inbox' \in Seq(Seq(Message)) /\ Len(inbox') <= SocketSize
    BY <1>3, <2>2, Lengths DEF AnswerPing
  <2> QED
    BY <1>0, <1>3, <2>3 DEF AnswerPing, TypeOK, mapVars, pollVars, poolVars
<1>4. CASE Receive
  <2>1. inbox' \in Seq(Seq(Message)) /\ Len(inbox') <= SocketSize /\ batch' \in Seq(Message)
    <3>1. CASE inbox = <<>>
      <4>1. inbox' = inbox /\ batch' = <<>>
        BY <1>4, <3>1 DEF Receive
      <4> QED
        BY <4>1, Lengths
    <3>2. CASE inbox # <<>>
      <4>1. inbox' = Tail(inbox) /\ batch' = Head(inbox)
        BY <1>4, <3>2 DEF Receive
      <4>2. Len(Tail(inbox)) = Len(inbox) - 1
        BY <3>2, Lengths, TakeFirst
      <4>3. Head(inbox) \in Seq(Message) /\ Tail(inbox) \in Seq(Seq(Message))
        BY <3>2, Lengths, TakeFirst
      <4>4. Len(Tail(inbox)) <= SocketSize
        BY <4>2, Lengths
      <4> QED
        BY <4>1, <4>3, <4>4
    <3> QED
      BY <3>1, <3>2
  <2> QED
    BY <1>0, <1>4, <2>1 DEF Receive, TypeOK, mapVars, poolVars, checkVars
<1>5. CASE HandlePixels
  <2>1. Tail(batch) \in Seq(Message) /\ Head(batch).arg \in Requests
    BY <1>5, HeadOfBatch, Arguments DEF HandlePixels
  <2>2. stage' \in [Requests -> Stages]
    BY <1>5, BecomesStage DEF HandlePixels, Stages
  <2>3. queue' \in Seq(Tasks) /\ Len(queue') <= MaxQueueSize
    <3>1. CASE HasActive /\ Len(queue) < MaxQueueSize /\ queue' = Append(queue, TaskFor(Head(batch).arg))
      <4>1. TaskFor(Head(batch).arg) \in Tasks
        BY <2>1, <3>1, TaskType
      <4>2. queue' \in Seq(Tasks) /\ Len(queue') = Len(queue) + 1
        BY <3>1, <4>1, Lengths, AddLast
      <4> QED
        BY <3>1, <4>2, Lengths
    <3>2. CASE UNCHANGED queue
      BY <3>2 DEF TypeOK
    <3> QED
      BY <1>5, <3>1, <3>2 DEF HandlePixels
  <2> QED
    BY <1>0, <1>5, <2>1, <2>2, <2>3 DEF HandlePixels, TypeOK, mapVars, deviceVars, checkVars
<1>6. CASE HandleSetMode
  <2>1. Tail(batch) \in Seq(Message) /\ Head(batch).arg \in Modes
    BY <1>6, HeadOfBatch, Arguments DEF HandleSetMode
  <2> QED
    BY <1>0, <1>6, <2>1 DEF HandleSetMode, TypeOK, mapVars, poolVars, deviceVars, checkVars
<1>7. CASE HandleFlushMap
  <2>1. Tail(batch) \in Seq(Message)
    BY <1>7, HeadOfBatch DEF HandleFlushMap
  <2> QED
    BY <1>0, <1>7, <2>1 DEF HandleFlushMap, TypeOK, mapVars, poolVars, deviceVars, checkVars
<1>8. CASE HandlePingAck
  <2>1. Tail(batch) \in Seq(Message)
    BY <1>8, HeadOfBatch DEF HandlePingAck
  <2> QED
    BY <1>0, <1>8, <2>1 DEF HandlePingAck, TypeOK, mapVars, poolVars, deviceVars
<1>9. CASE HandleOther
  <2>1. Tail(batch) \in Seq(Message)
    BY <1>9, HeadOfBatch DEF HandleOther
  <2> QED
    BY <1>0, <1>9, <2>1 DEF HandleOther, TypeOK, mapVars, poolVars, deviceVars, checkVars
<1>10. CASE HandleMalformed
  <2>1. stage' \in [Requests -> Stages]
    BY <1>10, BecomesStage DEF HandleMalformed, Stages
  <2>2. batch' \in Seq(Message)
    BY <1>10 DEF HandleMalformed
  <2> QED
    BY <1>0, <1>10, <2>1, <2>2 DEF HandleMalformed, TypeOK, mapVars, poolVars, deviceVars, checkVars
<1>11. CASE Poll
  BY <1>0, <1>11 DEF Poll, TypeOK, mapVars, poolVars, deviceVars, checkVars
<1>12. ASSUME NEW th \in Threads, TakeTask(th)
       PROVE  TypeOK'
  <2>1. Head(queue) \in Tasks /\ Tail(queue) \in Seq(Tasks) /\ Len(Tail(queue)) = Len(queue) - 1
    BY <1>12, Lengths, TakeFirst DEF TakeTask
  <2>2. queue' = Tail(queue)
    BY <1>12 DEF TakeTask
  <2>3. queue' \in Seq(Tasks) /\ Len(queue') <= MaxQueueSize
    BY <2>1, <2>2, Lengths
  <2>4. job' \in [Threads -> Tasks \union {NoJob}]
    BY <1>12, <2>1 DEF TakeTask, TypeOK
  <2>5. stage' \in [Requests -> Stages]
    BY <1>12, BecomesStage DEF TakeTask, Stages
  <2> QED
    BY <1>0, <1>12, <2>3, <2>4, <2>5
    DEF TakeTask, TypeOK, mapVars, pollVars, deviceVars, checkVars
<1>13. ASSUME NEW th \in Threads, SendPixels(th)
       PROVE  TypeOK'
  <2>1. job[th] \in Tasks
    BY <1>13 DEF SendPixels, TypeOK
  <2>2. job[th].track \in AnyTrack /\ job[th].asked \in AnyTrack
    BY <2>1 DEF Tasks
  <2>3. reply' \in [Requests -> AnyTrack] /\ asked' \in [Requests -> AnyTrack]
    BY <1>13, <2>2 DEF SendPixels, TypeOK
  <2>4. job' \in [Threads -> Tasks \union {NoJob}]
    BY <1>13 DEF SendPixels, TypeOK
  <2>5. stage' \in [Requests -> Stages]
    BY <1>13, BecomesStage DEF SendPixels, Stages
  <2> QED
    BY <1>0, <1>13, <2>3, <2>4, <2>5
    DEF SendPixels, TypeOK, mapVars, pollVars, deviceVars, checkVars
<1>14. CASE StartCheck
  <2>1. checks' \in 0 .. MaxChecks
    <3>1. checks \in 0 .. MaxChecks /\ checks < MaxChecks /\ checks' = checks + 1
      BY <1>14 DEF StartCheck, TypeOK
    <3>2. MaxChecks \in Nat
      BY ControllerAssumption DEF ControllerAssumption
    <3> QED
      BY <3>1, <3>2
  <2> QED
    BY <1>0, <1>14, <2>1 DEF StartCheck, TypeOK, mapVars, poolVars, deviceVars
<1>15. CASE EndCheck
  BY <1>0, <1>15 DEF EndCheck, TypeOK, mapVars, poolVars, deviceVars
<1>16. CASE UNCHANGED vars
  BY <1>0, <1>16 DEF vars, TypeOK, mapVars, pollVars, poolVars, deviceVars, checkVars
<1> QED
  BY <1>1, <1>2, <1>3, <1>4, <1>5, <1>6, <1>7, <1>8, <1>9, <1>10, <1>11, <1>12, <1>13, <1>14,
     <1>15, <1>16
  DEF Next, Run, HandleMessage, Task

(* The variables keep their types; the queue and the socket their limits.  *)
THEOREM TypeCorrect == Safety => []TypeOK
<1>1. TypeOK /\ ActiveIsRegistered /\ [Next]_vars => TypeOK'
  BY TypeStep
<1> QED
  BY <1>1, TypeInit, ActiveAlwaysRegistered, PTL DEF Safety

-----------------------------------------------------------------------------
(* Answers.                                                                *)

(* What a task has captured is the track that was selected then.           *)
CapturedInv ==
  /\ \A i \in DOMAIN queue : queue[i].track = queue[i].asked
  /\ \A th \in Threads : job[th] # NoJob => job[th].track = job[th].asked
  /\ RepliesShowSelected

LEMMA CapturedStep ==
  ASSUME TypeOK, MapInv, CapturedInv, [Next]_vars
  PROVE  CapturedInv'
<1>1. CASE HandlePixels
  <2>1. CASE HasActive /\ queue' = Append(queue, TaskFor(Head(batch).arg))
    <3>1. TaskFor(Head(batch).arg).track = TaskFor(Head(batch).arg).asked
      BY <2>1 DEF TaskFor, MapInv, HasActive, Active
    <3>2. TaskFor(Head(batch).arg) \in Tasks
      BY <1>1, <2>1, HeadOfBatch, Arguments, TaskType DEF HandlePixels, MapInv, ActiveIsRegistered
    <3>3. \A i \in DOMAIN queue' :
             (i \in DOMAIN queue /\ queue'[i] = queue[i]) \/ queue'[i] = TaskFor(Head(batch).arg)
      <4>1. queue \in Seq(Tasks)
        BY Lengths
      <4> QED
        BY <2>1, <3>2, <4>1, AddLast
    <3>4. \A i \in DOMAIN queue' : queue'[i].track = queue'[i].asked
      BY <3>1, <3>3, Zenon DEF CapturedInv
    <3> QED
      BY <1>1, <3>4 DEF HandlePixels, CapturedInv, RepliesShowSelected
  <2>2. CASE UNCHANGED queue
    BY <1>1, <2>2 DEF HandlePixels, CapturedInv, RepliesShowSelected
  <2> QED
    BY <1>1, <2>1, <2>2 DEF HandlePixels
<1>2. ASSUME NEW th \in Threads, TakeTask(th)
      PROVE  CapturedInv'
  <2>1. Head(queue) = queue[1] /\ 1 \in DOMAIN queue
    BY <1>2, Lengths, TakeFirst DEF TakeTask
  <2>2. \A i \in DOMAIN Tail(queue) : Tail(queue)[i] = queue[i + 1] /\ i + 1 \in DOMAIN queue
    BY <1>2, Lengths, TakeFirst DEF TakeTask
  <2>3. \A i \in DOMAIN queue' : queue'[i].track = queue'[i].asked
    BY <1>2, <2>2 DEF TakeTask, CapturedInv
  <2>4. \A u \in Threads : job'[u] # NoJob => job'[u].track = job'[u].asked
    BY <1>2, <2>1 DEF TakeTask, CapturedInv, TypeOK
  <2> QED
    BY <1>2, <2>3, <2>4 DEF TakeTask, CapturedInv, RepliesShowSelected
<1>3. ASSUME NEW th \in Threads, SendPixels(th)
      PROVE  CapturedInv'
  <2>1. job[th].track = job[th].asked
    BY <1>3 DEF SendPixels, CapturedInv
  <2>2. \A r \in Requests : reply'[r] # NoTrack => reply'[r] = asked'[r]
    BY <1>3, <2>1 DEF SendPixels, CapturedInv, RepliesShowSelected, TypeOK
  <2>3. \A u \in Threads : job'[u] # NoJob => job'[u].track = job'[u].asked
    BY <1>3 DEF SendPixels, CapturedInv, TypeOK
  <2> QED
    BY <1>3, <2>2, <2>3 DEF SendPixels, CapturedInv, RepliesShowSelected
<1>4. CASE UNCHANGED poolVars
  BY <1>4 DEF poolVars, CapturedInv, RepliesShowSelected
<1> QED
  BY <1>1, <1>2, <1>3, <1>4
  DEF Next, EditTracks, OnTrackSelection, SendPacket, AnswerPing, Run, Receive, HandleMessage,
      HandleSetMode, HandleFlushMap, HandlePingAck, HandleOther, HandleMalformed, Poll, Task,
      StartCheck, EndCheck, vars

(* Without renumbering, an answer shows the track that was selected when   *)
(* the request was handled, however many tasks and selections there are    *)
(* in between.                                                             *)
THEOREM AnswersShowTheSelected ==
  ASSUME ~Renumbering
  PROVE  Safety => []RepliesShowSelected
<1>1. Init => CapturedInv
  BY DEF Init, CapturedInv, RepliesShowSelected
<1>2. TypeOK /\ MapInv /\ CapturedInv /\ [Next]_vars => CapturedInv'
  BY CapturedStep
<1>3. CapturedInv => RepliesShowSelected
  BY DEF CapturedInv
<1> QED
  BY <1>1, <1>2, <1>3, TypeCorrect, MapInvCorrect, PTL DEF Safety

-----------------------------------------------------------------------------
(* Where a request is.                                                     *)

Sent(r)   == (\E k \in DOMAIN inbox : r \in RequestsOf(inbox[k])) \/ r \in RequestsOf(batch)
Queued(r) == \E k \in DOMAIN queue : queue[k].req = r
Runs(r)   == \E th \in Threads : job[th] # NoJob /\ job[th].req = r

(* The stage of a request says where it is: nothing that the socket took   *)
(* is lost between the packet, the queue and the threads.                  *)
NoneForgotten ==
  \A r \in Requests :
    /\ stage[r] = "sent" <=> Sent(r)
    /\ stage[r] = "queued" <=> Queued(r)
    /\ stage[r] = "running" <=> Runs(r)

(* And it is in no two places.                                             *)
Once(msgs) ==
  \A m, n \in DOMAIN msgs :
    msgs[m].kind = "pixels" /\ msgs[n].kind = "pixels" /\ msgs[m].arg = msgs[n].arg => m = n

UnsentInv == \A p \in unsent : \A r \in RequestsOf(p) : stage[r] = "unsent"
InboxOnce ==
  /\ \A k \in DOMAIN inbox : Once(inbox[k]) /\ RequestsOf(inbox[k]) \intersect RequestsOf(batch) = {}
  /\ \A k, l \in DOMAIN inbox : \A r : r \in RequestsOf(inbox[k]) /\ r \in RequestsOf(inbox[l]) => k = l
BatchOnce == Once(batch) /\ (mpc \notin {"handle", "crashed"} => batch = <<>>)

SentInv == \A r \in Requests : stage[r] = "sent" <=> Sent(r)

MessagesInv == SentInv /\ UnsentInv /\ InboxOnce /\ BatchOnce

TasksInv ==
  /\ \A r \in Requests : (stage[r] = "queued" <=> Queued(r)) /\ (stage[r] = "running" <=> Runs(r))
  /\ \A k, l \in DOMAIN queue : queue[k].req = queue[l].req => k = l
  /\ \A t, u \in Threads : job[t] # NoJob /\ job[u] # NoJob /\ job[t].req = job[u].req => t = u

(* The requests of a message, and of what is left of a packet after it.    *)
OfMessage(m) == IF m.kind = "pixels" THEN {m.arg} ELSE {}

LEMMA NoRequests == RequestsOf(<<>>) = {} /\ RequestsOf(<<PingAck>>) = {}
  BY DEF RequestsOf, PingAck

LEMMA RequestsOfType ==
  ASSUME NEW msgs \in Seq(Message)
  PROVE  RequestsOf(msgs) \subseteq Requests
<1>1. \A n \in DOMAIN msgs : msgs[n] \in Message
  OBVIOUS
<1>2. QED
  BY <1>1, Arguments DEF RequestsOf

LEMMA RequestsOfRest ==
  ASSUME NEW msgs \in Seq(Message), msgs # <<>>, Once(msgs)
  PROVE  /\ Once(Tail(msgs))
         /\ RequestsOf(msgs) = RequestsOf(Tail(msgs)) \union OfMessage(Head(msgs))
         /\ RequestsOf(Tail(msgs)) \intersect OfMessage(Head(msgs)) = {}
<1> DEFINE rest == Tail(msgs)
<1>1. /\ Head(msgs) = msgs[1] /\ 1 \in DOMAIN msgs
      /\ \A n \in DOMAIN rest : rest[n] = msgs[n + 1] /\ n + 1 \in DOMAIN msgs /\ n \in Nat \ {0}
  OBVIOUS
<1>2. \A n \in DOMAIN msgs : n = 1 \/ (\E m \in DOMAIN rest : n = m + 1 /\ msgs[n] = rest[m])
  <2>1. SUFFICES ASSUME NEW n \in DOMAIN msgs, n # 1
                 PROVE  n - 1 \in DOMAIN rest
    BY <1>1
  <2>2. QED
    BY <2>1
<1> HIDE DEF rest
<1>3. Once(rest)
  <2> SUFFICES ASSUME NEW m \in DOMAIN rest, NEW n \in DOMAIN rest,
                      rest[m].kind = "pixels", rest[n].kind = "pixels", rest[m].arg = rest[n].arg
               PROVE  m = n
    BY DEF Once
  <2>1. m + 1 = n + 1
    BY <1>1 DEF Once
  <2>2. QED
    BY <1>1, <2>1
<1>4. RequestsOf(msgs) = RequestsOf(rest) \union OfMessage(Head(msgs))
  <2>1. \A r : r \in RequestsOf(rest) => r \in RequestsOf(msgs)
    <3> SUFFICES ASSUME NEW n \in DOMAIN rest, rest[n].kind = "pixels"
                 PROVE  rest[n].arg \in RequestsOf(msgs)
      BY Zenon DEF RequestsOf
    <3>1. QED
      BY <1>1, Zenon DEF RequestsOf
  <2>2. \A r : r \in OfMessage(Head(msgs)) => r \in RequestsOf(msgs)
    BY <1>1, Zenon DEF RequestsOf, OfMessage
  <2>3. \A r : r \in RequestsOf(msgs) => r \in RequestsOf(rest) \/ r \in OfMessage(Head(msgs))
    <3> SUFFICES ASSUME NEW n \in DOMAIN msgs, msgs[n].kind = "pixels"
                 PROVE  msgs[n].arg \in RequestsOf(rest) \/ msgs[n].arg \in OfMessage(Head(msgs))
      BY Zenon DEF RequestsOf
    <3>1. CASE n = 1
      BY <1>1, <3>1 DEF OfMessage
    <3>2. ASSUME NEW m \in DOMAIN rest, msgs[n] = rest[m]
          PROVE  msgs[n].arg \in RequestsOf(rest)
      BY <3>2, Zenon DEF RequestsOf
    <3>3. QED
      BY <1>2, <3>1, <3>2
  <2>4. QED
    BY <2>1, <2>2, <2>3
<1>5. RequestsOf(rest) \intersect OfMessage(Head(msgs)) = {}
  <2> SUFFICES ASSUME NEW n \in DOMAIN rest, rest[n].kind = "pixels",
                      msgs[1].kind = "pixels", rest[n].arg = msgs[1].arg
               PROVE  FALSE
    BY <1>1 DEF RequestsOf, OfMessage
  <2>1. n + 1 = 1
    BY <1>1 DEF Once
  <2>2. QED
    BY <1>1, <2>1
<1>6. QED
  BY <1>3, <1>4, <1>5 DEF rest

(* The device's packets have no request in common.                         *)
LEMMA PacketsApart ==
  ASSUME NEW p \in Packets
  PROVE  /\ p \in Seq(Message) /\ Once(p)
         /\ \A q \in Packets : \A r : r \in RequestsOf(p) /\ r \in RequestsOf(q) => p = q
<1>1. p \in Seq(Message)
  BY ControllerAssumption DEF ControllerAssumption
<1>2. Once(p)
  BY EachRequestOnce DEF Once, EachRequestOnce
<1>3. \A q \in Packets : \A r : r \in RequestsOf(p) /\ r \in RequestsOf(q) => p = q
  BY EachRequestOnce, Zenon DEF RequestsOf, EachRequestOnce
<1>4. QED
  BY <1>1, <1>2, <1>3

(* What Become says of each request.                                       *)
LEMMA BecomeEach ==
  ASSUME NEW rs, NEW s, Become(rs, s)
  PROVE  \A r \in Requests : stage'[r] = IF r \in rs THEN s ELSE stage[r]
  BY DEF Become

(* A packet that is added to the socket, and one that is taken out.        *)
LEMMA InboxGrows ==
  ASSUME TypeOK, NEW p \in Seq(Message), inbox' = Append(inbox, p)
  PROVE  \E last : /\ last \notin DOMAIN inbox /\ DOMAIN inbox' = DOMAIN inbox \union {last}
                   /\ inbox'[last] = p /\ \A k \in DOMAIN inbox : inbox'[k] = inbox[k]
<1>1. inbox \in Seq(Seq(Message)) /\ Len(inbox) \in Nat
  BY Lengths
<1> DEFINE last == Len(inbox) + 1
<1>2. /\ last \notin DOMAIN inbox /\ DOMAIN inbox' = DOMAIN inbox \union {last}
      /\ inbox'[last] = p /\ \A k \in DOMAIN inbox : inbox'[k] = inbox[k]
  BY <1>1
<1>3. QED
  BY <1>2

LEMMA InboxType ==
  ASSUME TypeOK, NEW k \in DOMAIN inbox
  PROVE  inbox[k] \in Seq(Message) /\ RequestsOf(inbox[k]) \subseteq Requests
  BY Lengths, RequestsOfType

LEMMA MessagesUntouched ==
  ASSUME TypeOK, MessagesInv, UNCHANGED <<inbox, batch, unsent>>, BatchOnce',
         \A r \in Requests :
           stage'[r] # stage[r] => stage[r] \notin {"unsent", "sent"} /\ stage'[r] # "sent"
  PROVE  MessagesInv'
<1>1. \A r : Sent(r)' <=> Sent(r)
  BY DEF Sent, RequestsOf
<1>2. SentInv'
  BY <1>1 DEF MessagesInv, SentInv
<1>3. UnsentInv'
  <2> SUFFICES ASSUME NEW p \in unsent, NEW r \in RequestsOf(p)
               PROVE  stage'[r] = "unsent"
    BY DEF UnsentInv, RequestsOf
  <2>1. r \in Requests
    BY PacketsApart, RequestsOfType DEF TypeOK
  <2>2. QED
    BY <2>1 DEF MessagesInv, UnsentInv
<1>4. InboxOnce'
  BY DEF MessagesInv, InboxOnce, Once, RequestsOf
<1>5. QED
  BY <1>2, <1>3, <1>4 DEF MessagesInv

LEMMA SendPacketMessages ==
  ASSUME TypeOK, MessagesInv, SendPacket
  PROVE  MessagesInv'
<1>1. PICK p \in unsent :
        /\ unsent' = unsent \ {p}
        /\ \/ /\ inbox' = Append(inbox, p)
              /\ Become(RequestsOf(p), "sent")
           \/ /\ UNCHANGED inbox
              /\ Become(RequestsOf(p), "lost")
  BY DEF SendPacket
<1>2. UNCHANGED <<batch, mpc>>
  BY DEF SendPacket, pollVars
<1>3. p \in Packets /\ p \in Seq(Message) /\ Once(p) /\ RequestsOf(p) \subseteq Requests
  BY PacketsApart, RequestsOfType DEF TypeOK
<1>4. \A r \in RequestsOf(p) : stage[r] = "unsent" /\ ~Sent(r)
  BY <1>3 DEF MessagesInv, UnsentInv, SentInv
<1>5. BatchOnce'
  BY <1>2 DEF MessagesInv, BatchOnce, Once
<1>6. UnsentInv'
  <2> SUFFICES ASSUME NEW q \in unsent, q # p, NEW r \in RequestsOf(q)
               PROVE  stage'[r] = "unsent"
    BY <1>1 DEF UnsentInv, RequestsOf
  <2>1. q \in Packets /\ r \in Requests
    BY PacketsApart, RequestsOfType DEF TypeOK
  <2>2. r \notin RequestsOf(p)
    BY <1>3, <2>1, PacketsApart
  <2>3. stage'[r] = stage[r]
    BY <1>1, <2>1, <2>2, BecomeEach
  <2>4. QED
    BY <2>3 DEF MessagesInv, UnsentInv
<1>7. CASE inbox' = Append(inbox, p) /\ Become(RequestsOf(p), "sent")
  <2>1. PICK last : /\ last \notin DOMAIN inbox /\ DOMAIN inbox' = DOMAIN inbox \union {last}
                    /\ inbox'[last] = p /\ \A k \in DOMAIN inbox : inbox'[k] = inbox[k]
    BY <1>3, <1>7, InboxGrows, Zenon
  <2>2. \A r : Sent(r)' <=> Sent(r) \/ r \in RequestsOf(p)
    BY <1>2, <2>1 DEF Sent, RequestsOf
  <2>3. SentInv'
    BY <1>7, <2>2, BecomeEach DEF MessagesInv, SentInv
  <2>4. \A k \in DOMAIN inbox : \A r \in RequestsOf(inbox[k]) : r \notin RequestsOf(p)
    BY <1>4, Zenon DEF Sent
  <2>5. \A r \in RequestsOf(batch) : r \notin RequestsOf(p)
    BY <1>4, Zenon DEF Sent
  <2>6. ASSUME NEW k \in DOMAIN inbox'
        PROVE  Once(inbox'[k]) /\ RequestsOf(inbox'[k]) \intersect RequestsOf(batch') = {}
    BY <1>2, <1>3, <2>1, <2>5 DEF MessagesInv, InboxOnce
  <2>7. ASSUME NEW k \in DOMAIN inbox', NEW l \in DOMAIN inbox', NEW r,
               r \in RequestsOf(inbox'[k]), r \in RequestsOf(inbox'[l])
        PROVE  k = l
    BY <2>1, <2>4, <2>7 DEF MessagesInv, InboxOnce
  <2>8. InboxOnce'
    BY <2>6, <2>7 DEF InboxOnce, Once, RequestsOf
  <2>9. QED
    BY <1>5, <1>6, <2>3, <2>8 DEF MessagesInv
<1>8. CASE UNCHANGED inbox /\ Become(RequestsOf(p), "lost")
  <2>1. \A r : Sent(r)' <=> Sent(r)
    BY <1>2, <1>8 DEF Sent, RequestsOf
  <2>2. SentInv'
    BY <1>4, <1>8, <2>1, BecomeEach DEF MessagesInv, SentInv
  <2>3. InboxOnce'
    BY <1>2, <1>8 DEF MessagesInv, InboxOnce, Once, RequestsOf
  <2>4. QED
    BY <1>5, <1>6, <2>2, <2>3 DEF MessagesInv
<1>9. QED
  BY <1>1, <1>7, <1>8

LEMMA AnswerPingMessages ==
  ASSUME TypeOK, MessagesInv, AnswerPing
  PROVE  MessagesInv'
<1>1. inbox' = Append(inbox, <<PingAck>>) /\ UNCHANGED <<batch, mpc, unsent, stage>>
  BY DEF AnswerPing, pollVars
<1>2. <<PingAck>> \in Seq(Message) /\ Once(<<PingAck>>)
  BY DEF PingAck, Message, Once
<1>3. PICK last : /\ last \notin DOMAIN inbox /\ DOMAIN inbox' = DOMAIN inbox \union {last}
                  /\ inbox'[last] = <<PingAck>> /\ \A k \in DOMAIN inbox : inbox'[k] = inbox[k]
  BY <1>1, <1>2, InboxGrows, Zenon
<1>4. \A r : Sent(r)' <=> Sent(r)
  BY <1>1, <1>3, NoRequests DEF Sent, RequestsOf
<1>5. SentInv' /\ UnsentInv' /\ BatchOnce'
  BY <1>1, <1>4 DEF MessagesInv, SentInv, UnsentInv, BatchOnce, Once, RequestsOf
<1>6. ASSUME NEW k \in DOMAIN inbox'
      PROVE  Once(inbox'[k]) /\ RequestsOf(inbox'[k]) \intersect RequestsOf(batch') = {}
  BY <1>1, <1>2, <1>3, NoRequests DEF MessagesInv, InboxOnce
<1>7. ASSUME NEW k \in DOMAIN inbox', NEW l \in DOMAIN inbox', NEW r,
             r \in RequestsOf(inbox'[k]), r \in RequestsOf(inbox'[l])
      PROVE  k = l
  BY <1>3, <1>7, NoRequests DEF MessagesInv, InboxOnce
<1>8. InboxOnce'
  BY <1>6, <1>7 DEF InboxOnce, Once, RequestsOf
<1>9. QED
  BY <1>5, <1>8 DEF MessagesInv

(* Requests that the main thread takes out of the packet it handles.       *)
LEMMA BatchShrinks ==
  ASSUME TypeOK, MessagesInv, UNCHANGED <<inbox, unsent>>, BatchOnce',
         NEW taken, NEW s, s # "sent", Become(taken, s),
         RequestsOf(batch) = RequestsOf(batch') \union taken,
         RequestsOf(batch') \intersect taken = {}
  PROVE  MessagesInv'
<1>1. RequestsOf(batch) \subseteq Requests
  BY Lengths, RequestsOfType
<1>2. \A k \in DOMAIN inbox : RequestsOf(inbox[k]) \intersect taken = {}
  BY DEF MessagesInv, InboxOnce
<1>3. \A r : Sent(r)' <=> Sent(r) /\ r \notin taken
  BY <1>2 DEF Sent, RequestsOf
<1>4. \A r \in taken : r \in Requests /\ stage[r] = "sent"
  BY <1>1 DEF MessagesInv, SentInv, Sent
<1>5. SentInv'
  BY <1>3, BecomeEach DEF MessagesInv, SentInv
<1>6. UnsentInv'
  <2> SUFFICES ASSUME NEW p \in unsent, NEW r \in RequestsOf(p)
               PROVE  stage'[r] = "unsent"
    BY DEF UnsentInv, RequestsOf
  <2>1. r \in Requests /\ stage[r] = "unsent"
    BY PacketsApart, RequestsOfType DEF TypeOK, MessagesInv, UnsentInv
  <2>2. r \notin taken
    BY <1>4, <2>1
  <2>3. QED
    BY <2>1, <2>2, BecomeEach
<1>7. InboxOnce'
  BY DEF MessagesInv, InboxOnce, Once, RequestsOf
<1>8. QED
  BY <1>5, <1>6, <1>7 DEF MessagesInv

LEMMA ReceiveMessages ==
  ASSUME TypeOK, MessagesInv, Receive
  PROVE  MessagesInv'
<1>1. batch = <<>> /\ mpc' = "handle" /\ UNCHANGED <<unsent, stage>>
  BY DEF Receive, MessagesInv, BatchOnce
<1>2. CASE inbox = <<>>
  <2>1. UNCHANGED <<inbox, batch>>
    BY <1>1, <1>2 DEF Receive
  <2>2. BatchOnce'
    BY <1>1, <2>1 DEF MessagesInv, BatchOnce, Once
  <2>3. QED
    BY <1>1, <2>1, <2>2, MessagesUntouched
<1>3. CASE inbox # <<>>
  <2>1. batch' = Head(inbox) /\ inbox' = Tail(inbox)
    BY <1>3 DEF Receive
  <2>2. /\ 1 \in DOMAIN inbox /\ batch' = inbox[1]
        /\ \A k \in DOMAIN inbox' : inbox'[k] = inbox[k + 1] /\ k + 1 \in DOMAIN inbox /\ k \in Nat \ {0}
        /\ \A k \in DOMAIN inbox : k = 1 \/ (\E l \in DOMAIN inbox' : k = l + 1)
    <3>1. inbox \in Seq(Seq(Message)) /\ Len(inbox) \in Nat
      BY Lengths
    <3>2. DOMAIN inbox' = 1 .. Len(inbox) - 1 /\ DOMAIN inbox = 1 .. Len(inbox) /\ Len(inbox) > 0
      BY <1>3, <2>1, <3>1
    <3>3. \A k \in DOMAIN inbox : k = 1 \/ (k - 1 \in DOMAIN inbox' /\ k = (k - 1) + 1)
      BY <3>2
    <3>4. \A k \in DOMAIN inbox' : inbox'[k] = inbox[k + 1] /\ k + 1 \in DOMAIN inbox /\ k \in Nat \ {0}
      BY <1>3, <2>1, <3>1, <3>2
    <3>5. 1 \in DOMAIN inbox /\ batch' = inbox[1]
      BY <1>3, <2>1, <3>1, <3>2
    <3>6. QED
      BY <3>3, <3>4, <3>5
  <2>3. \A r : Sent(r)' <=> Sent(r)
    <3>1. ASSUME NEW r, Sent(r)'
          PROVE  Sent(r)
      <4>1. CASE r \in RequestsOf(batch')
        BY <2>2, <4>1 DEF Sent
      <4>2. ASSUME NEW k \in DOMAIN inbox', r \in RequestsOf(inbox'[k])
            PROVE  Sent(r)
        BY <2>2, <4>2 DEF Sent
      <4>3. QED
        BY <3>1, <4>1, <4>2 DEF Sent, RequestsOf
    <3>2. ASSUME NEW r, Sent(r)
          PROVE  Sent(r)'
      <4>1. PICK k \in DOMAIN inbox : r \in RequestsOf(inbox[k])
        BY <1>1, <3>2, NoRequests DEF Sent
      <4>2. CASE k = 1
        BY <2>2, <4>1, <4>2 DEF Sent, RequestsOf
      <4>3. ASSUME NEW l \in DOMAIN inbox', k = l + 1
            PROVE  Sent(r)'
        <5>1. r \in RequestsOf(inbox'[l])
          BY <2>2, <4>1, <4>3
        <5>2. QED
          BY <5>1 DEF Sent, RequestsOf
      <4>4. QED
        BY <2>2, <4>2, <4>3
    <3>3. QED
      BY <3>1, <3>2
  <2>4. SentInv' /\ UnsentInv'
    BY <1>1, <2>3 DEF MessagesInv, SentInv, UnsentInv, RequestsOf
  <2>5. BatchOnce'
    BY <1>1, <2>2 DEF MessagesInv, InboxOnce, BatchOnce, Once
  <2>6. ASSUME NEW k \in DOMAIN inbox'
        PROVE  Once(inbox'[k]) /\ RequestsOf(inbox'[k]) \intersect RequestsOf(batch') = {}
    <3>1. inbox'[k] = inbox[k + 1] /\ k + 1 \in DOMAIN inbox /\ k + 1 # 1
      BY <2>2
    <3>2. \A r : ~(r \in RequestsOf(inbox[k + 1]) /\ r \in RequestsOf(inbox[1]))
      BY <2>2, <3>1 DEF MessagesInv, InboxOnce
    <3>3. QED
      BY <2>2, <3>1, <3>2 DEF MessagesInv, InboxOnce
  <2>7. ASSUME NEW k \in DOMAIN inbox', NEW l \in DOMAIN inbox', NEW r,
               r \in RequestsOf(inbox'[k]), r \in RequestsOf(inbox'[l])
        PROVE  k = l
    <3>1. k + 1 = l + 1
      BY <2>2, <2>7 DEF MessagesInv, InboxOnce
    <3>2. QED
      BY <2>2, <3>1
  <2>8. InboxOnce'
    BY <2>6, <2>7 DEF InboxOnce, Once, RequestsOf
  <2>9. QED
    BY <2>4, <2>5, <2>8 DEF MessagesInv
<1>4. QED
  BY <1>2, <1>3

(* A callback takes one message out of the packet.                         *)
LEMMA HandledMessages ==
  ASSUME TypeOK, MessagesInv, NEW kind, NextIs(kind), batch' = Tail(batch),
         UNCHANGED <<inbox, unsent>>, mpc' \in {"handle", "crashed"},
         NEW s, s # "sent", Become(OfMessage(Head(batch)), s)
  PROVE  MessagesInv'
<1>1. batch \in Seq(Message) /\ batch # <<>> /\ Once(batch)
  BY Lengths DEF NextIs, MessagesInv, BatchOnce
<1>2. /\ Once(batch')
      /\ RequestsOf(batch) = RequestsOf(batch') \union OfMessage(Head(batch))
      /\ RequestsOf(batch') \intersect OfMessage(Head(batch)) = {}
  BY <1>1, RequestsOfRest
<1>3. BatchOnce'
  BY <1>2 DEF BatchOnce, Once
<1>4. QED
  BY <1>2, <1>3, BatchShrinks

LEMMA HandleMessages ==
  ASSUME TypeOK, MessagesInv, HandleMessage
  PROVE  MessagesInv'
<1>1. CASE HandlePixels
  <2>1. NextIs("pixels") /\ batch' = Tail(batch) /\ UNCHANGED <<inbox, unsent, mpc>> /\ mpc = "handle"
    BY <1>1 DEF HandlePixels, deviceVars, NextIs
  <2>2. OfMessage(Head(batch)) = {Head(batch).arg}
    BY <2>1 DEF OfMessage, NextIs
  <2>3. Become(OfMessage(Head(batch)), "queued") \/ Become(OfMessage(Head(batch)), "ignored")
    BY <1>1, <2>2 DEF HandlePixels
  <2>4. QED
    BY <2>1, <2>3, HandledMessages
<1>2. ASSUME NEW kind \in {"set_mode", "flush_map", "ping_ack", "other"}, NextIs(kind),
             batch' = Tail(batch), UNCHANGED <<inbox, unsent, stage>>, mpc' \in {mpc, "crashed"}
      PROVE  MessagesInv'
  <2>1. OfMessage(Head(batch)) = {} /\ mpc = "handle"
    BY <1>2 DEF OfMessage, NextIs
  <2>2. Become(OfMessage(Head(batch)), "ignored")
    BY <1>2, <2>1 DEF Become, TypeOK
  <2>3. QED
    BY <1>2, <2>1, <2>2, HandledMessages
<1>3. CASE HandleMalformed
  <2>1. /\ batch' = <<>> /\ mpc' = "idle" /\ UNCHANGED <<inbox, unsent>>
        /\ Become(RequestsOf(batch), "dropped")
    BY <1>3 DEF HandleMalformed, deviceVars
  <2>2. RequestsOf(batch') = {} /\ BatchOnce'
    BY <2>1, NoRequests DEF BatchOnce, Once
  <2>3. QED
    BY <2>1, <2>2, BatchShrinks
<1>4. QED
  BY <1>1, <1>2, <1>3
  DEF HandleMessage, HandleSetMode, HandleFlushMap, HandlePingAck, HandleOther, deviceVars

LEMMA PollMessages ==
  ASSUME TypeOK, MessagesInv, Poll
  PROVE  MessagesInv'
<1>1. UNCHANGED <<inbox, unsent, batch, stage>>
  BY DEF Poll, deviceVars
<1>2. BatchOnce'
  BY DEF Poll, BatchOnce, Once
<1>3. QED
  BY <1>1, <1>2, MessagesUntouched

LEMMA TasksUntouched ==
  ASSUME TasksInv, UNCHANGED <<queue, job>>,
         \A r \in Requests : stage'[r] # stage[r] =>
           stage[r] \notin {"queued", "running"} /\ stage'[r] \notin {"queued", "running"}
  PROVE  TasksInv'
  BY DEF TasksInv, Queued, Runs

(* Steps of the device, and messages that become no task.                  *)
LEMMA MessagesLeaveTasks ==
  ASSUME TypeOK, MessagesInv, TasksInv,
         SendPacket \/ HandleMalformed \/ (HandlePixels /\ UNCHANGED queue)
  PROVE  TasksInv'
<1>1. UNCHANGED job /\ UNCHANGED queue
  BY DEF SendPacket, HandleMalformed, HandlePixels, poolVars
<1>2. CASE SendPacket
  <2>1. PICK p \in unsent : Become(RequestsOf(p), "sent") \/ Become(RequestsOf(p), "lost")
    BY <1>2 DEF SendPacket
  <2>2. \A r \in RequestsOf(p) : stage[r] = "unsent"
    BY DEF MessagesInv, UnsentInv
  <2>3. QED
    BY <1>1, <2>1, <2>2, BecomeEach, TasksUntouched
<1>3. ASSUME NEW taken, \A r \in taken : r \in RequestsOf(batch),
             Become(taken, "dropped") \/ Become(taken, "ignored")
      PROVE  TasksInv'
  <2>1. \A r \in taken \intersect Requests : stage[r] = "sent"
    BY <1>3 DEF MessagesInv, SentInv, Sent
  <2>2. QED
    BY <1>1, <1>3, <2>1, BecomeEach, TasksUntouched
<1>4. CASE HandleMalformed
  BY <1>3, <1>4 DEF HandleMalformed
<1>5. CASE HandlePixels /\ UNCHANGED queue
  <2>1. batch \in Seq(Message) /\ batch # <<>> /\ Once(batch) /\ Head(batch).kind = "pixels"
    BY <1>5, Lengths DEF HandlePixels, NextIs, MessagesInv, BatchOnce
  <2>2. Head(batch).arg \in RequestsOf(batch)
    BY <2>1, RequestsOfRest DEF OfMessage
  <2>3. ~HasActive
    <3>1. SUFFICES ASSUME queue' = Append(queue, TaskFor(Head(batch).arg))
                   PROVE  FALSE
      BY <1>5 DEF HandlePixels
    <3>2. queue \in Seq(Tasks) /\ Len(queue) \in Nat
      BY Lengths
    <3>3. Len(queue') = Len(queue) + 1
      BY <3>1, <3>2
    <3>4. QED
      BY <1>5, <3>2, <3>3
  <2>4. Become({Head(batch).arg}, "ignored")
    BY <1>5, <2>3 DEF HandlePixels
  <2>5. QED
    BY <1>3, <2>2, <2>4
<1>6. QED
  BY <1>2, <1>4, <1>5

(* What HandlePixels accepts: a request that has no task.                  *)
LEMMA AcceptedIsNew ==
  ASSUME TypeOK, ActiveIsRegistered, MessagesInv, HandlePixels, ~UNCHANGED queue
  PROVE  \E r \in Requests :
           /\ stage[r] = "sent" /\ Become({r}, "queued")
           /\ Len(queue) < MaxQueueSize
           /\ TaskFor(r) \in Tasks /\ queue' = Append(queue, TaskFor(r)) /\ UNCHANGED job
<1> DEFINE r == Head(batch).arg
<1>1. batch \in Seq(Message) /\ batch # <<>> /\ Once(batch) /\ Head(batch).kind = "pixels"
  BY Lengths DEF HandlePixels, NextIs, MessagesInv, BatchOnce
<1>2. r \in Requests
  BY HeadOfBatch, Arguments DEF HandlePixels
<1>3. r \in RequestsOf(batch)
  BY <1>1, RequestsOfRest DEF OfMessage
<1>4. stage[r] = "sent"
  BY <1>2, <1>3 DEF MessagesInv, SentInv, Sent
<1>5. /\ HasActive /\ Len(queue) < MaxQueueSize /\ Become({r}, "queued") /\ UNCHANGED job
      /\ queue' = Append(queue, TaskFor(r))
  BY DEF HandlePixels
<1>6. TaskFor(r) \in Tasks
  BY <1>2, <1>5, TaskType
<1> HIDE DEF r
<1>7. QED
  BY <1>2, <1>4, <1>5, <1>6

LEMMA AcceptTasks ==
  ASSUME TypeOK, TasksInv, NEW r \in Requests, stage[r] = "sent", Become({r}, "queued"),
         TaskFor(r) \in Tasks, queue' = Append(queue, TaskFor(r)), UNCHANGED job
  PROVE  TasksInv'
<1> DEFINE last == Len(queue) + 1
<1>1. queue \in Seq(Tasks) /\ Len(queue) \in Nat
  BY Lengths
<1>2. /\ last \notin DOMAIN queue /\ DOMAIN queue' = DOMAIN queue \union {last}
      /\ queue'[last] = TaskFor(r) /\ \A k \in DOMAIN queue : queue'[k] = queue[k]
  BY <1>1
<1>3. TaskFor(r).req = r
  BY DEF TaskFor
<1> HIDE DEF last
<1>4. \A q \in Requests : stage'[q] = IF q = r THEN "queued" ELSE stage[q]
  BY BecomeEach
<1>5. ~Queued(r) /\ ~Runs(r)
  BY DEF TasksInv
<1>6. \A q : Queued(q)' <=> Queued(q) \/ q = r
  BY <1>2, <1>3 DEF Queued
<1>7. \A q : Runs(q)' <=> Runs(q)
  BY DEF Runs
<1>8. \A q \in Requests : (stage'[q] = "queued" <=> Queued(q)') /\ (stage'[q] = "running" <=> Runs(q)')
  BY <1>4, <1>5, <1>6, <1>7 DEF TasksInv
<1>9. ASSUME NEW k \in DOMAIN queue', NEW l \in DOMAIN queue', queue'[k].req = queue'[l].req
      PROVE  k = l
  BY <1>2, <1>3, <1>5, <1>9 DEF TasksInv, Queued
<1>10. QED
  BY <1>8, <1>9 DEF TasksInv

(* The queue after its head was taken.                                     *)
LEMMA QueueShrinks ==
  ASSUME TypeOK, queue # <<>>, queue' = Tail(queue)
  PROVE  /\ 1 \in DOMAIN queue /\ Head(queue) = queue[1] /\ Head(queue) \in Tasks
         /\ \A k \in DOMAIN queue' : queue'[k] = queue[k + 1] /\ k + 1 \in DOMAIN queue /\ k \in Nat \ {0}
         /\ \A k \in DOMAIN queue : k = 1 \/ (\E l \in DOMAIN queue' : k = l + 1 /\ queue'[l] = queue[k])
         /\ DOMAIN queue = 1 .. Len(queue) /\ Len(queue) \in Nat \ {0} /\ DOMAIN queue' = 1 .. Len(queue) - 1
<1>1. queue \in Seq(Tasks) /\ Len(queue) \in Nat
  BY Lengths
<1>2. DOMAIN queue' = 1 .. Len(queue) - 1 /\ DOMAIN queue = 1 .. Len(queue) /\ Len(queue) > 0
  BY <1>1
<1>3. \A k \in DOMAIN queue' : queue'[k] = queue[k + 1] /\ k + 1 \in DOMAIN queue /\ k \in Nat \ {0}
  BY <1>1, <1>2
<1>4. \A k \in DOMAIN queue : k = 1 \/ (k - 1 \in DOMAIN queue' /\ k = (k - 1) + 1)
  BY <1>2
<1>5. 1 \in DOMAIN queue /\ Head(queue) = queue[1] /\ Head(queue) \in Tasks
  BY <1>1, <1>2
<1>6. \A k \in DOMAIN queue : k = 1 \/ (\E l \in DOMAIN queue' : k = l + 1 /\ queue'[l] = queue[k])
  BY <1>3, <1>4
<1>7. QED
  BY <1>1, <1>2, <1>3, <1>5, <1>6

LEMMA TakeTasks ==
  ASSUME TypeOK, TasksInv, NEW th \in Threads, TakeTask(th)
  PROVE  TasksInv'
<1> DEFINE t == Head(queue)
<1>1. /\ job[th] = NoJob /\ queue # <<>> /\ queue' = Tail(queue)
      /\ job' = [job EXCEPT ![th] = t] /\ Become({t.req}, "running")
  BY DEF TakeTask
<1>2. t = queue[1] /\ 1 \in DOMAIN queue /\ t \in Tasks /\ t.req \in Requests /\ t # NoJob
  BY <1>1, QueueShrinks, ControllerAssumption DEF Tasks, ControllerAssumption
<1> HIDE DEF t
<1>3. \A q \in Requests : stage'[q] = IF q = t.req THEN "running" ELSE stage[q]
  BY <1>1, BecomeEach
<1>4. job' = [u \in Threads |-> IF u = th THEN t ELSE job[u]]
  BY <1>1 DEF TypeOK
<1>5. Queued(t.req) /\ ~Runs(t.req)
  BY <1>2 DEF TasksInv, Queued
<1>6. \A q : Runs(q)' <=> Runs(q) \/ q = t.req
  BY <1>1, <1>2, <1>4 DEF Runs
<1>7. \A q : Queued(q)' <=> Queued(q) /\ q # t.req
  <2>1. ASSUME NEW q, Queued(q)'
        PROVE  Queued(q) /\ q # t.req
    <3>1. PICK k \in DOMAIN queue' : queue'[k].req = q
      BY <2>1 DEF Queued
    <3>2. queue[k + 1].req = q /\ k + 1 \in DOMAIN queue /\ k + 1 # 1
      BY <1>1, <3>1, QueueShrinks
    <3>3. QED
      BY <1>2, <3>2 DEF TasksInv, Queued
  <2>2. ASSUME NEW q, Queued(q), q # t.req
        PROVE  Queued(q)'
    <3>1. PICK k \in DOMAIN queue : queue[k].req = q
      BY <2>2 DEF Queued
    <3>2. k # 1
      BY <1>2, <2>2, <3>1
    <3>3. QED
      BY <1>1, <3>1, <3>2, QueueShrinks DEF Queued
  <2>3. QED
    BY <2>1, <2>2
<1>8. \A q \in Requests : (stage'[q] = "queued" <=> Queued(q)') /\ (stage'[q] = "running" <=> Runs(q)')
  BY <1>3, <1>5, <1>6, <1>7 DEF TasksInv
<1>9. ASSUME NEW k \in DOMAIN queue', NEW l \in DOMAIN queue', queue'[k].req = queue'[l].req
      PROVE  k = l
  <2>1. k + 1 = l + 1
    BY <1>1, <1>9, QueueShrinks DEF TasksInv
  <2>2. QED
    BY <1>1, <2>1, QueueShrinks
<1>10. \A u, v \in Threads : job'[u] # NoJob /\ job'[v] # NoJob /\ job'[u].req = job'[v].req => u = v
  BY <1>4, <1>5 DEF TasksInv, Runs
<1>11. QED
  BY <1>8, <1>9, <1>10 DEF TasksInv

LEMMA SendTasks ==
  ASSUME TypeOK, TasksInv, NEW th \in Threads, SendPixels(th)
  PROVE  TasksInv'
<1> DEFINE r == job[th].req
<1>1. /\ job[th] # NoJob /\ UNCHANGED queue
      /\ job' = [job EXCEPT ![th] = NoJob] /\ Become({r}, "ended")
  BY DEF SendPixels
<1> HIDE DEF r
<1>2. \A q \in Requests : stage'[q] = IF q = r THEN "ended" ELSE stage[q]
  BY <1>1, BecomeEach
<1>3. job' = [u \in Threads |-> IF u = th THEN NoJob ELSE job[u]]
  BY <1>1 DEF TypeOK
<1>4. r \in Requests /\ Runs(r) /\ ~Queued(r)
  <2>1. job[th] \in Tasks
    BY <1>1 DEF TypeOK
  <2>2. r \in Requests /\ Runs(r)
    BY <1>1, <2>1 DEF Tasks, Runs, r
  <2>3. stage[r] = "running"
    BY <2>2 DEF TasksInv
  <2>4. QED
    BY <2>2, <2>3 DEF TasksInv
<1>5. \A q : Runs(q)' <=> Runs(q) /\ q # r
  BY <1>1, <1>3 DEF Runs, TasksInv, r
<1>6. \A q : Queued(q)' <=> Queued(q)
  BY <1>1 DEF Queued
<1>7. \A q \in Requests : (stage'[q] = "queued" <=> Queued(q)') /\ (stage'[q] = "running" <=> Runs(q)')
  BY <1>2, <1>4, <1>5, <1>6 DEF TasksInv
<1>8. \A u, v \in Threads : job'[u] # NoJob /\ job'[v] # NoJob /\ job'[u].req = job'[v].req => u = v
  BY <1>3 DEF TasksInv
<1>9. QED
  BY <1>1, <1>7, <1>8 DEF TasksInv

LEMMA RequestsStep ==
  ASSUME TypeOK, ActiveIsRegistered, MessagesInv, TasksInv, [Next]_vars
  PROVE  MessagesInv' /\ TasksInv'
<1>1. CASE SendPacket
  BY <1>1, SendPacketMessages, MessagesLeaveTasks
<1>2. CASE HandlePixels
  <2>1. MessagesInv'
    BY <1>2, HandleMessages DEF HandleMessage
  <2>2. TasksInv'
    BY <1>2, AcceptedIsNew, AcceptTasks, MessagesLeaveTasks
  <2>3. QED
    BY <2>1, <2>2
<1>3. CASE HandleMalformed
  BY <1>3, HandleMessages, MessagesLeaveTasks DEF HandleMessage
<1>4. ASSUME NEW th \in Threads, Task(th)
      PROVE  MessagesInv' /\ TasksInv'
  <2>1. TasksInv'
    BY <1>4, TakeTasks, SendTasks DEF Task
  <2>2. UNCHANGED <<inbox, batch, unsent, mpc>>
    BY <1>4 DEF Task, TakeTask, SendPixels, deviceVars, pollVars
  <2>3. PICK rs : /\ \A r \in rs \intersect Requests : stage[r] \in {"queued", "running"}
                  /\ Become(rs, "running") \/ Become(rs, "ended")
    <3>1. CASE TakeTask(th)
      <4>1. Queued(Head(queue).req) /\ Become({Head(queue).req}, "running")
        BY <3>1, Lengths, TakeFirst DEF TakeTask, Queued
      <4>2. QED
        BY <4>1 DEF TasksInv
    <3>2. CASE SendPixels(th)
      <4>1. Runs(job[th].req) /\ Become({job[th].req}, "ended")
        BY <3>2 DEF SendPixels, Runs
      <4>2. QED
        BY <4>1 DEF TasksInv
    <3>3. QED
      BY <1>4, <3>1, <3>2 DEF Task
  <2>4. BatchOnce'
    BY <2>2 DEF MessagesInv, BatchOnce, Once
  <2>5. QED
    BY <2>1, <2>2, <2>3, <2>4, BecomeEach, MessagesUntouched
<1>5. ASSUME UNCHANGED <<queue, job, stage>>
      PROVE  TasksInv'
  BY <1>5, TasksUntouched
<1>6. ASSUME UNCHANGED <<inbox, batch, unsent, stage>>,
             mpc' = mpc \/ mpc \in {"idle", "asleep"}
      PROVE  MessagesInv'
  <2>1. BatchOnce'
    BY <1>6 DEF MessagesInv, BatchOnce, Once
  <2>2. QED
    BY <1>6, <2>1, MessagesUntouched
<1>7. CASE AnswerPing
  BY <1>5, <1>7, AnswerPingMessages DEF AnswerPing, poolVars
<1>8. CASE Receive
  BY <1>5, <1>8, ReceiveMessages DEF Receive, poolVars
<1>9. CASE HandleSetMode \/ HandleFlushMap \/ HandlePingAck \/ HandleOther
  BY <1>5, <1>9, HandleMessages
  DEF HandleMessage, HandleSetMode, HandleFlushMap, HandlePingAck, HandleOther, poolVars
<1>10. CASE Poll
  BY <1>5, <1>10, PollMessages DEF Poll, poolVars
<1>11. CASE EditTracks \/ OnTrackSelection \/ StartCheck \/ EndCheck \/ UNCHANGED vars
  BY <1>5, <1>6, <1>11
  DEF EditTracks, OnTrackSelection, StartCheck, EndCheck, vars, poolVars, pollVars, deviceVars
<1>12. QED
  BY <1>1, <1>2, <1>3, <1>4, <1>7, <1>8, <1>9, <1>10, <1>11 DEF Next, Run, HandleMessage

LEMMA RequestsInit == Init => MessagesInv /\ TasksInv
<1> SUFFICES ASSUME Init
             PROVE  MessagesInv /\ TasksInv
  OBVIOUS
<1>1. \A r \in Requests : stage[r] = "unsent" /\ ~Sent(r) /\ ~Queued(r) /\ ~Runs(r)
  BY NoRequests DEF Init, Sent, Queued, Runs
<1>2. UnsentInv
  <2>1. \A p \in unsent : \A r \in RequestsOf(p) : r \in Requests
    BY PacketsApart, RequestsOfType DEF Init
  <2>2. QED
    BY <1>1, <2>1 DEF UnsentInv
<1>3. QED
  BY <1>1, <1>2 DEF Init, MessagesInv, SentInv, InboxOnce, BatchOnce, Once, TasksInv

LEMMA RequestsInvariant == Safety => [](MessagesInv /\ TasksInv)
<1>1. TypeOK /\ ActiveIsRegistered /\ MessagesInv /\ TasksInv /\ [Next]_vars
        => MessagesInv' /\ TasksInv'
  BY RequestsStep
<1>2. QED
  BY <1>1, RequestsInit, TypeCorrect, ActiveAlwaysRegistered, PTL DEF Safety

(* Every request the socket took is in a packet, in the queue or with a    *)
(* thread until it is ended, ignored or dropped: none is forgotten.        *)
THEOREM NoRequestIsForgotten == Safety => []NoneForgotten
<1>1. MessagesInv /\ TasksInv => NoneForgotten
  BY DEF MessagesInv, SentInv, TasksInv, NoneForgotten
<1>2. QED
  BY <1>1, RequestsInvariant, PTL

-----------------------------------------------------------------------------
(* The pool.                                                               *)

(* m_pool as its users see it: a task is the request it answers.           *)
ReqOf(t) == IF t = NoJob THEN NoJob ELSE t.req
Service == INSTANCE TaskPool WITH
  Workers <- Threads, Tasks <- Requests, NoTask <- NoJob, Limit <- MaxQueueSize,
  waiting <- [k \in DOMAIN queue |-> queue[k].req],
  running <- [th \in Threads |-> ReqOf(job[th])],
  done <- {r \in Requests : stage[r] = "ended"},
  open <- TRUE

LEMMA QueuedRequests ==
  ASSUME TypeOK
  PROVE  \A k \in DOMAIN queue : queue[k].req \in Requests
<1>1. \A k \in DOMAIN queue : queue[k] \in Tasks
  BY Lengths
<1>2. \A t \in Tasks : t.req \in Requests
  BY DEF Tasks
<1>3. QED
  BY <1>1, <1>2

LEMMA AcceptIsService ==
  ASSUME TypeOK, TasksInv, NEW r \in Requests, stage[r] = "sent", Become({r}, "queued"),
         Len(queue) < MaxQueueSize,
         TaskFor(r) \in Tasks, queue' = Append(queue, TaskFor(r)), UNCHANGED job
  PROVE  Service!Accept(r)
<1> DEFINE waiting == [k \in DOMAIN queue |-> queue[k].req]
           last == Len(queue) + 1
<1>1. queue \in Seq(Tasks) /\ Len(queue) \in Nat /\ DOMAIN queue = 1 .. Len(queue)
  BY Lengths
<1>2. \A k \in DOMAIN queue : queue[k].req \in Requests
  BY QueuedRequests
<1>3. waiting \in Seq(Requests) /\ Len(waiting) = Len(queue)
  BY <1>1, <1>2
<1>4. DOMAIN queue' = 1 .. last
  BY <1>1
<1>5. \A k \in DOMAIN queue' : queue'[k] = IF k = last THEN TaskFor(r) ELSE queue[k]
  BY <1>1
<1>6. [k \in DOMAIN queue' |-> queue'[k].req] = Append(waiting, r)
  <2>1. TaskFor(r).req = r
    BY DEF TaskFor
  <2>2. DOMAIN Append(waiting, r) = 1 .. last /\ Append(waiting, r) \in Seq(Requests)
    BY <1>3
  <2>3. \A k \in 1 .. last : Append(waiting, r)[k] = IF k = last THEN r ELSE waiting[k]
    BY <1>3
  <2>4. \A k \in 1 .. last : queue'[k].req = Append(waiting, r)[k]
    BY <1>1, <1>4, <1>5, <2>1, <2>3
  <2> DEFINE extended == Append(waiting, r)
  <2>5. extended = [k \in 1 .. last |-> extended[k]]
    BY <2>2
  <2>6. \A k \in 1 .. last : queue'[k].req = extended[k]
    BY <2>4
  <2> HIDE DEF extended, waiting, last
  <2>7. [k \in DOMAIN queue' |-> queue'[k].req] = extended
    BY <1>4, <2>5, <2>6
  <2> QED
    BY <2>7 DEF extended
<1>7. r \notin Service!Accepted
  <2>1. ~Queued(r) /\ ~Runs(r)
    BY DEF TasksInv
  <2>2. r \notin {waiting[k] : k \in DOMAIN waiting}
    BY <2>1 DEF Queued
  <2>3. r # NoJob
    BY ControllerAssumption DEF ControllerAssumption
  <2>4. \A th \in Threads : ReqOf(job[th]) # r
    BY <2>1, <2>3 DEF Runs, ReqOf
  <2>5. QED
    BY <2>2, <2>4 DEF Service!Accepted
<1>8. \A q \in Requests : stage'[q] = "ended" <=> stage[q] = "ended"
  BY BecomeEach
<1>9. QED
  BY <1>3, <1>6, <1>7, <1>8 DEF Service!Accept

LEMMA TakeIsService ==
  ASSUME TypeOK, TasksInv, NEW th \in Threads, TakeTask(th)
  PROVE  Service!Start(th)
<1> DEFINE waiting == [k \in DOMAIN queue |-> queue[k].req]
           t == Head(queue)
<1>1. /\ job[th] = NoJob /\ queue # <<>> /\ queue' = Tail(queue)
      /\ job' = [job EXCEPT ![th] = t] /\ Become({t.req}, "running")
  BY DEF TakeTask
<1>2. /\ t = queue[1] /\ 1 \in DOMAIN queue /\ t \in Tasks /\ t # NoJob
      /\ DOMAIN queue = 1 .. Len(queue) /\ Len(queue) \in Nat \ {0}
      /\ DOMAIN queue' = 1 .. Len(queue) - 1
      /\ \A k \in DOMAIN queue' : queue'[k] = queue[k + 1]
  BY <1>1, QueueShrinks, ControllerAssumption DEF ControllerAssumption
<1>3. \A k \in DOMAIN queue : queue[k].req \in Requests
  BY QueuedRequests
<1> HIDE DEF t
<1>4. waiting \in Seq(Requests) /\ Len(waiting) = Len(queue) /\ waiting # <<>> /\ Head(waiting) = t.req
  BY <1>2, <1>3
<1>5. [k \in DOMAIN queue' |-> queue'[k].req] = Tail(waiting)
  <2>1. Tail(waiting) \in Seq(Requests) /\ DOMAIN Tail(waiting) = 1 .. Len(queue) - 1
    BY <1>2, <1>4
  <2>2. \A k \in 1 .. Len(queue) - 1 : Tail(waiting)[k] = waiting[k + 1]
    BY <1>2, <1>4
  <2>3. \A k \in 1 .. Len(queue) - 1 : waiting[k + 1] = queue[k + 1].req
    BY <1>2
  <2>4. QED
    BY <1>2, <2>1, <2>2, <2>3
<1>6. [u \in Threads |-> ReqOf(job'[u])]
        = [[u \in Threads |-> ReqOf(job[u])] EXCEPT ![th] = t.req]
  BY <1>1, <1>2 DEF TypeOK, ReqOf
<1>7. \A q \in Requests : stage'[q] = "ended" <=> stage[q] = "ended"
  <2>1. t.req \in Requests => stage[t.req] = "queued"
    BY <1>2 DEF TasksInv, Queued
  <2>2. QED
    BY <1>1, <2>1, BecomeEach
<1>8. ReqOf(job[th]) = NoJob
  BY <1>1 DEF ReqOf
<1>9. QED
  BY <1>4, <1>5, <1>6, <1>7, <1>8 DEF Service!Start

LEMMA SendIsService ==
  ASSUME TypeOK, NEW th \in Threads, SendPixels(th)
  PROVE  Service!Finish(th)
<1> DEFINE r == job[th].req
<1>1. /\ job[th] # NoJob /\ UNCHANGED queue
      /\ job' = [job EXCEPT ![th] = NoJob] /\ Become({r}, "ended")
  BY DEF SendPixels
<1>2. r \in Requests /\ r # NoJob /\ ReqOf(job[th]) = r
  <2>1. job[th] \in Tasks
    BY <1>1 DEF TypeOK
  <2>2. r \in Requests
    BY <2>1 DEF Tasks
  <2>3. QED
    BY <1>1, <2>2, ControllerAssumption DEF ControllerAssumption, ReqOf
<1> HIDE DEF r
<1>3. {q \in Requests : stage'[q] = "ended"} = {q \in Requests : stage[q] = "ended"} \union {r}
  BY <1>1, <1>2, BecomeEach
<1>4. [u \in Threads |-> ReqOf(job'[u])]
        = [[u \in Threads |-> ReqOf(job[u])] EXCEPT ![th] = NoJob]
  BY <1>1 DEF TypeOK, ReqOf
<1>5. QED
  BY <1>1, <1>2, <1>3, <1>4 DEF Service!Finish

LEMMA StepOfService ==
  ASSUME TypeOK, ActiveIsRegistered, MessagesInv, TasksInv, [Next]_vars
  PROVE  [Service!Next]_(Service!vars)
<1>1. ASSUME UNCHANGED <<queue, job>>, \A r \in Requests : stage'[r] = "ended" <=> stage[r] = "ended"
      PROVE  UNCHANGED Service!vars
  BY <1>1 DEF Service!vars
<1>2. ASSUME NEW taken, NEW s \in {"sent", "lost", "ignored", "dropped"}, Become(taken, s),
             \A r \in taken \intersect Requests : stage[r] # "ended", UNCHANGED <<queue, job>>
      PROVE  UNCHANGED Service!vars
  BY <1>1, <1>2, BecomeEach
<1>3. CASE SendPacket
  BY <1>2, <1>3 DEF SendPacket, MessagesInv, UnsentInv, poolVars
<1>4. CASE HandlePixels
  <2>1. CASE UNCHANGED queue
    <3>1. batch \in Seq(Message) /\ batch # <<>> /\ Once(batch) /\ Head(batch).kind = "pixels"
      BY <1>4, Lengths DEF HandlePixels, NextIs, MessagesInv, BatchOnce
    <3>2. Head(batch).arg \in RequestsOf(batch)
      BY <3>1, RequestsOfRest DEF OfMessage
    <3>3. \A r \in {Head(batch).arg} \intersect Requests : stage[r] = "sent"
      BY <3>2 DEF MessagesInv, SentInv, Sent
    <3>4. \A r \in Requests : stage'[r] = "ended" <=> stage[r] = "ended"
      BY <1>4, <3>3, BecomeEach DEF HandlePixels
    <3>5. QED
      BY <1>1, <1>4, <2>1, <3>4 DEF HandlePixels
  <2>2. CASE ~UNCHANGED queue
    BY <1>4, <2>2, AcceptedIsNew, AcceptIsService DEF Service!Next
  <2>3. QED
    BY <2>1, <2>2
<1>5. CASE HandleMalformed
  <2>1. \A r \in RequestsOf(batch) \intersect Requests : stage[r] = "sent"
    BY DEF MessagesInv, SentInv, Sent
  <2>2. QED
    BY <1>2, <1>5, <2>1 DEF HandleMalformed, poolVars
<1>6. ASSUME NEW th \in Threads, Task(th)
      PROVE  [Service!Next]_(Service!vars)
  BY <1>6, TakeIsService, SendIsService DEF Task, Service!Next
<1>7. CASE UNCHANGED <<queue, job, stage>>
  BY <1>1, <1>7
<1>8. QED
  BY <1>3, <1>4, <1>5, <1>6, <1>7
  DEF Next, EditTracks, OnTrackSelection, AnswerPing, Run, Receive, HandleMessage, HandleSetMode,
      HandleFlushMap, HandlePingAck, HandleOther, Poll, StartCheck, EndCheck, vars, poolVars

(* The controller sees in its pool what TaskPool promises: the tasks of    *)
(* the requests start in the order in which the main thread handled them,  *)
(* each request is answered by one task, and no more than MaxQueueSize     *)
(* wait.                                                                   *)
THEOREM PoolIsTaskPool == Safety => Service!Safety
<1>1. Init => Service!Init
  <2> SUFFICES ASSUME Init
               PROVE  Service!Init
    OBVIOUS
  <2>1. [k \in DOMAIN queue |-> queue[k].req] = <<>>
    BY DEF Init
  <2>2. [th \in Threads |-> ReqOf(job[th])] = [th \in Threads |-> NoJob]
    BY DEF Init, ReqOf
  <2>3. {r \in Requests : stage[r] = "ended"} = {}
    BY DEF Init
  <2>4. QED
    BY <2>1, <2>2, <2>3 DEF Service!Init
<1>2. TypeOK /\ ActiveIsRegistered /\ MessagesInv /\ TasksInv /\ [Next]_vars
        => [Service!Next]_(Service!vars)
  BY StepOfService
<1>3. QED
  BY <1>1, <1>2, RequestsInvariant, TypeCorrect, ActiveAlwaysRegistered, PTL
  DEF Safety, Service!Safety

-----------------------------------------------------------------------------
(* The poll and the connection check.                                      *)

(* Run() polls the track that was selected last, in the mode that was set  *)
(* last, and no other.                                                     *)
PollsSelected ==
  Poll /\ selected \in MediaTracks \union {Master} => polled' = <<m_mode, selected>>

(* Without renumbering, whatever the device sends in between, the poll is  *)
(* of the selected track: the safety part of SelectedIsPolled.             *)
THEOREM PollIsOfSelected ==
  ASSUME ~Renumbering
  PROVE  Safety => [][PollsSelected]_vars
<1>1. MapInv /\ [Next]_vars => [PollsSelected]_vars
  <2> SUFFICES ASSUME MapInv, Poll, selected \in MediaTracks \union {Master}
               PROVE  polled' = <<m_mode, selected>>
    BY DEF PollsSelected
  <2>1. selected # NoTrack
    BY TracksAssumption DEF TracksAssumption
  <2>2. HasActive /\ Active = selected
    BY <2>1 DEF MapInv, HasActive, Active
  <2>3. QED
    BY <2>1, <2>2 DEF Poll
<1>2. QED
  BY <1>1, MapInvCorrect, PTL DEF Safety

(* While the main thread sleeps in the check, the status it has reset      *)
(* stays reset.                                                            *)
CheckInv == report # "connected" /\ (mpc = "asleep" => status = FALSE)

(* No check ever finds the device connected, however soon it answers: the  *)
(* answer waits in the socket for the thread that sleeps.                  *)
THEOREM CheckNeverSucceeds == Safety => [](report # "connected")
<1>1. Init => CheckInv
  BY DEF Init, CheckInv
<1>2. ASSUME CheckInv, [Next]_vars
      PROVE  CheckInv'
  <2>1. CASE HandlePingAck
    BY <1>2, <2>1 DEF CheckInv, HandlePingAck, NextIs
  <2>2. CASE StartCheck \/ EndCheck
    BY <1>2, <2>2 DEF CheckInv, StartCheck, EndCheck
  <2>3. CASE UNCHANGED <<report, status>> /\ (mpc' = mpc \/ mpc' # "asleep")
    BY <1>2, <2>3 DEF CheckInv
  <2>4. QED
    BY <1>2, <2>1, <2>2, <2>3
    DEF Next, EditTracks, OnTrackSelection, SendPacket, AnswerPing, Run, Receive, HandleMessage,
        HandlePixels, HandleSetMode, HandleFlushMap, HandleOther, HandleMalformed, Poll, Task,
        TakeTask, SendPixels, vars, pollVars, checkVars
<1>3. CheckInv => report # "connected"
  BY DEF CheckInv
<1>4. QED
  BY <1>1, <1>2, <1>3, PTL DEF Safety

=============================================================================
