----------------------------- MODULE Controller -----------------------------
(***************************************************************************)
(* osc_controller_t (src/controller.h) with osc_manager_t (src/osc.h) and  *)
(* the track map: packets of the device, the callbacks of their messages,  *)
(* the tasks that answer, Run()'s poll, and the connection check.          *)
(*                                                                         *)
(* Everything but the tasks runs on REAPER's main thread.  HapticTrack     *)
(* models what a task does with the active block, Mipmap what update()     *)
(* does.                                                                   *)
(***************************************************************************)
EXTENDS TrackMap

CONSTANTS
  Threads,       (* the threads of m_pool: 4                               *)
  NoJob,         (* the job of a thread that has none                      *)
  Requests,      (* the device's /pixels and /pixel messages               *)
  Packets,       (* the packets the device sends, sequences of messages    *)
  SocketSize,    (* packets that fit into the socket's buffer              *)
  MaxQueueSize,  (* maxQueueSize of ThreadPool.h                           *)
  MaxChecks,     (* bound: how often the user checks the connection        *)
  UnknownTracks  (* may the host announce a track it does not know?        *)

Modes   == {"mipmap", "meter"}

(* What a message names besides its kind: a request, a mode, or nothing.   *)
Message == [kind : {"pixels"}, arg : Requests]
             \union [kind : {"set_mode"}, arg : Modes]
             \union [kind : {"flush_map", "ping_ack", "other", "malformed"}, arg : {"none"}]

Tasks   == [req : Requests, track : AnyTrack, asked : AnyTrack]

ASSUME ControllerAssumption ==
  /\ Threads # {} /\ NoJob \notin Tasks /\ NoJob \notin Requests
  /\ Packets \subseteq Seq(Message)
  /\ SocketSize \in Nat \ {0} /\ MaxQueueSize \in Nat \ {0} /\ MaxChecks \in Nat
  /\ UnknownTracks \in BOOLEAN

(* A request is a message of the device, wherever it asks for the same.    *)
ASSUME EachRequestOnce ==
  \A p, q \in Packets : \A i \in DOMAIN p : \A j \in DOMAIN q :
    p[i].kind = "pixels" /\ q[j].kind = "pixels" /\ p[i].arg = q[j].arg => p = q /\ i = j

VARIABLES
  mpc,        (* where the main thread is                                  *)
  inbox,      (* the packets in m_recv_sock                                *)
  batch,      (* the messages of the current packet that are left          *)
  m_mode,     (* m_mode                                                    *)
  status,     (* m_connection_status                                       *)
  queue,      (* the tasks of m_pool, with the track they have captured    *)
  job,        (* the task of each thread of m_pool                         *)
  polled,     (* what Run() polled last                                    *)
  unsent,     (* the packets the device has not sent yet                   *)
  stage,      (* what has become of each request                           *)
  reply,      (* the track each answer shows                               *)
  asked,      (* history: the track selected when its request was handled  *)
  checks,     (* how often the user has checked the connection             *)
  answered,   (* has the device answered the ping of this check?           *)
  report      (* what the last check reported                              *)

pollVars   == <<mpc, batch, m_mode, polled>>
poolVars   == <<queue, job, reply, asked>>
deviceVars == <<inbox, unsent>>
checkVars  == <<checks, answered, report, status>>
vars == <<mapVars, pollVars, poolVars, deviceVars, checkVars, stage>>

PingAck == [kind |-> "ping_ack", arg |-> "none"]
Stages  == {"unsent", "lost", "sent", "ignored", "dropped", "queued", "running", "ended"}
Nothing == <<"nothing", NoTrack>>

Init ==
  /\ MapInit
  /\ mpc = "idle" /\ inbox = <<>> /\ batch = <<>>
  /\ m_mode = "mipmap" /\ status \in BOOLEAN
  /\ queue = <<>> /\ job = [th \in Threads |-> NoJob]
  /\ polled = Nothing
  /\ unsent = Packets
  /\ stage = [r \in Requests |-> "unsent"]
  /\ asked = [r \in Requests |-> NoTrack]
  /\ reply = [r \in Requests |-> NoTrack]
  /\ checks = 0 /\ answered = FALSE /\ report = "none"

(* The requests of a sequence of messages, and their new stage.            *)
RequestsOf(msgs) == {msgs[i].arg : i \in {j \in DOMAIN msgs : msgs[j].kind = "pixels"}}
Become(rs, s) == stage' = [r \in Requests |-> IF r \in rs THEN s ELSE stage[r]]

-----------------------------------------------------------------------------
(* The user and the host, while the main thread is in none of our calls.   *)

EditTracks ==
  /\ mpc = "idle"
  /\ \E t \in MediaTracks : InsertTrack(t) \/ DeleteTrack(t)
  /\ UNCHANGED <<pollVars, poolVars, deviceVars, checkVars, stage>>

(* OnTrackSelection() and SetSurfaceSelected().                            *)
OnTrackSelection ==
  /\ mpc = "idle"
  /\ \E t \in Present \union {Master} \union (IF UnknownTracks THEN {NoTrack} ELSE {}) :
       Select(t)
  /\ UNCHANGED <<pollVars, poolVars, deviceVars, checkVars, stage>>

-----------------------------------------------------------------------------
(* The device.                                                             *)

(* A packet that does not fit into the socket's buffer is lost.            *)
SendPacket ==
  /\ \E p \in unsent :
       /\ unsent' = unsent \ {p}
       /\ \/ /\ Len(inbox) < SocketSize
             /\ inbox' = Append(inbox, p)
             /\ Become(RequestsOf(p), "sent")
          \/ /\ Len(inbox) >= SocketSize
             /\ UNCHANGED inbox
             /\ Become(RequestsOf(p), "lost")
  /\ UNCHANGED <<mapVars, pollVars, poolVars, checkVars>>

(* It answers a /ping with a /ping_ack.                                    *)
AnswerPing ==
  /\ mpc = "asleep" /\ ~answered
  /\ Len(inbox) < SocketSize
  /\ inbox' = Append(inbox, <<PingAck>>)
  /\ answered' = TRUE
  /\ UNCHANGED <<mapVars, pollVars, poolVars, unsent, checks, report, status, stage>>

-----------------------------------------------------------------------------
(* Run(): handle_receive(), then the poll.                                 *)

(* A bug for SelectedIsPolled: without a packet, Run() returns.            *)
ReceiveOrReturn ==
  /\ mpc = "idle"
  /\ inbox # <<>>
  /\ mpc' = "handle"
  /\ batch' = Head(inbox) /\ inbox' = Tail(inbox)
  /\ UNCHANGED <<mapVars, poolVars, checkVars, m_mode, polled, unsent, stage>>

(* One packet at most is taken out of the socket.                          *)
Receive ==
  /\ mpc = "idle"
  /\ mpc' = "handle"
  /\ IF inbox = <<>> THEN batch' = <<>> /\ UNCHANGED inbox
                     ELSE batch' = Head(inbox) /\ inbox' = Tail(inbox)
  /\ UNCHANGED <<mapVars, poolVars, checkVars, m_mode, polled, unsent, stage>>

(* The next message, whose callback is to be run.                          *)
NextIs(kind) == mpc = "handle" /\ batch # <<>> /\ Head(batch).kind = kind

HasActive == DOMAIN tracks # {}
Active    == tracks[active_track]

(* The closure of a task; the selected track is history.                   *)
TaskFor(r) == [req |-> r, track |-> Active, asked |-> selected]

(* A bug for TypeOK: the queue has no limit.                               *)
HandlePixelsUnbounded ==
  /\ NextIs("pixels") /\ HasActive
  /\ queue' = Append(queue, TaskFor(Head(batch).arg))
  /\ Become({Head(batch).arg}, "queued")
  /\ batch' = Tail(batch)
  /\ UNCHANGED <<mapVars, deviceVars, checkVars, mpc, m_mode, polled, job, reply, asked>>

(* /pixels and /pixel: the task captures the active haptic track.  When    *)
(* the queue is full, the main thread waits here.                          *)
HandlePixels ==
  /\ NextIs("pixels")
  /\ \/ /\ HasActive /\ Len(queue) < MaxQueueSize
        /\ queue' = Append(queue, TaskFor(Head(batch).arg))
        /\ Become({Head(batch).arg}, "queued")
     \/ /\ ~HasActive
        /\ Become({Head(batch).arg}, "ignored")
        /\ UNCHANGED queue
  /\ batch' = Tail(batch)
  /\ UNCHANGED <<mapVars, deviceVars, checkVars, mpc, m_mode, polled, job, reply, asked>>

HandleSetMode ==
  /\ NextIs("set_mode")
  /\ m_mode' = Head(batch).arg
  /\ batch' = Tail(batch)
  /\ UNCHANGED <<mapVars, poolVars, deviceVars, checkVars, mpc, polled, stage>>

(* /flush_map writes the mipmap of the active haptic track to a file.  A   *)
(* haptic track for a null track has no mipmap, and nobody tests that.     *)
HandleFlushMap ==
  /\ NextIs("flush_map")
  /\ mpc' = IF HasActive /\ Active = NoTrack THEN "crashed" ELSE mpc
  /\ batch' = Tail(batch)
  /\ UNCHANGED <<mapVars, poolVars, deviceVars, checkVars, m_mode, polled, stage>>

HandlePingAck ==
  /\ NextIs("ping_ack")
  /\ status' = TRUE
  /\ batch' = Tail(batch)
  /\ UNCHANGED <<mapVars, poolVars, deviceVars, checks, answered, report, mpc, m_mode,
                 polled, stage>>

(* /set_cursor and /zoom change the host's view, /sync and /ping only send *)
(* a message, and a range of /pixels that is empty is ignored.             *)
HandleOther ==
  /\ NextIs("other")
  /\ batch' = Tail(batch)
  /\ UNCHANGED <<mapVars, poolVars, deviceVars, checkVars, mpc, m_mode, polled, stage>>

(* json::parse throws through handle_receive() and Run() into the host,    *)
(* which is taken to survive that.  The rest of the packet is lost.        *)
HandleMalformed ==
  /\ NextIs("malformed")
  /\ mpc' = "idle"
  /\ batch' = <<>>
  /\ Become(RequestsOf(batch), "dropped")
  /\ UNCHANGED <<mapVars, poolVars, deviceVars, checkVars, m_mode, polled>>

HandleMessage ==
  \/ HandlePixels \/ HandleSetMode \/ HandleFlushMap \/ HandlePingAck
  \/ HandleOther \/ HandleMalformed

(* A bug for RequestsAreAnswered: one message per packet.                  *)
PollAfterOneMessage ==
  /\ mpc = "handle"
  /\ mpc' = "idle" /\ batch' = <<>>
  /\ polled' = IF HasActive THEN <<m_mode, Active>> ELSE polled
  /\ UNCHANGED <<mapVars, poolVars, deviceVars, checkVars, m_mode, stage>>

(* After the last message: update() of the active mipmap, if there is one, *)
(* or the peak level of the active track.                                  *)
Poll ==
  /\ mpc = "handle" /\ batch = <<>>
  /\ mpc' = "idle" /\ batch' = <<>>
  /\ polled' = IF HasActive /\ (m_mode = "mipmap" => Active # NoTrack)
                 THEN <<m_mode, Active>> ELSE polled
  /\ UNCHANGED <<mapVars, poolVars, deviceVars, checkVars, m_mode, stage>>

Run == Receive \/ HandleMessage \/ Poll

-----------------------------------------------------------------------------
(* The tasks of send_pixels() and send_pixel().                            *)

TakeTask(th) ==
  /\ job[th] = NoJob /\ queue # <<>>
  /\ job' = [job EXCEPT ![th] = Head(queue)]
  /\ queue' = Tail(queue)
  /\ Become({Head(queue).req}, "running")
  /\ UNCHANGED <<mapVars, pollVars, deviceVars, checkVars, reply, asked>>

(* A bug for RepliesShowSelected: the task asks for the active track.      *)
SendOfActive(th) ==
  /\ job[th] # NoJob
  /\ reply' = [reply EXCEPT ![job[th].req] = Active]
  /\ asked' = [asked EXCEPT ![job[th].req] = job[th].asked]
  /\ job' = [job EXCEPT ![th] = NoJob]
  /\ Become({job[th].req}, "ended")
  /\ UNCHANGED <<mapVars, pollVars, deviceVars, checkVars, queue>>

(* The pixels of the captured track are sent, or an exception ends the     *)
(* task: the haptic track has no pixels yet, or will never have any.       *)
SendPixels(th) ==
  /\ job[th] # NoJob
  /\ \/ /\ job[th].track # NoTrack
        /\ reply' = [reply EXCEPT ![job[th].req] = job[th].track]
        /\ asked' = [asked EXCEPT ![job[th].req] = job[th].asked]
     \/ UNCHANGED <<reply, asked>>
  /\ job' = [job EXCEPT ![th] = NoJob]
  /\ Become({job[th].req}, "ended")
  /\ UNCHANGED <<mapVars, pollVars, deviceVars, checkVars, queue>>

Task(th) == TakeTask(th) \/ SendPixels(th)

-----------------------------------------------------------------------------
(* get_connection_status(), called by an action of the user's: the main    *)
(* thread resets the status, sends a /ping and sleeps.                     *)

StartCheck ==
  /\ mpc = "idle"
  /\ checks < MaxChecks
  /\ checks' = checks + 1
  /\ status' = FALSE /\ answered' = FALSE /\ report' = "none"
  /\ mpc' = "asleep"
  /\ UNCHANGED <<mapVars, poolVars, deviceVars, batch, m_mode, polled, stage>>

EndCheck ==
  /\ mpc = "asleep"
  /\ report' = IF status THEN "connected" ELSE "not connected"
  /\ mpc' = "idle"
  /\ UNCHANGED <<mapVars, poolVars, deviceVars, checks, answered, status, batch, m_mode,
                 polled, stage>>

-----------------------------------------------------------------------------
Next ==
  \/ EditTracks \/ OnTrackSelection
  \/ SendPacket \/ AnswerPing
  \/ Run
  \/ \E th \in Threads : Task(th)
  \/ StartCheck \/ EndCheck

(* REAPER keeps calling Run(), a sleep ends, and the OS schedules the      *)
(* pool's threads.  The user, the host and the device need not act.        *)
Fairness ==
  /\ WF_vars(Run) /\ WF_vars(EndCheck)
  /\ \A th \in Threads : WF_vars(Task(th))

Safety == Init /\ [][Next]_vars

Spec == Safety /\ Fairness

-----------------------------------------------------------------------------
(* Properties.                                                             *)

TypeOK ==
  /\ MapTypeOK
  /\ mpc \in {"idle", "handle", "asleep", "crashed"}
  /\ inbox \in Seq(Seq(Message)) /\ Len(inbox) <= SocketSize
  /\ batch \in Seq(Message)
  /\ m_mode \in Modes /\ status \in BOOLEAN
  /\ queue \in Seq(Tasks) /\ Len(queue) <= MaxQueueSize
  /\ job \in [Threads -> Tasks \union {NoJob}]
  /\ unsent \subseteq Packets
  /\ stage \in [Requests -> Stages]
  /\ reply \in [Requests -> AnyTrack] /\ asked \in [Requests -> AnyTrack]
  /\ checks \in 0 .. MaxChecks /\ answered \in BOOLEAN
  /\ report \in {"none", "connected", "not connected"}

(* An answer shows the track that was selected when the request was        *)
(* handled, although the user may have selected another one since.         *)
RepliesShowSelected ==
  \A r \in Requests : reply[r] # NoTrack => reply[r] = asked[r]

(* Every request that the socket took is worked on, unless there is no     *)
(* haptic track or a malformed message precedes it in its packet.          *)
RequestsAreAnswered ==
  \A r \in Requests :
    stage[r] = "sent" ~> stage[r] \in {"ended", "ignored", "dropped"} \/ mpc = "crashed"

(* Once a track is selected in a mode, Run() goes on to poll that track in *)
(* that mode, whether or not the device sends anything.                    *)
SelectedIsPolled ==
  \A t \in MediaTracks \union {Master} : \A m \in Modes :
    (selected = t /\ m_mode = m)
      ~> (polled = <<m, t>> \/ selected # t \/ m_mode # m \/ mpc = "crashed")

(* "Kiwi Haptic Interface is not connected." (main.cpp:38) is only         *)
(* reported when the device has not answered the ping in time.             *)
NotConnectedIsTrue == report = "not connected" => ~answered

=============================================================================
