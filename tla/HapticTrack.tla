---------------------------- MODULE HapticTrack ----------------------------
(***************************************************************************)
(* haptic_track_t (src/haptic_track.h): the block of one track that was    *)
(* computed last, cached under its resolution, and shared by the threads   *)
(* of the controller's pool that answer /pixels (src/controller.h) and by  *)
(* the thread of the mipmap that has just loaded the track.                *)
(*                                                                         *)
(* The mipmap is the atomic cell of BlockStore, which Mipmap implements;   *)
(* what it holds is a version of the audio.                                *)
(***************************************************************************)
EXTENDS Integers, FiniteSets

CONSTANTS
  Readers,         (* the threads of the controller's pool: 4              *)
  Loader,          (* the thread that runs the callback given by setup()   *)
  Zooms,           (* the resolutions the user zooms to: doubles in the    *)
                   (* code, which only compares them here                  *)
  DefaultPps,      (* m_pix_per_s of a block nobody has computed: 1.0      *)
  MaxZoomChanges,  (* bound: how often the user zooms                      *)
  MaxVersion       (* bound: versions of the audio that are loaded         *)

Threads  == Readers \union {Loader}
Unfilled == 0                    (* the mipmap's blocks have no channels   *)
Versions == 1 .. MaxVersion
NoReply  == [zoom |-> DefaultPps, audio |-> Unfilled]

(* Pixels computed for a zoom from a version of the audio; what is read    *)
(* from pixels that were freed meanwhile belongs to neither.               *)
Pixels  == [zoom : Zooms, audio : Versions]
Garbage == [zoom |-> -1, audio |-> -1]

ASSUME TrackAssumption ==
  /\ Loader \notin Readers
  /\ Zooms # {} /\ Zooms \subseteq Nat \ {0} /\ DefaultPps \in Nat \ {0}
  /\ MaxZoomChanges \in Nat /\ MaxVersion \in Nat \ {0}

VARIABLES
  mipmap,    (* is there a mipmap?  Not for a track that is null           *)
  zoom,      (* what GetHZoomLevel() returns                               *)
  changes,   (* how often the user has zoomed                              *)
  store,     (* the version of the audio in the mipmap                     *)
  view,      (* what each thread has copied from the mipmap                *)
  pixels,    (* m_active_block.m_channel_pixels                            *)
  pps,       (* m_active_block.m_pix_per_s                                 *)
  pc,        (* where each thread is                                       *)
  level,     (* the zoom level each thread read last                       *)
  ref,       (* the pixels each thread reads through its reference         *)
  freed,     (* the threads whose pixels were freed under them             *)
  reply,     (* what each thread sent last                                 *)
  since      (* history: the zoom levels there were since its request      *)

Cell == INSTANCE BlockStore WITH
  Clients <- Threads, Values <- Versions, Initial <- Unfilled

hostVars  == <<mipmap, zoom, changes>>
block     == <<pixels, pps>>
replyVars == <<ref, freed, reply, since>>
vars == <<hostVars, store, view, block, pc, level, replyVars>>

Labels == {"idle", "zoom", "compare", "again", "copy", "assign", "label", "deref", "send"}

(* The track is new: its first update is in the mipmap's queue.  setup()   *)
(* makes no mipmap for a null track, and never will.                       *)
Init ==
  /\ mipmap \in BOOLEAN
  /\ zoom \in Zooms /\ changes = 0
  /\ Cell!Init
  /\ pixels = NoReply /\ pps = DefaultPps
  /\ pc = [t \in Threads |-> "idle"]
  /\ level = [t \in Threads |-> DefaultPps]
  /\ ref = [t \in Readers |-> NoReply] /\ freed = {}
  /\ reply = [t \in Readers |-> NoReply]
  /\ since = [t \in Readers |-> {}]

Goto(t, label) == pc' = [pc EXCEPT ![t] = label]

-----------------------------------------------------------------------------
(* The user zooms, with the mouse or from the device (zoom()).             *)
Zoom ==
  /\ changes < MaxZoomChanges
  /\ changes' = changes + 1
  /\ zoom' \in Zooms \ {zoom}
  /\ since' = [t \in Readers |->
                 IF pc[t] = "idle" THEN since[t] ELSE since[t] \union {zoom'}]
  /\ UNCHANGED <<mipmap, store, view, block, pc, level, ref, freed, reply>>

(* The forced update of setup() is done and runs its callback, which       *)
(* updates the active block.                                               *)
Load ==
  /\ mipmap /\ store = Unfilled /\ pc[Loader] = "idle"
  /\ Cell!Publish(1)
  /\ Goto(Loader, "zoom")
  /\ UNCHANGED <<hostVars, block, level, replyVars>>

(* An update by Run() is done.  Its callback is empty.                     *)
Update ==
  /\ store # Unfilled /\ store < MaxVersion
  /\ Cell!Publish(store + 1)
  /\ UNCHANGED <<hostVars, block, pc, level, replyVars>>

-----------------------------------------------------------------------------
(* update_active_block(), by a reader or the loader.                       *)

ReadZoom(t) ==
  /\ pc[t] = "zoom"
  /\ level' = [level EXCEPT ![t] = zoom]
  /\ Goto(t, "compare")
  /\ UNCHANGED <<hostVars, store, view, block, replyVars>>

(* The loader has nothing more to do than to update the block.             *)
Return(t) ==
  /\ level' = [level EXCEPT ![t] = DefaultPps]
  /\ Goto(t, IF t = Loader THEN "idle" ELSE "deref")

(* A bug for RepliesAreCurrent and ZoomConverges: the block is computed    *)
(* only once.                                                              *)
CompareWithDefault(t) ==
  /\ pc[t] = "compare"
  /\ IF pps = DefaultPps THEN Goto(t, "again") /\ UNCHANGED level ELSE Return(t)
  /\ UNCHANGED <<hostVars, store, view, block, replyVars>>

Compare(t) ==
  /\ pc[t] = "compare"
  /\ IF level[t] # pps THEN Goto(t, "again") /\ UNCHANGED level ELSE Return(t)
  /\ UNCHANGED <<hostVars, store, view, block, replyVars>>

(* calculate_pixels() has an empty block at once if there is no mipmap;    *)
(* the cell stands for the empty block then, as nobody ever fills it.      *)
NoMipmap(t) ==
  /\ pc[t] = "again" /\ ~mipmap
  /\ level' = [level EXCEPT ![t] = DefaultPps]
  /\ Cell!Read(t)
  /\ Goto(t, "assign")
  /\ UNCHANGED <<hostVars, block, replyVars>>

(* Otherwise it asks for the zoom level once more ...                      *)
ReadZoomAgain(t) ==
  /\ pc[t] = "again" /\ mipmap
  /\ level' = [level EXCEPT ![t] = zoom]
  /\ Goto(t, "copy")
  /\ UNCHANGED <<hostVars, store, view, block, replyVars>>

(* A bug for AudioNeverGoesBack: a thread keeps the block it once copied.  *)
CopyBlockOnce(t) ==
  /\ pc[t] = "copy"
  /\ IF view[t] = {} THEN Cell!Read(t) ELSE UNCHANGED <<store, view>>
  /\ Goto(t, "assign")
  /\ UNCHANGED <<hostVars, block, level, replyVars>>

(* ... and gets a new block from the mipmap, under the mipmap's lock.      *)
CopyBlock(t) ==
  /\ pc[t] = "copy"
  /\ Cell!Read(t)
  /\ Goto(t, "assign")
  /\ UNCHANGED <<hostVars, block, level, replyVars>>

(* The block's assignment operator copies member after member.  No lock    *)
(* is held.  The pixels that were there are freed, also when another       *)
(* thread reads them.                                                      *)
AssignPixels(t) ==
  /\ pc[t] = "assign"
  /\ \E v \in view[t] : pixels' = [zoom |-> level[t], audio |-> v]
  /\ freed' = freed \union {u \in Readers : pc[u] = "send"}
  /\ Goto(t, "label")
  /\ UNCHANGED <<hostVars, store, view, pps, level, ref, reply, since>>

AssignPps(t) ==
  /\ pc[t] = "label"
  /\ pps' = level[t]
  /\ Return(t)
  /\ UNCHANGED <<hostVars, store, view, pixels, replyVars>>

UpdateActiveBlock(t) ==
  \/ ReadZoom(t) \/ Compare(t) \/ NoMipmap(t) \/ ReadZoomAgain(t)
  \/ CopyBlock(t) \/ AssignPixels(t) \/ AssignPps(t)

-----------------------------------------------------------------------------
(* The task of send_pixels(), run by a thread of the controller's pool.    *)

Request(t) ==
  /\ pc[t] = "idle"
  /\ since' = [since EXCEPT ![t] = {zoom}]
  /\ reply' = [reply EXCEPT ![t] = NoReply]
  /\ Goto(t, "zoom")
  /\ UNCHANGED <<hostVars, store, view, block, level, ref, freed>>

(* A bug for TypeOK: the channel is not checked.                           *)
DerefUnchecked(t) ==
  /\ pc[t] = "deref"
  /\ Goto(t, "send") /\ ref' = [ref EXCEPT ![t] = pixels]
  /\ UNCHANGED <<hostVars, store, view, block, level, freed, reply, since>>

(* get_pixels() hands out a reference to the pixels, and at() throws when  *)
(* they have no channels.  Nobody sees the exception.                      *)
Deref(t) ==
  /\ pc[t] = "deref"
  /\ IF pixels.audio = Unfilled
       THEN Goto(t, "idle") /\ since' = [since EXCEPT ![t] = {}] /\ UNCHANGED ref
       ELSE Goto(t, "send") /\ ref' = [ref EXCEPT ![t] = pixels] /\ UNCHANGED since
  /\ UNCHANGED <<hostVars, store, view, block, level, freed, reply>>

(* from() reads the pixels through the reference and the chunks are sent.  *)
Send(t) ==
  /\ pc[t] = "send"
  /\ \/ reply' = [reply EXCEPT ![t] = ref[t]]
     \/ t \in freed /\ reply' = [reply EXCEPT ![t] = Garbage]
  /\ ref' = [ref EXCEPT ![t] = NoReply] /\ freed' = freed \ {t}
  /\ since' = [since EXCEPT ![t] = {}]
  /\ Goto(t, "idle")
  /\ UNCHANGED <<hostVars, store, view, block, level>>

SendPixels(t) == Deref(t) \/ Send(t)

Next ==
  \/ Zoom \/ Load \/ Update
  \/ \E t \in Threads : UpdateActiveBlock(t)
  \/ \E t \in Readers : Request(t) \/ SendPixels(t)

(* The OS schedules every thread, and the track is loaded at last.  The    *)
(* user need not zoom or edit, and the device need not ask.                *)
Fairness ==
  /\ WF_vars(Load)
  /\ \A t \in Threads : WF_vars(UpdateActiveBlock(t))
  /\ \A t \in Readers : WF_vars(SendPixels(t))

Spec == Init /\ [][Next]_vars

-----------------------------------------------------------------------------
(* Properties.                                                             *)

(* Nothing is ever sent from a block that was not filled.                  *)
TypeOK ==
  /\ mipmap \in BOOLEAN /\ zoom \in Zooms /\ changes \in 0 .. MaxZoomChanges
  /\ store \in Versions \union {Unfilled}
  /\ view \in [Threads -> SUBSET (Versions \union {Unfilled})]
  /\ pixels \in [zoom : Zooms, audio : Versions \union {Unfilled}] \union {NoReply}
  /\ pps \in Zooms \union {DefaultPps}
  /\ pc \in [Threads -> Labels]
  /\ level \in [Threads -> Zooms \union {DefaultPps}]
  /\ ref \in [Readers -> Pixels \union {NoReply}]
  /\ freed \subseteq Readers
  /\ reply \in [Readers -> Pixels \union {NoReply, Garbage}]
  /\ since \in [Readers -> SUBSET Zooms]

(* "returns an audio pixel block at the current resolution"                *)
(* (haptic_track.h:60): the pixels that are sent were computed for a zoom  *)
(* level there was while the request was served.                           *)
SendsCurrentZoom ==
  \A t \in Readers : pc[t] = "send" /\ pc'[t] = "idle" => reply'[t].zoom \in since[t]
ReplyAtCurrentZoom == [][SendsCurrentZoom]_vars

=============================================================================
