------------------------------ MODULE TrackMap ------------------------------
(***************************************************************************)
(* haptic_track_map_t (src/haptic_track.h): the haptic tracks by track     *)
(* number, and the active one.  REAPER's main thread is the only one that  *)
(* uses it; the host renumbers its tracks as the user edits the project.   *)
(***************************************************************************)
EXTENDS Integers, Sequences, FiniteSets, SequencesExt

CONSTANTS
  MediaTracks,   (* the tracks the user may have in the project            *)
  Master,        (* the master track                                       *)
  NoTrack,       (* nullptr, and any track the host does not know          *)
  Renumbering    (* may the user insert between tracks, or delete one?     *)

AnyTrack == MediaTracks \union {Master, NoTrack}

ASSUME TracksAssumption ==
  /\ Master \notin MediaTracks /\ NoTrack \notin MediaTracks /\ Master # NoTrack
  /\ Renumbering \in BOOLEAN

VARIABLES
  order,         (* the host's tracks from top to bottom                   *)
  tracks,        (* tracks: the MediaTrack of the haptic track at a number *)
  active_track,  (* active_track                                           *)
  selected       (* history: the track the host announced last             *)

mapVars == <<order, tracks, active_track, selected>>

MasterNumber == -1
NotFound     == 0

(* The map starts empty, for all its constructor asks for the master.      *)
MapInit ==
  /\ order = <<>>
  /\ tracks = <<>>
  /\ active_track = MasterNumber
  /\ selected = NoTrack

-----------------------------------------------------------------------------
(* The host.                                                               *)

Present == {order[i] : i \in DOMAIN order}

(* get_track_number(): "track number 1-based, 0=not found, -1=master".     *)
TrackNumber(t) ==
  IF t = Master THEN MasterNumber
  ELSE IF t \in Present THEN CHOOSE i \in DOMAIN order : order[i] = t
  ELSE NotFound

(* The user adds a track, below the others or among them.                  *)
InsertTrack(t) ==
  /\ t \notin Present
  /\ \/ order' = Append(order, t)
     \/ Renumbering /\ \E i \in 1 .. Len(order) : order' = InsertAt(order, i, t)
  /\ UNCHANGED <<tracks, active_track, selected>>

(* The user deletes a track.  The map is not told.                         *)
DeleteTrack(t) ==
  /\ Renumbering
  /\ \E i \in DOMAIN order : order[i] = t /\ order' = RemoveAt(order, i)
  /\ UNCHANGED <<tracks, active_track, selected>>

-----------------------------------------------------------------------------
(* add() and active().                                                     *)

(* A bug for OneHapticTrackEach: the map is a list, and nobody searches it.*)
AddedAtEnd(t) ==
  [m \in DOMAIN tracks \union {Cardinality(DOMAIN tracks) + 1} |->
     IF m \in DOMAIN tracks THEN tracks[m] ELSE t]

(* The map after add(t): "only add if it's new".  A track that is not      *)
(* found gets a haptic track with a null track.                            *)
Added(t) ==
  LET n == TrackNumber(t)
  IN  IF n \in DOMAIN tracks
        THEN tracks
        ELSE [m \in DOMAIN tracks \union {n} |->
                IF m # n THEN tracks[m]
                ELSE IF n = NotFound THEN NoTrack ELSE t]

(* A bug for ActiveIsRegistered: a track that is not found is not added,   *)
(* but made active.                                                        *)
SelectUnknown(t) ==
  /\ tracks' = IF TrackNumber(t) = NotFound THEN tracks ELSE Added(t)
  /\ active_track' = TrackNumber(t)
  /\ selected' = t
  /\ UNCHANGED order

(* A bug for ActiveIsSelected: only a track that is new is made active.    *)
SelectByAdding(t) ==
  /\ tracks' = Added(t)
  /\ active_track' = IF TrackNumber(t) \in DOMAIN tracks
                       THEN active_track ELSE TrackNumber(t)
  /\ selected' = t
  /\ UNCHANGED order

(* OnTrackSelection(t), and SetSurfaceSelected(t, true): add(t), active(t).*)
(* active() finds the number of t, as add() has just seen to it.           *)
Select(t) ==
  /\ tracks' = Added(t)
  /\ active_track' = TrackNumber(t)
  /\ selected' = t
  /\ UNCHANGED order

-----------------------------------------------------------------------------
(* Properties.                                                             *)

MapTypeOK ==
  /\ order \in Seq(MediaTracks)
  /\ DOMAIN tracks \subseteq Nat \union {MasterNumber}
  /\ \A n \in DOMAIN tracks : tracks[n] \in AnyTrack
  /\ active_track \in Nat \union {MasterNumber}
  /\ selected \in AnyTrack

(* tracks.at(active_track) never throws in active(): as soon as there is a *)
(* haptic track, the active one is among them, however the host renumbers. *)
ActiveIsRegistered == DOMAIN tracks # {} => active_track \in DOMAIN tracks

(* "a map to hold one haptic track per MediaTrack" (haptic_track.h:141).   *)
OneHapticTrackEach ==
  \A m, n \in DOMAIN tracks : tracks[m] = tracks[n] => m = n

(* "set {} as the active track" (controller.h:49): the active haptic track *)
(* is the one of the track that the user selected, if it still exists.     *)
ActiveIsSelected ==
  selected \in Present \union {Master} => tracks[active_track] = selected

=============================================================================
