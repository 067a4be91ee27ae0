------------------------- MODULE HapticTrackProofs -------------------------
(***************************************************************************)
(* Proofs about HapticTrack and HapticTrackRaces, for any number of        *)
(* threads, zoom levels and versions of the audio: unless a thread has     *)
(* replaced the active block while another one was at work, a reply has a  *)
(* zoom level of the time of its request, however often the user zooms     *)
(* between the two times the code asks for it, and the audio only becomes  *)
(* newer.                                                                  *)
(***************************************************************************)
EXTENDS HapticTrackRaces, TLAPS

USE TrackAssumption DEF TrackAssumption, Threads

-----------------------------------------------------------------------------
(* TypeOK is not inductive: the block gets the zoom level that the thread  *)
(* has read, so the thread must have read one, or the block is empty.      *)
LevelRead ==
  \A t \in Threads :
    /\ pc[t] \in {"compare", "again", "copy"} => level[t] \in Zooms
    /\ pc[t] \in {"assign", "label"} =>
         IF mipmap THEN level[t] \in Zooms ELSE level[t] = DefaultPps
    /\ pc[t] = "copy" => mipmap

(* Nothing is loaded without a mipmap.                                     *)
NoAudio ==
  ~mipmap =>
    /\ store = Unfilled /\ pixels.audio = Unfilled
    /\ \A t \in Threads : view[t] \subseteq {Unfilled}

LEMMA InitTypeOK == Init => TypeOK
  <1> SUFFICES ASSUME Init
               PROVE  TypeOK
    OBVIOUS
  <1> USE DEF Init
  <1>1. pixels \in [zoom : Zooms, audio : Versions \union {Unfilled}] \union {NoReply}
    OBVIOUS
  <1>2. /\ mipmap \in BOOLEAN /\ zoom \in Zooms /\ changes \in 0 .. MaxZoomChanges
        /\ store \in Versions \union {Unfilled}
        /\ view \in [Threads -> SUBSET (Versions \union {Unfilled})]
    BY DEF Cell!Init
  <1>3. pc \in [Threads -> Labels] /\ level \in [Threads -> Zooms \union {DefaultPps}]
    BY DEF Labels
  <1>4. QED
    BY <1>1, <1>2, <1>3 DEF TypeOK

LEMMA NextTypeOK == TypeOK /\ LevelRead /\ NoAudio /\ [Next]_vars => TypeOK'
  <1> SUFFICES ASSUME TypeOK, LevelRead, NoAudio, [Next]_vars
               PROVE  TypeOK'
    OBVIOUS
  <1> USE DEF TypeOK, hostVars, block, replyVars, Goto
  <1>1. CASE Zoom
    BY <1>1 DEF Zoom
  <1>2. CASE Load \/ Update
    BY <1>2 DEF Load, Update, Cell!Publish, Versions, Unfilled, Labels
  <1>3. ASSUME NEW t \in Threads, UpdateActiveBlock(t)
        PROVE  TypeOK'
    <2>1. CASE ReadZoom(t) \/ ReadZoomAgain(t)
      BY <2>1 DEF ReadZoom, ReadZoomAgain, Labels
    <2>2. CASE Compare(t)
      BY <2>2 DEF Compare, Return, Labels
    <2>3. CASE NoMipmap(t) \/ CopyBlock(t)
      BY <2>3 DEF NoMipmap, CopyBlock, Cell!Read, Labels
    <2>4. CASE AssignPixels(t)
      <3>1. PICK v \in view[t] : pixels' = [zoom |-> level[t], audio |-> v]
        BY <2>4 DEF AssignPixels
      <3>2. v \in Versions \union {Unfilled}
        BY <3>1
      <3>3. level[t] \in Zooms \/ (level[t] = DefaultPps /\ v = Unfilled)
        BY <2>4, <3>1 DEF AssignPixels, LevelRead, NoAudio
      <3>4. pixels' \in [zoom : Zooms, audio : Versions \union {Unfilled}] \union {NoReply}
        BY <3>1, <3>2, <3>3 DEF NoReply
      <3>5. QED
        BY <2>4, <3>4 DEF AssignPixels, Labels
    <2>5. CASE AssignPps(t)
      BY <2>5 DEF AssignPps, Return, Labels
    <2>6. QED
      BY <1>3, <2>1, <2>2, <2>3, <2>4, <2>5 DEF UpdateActiveBlock
  <1>4. ASSUME NEW t \in Readers, Request(t) \/ SendPixels(t)
        PROVE  TypeOK'
    <2>1. CASE Request(t)
      BY <2>1 DEF Request, Labels
    <2>2. CASE Deref(t)
      BY <2>2 DEF Deref, Labels, Pixels, NoReply
    <2>3. CASE Send(t)
      BY <2>3 DEF Send, Labels
    <2>4. QED
      BY <1>4, <2>1, <2>2, <2>3 DEF SendPixels
  <1>5. CASE UNCHANGED vars
    BY <1>5 DEF vars
  <1>6. QED
    BY <1>1, <1>2, <1>3, <1>4, <1>5 DEF Next

LEMMA NextLevelRead == TypeOK /\ LevelRead /\ [Next]_vars => LevelRead'
  <1> SUFFICES ASSUME TypeOK, LevelRead, [Next]_vars
               PROVE  LevelRead'
    OBVIOUS
  <1> USE DEF TypeOK, LevelRead, hostVars, block, replyVars, Goto
  <1>1. CASE Zoom \/ Load \/ Update \/ UNCHANGED vars
    BY <1>1 DEF Zoom, Load, Update, vars
  <1>2. ASSUME NEW t \in Threads, UpdateActiveBlock(t)
        PROVE  LevelRead'
    BY <1>2 DEF UpdateActiveBlock, ReadZoom, Compare, NoMipmap, ReadZoomAgain, CopyBlock,
                AssignPixels, AssignPps, Return
  <1>3. ASSUME NEW t \in Readers, Request(t) \/ SendPixels(t)
        PROVE  LevelRead'
    BY <1>3 DEF Request, SendPixels, Deref, Send
  <1>4. QED
    BY <1>1, <1>2, <1>3 DEF Next

LEMMA NextNoAudio == TypeOK /\ NoAudio /\ [Next]_vars => NoAudio'
  <1> SUFFICES ASSUME TypeOK, NoAudio, [Next]_vars
               PROVE  NoAudio'
    OBVIOUS
  <1> USE DEF TypeOK, NoAudio, hostVars, block
  <1>1. CASE Zoom \/ Load \/ Update \/ UNCHANGED vars
    BY <1>1 DEF Zoom, Load, Update, vars
  <1>2. ASSUME NEW t \in Threads, UpdateActiveBlock(t)
        PROVE  NoAudio'
    <2>1. CASE NoMipmap(t) \/ CopyBlock(t)
      BY <2>1 DEF NoMipmap, CopyBlock, Cell!Read
    <2>2. CASE AssignPixels(t)
      BY <2>2 DEF AssignPixels
    <2>3. CASE ReadZoom(t) \/ Compare(t) \/ ReadZoomAgain(t) \/ AssignPps(t)
      BY <2>3 DEF ReadZoom, Compare, ReadZoomAgain, AssignPps
    <2>4. QED
      BY <1>2, <2>1, <2>2, <2>3 DEF UpdateActiveBlock
  <1>3. ASSUME NEW t \in Readers, Request(t) \/ SendPixels(t)
        PROVE  NoAudio'
    BY <1>3 DEF Request, SendPixels, Deref, Send
  <1>4. QED
    BY <1>1, <1>2, <1>3 DEF Next

TypeInv == TypeOK /\ LevelRead /\ NoAudio

LEMMA InitTypeInv == Init => TypeInv
  <1>1. Init => LevelRead /\ NoAudio
    BY DEF Init, Cell!Init, LevelRead, NoAudio, NoReply
  <1>2. QED
    BY <1>1, InitTypeOK DEF TypeInv

LEMMA NextTypeInv == TypeInv /\ [Next]_vars => TypeInv'
  BY NextTypeOK, NextLevelRead, NextNoAudio DEF TypeInv

LEMMA TypeInvariant == Spec => []TypeInv
  BY InitTypeInv, NextTypeInv, PTL DEF Spec

(* Every variable stays within its type; in particular, nothing is sent    *)
(* from a block that was not filled.                                       *)
THEOREM TypeCorrect == Spec => []TypeOK
  <1>1. TypeInv => TypeOK
    BY DEF TypeInv
  <1>2. QED
    BY <1>1, TypeInvariant, PTL

-----------------------------------------------------------------------------
(* The zoom levels that a request reads.                                   *)

(* Whatever other threads do, what a request has read is of its own time,  *)
(* and no pixels are freed under it but those that it sends.               *)
Own(t) ==
  /\ pc[t] # "idle" => zoom \in since[t]
  /\ pc[t] \in {"compare", "again", "copy"} => level[t] \in since[t]
  /\ pc[t] \in {"assign", "label"} /\ mipmap => level[t] \in since[t]
  /\ t \in freed => pc[t] = "send"

OwnInv == \A t \in Readers : Own(t)

LEMMA NextOwn == TypeInv /\ OwnInv /\ [Next]_vars => OwnInv'
  <1> SUFFICES ASSUME TypeInv, OwnInv, [Next]_vars, NEW r \in Readers
               PROVE  Own(r)'
    BY DEF OwnInv
  <1> USE DEF TypeInv, TypeOK, LevelRead, OwnInv, hostVars, block, replyVars, Goto
  <1>1. CASE Zoom
    BY <1>1 DEF Zoom, Own
  <1>2. CASE Load \/ Update \/ UNCHANGED vars
    BY <1>2 DEF Load, Update, vars, Own
  <1>3. ASSUME NEW t \in Threads, UpdateActiveBlock(t)
        PROVE  Own(r)'
    BY <1>3 DEF UpdateActiveBlock, ReadZoom, Compare, NoMipmap, ReadZoomAgain, CopyBlock,
                AssignPixels, AssignPps, Return, Own
  <1>4. ASSUME NEW t \in Readers, Request(t) \/ SendPixels(t)
        PROVE  Own(r)'
    BY <1>4 DEF Request, SendPixels, Deref, Send, Own
  <1>5. QED
    BY <1>1, <1>2, <1>3, <1>4 DEF Next

-----------------------------------------------------------------------------
(* Nobody has audio that the mipmap has not had.                           *)
UpToDate ==
  /\ pixels.audio <= store
  /\ \A t \in Threads : \A v \in view[t] : v <= store

LEMMA VersionsAreNumbers ==
  ASSUME TypeOK
  PROVE  /\ store \in Nat /\ pixels.audio \in Nat
         /\ \A t \in Threads : view[t] \subseteq Nat
  BY DEF TypeOK, Versions, Unfilled, NoReply

LEMMA NextUpToDate == TypeInv /\ UpToDate /\ [Next]_vars => UpToDate'
  <1> SUFFICES ASSUME TypeInv, UpToDate, [Next]_vars
               PROVE  UpToDate'
    OBVIOUS
  <1>1. /\ TypeOK /\ store \in Nat /\ pixels.audio \in Nat
        /\ \A t \in Threads : view[t] \subseteq Nat
    BY VersionsAreNumbers DEF TypeInv
  <1>2. ASSUME UNCHANGED <<store, view, pixels>>
        PROVE  UpToDate'
    BY <1>2 DEF UpToDate
  <1>3. CASE Load \/ Update
    <2>1. store' \in Nat /\ store' > store /\ UNCHANGED <<view, pixels>>
      BY <1>1, <1>3 DEF Load, Update, Cell!Publish, Unfilled, block
    <2>2. ASSUME NEW t \in Threads, NEW v \in view[t]
          PROVE  v <= store'
      <3>1. v <= store /\ v \in Nat
        BY <1>1 DEF UpToDate
      <3>2. QED
        BY <1>1, <2>1, <3>1
    <2>3. pixels.audio <= store'
      BY <1>1, <2>1 DEF UpToDate
    <2>4. QED
      BY <2>1, <2>2, <2>3 DEF UpToDate
  <1>4. ASSUME NEW t \in Threads, NoMipmap(t) \/ CopyBlock(t)
        PROVE  UpToDate'
    <2>1. view' = [view EXCEPT ![t] = {store}] /\ UNCHANGED <<store, pixels>>
      BY <1>4 DEF NoMipmap, CopyBlock, Cell!Read, block
    <2>2. QED
      BY <1>1, <2>1 DEF UpToDate, TypeOK
  <1>5. ASSUME NEW t \in Threads, AssignPixels(t)
        PROVE  UpToDate'
    <2>1. PICK v \in view[t] : pixels' = [zoom |-> level[t], audio |-> v]
      BY <1>5 DEF AssignPixels
    <2>2. UNCHANGED <<store, view>>
      BY <1>5 DEF AssignPixels
    <2>3. QED
      BY <2>1, <2>2 DEF UpToDate
  <1>6. CASE Zoom \/ UNCHANGED vars
    BY <1>2, <1>6 DEF Zoom, vars, block
  <1>7. ASSUME NEW t \in Threads,
               ReadZoom(t) \/ Compare(t) \/ ReadZoomAgain(t) \/ AssignPps(t)
        PROVE  UpToDate'
    BY <1>2, <1>7 DEF ReadZoom, Compare, ReadZoomAgain, AssignPps, block
  <1>8. ASSUME NEW t \in Readers, Request(t) \/ SendPixels(t)
        PROVE  UpToDate'
    BY <1>2, <1>8 DEF Request, SendPixels, Deref, Send, block
  <1>9. QED
    BY <1>3, <1>4, <1>5, <1>6, <1>7, <1>8 DEF Next, UpdateActiveBlock

-----------------------------------------------------------------------------
(* The active block, unless threads have overlapped.                       *)

(* A thread that replaces the block is alone.                              *)
Alone ==
  \A t, u \in Threads : t # u /\ pc[t] \in Replacing => pc[u] = "idle"

(* The label of the active block is right, but for the one that a thread   *)
(* is about to give it.                                                    *)
Labelled ==
  /\ (\A t \in Threads : pc[t] \notin Replacing) => pixels.zoom = pps
  /\ \A t \in Threads : pc[t] = "label" => pixels.zoom = level[t]

(* A block that was copied is at least as new as the one it replaces.      *)
Newer ==
  \A t \in Threads : pc[t] = "assign" => \A v \in view[t] : pixels.audio <= v

(* The pixels that a request has found are of its own time, and not freed. *)
Found(t) ==
  /\ pc[t] = "deref" /\ mipmap => pixels.zoom \in since[t]
  /\ pc[t] = "send" => ref[t].zoom \in since[t] /\ t \notin freed

Settled    == Alone /\ Labelled /\ Newer /\ \A t \in Readers : Found(t)
SettledInv == ~overlapped => Settled

(* The race variable only observes: what holds of HapticTrack holds here.  *)
LEMMA RacesNextCases ==
  ASSUME [RacesNext]_<<vars, overlapped>>
  PROVE  /\ [Next]_vars
         /\ ~overlapped' => \/ ~overlapped /\ (~Overlap' \/ UNCHANGED vars)
                            \/ Next /\ ReplacesAlone /\ ~Overlap'
  <1>1. CASE RacesNext
    <2>1. CASE Overlap'
      BY <1>1, <2>1 DEF RacesNext
    <2>2. CASE ~Overlap' /\ ReplacesAlone
      BY <1>1, <2>2 DEF RacesNext
    <2>3. CASE ~Overlap' /\ ~ReplacesAlone
      BY <1>1, <2>3 DEF RacesNext
    <2>4. QED
      BY <2>1, <2>2, <2>3
  <1>2. CASE UNCHANGED <<vars, overlapped>>
    BY <1>2, Zenon
  <1>3. QED
    BY <1>1, <1>2, Zenon

LEMMA RacesAreObserved == RacesSpec => Spec
  <1>1. RacesInit => Init
    BY DEF RacesInit
  <1>2. [RacesNext]_<<vars, overlapped>> => [Next]_vars
    BY RacesNextCases
  <1>3. QED
    BY <1>1, <1>2, PTL DEF RacesSpec, Spec

LEMMA ReplacesAloneSettles == ASSUME ReplacesAlone PROVE Settled'
  <1>1. PICK t \in Threads : pc'[t] = "again" /\ \A u \in Threads \ {t} : pc'[u] = "idle"
    BY DEF ReplacesAlone
  <1>2. /\ pc'[t] \in Replacing
        /\ \A u \in Threads : pc'[u] \notin {"assign", "label", "deref", "send"}
    BY <1>1 DEF Replacing
  <1>3. Alone'
    BY <1>1 DEF Alone, Replacing
  <1>4. Labelled' /\ Newer'
    BY <1>2 DEF Labelled, Newer
  <1>5. \A r \in Readers : Found(r)'
    BY <1>2 DEF Found
  <1>6. QED
    BY <1>3, <1>4, <1>5 DEF Settled

LEMMA NextLabelled ==
  ASSUME TypeInv, Settled, Next
  PROVE  Labelled'
  <1> USE DEF TypeInv, TypeOK, Settled, Labelled, Replacing, hostVars, block, replyVars, Goto
  <1>1. CASE Zoom \/ Load \/ Update
    BY <1>1 DEF Zoom, Load, Update
  <1>2. ASSUME NEW t \in Threads, AssignPixels(t) \/ AssignPps(t)
        PROVE  Labelled'
    <2>1. \A u \in Threads : u # t => pc[u] = "idle"
      BY <1>2 DEF Alone, AssignPixels, AssignPps
    <2>2. CASE AssignPixels(t)
      BY <2>1, <2>2 DEF AssignPixels
    <2>3. CASE AssignPps(t)
      BY <2>1, <2>3 DEF AssignPps, Return
    <2>4. QED
      BY <1>2, <2>2, <2>3
  <1>3. ASSUME NEW t \in Threads,
               ReadZoom(t) \/ NoMipmap(t) \/ ReadZoomAgain(t) \/ CopyBlock(t)
        PROVE  Labelled'
    BY <1>3 DEF ReadZoom, NoMipmap, ReadZoomAgain, CopyBlock
  <1>4. ASSUME NEW t \in Threads, Compare(t)
        PROVE  Labelled'
    BY <1>4 DEF Compare, Return
  <1>5. ASSUME NEW t \in Readers, Request(t) \/ SendPixels(t)
        PROVE  Labelled'
    BY <1>5 DEF Request, SendPixels, Deref, Send
  <1>6. QED
    BY <1>1, <1>2, <1>3, <1>4, <1>5 DEF Next, UpdateActiveBlock

LEMMA NextNewer ==
  ASSUME TypeInv, UpToDate, Settled, Next
  PROVE  Newer'
  <1> USE DEF TypeInv, TypeOK, Settled, Newer, hostVars, block, replyVars, Goto
  <1>1. ASSUME UNCHANGED <<view, pixels>>,
               \A t \in Threads : pc'[t] = "assign" => pc[t] = "assign"
        PROVE  Newer'
    BY <1>1
  <1>2. CASE Zoom \/ Load \/ Update
    BY <1>1, <1>2 DEF Zoom, Load, Update, Cell!Publish
  <1>3. ASSUME NEW t \in Threads, NoMipmap(t) \/ CopyBlock(t)
        PROVE  Newer'
    <2>1. view' = [view EXCEPT ![t] = {store}] /\ UNCHANGED <<store, pixels>>
      BY <1>3 DEF NoMipmap, CopyBlock, Cell!Read
    <2>2. \A u \in Threads : u # t => pc'[u] = pc[u]
      BY <1>3 DEF NoMipmap, CopyBlock
    <2>3. QED
      BY <2>1, <2>2 DEF UpToDate
  <1>4. ASSUME NEW t \in Threads, AssignPixels(t)
        PROVE  Newer'
    BY <1>4 DEF Alone, Replacing, AssignPixels
  <1>5. ASSUME NEW t \in Threads,
               ReadZoom(t) \/ Compare(t) \/ ReadZoomAgain(t) \/ AssignPps(t)
        PROVE  Newer'
    BY <1>1, <1>5 DEF ReadZoom, Compare, ReadZoomAgain, AssignPps, Return
  <1>6. ASSUME NEW t \in Readers, Request(t) \/ SendPixels(t)
        PROVE  Newer'
    BY <1>1, <1>6 DEF Request, SendPixels, Deref, Send
  <1>7. QED
    BY <1>2, <1>3, <1>4, <1>5, <1>6 DEF Next, UpdateActiveBlock

LEMMA NextFound ==
  ASSUME TypeInv, OwnInv, Settled, Next, NEW r \in Readers
  PROVE  Found(r)'
  <1> USE DEF TypeInv, TypeOK, OwnInv, Settled, Found, hostVars, block, replyVars, Goto
  <1>1. CASE Zoom \/ Load \/ Update
    BY <1>1 DEF Zoom, Load, Update
  <1>2. ASSUME NEW t \in Threads,
               ReadZoom(t) \/ NoMipmap(t) \/ ReadZoomAgain(t) \/ CopyBlock(t)
        PROVE  Found(r)'
    BY <1>2 DEF ReadZoom, NoMipmap, ReadZoomAgain, CopyBlock
  <1>3. ASSUME NEW t \in Threads, Compare(t)
        PROVE  Found(r)'
    <2>1. CASE t # r
      BY <1>3, <2>1 DEF Compare, Return
    <2>2. CASE t = r /\ level[r] # pps
      BY <1>3, <2>2 DEF Compare
    <2>3. CASE t = r /\ level[r] = pps
      <3>1. \A u \in Threads : pc[u] \notin Replacing
        BY <1>3, <2>3 DEF Compare, Alone, Replacing
      <3>2. pixels.zoom = pps /\ level[r] \in since[r]
        BY <1>3, <2>3, <3>1 DEF Labelled, Compare, Own
      <3>3. QED
        BY <1>3, <2>3, <3>2 DEF Compare, Return
    <2>4. QED
      BY <2>1, <2>2, <2>3
  <1>4. ASSUME NEW t \in Threads, AssignPixels(t)
        PROVE  Found(r)'
    <2>1. \A u \in Threads : u # t => pc[u] = "idle"
      BY <1>4 DEF Alone, AssignPixels, Replacing
    <2>2. QED
      BY <1>4, <2>1 DEF AssignPixels
  <1>5. ASSUME NEW t \in Threads, AssignPps(t)
        PROVE  Found(r)'
    <2>1. \A u \in Threads : u # t => pc[u] = "idle"
      BY <1>5 DEF Alone, AssignPps, Replacing
    <2>2. pixels.zoom = level[t] /\ (mipmap /\ t = r => level[r] \in since[r])
      BY <1>5 DEF AssignPps, Labelled, Own
    <2>3. QED
      BY <1>5, <2>1, <2>2 DEF AssignPps, Return
  <1>6. ASSUME NEW t \in Readers, Request(t) \/ Send(t)
        PROVE  Found(r)'
    BY <1>6 DEF Request, Send
  <1>7. ASSUME NEW t \in Readers, Deref(t)
        PROVE  Found(r)'
    <2>1. CASE t # r
      BY <1>7, <2>1 DEF Deref
    <2>2. CASE t = r
      <3>1. pixels.audio # Unfilled => mipmap
        BY DEF NoAudio
      <3>2. r \notin freed
        BY <1>7, <2>2 DEF Deref, Own
      <3>3. QED
        BY <1>7, <2>2, <3>1, <3>2 DEF Deref
    <2>3. QED
      BY <2>1, <2>2
  <1>8. QED
    BY <1>1, <1>2, <1>3, <1>4, <1>5, <1>6, <1>7 DEF Next, UpdateActiveBlock, SendPixels

LEMMA NextSettledInv ==
  TypeInv /\ OwnInv /\ UpToDate /\ SettledInv /\ [RacesNext]_<<vars, overlapped>>
    => SettledInv'
  <1> SUFFICES ASSUME TypeInv, OwnInv, UpToDate, SettledInv,
                      [RacesNext]_<<vars, overlapped>>, ~overlapped'
               PROVE  Settled'
    BY DEF SettledInv
  <1>1. CASE ~overlapped /\ UNCHANGED vars
    BY <1>1 DEF SettledInv, Settled, Alone, Labelled, Newer, Found, vars, hostVars, block,
                replyVars
  <1>2. CASE ~overlapped /\ ~Overlap' /\ Next
    <2>1. Settled
      BY <1>2 DEF SettledInv
    <2>2. Alone'
      BY <1>2 DEF Alone, Overlap
    <2>3. QED
      BY <1>2, <2>1, <2>2, NextLabelled, NextNewer, NextFound DEF Settled
  <1>3. CASE ReplacesAlone
    BY <1>3, ReplacesAloneSettles
  <1>4. QED
    BY <1>1, <1>2, <1>3, RacesNextCases

(* All that is known of HapticTrackRaces.                                  *)
RacesInv == TypeInv /\ OwnInv /\ UpToDate /\ SettledInv

LEMMA RacesInvariant == RacesSpec => []RacesInv
  <1>1. RacesInit => RacesInv
    <2> SUFFICES ASSUME RacesInit
                 PROVE  RacesInv
      OBVIOUS
    <2>1. Init /\ TypeInv
      BY InitTypeInv DEF RacesInit
    <2>2. OwnInv
      BY <2>1 DEF Init, OwnInv, Own
    <2>3. UpToDate
      BY <2>1 DEF Init, Cell!Init, UpToDate, NoReply, Unfilled
    <2>4. Settled
      BY <2>1 DEF Init, Settled, Alone, Labelled, Newer, Found, Replacing, NoReply
    <2>5. QED
      BY <2>1, <2>2, <2>3, <2>4 DEF RacesInv, SettledInv
  <1>2. RacesInv /\ [RacesNext]_<<vars, overlapped>> => RacesInv'
    <2> SUFFICES ASSUME RacesInv, [RacesNext]_<<vars, overlapped>>
                 PROVE  RacesInv'
      OBVIOUS
    <2>1. [Next]_vars
      BY RacesNextCases
    <2>2. QED
      BY <2>1, NextTypeInv, NextOwn, NextUpToDate, NextSettledInv DEF RacesInv
  <1>3. QED
    BY <1>1, <1>2, PTL DEF RacesSpec

(* The device only gets pixels at a zoom level that was the current one    *)
(* while its request was served, and none that were freed, though nothing  *)
(* keeps the user from zooming between the two times the code asks for the *)
(* zoom level, nor threads from meeting at the active block where nobody   *)
(* replaces it.                                                            *)
THEOREM RepliesHaveCurrentZoom == RacesSpec => RepliesAreCurrent
  <1>1. ASSUME RacesInv, ~overlapped, [Next]_vars, NEW r \in Readers,
               pc[r] = "send", pc'[r] = "idle"
        PROVE  reply'[r].zoom \in since[r]
    <2> USE DEF RacesInv, TypeInv, TypeOK, Goto
    <2>1. ref[r].zoom \in since[r] /\ r \notin freed
      BY <1>1 DEF SettledInv, Settled, Found
    <2>2. Send(r)
      <3>1. ~(Zoom \/ Load \/ Update \/ UNCHANGED vars)
        BY <1>1 DEF Zoom, Load, Update, vars
      <3>2. ASSUME NEW t \in Threads
            PROVE  ~UpdateActiveBlock(t)
        BY <1>1 DEF UpdateActiveBlock, ReadZoom, Compare, NoMipmap, ReadZoomAgain, CopyBlock,
                    AssignPixels, AssignPps, Return
      <3>3. ASSUME NEW t \in Readers
            PROVE  ~Request(t) /\ ~Deref(t) /\ (Send(t) => t = r)
        BY <1>1 DEF Request, Deref, Send
      <3>4. QED
        BY <1>1, <3>1, <3>2, <3>3 DEF Next, SendPixels
    <2>3. reply'[r] = ref[r]
      BY <1>1, <2>1, <2>2 DEF Send
    <2>4. QED
      BY <2>1, <2>3
  <1>2. RacesInv /\ [RacesNext]_<<vars, overlapped>>
          => [~overlapped => SendsCurrentZoom]_vars
    BY <1>1, RacesNextCases DEF SendsCurrentZoom
  <1>3. QED
    BY <1>2, RacesInvariant, PTL DEF RacesSpec, RepliesAreCurrent

(* The audio of the active block only becomes newer, whatever is loaded    *)
(* meanwhile: a thread that has copied a block from the mipmap assigns it  *)
(* before another one copies a newer one.                                  *)
THEOREM ActiveAudioNeverGoesBack == RacesSpec => AudioNeverGoesBack
  <1>1. ASSUME RacesInv, ~overlapped, Next
        PROVE  pixels'.audio >= pixels.audio
    <2> USE DEF RacesInv, TypeInv
    <2>1. pixels.audio \in Nat /\ \A t \in Threads : view[t] \subseteq Nat
      BY <1>1, VersionsAreNumbers
    <2>2. ASSUME NEW t \in Threads, AssignPixels(t)
          PROVE  pixels'.audio >= pixels.audio
      <3>1. PICK v \in view[t] : pixels' = [zoom |-> level[t], audio |-> v]
        BY <2>2 DEF AssignPixels
      <3>2. pixels.audio <= v /\ v \in Nat
        BY <1>1, <2>1, <2>2, <3>1 DEF AssignPixels, SettledInv, Settled, Newer
      <3>3. QED
        BY <2>1, <3>1, <3>2
    <2>3. CASE UNCHANGED pixels
      BY <2>1, <2>3
    <2>4. (\E t \in Threads : AssignPixels(t)) \/ UNCHANGED pixels
      BY <1>1 DEF Next, Zoom, Load, Update, UpdateActiveBlock, ReadZoom, Compare, NoMipmap,
                  ReadZoomAgain, CopyBlock, AssignPps, Request, SendPixels, Deref, Send, block
    <2>5. QED
      BY <2>2, <2>3, <2>4
  <1>2. RacesInv /\ [RacesNext]_<<vars, overlapped>>
          => [~overlapped => pixels'.audio >= pixels.audio]_vars
    BY <1>1, RacesNextCases
  <1>3. QED
    BY <1>2, RacesInvariant, PTL DEF RacesSpec, AudioNeverGoesBack

-----------------------------------------------------------------------------
(* A track and its loader touch the mipmap by the actions of BlockStore    *)
(* only, which Mipmap implements: what is proved of a track holds with the *)
(* mutex and the loop of update() in the place of the cell.                *)
THEOREM UsesBlockStore == Spec => Cell!Spec
  <1>1. Init => Cell!Init
    BY DEF Init
  <1>2. ASSUME TypeOK, [Next]_vars
        PROVE  [Cell!Next]_(Cell!vars)
    <2> USE DEF Cell!Next, Cell!vars
    <2>1. CASE Load
      <3>1. 1 \in Versions
        BY DEF Versions
      <3>2. QED
        BY <2>1, <3>1 DEF Load
    <2>2. CASE Update
      <3>1. store + 1 \in Versions
        BY <1>2, <2>2 DEF Update, TypeOK, Versions, Unfilled
      <3>2. QED
        BY <2>2, <3>1 DEF Update
    <2>3. ASSUME NEW t \in Threads, UpdateActiveBlock(t)
          PROVE  [Cell!Next]_(Cell!vars)
      BY <2>3 DEF UpdateActiveBlock, ReadZoom, Compare, NoMipmap, ReadZoomAgain, CopyBlock,
                  AssignPixels, AssignPps
    <2>4. ASSUME NEW t \in Readers, Request(t) \/ SendPixels(t)
          PROVE  [Cell!Next]_(Cell!vars)
      BY <2>4 DEF Request, SendPixels, Deref, Send
    <2>5. CASE Zoom \/ UNCHANGED vars
      BY <2>5 DEF Zoom, vars
    <2>6. QED
      BY <1>2, <2>1, <2>2, <2>3, <2>4, <2>5 DEF Next
  <1>3. QED
    BY <1>1, <1>2, TypeCorrect, PTL DEF Spec, Cell!Spec

=============================================================================
