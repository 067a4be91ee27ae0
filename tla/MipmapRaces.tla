---------------------------- MODULE MipmapRaces ----------------------------
(***************************************************************************)
(* Mipmap with a history variable for the race of update(): it tests       *)
(* m_busy on the main thread (mipmap.h:83), and the task it queues sets    *)
(* m_busy on a worker (mipmap.h:92), so that another update() may pass the *)
(* test in between.  The properties here say what m_busy achieves as long  *)
(* as that has not happened, and again after it.                           *)
(***************************************************************************)
EXTENDS Mipmap

VARIABLE
  raced      (* has update() passed the test ahead of a queued task, and   *)
             (* has no update been queued on its own since?                *)

Active       == {"start"} \union Updating
NobodyActive == \A w \in Workers : wpc[w] \notin Active

(* No task is on its way from the queue to m_busy = true.                  *)
TasksHaveStarted ==
  /\ queue = <<>>
  /\ \A w \in Workers : wpc[w] # "start"

PassesTheTest == mpc = "update" /\ mpc' = "poll"
QueuesAlone   == mpc = "enqueue" /\ queue = <<>> /\ NobodyActive /\ mpc' = "receive"

RacesInit == Init /\ raced = FALSE

RacesNext ==
  /\ Next
  /\ CASE PassesTheTest /\ ~TasksHaveStarted -> raced' = TRUE
       [] QueuesAlone -> raced' = FALSE
       [] OTHER -> UNCHANGED raced

RacesSpec     == RacesInit /\ [][RacesNext]_<<vars, raced>>
RacesFairSpec == RacesSpec /\ Fairness

-----------------------------------------------------------------------------
(* Properties.                                                             *)

(* "if there is a worker thread already updating, then this function will  *)
(* do nothing" (mipmap.h:80): while a task is between m_busy = true and    *)
(* m_busy = false no other one is at work or queued, unless update() has   *)
(* raced with a task.                                                      *)
OneUpdateAtATime ==
  ~raced =>
    \A w \in Workers : wpc[w] \in Updating =>
      busy /\ queue = <<>> /\ \A v \in Workers \ {w} : wpc[v] \notin Active

(* "update contents of the mipmap (if the audio accessor state has         *)
(* changed)" (mipmap.h:78): whenever no update is queued or at work, the   *)
(* blocks are those of the version that the accessor has loaded, which it  *)
(* does not report as a change again, or silent after a read that failed,  *)
(* unless update() has raced with a task.                                  *)
AtRest == queue = <<>> /\ \A w \in Workers : wpc[w] \in {"idle", "clear", "notify"}
AtRestBlocksAreLoaded ==
  AtRest /\ ~raced => \E v \in {loaded, Silence} : \A r \in Resolutions : blocks[r] = Whole(v)

(* An update never puts an older version of the audio in the place of a    *)
(* newer one, even though the user edits the track meanwhile, unless       *)
(* update() has raced with a task.                                         *)
NeverGoesBack ==
  [][~raced =>
       \A r \in Resolutions :
         blocks'[r].ver \in blocks[r].ver .. content \union {Silence}]_blocks


=============================================================================
