------------------------------- MODULE Mipmap -------------------------------
(***************************************************************************)
(* audio_pixel_mipmap_t (src/mipmap.h) with the accessor it reads samples  *)
(* from (src/accessor.h): the blocks of one track at several resolutions,  *)
(* rebuilt by tasks of a thread pool of its own and read by other threads. *)
(*                                                                         *)
(* Audio is a version number: the host's track is at version `content`,    *)
(* the host's accessor object has loaded version `loaded`, a task copies   *)
(* it to its sample buffer, and a block is built from a buffer.            *)
(***************************************************************************)
EXTENDS Integers, Sequences, FiniteSets

CONSTANTS
  Workers,        (* the threads of m_pool: hardware_concurrency, 2 to 16  *)
  Readers,        (* other threads that call get_pixels                    *)
  Main,           (* REAPER's main thread: Run(), the callbacks, flush()   *)
  Free,           (* the holder of a mutex that nobody holds               *)
  Resolutions,    (* the keys of m_blocks, m_block_pps                     *)
  Zooms,          (* the resolutions a reader may ask for: doubles, which  *)
                  (* are only compared with resolutions, as integers are   *)
  MaxQueueSize,   (* maxQueueSize of ThreadPool.h                          *)
  MaxVersion,     (* bound on the host's edits: content <= MaxVersion      *)
  SamplesMayFail  (* may GetAudioAccessorSamples return an error?          *)

Clients  == Readers \union {Main}

Unfilled == 0                    (* blocks before the first update         *)
Silence  == -1                   (* a buffer of zeros, left by a failure   *)
Versions == 1 .. MaxVersion      (* versions of the track's audio          *)
Samples  == Versions \union {Silence}

(* One resolution: what it was built from, and whether update() and the    *)
(* normalization of transform() have both run on it.                       *)
Block    == [ver : Samples \union {Unfilled}, whole : BOOLEAN]
Whole(v) == [ver |-> v, whole |-> TRUE]

ASSUME ThreadsAssumption ==
  /\ Workers # {}
  /\ Main \notin Readers /\ Workers \intersect Clients = {}
  /\ Free \notin Workers \union Clients

ASSUME DataAssumption ==
  /\ Resolutions # {} /\ Resolutions \subseteq Nat \ {0}
  /\ Zooms \subseteq Nat \ {0}
  /\ MaxQueueSize \in Nat \ {0} /\ MaxVersion \in Nat \ {0}
  /\ SamplesMayFail \in BOOLEAN

VARIABLES
  content,   (* version of the host's track                                *)
  loaded,    (* version the accessor has loaded                            *)
  busy,      (* m_busy                                                     *)
  lock,      (* holder of m_mutex                                          *)
  queue,     (* tasks of m_pool, each the on_update it will call           *)
  mpc,       (* where the main thread is in Run()                          *)
  wpc,       (* where each worker is in the task of update()               *)
  buffer,    (* the samples each worker's task got                         *)
  todo,      (* resolutions its loop has not finished                      *)
  blocks,    (* m_blocks                                                   *)
  cpc,       (* where each client is in get_pixels() or to_json()          *)
  got        (* the blocks each client copied last                         *)

hostVars   == <<content, loaded>>
workerVars == <<wpc, buffer, todo>>
clientVars == <<cpc, got>>
vars == <<hostVars, busy, lock, queue, mpc, workerVars, blocks, clientVars>>

(* The update's critical section, and the part between m_busy = true and   *)
(* m_busy = false.                                                         *)
Writing  == {"update", "transform"}
Updating == {"reload", "validate", "fetch", "acquire", "clear"} \union Writing
WorkerPc == {"idle", "start", "notify"} \union Updating

(* A haptic track's constructor has forced an update, with a callback.     *)
Init ==
  /\ content = 1 /\ loaded = 1
  /\ busy = FALSE
  /\ lock = Free
  /\ queue = <<"refresh">>
  /\ mpc = "receive"
  /\ wpc = [w \in Workers |-> "idle"]
  /\ buffer = [w \in Workers |-> Unfilled]
  /\ todo = [w \in Workers |-> {}]
  /\ blocks = [r \in Resolutions |-> Whole(Unfilled)]
  /\ cpc = [c \in Clients |-> "idle"]
  /\ got = [c \in Clients |-> {}]

-----------------------------------------------------------------------------
(* The host.                                                               *)

(* The user edits the track: AudioAccessorStateChanged is now true.        *)
Edit ==
  /\ content < MaxVersion
  /\ content' = content + 1
  /\ UNCHANGED <<loaded, busy, lock, queue, mpc, workerVars, blocks, clientVars>>

StateChanged == loaded # content

-----------------------------------------------------------------------------
(* Run(), called about 30 times a second on the main thread.               *)

(* handle_receive(): the packet may ask for a flush() of the mipmap.       *)
HandleReceive ==
  /\ mpc = "receive"
  /\ mpc' = "update"
  /\ cpc' \in {cpc, [cpc EXCEPT ![Main] = "lock"]}
  /\ UNCHANGED <<hostVars, busy, lock, queue, workerVars, blocks, got>>

(* update(empty closure, false): if (m_busy) return false                  *)
TestBusy ==
  /\ mpc = "update" /\ cpc[Main] = "idle"
  /\ mpc' = IF busy THEN "receive" ELSE "poll"
  /\ UNCHANGED <<hostVars, busy, lock, queue, workerVars, blocks, clientVars>>

(* m_accessor->state_changed()                                             *)
PollAccessor ==
  /\ mpc = "poll"
  /\ mpc' = IF StateChanged THEN "enqueue" ELSE "receive"
  /\ UNCHANGED <<hostVars, busy, lock, queue, workerVars, blocks, clientVars>>

(* A bug for TypeOK to find: the queue has no limit.                       *)
EnqueueUnbounded ==
  /\ mpc = "enqueue"
  /\ queue' = Append(queue, "none")
  /\ mpc' = "receive"
  /\ UNCHANGED <<hostVars, busy, lock, workerVars, blocks, clientVars>>

(* m_pool->enqueue, which blocks while the queue is full.                  *)
Enqueue ==
  /\ mpc = "enqueue"
  /\ Len(queue) < MaxQueueSize
  /\ queue' = Append(queue, "none")
  /\ mpc' = "receive"
  /\ UNCHANGED <<hostVars, busy, lock, workerVars, blocks, clientVars>>

-----------------------------------------------------------------------------
(* The task, run by a worker of the pool.                                  *)

Goto(w, label) == wpc' = [wpc EXCEPT ![w] = label]

TakeTask(w) ==
  /\ wpc[w] = "idle"
  /\ queue # <<>>
  /\ queue' = Tail(queue)
  /\ Goto(w, "start")
  /\ UNCHANGED <<hostVars, busy, lock, mpc, buffer, todo, blocks, clientVars>>

(* A bug for OneUpdateAtATime, AtRestBlocksAreLoaded and NeverGoesBack:    *)
(* m_busy is never set.                                                    *)
ForgetToSetBusy(w) ==
  /\ wpc[w] = "start"
  /\ Goto(w, "reload")
  /\ UNCHANGED <<hostVars, busy, lock, queue, mpc, buffer, todo, blocks, clientVars>>

SetBusy(w) ==
  /\ wpc[w] = "start"
  /\ busy' = TRUE
  /\ Goto(w, "reload")
  /\ UNCHANGED <<hostVars, lock, queue, mpc, buffer, todo, blocks, clientVars>>

(* m_accessor->update(): AudioAccessorUpdate() loads the track's state,    *)
(* and from now on state_changed() is false ...                            *)
AudioAccessorUpdate(w) ==
  /\ wpc[w] = "reload"
  /\ loaded' = content
  /\ Goto(w, "validate")
  /\ UNCHANGED <<content, busy, lock, queue, mpc, buffer, todo, blocks, clientVars>>

(* ... and AudioAccessorValidateState() may load an edit made since.       *)
AudioAccessorValidateState(w) ==
  /\ wpc[w] = "validate"
  /\ loaded' \in {loaded, content}
  /\ Goto(w, "fetch")
  /\ UNCHANGED <<content, busy, lock, queue, mpc, buffer, todo, blocks, clientVars>>

(* get_samples() fills the buffer.  The task ignores its result, so a read *)
(* that fails leaves the zeros of resize() in the buffer.                  *)
FetchSamples(w) ==
  /\ wpc[w] = "fetch"
  /\ \/ buffer' = [buffer EXCEPT ![w] = loaded]
     \/ SamplesMayFail /\ buffer' = [buffer EXCEPT ![w] = Silence]
  /\ Goto(w, "acquire")
  /\ UNCHANGED <<hostVars, busy, lock, queue, mpc, todo, blocks, clientVars>>

(* A bug for LockDiscipline: the update does not wait for the lock.        *)
UpdateWithoutWaiting(w) ==
  /\ wpc[w] = "acquire"
  /\ lock' = w
  /\ todo' = [todo EXCEPT ![w] = Resolutions]
  /\ Goto(w, "update")
  /\ UNCHANGED <<hostVars, busy, queue, mpc, buffer, blocks, clientVars>>


AcquireForUpdate(w) ==
  /\ wpc[w] = "acquire"
  /\ lock = Free
  /\ lock' = w
  /\ todo' = [todo EXCEPT ![w] = Resolutions]
  /\ Goto(w, "update")
  /\ UNCHANGED <<hostVars, busy, queue, mpc, buffer, blocks, clientVars>>

(* m_blocks is ordered by std::greater: the finest block is next.          *)
NextBlock(w) == {r \in todo[w] : \A s \in todo[w] : s <= r}

UpdateBlock(w) ==
  /\ wpc[w] = "update"
  /\ \E r \in NextBlock(w) :
       blocks' = [blocks EXCEPT ![r] = [ver |-> buffer[w], whole |-> FALSE]]
  /\ Goto(w, "transform")
  /\ UNCHANGED <<hostVars, busy, lock, queue, mpc, buffer, todo, clientVars>>

TransformBlock(w) ==
  /\ wpc[w] = "transform"
  /\ \E r \in NextBlock(w) :
       /\ blocks' = [blocks EXCEPT ![r] = Whole(@.ver)]
       /\ todo' = [todo EXCEPT ![w] = @ \ {r}]
  /\ Goto(w, "update")
  /\ UNCHANGED <<hostVars, busy, lock, queue, mpc, buffer, clientVars>>

(* A bug for BlocksAgree: the lock is let go after every block.            *)
ReleaseBetweenBlocks(w) ==
  /\ wpc[w] = "update"
  /\ lock' = Free
  /\ Goto(w, "clear")
  /\ UNCHANGED <<hostVars, busy, queue, mpc, buffer, todo, blocks, clientVars>>

(* A bug for ReadersAreServed: the lock is never let go.                   *)
KeepLock(w) ==
  /\ wpc[w] = "update"
  /\ todo[w] = {}
  /\ Goto(w, "clear")
  /\ UNCHANGED <<hostVars, busy, lock, queue, mpc, buffer, todo, blocks, clientVars>>

ReleaseAfterUpdate(w) ==
  /\ wpc[w] = "update"
  /\ todo[w] = {}
  /\ lock' = Free
  /\ Goto(w, "clear")
  /\ UNCHANGED <<hostVars, busy, queue, mpc, buffer, todo, blocks, clientVars>>

(* A bug for EditsAreLoaded: m_busy is cleared after on_update throws.     *)
ForgetToClearBusy(w) ==
  /\ wpc[w] = "clear"
  /\ Goto(w, "notify")
  /\ UNCHANGED <<hostVars, busy, lock, queue, mpc, buffer, todo, blocks, clientVars>>

ClearBusy(w) ==
  /\ wpc[w] = "clear"
  /\ busy' = FALSE
  /\ Goto(w, "notify")
  /\ UNCHANGED <<hostVars, lock, queue, mpc, buffer, todo, blocks, clientVars>>

(* The task calls on_update.  Run() passes an empty std::function: that    *)
(* throws, and the packaged_task keeps the exception for a future that     *)
(* nobody reads.  HapticTrack models the callback of setup().              *)
Notify(w) ==
  /\ wpc[w] = "notify"
  /\ Goto(w, "idle")
  /\ UNCHANGED <<hostVars, busy, lock, queue, mpc, buffer, todo, blocks, clientVars>>

Worker(w) ==
  \/ TakeTask(w) \/ SetBusy(w) \/ AudioAccessorUpdate(w) \/ AudioAccessorValidateState(w)
  \/ FetchSamples(w)
  \/ AcquireForUpdate(w) \/ UpdateBlock(w) \/ TransformBlock(w)
  \/ ReleaseAfterUpdate(w) \/ ClearBusy(w) \/ Notify(w)

-----------------------------------------------------------------------------
(* get_pixels() of a reader, and flush() of the main thread.               *)

StartRead(c) ==
  /\ c \in Readers
  /\ cpc[c] = "idle"
  /\ cpc' = [cpc EXCEPT ![c] = "lock"]
  /\ UNCHANGED <<hostVars, busy, lock, queue, mpc, workerVars, blocks, got>>

(* A bug for ImplementsBlockStore: a reader copies without the lock.       *)
ReadWithoutLock(c) ==
  /\ cpc[c] = "lock"
  /\ cpc' = [cpc EXCEPT ![c] = "copy"]
  /\ UNCHANGED <<hostVars, busy, lock, queue, mpc, workerVars, blocks, got>>

AcquireForRead(c) ==
  /\ cpc[c] = "lock"
  /\ lock = Free
  /\ lock' = c
  /\ cpc' = [cpc EXCEPT ![c] = "copy"]
  /\ UNCHANGED <<hostVars, busy, queue, mpc, workerVars, blocks, got>>

(* get_nearest_pps(): the lowest resolution that is not below pps, or else *)
(* the highest one there is.                                               *)
NearestPps(pps) ==
  LET above == {r \in Resolutions : r >= pps}
  IN  IF above # {}
        THEN {r \in above : \A s \in above : r <= s}
        ELSE {r \in Resolutions : \A s \in Resolutions : s <= r}

Release(c) ==
  /\ cpc[c] = "copy"
  /\ lock' = Free
  /\ cpc' = [cpc EXCEPT ![c] = "idle"]
  /\ UNCHANGED <<hostVars, busy, queue, mpc, workerVars, blocks>>

(* get_pixels() copies from the block nearest to the zoom.                 *)
GetPixels(c) ==
  /\ c \in Readers
  /\ \E pps \in Zooms : \E r \in NearestPps(pps) :
       got' = [got EXCEPT ![c] = {blocks[r]}]
  /\ Release(c)

(* to_json() copies all blocks.                                            *)
ToJson(c) ==
  /\ c = Main
  /\ got' = [got EXCEPT ![c] = {blocks[r] : r \in Resolutions}]
  /\ Release(c)

Client(c) == StartRead(c) \/ AcquireForRead(c) \/ GetPixels(c) \/ ToJson(c)

-----------------------------------------------------------------------------
Run == HandleReceive \/ TestBusy \/ PollAccessor \/ Enqueue

Next ==
  \/ Edit
  \/ Run
  \/ \E w \in Workers : Worker(w)
  \/ \E c \in Clients : Client(c)

(* The OS schedules every thread, and REAPER keeps calling Run().  A       *)
(* reader need not ask for anything, but one that waits for m_mutex, which *)
(* is not handed over in order, gets it at last.                           *)
Fairness ==
  /\ WF_vars(Run)
  /\ \A w \in Workers : WF_vars(Worker(w)) /\ SF_vars(AcquireForUpdate(w))
  /\ \A c \in Clients : /\ SF_vars(AcquireForRead(c))
                        /\ WF_vars(GetPixels(c) \/ ToJson(c))

Spec     == Init /\ [][Next]_vars
FairSpec == Spec /\ Fairness

-----------------------------------------------------------------------------
(* Properties.                                                             *)

TypeOK ==
  /\ content \in Versions /\ loaded \in Versions
  /\ busy \in BOOLEAN
  /\ lock \in Workers \union Clients \union {Free}
  /\ queue \in Seq({"refresh", "none"}) /\ Len(queue) <= MaxQueueSize
  /\ mpc \in {"receive", "update", "poll", "enqueue"}
  /\ wpc \in [Workers -> WorkerPc]
  /\ buffer \in [Workers -> Samples \union {Unfilled}]
  /\ todo \in [Workers -> SUBSET Resolutions]
  /\ blocks \in [Resolutions -> Block]
  /\ cpc \in [Clients -> {"idle", "lock", "copy"}]
  /\ got \in [Clients -> SUBSET Block]

(* m_mutex is held by exactly the thread that is inside a critical         *)
(* section.                                                                *)
LockDiscipline ==
  /\ \A w \in Workers : lock = w <=> wpc[w] \in Writing
  /\ \A c \in Clients : lock = c <=> cpc[c] = "copy"

(* m_busy makes update() a no-op, so it may only be set while a task that  *)
(* will clear it is on its way.                                            *)
BusyMeansUpdating == busy => \E w \in Workers : wpc[w] \in Updating

(* Whenever no task is writing, all resolutions hold the same, fully       *)
(* processed version of the audio.                                         *)
BlocksAgree ==
  (\A w \in Workers : wpc[w] \notin Writing) =>
    \E v \in Samples \union {Unfilled} : \A r \in Resolutions : blocks[r] = Whole(v)

(* "thread safe (will block if another thread is updating)" (mipmap.h:16): *)
(* for its readers the mipmap is the one atomic cell of BlockStore.  An    *)
(* update takes effect when it gets the lock.                              *)
Store ==
  IF lock \in Workers THEN Whole(buffer[lock])
                      ELSE blocks[CHOOSE r \in Resolutions : TRUE]
Abstract == INSTANCE BlockStore WITH
  Values <- {Whole(v) : v \in Samples}, Initial <- Whole(Unfilled),
  store <- Store, view <- got
ImplementsBlockStore == Abstract!Spec

(* Every edit reaches the accessor: once the user stops editing, the       *)
(* accessor ends up with the last version, whatever m_busy does.           *)
EditsAreLoaded == <>[](loaded = content)

(* "update contents of the mipmap (if the audio accessor state has         *)
(* changed)" (mipmap.h:78): once the user stops editing, the mipmap ends   *)
(* up with the last version.                                               *)
EditsReachBlocks == <>[](\A r \in Resolutions : blocks[r].ver = content)

(* Whoever asks for pixels gets the lock and an answer.                    *)
ReadersAreServed == \A c \in Clients : cpc[c] = "lock" ~> cpc[c] = "idle"

=============================================================================
