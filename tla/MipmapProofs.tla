---------------------------- MODULE MipmapProofs ----------------------------
(***************************************************************************)
(* Proofs about Mipmap and MipmapRaces, for any number of workers and      *)
(* readers, any resolutions, any queue limit and any number of edits.      *)
(***************************************************************************)
EXTENDS MipmapRaces, TLAPS

USE ThreadsAssumption, DataAssumption DEF ThreadsAssumption, DataAssumption

-----------------------------------------------------------------------------
(* Every variable stays within its type; in particular the queue of the    *)
(* pool never outgrows maxQueueSize.                                       *)

LEMMA InitTypeOK == Init => TypeOK
  <1> SUFFICES ASSUME Init
               PROVE  TypeOK
    OBVIOUS
  <1> USE DEF Init
  <1>1. content \in Versions /\ loaded \in Versions
    BY DEF Versions
  <1>2. queue \in Seq({"refresh", "none"}) /\ Len(queue) <= MaxQueueSize
    OBVIOUS
  <1>3. blocks \in [Resolutions -> Block]
    BY DEF Block, Whole
  <1>4. wpc \in [Workers -> WorkerPc] /\ cpc \in [Clients -> {"idle", "lock", "copy"}]
    BY DEF WorkerPc
  <1>5. todo \in [Workers -> SUBSET Resolutions] /\ got \in [Clients -> SUBSET Block]
    OBVIOUS
  <1>6. QED
    BY <1>1, <1>2, <1>3, <1>4, <1>5 DEF TypeOK

LEMMA NextTypeOK == TypeOK /\ [Next]_vars => TypeOK'
  <1> SUFFICES ASSUME TypeOK, [Next]_vars
               PROVE  TypeOK'
    OBVIOUS
  <1> USE DEF TypeOK, hostVars, workerVars, clientVars, Goto
  <1>1. CASE Edit
    BY <1>1 DEF Edit, Versions
  <1>2. CASE Run
    <2>1. CASE HandleReceive
      BY <2>1 DEF HandleReceive, Clients
    <2>2. CASE TestBusy \/ PollAccessor
      BY <2>2 DEF TestBusy, PollAccessor
    <2>3. CASE Enqueue
      BY <2>3 DEF Enqueue
    <2>4. QED
      BY <1>2, <2>1, <2>2, <2>3 DEF Run
  <1>3. ASSUME NEW w \in Workers, Worker(w)
        PROVE  TypeOK'
    <2>1. CASE TakeTask(w)
      BY <2>1 DEF TakeTask, WorkerPc
    <2>2. CASE SetBusy(w) \/ AudioAccessorUpdate(w) \/ AudioAccessorValidateState(w)
               \/ ClearBusy(w) \/ Notify(w)
      BY <2>2 DEF SetBusy, AudioAccessorUpdate, AudioAccessorValidateState, ClearBusy,
                  Notify, WorkerPc, Updating
    <2>3. CASE FetchSamples(w)
      BY <2>3 DEF FetchSamples, WorkerPc, Updating, Samples
    <2>4. CASE AcquireForUpdate(w) \/ ReleaseAfterUpdate(w)
      BY <2>4 DEF AcquireForUpdate, ReleaseAfterUpdate, WorkerPc, Updating, Writing
    <2>5. CASE UpdateBlock(w)
      BY <2>5 DEF UpdateBlock, NextBlock, WorkerPc, Updating, Writing, Block
    <2>6. CASE TransformBlock(w)
      <3>1. PICK r \in Resolutions : /\ blocks' = [blocks EXCEPT ![r] = Whole(@.ver)]
                                     /\ todo' = [todo EXCEPT ![w] = @ \ {r}]
        BY <2>6 DEF TransformBlock, NextBlock
      <3>2. blocks' \in [Resolutions -> Block]
        BY <3>1 DEF Block, Whole
      <3>3. todo' \in [Workers -> SUBSET Resolutions]
        BY <3>1
      <3>4. QED
        BY <2>6, <3>2, <3>3 DEF TransformBlock, WorkerPc, Updating, Writing
    <2>7. QED
      BY <1>3, <2>1, <2>2, <2>3, <2>4, <2>5, <2>6 DEF Worker
  <1>4. ASSUME NEW c \in Clients, Client(c)
        PROVE  TypeOK'
    <2>1. CASE StartRead(c) \/ AcquireForRead(c)
      BY <2>1 DEF StartRead, AcquireForRead
    <2>2. CASE GetPixels(c)
      BY <2>2 DEF GetPixels, Release, NearestPps
    <2>3. CASE ToJson(c)
      BY <2>3 DEF ToJson, Release
    <2>4. QED
      BY <1>4, <2>1, <2>2, <2>3 DEF Client
  <1>5. CASE UNCHANGED vars
    BY <1>5 DEF vars
  <1>6. QED
    BY <1>1, <1>2, <1>3, <1>4, <1>5 DEF Next

THEOREM TypeCorrect == Spec => []TypeOK
  BY InitTypeOK, NextTypeOK, PTL DEF Spec

-----------------------------------------------------------------------------
(* Mutual exclusion: m_mutex is held by exactly the thread that is inside  *)
(* a critical section.                                                     *)

(* The main thread is inside flush() only while it handles a packet.       *)
FlushInReceive == cpc[Main] # "idle" => mpc = "update"

LEMMA NextFlushInReceive ==
  TypeOK /\ FlushInReceive /\ [Next]_vars => FlushInReceive'
  <1> SUFFICES ASSUME TypeOK, FlushInReceive, [Next]_vars
               PROVE  FlushInReceive'
    OBVIOUS
  <1> USE DEF TypeOK, FlushInReceive, clientVars, Clients
  <1>1. CASE Run
    BY <1>1 DEF Run, HandleReceive, TestBusy, PollAccessor, Enqueue
  <1>2. ASSUME NEW c \in Clients, Client(c)
        PROVE  FlushInReceive'
    BY <1>2 DEF Client, StartRead, AcquireForRead, GetPixels, ToJson, Release
  <1>3. CASE Edit \/ (\E w \in Workers : Worker(w)) \/ UNCHANGED vars
    BY <1>3 DEF Edit, Worker, TakeTask, SetBusy, AudioAccessorUpdate,
                AudioAccessorValidateState, FetchSamples,
                AcquireForUpdate, UpdateBlock, TransformBlock,
                ReleaseAfterUpdate, ClearBusy, Notify, vars
  <1>4. QED
    BY <1>1, <1>2, <1>3 DEF Next

LEMMA FlushOnlyInReceive == Spec => []FlushInReceive
  <1>1. Init => FlushInReceive
    BY DEF Init, FlushInReceive, Clients
  <1>2. QED
    BY <1>1, NextFlushInReceive, TypeCorrect, PTL DEF Spec

LEMMA NextLockDiscipline ==
  TypeOK /\ FlushInReceive /\ LockDiscipline /\ [Next]_vars => LockDiscipline'
  <1> SUFFICES ASSUME TypeOK, FlushInReceive, LockDiscipline, [Next]_vars
               PROVE  LockDiscipline'
    OBVIOUS
  <1> USE DEF TypeOK, LockDiscipline, workerVars, clientVars, Goto, Writing
  <1>1. CASE Edit
    BY <1>1 DEF Edit
  <1>2. CASE Run
    <2>1. CASE HandleReceive
      BY <2>1 DEF HandleReceive, FlushInReceive, Clients
    <2>2. CASE TestBusy \/ PollAccessor \/ Enqueue
      BY <2>2 DEF TestBusy, PollAccessor, Enqueue
    <2>3. QED
      BY <1>2, <2>1, <2>2 DEF Run
  <1>3. ASSUME NEW w \in Workers, Worker(w)
        PROVE  LockDiscipline'
    <2>1. CASE TakeTask(w) \/ SetBusy(w) \/ AudioAccessorUpdate(w)
               \/ AudioAccessorValidateState(w) \/ FetchSamples(w)
               \/ ClearBusy(w) \/ Notify(w)
      BY <2>1 DEF TakeTask, SetBusy, AudioAccessorUpdate, AudioAccessorValidateState,
                  FetchSamples, ClearBusy, Notify
    <2>2. CASE UpdateBlock(w) \/ TransformBlock(w)
      BY <2>2 DEF UpdateBlock, TransformBlock
    <2>3. CASE AcquireForUpdate(w) \/ ReleaseAfterUpdate(w)
      BY <2>3 DEF AcquireForUpdate, ReleaseAfterUpdate
    <2>4. QED
      BY <1>3, <2>1, <2>2, <2>3 DEF Worker
  <1>4. ASSUME NEW c \in Clients, Client(c)
        PROVE  LockDiscipline'
    <2>1. CASE StartRead(c) \/ AcquireForRead(c)
      BY <2>1 DEF StartRead, AcquireForRead
    <2>2. ASSUME Release(c)
          PROVE  LockDiscipline'
      BY <2>2 DEF Release
    <2>3. QED
      BY <1>4, <2>1, <2>2 DEF Client, GetPixels, ToJson
  <1>5. CASE UNCHANGED vars
    BY <1>5 DEF vars
  <1>6. QED
    BY <1>1, <1>2, <1>3, <1>4, <1>5 DEF Next

LEMMA InitLockDiscipline == Init => LockDiscipline
  BY DEF Init, LockDiscipline, Writing

THEOREM MutualExclusion == Spec => []LockDiscipline
  BY InitLockDiscipline, NextLockDiscipline, TypeCorrect, FlushOnlyInReceive,
     PTL DEF Spec

-----------------------------------------------------------------------------
(* m_busy is never left set behind: while it is set, the task that will    *)
(* clear it is running.                                                    *)

LEMMA NextBusyMeansUpdating ==
  TypeOK /\ BusyMeansUpdating /\ [Next]_vars => BusyMeansUpdating'
  <1> SUFFICES ASSUME TypeOK, BusyMeansUpdating, [Next]_vars
               PROVE  BusyMeansUpdating'
    OBVIOUS
  <1> USE DEF TypeOK, BusyMeansUpdating, workerVars, Goto, Writing, Updating
  <1>1. CASE Edit
    BY <1>1 DEF Edit
  <1>2. CASE Run
    BY <1>2 DEF Run, HandleReceive, TestBusy, PollAccessor, Enqueue
  <1>3. ASSUME NEW w \in Workers, Worker(w)
        PROVE  BusyMeansUpdating'
    <2>1. CASE TakeTask(w) \/ Notify(w)
      BY <2>1 DEF TakeTask, Notify
    <2>2. CASE SetBusy(w) \/ AudioAccessorUpdate(w) \/ AudioAccessorValidateState(w)
               \/ FetchSamples(w)
      BY <2>2 DEF SetBusy, AudioAccessorUpdate, AudioAccessorValidateState, FetchSamples
    <2>3. CASE AcquireForUpdate(w) \/ UpdateBlock(w) \/ TransformBlock(w)
               \/ ReleaseAfterUpdate(w)
      BY <2>3 DEF AcquireForUpdate, UpdateBlock, TransformBlock, ReleaseAfterUpdate
    <2>4. CASE ClearBusy(w)
      BY <2>4 DEF ClearBusy
    <2>5. QED
      BY <1>3, <2>1, <2>2, <2>3, <2>4 DEF Worker
  <1>4. ASSUME NEW c \in Clients, Client(c)
        PROVE  BusyMeansUpdating'
    BY <1>4 DEF Client, StartRead, AcquireForRead, GetPixels, ToJson, Release
  <1>5. CASE UNCHANGED vars
    BY <1>5 DEF vars
  <1>6. QED
    BY <1>1, <1>2, <1>3, <1>4, <1>5 DEF Next

LEMMA InitBusyMeansUpdating == Init => BusyMeansUpdating
  BY DEF Init, BusyMeansUpdating

THEOREM BusyIsCleared == Spec => []BusyMeansUpdating
  BY InitBusyMeansUpdating, NextBusyMeansUpdating, TypeCorrect, PTL DEF Spec

-----------------------------------------------------------------------------
(* BlocksAgree is not inductive: it says nothing while a task is writing.  *)
(* BlocksInv adds what the task has achieved so far, and that no other     *)
(* thread touches the blocks while it does.                                *)

(* Nobody writes: one version, fully processed, at all resolutions.        *)
SettledBlocks ==
  lock \notin Workers =>
    \E v \in Samples \union {Unfilled} : \A r \in Resolutions : blocks[r] = Whole(v)

(* w writes: the blocks it has finished hold its samples ...               *)
FinishedBlocks ==
  \A w \in Workers : lock = w =>
    \A r \in Resolutions \ todo[w] : blocks[r] = Whole(buffer[w])

(* ... and so does, but for the transform, the one it is working on.       *)
StartedBlock ==
  \A w \in Workers : wpc[w] = "transform" =>
    \A r \in NextBlock(w) : blocks[r].ver = buffer[w]

FilledBuffers ==
  \A w \in Workers : wpc[w] \in {"acquire"} \union Writing => buffer[w] \in Samples

BlocksInv == SettledBlocks /\ FinishedBlocks /\ StartedBlock /\ FilledBuffers

LEMMA InitBlocksInv == Init => BlocksInv
  BY DEF Init, BlocksInv, SettledBlocks, FinishedBlocks, StartedBlock,
         FilledBuffers, Writing, Clients

(* A step that changes neither the blocks nor who writes them.             *)
LEMMA BlocksUntouched ==
  ASSUME TypeOK, LockDiscipline, BlocksInv,
         UNCHANGED <<blocks, buffer, todo>>,
         lock' = lock \/ (lock \notin Workers /\ lock' \notin Workers),
         \A w \in Workers : wpc'[w] = wpc[w] \/ wpc'[w] \notin {"acquire"} \union Writing
  PROVE  BlocksInv'
  BY DEF BlocksInv, SettledBlocks, FinishedBlocks, StartedBlock, FilledBuffers,
         NextBlock, Writing

LEMMA NextBlocksInv ==
  TypeOK /\ LockDiscipline /\ BlocksInv /\ [Next]_vars => BlocksInv'
  <1> SUFFICES ASSUME TypeOK, LockDiscipline, BlocksInv, [Next]_vars
               PROVE  BlocksInv'
    OBVIOUS
  <1>1. CASE Edit \/ Run \/ UNCHANGED vars
    BY <1>1, BlocksUntouched
       DEF Edit, Run, HandleReceive, TestBusy, PollAccessor, Enqueue,
           workerVars, clientVars, vars
  <1>2. ASSUME NEW c \in Clients, Client(c)
        PROVE  BlocksInv'
    BY <1>2, BlocksUntouched
       DEF Client, StartRead, AcquireForRead, GetPixels, ToJson, Release,
           LockDiscipline, workerVars
  <1>3. ASSUME NEW w \in Workers, Worker(w)
        PROVE  BlocksInv'
    <2>1. CASE TakeTask(w) \/ SetBusy(w) \/ AudioAccessorUpdate(w)
               \/ AudioAccessorValidateState(w) \/ ClearBusy(w)
               \/ Notify(w)
      BY <2>1, BlocksUntouched
         DEF TypeOK, TakeTask, SetBusy, AudioAccessorUpdate,
             AudioAccessorValidateState, ClearBusy, Notify, Goto, Writing
    <2> USE DEF TypeOK, LockDiscipline, BlocksInv, Goto, Writing
    <2>2. CASE FetchSamples(w)
      <3>1. /\ buffer'[w] \in Samples
            /\ \A v \in Workers \ {w} : buffer'[v] = buffer[v] /\ wpc'[v] = wpc[v]
        BY <2>2 DEF FetchSamples, Samples
      <3>2. SettledBlocks'
        BY <2>2 DEF FetchSamples, SettledBlocks
      <3>3. FinishedBlocks'
        BY <2>2, <3>1 DEF FetchSamples, FinishedBlocks
      <3>4. StartedBlock'
        BY <2>2, <3>1 DEF FetchSamples, StartedBlock, NextBlock
      <3>5. FilledBuffers'
        BY <2>2, <3>1 DEF FetchSamples, FilledBuffers
      <3>6. QED
        BY <3>2, <3>3, <3>4, <3>5
    <2>3. CASE AcquireForUpdate(w)
      <3>1. lock' = w /\ todo'[w] = Resolutions
        BY <2>3 DEF AcquireForUpdate
      <3>2. SettledBlocks' /\ FinishedBlocks'
        BY <3>1 DEF SettledBlocks, FinishedBlocks
      <3>3. StartedBlock'
        BY <2>3 DEF AcquireForUpdate, StartedBlock
      <3>4. FilledBuffers'
        BY <2>3 DEF AcquireForUpdate, FilledBuffers
      <3>5. QED
        BY <3>2, <3>3, <3>4
    <2>4. CASE UpdateBlock(w)
      <3>1. PICK r \in NextBlock(w) :
              blocks' = [blocks EXCEPT ![r] = [ver |-> buffer[w], whole |-> FALSE]]
        BY <2>4 DEF UpdateBlock
      <3>2. r \in todo[w] /\ r \in Resolutions /\ lock = w /\ lock' = w
        BY <2>4 DEF UpdateBlock, NextBlock
      <3>3. SettledBlocks' /\ FinishedBlocks'
        BY <2>4, <3>1, <3>2 DEF UpdateBlock, SettledBlocks, FinishedBlocks
      <3>4. \A s \in NextBlock(w) : s = r
        BY <3>2 DEF NextBlock
      <3>5. StartedBlock'
        BY <2>4, <3>1, <3>2, <3>4 DEF UpdateBlock, StartedBlock, NextBlock
      <3>6. FilledBuffers'
        BY <2>4 DEF UpdateBlock, FilledBuffers
      <3>7. QED
        BY <3>3, <3>5, <3>6
    <2>5. CASE TransformBlock(w)
      <3>1. PICK r \in NextBlock(w) :
              /\ blocks' = [blocks EXCEPT ![r] = Whole(@.ver)]
              /\ todo' = [todo EXCEPT ![w] = @ \ {r}]
        BY <2>5 DEF TransformBlock
      <3>2. r \in todo[w] /\ r \in Resolutions /\ lock = w /\ lock' = w
        BY <2>5 DEF TransformBlock, NextBlock
      <3>3. blocks[r].ver = buffer[w] /\ buffer' = buffer
        BY <2>5, <3>1 DEF TransformBlock, StartedBlock
      <3>4. SettledBlocks' /\ FinishedBlocks'
        <4>1. SettledBlocks'
          BY <3>2 DEF SettledBlocks
        <4>2. blocks'[r] = [ver |-> buffer[w], whole |-> TRUE]
          BY <3>1, <3>2, <3>3 DEF Whole
        <4>3. FinishedBlocks'
          BY <3>1, <3>2, <3>3, <4>2 DEF FinishedBlocks
        <4> QED
          BY <4>1, <4>3
      <3>5. StartedBlock'
        <4>1. wpc[w] = "transform" /\ wpc' = [wpc EXCEPT ![w] = "update"]
          BY <2>5 DEF TransformBlock
        <4>2. \A v \in Workers : wpc'[v] # "transform"
          BY <3>2, <4>1 DEF LockDiscipline, Writing
        <4> QED
          BY <4>2, Zenon DEF StartedBlock
      <3>6. FilledBuffers'
        BY <2>5 DEF TransformBlock, FilledBuffers
      <3>7. QED
        BY <3>4, <3>5, <3>6
    <2>6. CASE ReleaseAfterUpdate(w)
      <3>1. lock = w /\ lock' = Free /\ todo[w] = {}
        BY <2>6 DEF ReleaseAfterUpdate
      <3>2. \A r \in Resolutions : blocks[r] = Whole(buffer[w])
        BY <3>1 DEF FinishedBlocks
      <3>3. SettledBlocks' /\ FinishedBlocks'
        BY <2>6, <3>1, <3>2 DEF ReleaseAfterUpdate, SettledBlocks, FinishedBlocks
      <3>4. StartedBlock' /\ FilledBuffers'
        BY <2>6 DEF ReleaseAfterUpdate, StartedBlock, FilledBuffers, NextBlock
      <3>5. QED
        BY <3>3, <3>4
    <2>7. QED
      BY <1>3, <2>1, <2>2, <2>3, <2>4, <2>5, <2>6 DEF Worker
  <1>4. QED
    BY <1>1, <1>2, <1>3 DEF Next

LEMMA BlocksInvariant == Spec => []BlocksInv
  BY InitBlocksInv, NextBlocksInv, TypeCorrect, MutualExclusion, PTL DEF Spec

(* No reader can find resolutions that disagree, or a block that update()  *)
(* has filled and transform() has not yet normalized.                      *)
THEOREM BlocksAlwaysAgree == Spec => []BlocksAgree
  <1>1. LockDiscipline /\ BlocksInv => BlocksAgree
    BY DEF LockDiscipline, BlocksInv, SettledBlocks, BlocksAgree
  <1>2. QED
    BY <1>1, BlocksInvariant, MutualExclusion, PTL

-----------------------------------------------------------------------------
(* Mipmap implements BlockStore under the mapping Store.                   *)

LEMMA StoreOfSettled ==
  ASSUME BlocksInv, lock \notin Workers
  PROVE  \A r \in Resolutions : blocks[r] = Store
  BY DEF BlocksInv, SettledBlocks, Store

LEMMA InitRefines == Init => Abstract!Init
  BY DEF Init, Abstract!Init, Store, Clients

LEMMA NextRefines ==
  TypeOK /\ LockDiscipline /\ BlocksInv /\ BlocksInv' /\ [Next]_vars
    => [Abstract!Next]_Abstract!vars
  <1> SUFFICES ASSUME TypeOK, LockDiscipline, BlocksInv, BlocksInv', [Next]_vars
               PROVE  [Abstract!Next]_Abstract!vars
    OBVIOUS
  <1> USE DEF Abstract!vars
  <1>1. CASE Edit \/ Run \/ UNCHANGED vars
    BY <1>1 DEF Edit, Run, HandleReceive, TestBusy, PollAccessor, Enqueue,
                workerVars, clientVars, vars, Store
  <1>2. ASSUME NEW c \in Clients, Client(c)
        PROVE  [Abstract!Next]_Abstract!vars
    <2>1. CASE StartRead(c)
      BY <2>1 DEF StartRead, workerVars, Store
    <2>2. CASE AcquireForRead(c)
      BY <2>2 DEF AcquireForRead, workerVars, Store
    <2>3. CASE GetPixels(c) \/ ToJson(c)
      <3>1. lock = c /\ lock' = Free /\ UNCHANGED <<blocks, buffer>>
        BY <2>3 DEF GetPixels, ToJson, Release, LockDiscipline, workerVars
      <3>2. Store' = Store
        BY <3>1 DEF Store
      <3>3. \A r \in Resolutions : blocks[r] = Store
        BY <3>1, StoreOfSettled
      <3>4. got' = [got EXCEPT ![c] = {Store}]
        <4>1. CASE GetPixels(c)
          BY <4>1, <3>3 DEF GetPixels, NearestPps
        <4>2. CASE ToJson(c)
          <5>1. {blocks[r] : r \in Resolutions} = {Store}
            BY <3>3
          <5>2. QED
            BY <4>2, <5>1 DEF ToJson
        <4>3. QED
          BY <2>3, <4>1, <4>2
      <3>5. QED
        BY <3>2, <3>4 DEF Abstract!Next, Abstract!Read
    <2>4. QED
      BY <1>2, <2>1, <2>2, <2>3 DEF Client
  <1>3. ASSUME NEW w \in Workers, Worker(w)
        PROVE  [Abstract!Next]_Abstract!vars
    <2>1. CASE TakeTask(w) \/ SetBusy(w) \/ AudioAccessorUpdate(w)
               \/ AudioAccessorValidateState(w) \/ ClearBusy(w)
               \/ Notify(w)
      BY <2>1 DEF TakeTask, SetBusy, AudioAccessorUpdate, AudioAccessorValidateState,
                  ClearBusy, Notify,
                  clientVars, Store
    <2>2. CASE FetchSamples(w)
      <3>1. lock # w /\ UNCHANGED <<lock, blocks, got>>
        BY <2>2 DEF FetchSamples, LockDiscipline, Writing, clientVars
      <3>2. \A v \in Workers \ {w} : buffer'[v] = buffer[v]
        BY <2>2 DEF FetchSamples, TypeOK
      <3>3. Store' = Store
        BY <3>1, <3>2 DEF Store
      <3>4. QED
        BY <3>1, <3>3
    <2>3. CASE AcquireForUpdate(w)
      <3>1. /\ lock' = w /\ UNCHANGED <<buffer, got>>
            /\ buffer[w] \in Samples
        BY <2>3 DEF AcquireForUpdate, BlocksInv, FilledBuffers, clientVars
      <3>2. Store' = Whole(buffer[w])
        BY <3>1 DEF Store
      <3>3. QED
        BY <3>1, <3>2 DEF Abstract!Next, Abstract!Publish
    <2>4. CASE UpdateBlock(w) \/ TransformBlock(w)
      <3>1. lock = w /\ UNCHANGED <<lock, buffer, got>>
        BY <2>4 DEF UpdateBlock, TransformBlock, LockDiscipline, Writing, clientVars
      <3>2. QED
        BY <3>1 DEF Store
    <2>5. CASE ReleaseAfterUpdate(w)
      <3>1. /\ lock = w /\ lock' = Free /\ todo[w] = {}
            /\ UNCHANGED <<blocks, got>>
        BY <2>5 DEF ReleaseAfterUpdate, LockDiscipline, Writing, clientVars
      <3>2. \A r \in Resolutions : blocks[r] = Whole(buffer[w])
        BY <3>1 DEF BlocksInv, FinishedBlocks
      <3>3. Store' = Store
        BY <3>1, <3>2 DEF Store
      <3>4. QED
        BY <3>1, <3>3
    <2>6. QED
      BY <1>3, <2>1, <2>2, <2>3, <2>4, <2>5 DEF Worker
  <1>4. QED
    BY <1>1, <1>2, <1>3 DEF Next

(* For its readers the mipmap is one atomic cell, whatever the number of   *)
(* tasks, threads and resolutions.                                         *)
THEOREM Refinement == Spec => ImplementsBlockStore
  BY InitRefines, NextRefines, TypeCorrect, MutualExclusion, BlocksInvariant, PTL
     DEF Spec, ImplementsBlockStore, Abstract!Spec

-----------------------------------------------------------------------------
(* The blocks and the buffers never hold audio that the accessor has not   *)
(* loaded, and it loads none that the track has not had.                   *)

NotAhead ==
  /\ loaded <= content
  /\ \A r \in Resolutions : blocks[r].ver <= loaded
  /\ \A w \in Workers : buffer[w] <= loaded

LEMMA InitNotAhead == Init => NotAhead
  BY DEF Init, NotAhead, Whole, Unfilled

LEMMA VersionsAreIntegers ==
  ASSUME TypeOK
  PROVE  /\ content \in Int /\ loaded \in Int
         /\ \A r \in Resolutions : blocks[r].ver \in Int
         /\ \A w \in Workers : buffer[w] \in Int
         /\ wpc \in [Workers -> WorkerPc] /\ buffer \in [Workers -> Samples \union {Unfilled}]
         /\ blocks \in [Resolutions -> Block]
  BY DEF TypeOK, Versions, Block, Samples, Silence, Unfilled

LEMMA NextNotAhead == TypeOK /\ NotAhead /\ [Next]_vars => NotAhead'
  <1> SUFFICES ASSUME TypeOK, NotAhead, [Next]_vars
               PROVE  NotAhead'
    OBVIOUS
  <1> USE VersionsAreIntegers DEF NotAhead, hostVars, workerVars, Goto
  <1>1. CASE Edit
    <2>1. content' = content + 1 /\ UNCHANGED <<loaded, buffer, blocks>>
      BY <1>1 DEF Edit
    <2>2. QED
      BY <2>1
  <1>2. CASE Run \/ UNCHANGED vars
    BY <1>2 DEF Run, HandleReceive, TestBusy, PollAccessor, Enqueue, vars
  <1>3. ASSUME NEW c \in Clients, Client(c)
        PROVE  NotAhead'
    BY <1>3 DEF Client, StartRead, AcquireForRead, GetPixels, ToJson, Release
  <1>4. ASSUME NEW w \in Workers, Worker(w)
        PROVE  NotAhead'
    <2>1. CASE TakeTask(w) \/ SetBusy(w) \/ ClearBusy(w) \/ Notify(w)
      BY <2>1 DEF TakeTask, SetBusy, ClearBusy, Notify
    <2>2. CASE AudioAccessorUpdate(w) \/ AudioAccessorValidateState(w)
      <3>1. loaded' \in {loaded, content} /\ UNCHANGED <<content, buffer, blocks>>
        BY <2>2 DEF AudioAccessorUpdate, AudioAccessorValidateState
      <3>2. loaded <= loaded' /\ loaded' <= content
        BY <3>1
      <3>3. QED
        BY <3>1, <3>2
    <2>3. CASE FetchSamples(w)
      <3>1. PICK v \in {loaded, Silence} : buffer' = [buffer EXCEPT ![w] = v]
        BY <2>3 DEF FetchSamples
      <3>2. v <= loaded
        BY <3>1 DEF TypeOK, Versions, Silence
      <3>3. \A u \in Workers : buffer'[u] <= loaded
        BY <3>1, <3>2
      <3>4. QED
        BY <2>3, <3>3 DEF FetchSamples
    <2>4. CASE AcquireForUpdate(w) \/ ReleaseAfterUpdate(w)
      BY <2>4 DEF AcquireForUpdate, ReleaseAfterUpdate
    <2>5. CASE UpdateBlock(w)
      <3>1. PICK r \in Resolutions :
              blocks' = [blocks EXCEPT ![r] = [ver |-> buffer[w], whole |-> FALSE]]
        BY <2>5 DEF UpdateBlock, NextBlock, TypeOK
      <3>2. \A s \in Resolutions : blocks'[s].ver = IF s = r THEN buffer[w] ELSE blocks[s].ver
        BY <3>1
      <3>3. \A s \in Resolutions : blocks'[s].ver <= loaded
        BY <3>2
      <3>4. QED
        BY <2>5, <3>3 DEF UpdateBlock
    <2>6. CASE TransformBlock(w)
      <3>1. PICK r \in Resolutions : blocks' = [blocks EXCEPT ![r] = Whole(@.ver)]
        BY <2>6 DEF TransformBlock, NextBlock, TypeOK
      <3>2. \A s \in Resolutions : blocks'[s].ver = blocks[s].ver
        BY <3>1 DEF Whole
      <3>3. QED
        BY <2>6, <3>2 DEF TransformBlock
    <2>7. QED
      BY <1>4, <2>1, <2>2, <2>3, <2>4, <2>5, <2>6 DEF Worker
  <1>5. QED
    BY <1>1, <1>2, <1>3, <1>4 DEF Next

LEMMA NotAheadInvariant == Spec => []NotAhead
  BY InitNotAhead, NextNotAhead, TypeCorrect, PTL DEF Spec

-----------------------------------------------------------------------------
(* MipmapRaces.  While update() has not raced with a task there is one     *)
(* turn to update: it belongs to Run() on its way to enqueue(), to the     *)
(* queue, or to a worker, and m_busy gives it to Run() only when it        *)
(* belongs to none of them.                                                *)

OneTurn ==
  /\ mpc \in {"poll", "enqueue"} => queue = <<>> /\ NobodyActive
  /\ queue # <<>> => Len(queue) = 1 /\ NobodyActive
  /\ \A v, w \in Workers : wpc[v] \in Active /\ wpc[w] \in Active => v = w
  /\ \A w \in Workers : wpc[w] \in Updating => busy

(* What waits for the lock or is being written was the loaded version when *)
(* it was read, and still is, as nobody else loads one.                    *)
FreshBuffers ==
  \A w \in Workers : wpc[w] \in {"acquire"} \union Writing => buffer[w] \in {loaded, Silence}

RacesInv == ~raced => OneTurn /\ FreshBuffers

LEMMA InitRacesInv == RacesInit => RacesInv
  BY DEF RacesInit, Init, RacesInv, OneTurn, FreshBuffers, NobodyActive, Active,
         Updating, Writing

LEMMA NextOneTurn ==
  ASSUME TypeOK, OneTurn, [Next]_vars, ~(PassesTheTest /\ ~TasksHaveStarted)
  PROVE  OneTurn'
  <1> USE DEF TypeOK, OneTurn, NobodyActive, hostVars, workerVars, Goto
  <1>1. CASE Edit \/ UNCHANGED vars
    BY <1>1 DEF Edit, vars
  <1>2. CASE Run
    <2>1. CASE HandleReceive \/ PollAccessor
      BY <2>1 DEF HandleReceive, PollAccessor
    <2>2. CASE TestBusy
      <3>1. UNCHANGED <<queue, wpc, busy>> /\ mpc' \in {"receive", "poll"} /\ mpc = "update"
        BY <2>2 DEF TestBusy
      <3>2. CASE mpc' = "receive"
        BY <3>1, <3>2
      <3>3. CASE mpc' = "poll"
        <4>1. ~busy /\ TasksHaveStarted
          BY <2>2, <3>1, <3>3 DEF TestBusy, PassesTheTest
        <4>2. queue = <<>> /\ NobodyActive
          BY <4>1 DEF TasksHaveStarted, Active
        <4>3. QED
          BY <3>1, <4>2
      <3>4. QED
        BY <3>1, <3>2, <3>3
    <2>3. CASE Enqueue
      <3>1. queue = <<>> /\ NobodyActive /\ queue' = Append(queue, "none") /\ mpc' = "receive"
        BY <2>3 DEF Enqueue
      <3>2. Len(queue') = 1
        BY <3>1
      <3>3. UNCHANGED <<wpc, busy>>
        BY <2>3 DEF Enqueue
      <3>4. QED
        BY <3>1, <3>2, <3>3
    <2>4. QED
      BY <1>2, <2>1, <2>2, <2>3 DEF Run
  <1>3. ASSUME NEW w \in Workers, Worker(w)
        PROVE  OneTurn'
    <2>1. CASE TakeTask(w)
      <3>1. Len(queue) = 1 /\ queue' = Tail(queue) /\ NobodyActive
        BY <2>1 DEF TakeTask
      <3>2. queue' = <<>>
        BY <3>1
      <3>3. mpc' = mpc /\ mpc \notin {"poll", "enqueue"} /\ wpc' = [wpc EXCEPT ![w] = "start"]
        BY <2>1 DEF TakeTask
      <3>4. \A v \in Workers : wpc'[v] \in Active => v = w
        BY <3>1, <3>3
      <3>5. \A v \in Workers : wpc'[v] \notin Updating
        BY <3>1, <3>3 DEF Active, Updating, Writing
      <3>6. QED
        BY <3>2, <3>3, <3>4, <3>5, Zenon
    <2>2. CASE SetBusy(w)
      <3>1. /\ wpc[w] \in Active /\ wpc' = [wpc EXCEPT ![w] = "reload"]
            /\ busy' /\ UNCHANGED <<queue, mpc>>
        BY <2>2 DEF SetBusy, Active
      <3>2. \A v \in Workers : wpc'[v] \in Active <=> wpc[v] \in Active
        BY <3>1 DEF Active, Updating
      <3>3. QED
        BY <3>1, <3>2, Zenon
    <2>3. CASE AudioAccessorUpdate(w) \/ AudioAccessorValidateState(w) \/ FetchSamples(w)
      BY <2>3 DEF AudioAccessorUpdate, AudioAccessorValidateState, FetchSamples,
                  Active, Updating
    <2>4. CASE AcquireForUpdate(w) \/ UpdateBlock(w) \/ TransformBlock(w)
               \/ ReleaseAfterUpdate(w)
      BY <2>4 DEF AcquireForUpdate, UpdateBlock, TransformBlock, ReleaseAfterUpdate,
                  Active, Updating, Writing
    <2>5. CASE ClearBusy(w)
      BY <2>5 DEF ClearBusy, Active, Updating, Writing
    <2>6. CASE Notify(w)
      BY <2>6 DEF Notify, Active, Updating, Writing
    <2>7. QED
      BY <1>3, <2>1, <2>2, <2>3, <2>4, <2>5, <2>6 DEF Worker
  <1>4. ASSUME NEW c \in Clients, Client(c)
        PROVE  OneTurn'
    BY <1>4 DEF Client, StartRead, AcquireForRead, GetPixels, ToJson, Release
  <1>5. QED
    BY <1>1, <1>2, <1>3, <1>4 DEF Next

LEMMA NextFreshBuffers ==
  ASSUME TypeOK, OneTurn, FreshBuffers, [Next]_vars
  PROVE  FreshBuffers'
  <1> USE VersionsAreIntegers DEF FreshBuffers, hostVars, workerVars, Goto
  <1>1. CASE Edit \/ Run \/ UNCHANGED vars
    BY <1>1 DEF Edit, Run, HandleReceive, TestBusy, PollAccessor, Enqueue, vars
  <1>2. ASSUME NEW c \in Clients, Client(c)
        PROVE  FreshBuffers'
    BY <1>2 DEF Client, StartRead, AcquireForRead, GetPixels, ToJson, Release
  <1>3. ASSUME NEW w \in Workers, Worker(w)
        PROVE  FreshBuffers'
    <2>1. CASE TakeTask(w) \/ SetBusy(w) \/ ClearBusy(w) \/ Notify(w)
      BY <2>1 DEF TakeTask, SetBusy, ClearBusy, Notify, Writing
    <2>2. CASE AudioAccessorUpdate(w) \/ AudioAccessorValidateState(w)
      <3>1. wpc[w] \in {"reload", "validate"} /\ \E l \in {"validate", "fetch"} : wpc' = [wpc EXCEPT ![w] = l]
        BY <2>2 DEF AudioAccessorUpdate, AudioAccessorValidateState
      <3>2. \A v \in Workers : wpc'[v] \notin {"acquire"} \union Writing
        BY <3>1 DEF OneTurn, Active, Updating, Writing
      <3>3. QED
        BY <3>2
    <2>3. CASE FetchSamples(w)
      <3>1. /\ buffer'[w] \in {loaded, Silence} /\ loaded' = loaded
            /\ \A v \in Workers \ {w} : buffer'[v] = buffer[v] /\ wpc'[v] = wpc[v]
        BY <2>3 DEF FetchSamples
      <3>2. QED
        BY <3>1
    <2>4. CASE AcquireForUpdate(w) \/ UpdateBlock(w) \/ TransformBlock(w)
               \/ ReleaseAfterUpdate(w)
      <3>1. UNCHANGED <<loaded, buffer>> /\ wpc[w] \in {"acquire"} \union Writing
        BY <2>4 DEF AcquireForUpdate, UpdateBlock, TransformBlock, ReleaseAfterUpdate,
                    Writing
      <3>2. \A v \in Workers \ {w} : wpc'[v] = wpc[v]
        BY <2>4 DEF AcquireForUpdate, UpdateBlock, TransformBlock, ReleaseAfterUpdate
      <3>3. QED
        BY <3>1, <3>2
    <2>5. QED
      BY <1>3, <2>1, <2>2, <2>3, <2>4 DEF Worker
  <1>4. QED
    BY <1>1, <1>2, <1>3 DEF Next

(* An update that is queued alone makes a new start.                       *)
LEMMA QueuesAloneRestores ==
  ASSUME TypeOK, Next, QueuesAlone
  PROVE  /\ OneTurn' /\ FreshBuffers'
         /\ queue' # <<>>
  <1>1. Enqueue
    <2>1. ~Edit /\ \A c \in Clients : ~Client(c)
      BY DEF QueuesAlone, Edit, Client, StartRead, AcquireForRead, GetPixels, ToJson,
             Release
    <2>2. \A w \in Workers : ~Worker(w)
      BY DEF QueuesAlone, Worker, TakeTask, SetBusy, AudioAccessorUpdate,
             AudioAccessorValidateState,
             FetchSamples, AcquireForUpdate, UpdateBlock, TransformBlock,
             ReleaseAfterUpdate,
             ClearBusy, Notify
    <2>3. QED
      BY <2>1, <2>2 DEF Next, Run, HandleReceive, TestBusy, PollAccessor, QueuesAlone
  <1>2. /\ queue = <<>> /\ queue' = Append(queue, "none") /\ mpc' = "receive" /\ wpc' = wpc
        /\ NobodyActive
    BY <1>1 DEF Enqueue, QueuesAlone, workerVars
  <1>3. Len(queue') = 1 /\ queue' # <<>>
    BY <1>2
  <1>4. \A w \in Workers : wpc'[w] \notin Active
    BY <1>2 DEF NobodyActive
  <1>5. QED
    BY <1>2, <1>3, <1>4 DEF OneTurn, FreshBuffers, NobodyActive, Active, Updating, Writing

LEMMA RacesNextCases ==
  ASSUME [RacesNext]_<<vars, raced>>
  PROVE  /\ [Next]_vars
         /\ ~raced' => \/ ~raced /\ ~(PassesTheTest /\ ~TasksHaveStarted)
                       \/ Next /\ QueuesAlone
  <1>1. CASE RacesNext
    BY <1>1 DEF RacesNext
  <1>2. CASE UNCHANGED <<vars, raced>>
    <2>1. UNCHANGED vars /\ raced' = raced
      BY <1>2, Zenon
    <2>2. mpc' = mpc
      BY <2>1 DEF vars
    <2>3. ~PassesTheTest
      BY <2>2 DEF PassesTheTest
    <2>4. QED
      BY <2>1, <2>3, Zenon
  <1>3. QED
    BY <1>1, <1>2, Zenon

LEMMA NextRacesInv == TypeOK /\ RacesInv /\ [RacesNext]_<<vars, raced>> => RacesInv'
  <1> SUFFICES ASSUME TypeOK, RacesInv, [RacesNext]_<<vars, raced>>, ~raced'
               PROVE  OneTurn' /\ FreshBuffers'
    BY DEF RacesInv
  <1>1. CASE ~raced /\ ~(PassesTheTest /\ ~TasksHaveStarted)
    BY <1>1, RacesNextCases, NextOneTurn, NextFreshBuffers DEF RacesInv
  <1>2. CASE Next /\ QueuesAlone
    BY <1>2, QueuesAloneRestores
  <1>3. QED
    BY <1>1, <1>2, RacesNextCases

(* MipmapRaces only observes Mipmap: what holds of the one holds of the    *)
(* other.                                                                  *)
LEMMA RacesAreObserved == RacesSpec => Spec
  <1>1. RacesInit => Init
    BY DEF RacesInit
  <1>2. [RacesNext]_<<vars, raced>> => [Next]_vars
    BY RacesNextCases
  <1>3. QED
    BY <1>1, <1>2, PTL DEF RacesSpec, Spec

LEMMA RacesInvariant == RacesSpec => []RacesInv
  BY InitRacesInv, NextRacesInv, RacesAreObserved, TypeCorrect, PTL DEF RacesSpec

(* As long as update() has not raced with a task, m_busy keeps updates     *)
(* apart: none is queued or at work behind another, for any number of      *)
(* workers.                                                                *)
THEOREM UpdatesOneAtATime == RacesSpec => []OneUpdateAtATime
  <1>1. RacesInv => OneUpdateAtATime
    BY DEF RacesInv, OneTurn, OneUpdateAtATime, NobodyActive, Active
  <1>2. QED
    BY <1>1, RacesInvariant, PTL

LEMMA NextNeverGoesBack ==
  ASSUME TypeOK, NotAhead, RacesInv, ~raced, Next, NEW r \in Resolutions
  PROVE  blocks'[r].ver \in blocks[r].ver .. content \union {Silence}
  <1> USE VersionsAreIntegers
  <1>1. blocks[r].ver \in blocks[r].ver .. content
    BY DEF NotAhead
  <1>2. CASE blocks' = blocks
    BY <1>1, <1>2
  <1>3. ASSUME NEW w \in Workers, UpdateBlock(w)
        PROVE  blocks'[r].ver \in blocks[r].ver .. content \union {Silence}
    <2>1. PICK s \in Resolutions :
            blocks' = [blocks EXCEPT ![s] = [ver |-> buffer[w], whole |-> FALSE]]
      BY <1>3 DEF UpdateBlock, NextBlock, TypeOK
    <2>2. blocks'[r].ver = IF r = s THEN buffer[w] ELSE blocks[r].ver
      BY <2>1
    <2>3. buffer[w] \in {loaded, Silence}
      BY <1>3 DEF UpdateBlock, RacesInv, FreshBuffers, Writing
    <2>4. loaded \in blocks[r].ver .. content
      BY DEF NotAhead
    <2>5. QED
      BY <1>1, <2>2, <2>3, <2>4
  <1>4. ASSUME NEW w \in Workers, TransformBlock(w)
        PROVE  blocks'[r].ver \in blocks[r].ver .. content \union {Silence}
    <2>1. PICK s \in Resolutions : blocks' = [blocks EXCEPT ![s] = Whole(@.ver)]
      BY <1>4 DEF TransformBlock, NextBlock, TypeOK
    <2>2. blocks'[r].ver = blocks[r].ver
      BY <2>1 DEF Whole
    <2>3. QED
      BY <1>1, <2>2
  <1>5. CASE Edit \/ Run
    BY <1>2, <1>5 DEF Edit, Run, HandleReceive, TestBusy, PollAccessor, Enqueue
  <1>6. ASSUME NEW c \in Clients, Client(c)
        PROVE  blocks' = blocks
    BY <1>6 DEF Client, StartRead, AcquireForRead, GetPixels, ToJson, Release
  <1>7. ASSUME NEW w \in Workers, Worker(w), ~UpdateBlock(w), ~TransformBlock(w)
        PROVE  blocks' = blocks
    BY <1>7 DEF Worker, TakeTask, SetBusy, AudioAccessorUpdate, AudioAccessorValidateState,
                FetchSamples, AcquireForUpdate, ReleaseAfterUpdate, ClearBusy, Notify
  <1>8. QED
    BY <1>2, <1>3, <1>4, <1>5, <1>6, <1>7 DEF Next

(* No update overwrites a block with older audio than it has, however many *)
(* edits, tasks and resolutions there are, unless update() has raced with  *)
(* a task: only silence, after a read that failed, comes out of order.     *)
THEOREM BlocksNeverGoBack == RacesSpec => NeverGoesBack
  <1>1. TypeOK /\ NotAhead /\ RacesInv /\ [RacesNext]_<<vars, raced>> =>
          [~raced => \A r \in Resolutions :
             blocks'[r].ver \in blocks[r].ver .. content \union {Silence}]_blocks
    <2>1. [RacesNext]_<<vars, raced>> => Next \/ UNCHANGED blocks
      BY DEF RacesNext, vars
    <2>2. QED
      BY <2>1, NextNeverGoesBack
  <1>2. QED
    BY <1>1, RacesInvariant, RacesAreObserved, NotAheadInvariant, TypeCorrect, PTL
    DEF RacesSpec, NeverGoesBack

-----------------------------------------------------------------------------
(* The blocks catch up.                                                    *)

(* Only the end of an update brings the mipmap to rest.                    *)
LEMMA NextAtRest ==
  ASSUME TypeOK, LockDiscipline, BlocksInv, FreshBuffers, ~raced, AtRestBlocksAreLoaded, [Next]_vars,
         AtRest'
  PROVE  \E v \in {loaded', Silence} : \A r \in Resolutions : blocks'[r] = Whole(v)
  <1> USE DEF AtRest, hostVars, workerVars, Goto
  <1>1. ASSUME AtRest, UNCHANGED <<loaded, blocks>>
        PROVE  \E v \in {loaded', Silence} : \A r \in Resolutions : blocks'[r] = Whole(v)
    BY <1>1 DEF AtRestBlocksAreLoaded
  <1>2. CASE Edit \/ UNCHANGED vars
    BY <1>1, <1>2 DEF Edit, vars
  <1>3. CASE Run
    <2>1. ~Enqueue
      <3>1. Append(queue, "none") # <<>>
        BY DEF TypeOK
      <3>2. QED
        BY <3>1 DEF Enqueue
    <2>2. QED
      BY <1>1, <1>3, <2>1 DEF Run, HandleReceive, TestBusy, PollAccessor
  <1>4. ASSUME NEW c \in Clients, Client(c)
        PROVE  AtRest /\ UNCHANGED <<loaded, blocks>>
    BY <1>4 DEF Client, StartRead, AcquireForRead, GetPixels, ToJson, Release
  <1>5. ASSUME NEW w \in Workers, Worker(w)
        PROVE  \E v \in {loaded', Silence} : \A r \in Resolutions : blocks'[r] = Whole(v)
    <2>1. wpc \in [Workers -> WorkerPc]
      BY DEF TypeOK
    <2>2. CASE ReleaseAfterUpdate(w)
      <3>1. lock = w /\ todo[w] = {} /\ buffer[w] \in {loaded, Silence}
        BY <2>2 DEF ReleaseAfterUpdate, LockDiscipline, FreshBuffers, Writing
      <3>2. \A r \in Resolutions : blocks[r] = Whole(buffer[w])
        BY <3>1 DEF BlocksInv, FinishedBlocks
      <3>3. blocks' = blocks /\ loaded' = loaded
        BY <2>2 DEF ReleaseAfterUpdate
      <3>4. QED
        BY <3>1, <3>2, <3>3
    <2>3. CASE ClearBusy(w) \/ Notify(w)
      <3>1. queue' = queue /\ blocks' = blocks /\ loaded' = loaded
        BY <2>3 DEF ClearBusy, Notify
      <3>2. \A v \in Workers : wpc[v] = wpc'[v] \/ wpc[v] \in {"clear", "notify"}
        BY <2>1, <2>3 DEF ClearBusy, Notify
      <3>3. QED
        BY <1>1, <3>1, <3>2
    <2>4. CASE ~ReleaseAfterUpdate(w) /\ ~ClearBusy(w) /\ ~Notify(w)
      <3>1. wpc'[w] \in {"start", "reload", "validate", "fetch", "acquire", "update", "transform"}
        BY <1>5, <2>1, <2>4
        DEF Worker, TakeTask, SetBusy, AudioAccessorUpdate, AudioAccessorValidateState,
            FetchSamples,
            AcquireForUpdate, UpdateBlock, TransformBlock
      <3>2. QED
        BY <3>1
    <2>5. QED
      BY <2>2, <2>3, <2>4
  <1>6. QED
    BY <1>1, <1>2, <1>3, <1>4, <1>5 DEF Next

(* The blocks of a mipmap that nobody updates are those of the version     *)
(* loaded, or silent, for any number of workers and resolutions, unless    *)
(* update() has raced with a task: what keeps an edit from its blocks is   *)
(* only that no Run() has polled since.                                    *)
THEOREM BlocksCatchUp == RacesSpec => []AtRestBlocksAreLoaded
  <1>1. RacesInit => AtRestBlocksAreLoaded
    BY DEF RacesInit, Init, AtRestBlocksAreLoaded, AtRest
  <1>2. TypeOK /\ LockDiscipline /\ BlocksInv /\ RacesInv /\ AtRestBlocksAreLoaded
          /\ [RacesNext]_<<vars, raced>> => AtRestBlocksAreLoaded'
    <2> SUFFICES ASSUME TypeOK, LockDiscipline, BlocksInv, RacesInv, AtRestBlocksAreLoaded,
                        [RacesNext]_<<vars, raced>>, AtRest', ~raced'
                 PROVE  \E v \in {loaded', Silence} : \A r \in Resolutions : blocks'[r] = Whole(v)
      BY DEF AtRestBlocksAreLoaded, Whole
    <2>1. ~(Next /\ QueuesAlone)
      BY QueuesAloneRestores DEF AtRest
    <2>2. QED
      BY <2>1, RacesNextCases, NextAtRest DEF RacesInv
  <1>3. QED
    BY <1>1, <1>2, RacesInvariant, RacesAreObserved, BlocksInvariant, MutualExclusion,
       TypeCorrect, PTL
    DEF RacesSpec

=============================================================================
