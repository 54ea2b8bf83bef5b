----------------------------- MODULE Server_proofs -----------------------------
(***************************************************************************)
(* The safety of the server's locking, proved for any number of calls,     *)
(* worker threads and blocks.                                              *)
(***************************************************************************)
EXTENDS Server, TLAPS

Places == {"out", "queued", "data", "client", "outside", "range", "fetch", "apply",
           "transparent", "rewind", "trprewind", "notify", "post", "done"}

\* Where a handler is within sync or rewind, past data_mutex.
Scanning == {"range", "fetch", "apply", "transparent", "rewind", "trprewind",
             "notify", "post"}

\* One request at a time is there: the one that holds data_mutex.
DataHeld == \A r \in Request : pc[r] \in Scanning => data = r

\* The heights stored are an interval, or there are none and it shows.
StoredHeights == IF hi = 0 THEN emptied ELSE 1 <= lo /\ lo <= hi

IInv == ServerTypeOK /\ DataHeld /\ MemoryCurrent /\ StoredHeights /\ Unpoisoned

-----------------------------------------------------------------------------

LEMMA NoJobIsJob == NoJob \in Job
<1>1. 1 \in 1..(MaxHeight + 1) /\ 0 \in (0 - RewindDepth)..MaxHeight
  BY ServerAssumption
<1> QED
  BY <1>1 DEF NoJob, Job

LEMMA InitIInv == Init => IInv
<1> SUFFICES ASSUME Init PROVE IInv
  OBVIOUS
<1>1. NoJob \in Job
  BY NoJobIsJob
<1>2. emptied \in BOOLEAN /\ (Checkpoint = 0 => emptied)
  <2>1. CASE Checkpoint = 0
    BY <2>1 DEF Init
  <2>2. CASE Checkpoint # 0
    BY <2>2 DEF Init
  <2> QED
    BY <2>1, <2>2
<1>3. /\ pc = [r \in Request |-> "out"] /\ lo = Checkpoint /\ hi = Checkpoint
      /\ poisoned = FALSE
  BY DEF Init
<1>4. ServerTypeOK
  <2>1. /\ op \in [Request -> Op] /\ job \in [Request -> Job]
        /\ client \in Request \cup {NULL} /\ data \in Request \cup {NULL}
    <3>1. "info" \in Op /\ op = [r \in Request |-> "info"] /\ job = [r \in Request |-> NoJob]
          /\ client = NULL /\ data = NULL
      BY DEF Init, Op
    <3> QED
      BY <1>1, <3>1
  <2>2. /\ poisoned \in BOOLEAN /\ undelivered \in BOOLEAN /\ broken \in BOOLEAN
        /\ unsound \subseteq Request /\ reorgs \in 0..MaxReorgs
    <3>1. /\ poisoned = FALSE /\ undelivered = FALSE /\ broken = FALSE
          /\ unsound = {} /\ reorgs = 0
      BY DEF Init
    <3>2. 0 \in 0..MaxReorgs
      BY ServerAssumption
    <3> QED
      BY <3>1, <3>2
  <2>3. lo \in 0..MaxHeight /\ hi \in 0..MaxHeight
    BY <1>3, ServerAssumption
  <2> QED
    BY <1>2, <1>3, <2>1, <2>2, <2>3 DEF ServerTypeOK
<1>5. DataHeld /\ MemoryCurrent
  BY <1>3 DEF DataHeld, MemoryCurrent, Scanning
<1>6. StoredHeights /\ Unpoisoned
  BY <1>2, <1>3, ServerAssumption DEF StoredHeights, Unpoisoned
<1> QED
  BY <1>4, <1>5, <1>6 DEF IInv

\* A step that leaves the tables alone and moves one handler forward, within
\* sync and rewind or outside them, keeps what is not about that handler.
LEMMA Moves ==
  ASSUME IInv, NEW r \in Request, NEW place \in Places, Goto(r, place)
  PROVE  /\ pc' \in [Request -> Places]
         /\ pc'[r] = place
         /\ \A s \in Request : s # r => pc'[s] = pc[s]
BY DEF IInv, ServerTypeOK, Goto, Places

\* A handler that ends holds data_mutex no longer.
LEMMA Ends ==
  ASSUME IInv, NEW r \in Request, Finish(r)
  PROVE  /\ pc' \in [Request -> Places]
         /\ pc'[r] = "done"
         /\ \A s \in Request : s # r => pc'[s] = pc[s] /\ job'[s] = job[s]
         /\ job' \in [Request -> Job]
         /\ data' \in Request \cup {NULL}
         /\ DataHeld'
<1>1. /\ pc' \in [Request -> Places]
      /\ pc'[r] = "done"
      /\ \A s \in Request : s # r => pc'[s] = pc[s] /\ job'[s] = job[s]
  BY DEF IInv, ServerTypeOK, Finish, Places
<1>2. NoJob \in Job
  BY NoJobIsJob
<1>3. job' \in [Request -> Job]
  BY <1>2 DEF IInv, ServerTypeOK, Finish
<1>4. data' \in Request \cup {NULL}
  BY DEF IInv, ServerTypeOK, Finish
<1>5. DataHeld'
  BY <1>1 DEF IInv, DataHeld, Finish, Scanning
<1> QED
  BY <1>1, <1>3, <1>4, <1>5

\* A cause that is there stays, since no request that has ended comes back.
LEMMA CauseStays ==
  ASSUME IInv, poisoned' => poisoned, unsound \subseteq unsound',
         emptied => emptied', broken => broken',
         \A s \in Request : pc[s] = "done" => pc'[s] = "done"
  PROVE  Unpoisoned'
<1>1. unsound \subseteq Request /\ Unpoisoned
  BY DEF IInv, ServerTypeOK
<1> QED
  BY <1>1 DEF Unpoisoned

LEMMA MovesKeepCause ==
  ASSUME IInv, NEW r \in Request, NEW place \in Places, Goto(r, place), pc[r] # "done",
         poisoned' = poisoned, unsound' = unsound, emptied => emptied', broken' = broken
  PROVE  Unpoisoned'
<1>1. \A s \in Request : pc[s] = "done" => pc'[s] = "done"
  BY Moves
<1> QED
  BY <1>1, CauseStays

\* A step that ends a handler and leaves the stored heights alone.
LEMMA EndsKeeps ==
  ASSUME IInv, NEW r \in Request, Finish(r),
         op' = op, lo' = lo, hi' = hi, reorgs' = reorgs, emptied' = emptied,
         client' \in Request \cup {NULL}, undelivered' \in BOOLEAN,
         poisoned' \in BOOLEAN, unsound' = unsound, broken' \in BOOLEAN, Unpoisoned'
  PROVE  IInv'
<1>1. MemoryCurrent'
  BY Ends DEF IInv, MemoryCurrent
<1>2. ServerTypeOK'
  BY Ends DEF IInv, ServerTypeOK, Places
<1>3. StoredHeights'
  BY DEF IInv, StoredHeights
<1> QED
  BY <1>1, <1>2, <1>3, Ends DEF IInv

LEMMA EndsCleanly ==
  ASSUME IInv, NEW r \in Request, Finish(r),
         op' = op, lo' = lo, hi' = hi, client' \in Request \cup {NULL},
         undelivered' \in BOOLEAN, poisoned' = poisoned,
         reorgs' = reorgs, emptied' = emptied, unsound' = unsound, broken' = broken
  PROVE  IInv'
<1>1. \A s \in Request : pc[s] = "done" => pc'[s] = "done"
  BY Ends
<1>2. Unpoisoned'
  BY <1>1, CauseStays
<1>3. poisoned' \in BOOLEAN /\ broken' \in BOOLEAN
  BY DEF IInv, ServerTypeOK
<1> QED
  BY <1>2, <1>3, EndsKeeps

LEMMA StutterIInv == IInv /\ UNCHANGED vars => IInv'
BY DEF IInv, vars, locks, stored, causes, ServerTypeOK, DataHeld, MemoryCurrent,
       StoredHeights, Unpoisoned

LEMMA TaskSteps ==
  ASSUME IInv, NEW r \in Request, Call(r) \/ Dispatch(r) \/ TakeData(r)
  PROVE  IInv'
<1> USE DEF locks, stored, causes
<1>1. CASE Call(r)
  <2>1. Goto(r, "queued") /\ "queued" \in Places /\ pc[r] # "done"
    BY <1>1 DEF Call, Places
  <2>2. unsound' = unsound \/ unsound' = unsound \cup {r}
    BY <1>1 DEF Call
  <2>3. ServerTypeOK'
    BY <1>1, <2>1, <2>2, Moves DEF Call, Places, IInv, ServerTypeOK
  <2>4. Unpoisoned'
    <3>1. unsound \subseteq unsound'
      BY <2>2
    <3>2. \A s \in Request : pc[s] = "done" => pc'[s] = "done"
      BY <2>1, Moves
    <3> QED
      BY <1>1, <3>1, <3>2, CauseStays DEF Call
  <2> QED
    BY <1>1, <2>1, <2>3, <2>4, Moves DEF Call, Places, IInv, DataHeld, MemoryCurrent,
       StoredHeights, Scanning
<1>2. CASE Dispatch(r)
  <2>1. PICK place \in {"done", "data", "client"} : Goto(r, place)
    BY <1>2 DEF Dispatch
  <2>2. pc[r] # "done" /\ place \in Places
    BY <1>2 DEF Dispatch, Places
  <2>3. Unpoisoned'
    BY <1>2, <2>1, <2>2, MovesKeepCause DEF Dispatch
  <2> QED
    BY <1>2, <2>1, <2>2, <2>3, Moves DEF Dispatch, Places, IInv, ServerTypeOK, DataHeld,
       MemoryCurrent, StoredHeights, Scanning
<1>3. CASE TakeData(r)
  <2>1. PICK place \in {"range", "rewind"} : Goto(r, place)
    BY <1>3 DEF TakeData
  <2>2. \A s \in Request : pc[s] \notin Scanning
    BY <1>3, ServerAssumption DEF TakeData, IInv, DataHeld
  <2>3. job' \in [Request -> Job]
    BY <1>3, ServerAssumption DEF TakeData, IInv, ServerTypeOK, Job
  <2>4. ServerTypeOK'
    BY <1>3, <2>1, <2>3, Moves DEF TakeData, IInv, ServerTypeOK, Places
  <2>5. DataHeld' /\ MemoryCurrent'
    BY <1>3, <2>1, <2>2, Moves DEF TakeData, DataHeld, MemoryCurrent, Places, Scanning
  <2>6. Unpoisoned'
    BY <1>3, <2>1, MovesKeepCause DEF TakeData, Places
  <2> QED
    BY <1>3, <2>4, <2>5, <2>6 DEF TakeData, IInv, StoredHeights
<1> QED
  BY <1>1, <1>2, <1>3

\* The sections of handlers other than sync and rewind, and the panics.
LEMMA SectionSteps ==
  ASSUME IInv, NEW r \in Request,
         LockPanics(r) \/ Query(r) \/ Prepare(r) \/ Import(r)
         \/ AskZcashd(r) \/ ZcashdAnswers(r) \/ SectionBreaks(r)
  PROVE  IInv'
<1> USE DEF locks, stored, causes
<1>1. CASE LockPanics(r)
  BY <1>1, EndsCleanly DEF LockPanics, IInv, ServerTypeOK
<1>2. CASE Query(r)
  <2>1. \/ poisoned' = FALSE
        \/ \E s \in unsound : pc[s] = "done"
    BY <1>2 DEF Query
  <2>2. Unpoisoned'
    BY <1>2, <2>1, Ends DEF Query, IInv, ServerTypeOK, Unpoisoned
  <2> QED
    BY <1>2, <2>2, EndsKeeps DEF Query, IInv, ServerTypeOK
<1>3. CASE Prepare(r)
  <2>1. poisoned' = FALSE \/ (poisoned' = TRUE /\ (hi = 0 \/ r \in unsound))
    <3>1. (hi = 0) \in BOOLEAN /\ (r \in unsound) \in BOOLEAN
      OBVIOUS
    <3> QED
      BY <1>3, <3>1 DEF Prepare
  <2>2. Unpoisoned'
    BY <1>3, <2>1, Ends DEF Prepare, IInv, ServerTypeOK, Unpoisoned, StoredHeights
  <2>3. poisoned' \in BOOLEAN
    BY <2>1
  <2> QED
    BY <1>3, <2>2, <2>3, EndsKeeps DEF Prepare, IInv, ServerTypeOK
<1>4. CASE Import(r) \/ ZcashdAnswers(r)
  <2>1. poisoned' = FALSE \/ (poisoned' = TRUE /\ r \in unsound)
    <3>1. (r \in unsound) \in BOOLEAN
      OBVIOUS
    <3> QED
      BY <1>4, <3>1 DEF Import, ZcashdAnswers
  <2>2. Unpoisoned'
    BY <1>4, <2>1, Ends DEF Import, ZcashdAnswers, Unpoisoned
  <2>3. Finish(r) /\ client' \in Request \cup {NULL}
    BY <1>4 DEF Import, ZcashdAnswers, IInv, ServerTypeOK
  <2>4. poisoned' \in BOOLEAN
    BY <2>1
  <2> QED
    BY <1>4, <2>2, <2>3, <2>4, EndsKeeps DEF Import, ZcashdAnswers, IInv, ServerTypeOK
<1>5. CASE SectionBreaks(r)
  BY <1>5, EndsKeeps DEF SectionBreaks, IInv, ServerTypeOK, Unpoisoned
<1>6. CASE AskZcashd(r)
  <2>1. Goto(r, "outside") /\ "outside" \in Places /\ pc[r] # "done"
    BY <1>6 DEF AskZcashd, Places, Locked
  <2>2. ServerTypeOK'
    BY <1>6, <2>1, Moves DEF AskZcashd, Places, IInv, ServerTypeOK
  <2>3. Unpoisoned'
    BY <1>6, <2>1, MovesKeepCause DEF AskZcashd
  <2> QED
    BY <1>6, <2>1, <2>2, <2>3, Moves DEF AskZcashd, Places, IInv, DataHeld, MemoryCurrent,
       StoredHeights, Scanning
<1> QED
  BY <1>1, <1>2, <1>3, <1>4, <1>5, <1>6

\* The steps of a sync or rewind: the request holds data_mutex.
LEMMA ScanSteps ==
  ASSUME IInv, NEW r \in Request,
         GetScanRange(r) \/ Fetch(r) \/ Reorg(r) \/ ApplyBlock(r) \/ Applied(r)
         \/ ScanTransparent(r) \/ SyncFails(r)
  PROVE  IInv'
<1> USE DEF locks, stored, causes
<1>0. /\ pc[r] \in Scanning
      /\ \A s \in Request : pc[s] \in Scanning => s = r
      /\ hi \in 0..MaxHeight /\ lo \in 0..MaxHeight /\ job[r] \in Job
  <2>1. pc[r] \in Scanning
    BY DEF GetScanRange, Fetch, Reorg, ApplyBlock, Applied, ScanTransparent, SyncFails,
           Locked, Scanning
  <2> QED
    BY <2>1 DEF IInv, ServerTypeOK, DataHeld
<1>1. CASE GetScanRange(r)
  <2>1. PICK place \in {"notify", "fetch"} : Goto(r, place)
    BY <1>1 DEF GetScanRange
  <2>2. job' \in [Request -> Job]
    <3>1. PICK tip \in Checkpoint..MaxHeight :
            \/ tip <= hi /\ job' = job
            \/ /\ tip > hi
               /\ job' = [job EXCEPT ![r].end = tip + 1,
                                     ![r].target = hi + 1 - RewindDepth]
      BY <1>0, <1>1, ServerAssumption DEF GetScanRange
    <3>2. CASE tip > hi /\ job' = [job EXCEPT ![r].end = tip + 1,
                                             ![r].target = hi + 1 - RewindDepth]
      <4>1. /\ tip + 1 \in 1..(MaxHeight + 1)
            /\ hi + 1 - RewindDepth \in (0 - RewindDepth)..MaxHeight
        BY <1>0, <3>2, ServerAssumption
      <4> QED
        BY <3>2, <4>1 DEF Job, IInv, ServerTypeOK
    <3> QED
      BY <3>1, <3>2 DEF IInv, ServerTypeOK
  <2>3. ServerTypeOK'
    BY <1>1, <2>1, <2>2, Moves DEF GetScanRange, IInv, ServerTypeOK, Places
  <2>4. DataHeld' /\ MemoryCurrent'
    BY <1>0, <1>1, <2>1, Moves DEF GetScanRange, IInv, DataHeld, MemoryCurrent, Places, Scanning
  <2>5. Unpoisoned'
    BY <1>0, <1>1, <2>1, MovesKeepCause DEF GetScanRange, Places, Scanning
  <2> QED
    BY <1>1, <2>3, <2>4, <2>5 DEF GetScanRange, IInv, StoredHeights
<1>2. CASE Fetch(r)
  <2>1. Goto(r, "apply") /\ "apply" \in Places
    BY <1>2 DEF Fetch, Places
  <2>2. job' \in [Request -> Job] /\ job'[r].next = hi + 1
    <3>1. hi + 1 \in 1..(MaxHeight + 1)
      BY <1>0, ServerAssumption
    <3> QED
      BY <1>2, <3>1 DEF Fetch, IInv, ServerTypeOK, Job
  <2>3. ServerTypeOK'
    BY <1>2, <2>1, <2>2, Moves DEF Fetch, IInv, ServerTypeOK, Places
  <2>4. DataHeld' /\ MemoryCurrent'
    BY <1>0, <1>2, <2>1, <2>2, Moves DEF Fetch, IInv, DataHeld, MemoryCurrent, Places, Scanning
  <2>5. Unpoisoned'
    BY <1>0, <1>2, <2>1, MovesKeepCause DEF Fetch, Places, Scanning
  <2> QED
    BY <1>2, <2>3, <2>4, <2>5 DEF Fetch, IInv, StoredHeights
<1>3. CASE Reorg(r)
  <2>1. Goto(r, "rewind") /\ "rewind" \in Places
    BY <1>3 DEF Reorg, Places
  <2>2. reorgs' \in 0..MaxReorgs
    BY <1>3, ServerAssumption DEF Reorg, IInv, ServerTypeOK
  <2>3. ServerTypeOK'
    BY <1>3, <2>1, <2>2, Moves DEF Reorg, IInv, ServerTypeOK, Places
  <2>4. DataHeld' /\ MemoryCurrent'
    BY <1>0, <1>3, <2>1, Moves DEF Reorg, IInv, DataHeld, MemoryCurrent, Places, Scanning
  <2>5. Unpoisoned'
    BY <1>0, <1>3, <2>1, MovesKeepCause DEF Reorg, Places, Scanning
  <2> QED
    BY <1>3, <2>3, <2>4, <2>5 DEF Reorg, IInv, StoredHeights
<1>4. CASE ApplyBlock(r)
  <2>1. job[r].next = hi + 1 /\ job[r].next \in 1..MaxHeight /\ job[r].next + 1 \in 1..(MaxHeight + 1)
    BY <1>0, <1>4, ServerAssumption DEF ApplyBlock, Locked, IInv, MemoryCurrent, Job
  <2>2. job' \in [Request -> Job] /\ job'[r].next = job[r].next + 1
    BY <1>0, <1>4, <2>1 DEF ApplyBlock, IInv, ServerTypeOK, Job
  <2>3. hi' = hi + 1 /\ hi' \in 1..MaxHeight /\ lo' \in 0..MaxHeight
        /\ lo' = IF hi = 0 THEN hi' ELSE lo
    <3>1. hi' = job[r].next /\ lo' = (IF hi = 0 THEN job[r].next ELSE lo)
      BY <1>4 DEF ApplyBlock
    <3>2. hi' = hi + 1 /\ hi' \in 1..MaxHeight
      BY <2>1, <3>1
    <3> QED
      BY <1>0, <2>1, <3>1, <3>2, ServerAssumption
  <2>4. ServerTypeOK'
    <3>1. undelivered' \in BOOLEAN
      BY <1>4 DEF ApplyBlock, IInv, ServerTypeOK
    <3>2. hi' \in 0..MaxHeight
      BY <2>3, ServerAssumption
    <3> QED
      BY <1>4, <2>2, <2>3, <3>1, <3>2 DEF ApplyBlock, IInv, ServerTypeOK
  <2>5. DataHeld' /\ MemoryCurrent'
    BY <1>0, <1>4, <2>1, <2>2, <2>3 DEF ApplyBlock, IInv, DataHeld, MemoryCurrent, Scanning
  <2>6. StoredHeights'
    BY <1>0, <2>3 DEF IInv, StoredHeights
  <2>7. Unpoisoned'
    BY <1>4, CauseStays DEF ApplyBlock
  <2> QED
    BY <2>4, <2>5, <2>6, <2>7 DEF IInv
<1>5. CASE Applied(r)
  <2>1. Goto(r, "transparent") /\ "transparent" \in Places
    BY <1>5 DEF Applied, Places
  <2>2. Unpoisoned'
    BY <1>0, <1>5, <2>1, MovesKeepCause DEF Applied, Scanning
  <2> QED
    BY <1>0, <1>5, <2>1, <2>2, Moves DEF Applied, Places, IInv, ServerTypeOK, DataHeld,
       MemoryCurrent, StoredHeights, Scanning
<1>6. CASE ScanTransparent(r)
  <2>1. Goto(r, "range") /\ "range" \in Places
    BY <1>6 DEF ScanTransparent, Places
  <2>2. ServerTypeOK'
    BY <1>6, <2>1, Moves DEF ScanTransparent, IInv, ServerTypeOK, Places
  <2>3. DataHeld' /\ MemoryCurrent'
    BY <1>0, <1>6, <2>1, Moves DEF ScanTransparent, IInv, DataHeld, MemoryCurrent, Places, Scanning
  <2>5. Unpoisoned'
    BY <1>0, <1>6, <2>1, MovesKeepCause DEF ScanTransparent, Places, Scanning
  <2> QED
    BY <1>6, <2>2, <2>3, <2>5 DEF ScanTransparent, IInv, StoredHeights
<1>7. CASE SyncFails(r)
  BY <1>7, EndsCleanly DEF SyncFails, IInv, ServerTypeOK
<1> QED
  BY <1>1, <1>2, <1>3, <1>4, <1>5, <1>6, <1>7

LEMMA RewindSteps ==
  ASSUME IInv, NEW r \in Request, RewindBlocks(r) \/ RewindPanics(r) \/ RewindUtxos(r)
  PROVE  IInv'
<1> USE DEF locks, stored, causes
<1>0. /\ pc[r] \in Scanning
      /\ \A s \in Request : pc[s] \in Scanning => s = r
      /\ hi \in 0..MaxHeight /\ lo \in 0..MaxHeight /\ job[r] \in Job
  <2>1. pc[r] \in Scanning
    BY DEF RewindBlocks, RewindPanics, RewindUtxos, Locked, Scanning
  <2> QED
    BY <2>1 DEF IInv, ServerTypeOK, DataHeld
<1>1. CASE RewindBlocks(r)
  <2>1. Goto(r, "trprewind") /\ "trprewind" \in Places
    BY <1>1 DEF RewindBlocks, Places
  <2>2. /\ hi' \in 0..MaxHeight /\ lo' \in 0..MaxHeight /\ emptied' \in BOOLEAN
        /\ (emptied => emptied') /\ StoredHeights'
    <3>1. 1 <= lo /\ lo <= hi /\ emptied \in BOOLEAN /\ job[r].target \in Int
      BY <1>0, <1>1, ServerAssumption DEF RewindBlocks, IInv, ServerTypeOK, StoredHeights, Job
    <3>2. CASE job[r].target < lo
      BY <1>1, <3>1, <3>2, ServerAssumption DEF RewindBlocks, StoredHeights
    <3>3. CASE ~(job[r].target < lo)
      <4>1. hi' = (IF job[r].target < hi THEN job[r].target ELSE hi)
            /\ lo' = lo /\ emptied' = emptied
        BY <1>1, <3>3 DEF RewindBlocks
      <4>2. lo <= hi' /\ hi' <= hi /\ hi' \in Int
        BY <1>0, <3>1, <3>3, <4>1
      <4> QED
        BY <1>0, <3>1, <4>1, <4>2, ServerAssumption DEF StoredHeights
    <3> QED
      BY <3>2, <3>3
  <2>3. ServerTypeOK'
    BY <1>1, <2>1, <2>2, Moves DEF RewindBlocks, IInv, ServerTypeOK, Places
  <2>4. DataHeld' /\ MemoryCurrent'
    BY <1>0, <1>1, <2>1, Moves DEF RewindBlocks, IInv, DataHeld, MemoryCurrent, Places, Scanning
  <2>5. Unpoisoned'
    BY <1>0, <1>1, <2>1, <2>2, MovesKeepCause DEF RewindBlocks, Scanning
  <2> QED
    BY <2>2, <2>3, <2>4, <2>5 DEF IInv
<1>2. CASE RewindPanics(r)
  BY <1>2, EndsKeeps DEF RewindPanics, IInv, ServerTypeOK, Unpoisoned, StoredHeights
<1>3. CASE RewindUtxos(r) /\ op[r] # "sync"
  BY <1>3, EndsCleanly DEF RewindUtxos, IInv, ServerTypeOK
<1>4. CASE RewindUtxos(r) /\ op[r] = "sync"
  <2>1. Goto(r, "range") /\ "range" \in Places
    BY <1>4 DEF RewindUtxos, Places
  <2>2. ServerTypeOK'
    BY <1>4, <2>1, Moves DEF RewindUtxos, IInv, ServerTypeOK, Places
  <2>3. DataHeld' /\ MemoryCurrent'
    BY <1>0, <1>4, <2>1, Moves DEF RewindUtxos, IInv, DataHeld, MemoryCurrent, Places, Scanning
  <2>5. Unpoisoned'
    BY <1>0, <1>4, <2>1, MovesKeepCause DEF RewindUtxos, Places, Scanning
  <2> QED
    BY <1>4, <2>2, <2>3, <2>5 DEF RewindUtxos, IInv, StoredHeights
<1> QED
  BY <1>1, <1>2, <1>3, <1>4

LEMMA NotifySteps ==
  ASSUME IInv, NEW r \in Request, Post(r) \/ NothingToPost(r) \/ ListenerAnswers(r)
  PROVE  IInv'
<1> USE DEF locks, stored, causes
<1>1. CASE Post(r)
  <2>1. /\ pc' \in [Request -> Places] /\ op' \in [Request -> Op]
        /\ \A s \in Request : pc'[s] \in Scanning => pc[s] \in Scanning
        /\ \A s \in Request : pc'[s] # "apply" \/ pc[s] = "apply"
        /\ \A s \in Request : pc[s] = "done" => pc'[s] = "done"
    <3>1. pc[r] = "notify" /\ pc \in [Request -> Places] /\ op \in [Request -> Op]
      BY <1>1 DEF Post, Locked, IInv, ServerTypeOK, Places
    <3>2. CASE Callback # NULL /\ pc[Callback] = "out"
      <4>1. /\ Callback \in Request
            /\ pc' = [[pc EXCEPT ![r] = "post"] EXCEPT ![Callback] = "queued"]
            /\ op' = [op EXCEPT ![Callback] = "balance"]
        BY <1>1, <3>2, ServerAssumption DEF Post
      <4> QED
        BY <3>1, <3>2, <4>1 DEF Places, Scanning, Op
    <3>3. CASE ~(Callback # NULL /\ pc[Callback] = "out")
      <4>1. pc' = [pc EXCEPT ![r] = "post"] /\ op' = op
        BY <1>1, <3>3 DEF Post
      <4> QED
        BY <3>1, <4>1 DEF Places, Scanning
    <3> QED
      BY <3>2, <3>3
  <2>2. ServerTypeOK'
    BY <1>1, <2>1 DEF Post, IInv, ServerTypeOK, Places
  <2>3. DataHeld' /\ MemoryCurrent'
    BY <1>1, <2>1 DEF Post, IInv, DataHeld, MemoryCurrent
  <2>4. Unpoisoned'
    BY <1>1, <2>1, CauseStays DEF Post
  <2> QED
    BY <1>1, <2>2, <2>3, <2>4 DEF Post, IInv, StoredHeights
<1>2. CASE NothingToPost(r)
  BY <1>2, EndsCleanly DEF NothingToPost, IInv, ServerTypeOK
<1>3. CASE ListenerAnswers(r)
  BY <1>3, EndsCleanly DEF ListenerAnswers, IInv, ServerTypeOK
<1> QED
  BY <1>1, <1>2, <1>3

LEMMA NextIInv == IInv /\ [Next]_vars => IInv'
<1> SUFFICES ASSUME IInv, [Next]_vars PROVE IInv'
  OBVIOUS
<1>1. ASSUME NEW r \in Request, Call(r) \/ Handle(r) PROVE IInv'
  BY <1>1, TaskSteps, SectionSteps, ScanSteps, RewindSteps, NotifySteps DEF Handle
<1> QED
  BY <1>1, StutterIInv DEF Next

LEMMA AlwaysIInv == Spec => []IInv
BY InitIInv, NextIInv, PTL DEF Spec

\* The requests, locks and tables keep their types.
THEOREM ServerTypeCorrect == Spec => []ServerTypeOK
<1>1. IInv => ServerTypeOK
  BY DEF IInv
<1> QED
  BY AlwaysIInv, <1>1, PTL

\* What a sync applies follows the stored tip, whatever other syncs, rewinds
\* and payments there are: data_mutex covers every section between its read of
\* the tip and its writes.
THEOREM MemoryAlwaysCurrent == Spec => []MemoryCurrent
<1>1. IInv => MemoryCurrent
  BY DEF IInv
<1> QED
  BY AlwaysIInv, <1>1, PTL

\* Whatever poisons the client mutex is an emptied blocks table, an unchecked
\* argument of a request that has ended, or an answer or a statement that broke
\* what an unwrap relies on: the locking and the order of calls never do.
THEOREM PoisonHasCause == Spec => []Unpoisoned
<1>1. IInv => Unpoisoned
  BY DEF IInv
<1> QED
  BY AlwaysIInv, <1>1, PTL

=============================================================================
