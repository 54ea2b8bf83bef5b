-------------------------------- MODULE Server --------------------------------
(***************************************************************************)
(* The server's concurrency: the handlers of bin/zams.rs as tasks on       *)
(* tokio's worker threads, data_mutex, the client mutex around the only    *)
(* connection, and where each handler takes and holds them.                *)
(*                                                                         *)
(* A handler that uses the database does so in sections under the client   *)
(* mutex.  A section that only talks to the database is one step; two keep *)
(* the mutex while they wait for somebody else: get_balance and            *)
(* broadcast_tx for zcashd ("outside"), notify_tx for the listener         *)
(* ("post").  A panic inside a section poisons the mutex, and every later  *)
(* lock().unwrap() panics.  sync and rewind first take data_mutex on the   *)
(* worker thread itself, outside block_in_place, so each that waits takes  *)
(* a worker out of service; its poisoning goes unnoticed, since the result *)
(* of lock() is not unwrapped and keeps the guard.                         *)
(*                                                                         *)
(* Of the tables only the range of stored heights is kept, and whether a   *)
(* notification is undelivered.  What zcashd answers (the tip, a block of  *)
(* another branch, an error) is a free choice: ScanChain has the details.  *)
(***************************************************************************)
EXTENDS Integers, FiniteSets

CONSTANTS
  NULL,
  Request,      \* calls that will be made
  Workers,      \* tokio's worker threads
  Callback,     \* the listener's own GetAccountBalance call, made before it
                \* answers the POST, or NULL
  Checkpoint,   \* the height loaded while setting up, 0 for none
  RewindDepth,  \* 10 in scan_chain
  RewindTo,     \* heights the Rewind RPC is called with
  MaxHeight,    \* bound: blocks
  MaxReorgs     \* bound: reorganisations a sync finds

ASSUME ServerAssumption ==
  /\ NULL \notin Request
  /\ Callback \in Request \cup {NULL}
  /\ Workers \in Nat \ {0}
  /\ RewindDepth \in Nat /\ MaxHeight \in Nat /\ MaxReorgs \in Nat
  /\ Checkpoint \in 0..MaxHeight
  /\ RewindTo \subseteq 0..MaxHeight

\* "info" is get_version, validate_address, estimate_fee and
\* get_current_height, which lock nothing; "query" is cancel_tx,
\* list_pending_payments, get_payment_info and new_account; "import" is
\* import_public_key and batch_new_accounts; "balance" is
\* get_account_balance and broadcast_signed_tx.
Op == {"info", "query", "prepare", "import", "balance", "sync", "rewind"}

\* The calls with an argument that nobody checks and that can make a section
\* panic: the date and the amount of a payment (adding to them overflows), a
\* key that does not decode or is not there, min_confirmations.
Unchecked == {"prepare", "import", "balance"}

VARIABLES
  op,           \* request |-> what it calls
  pc,           \* request |-> where its handler is
  job,          \* request |-> what a sync or rewind keeps in memory
  client,       \* the request that holds the client mutex while it waits
  poisoned,     \* the client mutex is poisoned
  data,         \* the request that holds data_mutex
  lo, hi,       \* heights in blocks, 0 when it is empty
  undelivered,  \* notifications has an undelivered row
  reorgs,       \* how many a sync has found
  emptied,      \* history: blocks has been empty
  unsound,      \* history: the requests that came with such an argument
  broken        \* history: a section met what its unwraps rule out

locks  == <<client, poisoned, data>>
stored == <<lo, hi, undelivered>>
causes == <<reorgs, emptied, unsound, broken>>
vars   == <<op, pc, job, locks, stored, causes>>

\* The next block to apply, the end of the range, the height to rewind to.
Job == [next : 1..(MaxHeight + 1), end : 1..(MaxHeight + 1),
        target : (0 - RewindDepth)..MaxHeight]

NoJob == [next |-> 1, end |-> 1, target |-> 0]

Init ==
  /\ op = [r \in Request |-> "info"]
  /\ pc = [r \in Request |-> "out"]
  /\ job = [r \in Request |-> NoJob]
  /\ client = NULL /\ poisoned = FALSE /\ data = NULL
  /\ lo = Checkpoint /\ hi = Checkpoint /\ undelivered = FALSE
  /\ reorgs = 0 /\ emptied = (Checkpoint = 0)
  /\ unsound = {} /\ broken = FALSE

Goto(r, next) == pc' = [pc EXCEPT ![r] = next]

\* The handler ends, by return, error or panic; its guards are dropped.
Finish(r) ==
  /\ pc' = [pc EXCEPT ![r] = "done"]
  /\ job' = [job EXCEPT ![r] = NoJob]
  /\ data' = IF data = r THEN NULL ELSE data

-----------------------------------------------------------------------------
(* Tasks *)

Call(r) ==
  /\ pc[r] = "out" /\ r # Callback
  /\ \E o \in Op :
       /\ op' = [op EXCEPT ![r] = o]
       /\ unsound' = unsound \/ (o \in Unchecked /\ unsound' = unsound \cup {r})
  /\ Goto(r, "queued")
  /\ UNCHANGED <<job, locks, stored, reorgs, emptied, broken>>

\* Tasks that wait for data_mutex keep the worker they run on;
\* block_in_place gives it up.
Blocked == {r \in Request : pc[r] = "data"}

Dispatch(r) ==
  /\ pc[r] = "queued" /\ Cardinality(Blocked) < Workers
  /\ Goto(r, CASE op[r] = "info" -> "done"
               [] op[r] \in {"sync", "rewind"} -> "data"
               [] OTHER -> "client")
  /\ UNCHANGED <<op, job, locks, stored, causes>>

\* The guard is bound to _ and dropped at once.
FaultyTakeData(r) ==
  /\ pc[r] = "data" /\ data = NULL
  /\ IF op[r] = "sync" THEN Goto(r, "range") /\ UNCHANGED job
     ELSE /\ Goto(r, "rewind")
          /\ \E to \in RewindTo : job' = [job EXCEPT ![r].target = to]
  /\ UNCHANGED <<op, client, poisoned, data, stored, causes>>

TakeData(r) ==
  /\ pc[r] = "data" /\ data = NULL
  /\ data' = r
  /\ IF op[r] = "sync" THEN Goto(r, "range") /\ UNCHANGED job
     ELSE /\ Goto(r, "rewind")
          /\ \E to \in RewindTo : job' = [job EXCEPT ![r].target = to]
  /\ UNCHANGED <<op, client, poisoned, stored, causes>>

-----------------------------------------------------------------------------
(* Sections under the client mutex *)

\* self.client.lock().unwrap()
Locked(r, place) == pc[r] = place /\ client = NULL /\ ~poisoned

\* The mutex was poisoned by an earlier panic.
LockPanics(r) ==
  /\ pc[r] \in {"client", "range", "fetch", "apply", "transparent",
                "rewind", "trprewind", "notify"}
  /\ client = NULL /\ poisoned
  /\ Finish(r)
  /\ UNCHANGED <<op, client, poisoned, stored, causes>>

\* get_payment_info unwraps the time since 1970 of a date that a payment was
\* stored with, and a date too large is stored as one long past.
Query(r) ==
  /\ Locked(r, "client") /\ op[r] = "query"
  /\ poisoned' \in {FALSE, (\E s \in unsound : op[s] = "prepare" /\ pc[s] = "done")}
  /\ Finish(r)
  /\ UNCHANGED <<op, client, stored, causes>>

\* The date and the amount are added to within the section, and prepare_tx
\* unwraps the anchor height of an empty blocks table.
Prepare(r) ==
  /\ Locked(r, "client") /\ op[r] = "prepare"
  /\ poisoned' \in {FALSE, hi = 0, (r \in unsound)}
  /\ Finish(r)
  /\ UNCHANGED <<op, client, stored, causes>>

\* Both handlers unwrap what import_address, import_fvk and generate_address
\* return.
Import(r) ==
  /\ Locked(r, "client") /\ op[r] = "import"
  /\ poisoned' \in {FALSE, (r \in unsound)}
  /\ Finish(r)
  /\ UNCHANGED <<op, client, stored, causes>>

AskZcashd(r) ==
  /\ Locked(r, "client") /\ op[r] = "balance"
  /\ client' = r
  /\ Goto(r, "outside")
  /\ UNCHANGED <<op, job, poisoned, data, stored, causes>>

\* get_account_balance unwraps the answer within the section.
FaultyZcashdAnswers(r) ==
  /\ pc[r] = "outside"
  /\ client' = NULL
  /\ poisoned' \in BOOLEAN
  /\ Finish(r)
  /\ UNCHANGED <<op, stored, causes>>

\* An answer, an error message or none: get_account_balance unwraps its result
\* outside the section, but subtracts min_confirmations within it.
ZcashdAnswers(r) ==
  /\ pc[r] = "outside"
  /\ client' = NULL
  /\ poisoned' \in {FALSE, (r \in unsound)}
  /\ Finish(r)
  /\ UNCHANGED <<op, stored, causes>>

\* A section panics on what it was not written for: an answer of zcashd
\* without a field it should have, be it at once or when the scan reads it, a
\* statement that the database refuses under an unwrap, or a process that
\* cannot start one more tokio runtime.
SectionBreaks(r) ==
  /\ \/ pc[r] = "outside"
     \/ Locked(r, "client") /\ op[r] = "import"
     \/ Locked(r, "fetch") \/ Locked(r, "transparent")
     \/ Locked(r, "notify") /\ undelivered
  /\ client' = NULL
  /\ poisoned' = TRUE /\ broken' = TRUE
  /\ Finish(r)
  /\ UNCHANGED <<op, stored, reorgs, emptied, unsound>>

-----------------------------------------------------------------------------
(* scan_chain and rewind_to_height *)

\* Keeps the guard it took for reading the extrema.
FaultyGetScanRange(r) ==
  /\ Locked(r, "range")
  /\ client' = r
  /\ \E tip \in Checkpoint..MaxHeight :
       IF tip <= hi THEN Goto(r, "notify") /\ UNCHANGED job
       ELSE /\ job' = [job EXCEPT ![r].end = tip + 1,
                                  ![r].target = hi + 1 - RewindDepth]
            /\ Goto(r, "fetch")
  /\ UNCHANGED <<op, poisoned, data, stored, causes>>

\* A reorganisation found in this range rewinds to range.start - 10.
GetScanRange(r) ==
  /\ Locked(r, "range")
  /\ \E tip \in Checkpoint..MaxHeight :
       IF tip <= hi THEN Goto(r, "notify") /\ UNCHANGED job
       ELSE /\ job' = [job EXCEPT ![r].end = tip + 1,
                                  ![r].target = hi + 1 - RewindDepth]
            /\ Goto(r, "fetch")
  /\ UNCHANGED <<op, locks, stored, causes>>

\* scan_sapling reads the stored tip itself; what it fetches follows it.
Fetch(r) ==
  /\ Locked(r, "fetch")
  /\ job' = [job EXCEPT ![r].next = hi + 1]
  /\ Goto(r, "apply")
  /\ UNCHANGED <<op, locks, stored, causes>>

\* A fetched block does not follow the stored one.
Reorg(r) ==
  /\ Locked(r, "fetch") \/ Locked(r, "transparent")
  /\ hi # 0 /\ reorgs < MaxReorgs
  /\ reorgs' = reorgs + 1
  /\ Goto(r, "rewind")
  /\ UNCHANGED <<op, job, locks, stored, emptied, unsound, broken>>

\* Takes end for the last block.
FaultyApplyBlock(r) ==
  /\ Locked(r, "apply") /\ job[r].next <= job[r].end
  /\ hi' = job[r].next
  /\ lo' = IF hi = 0 THEN job[r].next ELSE lo
  /\ undelivered' \in {undelivered, TRUE}
  /\ job' = [job EXCEPT ![r].next = @ + 1]
  /\ UNCHANGED <<op, pc, locks, causes>>

ApplyBlock(r) ==
  /\ Locked(r, "apply") /\ job[r].next < job[r].end
  /\ hi' = job[r].next
  /\ lo' = IF hi = 0 THEN job[r].next ELSE lo
  /\ undelivered' \in {undelivered, TRUE}
  /\ job' = [job EXCEPT ![r].next = @ + 1]
  /\ UNCHANGED <<op, pc, locks, causes>>

Applied(r) ==
  /\ pc[r] = "apply" /\ job[r].next >= job[r].end
  /\ Goto(r, "transparent")
  /\ UNCHANGED <<op, job, locks, stored, causes>>

ScanTransparent(r) ==
  /\ Locked(r, "transparent")
  /\ undelivered' \in {undelivered, TRUE}
  /\ Goto(r, "range")
  /\ UNCHANGED <<op, job, locks, lo, hi, causes>>

\* An RPC to zcashd fails, or a block is rolled back and with_row(cb).unwrap()
\* panics: both outside the sections.
SyncFails(r) ==
  /\ pc[r] \in {"range", "fetch", "apply", "transparent"}
  /\ Finish(r)
  /\ UNCHANGED <<op, client, poisoned, stored, causes>>

RewindBlocks(r) ==
  /\ Locked(r, "rewind") /\ hi # 0
  /\ IF job[r].target < lo THEN lo' = 0 /\ hi' = 0 /\ emptied' = TRUE
     ELSE /\ hi' = IF job[r].target < hi THEN job[r].target ELSE hi
          /\ UNCHANGED <<lo, emptied>>
  /\ Goto(r, "trprewind")
  /\ UNCHANGED <<op, job, locks, undelivered, reorgs, unsound, broken>>

\* MAX(height) of an empty table is NULL, and row.get panics.
RewindPanics(r) ==
  /\ Locked(r, "rewind") /\ hi = 0
  /\ poisoned' = TRUE
  /\ Finish(r)
  /\ UNCHANGED <<op, client, stored, causes>>

RewindUtxos(r) ==
  /\ Locked(r, "trprewind")
  /\ IF op[r] = "sync" THEN Goto(r, "range") /\ UNCHANGED <<job, data>>
     ELSE Finish(r)
  /\ UNCHANGED <<op, client, poisoned, stored, causes>>

\* notify_tx: the POST goes out; the listener may call back.
Post(r) ==
  /\ Locked(r, "notify") /\ undelivered
  /\ client' = r
  /\ LET posting == [pc EXCEPT ![r] = "post"] IN
     IF Callback # NULL /\ pc[Callback] = "out"
     THEN /\ pc' = [posting EXCEPT ![Callback] = "queued"]
          /\ op' = [op EXCEPT ![Callback] = "balance"]
     ELSE pc' = posting /\ UNCHANGED op
  /\ UNCHANGED <<job, poisoned, data, stored, causes>>

NothingToPost(r) ==
  /\ Locked(r, "notify") /\ ~undelivered
  /\ Finish(r)
  /\ UNCHANGED <<op, client, poisoned, stored, causes>>

\* The listener answers, with success or without, once its own call has been
\* answered; there is no timeout.
ListenerAnswers(r) ==
  /\ pc[r] = "post"
  /\ Callback # NULL => pc[Callback] = "done"
  /\ undelivered' \in BOOLEAN
  /\ client' = NULL
  /\ Finish(r)
  /\ UNCHANGED <<op, poisoned, lo, hi, causes>>

-----------------------------------------------------------------------------
Handle(r) ==
  \/ Dispatch(r) \/ TakeData(r) \/ LockPanics(r)
  \/ Query(r) \/ Prepare(r) \/ Import(r) \/ AskZcashd(r) \/ ZcashdAnswers(r)
  \/ SectionBreaks(r)
  \/ GetScanRange(r) \/ Fetch(r) \/ Reorg(r) \/ ApplyBlock(r) \/ Applied(r)
  \/ ScanTransparent(r) \/ SyncFails(r)
  \/ RewindBlocks(r) \/ RewindPanics(r) \/ RewindUtxos(r)
  \/ Post(r) \/ NothingToPost(r) \/ ListenerAnswers(r)

Next == \E r \in Request : Call(r) \/ Handle(r)

Spec == Init /\ [][Next]_vars

\* Threads that can run do, and zcashd and the listener answer.
FairSpec == Spec /\ \A r \in Request : WF_vars(Handle(r))

-----------------------------------------------------------------------------
(* Properties *)

\* Requests, locks and tables have their types.
ServerTypeOK ==
  /\ op \in [Request -> Op]
  /\ pc \in [Request -> {"out", "queued", "data", "client", "outside", "range",
                         "fetch", "apply", "transparent", "rewind", "trprewind",
                         "notify", "post", "done"}]
  /\ job \in [Request -> Job]
  /\ client \in Request \cup {NULL} /\ data \in Request \cup {NULL}
  /\ poisoned \in BOOLEAN /\ undelivered \in BOOLEAN
  /\ lo \in 0..MaxHeight /\ hi \in 0..MaxHeight
  /\ reorgs \in 0..MaxReorgs /\ emptied \in BOOLEAN
  /\ unsound \subseteq Request /\ broken \in BOOLEAN

\* A sync applies each block right above the stored tip, although it read the
\* tip sections ago and other syncs, rewinds and payments run between them.
MemoryCurrent == \A r \in Request : pc[r] = "apply" => job[r].next = hi + 1

\* A panic in a section takes the server down for good, and it takes one of
\* three causes: a rewind has emptied the blocks table, a request that has
\* ended came with an argument nobody checks, or the world outside broke its
\* word.  No order of sound calls does it, no error answer of zcashd, no
\* reorganisation, no sync that fails and no listener.
Unpoisoned ==
  poisoned => emptied \/ broken \/ \E r \in unsound : pc[r] = "done"

\* Every call is answered, or its handler panics: none waits for ever, also
\* when every worker thread waits for data_mutex.
Answered == \A r \in Request : pc[r] = "queued" ~> pc[r] = "done"

\* A POST ends, and with it what waits for the client mutex.
PostEnds == \A r \in Request : pc[r] = "post" ~> pc[r] = "done"

=============================================================================
