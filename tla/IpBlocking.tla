----------------------------- MODULE IpBlocking -----------------------------
(***************************************************************************)
(* IpBlockingRuntime of src/src/security/ip_blocking.rs: request tasks that *)
(* check and report client addresses, the manager task that promotes       *)
(* pending activations to durable blocks, and the state file they are      *)
(* loaded from and committed to (BlockStateFile).                          *)
(*                                                                         *)
(* The tables are total functions whose entries are all zero for an        *)
(* address that has none: both clocks start at 1.  "now" is the monotonic  *)
(* clock (Instant), "wall" the clock of the file (SystemTime).             *)
(***************************************************************************)
EXTENDS Naturals, FiniteSets

CONSTANTS
  IPs, Allow,          \* client addresses, and the ones of ip_allow
  Tasks,               \* request tasks
  Rules, Threshold, Window,
  Shards, ShardOf,     \* SHARDS and the hash of an address
  MaxTracked, MaxBlocked, MaxPending, BatchSize,
  Temporary, Block,    \* TEMPORARY_SECONDS and BLOCK_SECONDS
  TrackAge, SweepEvery, BackoffMax,
  CountMax,            \* u32::MAX
  Second,              \* clock ticks in a whole second
  Lag,                 \* longest time between two clock readings of a thread
  CommitBound,         \* longest time one transaction takes (environment)
  NoFile, Torn, Fallible,
  MaxTime, MaxWall, LastViolation, MaxRestarts, MaxSteps  \* bounds

ASSUME ConfigAssumption ==
  /\ Allow \subseteq IPs
  /\ IsFiniteSet(IPs) /\ IPs # {} /\ Rules # {}
  /\ Shards \in Nat \ {0}
  /\ ShardOf \in [IPs -> 0..(Shards - 1)]
  /\ Threshold \in [Rules -> Nat \ {0}]
  /\ Window \in [Rules -> Nat]
  /\ {MaxTracked, MaxBlocked, MaxPending, BatchSize} \subseteq Nat \ {0}
  /\ {TrackAge, SweepEvery, CommitBound, MaxTime, MaxWall} \subseteq Nat
  /\ {LastViolation, MaxRestarts, MaxSteps} \subseteq Nat
  /\ {BackoffMax, CountMax} \subseteq Nat \ {0}
  /\ {Temporary, Block, Second} \subseteq Nat \ {0}
  /\ Block % Second = 0
  /\ {NoFile, Torn} \cap [IPs -> [created : Nat, expires : Nat]] = {}
  /\ NoFile # Torn

\* A commit that outlasts the day-long block it writes is not considered.
ASSUME CommitAssumption ==
  /\ CommitBound + Temporary <= Block
  /\ Lag \in Nat /\ Lag <= CommitBound

VARIABLES
  now, wall,
  file, shadow, temp, left, orphan, wpc, buf,  \* the state file
  durable,     \* ArcSwap<BlockSnapshot>
  pending,     \* deadline of each pending activation
  temporary,   \* the published copy of those deadlines
  windows,     \* the violation counters of the tracked addresses
  accepting,
  shutdown,    \* the shutdown token is cancelled
  mpc,         \* where load, run_manager and persist_pending are
  first, lastSweep, retryAfter, backoff,       \* locals of run_manager
  roundAt, sweepDue,  \* now and sweep_due of the round of the loop
  batch,       \* the pending activations handed to the transaction
  txn,         \* candidate, consumed addresses and clock readings of a
               \* transaction, or of load
  tasks,
  restarts, steps

dvars == <<file, shadow, temp, left, orphan, wpc, buf>>
clocks == <<now, wall>>
locals == <<first, lastSweep, retryAfter, backoff>>
work == <<roundAt, sweepDue, batch, txn>>
bounds == <<restarts, steps>>
vars == <<clocks, dvars, durable, pending, temporary, windows, accepting,
          shutdown, mpc, locals, work, tasks, bounds>>

-----------------------------------------------------------------------------
\* unix_seconds, in the unit of the clocks: the file has whole seconds.
WholeSeconds(w) == Second * (w \div Second)

Monus(a, b) == IF a > b THEN a - b ELSE 0
Least(a, b) == IF a < b THEN a ELSE b
Most(a, b) == IF a > b THEN a ELSE b

NoRecord == [created |-> 0, expires |-> 0]
NoBlock == [deadline |-> 0, created |-> 0, expires |-> 0]
NoWindow == [seen |-> 0, rules |-> [r \in Rules |-> [since |-> 0, count |-> 0]]]
NoTable == [ip \in IPs |-> 0]
NoBlocks == [ip \in IPs |-> NoBlock]
EmptyTable == [ip \in IPs |-> NoRecord]
IdleTask == [pc |-> "idle", op |-> "check", ip |-> CHOOSE ip \in IPs : TRUE,
             rule |-> CHOOSE r \in Rules : TRUE, now |-> 0, until |-> 0]
NoTxn == [cand |-> NoBlocks, consumed |-> {}, at |-> 0, wall |-> 0]

BlockTable == [IPs -> [created : Nat, expires : Nat]]
Snapshot == [IPs -> [deadline : Nat, created : Nat, expires : Nat]]

Disk == INSTANCE BlockStateFile WITH Content <- BlockTable

Held == {ip \in IPs : durable[ip].deadline # 0}
Queued == {ip \in IPs : pending[ip] # 0}
Tracked(shard) == {ip \in IPs : windows[ip].seen # 0 /\ ShardOf[ip] = shard}
Running == mpc \notin {"down", "boot", "load"}
Looping == mpc \notin {"down", "boot", "load", "stopped"}
BlockedUntil(ip) == Most(durable[ip].deadline, temporary[ip])

\* The records that serialization keeps: the unexpired ones.
TableOf(blocks) ==
  [ip \in IPs |-> IF blocks[ip].deadline > now
                  THEN [created |-> blocks[ip].created,
                        expires |-> blocks[ip].expires]
                  ELSE NoRecord]

Listed(table) == {ip \in IPs : table[ip] # NoRecord}

-----------------------------------------------------------------------------
(* Request tasks *)

Capacity(shard) ==
  MaxTracked \div Shards + (IF shard < MaxTracked % Shards THEN 1 ELSE 0)

\* is_client_ip_blocked, up to the first of its two snapshot loads.
StartCheck(t, ip) ==
  /\ Running
  /\ tasks[t].pc = "idle"
  /\ ip \notin Allow
  /\ ~ durable[ip].deadline > now
  /\ tasks' = [tasks EXCEPT ![t] =
       [IdleTask EXCEPT !.pc = "load", !.ip = ip, !.now = now,
                        !.until = temporary[ip]]]
  /\ UNCHANGED <<clocks, dvars, durable, pending, temporary, windows,
                 accepting, shutdown, mpc, locals, work, bounds>>

\* record_client_protocol_violation, up to the same load.
StartViolation(t, ip, r) ==
  /\ Running
  /\ now <= LastViolation
  /\ tasks[t].pc = "idle"
  /\ ip \notin Allow
  /\ accepting
  /\ ~ durable[ip].deadline > now
  /\ tasks' = [tasks EXCEPT ![t] =
       [IdleTask EXCEPT !.pc = "load", !.op = "record", !.ip = ip,
                        !.rule = r, !.now = now]]
  /\ UNCHANGED <<clocks, dvars, durable, pending, temporary, windows,
                 accepting, shutdown, mpc, locals, work, bounds>>

\* The load of the temporary table.  A check ends with it.
LoadTemporary(t) ==
  /\ tasks[t].pc = "load"
  /\ tasks' = [tasks EXCEPT ![t] =
       IF tasks[t].op = "check" \/ temporary[tasks[t].ip] > tasks[t].now
       THEN IdleTask ELSE [@ EXCEPT !.pc = "count"]]
  /\ UNCHANGED <<clocks, dvars, durable, pending, temporary, windows,
                 accepting, shutdown, mpc, locals, work, bounds>>

\* The window entry after one more violation seen at time n.
Bumped(ip, r, n) ==
  LET entry == IF windows[ip].seen # 0 THEN windows[ip]
               ELSE [seen |-> n,
                     rules |-> [q \in Rules |-> [since |-> n, count |-> 0]]]
      start == IF Monus(n, entry.rules[r].since) >= Window[r]
               THEN [since |-> n, count |-> 0] ELSE entry.rules[r]
  IN  [seen |-> n,
       rules |-> [entry.rules EXCEPT ![r] =
                    [since |-> start.since,
                     count |-> Least(start.count + 1, CountMax)]]]

\* The block that holds the shard lock.
CountViolation(t) ==
  LET ip == tasks[t].ip
      r == tasks[t].rule
      full == /\ windows[ip].seen = 0
              /\ Cardinality(Tracked(ShardOf[ip])) >= Capacity(ShardOf[ip])
      bumped == Bumped(ip, r, tasks[t].now)
      crossed == bumped.rules[r].count >= Threshold[r]
  IN  /\ tasks[t].pc = "count"
      /\ windows' = IF full THEN windows ELSE [windows EXCEPT ![ip] = bumped]
      /\ tasks' = [tasks EXCEPT ![t] =
           IF full \/ ~ crossed THEN IdleTask ELSE [@ EXCEPT !.pc = "queue"]]
      /\ UNCHANGED <<clocks, dvars, durable, pending, temporary, accepting,
                     shutdown, mpc, locals, work, bounds>>

\* Mutant: one activation too many.
QueueOneMore(t) ==
  LET ip == tasks[t].ip
      refused == ip \in Queued \/ Cardinality(Queued) > MaxPending
  IN  /\ tasks[t].pc = "queue"
      /\ pending' = IF refused THEN pending
                    ELSE [pending EXCEPT ![ip] = tasks[t].now + Temporary]
      /\ temporary' = IF refused THEN temporary ELSE pending'
      /\ tasks' = [tasks EXCEPT ![t] = IdleTask]
      /\ UNCHANGED <<clocks, dvars, durable, windows, accepting, shutdown,
                     mpc, locals, work, bounds>>

\* The block that holds the pending lock, publish_temporary included.
QueuePending(t) ==
  LET ip == tasks[t].ip
      refused == ip \in Queued \/ Cardinality(Queued) >= MaxPending
  IN  /\ tasks[t].pc = "queue"
      /\ pending' = IF refused THEN pending
                    ELSE [pending EXCEPT ![ip] = tasks[t].now + Temporary]
      /\ temporary' = IF refused THEN temporary ELSE pending'
      /\ tasks' = [tasks EXCEPT ![t] = IdleTask]
      /\ UNCHANGED <<clocks, dvars, durable, windows, accepting, shutdown,
                     mpc, locals, work, bounds>>

TaskStep(t) ==
  \/ \E ip \in IPs : StartCheck(t, ip)
  \/ \E ip \in IPs, r \in Rules : StartViolation(t, ip, r)
  \/ LoadTemporary(t)
  \/ CountViolation(t)
  \/ QueuePending(t)
-----------------------------------------------------------------------------
(* IpBlockingRuntime::load and the start of run_manager *)

\* What the loader accepts.
Loadable(f) ==
  /\ f \notin {NoFile, Torn}
  /\ Cardinality(Listed(f)) <= MaxBlocked
  /\ \A ip \in Listed(f) : f[ip].expires = f[ip].created + Block

\* Mutant: a record from the future is not cut.
LoadedUncut(f, seen) ==
  [ip \in IPs |->
     LET ahead == Monus(f[ip].expires, seen)
     IN  IF ahead = 0 THEN NoBlock
         ELSE [deadline |-> now + ahead, created |-> f[ip].created,
               expires |-> f[ip].expires]]

\* The snapshot built from it, when the wall clock was seen at that second: a
\* record from the future is cut to Block.
Loaded(f, seen) ==
  [ip \in IPs |->
     LET ahead == Monus(f[ip].expires, seen)
     IN  CASE ahead = 0 -> NoBlock
           [] ahead > Block -> [deadline |-> now + Block, created |-> seen,
                                expires |-> seen + Block]
           [] OTHER -> [deadline |-> now + ahead, created |-> f[ip].created,
                        expires |-> f[ip].expires]]

\* The runtime is built and run_manager enters its loop.
StartUp(blocks) ==
  /\ mpc' = "select"
  /\ durable' = blocks
  /\ accepting' = TRUE
  /\ first' = TRUE
  /\ lastSweep' = now
  /\ retryAfter' = now
  /\ backoff' = 1
  /\ txn' = NoTxn
  /\ UNCHANGED <<clocks, pending, temporary, windows, shutdown, roundAt,
                 sweepDue, batch, tasks, bounds>>

\* The file is there and the wall clock read ...
Boot ==
  /\ mpc = "down"
  /\ file # NoFile
  /\ mpc' = "load"
  /\ txn' = [NoTxn EXCEPT !.at = now, !.wall = WholeSeconds(wall)]
  /\ UNCHANGED <<clocks, dvars, durable, pending, temporary, windows,
                 accepting, shutdown, locals, roundAt, sweepDue, batch, tasks,
                 bounds>>

\* ... and then the monotonic one, from which the deadlines of its records
\* count.
BootLoaded ==
  /\ mpc = "load"
  /\ Loadable(file)
  /\ StartUp(Loaded(file, txn.wall))
  /\ UNCHANGED dvars

\* No state file: an empty one is committed before anything else.
BootCreate ==
  /\ mpc = "down"
  /\ file = NoFile
  /\ Disk!BeginWrite
  /\ mpc' = "boot"
  /\ UNCHANGED <<clocks, durable, pending, temporary, windows, accepting,
                 shutdown, locals, work, tasks, bounds>>

BootCreated ==
  /\ mpc = "boot"
  /\ wpc = "ok"
  /\ Disk!EndWrite
  /\ StartUp(NoBlocks)

-----------------------------------------------------------------------------
(* The process dies or exits: its memory is gone. *)

Vanish ==
  /\ mpc' = "down"
  /\ durable' = NoBlocks
  /\ pending' = NoTable
  /\ temporary' = NoTable
  /\ windows' = [ip \in IPs |-> NoWindow]
  /\ accepting' = FALSE
  /\ shutdown' = FALSE
  /\ first' = TRUE
  /\ lastSweep' = 0
  /\ retryAfter' = 0
  /\ backoff' = 1
  /\ roundAt' = 0
  /\ sweepDue' = FALSE
  /\ batch' = {}
  /\ txn' = NoTxn
  /\ tasks' = [t \in Tasks |-> IdleTask]
  /\ UNCHANGED clocks

\* The empty state file could not be created: start-up fails.
BootFailed ==
  /\ mpc = "boot"
  /\ wpc = "err"
  /\ Disk!ProcessCrash
  /\ Vanish
  /\ UNCHANGED bounds

Exit ==
  /\ mpc = "stopped"
  /\ Disk!ProcessCrash
  /\ Vanish
  /\ UNCHANGED bounds

Crash ==
  /\ restarts < MaxRestarts
  /\ restarts' = restarts + 1
  /\ \/ mpc # "down" /\ Disk!ProcessCrash
     \/ Disk!PowerLoss
  /\ Vanish
  /\ UNCHANGED steps

-----------------------------------------------------------------------------
(* run_manager *)

\* A notification, or the timer that fires every 250 ms.
Wake ==
  /\ mpc = "select"
  /\ mpc' = "sweep"
  /\ roundAt' = now
  /\ sweepDue' = (Monus(now, lastSweep) >= SweepEvery)
  /\ UNCHANGED <<clocks, dvars, durable, pending, temporary, windows,
                 accepting, shutdown, locals, batch, txn, tasks, bounds>>

\* Mutant: entries are dropped one second early.
UnexpiredSoon(deadlines, n) ==
  [ip \in IPs |-> IF deadlines[ip] > n + 1 THEN deadlines[ip] ELSE 0]

Unexpired(deadlines, n) ==
  [ip \in IPs |-> IF deadlines[ip] > n THEN deadlines[ip] ELSE 0]

\* Mutant: only the windows are swept.
SweepWindows ==
  /\ mpc = "sweep"
  /\ mpc' = "decide"
  /\ windows' = IF sweepDue THEN [ip \in IPs |-> NoWindow] ELSE windows
  /\ lastSweep' = IF sweepDue THEN roundAt ELSE lastSweep
  /\ UNCHANGED <<clocks, dvars, durable, pending, temporary, accepting,
                 shutdown, first, retryAfter, backoff, work, tasks, bounds>>

\* The sweep of the windows, then of the pending activations.  The two sit
\* under different locks, and no task step touches both tables.
Sweep ==
  /\ mpc = "sweep"
  /\ mpc' = "decide"
  /\ windows' = IF sweepDue
                THEN [ip \in IPs |->
                        IF Monus(roundAt, windows[ip].seen) < TrackAge
                        THEN windows[ip] ELSE NoWindow]
                ELSE windows
  /\ lastSweep' = IF sweepDue THEN roundAt ELSE lastSweep
  /\ pending' = Unexpired(pending, roundAt)
  /\ temporary' = IF pending' # pending THEN pending' ELSE temporary
  /\ UNCHANGED <<clocks, dvars, durable, accepting, shutdown, first,
                 retryAfter, backoff, work, tasks, bounds>>

Decide ==
  /\ mpc = "decide"
  /\ mpc' = IF /\ roundAt >= retryAfter
               /\ Queued # {} \/ first \/ sweepDue
            THEN "gather" ELSE "select"
  /\ roundAt' = 0
  /\ sweepDue' = FALSE
  /\ UNCHANGED <<clocks, dvars, durable, pending, temporary, windows,
                 accepting, shutdown, locals, batch, txn, tasks, bounds>>

\* The loop ends; no new violation is recorded from here on.
SeeShutdown ==
  /\ mpc = "select"
  /\ shutdown
  /\ mpc' = "drain"
  /\ accepting' = FALSE
  /\ UNCHANGED <<clocks, dvars, durable, pending, temporary, windows,
                 shutdown, locals, work, tasks, bounds>>

\* Mutant: lapsed activations count as pending work.
DrainLapsed ==
  /\ mpc = "drain"
  /\ mpc' = IF pending = NoTable THEN "stopped" ELSE "gather"
  /\ UNCHANGED <<clocks, dvars, durable, pending, temporary, windows,
                 accepting, shutdown, locals, work, tasks, bounds>>

Drain ==
  /\ mpc = "drain"
  /\ pending' = Unexpired(pending, now)
  /\ temporary' = pending'
  /\ mpc' = IF pending' = NoTable THEN "stopped" ELSE "gather"
  /\ UNCHANGED <<clocks, dvars, durable, windows, accepting, shutdown,
                 locals, work, tasks, bounds>>

\* What the two callers of persist_pending do with Ok ...
Succeeded ==
  /\ IF accepting
     THEN /\ mpc' = "select"
          /\ first' = FALSE
          /\ backoff' = 1
          /\ retryAfter' = now
          /\ UNCHANGED lastSweep
     ELSE /\ mpc' = IF Cardinality(Held) >= MaxBlocked THEN "stopped"
                                                       ELSE "drain"
          /\ UNCHANGED locals
  /\ batch' = {}
  /\ txn' = NoTxn

\* ... and with Err.
Failed ==
  /\ IF accepting
     THEN /\ mpc' = "select"
          /\ retryAfter' = now + backoff
          /\ backoff' = Least(2 * backoff, BackoffMax)
          /\ UNCHANGED <<first, lastSweep>>
     ELSE /\ mpc' = "stopped"
          /\ UNCHANGED locals
  /\ batch' = {}
  /\ txn' = NoTxn

-----------------------------------------------------------------------------
(* persist_pending *)

\* The batch: the table is iterated in an order of its own.
Gather ==
  /\ mpc = "gather"
  /\ LET live == {ip \in IPs : pending[ip] > now}
     IN  batch' \in {b \in SUBSET live :
                       Cardinality(b) = Least(BatchSize, Cardinality(live))}
  /\ mpc' = "txn"
  /\ UNCHANGED <<clocks, dvars, durable, pending, temporary, windows,
                 accepting, shutdown, locals, roundAt, sweepDue, txn, tasks,
                 bounds>>

ForceCompaction == accepting /\ first
Kept == {ip \in IPs : durable[ip].deadline > now}

\* The transaction judges every deadline by the time it began, before it goes
\* on to read the wall clock.
ExpiredAt(n) == \E ip \in Held : durable[ip].deadline <= n
Retained == {ip \in IPs : durable[ip].deadline > txn.at}

\* Of the batch: what is settled already, and what is new.
Settled == {ip \in batch : pending[ip] > txn.at
                           /\ (ip \in Retained \/ ip \in Allow)}
Fresh == {ip \in batch : pending[ip] > txn.at /\ ip \notin Retained \cup Allow}
\* Mutant: the blocks in force are not counted.
RoomForAll == MaxBlocked

Room == Monus(MaxBlocked, Cardinality(Retained))

Candidate(added) ==
  [ip \in IPs |->
     IF ip \in added
     THEN [deadline |-> txn.at + Block, created |-> WholeSeconds(wall),
           expires |-> WholeSeconds(wall) + Block]
     ELSE IF ip \in Retained THEN durable[ip] ELSE NoBlock]

\* The early returns: nothing to do, and no room for what there is to do.
NothingToDo == batch = {} /\ ~ ExpiredAt(now) /\ ~ ForceCompaction

NoRoom ==
  /\ batch # {} /\ Cardinality(Held) >= MaxBlocked
  /\ ~ ExpiredAt(now) /\ ~ ForceCompaction

TxnNothing ==
  /\ mpc = "txn"
  /\ NothingToDo
  /\ Succeeded
  /\ UNCHANGED <<clocks, dvars, durable, pending, temporary, windows,
                 accepting, shutdown, roundAt, sweepDue, tasks, bounds>>

TxnFull ==
  /\ mpc = "txn"
  /\ NoRoom
  /\ Failed
  /\ UNCHANGED <<clocks, dvars, durable, pending, temporary, windows,
                 accepting, shutdown, roundAt, sweepDue, tasks, bounds>>

\* The monotonic clock is read; expired blocks are dropped.
TxnStart ==
  /\ mpc = "txn"
  /\ ~ NothingToDo /\ ~ NoRoom
  /\ mpc' = "build"
  /\ txn' = [NoTxn EXCEPT !.at = now]
  /\ UNCHANGED <<clocks, dvars, durable, pending, temporary, windows,
                 accepting, shutdown, locals, roundAt, sweepDue, batch, tasks,
                 bounds>>

\* The wall clock is read.  The loop over the batch stops at the first new
\* address without room, so that only some of the settled ones have been seen
\* by then.
TxnBuild(added, seen) ==
  LET overflow == Cardinality(Fresh) > Room
      commit == added # {} \/ ExpiredAt(txn.at) \/ ForceCompaction
  IN  /\ mpc = "build"
      /\ Cardinality(added) = Least(Room, Cardinality(Fresh))
      /\ overflow \/ seen = Settled
      /\ \/ /\ commit
            /\ Disk!BeginWrite
            /\ mpc' = "write"
            /\ txn' = [cand |-> Candidate(added), consumed |-> added \cup seen,
                       at |-> txn.at, wall |-> 0]
            /\ batch' = {}
            /\ UNCHANGED locals
         \/ /\ ~ commit /\ overflow /\ seen = {}
            /\ Failed
            /\ UNCHANGED dvars
         \/ /\ ~ commit /\ (~ overflow \/ seen # {})
            /\ mpc' = "consume"
            /\ txn' = [NoTxn EXCEPT !.consumed = seen]
            /\ batch' = {}
            /\ UNCHANGED <<dvars, locals>>
      /\ UNCHANGED <<clocks, durable, pending, temporary, windows, accepting,
                     shutdown, roundAt, sweepDue, tasks, bounds>>

\* persist_client_ip_blocklist_atomically, for the candidate or at start-up.
WriteFile ==
  /\ mpc \in {"boot", "write"}
  /\ \/ Disk!Serialize(IF mpc = "boot" THEN EmptyTable ELSE TableOf(txn.cand))
     \/ Disk!WriteStep
  /\ UNCHANGED <<clocks, durable, pending, temporary, windows, accepting,
                 shutdown, mpc, locals, work, tasks, bounds>>

\* Mutant: a failed commit consumes its batch.
WriteFailedConsuming ==
  /\ mpc = "write"
  /\ wpc = "err"
  /\ Disk!EndWrite
  /\ pending' = [ip \in IPs |-> IF ip \in txn.consumed THEN 0 ELSE pending[ip]]
  /\ temporary' = pending'
  /\ Failed
  /\ UNCHANGED <<clocks, durable, windows, accepting, shutdown, roundAt,
                 sweepDue, tasks, bounds>>

\* Mutant: a failed commit is put in force all the same.
WriteFailedStoring ==
  /\ mpc = "write"
  /\ wpc = "err"
  /\ Disk!EndWrite
  /\ durable' = txn.cand
  /\ Failed
  /\ UNCHANGED <<clocks, pending, temporary, windows, accepting, shutdown,
                 roundAt, sweepDue, tasks, bounds>>

WriteFailed ==
  /\ mpc = "write"
  /\ wpc = "err"
  /\ Disk!EndWrite
  /\ Failed
  /\ UNCHANGED <<clocks, durable, pending, temporary, windows, accepting,
                 shutdown, roundAt, sweepDue, tasks, bounds>>

\* durable.store, before any pending activation is consumed.
StoreDurable ==
  /\ mpc = "write"
  /\ wpc = "ok"
  /\ Disk!EndWrite
  /\ durable' = txn.cand
  /\ mpc' = "consume"
  /\ UNCHANGED <<clocks, pending, temporary, windows, accepting, shutdown,
                 locals, work, tasks, bounds>>

\* consume_pending and the return to the caller.  A check that has loaded the
\* durable table but not the temporary one will find the address in neither;
\* until is 0 from here on (a history variable).
ConsumePending ==
  /\ mpc = "consume"
  /\ pending' = [ip \in IPs |-> IF ip \in txn.consumed THEN 0 ELSE pending[ip]]
  /\ temporary' = IF txn.consumed = {} THEN temporary ELSE pending'
  /\ tasks' = [t \in Tasks |->
                 IF tasks[t].pc = "load" /\ tasks[t].ip \in txn.consumed
                 THEN [tasks[t] EXCEPT !.until = 0] ELSE tasks[t]]
  /\ Succeeded
  /\ UNCHANGED <<clocks, dvars, durable, windows, accepting, shutdown, roundAt,
                 sweepDue, bounds>>

PersistStep ==
  \/ Gather
  \/ TxnNothing
  \/ TxnFull
  \/ TxnStart
  \/ \E added \in SUBSET Fresh, seen \in SUBSET Settled : TxnBuild(added, seen)
  \/ WriteFile
  \/ WriteFailed
  \/ StoreDurable
  \/ ConsumePending

ManagerStep == Sweep \/ Decide \/ Drain \/ PersistStep

BootStep == Boot \/ BootLoaded \/ BootCreate \/ BootCreated \/ BootFailed

-----------------------------------------------------------------------------
(* The environment *)

Shutdown ==
  /\ Looping
  /\ restarts < MaxRestarts
  /\ restarts' = restarts + 1
  /\ ~ shutdown
  /\ shutdown' = TRUE
  /\ UNCHANGED <<clocks, dvars, durable, pending, temporary, windows,
                 accepting, mpc, locals, work, tasks, steps>>

Tick ==
  /\ now < MaxTime
  /\ mpc \in {"load", "build"} => now < txn.at + Lag
  /\ mpc = "write" => now < txn.at + CommitBound
  /\ now' = now + 1
  /\ wall' = wall + 1
  /\ UNCHANGED <<dvars, durable, pending, temporary, windows, accepting,
                 shutdown, mpc, locals, work, tasks, bounds>>

\* The wall clock is set, forwards or backwards.
ClockStep ==
  /\ steps < MaxSteps
  /\ steps' = steps + 1
  /\ wall' \in 1..MaxWall
  /\ UNCHANGED <<now, dvars, durable, pending, temporary, windows, accepting,
                 shutdown, mpc, locals, work, tasks, restarts>>

Init ==
  /\ now = 1
  /\ wall \in 1..Second
  /\ file = NoFile
  /\ shadow = {}
  /\ temp = "none"
  /\ left = 0
  /\ orphan = "None"
  /\ wpc = "free"
  /\ buf = NoFile
  /\ durable = NoBlocks
  /\ pending = NoTable
  /\ temporary = NoTable
  /\ windows = [ip \in IPs |-> NoWindow]
  /\ accepting = FALSE
  /\ shutdown = FALSE
  /\ mpc = "down"
  /\ first = TRUE
  /\ lastSweep = 0
  /\ retryAfter = 0
  /\ backoff = 1
  /\ roundAt = 0
  /\ sweepDue = FALSE
  /\ batch = {}
  /\ txn = NoTxn
  /\ tasks = [t \in Tasks |-> IdleTask]
  /\ restarts = 0
  /\ steps = 0

Next ==
  \/ BootStep
  \/ Wake \/ SeeShutdown \/ ManagerStep
  \/ \E t \in Tasks : TaskStep(t)
  \/ Shutdown \/ Exit \/ Crash
  \/ Tick \/ ClockStep

Spec == Init /\ [][Next]_vars

\* The runtime polls the manager and its blocking transaction, whose file
\* operations return; select! picks its ready branches in random order, so
\* that a cancelled token cannot lose against the timer for ever.
Fairness ==
  /\ WF_vars(Wake)
  /\ WF_vars(ManagerStep)
  /\ SF_vars(SeeShutdown)
  /\ WF_vars(Tick)

FairSpec == Spec /\ Fairness

-----------------------------------------------------------------------------
(* Properties *)

TableTypes ==
  /\ now \in Nat /\ wall \in Nat
  /\ durable \in Snapshot
  /\ pending \in [IPs -> Nat]
  /\ temporary \in [IPs -> Nat]

TaskTypes ==
  tasks \in [Tasks -> [pc : {"idle", "load", "count", "queue"},
                       op : {"check", "record"}, ip : IPs, rule : Rules,
                       now : Nat, until : Nat]]

WindowTypes ==
  windows \in [IPs -> [seen : Nat,
                       rules : [Rules -> [since : Nat, count : 0..CountMax]]]]

ManagerTypes ==
  /\ mpc \in {"down", "boot", "load", "select", "sweep", "decide", "gather",
              "txn", "build", "write", "consume", "drain", "stopped"}
  /\ lastSweep \in Nat /\ retryAfter \in Nat /\ backoff \in Nat
  /\ roundAt \in Nat
  /\ batch \subseteq IPs
  /\ txn \in [cand : Snapshot, consumed : SUBSET IPs, at : Nat, wall : Nat]
  /\ restarts \in Nat /\ steps \in Nat

Flags ==
  /\ accepting \in BOOLEAN /\ shutdown \in BOOLEAN
  /\ first \in BOOLEAN /\ sweepDue \in BOOLEAN

TypeOK ==
  TableTypes /\ TaskTypes /\ WindowTypes /\ ManagerTypes /\ Flags
  /\ Disk!DiskTypeOK

\* An address never becomes free before the time it was to be blocked until,
\* as long as the process lives: not while its activation moves from the
\* temporary table to the durable one, not when that fails, and not while the
\* manager drains (run_manager: "old snapshot retained; pending temporary
\* restriction").
NoEarlyRelease ==
  [][\A ip \in IPs : Running /\ Running' =>
       BlockedUntil(ip)' >= BlockedUntil(ip) \/ now' >= BlockedUntil(ip)]_vars

\* Why that is so.  The readers' copy is the pending table; a process that is
\* not up has no state.
Mirrored == temporary = pending

Quiet ==
  ~ Running => /\ pending = NoTable /\ durable = NoBlocks
               /\ \A t \in Tasks : tasks[t].pc = "idle"

\* A block in force outlasts a pending activation of the same address, and
\* one that a report in flight, blind to it, could still queue.
PendingCovered ==
  \A ip \in IPs : pending[ip] # 0 =>
    /\ ip \notin Allow
    /\ pending[ip] <= now + Temporary
    /\ ip \in Kept => durable[ip].deadline >= pending[ip]

ReportsCovered ==
  \A t \in Tasks : tasks[t].pc # "idle" =>
    /\ tasks[t].ip \notin Allow
    /\ tasks[t].now <= now
    /\ tasks[t].pc # "load" => tasks[t].op = "record"
    /\ tasks[t].op = "record" /\ tasks[t].ip \in Kept =>
         durable[tasks[t].ip].deadline >= tasks[t].now + Temporary

\* Two clock readings of a thread are close.
ReadingsClose ==
  mpc \in {"load", "build"} => txn.at <= now /\ now <= txn.at + Lag

\* What the manager took from the pending table stays there until it consumes
\* it, and was covered when the transaction began.
BatchCovered ==
  /\ mpc \in {"txn", "build"} => batch \subseteq Queued
  /\ mpc = "build" =>
       \A ip \in batch :
         /\ pending[ip] <= txn.at + Temporary
         /\ ip \in Retained => durable[ip].deadline >= pending[ip]

\* What is about to be stored keeps every block in force, and covers what is
\* then consumed.
CandidateCovers ==
  mpc = "write" =>
    /\ txn.at <= now /\ now <= txn.at + CommitBound
    /\ \A ip \in IPs :
         /\ txn.cand[ip].deadline \in {durable[ip].deadline, txn.at + Block, 0}
         /\ ip \in Kept => txn.cand[ip].deadline = durable[ip].deadline
    /\ \A ip \in txn.consumed :
         pending[ip] # 0 /\ txn.cand[ip].deadline >= pending[ip]

ConsumedCovered ==
  mpc = "consume" => \A ip \in txn.consumed :
    pending[ip] # 0 /\ durable[ip].deadline >= pending[ip]

PromotionInv ==
  /\ Mirrored /\ Quiet /\ PendingCovered /\ ReportsCovered
  /\ ReadingsClose /\ BatchCovered /\ CandidateCovers /\ ConsumedCovered
  /\ roundAt <= now

\* Every content the state file may have after a crash is one that the
\* loader of the next start accepts ("preserve file and repair offline").
DiskLoadable == \A f \in {file} \cup shadow : f = NoFile \/ Loadable(f)

\* A block in force is on disk, whatever a power loss takes back: in some
\* form from the start, and exactly as it is in force after the forced
\* compaction of the first round.
DurableSurvivesCrash ==
  Running => \A ip \in Kept :
    /\ file[ip].expires >= durable[ip].expires
    /\ ~ first => \A f \in {file} \cup shadow :
                    /\ f # NoFile
                    /\ f[ip] = [created |-> durable[ip].created,
                                expires |-> durable[ip].expires]

\* Without clock steps, a process started from any content the file may have
\* blocks every address until the time it is blocked until now, to within a
\* second and the time between two clock readings: the file has whole seconds
\* (unix_seconds), and each thread reads the two clocks one after the other.
\* The error is that of one restart however many there have been.
RestartKeepsBlocks ==
  (Running /\ steps = 0) => \A ip \in Kept :
    \A f \in {file} \cup (IF first THEN {} ELSE shadow) :
      LET again == Most(Loaded(f, WholeSeconds(wall))[ip].deadline, now)
      IN  /\ durable[ip].deadline < again + Second + Lag
          /\ again < durable[ip].deadline + Second + Lag

\* No crash, clock step or reload keeps an address for longer than a day
\* from now, and a failing disk for no longer than five minutes.
BoundedRestriction ==
  \A ip \in IPs : /\ durable[ip].deadline <= now + Block
                  /\ pending[ip] <= now + Temporary
                  /\ temporary[ip] <= now + Temporary

\* The bounds of the configuration hold in every table, for all tasks that
\* race to fill them; the shards together hold max_tracked_client_ips.  (TypeOK
\* has the bound of each counter.)
CapacityRespected ==
  /\ TypeOK
  /\ Cardinality(Held) <= MaxBlocked
  /\ Cardinality(Queued) <= MaxPending
  /\ Cardinality({ip \in IPs : windows[ip].seen # 0}) <= MaxTracked

\* The two snapshots are loaded one after the other: a check about to admit a
\* request although its address was under temporary restriction when it began
\* either sees that restriction lapse, or had it promoted to a durable block
\* between the two loads.  Nothing else lets a request through.
Admits(t) ==
  /\ tasks[t].pc = "load" /\ tasks[t].op = "check"
  /\ temporary[tasks[t].ip] <= tasks[t].now

AdmittedUnlessPromoted ==
  \A t \in Tasks : Admits(t) => tasks[t].until <= now

\* A pending activation does not stay: it is promoted, or it lapses, even if
\* the disk never works again.
PendingResolves ==
  \A ip \in IPs : pending[ip] # 0 ~> (pending[ip] = 0 \/ mpc = "stopped")

\* The manager ends once the token is cancelled, whatever is pending and
\* whatever the disk does.
ShutdownStops == shutdown ~> mpc \in {"stopped", "down"}
=============================================================================
