-------------------------- MODULE IpBlockingProofs --------------------------
(* Theorems about IpBlocking, for any addresses, tasks, rules and limits.  *)
EXTENDS IpBlocking, FiniteSetTheorems, WellFoundedInduction, TLAPS

-----------------------------------------------------------------------------
(* Types *)

LEMMA IdleTaskType ==
  IdleTask \in [pc : {"idle", "load", "count", "queue"},
                op : {"check", "record"}, ip : IPs, rule : Rules,
                now : Nat, until : Nat]
BY ConfigAssumption DEF IdleTask

LEMMA NoBlocksType == NoBlocks \in Snapshot
BY DEF NoBlocks, NoBlock, Snapshot

LEMMA NoTableType == NoTable \in [IPs -> Nat]
BY DEF NoTable

\* Whole seconds lag behind by less than one.
LEMMA Seconds ==
  ASSUME NEW w \in Nat
  PROVE  /\ WholeSeconds(w) \in Nat
         /\ WholeSeconds(w) <= w /\ w < WholeSeconds(w) + Second
         /\ WholeSeconds(w) <= WholeSeconds(w + 1)
<1>0. Second \in Nat \ {0}
      BY ConfigAssumption
<1>1. ASSUME NEW v \in Nat
      PROVE  /\ v \div Second \in Nat /\ Second * (v \div Second) \in Nat
             /\ Second * (v \div Second) <= v
             /\ v < Second * (v \div Second) + Second
  <2>1. /\ v \div Second \in Int /\ v % Second \in Nat /\ v % Second < Second
        /\ v = Second * (v \div Second) + (v % Second)
        BY <1>0
  <2>2. v \div Second >= 0
        BY <1>0, <2>1
  <2> DEFINE q == v \div Second
             r == v % Second
  <2>3. q \in Nat /\ r \in Nat /\ r < Second /\ v = Second * q + r
        BY <2>1, <2>2
  <2> HIDE DEF q, r
  <2>4. Second * q \in Nat
        BY <1>0, <2>3
  <2>5. Second * q <= v /\ v < Second * q + Second
        BY <1>0, <2>3, <2>4
  <2>6. QED
        BY <2>3, <2>4, <2>5 DEF q
<1>2. Second * (w \div Second) <= Second * ((w + 1) \div Second)
  <2> DEFINE p == w \div Second
             q == (w + 1) \div Second
  <2>1. /\ p \in Nat /\ q \in Nat
        /\ Second * p <= w /\ w + 1 < Second * q + Second
        BY <1>1
  <2> HIDE DEF p, q
  <2>2. CASE p <= q
    <3>1. PICK d \in Nat : q = p + d
      <4>1. q - p \in Nat /\ q = p + (q - p)
            BY <2>1, <2>2
      <4>2. QED
            BY <4>1
    <3>2. Second * q = Second * p + Second * d /\ Second * d \in Nat
          /\ Second * p \in Nat /\ Second * q \in Nat
          BY <1>0, <2>1, <3>1
    <3>3. Second * p <= Second * q
          BY <3>2
    <3>4. QED
          BY <3>3 DEF p, q
  <2>3. CASE p >= q + 1
    <3>1. PICK d \in Nat : p = q + 1 + d
      <4>1. p - (q + 1) \in Nat /\ p = q + 1 + (p - (q + 1))
            BY <2>1, <2>3
      <4>2. QED
            BY <4>1
    <3>2. Second * p = Second * q + Second + Second * d /\ Second * d \in Nat
          /\ Second * q \in Nat /\ Second * p \in Nat
          BY <1>0, <2>1, <3>1
    <3>3. FALSE
          BY <1>0, <2>1, <3>2
    <3>4. QED
          BY <3>3
  <2>4. p <= q \/ p >= q + 1
        BY <2>1
  <2>5. QED
        BY <2>2, <2>3, <2>4 DEF p, q
<1>3. QED
      BY <1>1, <1>2 DEF WholeSeconds

LEMMA LoadedType ==
  ASSUME now \in Nat, NEW seen \in Nat, NEW f \in BlockTable
  PROVE  Loaded(f, seen) \in Snapshot
<1>1. ASSUME NEW ip \in IPs
      PROVE  Loaded(f, seen)[ip] \in [deadline : Nat, created : Nat, expires : Nat]
  <2>1. f[ip].created \in Nat /\ f[ip].expires \in Nat
        BY DEF BlockTable
  <2>2. Monus(f[ip].expires, seen) \in Nat
        BY <2>1 DEF Monus
  <2>3. Block \in Nat
        BY ConfigAssumption
  <2>4. QED
        BY <2>1, <2>2, <2>3 DEF Loaded, NoBlock
<1>2. QED
      BY <1>1 DEF Loaded, Snapshot

LEMMA CandidateType ==
  ASSUME TableTypes, ManagerTypes, NEW added \in SUBSET IPs
  PROVE  Candidate(added) \in Snapshot
<1>1. Block \in Nat /\ WholeSeconds(wall) \in Nat /\ txn.at \in Nat
      BY ConfigAssumption, Seconds DEF TableTypes, ManagerTypes
<1>2. QED
      BY <1>1 DEF Candidate, Snapshot, NoBlock, TableTypes

LEMMA TableOfType ==
  ASSUME NEW blocks \in Snapshot
  PROVE  TableOf(blocks) \in BlockTable
BY DEF TableOf, Snapshot, BlockTable, NoRecord

LEMMA TableStep == TypeOK /\ [Next]_vars => TableTypes'
<1> SUFFICES ASSUME TypeOK, [Next]_vars PROVE TableTypes'
    OBVIOUS
<1>0. /\ now \in Nat /\ wall \in Nat /\ durable \in Snapshot
      /\ pending \in [IPs -> Nat] /\ temporary \in [IPs -> Nat]
      BY DEF TypeOK, TableTypes
<1> USE DEF TableTypes, clocks
<1>1. CASE BootLoaded
  <2>1. file \in BlockTable
        BY <1>1 DEF BootLoaded, Loadable, TypeOK, Disk!DiskTypeOK
  <2>a. txn.wall \in Nat
        BY DEF TypeOK, ManagerTypes
  <2>2. QED
        BY <1>0, <1>1, <2>1, <2>a, LoadedType DEF BootLoaded, StartUp
<1>2. CASE BootCreated
      BY <1>0, <1>2, NoBlocksType DEF BootCreated, StartUp
<1>3. CASE Vanish
      BY <1>0, <1>3, NoBlocksType, NoTableType DEF Vanish
<1>4. CASE Sweep
      BY <1>0, <1>4 DEF Sweep, Unexpired
<1>5. CASE Drain
      BY <1>0, <1>5 DEF Drain, Unexpired
<1>6. CASE StoreDurable
      BY <1>0, <1>6 DEF StoreDurable, TypeOK, ManagerTypes
<1>7. CASE ConsumePending
      BY <1>0, <1>7 DEF ConsumePending
<1>8. ASSUME NEW t \in Tasks, QueuePending(t) PROVE TableTypes'
  <2>1. tasks[t].now + Temporary \in Nat /\ tasks[t].ip \in IPs
        BY ConfigAssumption DEF TypeOK, TaskTypes
  <2>2. pending' \in [IPs -> Nat]
        BY <1>0, <1>8, <2>1 DEF QueuePending
  <2>3. QED
        BY <1>0, <1>8, <2>2 DEF QueuePending
<1>9. CASE Tick
      BY <1>0, <1>9 DEF Tick
<1>10. CASE ClockStep
  <2>1. wall' \in Nat
        BY <1>10, ConfigAssumption DEF ClockStep
  <2>2. QED
        BY <1>0, <1>10, <2>1 DEF ClockStep
<1>11. CASE UNCHANGED <<clocks, durable, pending, temporary>>
      BY <1>0, <1>11
<1>12. QED
      BY <1>1, <1>2, <1>3, <1>4, <1>5, <1>6, <1>7, <1>8, <1>9, <1>10, <1>11
      DEF Next, BootStep, Boot, BootCreate, BootFailed, Exit, Crash, ManagerStep,
          PersistStep, TaskStep, StartCheck, StartViolation, LoadTemporary,
          CountViolation, Wake, SeeShutdown, Decide, Gather, TxnNothing,
          TxnFull, TxnStart, TxnBuild, WriteFile, WriteFailed, Shutdown, vars

LEMMA TaskStepTypes == TypeOK /\ [Next]_vars => TaskTypes'
<1> SUFFICES ASSUME TypeOK, [Next]_vars PROVE TaskTypes'
    OBVIOUS
<1>0. TaskTypes /\ now \in Nat /\ temporary \in [IPs -> Nat]
      BY DEF TypeOK, TableTypes
<1> USE DEF TaskTypes
<1>1. CASE Vanish
      BY <1>0, <1>1, IdleTaskType DEF Vanish
<1>2. ASSUME NEW t \in Tasks, NEW ip \in IPs, StartCheck(t, ip)
      PROVE  TaskTypes'
      BY <1>0, <1>2, IdleTaskType DEF StartCheck
<1>3. ASSUME NEW t \in Tasks, NEW ip \in IPs, NEW r \in Rules,
             StartViolation(t, ip, r)
      PROVE  TaskTypes'
      BY <1>0, <1>3, IdleTaskType DEF StartViolation
<1>4. ASSUME NEW t \in Tasks, LoadTemporary(t) PROVE TaskTypes'
      BY <1>0, <1>4, IdleTaskType DEF LoadTemporary
<1>5. ASSUME NEW t \in Tasks, CountViolation(t) PROVE TaskTypes'
      BY <1>0, <1>5, IdleTaskType DEF CountViolation
<1>6. ASSUME NEW t \in Tasks, QueuePending(t) PROVE TaskTypes'
      BY <1>0, <1>6, IdleTaskType DEF QueuePending
<1>7. CASE ConsumePending
      BY <1>0, <1>7 DEF ConsumePending
<1>8. CASE UNCHANGED tasks
      BY <1>0, <1>8
<1>9. QED
      BY <1>1, <1>2, <1>3, <1>4, <1>5, <1>6, <1>7, <1>8
      DEF Next, BootStep, Boot, BootLoaded, StartUp, BootCreate, BootCreated, BootFailed,
          Exit, Crash, ManagerStep, PersistStep, TaskStep, Wake, SeeShutdown,
          Sweep, Decide, Drain, Gather, TxnNothing, TxnFull, TxnStart, TxnBuild,
          WriteFile, WriteFailed, StoreDurable, Shutdown, Tick, ClockStep, vars

LEMMA WindowStep == TypeOK /\ [Next]_vars => WindowTypes'
<1> SUFFICES ASSUME TypeOK, [Next]_vars PROVE WindowTypes'
    OBVIOUS
<1>0. WindowTypes
      BY DEF TypeOK
<1>a. CountMax \in Nat /\ CountMax # 0
      BY ConfigAssumption
<1>b. NoWindow \in [seen : Nat,
                    rules : [Rules -> [since : Nat, count : 0..CountMax]]]
      BY <1>a DEF NoWindow
<1>1. CASE Vanish
      BY <1>b, <1>1 DEF Vanish, WindowTypes
<1>2. CASE Sweep
      BY <1>0, <1>b, <1>2 DEF Sweep, WindowTypes
<1>3. ASSUME NEW t \in Tasks, CountViolation(t) PROVE WindowTypes'
  <2> DEFINE ip == tasks[t].ip
             r == tasks[t].rule
             n == tasks[t].now
             entry == IF windows[ip].seen # 0 THEN windows[ip]
                      ELSE [seen |-> n,
                            rules |-> [q \in Rules |-> [since |-> n, count |-> 0]]]
             start == IF Monus(n, entry.rules[r].since) >= Window[r]
                      THEN [since |-> n, count |-> 0] ELSE entry.rules[r]
  <2>1. ip \in IPs /\ r \in Rules /\ n \in Nat
        BY DEF TypeOK, TaskTypes
  <2>2. entry \in [seen : Nat,
                   rules : [Rules -> [since : Nat, count : 0..CountMax]]]
        BY <1>0, <1>a, <2>1 DEF WindowTypes
  <2>3. start \in [since : Nat, count : 0..CountMax]
        BY <1>a, <2>1, <2>2
  <2> HIDE DEF entry, start
  <2>4. Least(start.count + 1, CountMax) \in 0..CountMax
        BY <1>a, <2>3 DEF Least
  <2>5. Bumped(ip, r, n) \in [seen : Nat,
          rules : [Rules -> [since : Nat, count : 0..CountMax]]]
    <3>1. Bumped(ip, r, n) =
            [seen |-> n,
             rules |-> [entry.rules EXCEPT ![r] =
               [since |-> start.since, count |-> Least(start.count + 1, CountMax)]]]
          BY DEF Bumped, entry, start
    <3>2. QED
          BY <2>1, <2>2, <2>3, <2>4, <3>1
  <2>6. windows' = windows \/ windows' = [windows EXCEPT ![ip] = Bumped(ip, r, n)]
        BY <1>3 DEF CountViolation
  <2>7. QED
        BY <1>0, <2>1, <2>5, <2>6 DEF WindowTypes
<1>4. CASE UNCHANGED windows
      BY <1>0, <1>4 DEF WindowTypes
<1>5. QED
      BY <1>1, <1>2, <1>3, <1>4
      DEF Next, BootStep, Boot, BootLoaded, StartUp, BootCreate, BootCreated, BootFailed,
          Exit, Crash, ManagerStep, PersistStep, TaskStep, StartCheck,
          StartViolation, LoadTemporary, QueuePending, Wake, SeeShutdown,
          Decide, Drain, Gather, TxnNothing, TxnFull, TxnStart, TxnBuild, WriteFile,
          WriteFailed, StoreDurable, ConsumePending, Shutdown, Tick,
          ClockStep, vars

LEMMA FlagStep == TypeOK /\ [Next]_vars => Flags'
<1> SUFFICES ASSUME Flags, [Next]_vars PROVE Flags'
    BY DEF TypeOK
<1>1. accepting' \in BOOLEAN
      BY DEF Next, BootStep, Boot, BootLoaded, StartUp, BootCreate, BootCreated, BootFailed,
          Exit, Crash, Vanish, ManagerStep, PersistStep, TaskStep, StartCheck,
          StartViolation, LoadTemporary, CountViolation, QueuePending, Wake,
          SeeShutdown, Sweep, Decide, Drain, Gather, TxnNothing, TxnFull, TxnStart,
          TxnBuild, Succeeded, Failed, WriteFile, WriteFailed, StoreDurable,
          ConsumePending, Shutdown, Tick, ClockStep, vars, locals, work, Flags
<1>2. shutdown' \in BOOLEAN
      BY DEF Next, BootStep, Boot, BootLoaded, StartUp, BootCreate, BootCreated, BootFailed,
          Exit, Crash, Vanish, ManagerStep, PersistStep, TaskStep, StartCheck,
          StartViolation, LoadTemporary, CountViolation, QueuePending, Wake,
          SeeShutdown, Sweep, Decide, Drain, Gather, TxnNothing, TxnFull, TxnStart,
          TxnBuild, Succeeded, Failed, WriteFile, WriteFailed, StoreDurable,
          ConsumePending, Shutdown, Tick, ClockStep, vars, locals, work, Flags
<1>3. first' \in BOOLEAN
      BY DEF Next, BootStep, Boot, BootLoaded, StartUp, BootCreate, BootCreated, BootFailed,
          Exit, Crash, Vanish, ManagerStep, PersistStep, TaskStep, StartCheck,
          StartViolation, LoadTemporary, CountViolation, QueuePending, Wake,
          SeeShutdown, Sweep, Decide, Drain, Gather, TxnNothing, TxnFull, TxnStart,
          TxnBuild, Succeeded, Failed, WriteFile, WriteFailed, StoreDurable,
          ConsumePending, Shutdown, Tick, ClockStep, vars, locals, work, Flags
<1>4. sweepDue' \in BOOLEAN
  <2>1. CASE Wake
    <3>1. sweepDue' = (Monus(now, lastSweep) >= SweepEvery)
          BY <2>1 DEF Wake
    <3>2. (Monus(now, lastSweep) >= SweepEvery) \in BOOLEAN
          BY SMT
    <3>3. QED
          BY <3>1, <3>2, Zenon
  <2>2. CASE ~ Wake
        BY <2>2 DEF Next, BootStep, Boot, BootLoaded, StartUp, BootCreate, BootCreated, BootFailed,
            Exit, Crash, Vanish, ManagerStep, PersistStep, TaskStep, StartCheck,
            StartViolation, LoadTemporary, CountViolation, QueuePending,
            SeeShutdown, Sweep, Decide, Drain, Gather, TxnNothing, TxnFull, TxnStart,
            TxnBuild, Succeeded, Failed, WriteFile, WriteFailed, StoreDurable,
            ConsumePending, Shutdown, Tick, ClockStep, vars, locals, work, Flags
  <2>3. QED
        BY <2>1, <2>2
<1>5. QED
      BY <1>1, <1>2, <1>3, <1>4 DEF Flags

LEMMA ManagerStepTypes == TypeOK /\ [Next]_vars => ManagerTypes'
<1> SUFFICES ASSUME TypeOK, [Next]_vars PROVE ManagerTypes'
    OBVIOUS
<1>0. ManagerTypes /\ TableTypes
      BY DEF TypeOK
<1>a. NoTxn \in [cand : Snapshot, consumed : SUBSET IPs, at : Nat, wall : Nat]
      BY NoBlocksType DEF NoTxn
<1>b. BackoffMax \in Nat
      BY ConfigAssumption
<1>c. now \in Nat
      BY <1>0 DEF TableTypes
<1> USE DEF ManagerTypes, locals, work, bounds
<1>1. CASE BootLoaded
      BY <1>0, <1>1, <1>a, <1>c DEF BootLoaded, StartUp
<1>d. CASE Boot
  <2>1. [NoTxn EXCEPT !.at = now, !.wall = WholeSeconds(wall)]
          \in [cand : Snapshot, consumed : SUBSET IPs, at : Nat, wall : Nat]
        BY <1>0, <1>a, <1>c, Seconds DEF TableTypes
  <2>2. QED
        BY <1>0, <1>d, <2>1 DEF Boot
<1>e. CASE TxnStart
      BY <1>0, <1>e, <1>a, <1>c DEF TxnStart
<1>2. CASE BootCreate
      BY <1>0, <1>2 DEF BootCreate
<1>3. CASE BootCreated
      BY <1>0, <1>3, <1>a, <1>c DEF BootCreated, StartUp
<1>4. CASE BootFailed \/ Exit \/ Crash
      BY <1>0, <1>4, <1>a DEF BootFailed, Exit, Crash, Vanish
<1>5. CASE Wake
      BY <1>0, <1>5, <1>c DEF Wake
<1>6. CASE SeeShutdown
      BY <1>0, <1>6 DEF SeeShutdown
<1>7. CASE Sweep
      BY <1>0, <1>7 DEF Sweep
<1>8. CASE Decide
      BY <1>0, <1>8 DEF Decide
<1>9. CASE Drain
      BY <1>0, <1>9 DEF Drain
<1>10. CASE Gather
      BY <1>0, <1>10 DEF Gather
<1>11. CASE TxnNothing
      BY <1>0, <1>11, <1>a, <1>c DEF TxnNothing, Succeeded
<1>12. CASE TxnFull
      BY <1>0, <1>12, <1>a, <1>b, <1>c DEF TxnFull, TxnStart, Failed, Least
<1>13. ASSUME NEW added \in SUBSET Fresh, NEW seen \in SUBSET Settled,
              TxnBuild(added, seen)
       PROVE  ManagerTypes'
  <2>1. added \subseteq IPs /\ seen \subseteq IPs
        BY <1>0 DEF Fresh, Settled
  <2>2. Candidate(added) \in Snapshot
        BY <1>0, <2>1, CandidateType
  <2>3. [cand |-> Candidate(added), consumed |-> added \cup seen, at |-> txn.at,
         wall |-> 0]
          \in [cand : Snapshot, consumed : SUBSET IPs, at : Nat, wall : Nat]
        BY <1>0, <2>1, <2>2
  <2>4. [NoTxn EXCEPT !.consumed = seen]
          \in [cand : Snapshot, consumed : SUBSET IPs, at : Nat, wall : Nat]
        BY <2>1, <1>a
  <2>5. CASE Failed
        BY <1>0, <1>13, <2>5, <1>a, <1>b, <1>c DEF TxnBuild, Failed, Least
  <2>6. CASE /\ mpc' \in {"write", "consume"}
             /\ txn' \in [cand : Snapshot, consumed : SUBSET IPs, at : Nat, wall : Nat]
             /\ batch' = {} /\ UNCHANGED <<locals, roundAt, bounds>>
        BY <1>0, <2>6
  <2>7. QED
        BY <1>13, <2>3, <2>4, <2>5, <2>6 DEF TxnBuild
<1>14. CASE WriteFile
      BY <1>0, <1>14 DEF WriteFile
<1>15. CASE WriteFailed
      BY <1>0, <1>15, <1>a, <1>b, <1>c DEF WriteFailed, Failed, Least
<1>16. CASE StoreDurable
      BY <1>0, <1>16 DEF StoreDurable
<1>17. CASE ConsumePending
      BY <1>0, <1>17, <1>a, <1>c DEF ConsumePending, Succeeded
<1>18. CASE Shutdown \/ Tick \/ ClockStep
      BY <1>0, <1>18 DEF Shutdown, Tick, ClockStep
<1>19. CASE UNCHANGED <<mpc, locals, work, bounds>>
      BY <1>0, <1>19
<1>20. QED
      BY <1>1, <1>2, <1>3, <1>4, <1>5, <1>6, <1>7, <1>8, <1>9, <1>10, <1>11,
         <1>12, <1>13, <1>d, <1>e, <1>14, <1>15, <1>16, <1>17, <1>18, <1>19
      DEF Next, BootStep, ManagerStep, PersistStep, TaskStep, StartCheck,
          StartViolation, LoadTemporary, CountViolation, QueuePending, vars
-----------------------------------------------------------------------------
(* The state file of the runtime is one that BlockStateFile describes, so   *)
(* that what is proved of the writer alone holds for the runtime's writer.  *)

Writer == INSTANCE BlockStateFileProofs WITH Content <- BlockTable

LEMMA DiskStep == TypeOK /\ [Next]_vars => [Disk!Next]_dvars
<1> SUFFICES ASSUME TypeOK, [Next]_vars PROVE [Disk!Next]_dvars
    OBVIOUS
<1> USE DEF Disk!Next
<1>1. CASE BootCreate
      BY <1>1 DEF BootCreate
<1>2. CASE BootCreated
      BY <1>2 DEF BootCreated
<1>3. CASE BootFailed \/ Exit \/ Crash
      BY <1>3 DEF BootFailed, Exit, Crash
<1>4. ASSUME NEW added \in SUBSET Fresh, NEW seen \in SUBSET Settled,
             TxnBuild(added, seen)
      PROVE  [Disk!Next]_dvars
      BY <1>4 DEF TxnBuild
<1>5. CASE WriteFile
  <2>1. EmptyTable \in BlockTable
        BY DEF EmptyTable, NoRecord, BlockTable
  <2>2. TableOf(txn.cand) \in BlockTable
        BY TableOfType DEF TypeOK, ManagerTypes
  <2>3. QED
        BY <1>5, <2>1, <2>2 DEF WriteFile
<1>6. CASE WriteFailed
      BY <1>6 DEF WriteFailed
<1>7. CASE StoreDurable
      BY <1>7 DEF StoreDurable
<1>8. CASE UNCHANGED dvars
      BY <1>8
<1>9. QED
      BY <1>1, <1>2, <1>3, <1>4, <1>5, <1>6, <1>7, <1>8
      DEF Next, BootStep, Boot, BootLoaded, ManagerStep, PersistStep, TaskStep, StartCheck,
          StartViolation, LoadTemporary, CountViolation, QueuePending, Wake,
          SeeShutdown, Sweep, Decide, Drain, Gather, TxnNothing, TxnFull, TxnStart,
          ConsumePending, Shutdown, Tick, ClockStep, vars

LEMMA ContentFact == NoFile \notin BlockTable /\ Torn \notin BlockTable /\ NoFile # Torn
BY ConfigAssumption DEF BlockTable

\* Two instances of one module with one substitution.
LEMMA SameWriter ==
  /\ Disk!Next <=> Writer!Next
  /\ Disk!DiskTypeOK <=> Writer!DiskTypeOK
<1>1. Disk!DiskTypeOK <=> Writer!DiskTypeOK
      BY DEF Disk!DiskTypeOK, Disk!Outcomes, Writer!DiskTypeOK, Writer!Outcomes
<1>2. Disk!BeginWrite <=> Writer!BeginWrite
      BY DEF Disk!BeginWrite, Disk!MayFail, Disk!Outcomes, Writer!BeginWrite,
             Writer!MayFail, Writer!Outcomes
<1>3. \A c : Disk!Serialize(c) <=> Writer!Serialize(c)
      BY DEF Disk!Serialize, Disk!MayFail, Writer!Serialize, Writer!MayFail
<1>4. Disk!CleanOrphan <=> Writer!CleanOrphan
      BY DEF Disk!CleanOrphan, Disk!MayFail, Disk!Outcomes,
             Writer!CleanOrphan, Writer!MayFail, Writer!Outcomes
<1>5. Disk!CreateTemp <=> Writer!CreateTemp
      BY DEF Disk!CreateTemp, Disk!MayFail, Disk!Outcomes, Writer!CreateTemp,
             Writer!MayFail, Writer!Outcomes
<1>6. Disk!WriteTemp <=> Writer!WriteTemp
      BY DEF Disk!WriteTemp, Disk!MayFail, Disk!Outcomes, Writer!WriteTemp,
             Writer!MayFail, Writer!Outcomes
<1>7. Disk!RenameTemp <=> Writer!RenameTemp
      BY DEF Disk!RenameTemp, Disk!MayFail, Disk!Outcomes, Writer!RenameTemp,
             Writer!MayFail, Writer!Outcomes
<1>8. Disk!SyncDirectory <=> Writer!SyncDirectory
      BY DEF Disk!SyncDirectory, Disk!MayFail, Disk!Outcomes,
             Writer!SyncDirectory, Writer!MayFail, Writer!Outcomes
<1>9. Disk!UnlinkTemp <=> Writer!UnlinkTemp
      BY DEF Disk!UnlinkTemp, Disk!MayFail, Disk!Outcomes, Writer!UnlinkTemp,
             Writer!MayFail, Writer!Outcomes
<1>10. Disk!EndWrite <=> Writer!EndWrite
      BY DEF Disk!EndWrite, Disk!MayFail, Disk!Outcomes, Writer!EndWrite,
             Writer!MayFail, Writer!Outcomes
<1>11. Disk!ProcessCrash <=> Writer!ProcessCrash
      BY DEF Disk!ProcessCrash, Disk!FreshWriter, Writer!ProcessCrash,
             Writer!FreshWriter
<1>12. Disk!PowerLoss <=> Writer!PowerLoss
      BY DEF Disk!PowerLoss, Disk!FreshWriter, Writer!PowerLoss,
             Writer!FreshWriter
<1>13. QED
      BY <1>1, <1>2, <1>3, <1>4, <1>5, <1>6,
         <1>7, <1>8, <1>9, <1>10, <1>11, <1>12
      DEF Disk!Next, Disk!WriteStep, Writer!Next, Writer!WriteStep

LEMMA WriterStep ==
  TypeOK /\ Writer!WriterInv /\ [Next]_vars => Writer!WriterInv'
<1>1. TypeOK /\ [Next]_vars => [Writer!Next]_(Writer!dvars)
      BY DiskStep, SameWriter DEF dvars, Writer!dvars
<1>2. QED
      BY <1>1, ContentFact, Writer!WriterStep

LEMMA InitTypes == Init => TypeOK
<1> SUFFICES ASSUME Init PROVE TypeOK
    OBVIOUS
<1>1. TableTypes
      BY NoBlocksType, NoTableType, ConfigAssumption DEF Init, TableTypes
<1>2. TaskTypes
      BY IdleTaskType DEF Init, TaskTypes
<1>3. WindowTypes
      BY ConfigAssumption DEF Init, WindowTypes, NoWindow
<1>4. ManagerTypes
      BY NoBlocksType DEF Init, ManagerTypes, NoTxn
<1>5. Flags
      BY DEF Init, Flags
<1>6. Disk!DiskTypeOK
      BY DEF Init, Disk!DiskTypeOK
<1>7. QED
      BY <1>1, <1>2, <1>3, <1>4, <1>5, <1>6 DEF TypeOK

LEMMA InitWriter == Init => Writer!WriterInv
<1>1. Init => Writer!DiskTypeOK
      BY InitTypes, SameWriter DEF TypeOK
<1>2. QED
      BY <1>1, ContentFact DEF Init, Writer!WriterInv

\* Every variable of the runtime keeps its type.
THEOREM TypeCorrect == Spec => []TypeOK
<1>1. Init => TypeOK /\ Writer!WriterInv
      BY InitTypes, InitWriter
<1>2. TypeOK /\ Writer!WriterInv /\ [Next]_vars => (TypeOK /\ Writer!WriterInv)'
  <2> SUFFICES ASSUME TypeOK, Writer!WriterInv, [Next]_vars
               PROVE  TypeOK' /\ Writer!WriterInv'
      OBVIOUS
  <2>1. Writer!WriterInv'
        BY WriterStep
  <2>2. Disk!DiskTypeOK'
        BY <2>1 DEF Writer!WriterInv, Writer!DiskTypeOK, Writer!Outcomes,
                    Disk!DiskTypeOK, Disk!Outcomes
  <2>3. QED
        BY <2>1, <2>2, TableStep, TaskStepTypes, WindowStep, ManagerStepTypes,
           FlagStep DEF TypeOK
<1>3. QED
      BY <1>1, <1>2, PTL DEF Spec

-----------------------------------------------------------------------------
(* No address is released early while its activation moves from the        *)
(* pending table through the transaction into the durable snapshot.         *)

\* What the steps below use of the types and of the configuration.
LEMMA Facts ==
  ASSUME TypeOK
  PROVE  /\ now \in Nat /\ roundAt \in Nat
         /\ pending \in [IPs -> Nat] /\ temporary \in [IPs -> Nat]
         /\ \A ip \in IPs : durable[ip].deadline \in Nat
         /\ \A ip \in IPs : txn.cand[ip].deadline \in Nat
         /\ txn.at \in Nat /\ txn.consumed \subseteq IPs
         /\ batch \subseteq IPs /\ Lag \in Nat /\ Lag <= CommitBound
         /\ \A t \in Tasks : tasks[t].now \in Nat /\ tasks[t].ip \in IPs
         /\ Temporary \in Nat /\ Block \in Nat /\ CommitBound \in Nat
         /\ Temporary # 0 /\ Block # 0
         /\ CommitBound + Temporary <= Block
BY ConfigAssumption, CommitAssumption
DEF TypeOK, TableTypes, TaskTypes, ManagerTypes, Snapshot

LEMMA PromotionInit == Init => PromotionInv
<1> SUFFICES ASSUME Init PROVE PromotionInv
    OBVIOUS
<1>1. \A ip \in IPs : pending[ip] = 0 /\ durable[ip].deadline = 0
      BY DEF Init, NoTable, NoBlocks, NoBlock
<1>2. \A t \in Tasks : tasks[t].pc = "idle"
      BY DEF Init, IdleTask
<1>3. now = 1 /\ roundAt = 0 /\ mpc = "down" /\ temporary = pending
      /\ pending = NoTable /\ durable = NoBlocks
      BY DEF Init
<1>4. QED
      BY <1>1, <1>2, <1>3
      DEF PromotionInv, Mirrored, Quiet, PendingCovered, ReportsCovered,
          ReadingsClose, BatchCovered, CandidateCovers,
          ConsumedCovered

-----------------------------------------------------------------------------
(* One lemma per action that disturbs the invariant. *)

LEMMA VanishStep ==
  ASSUME TypeOK, PromotionInv, Vanish PROVE PromotionInv'
<1>1. \A ip \in IPs : pending'[ip] = 0 /\ durable'[ip].deadline = 0
      BY DEF Vanish, NoTable, NoBlocks, NoBlock
<1>2. \A t \in Tasks : tasks'[t].pc = "idle"
      BY DEF Vanish, IdleTask
<1>3. mpc' = "down" /\ roundAt' = 0 /\ now' = now /\ temporary' = pending'
      /\ pending' = NoTable /\ durable' = NoBlocks
      BY DEF Vanish, clocks
<1>4. NoTable' = NoTable /\ NoBlocks' = NoBlocks
      BY DEF NoTable, NoBlocks, NoBlock
<1>5. QED
      BY <1>1, <1>2, <1>3, <1>4, Facts
      DEF PromotionInv, Mirrored, Quiet, PendingCovered, ReportsCovered,
          ReadingsClose, BatchCovered, CandidateCovers,
          ConsumedCovered

LEMMA StartUpStep ==
  ASSUME TypeOK, PromotionInv, ~ Running, NEW blocks, StartUp(blocks)
  PROVE  PromotionInv'
<1>1. pending = NoTable /\ \A t \in Tasks : tasks[t].pc = "idle"
      BY DEF PromotionInv, Quiet
<1>2. mpc' = "select" /\ UNCHANGED <<now, roundAt, pending, temporary, tasks>>
      BY DEF StartUp, clocks
<1>3. \A ip \in IPs : pending[ip] = 0
      BY <1>1 DEF NoTable
<1>4. QED
      BY <1>1, <1>2, <1>3
      DEF PromotionInv, Mirrored, Quiet, Running, PendingCovered,
          ReportsCovered, ReadingsClose, BatchCovered, CandidateCovers,
          ConsumedCovered

LEMMA TickStep ==
  ASSUME TypeOK, PromotionInv, Tick PROVE PromotionInv'
<1>1. now' = now + 1 /\ (mpc = "write" => now < txn.at + CommitBound)
      /\ (mpc \in {"load", "build"} => now < txn.at + Lag)
      /\ UNCHANGED <<durable, pending, temporary, mpc, roundAt, batch, txn, tasks>>
      BY DEF Tick, work
<1>2. UNCHANGED <<Queued, Retained>>
      BY <1>1 DEF Queued, Retained
<1>3. QED
      BY <1>1, <1>2, Facts
      DEF PromotionInv, Mirrored, Quiet, PendingCovered, ReportsCovered,
          ReadingsClose, BatchCovered, CandidateCovers,
          ConsumedCovered, Kept, Running

LEMMA CheckStep ==
  ASSUME TypeOK, PromotionInv, NEW t \in Tasks, NEW ip \in IPs,
         StartCheck(t, ip) \/ \E r \in Rules : StartViolation(t, ip, r)
  PROVE  PromotionInv'
<1>1. /\ Running /\ ip \notin Allow /\ ip \notin Kept
      /\ UNCHANGED <<now, durable, pending, temporary, mpc, roundAt, batch, txn>>
      BY DEF StartCheck, StartViolation, clocks, work, Kept
<1>a. UNCHANGED <<Queued, Retained>>
      BY <1>1 DEF Queued, Retained
<1>2. tasks'[t].ip = ip /\ tasks'[t].now = now /\ tasks'[t].pc = "load"
  <2>1. CASE StartCheck(t, ip)
        BY <2>1, IdleTaskType DEF StartCheck, TypeOK, TaskTypes
  <2>2. ASSUME NEW r \in Rules, StartViolation(t, ip, r)
        PROVE  tasks'[t].ip = ip /\ tasks'[t].now = now /\ tasks'[t].pc = "load"
        BY <2>2, IdleTaskType DEF StartViolation, TypeOK, TaskTypes
  <2>3. QED
        BY <2>1, <2>2
<1>3. \A u \in Tasks : u # t => tasks'[u] = tasks[u]
      BY DEF StartCheck, StartViolation, TypeOK, TaskTypes
<1>4. QED
      BY <1>1, <1>2, <1>3, <1>a, Facts
      DEF PromotionInv, Mirrored, Quiet, PendingCovered, ReportsCovered,
          ReadingsClose, BatchCovered, CandidateCovers,
          ConsumedCovered, Kept, Running

LEMMA OtherTaskStep ==
  ASSUME TypeOK, PromotionInv, NEW t \in Tasks,
         LoadTemporary(t) \/ CountViolation(t)
  PROVE  PromotionInv'
<1>1. UNCHANGED <<now, durable, pending, temporary, mpc, roundAt, batch, txn>>
      BY DEF LoadTemporary, CountViolation, clocks, work
<1>a. UNCHANGED <<Queued, Retained>>
      BY <1>1 DEF Queued, Retained
<1>2. \A u \in Tasks : \/ tasks'[u].pc = "idle"
                       \/ /\ tasks[u].pc # "idle" /\ tasks'[u].ip = tasks[u].ip
                          /\ tasks'[u].now = tasks[u].now
                          /\ tasks'[u].op = tasks[u].op
                          /\ tasks'[u].pc = "load" => tasks[u].pc = "load"
                          /\ \/ tasks'[u].pc = tasks[u].pc
                             \/ tasks'[u].op = "record"
      BY DEF LoadTemporary, CountViolation, IdleTask, TypeOK, TaskTypes,
             PromotionInv, ReportsCovered
<1>3. tasks[t].pc # "idle"
      BY DEF LoadTemporary, CountViolation
<1>4. Running
      BY <1>3 DEF PromotionInv, Quiet
<1>5. QED
      BY <1>1, <1>2, <1>4, <1>a, Facts
      DEF PromotionInv, Mirrored, Quiet, PendingCovered, ReportsCovered,
          ReadingsClose, BatchCovered, CandidateCovers,
          ConsumedCovered, Kept, Running

LEMMA QueueStep ==
  ASSUME TypeOK, PromotionInv, NEW t \in Tasks, QueuePending(t)
  PROVE  PromotionInv'
<1>1. tasks[t].pc # "idle"
      /\ UNCHANGED <<now, durable, mpc, roundAt, batch, txn>>
      BY DEF QueuePending, clocks, work
<1>2. Running
      BY <1>1 DEF PromotionInv, Quiet
<1>3. \A u \in Tasks : tasks'[u].pc = "idle" \/ tasks'[u] = tasks[u]
      BY DEF QueuePending, IdleTask, TypeOK, TaskTypes
<1>a. Retained' = Retained
      BY <1>1 DEF Retained
<1>4. CASE UNCHANGED <<pending, temporary>>
  <2>1. Queued' = Queued
        BY <1>4 DEF Queued
  <2>2. QED
        BY <1>1, <1>2, <1>3, <1>4, <1>a, <2>1, Facts
        DEF PromotionInv, Mirrored, Quiet, PendingCovered, ReportsCovered,
            ReadingsClose, BatchCovered, CandidateCovers,
            ConsumedCovered, Kept, Running
<1>5. CASE /\ pending[tasks[t].ip] = 0
           /\ pending' = [pending EXCEPT ![tasks[t].ip] = tasks[t].now + Temporary]
           /\ temporary' = pending' /\ tasks[t].op = "record"
  <2>1. /\ pending'[tasks[t].ip] = tasks[t].now + Temporary
        /\ \A ip \in IPs : ip # tasks[t].ip => pending'[ip] = pending[ip]
        BY <1>5, Facts
  <2>2. /\ tasks[t].ip \notin Allow /\ tasks[t].now <= now
        /\ tasks[t].ip \in Kept =>
             durable[tasks[t].ip].deadline >= tasks[t].now + Temporary
        BY <1>1, <1>5 DEF PromotionInv, ReportsCovered
  <2>3. PendingCovered'
        BY <1>1, <2>1, <2>2, Facts DEF PromotionInv, PendingCovered, Kept
  <2>4. CandidateCovers' /\ ConsumedCovered' /\ ReadingsClose'
        BY <1>1, <1>5, <2>1, Facts
        DEF PromotionInv, ReadingsClose, CandidateCovers, ConsumedCovered, Kept
  <2>5. BatchCovered'
    <3>1. Queued \subseteq Queued'
          BY <2>1, Facts DEF Queued
    <3>2. mpc \in {"txn", "build"} =>
            \A ip \in batch : ip \in IPs /\ pending'[ip] = pending[ip]
          BY <1>5, <2>1, Facts DEF PromotionInv, BatchCovered, Queued
    <3>3. QED
          BY <1>1, <1>a, <3>1, <3>2 DEF PromotionInv, BatchCovered
  <2>6. QED
        BY <1>1, <1>2, <1>3, <1>5, <2>3, <2>4, <2>5, Facts
        DEF PromotionInv, Mirrored, Quiet, ReportsCovered, Kept, Running
<1>6. tasks[t].op = "record"
      BY DEF PromotionInv, ReportsCovered, QueuePending
<1>7. QED
      BY <1>4, <1>5, <1>6, Facts DEF QueuePending, Queued

\* The manager's own steps between two transactions.
LEMMA WakeStep ==
  ASSUME TypeOK, PromotionInv,
         \/ Wake \/ SeeShutdown \/ Decide \/ Gather \/ TxnNothing \/ TxnFull
         \/ WriteFailed
  PROVE  PromotionInv'
<1>1. /\ UNCHANGED <<now, durable, pending, temporary, tasks>>
      /\ Running /\ mpc' \notin {"down", "boot", "load", "build", "write", "consume"}
      /\ roundAt' \in {roundAt, now, 0}
      /\ mpc' = "txn" => Gather
      BY DEF Wake, SeeShutdown, Decide, Gather, TxnNothing, TxnFull, WriteFailed,
             Succeeded, Failed, clocks, work, Running
<1>2. Gather => batch' \subseteq Queued'
      BY <1>1, Facts DEF Gather, Queued
<1>3. QED
      BY <1>1, <1>2, Facts
      DEF PromotionInv, Mirrored, Quiet, PendingCovered, ReportsCovered,
          ReadingsClose, BatchCovered, CandidateCovers,
          ConsumedCovered, Kept, Running

LEMMA RetainStep ==
  ASSUME TypeOK, PromotionInv, Sweep \/ Drain PROVE PromotionInv'
<1>1. /\ UNCHANGED <<now, durable, tasks, roundAt>>
      /\ Running
      /\ mpc' \notin {"down", "boot", "load", "txn", "build", "write", "consume"}
      BY DEF Sweep, Drain, clocks, work, Running
<1>2. \A ip \in IPs : pending'[ip] = pending[ip] \/ pending'[ip] = 0
      BY Facts DEF Sweep, Drain, Unexpired
<1>3. temporary' = pending'
      BY DEF Sweep, Drain, PromotionInv, Mirrored
<1>4. QED
      BY <1>1, <1>2, <1>3, Facts
      DEF PromotionInv, Mirrored, Quiet, PendingCovered, ReportsCovered,
          ReadingsClose, BatchCovered, CandidateCovers,
          ConsumedCovered, Kept, Running

\* The transaction begins: what it was given is covered at that moment.
LEMMA BeginStep ==
  ASSUME TypeOK, PromotionInv, TxnStart PROVE PromotionInv'
<1>1. /\ UNCHANGED <<now, durable, pending, temporary, tasks, roundAt, batch>>
      /\ Running /\ mpc = "txn" /\ mpc' = "build" /\ txn'.at = now
      BY DEF TxnStart, clocks, Running, NoTxn
<1>2. Queued' = Queued /\ Retained' = Kept /\ Kept' = Kept
      BY <1>1 DEF Queued, Retained, Kept
<1>3. batch \subseteq Queued /\ batch \subseteq IPs
      BY <1>1, Facts DEF PromotionInv, BatchCovered
<1>4. \A ip \in batch : /\ pending[ip] <= now + Temporary
                        /\ ip \in Kept => durable[ip].deadline >= pending[ip]
      BY <1>3 DEF PromotionInv, PendingCovered, Queued
<1>5. BatchCovered' /\ ReadingsClose'
      BY <1>1, <1>2, <1>3, <1>4, Facts DEF BatchCovered, ReadingsClose
<1>6. QED
      BY <1>1, <1>2, <1>5
      DEF PromotionInv, Mirrored, Quiet, PendingCovered, ReportsCovered,
          CandidateCovers, ConsumedCovered, Running

\* The transaction: a kept block stays as it is, and a new one outlasts the
\* activation it comes from because Temporary <= Block.
LEMMA BuildStep ==
  ASSUME TypeOK, PromotionInv,
         NEW added \in SUBSET Fresh, NEW seen \in SUBSET Settled,
         TxnBuild(added, seen)
  PROVE  PromotionInv'
<1>1. /\ UNCHANGED <<now, durable, pending, temporary, tasks, roundAt>>
      /\ Running /\ mpc' \notin {"down", "boot", "load", "txn", "build"}
      BY DEF TxnBuild, Failed, clocks, Running
<1>a. /\ txn.at <= now /\ now <= txn.at + Lag
      /\ batch \subseteq Queued /\ batch \subseteq IPs
      /\ \A ip \in batch :
           /\ pending[ip] <= txn.at + Temporary
           /\ ip \in Retained => durable[ip].deadline >= pending[ip]
      BY Facts DEF TxnBuild, PromotionInv, ReadingsClose, BatchCovered
<1>b. Kept \subseteq Retained
      BY <1>a, Facts DEF Kept, Retained
<1>2. \A ip \in seen : ip \in IPs /\ ip \in Retained /\ pending[ip] # 0
                      /\ durable[ip].deadline >= pending[ip]
  <2>1. \A ip \in seen : ip \in batch /\ (ip \in Retained \/ ip \in Allow)
        BY DEF Settled
  <2>2. QED
        BY <1>a, <2>1 DEF PromotionInv, PendingCovered, Queued
<1>3. \A ip \in added : ip \in IPs /\ ip \notin Retained /\ pending[ip] # 0
                      /\ pending[ip] <= txn.at + Temporary
  <2>1. \A ip \in added : ip \in batch /\ ip \notin Retained
        BY DEF Fresh
  <2>2. QED
        BY <1>a, <2>1 DEF Queued
<1>4. CASE mpc' = "write"
  <2>1. /\ txn'.cand = Candidate(added) /\ txn'.consumed = added \cup seen
        /\ txn'.at = txn.at
        BY <1>4 DEF TxnBuild, Failed
  <2>2. \A ip \in IPs : txn'.cand[ip].deadline =
          IF ip \in added THEN txn.at + Block
          ELSE IF ip \in Retained THEN durable[ip].deadline ELSE 0
        BY <2>1, <1>3 DEF Candidate, NoBlock
  <2>3. Kept' = Kept
        BY <1>1 DEF Kept
  <2>4. \A ip \in IPs :
          /\ txn'.cand[ip].deadline \in {durable[ip].deadline, txn.at + Block, 0}
          /\ ip \in Kept => txn'.cand[ip].deadline = durable[ip].deadline
        BY <2>2, <1>3, <1>b
  <2>5. \A ip \in added \cup seen :
          pending[ip] # 0 /\ txn'.cand[ip].deadline >= pending[ip]
    <3>1. \A ip \in added : txn'.cand[ip].deadline >= pending[ip]
          BY <2>2, <1>3, Facts
    <3>2. \A ip \in seen : ip \in IPs /\ ip \notin added
          BY <1>2, <1>3
    <3>3. QED
          BY <3>1, <3>2, <2>2, <1>2, <1>3
  <2>6. CandidateCovers'
        BY <1>1, <1>a, <2>1, <2>3, <2>4, <2>5, Facts DEF CandidateCovers
  <2>7. QED
        BY <1>1, <1>4, <2>3, <2>6
        DEF PromotionInv, Mirrored, Quiet, Running, PendingCovered,
            ReportsCovered, ReadingsClose, BatchCovered, ConsumedCovered
<1>5. CASE mpc' = "consume"
  <2>1. txn'.consumed = seen
        BY <1>5, Facts DEF TxnBuild, Failed, NoTxn
  <2>2. QED
        BY <1>1, <1>2, <1>5, <2>1, Facts
        DEF PromotionInv, Mirrored, Quiet, PendingCovered, ReportsCovered,
            ReadingsClose, BatchCovered, CandidateCovers, ConsumedCovered,
            Kept, Running
<1>6. CASE mpc' \notin {"write", "consume"}
      BY <1>1, <1>6, Facts
      DEF PromotionInv, Mirrored, Quiet, PendingCovered, ReportsCovered,
          ReadingsClose, BatchCovered, CandidateCovers, ConsumedCovered,
          Kept, Running
<1>7. QED
      BY <1>4, <1>5, <1>6

\* The store: by CommitAssumption the stored block also outlasts every
\* activation that was reported, or could still be, while the file was
\* written.
LEMMA StoreStep ==
  ASSUME TypeOK, PromotionInv, StoreDurable PROVE PromotionInv'
<1>1. /\ UNCHANGED <<now, pending, temporary, tasks, roundAt, txn>>
      /\ mpc = "write" /\ mpc' = "consume" /\ durable' = txn.cand
      BY DEF StoreDurable, clocks, work
<1>2. /\ txn.at <= now /\ now <= txn.at + CommitBound
      /\ \A ip \in IPs :
           txn.cand[ip].deadline \in {durable[ip].deadline, txn.at + Block, 0}
      /\ \A ip \in txn.consumed :
           pending[ip] # 0 /\ txn.cand[ip].deadline >= pending[ip]
      BY <1>1 DEF PromotionInv, CandidateCovers
<1>3. \A ip \in IPs, n \in Nat :
        n <= now /\ (ip \in Kept => durable[ip].deadline >= n + Temporary)
          => (ip \in Kept' => durable'[ip].deadline >= n + Temporary)
      BY <1>1, <1>2, Facts DEF Kept
<1>4. PendingCovered'
  <2> SUFFICES ASSUME NEW ip \in IPs, pending'[ip] # 0, ip \in Kept'
               PROVE  durable'[ip].deadline >= pending'[ip]
      BY <1>1 DEF PromotionInv, PendingCovered
  <2>1. pending[ip] <= now + Temporary
        /\ (ip \in Kept => durable[ip].deadline >= pending[ip])
        BY <1>1 DEF PromotionInv, PendingCovered
  <2>2. QED
        BY <1>1, <1>2, <2>1, Facts DEF Kept
<1>5. ReportsCovered'
      BY <1>1, <1>3, Facts DEF PromotionInv, ReportsCovered
<1>6. QED
      BY <1>1, <1>2, <1>4, <1>5
      DEF PromotionInv, Mirrored, Quiet, Running, ReadingsClose, BatchCovered,
          CandidateCovers, ConsumedCovered

LEMMA ConsumeStep ==
  ASSUME TypeOK, PromotionInv, ConsumePending PROVE PromotionInv'
<1>1. /\ UNCHANGED <<now, durable, roundAt>>
      /\ Running
      /\ mpc' \notin {"down", "boot", "load", "txn", "build", "write", "consume"}
      BY DEF ConsumePending, Succeeded, clocks, Running
<1>2. \A ip \in IPs : pending'[ip] = pending[ip] \/ pending'[ip] = 0
      BY Facts DEF ConsumePending
<1>3. temporary' = pending'
  <2>1. CASE txn.consumed = {}
    <3>1. pending' = pending
          BY <2>1, Facts DEF ConsumePending
    <3>2. QED
          BY <2>1, <3>1 DEF ConsumePending, PromotionInv, Mirrored
  <2>2. CASE txn.consumed # {}
        BY <2>2 DEF ConsumePending
  <2>3. QED
        BY <2>1, <2>2
<1>4. \A t \in Tasks : /\ tasks'[t].pc = tasks[t].pc /\ tasks'[t].op = tasks[t].op
                       /\ tasks'[t].ip = tasks[t].ip
                       /\ tasks'[t].now = tasks[t].now
      BY DEF ConsumePending, TypeOK, TaskTypes
<1>5. QED
      BY <1>1, <1>2, <1>3, <1>4, Facts
      DEF PromotionInv, Mirrored, Quiet, PendingCovered, ReportsCovered,
          ReadingsClose, BatchCovered, CandidateCovers,
          ConsumedCovered, Kept, Running

\* The rest leaves the tables alone.
LEMMA IdleStep ==
  ASSUME TypeOK, PromotionInv,
         \/ Boot \/ BootCreate \/ WriteFile \/ Shutdown \/ ClockStep
         \/ UNCHANGED vars
  PROVE  PromotionInv'
<1>1. /\ UNCHANGED <<now, durable, pending, temporary, tasks, roundAt, batch>>
      /\ \/ mpc' = mpc /\ txn' = txn
         \/ ~ Running /\ mpc' = "boot" /\ txn' = txn
         \/ ~ Running /\ mpc' = "load" /\ txn'.at = now
      BY DEF Boot, BootCreate, WriteFile, Shutdown, ClockStep, vars, clocks, work,
             Running, NoTxn
<1>2. NoTable' = NoTable /\ NoBlocks' = NoBlocks /\ Queued' = Queued
      BY <1>1 DEF NoTable, NoBlocks, NoBlock, Queued
<1>3. txn' = txn => Retained' = Retained
      BY <1>1 DEF Retained
<1>4. QED
      BY <1>1, <1>2, <1>3, Facts
      DEF PromotionInv, Mirrored, Quiet, PendingCovered, ReportsCovered,
          ReadingsClose, BatchCovered, CandidateCovers, ConsumedCovered,
          Kept, Running

LEMMA PromotionStep == TypeOK /\ PromotionInv /\ [Next]_vars => PromotionInv'
<1> SUFFICES ASSUME TypeOK, PromotionInv, [Next]_vars PROVE PromotionInv'
    OBVIOUS
<1>1. CASE BootStep
  <2>1. CASE BootLoaded
        BY <2>1, StartUpStep DEF BootLoaded, Running
  <2>2. CASE Boot \/ BootCreate
        BY <2>2, IdleStep
  <2>3. CASE BootCreated
        BY <2>3, StartUpStep DEF BootCreated, Running
  <2>4. CASE BootFailed
        BY <2>4, VanishStep DEF BootFailed
  <2>5. QED
        BY <1>1, <2>1, <2>2, <2>3, <2>4 DEF BootStep
<1>2. CASE Exit \/ Crash
      BY <1>2, VanishStep DEF Exit, Crash
<1>3. CASE Wake \/ SeeShutdown
      BY <1>3, WakeStep
<1>4. CASE ManagerStep
  <2>1. CASE Sweep \/ Drain
        BY <2>1, RetainStep
  <2>2. CASE Decide \/ Gather \/ TxnNothing \/ TxnFull \/ WriteFailed
        BY <2>2, WakeStep
  <2>a. CASE TxnStart
        BY <2>a, BeginStep
  <2>3. CASE \E added \in SUBSET Fresh, seen \in SUBSET Settled : TxnBuild(added, seen)
        BY <2>3, BuildStep
  <2>4. CASE WriteFile
        BY <2>4, IdleStep
  <2>5. CASE StoreDurable
        BY <2>5, StoreStep
  <2>6. CASE ConsumePending
        BY <2>6, ConsumeStep
  <2>7. QED
        BY <1>4, <2>1, <2>2, <2>a, <2>3, <2>4, <2>5, <2>6 DEF ManagerStep, PersistStep
<1>5. ASSUME NEW t \in Tasks, TaskStep(t) PROVE PromotionInv'
      BY <1>5, CheckStep, OtherTaskStep, QueueStep DEF TaskStep
<1>6. CASE Tick
      BY <1>6, TickStep
<1>7. CASE Shutdown \/ ClockStep \/ UNCHANGED vars
      BY <1>7, IdleStep
<1>8. QED
      BY <1>1, <1>2, <1>3, <1>4, <1>5, <1>6, <1>7 DEF Next

\* The inductive invariant behind NoEarlyRelease holds throughout.
THEOREM PromotionCovered == Spec => []PromotionInv
<1>1. Init => PromotionInv
      BY PromotionInit
<1>2. TypeOK /\ PromotionInv /\ [Next]_vars => PromotionInv'
      BY PromotionStep
<1>3. QED
      BY <1>1, <1>2, TypeCorrect, PTL DEF Spec

-----------------------------------------------------------------------------

LEMMA ReleaseStep ==
  ASSUME TypeOK, TypeOK', PromotionInv, [Next]_vars, Running, Running',
         NEW ip \in IPs
  PROVE  BlockedUntil(ip)' >= BlockedUntil(ip) \/ now' >= BlockedUntil(ip)
<1> DEFINE d == durable[ip].deadline
           p == temporary[ip]
<1>0. /\ d \in Nat /\ p \in Nat /\ d' \in Nat /\ p' \in Nat
      /\ now \in Nat /\ now' \in Nat /\ pending[ip] = p
      BY Facts DEF TypeOK, TableTypes, Snapshot, PromotionInv, Mirrored
<1>1. now' >= now
  <2>1. CASE Tick
        BY <1>0, <2>1 DEF Tick
  <2>2. CASE UNCHANGED now
        BY <1>0, <2>2
  <2>3. QED
        BY <2>1, <2>2
        DEF Next, BootStep, Boot, BootLoaded, StartUp, BootCreate, BootCreated, BootFailed,
            Exit, Crash, Vanish, ManagerStep, PersistStep, TaskStep, StartCheck,
            StartViolation, LoadTemporary, CountViolation, QueuePending, Wake,
            SeeShutdown, Sweep, Decide, Drain, Gather, TxnNothing, TxnFull, TxnStart,
            TxnBuild, WriteFile, WriteFailed, StoreDurable, ConsumePending,
            Shutdown, ClockStep, vars, clocks
<1>2. d' >= d \/ now >= d
  <2>1. CASE StoreDurable
    <3>1. ip \in Kept => txn.cand[ip].deadline = d
          BY <2>1 DEF StoreDurable, PromotionInv, CandidateCovers
    <3>2. QED
          BY <1>0, <2>1, <3>1 DEF StoreDurable, Kept
  <2>2. CASE UNCHANGED durable
        BY <1>0, <2>2
  <2>3. QED
        BY <2>1, <2>2
        DEF Next, BootStep, Boot, BootLoaded, BootCreate, BootCreated, BootFailed, Running,
            Exit, Crash, Vanish, ManagerStep, PersistStep, TaskStep, StartCheck,
            StartViolation, LoadTemporary, CountViolation, QueuePending, Wake,
            SeeShutdown, Sweep, Decide, Drain, Gather, TxnNothing, TxnFull, TxnStart,
            TxnBuild, WriteFile, WriteFailed, ConsumePending, Shutdown, Tick,
            ClockStep, vars
<1>3. p' >= p \/ now >= p \/ d' >= p
  <2>1. CASE Sweep \/ Drain
    <3>1. \/ UNCHANGED temporary
          \/ temporary' = Unexpired(pending, roundAt)
          \/ temporary' = Unexpired(pending, now)
          BY <2>1 DEF Sweep, Drain
    <3>2. roundAt <= now
          BY DEF PromotionInv
    <3>3. QED
          BY <1>0, <3>1, <3>2, Facts DEF Unexpired
  <2>2. ASSUME NEW t \in Tasks, QueuePending(t) PROVE p' >= p
    <3>1. CASE UNCHANGED temporary
          BY <1>0, <3>1
    <3>2. CASE /\ pending[tasks[t].ip] = 0 /\ temporary' = pending'
               /\ pending' = [pending EXCEPT ![tasks[t].ip] = tasks[t].now + Temporary]
          BY <1>0, <3>2, Facts
    <3>3. QED
          BY <2>2, <3>1, <3>2, Facts DEF QueuePending, Queued
  <2>3. CASE ConsumePending
    <3>1. UNCHANGED durable
          BY <2>3 DEF ConsumePending
    <3>2. ip \in txn.consumed => d >= p
          BY <1>0, <2>3 DEF ConsumePending, PromotionInv, ConsumedCovered
    <3>3. UNCHANGED temporary \/ ip \in txn.consumed \/ p' = p
          BY <1>0, <2>3 DEF ConsumePending
    <3>4. QED
          BY <1>0, <3>1, <3>2, <3>3
  <2>4. CASE UNCHANGED temporary
        BY <1>0, <2>4
  <2>5. QED
        BY <2>1, <2>2, <2>3, <2>4
        DEF Next, BootStep, Boot, BootLoaded, StartUp, BootCreate, BootCreated, BootFailed,
            Exit, Crash, Vanish, ManagerStep, PersistStep, TaskStep, StartCheck,
            StartViolation, LoadTemporary, CountViolation, Wake, SeeShutdown,
            Decide, Gather, TxnNothing, TxnFull, TxnStart, TxnBuild, WriteFile,
            WriteFailed, StoreDurable, Shutdown, Tick, ClockStep, vars, Running
<1>4. QED
      BY <1>0, <1>1, <1>2, <1>3 DEF BlockedUntil, Most

\* An address that is blocked, temporarily or durably, is blocked until the
\* time it was to be blocked until: the promotion, its failure, the sweeps
\* and the final drain shorten no block, however tasks and ticks interleave.
THEOREM NoBlockEndsEarly == Spec => NoEarlyRelease
<1>1. TypeOK /\ TypeOK' /\ PromotionInv /\ [Next]_vars =>
        [\A ip \in IPs : Running /\ Running' =>
           BlockedUntil(ip)' >= BlockedUntil(ip) \/ now' >= BlockedUntil(ip)]_vars
      BY ReleaseStep
<1>2. QED
      BY <1>1, TypeCorrect, PromotionCovered, PTL DEF Spec, NoEarlyRelease

-----------------------------------------------------------------------------
(* What is on disk keeps the blocks in force through every crash, loads,    *)
(* and restarts them for as long as they had to go.                         *)

LEMMA MoreFacts ==
  ASSUME TypeOK
  PROVE  /\ wall \in Nat /\ steps \in Nat /\ txn.wall \in Nat
         /\ durable \in Snapshot /\ txn.cand \in Snapshot
         /\ file \in BlockTable \cup {NoFile, Torn}
         /\ shadow \subseteq BlockTable \cup {NoFile, Torn}
         /\ buf \in BlockTable \cup {NoFile}
         /\ accepting \in BOOLEAN /\ first \in BOOLEAN
BY DEF TypeOK, TableTypes, ManagerTypes, Flags, Disk!DiskTypeOK

LEMMA FiniteIPs ==
  ASSUME NEW S \in SUBSET IPs, NEW T \in SUBSET S
  PROVE  /\ IsFiniteSet(S) /\ Cardinality(S) \in Nat
         /\ Cardinality(T) \in Nat /\ Cardinality(T) <= Cardinality(S)
<1>1. IsFiniteSet(S) /\ IsFiniteSet(T)
      BY ConfigAssumption, FS_Subset
<1>2. QED
      BY <1>1, FS_Subset, FS_CardinalityType

\* The calls of the writer, by what a crash could find afterwards.
LEMMA WriterCall ==
  ASSUME TypeOK, Writer!WriterInv, WriteFile
  PROVE  /\ mpc \in {"boot", "write"} /\ wpc' # "free"
         /\ UNCHANGED <<now, wall, steps, durable, txn, mpc, first, accepting>>
         /\ \/ UNCHANGED <<file, shadow, buf>>
            \/ /\ UNCHANGED <<file, shadow>>
               /\ buf' = IF mpc = "boot" THEN EmptyTable ELSE TableOf(txn.cand)
            \/ /\ file' = buf /\ shadow' = shadow \cup {file} /\ UNCHANGED buf
               /\ buf \in BlockTable
            \/ UNCHANGED <<file, buf>> /\ shadow' = {}
<1>1. /\ mpc \in {"boot", "write"}
      /\ UNCHANGED <<now, wall, steps, durable, txn, mpc, first, accepting>>
      BY DEF WriteFile, clocks, work, bounds, locals
<1>2. CASE Disk!Serialize(IF mpc = "boot" THEN EmptyTable ELSE TableOf(txn.cand))
      BY <1>1, <1>2 DEF Disk!Serialize, Disk!MayFail
<1>3. CASE Disk!RenameTemp
  <2>1. buf \in BlockTable /\ temp = "synced"
        BY <1>3 DEF Disk!RenameTemp, Writer!WriterInv
  <2>2. QED
        BY <1>1, <1>3, <2>1 DEF Disk!RenameTemp, Disk!MayFail
<1>4. CASE Disk!CleanOrphan \/ Disk!CreateTemp \/ Disk!WriteTemp \/ Disk!UnlinkTemp
           \/ Disk!SyncDirectory
      BY <1>1, <1>4 DEF Disk!CleanOrphan, Disk!CreateTemp, Disk!WriteTemp,
                        Disk!UnlinkTemp, Disk!SyncDirectory, Disk!MayFail
<1>5. QED
      BY <1>2, <1>3, <1>4 DEF WriteFile, Disk!WriteStep

\* The file is only written while the manager waits for it.
LEMMA OnlyWriter ==
  ASSUME TypeOK, [Next]_vars, ~ WriteFile
  PROVE  \/ /\ UNCHANGED <<file, shadow>>
            /\ \/ buf' = buf /\ (wpc' = wpc \/ wpc = "free")
               \/ buf' = NoFile /\ wpc' = "free"
         \/ /\ Vanish /\ buf' = NoFile
            /\ file' \in {file} \cup shadow /\ shadow' \subseteq shadow
<1>1. CASE BootFailed \/ Exit \/ Crash
      BY <1>1 DEF BootFailed, Exit, Crash, Disk!ProcessCrash, Disk!PowerLoss,
                  Disk!FreshWriter
<1>2. CASE BootCreate
      BY <1>2 DEF BootCreate, Disk!BeginWrite
<1>3. CASE BootCreated \/ WriteFailed \/ StoreDurable
      BY <1>3 DEF BootCreated, WriteFailed, StoreDurable, Disk!EndWrite
<1>4. ASSUME NEW added \in SUBSET Fresh, NEW seen \in SUBSET Settled,
             TxnBuild(added, seen)
      PROVE  UNCHANGED <<file, shadow, buf>> /\ (wpc' = wpc \/ wpc = "free")
      BY <1>4 DEF TxnBuild, Disk!BeginWrite, dvars
<1>5. CASE UNCHANGED dvars
      BY <1>5 DEF dvars
<1>6. QED
      BY <1>1, <1>2, <1>3, <1>4, <1>5
      DEF Next, BootStep, Boot, BootLoaded, ManagerStep, PersistStep, TaskStep, StartCheck,
          StartViolation, LoadTemporary, CountViolation, QueuePending, Wake,
          SeeShutdown, Sweep, Decide, Drain, Gather, TxnNothing, TxnFull, TxnStart,
          ConsumePending, Shutdown, Tick, ClockStep, vars

\* The snapshot in force changes at the start, at the end, and by a commit.
LEMMA SnapshotStep ==
  ASSUME TypeOK, [Next]_vars
  PROVE  \/ UNCHANGED durable
         \/ Vanish
         \/ BootLoaded
         \/ BootCreated
         \/ StoreDurable
BY DEF Next, BootStep, Boot, BootLoaded, BootCreate, BootCreated, BootFailed, Exit, Crash,
       ManagerStep, PersistStep, TaskStep, StartCheck,
       StartViolation, LoadTemporary, CountViolation, QueuePending, Wake,
       SeeShutdown, Sweep, Decide, Drain, Gather, TxnNothing, TxnFull, TxnStart,
       TxnBuild, WriteFile, WriteFailed, ConsumePending, Shutdown, Tick,
       ClockStep, vars

\* The candidate is built by the transaction, and forgotten.
LEMMA CandidateStep ==
  ASSUME TypeOK, [Next]_vars
  PROVE  \/ txn'.cand = txn.cand /\ (mpc' = "write" => mpc = "write")
         \/ txn'.cand = NoBlocks /\ mpc' # "write"
         \/ \E added \in SUBSET Fresh, seen \in SUBSET Settled :
              /\ TxnBuild(added, seen) /\ txn'.cand = Candidate(added)
              /\ mpc' = "write" /\ buf' = buf /\ wpc = "free"
<1>1. CASE Vanish
      BY <1>1 DEF Vanish, NoTxn
<1>2. CASE \/ TxnNothing \/ TxnFull \/ WriteFailed \/ ConsumePending
           \/ BootLoaded \/ BootCreated
      BY <1>2 DEF TxnNothing, TxnFull, WriteFailed, ConsumePending,
                  BootLoaded, BootCreated, StartUp, Succeeded, Failed, NoTxn
<1>a. CASE TxnStart
      BY <1>a DEF TxnStart, NoTxn
<1>b. CASE Boot
      BY <1>b DEF Boot, NoTxn
<1>3. ASSUME NEW added \in SUBSET Fresh, NEW seen \in SUBSET Settled,
             TxnBuild(added, seen)
      PROVE  \/ txn'.cand = NoBlocks /\ mpc' # "write"
             \/ /\ txn'.cand = Candidate(added)
                /\ mpc' = "write" /\ buf' = buf /\ wpc = "free"
      BY <1>3 DEF TxnBuild, Failed, NoTxn, Disk!BeginWrite
<1>4. CASE UNCHANGED txn /\ (mpc' = "write" => mpc = "write")
      BY <1>4
<1>5. QED
      BY <1>1, <1>2, <1>a, <1>b, <1>3, <1>4
      DEF Next, BootStep, Boot, BootLoaded, StartUp, BootCreate, BootCreated, BootFailed, Exit,
          Crash, ManagerStep, PersistStep, TaskStep, StartCheck,
          StartViolation, LoadTemporary, CountViolation, QueuePending, Wake,
          SeeShutdown, Sweep, Decide, Drain, Gather, WriteFile, StoreDurable,
          Shutdown, Tick, ClockStep, vars, work

LEMMA ClockFacts ==
  ASSUME TypeOK, [Next]_vars
  PROVE  /\ \/ UNCHANGED <<now, wall>>
            \/ now' = now + 1 /\ wall' = wall + 1
            \/ now' = now /\ steps' # 0
         /\ steps # 0 => steps' # 0
<1>0. steps \in Nat
      BY MoreFacts
<1>1. CASE Tick
      BY <1>1 DEF Tick, bounds
<1>2. CASE ClockStep
      BY <1>0, <1>2 DEF ClockStep
<1>3. CASE UNCHANGED <<now, wall, steps>>
      BY <1>3
<1>4. QED
      BY <1>1, <1>2, <1>3
      DEF Next, BootStep, Boot, BootLoaded, StartUp, BootCreate, BootCreated, BootFailed,
          Exit, Crash, Vanish, ManagerStep, PersistStep, TaskStep, StartCheck,
          StartViolation, LoadTemporary, CountViolation, QueuePending, Wake,
          SeeShutdown, Sweep, Decide, Drain, Gather, TxnNothing, TxnFull, TxnStart,
          TxnBuild, WriteFile, WriteFailed, StoreDurable, ConsumePending,
          Shutdown, vars, clocks, bounds

-----------------------------------------------------------------------------
(* What is written loads again. *)

Contents == {file} \cup shadow

Bounded(blocks) ==
  /\ Cardinality({ip \in IPs : blocks[ip].deadline # 0}) <= MaxBlocked
  /\ \A ip \in IPs : blocks[ip].deadline # 0 =>
                        blocks[ip].expires = blocks[ip].created + Block

\* The snapshot and its candidate are within the limit, and every record in
\* them is one of a day; so is all that is, or may come to be, in the file.
LoadableInv ==
  /\ \A f \in Contents \cup {buf} : f = NoFile \/ Loadable(f)
  /\ Bounded(durable) /\ Bounded(txn.cand)
  /\ wpc = "free" => buf = NoFile

LEMMA NoBlocksBounded == Bounded(NoBlocks)
<1>1. {ip \in IPs : NoBlocks[ip].deadline # 0} = {}
      BY DEF NoBlocks, NoBlock
<1>2. Cardinality({}) = 0 /\ MaxBlocked \in Nat
      BY FS_EmptySet, ConfigAssumption
<1>3. QED
      BY <1>1, <1>2 DEF Bounded

LEMMA TableLoadable ==
  ASSUME NEW blocks \in Snapshot, Bounded(blocks), now \in Nat
  PROVE  Loadable(TableOf(blocks))
<1> SUFFICES ASSUME NEW f, f = TableOf(blocks) PROVE Loadable(f)
    OBVIOUS
<1> DEFINE H == {ip \in IPs : blocks[ip].deadline # 0}
<1>1. f \notin {NoFile, Torn}
      BY TableOfType, ContentFact
<1>2. \A ip \in Listed(f) :
        /\ ip \in IPs /\ blocks[ip].deadline # 0
        /\ f[ip].created = blocks[ip].created /\ f[ip].expires = blocks[ip].expires
      BY DEF Listed, TableOf, Snapshot
<1>3. Cardinality(Listed(f)) <= MaxBlocked
  <2>1. Listed(f) \subseteq H /\ H \subseteq IPs
        BY <1>2
  <2>2. Cardinality(Listed(f)) \in Nat /\ Cardinality(H) \in Nat
        /\ Cardinality(Listed(f)) <= Cardinality(H)
        BY <2>1, FiniteIPs
  <2>3. Cardinality(H) <= MaxBlocked /\ MaxBlocked \in Nat
        BY ConfigAssumption DEF Bounded
  <2>4. QED
        BY <2>2, <2>3
<1>4. \A ip \in Listed(f) : f[ip].expires = f[ip].created + Block
      BY <1>2 DEF Bounded
<1>5. QED
      BY <1>1, <1>3, <1>4 DEF Loadable

LEMMA EmptyLoadable == Loadable(EmptyTable)
<1>1. EmptyTable \in BlockTable /\ Listed(EmptyTable) = {}
      BY DEF EmptyTable, NoRecord, BlockTable, Listed
<1>2. Cardinality({}) = 0 /\ MaxBlocked \in Nat
      BY FS_EmptySet, ConfigAssumption
<1>3. EmptyTable \notin {NoFile, Torn}
      BY <1>1, ContentFact
<1>4. QED
      BY <1>1, <1>2, <1>3 DEF Loadable

\* What the loader makes of a record, by how far ahead of the second seen it
\* ends.
LEMMA LoadedAs ==
  ASSUME TypeOK, NEW f \in BlockTable, NEW seen \in Nat, NEW ip \in IPs
  PROVE  /\ f[ip].expires \in Nat /\ f[ip].created \in Nat
         /\ f[ip].expires <= seen => Loaded(f, seen)[ip] = NoBlock
         /\ \A ahead \in Nat \ {0} : f[ip].expires = seen + ahead =>
              Loaded(f, seen)[ip] =
                IF ahead > Block
                THEN [deadline |-> now + Block, created |-> seen,
                      expires |-> seen + Block]
                ELSE [deadline |-> now + ahead, created |-> f[ip].created,
                      expires |-> f[ip].expires]
<1> DEFINE ahead == Monus(f[ip].expires, seen)
<1>1. f[ip].expires \in Nat /\ f[ip].created \in Nat
      BY DEF BlockTable
<1>2. now \in Nat /\ Block \in Nat
      BY Facts, MoreFacts
<1>3. ahead \in Nat /\ (ahead = 0 => f[ip].expires <= seen)
      /\ (ahead # 0 => f[ip].expires = seen + ahead)
      BY <1>1, <1>2 DEF Monus
<1>4. Loaded(f, seen)[ip] =
        CASE ahead = 0 -> NoBlock
          [] ahead > Block -> [deadline |-> now + Block, created |-> seen,
                               expires |-> seen + Block]
          [] OTHER -> [deadline |-> now + ahead, created |-> f[ip].created,
                       expires |-> f[ip].expires]
      BY DEF Loaded
<1>5. f[ip].expires <= seen => ahead = 0
      BY <1>1, <1>2 DEF Monus
<1>6. \A n \in Nat \ {0} : f[ip].expires = seen + n => ahead = n
      BY <1>1, <1>2 DEF Monus
<1> HIDE DEF ahead
<1>7. ahead = 0 => Loaded(f, seen)[ip] = NoBlock
      BY <1>2, <1>4
<1>8. ahead # 0 => Loaded(f, seen)[ip] =
                IF ahead > Block
                THEN [deadline |-> now + Block, created |-> seen,
                      expires |-> seen + Block]
                ELSE [deadline |-> now + ahead, created |-> f[ip].created,
                      expires |-> f[ip].expires]
      BY <1>2, <1>3, <1>4
<1>9. QED
      BY <1>1, <1>5, <1>6, <1>7, <1>8

\* Of a record it keeps a day at most, and its very end unless that is later.
LEMMA LoadedEnds ==
  ASSUME TypeOK, NEW f \in BlockTable, NEW seen \in Nat, NEW ip \in IPs
  PROVE  /\ Loaded(f, seen)[ip].deadline <= now + Block
         /\ Loaded(f, seen)[ip].deadline # 0 => Loaded(f, seen)[ip].expires <= f[ip].expires
         /\ f[ip].expires <= seen + Block /\ Loaded(f, seen)[ip].deadline # 0 =>
              /\ Loaded(f, seen)[ip].deadline + seen = f[ip].expires + now
              /\ Loaded(f, seen)[ip].expires = f[ip].expires
<1>0. now \in Nat /\ Block \in Nat
      BY Facts, MoreFacts
<1>1. CASE f[ip].expires <= seen
  <2>0. Loaded(f, seen)[ip] = NoBlock
        BY <1>1, LoadedAs, Zenon
  <2>1. Loaded(f, seen)[ip].deadline = 0
        BY <2>0 DEF NoBlock
  <2>2. 0 <= now + Block
        BY <1>0
  <2>3. QED
        BY <2>1, <2>2
<1>2. CASE ~ f[ip].expires <= seen
  <2>1. f[ip].expires \in Nat
        BY LoadedAs
  <2>2. f[ip].expires - seen \in Nat \ {0}
        /\ f[ip].expires = seen + (f[ip].expires - seen)
        BY <1>0, <1>2, <2>1
  <2>3. PICK ahead \in Nat \ {0} : f[ip].expires = seen + ahead
        BY <2>2
  <2>4. Loaded(f, seen)[ip] =
                IF ahead > Block
                THEN [deadline |-> now + Block, created |-> seen,
                      expires |-> seen + Block]
                ELSE [deadline |-> now + ahead, created |-> f[ip].created,
                      expires |-> f[ip].expires]
        BY <2>3, LoadedAs
  <2>5. CASE ahead > Block
    <3>1. Loaded(f, seen)[ip].deadline = now + Block
          /\ Loaded(f, seen)[ip].expires = seen + Block
          BY <2>4, <2>5
    <3>2. QED
          BY <1>0, <2>3, <2>5, <3>1
  <2>6. CASE ~ ahead > Block
    <3>1. Loaded(f, seen)[ip].deadline = now + ahead
          /\ Loaded(f, seen)[ip].expires = f[ip].expires
          BY <2>4, <2>6
    <3>2. QED
          BY <1>0, <2>1, <2>3, <2>6, <3>1
  <2>7. QED
        BY <2>5, <2>6
<1>3. QED
      BY <1>1, <1>2

\* What the loader makes of a file it accepts.
LEMMA LoadedBounded ==
  ASSUME TypeOK, NEW f \in BlockTable, NEW seen \in Nat, Loadable(f)
  PROVE  Bounded(Loaded(f, seen))
<1> DEFINE H == {ip \in IPs : Loaded(f, seen)[ip].deadline # 0}
<1>0. now \in Nat /\ Block \in Nat
      BY Facts, MoreFacts
<1>1. ASSUME NEW ip \in IPs, Loaded(f, seen)[ip].deadline # 0
      PROVE  ip \in Listed(f) /\ Loaded(f, seen)[ip].expires = Loaded(f, seen)[ip].created + Block
  <2>0. f[ip].expires \in Nat /\ f[ip].expires > seen
    <3>1. Loaded(f, seen)[ip] # NoBlock
          BY <1>1 DEF NoBlock
    <3>2. f[ip].expires \in Nat /\ ~ f[ip].expires <= seen
          BY <3>1, LoadedAs
    <3>3. QED
          BY <1>0, <3>2
  <2>1. PICK ahead \in Nat \ {0} : f[ip].expires = seen + ahead
    <3>1. f[ip].expires - seen \in Nat \ {0} /\ f[ip].expires = seen + (f[ip].expires - seen)
          BY <1>0, <2>0
    <3>2. QED
          BY <3>1
  <2>2. f[ip] # NoRecord
        BY <1>0, <2>0 DEF NoRecord
  <2>3. ip \in Listed(f)
        BY <2>2 DEF Listed
  <2>4. f[ip].expires = f[ip].created + Block
        BY <2>3 DEF Loadable
  <2>5. \/ Loaded(f, seen)[ip] = [deadline |-> now + ahead, created |-> f[ip].created,
                            expires |-> f[ip].expires]
        \/ Loaded(f, seen)[ip] = [deadline |-> now + Block, created |-> seen,
                            expires |-> seen + Block]
        BY <2>1, LoadedAs
  <2>6. QED
        BY <2>3, <2>4, <2>5
<1>2. H \subseteq Listed(f) /\ Listed(f) \subseteq IPs
      BY <1>1 DEF Listed
<1>3. Cardinality(H) \in Nat /\ Cardinality(Listed(f)) \in Nat
      /\ Cardinality(H) <= Cardinality(Listed(f))
      BY <1>2, FiniteIPs
<1>4. Cardinality(Listed(f)) <= MaxBlocked /\ MaxBlocked \in Nat
      BY ConfigAssumption DEF Loadable
<1>5. Cardinality(H) <= MaxBlocked
      BY <1>3, <1>4
<1>6. QED
      BY <1>1, <1>5 DEF Bounded

\* The candidate: what is kept, and as much more as there is room for.
LEMMA CandidateBounded ==
  ASSUME TypeOK, Bounded(durable), NEW added \in SUBSET Fresh,
         Cardinality(added) <= Room
  PROVE  Bounded(Candidate(added))
<1> DEFINE H == {ip \in IPs : Candidate(added)[ip].deadline # 0}
<1>0. /\ txn.at \in Nat /\ WholeSeconds(wall) \in Nat
      /\ Block \in Nat /\ MaxBlocked \in Nat
      BY Facts, MoreFacts, Seconds, ConfigAssumption
<1>1. added \subseteq IPs /\ Retained \subseteq Held /\ Held \subseteq IPs /\ Retained \subseteq IPs
      BY Facts DEF Fresh, Retained, Held, TypeOK, ManagerTypes
<1>2. Cardinality(added) \in Nat /\ Cardinality(Retained) \in Nat /\ Cardinality(Held) \in Nat
      /\ Cardinality(Retained) <= Cardinality(Held)
      BY <1>1, FiniteIPs
<1>3. Cardinality(Held) <= MaxBlocked
      BY DEF Bounded, Held
<1>4. Cardinality(added) + Cardinality(Retained) <= MaxBlocked
      BY <1>0, <1>2, <1>3 DEF Room, Monus
<1>5. H \subseteq added \cup Retained /\ added \cup Retained \subseteq IPs
      BY <1>1 DEF Candidate, NoBlock
<1>6. IsFiniteSet(added) /\ IsFiniteSet(Retained)
      BY <1>1, ConfigAssumption, FS_Subset
<1>7. Cardinality(added \cup Retained) <= Cardinality(added) + Cardinality(Retained)
  <2>1. Cardinality(added \cup Retained) =
          Cardinality(added) + Cardinality(Retained) - Cardinality(added \cap Retained)
        BY <1>6, FS_Union
  <2>2. Cardinality(added \cap Retained) \in Nat
        BY <1>1, FiniteIPs
  <2>3. QED
        BY <1>2, <2>1, <2>2
<1>8. Cardinality(H) \in Nat /\ Cardinality(added \cup Retained) \in Nat
      /\ Cardinality(H) <= Cardinality(added \cup Retained)
      BY <1>5, FiniteIPs
<1>9. Cardinality(H) <= MaxBlocked
      BY <1>0, <1>2, <1>4, <1>7, <1>8
<1>10. \A ip \in IPs : Candidate(added)[ip].deadline # 0 =>
         Candidate(added)[ip].expires = Candidate(added)[ip].created + Block
  <2>1. \A ip \in IPs : ip \in Retained => durable[ip].deadline # 0
        BY <1>1 DEF Held
  <2>2. QED
        BY <1>0, <2>1 DEF Candidate, Bounded, NoBlock
<1>11. QED
      BY <1>9, <1>10 DEF Bounded

LEMMA LoadableInit == Init => LoadableInv
<1> SUFFICES ASSUME Init PROVE LoadableInv
    OBVIOUS
<1>1. file = NoFile /\ shadow = {} /\ buf = NoFile /\ durable = NoBlocks
      /\ txn.cand = NoBlocks
      BY DEF Init, NoTxn
<1>2. QED
      BY <1>1, NoBlocksBounded DEF LoadableInv, Contents

LEMMA LoadableStep ==
  ASSUME TypeOK, Writer!WriterInv, LoadableInv, [Next]_vars
  PROVE  LoadableInv'
<1>0. /\ \A f \in Contents \cup {buf} : f = NoFile \/ Loadable(f)
      /\ Bounded(durable) /\ Bounded(txn.cand) /\ (wpc = "free" => buf = NoFile)
      BY DEF LoadableInv
<1>1. \A f \in Contents' \cup {buf'} : f = NoFile \/ Loadable(f)
  <2>1. CASE WriteFile
    <3>1. Loadable(EmptyTable) /\ Loadable(TableOf(txn.cand))
          BY <1>0, EmptyLoadable, TableLoadable, Facts, MoreFacts
    <3>2. QED
          BY <1>0, <2>1, <3>1, WriterCall DEF Contents
  <2>2. CASE ~ WriteFile
        BY <1>0, <2>2, OnlyWriter DEF Contents
  <2>3. QED
        BY <2>1, <2>2
<1>2. Bounded(durable')
  <2>1. CASE Vanish \/ BootCreated
        BY <2>1, NoBlocksBounded DEF Vanish, BootCreated, StartUp
  <2>2. CASE BootLoaded
    <3>1. file \in BlockTable /\ Loadable(file) /\ txn.wall \in Nat
          BY <2>2, MoreFacts DEF BootLoaded, Loadable
    <3>2. QED
          BY <2>2, <3>1, LoadedBounded DEF BootLoaded, StartUp
  <2>3. CASE StoreDurable
        BY <1>0, <2>3 DEF StoreDurable
  <2>4. CASE UNCHANGED durable
        BY <1>0, <2>4
  <2>5. QED
        BY <2>1, <2>2, <2>3, <2>4, SnapshotStep
<1>3. Bounded(txn'.cand)
  <2>1. ASSUME NEW added \in SUBSET Fresh, NEW seen \in SUBSET Settled,
               TxnBuild(added, seen)
        PROVE  Bounded(Candidate(added))
    <3>1. Cardinality(added) = Least(Room, Cardinality(Fresh))
          BY <2>1 DEF TxnBuild
    <3>2. Fresh \in SUBSET IPs /\ Retained \in SUBSET IPs
          BY Facts DEF Fresh, Retained, TypeOK, ManagerTypes
    <3>3. Cardinality(Fresh) \in Nat /\ Cardinality(Retained) \in Nat
          BY <3>2, FiniteIPs
    <3>4. Room \in Nat
          BY <3>3, ConfigAssumption DEF Room, Monus
    <3>5. Cardinality(added) <= Room
          BY <3>1, <3>3, <3>4 DEF Least
    <3>6. QED
          BY <1>0, <3>5, CandidateBounded
  <2>2. QED
        BY <1>0, <2>1, CandidateStep, NoBlocksBounded
<1>4. wpc' = "free" => buf' = NoFile
  <2>1. CASE WriteFile
        BY <2>1, WriterCall
  <2>2. CASE ~ WriteFile
        BY <1>0, <2>2, OnlyWriter
  <2>3. QED
        BY <2>1, <2>2
<1>5. QED
      BY <1>1, <1>2, <1>3, <1>4 DEF LoadableInv, Contents

-----------------------------------------------------------------------------
(* What is in force is in the file. *)

LEMMA RunningStep ==
  ASSUME [Next]_vars, Running'
  PROVE  Running \/ BootLoaded \/ BootCreated
BY DEF Running, Next, BootStep, Boot, BootCreate, BootFailed, Exit, Crash, Vanish,
       ManagerStep, PersistStep, TaskStep, StartCheck, StartViolation,
       LoadTemporary, CountViolation, QueuePending, Wake, SeeShutdown, Sweep,
       Decide, Drain, Gather, TxnNothing, TxnFull, TxnStart, TxnBuild, WriteFile,
       WriteFailed, StoreDurable, ConsumePending, Shutdown, Tick, ClockStep, vars

\* The first round is over with a forced compaction, and not without.
Compacted == ~ first \/ (accepting /\ mpc = "consume")

LEMMA CompactedStep ==
  ASSUME TypeOK, [Next]_vars, Compacted'
  PROVE  Compacted \/ StoreDurable \/ ~ Running'
<1>1. CASE BootLoaded \/ BootCreated
      BY <1>1 DEF BootLoaded, BootCreated, StartUp, Compacted
<1>2. CASE Vanish
      BY <1>2 DEF Vanish, Running
<1>3. CASE TxnNothing
      BY <1>3 DEF TxnNothing, NothingToDo, Succeeded, locals, ForceCompaction, Compacted
<1>4. ASSUME NEW added \in SUBSET Fresh, NEW seen \in SUBSET Settled,
             TxnBuild(added, seen)
      PROVE  Compacted
      BY <1>4 DEF TxnBuild, Failed, locals, ForceCompaction, Compacted
<1>5. CASE ConsumePending
      BY <1>5 DEF ConsumePending, Succeeded, locals, Compacted
<1>6. CASE TxnFull \/ WriteFailed
      BY <1>6 DEF TxnFull, TxnStart, WriteFailed, Failed, locals, Compacted
<1>7. CASE first' = first /\ mpc' # "consume"
      BY <1>7 DEF Compacted
<1>8. CASE UNCHANGED <<first, accepting, mpc>>
      BY <1>8 DEF Compacted
<1>9. CASE ManagerStep
  <2>1. CASE Sweep
        BY <1>7, <2>1 DEF Sweep
  <2>2. CASE Decide
        BY <1>7, <2>2 DEF Decide, locals
  <2>3. CASE Drain
        BY <1>7, <2>3 DEF Drain, locals
  <2>4. CASE Gather \/ TxnStart
        BY <1>7, <2>4 DEF Gather, TxnStart, locals
  <2>5. CASE WriteFile
        BY <1>8, <2>5 DEF WriteFile, locals
  <2>6. QED
        BY <1>3, <1>4, <1>5, <1>6, <1>9, <2>1, <2>2, <2>3, <2>4, <2>5
        DEF ManagerStep, PersistStep
<1>10. CASE BootStep \/ Exit \/ Crash
  <2>1. CASE Boot \/ BootCreate
        BY <1>7, <2>1 DEF Boot, BootCreate, locals
  <2>2. QED
        BY <1>1, <1>2, <1>10, <2>1 DEF BootStep, BootFailed, Exit, Crash
<1>11. CASE Wake \/ SeeShutdown
       BY <1>7, <1>11 DEF Wake, SeeShutdown, locals
<1>12. ASSUME NEW t \in Tasks, TaskStep(t)
       PROVE  UNCHANGED <<first, accepting, mpc>>
       BY <1>12 DEF TaskStep, StartCheck, StartViolation, LoadTemporary,
                    CountViolation, QueuePending, locals
<1>13. CASE Shutdown \/ Tick \/ ClockStep \/ UNCHANGED vars
       BY <1>8, <1>13 DEF Shutdown, Tick, ClockStep, vars, locals
<1>14. QED
       BY <1>8, <1>9, <1>10, <1>11, <1>12, <1>13 DEF Next

Record(block) == [created |-> block.created, expires |-> block.expires]
Exact(f, ip) == f # NoFile /\ f[ip] = Record(durable[ip])

FileInv == Running => file \in BlockTable

\* A block in force is in the file, and once the table has been compacted it
\* is in whatever a power loss may bring back.
OnDiskInv ==
  Running => \A ip \in Kept :
    /\ file[ip].expires >= durable[ip].expires
    /\ Compacted => \A f \in Contents : Exact(f, ip)

\* The candidate keeps every block in force, and so do the bytes made of it.
WriteInv ==
  mpc = "write" =>
    /\ \A ip \in Kept : txn.cand[ip] = durable[ip]
    /\ buf # NoFile => \A ip \in IPs :
         txn.cand[ip].deadline > now => buf[ip] = Record(txn.cand[ip])

LEMMA FileStep ==
  ASSUME TypeOK, Writer!WriterInv, FileInv, [Next]_vars
  PROVE  FileInv'
<1> SUFFICES ASSUME Running' PROVE file' \in BlockTable
    BY DEF FileInv
<1>1. CASE WriteFile
      BY <1>1, WriterCall DEF FileInv, Running
<1>2. CASE ~ WriteFile
  <2>1. UNCHANGED file
        BY <1>2, OnlyWriter DEF Vanish, Running
  <2>2. CASE BootLoaded
        BY <2>1, <2>2, MoreFacts DEF BootLoaded, Loadable
  <2>3. CASE BootCreated
        BY <2>1, <2>3 DEF BootCreated, Writer!WriterInv
  <2>4. QED
        BY <2>1, <2>2, <2>3, RunningStep DEF FileInv
<1>3. QED
      BY <1>1, <1>2

LEMMA KeptStep ==
  ASSUME TypeOK, [Next]_vars, UNCHANGED durable
  PROVE  Kept' \subseteq Kept /\ now' >= now
<1>1. now \in Nat /\ now' >= now /\ now' \in Nat
      BY Facts, ClockFacts
<1>2. QED
      BY <1>1, Facts DEF Kept

LEMMA WriteInvStep ==
  ASSUME TypeOK, ReadingsClose, Writer!WriterInv, LoadableInv, WriteInv, [Next]_vars
  PROVE  WriteInv'
<1> SUFFICES ASSUME mpc' = "write" PROVE WriteInv'
    BY DEF WriteInv
<1>0. UNCHANGED durable
      BY SnapshotStep DEF Vanish, Boot, BootLoaded, BootCreated, StartUp, StoreDurable
<1>1. Kept' \subseteq Kept /\ now' >= now /\ now \in Nat /\ now' \in Nat
      BY <1>0, KeptStep, Facts, ClockFacts
<1>2. CASE txn'.cand = txn.cand /\ mpc = "write"
  <2>1. \A ip \in Kept' : txn'.cand[ip] = durable'[ip]
        BY <1>0, <1>1, <1>2 DEF WriteInv
  <2>2. ASSUME buf' # NoFile, NEW ip \in IPs, txn'.cand[ip].deadline > now'
        PROVE  buf'[ip] = Record(txn'.cand[ip])
    <3>1. txn.cand[ip].deadline > now
          BY <1>1, <1>2, <2>2, Facts
    <3>2. CASE buf' = buf
          BY <1>2, <2>2, <3>1, <3>2 DEF WriteInv
    <3>3. CASE buf' = TableOf(txn.cand)
          BY <1>2, <3>1, <3>3 DEF TableOf, Record
    <3>4. QED
          BY <1>2, <2>2, <3>2, <3>3, WriterCall, OnlyWriter
  <2>3. QED
        BY <2>1, <2>2 DEF WriteInv
<1>3. ASSUME NEW added \in SUBSET Fresh, txn'.cand = Candidate(added),
             mpc = "build", buf' = buf, wpc = "free"
      PROVE  WriteInv'
  <2>1. buf' = NoFile
        BY <1>3 DEF LoadableInv
  <2>2. \A ip \in Kept' : txn'.cand[ip] = durable'[ip]
    <3>1. \A ip \in Kept : ip \in IPs /\ ip \in Retained /\ ip \notin added
          BY <1>3, Facts DEF Fresh, Kept, Retained, ReadingsClose
    <3>2. QED
          BY <1>0, <1>1, <1>3, <3>1 DEF Candidate
  <2>3. QED
        BY <2>1, <2>2 DEF WriteInv
<1>4. QED
      BY <1>2, <1>3, CandidateStep DEF TxnBuild

LEMMA OnDiskStep ==
  ASSUME TypeOK, Writer!WriterInv, FileInv, OnDiskInv, WriteInv, [Next]_vars
  PROVE  OnDiskInv'
<1> SUFFICES ASSUME Running' PROVE OnDiskInv'
    BY DEF OnDiskInv
<1>0. now \in Nat /\ txn.wall \in Nat /\ Block \in Nat
      BY Facts, MoreFacts
<1>1. CASE WriteFile
  <2>1. /\ Running /\ mpc = "write" /\ Kept' = Kept /\ Compacted' = Compacted
        /\ UNCHANGED durable
        BY <1>1, WriterCall DEF Running, Kept, Compacted
  <2>2. CASE UNCHANGED <<file, shadow>>
        BY <2>1, <2>2 DEF OnDiskInv, Exact, Contents
  <2>3. CASE UNCHANGED file /\ shadow' = {}
        BY <2>1, <2>3 DEF OnDiskInv, Exact, Contents
  <2>4. CASE file' = buf /\ shadow' = shadow \cup {file} /\ buf \in BlockTable
    <3>1. buf # NoFile
          BY <2>4, ContentFact
    <3>2. ASSUME NEW ip \in Kept
          PROVE  Exact(buf, ip) /\ buf[ip].expires = durable[ip].expires
      <4>1. ip \in IPs /\ durable[ip].deadline > now /\ txn.cand[ip] = durable[ip]
            BY <2>1, <3>2 DEF Kept, WriteInv
      <4>2. buf[ip] = Record(durable[ip])
            BY <2>1, <3>1, <4>1 DEF WriteInv
      <4>3. QED
            BY <3>1, <4>2 DEF Exact, Record
    <3>3. \A ip \in Kept : buf[ip].expires >= durable[ip].expires
          BY <3>2, MoreFacts DEF Kept, Snapshot
    <3>4. QED
          BY <2>1, <2>4, <3>2, <3>3 DEF OnDiskInv, Exact, Contents
  <2>5. QED
        BY <1>1, <2>2, <2>3, <2>4, WriterCall
<1>2. CASE ~ WriteFile
  <2>1. UNCHANGED <<file, shadow>> /\ ~ Vanish
        BY <1>2, OnlyWriter DEF Vanish, Running
  <2>2. CASE StoreDurable
    <3>1. /\ mpc = "write" /\ wpc = "ok" /\ durable' = txn.cand /\ now' = now
          BY <2>2 DEF StoreDurable, clocks
    <3>2. buf \in BlockTable /\ buf # NoFile /\ file = buf /\ shadow = {}
          BY <3>1, ContentFact DEF Writer!WriterInv
    <3>3. ASSUME NEW ip \in Kept'
          PROVE  /\ file'[ip].expires >= durable'[ip].expires
                 /\ \A f \in Contents' : f # NoFile /\ f[ip] = Record(durable'[ip])
      <4>1. ip \in IPs /\ txn.cand[ip].deadline > now
            BY <3>1, <3>3 DEF Kept
      <4>2. buf[ip] = Record(txn.cand[ip])
            BY <3>1, <3>2, <4>1 DEF WriteInv
      <4>3. buf[ip].expires = txn.cand[ip].expires /\ txn.cand[ip].expires \in Nat
            BY <4>1, <4>2, MoreFacts DEF Record, Snapshot
      <4>4. QED
            BY <2>1, <3>1, <3>2, <4>2, <4>3 DEF Contents
    <3>4. QED
          BY <3>3 DEF OnDiskInv, Exact
  <2>3. CASE BootLoaded
    <3>1. file \in BlockTable /\ durable' = Loaded(file, txn.wall) /\ now' = now /\ ~ Compacted'
          BY <2>3, MoreFacts DEF BootLoaded, StartUp, Loadable, Compacted, clocks
    <3>2. ASSUME NEW ip \in Kept'
          PROVE  file[ip].expires >= durable'[ip].expires
      <4>1. ip \in IPs /\ Loaded(file, txn.wall)[ip].deadline > now
            BY <3>1, <3>2 DEF Kept
      <4>2. Loaded(file, txn.wall)[ip].expires <= file[ip].expires
            BY <1>0, <3>1, <4>1, LoadedEnds
      <4>3. Loaded(file, txn.wall)[ip].expires \in Nat /\ file[ip].expires \in Nat
            BY <1>0, <3>1, <4>1, LoadedType DEF Snapshot, BlockTable
      <4>4. QED
            BY <3>1, <4>2, <4>3
    <3>3. QED
          BY <2>1, <3>1, <3>2 DEF OnDiskInv
  <2>4. CASE BootCreated
    <3>1. durable' = NoBlocks /\ now' = now
          BY <2>4 DEF BootCreated, StartUp, clocks
    <3>2. Kept' = {}
          BY <1>0, <3>1 DEF Kept, NoBlocks, NoBlock
    <3>3. QED
          BY <3>2 DEF OnDiskInv
  <2>5. CASE ~ (StoreDurable \/ BootLoaded \/ BootCreated)
    <3>1. UNCHANGED durable /\ Running /\ (Compacted' => Compacted)
          BY <2>1, <2>5, SnapshotStep, RunningStep, CompactedStep
    <3>2. Kept' \subseteq Kept
          BY <3>1, KeptStep
    <3>3. QED
          BY <2>1, <3>1, <3>2 DEF OnDiskInv, Exact, Contents
  <2>6. QED
        BY <2>2, <2>3, <2>4, <2>5
<1>3. QED
      BY <1>1, <1>2

-----------------------------------------------------------------------------
(* What is on disk starts again for as long as it had to go. *)

Day(blocks) == \A ip \in IPs : blocks[ip].deadline <= now + Block

\* No block, in force or about to be, is longer than a day from now.
DeadlineInv == Day(durable) /\ Day(txn.cand)

\* At times n and w of the two clocks: a block and its record end at the same
\* time, to within a second and the time between two readings.
CloseAt(block, n, w) ==
  block.deadline # 0 =>
    /\ block.expires + n <= block.deadline + w + Lag
    /\ block.deadline + w < block.expires + n + Second + Lag
    /\ block.expires <= WholeSeconds(w) + Block

Aligned(blocks) == \A ip \in IPs : CloseAt(blocks[ip], now, wall)

\* What load has read of the wall clock, and what it is about to load.
SeenInv ==
  mpc = "load" =>
    /\ txn.wall + now <= wall + txn.at
    /\ wall + txn.at < txn.wall + now + Second
    /\ \A f \in Contents : f # NoFile =>
         \A ip \in IPs : f[ip].expires <= txn.wall + Block

\* Until the wall clock is set, the two clocks go together.
TimeInv ==
  steps = 0 =>
    /\ \A f \in Contents \cup {buf} : f # NoFile =>
         \A ip \in IPs : f[ip].expires <= WholeSeconds(wall) + Block
    /\ Aligned(durable) /\ Aligned(txn.cand)
    /\ SeenInv
    /\ Running => \A ip \in Kept : file[ip].expires = durable[ip].expires

LEMMA DeadlineStep ==
  ASSUME TypeOK, ReadingsClose, DeadlineInv, [Next]_vars
  PROVE  DeadlineInv'
<1>0. now \in Nat /\ now' \in Nat /\ now' >= now /\ Block \in Nat
      BY Facts, MoreFacts, ClockFacts
<1>1. Day(durable) /\ Day(txn.cand) /\ durable \in Snapshot /\ txn.cand \in Snapshot
      BY MoreFacts DEF DeadlineInv
<1>2. ASSUME NEW blocks \in Snapshot, Day(blocks)
      PROVE  \A ip \in IPs : blocks[ip].deadline <= now' + Block
      BY <1>0, <1>2 DEF Day, Snapshot
<1>3. \A ip \in IPs : NoBlocks[ip].deadline <= now' + Block
      BY <1>0 DEF NoBlocks, NoBlock
<1>4. \A ip \in IPs : durable'[ip].deadline <= now' + Block
  <2>1. CASE UNCHANGED durable
        BY <1>1, <1>2, <2>1
  <2>2. CASE Vanish \/ BootCreated
        BY <1>3, <2>2 DEF Vanish, BootCreated, StartUp
  <2>3. CASE BootLoaded
    <3>1. file \in BlockTable /\ durable' = Loaded(file, txn.wall) /\ now' = now
          /\ txn.wall \in Nat
          BY <2>3, MoreFacts DEF BootLoaded, StartUp, Loadable, clocks
    <3>2. QED
          BY <3>1, LoadedEnds
  <2>4. CASE StoreDurable
        BY <1>1, <1>2, <2>4 DEF StoreDurable
  <2>5. QED
        BY <2>1, <2>2, <2>3, <2>4, SnapshotStep
<1>5. \A ip \in IPs : txn'.cand[ip].deadline <= now' + Block
  <2>1. ASSUME NEW added \in SUBSET Fresh, NEW ip \in IPs, mpc = "build"
        PROVE  Candidate(added)[ip].deadline <= now' + Block
    <3>1. txn.at \in Nat /\ txn.at <= now'
          BY <1>0, <2>1, Facts DEF ReadingsClose
    <3>2. QED
          BY <1>0, <1>1, <1>2, <3>1 DEF Candidate, NoBlock
  <2>2. QED
        BY <1>1, <1>2, <1>3, <2>1, CandidateStep DEF TxnBuild
<1>6. QED
      BY <1>4, <1>5 DEF DeadlineInv, Day

\* Between its two readings load has only begun.
LEMMA LoadStep ==
  ASSUME [Next]_vars, mpc' = "load", ~ Boot
  PROVE  mpc = "load" /\ UNCHANGED <<txn, file, shadow>>
BY DEF Next, BootStep, BootLoaded, StartUp, BootCreate, BootCreated, BootFailed,
       Exit, Crash, Vanish, ManagerStep, PersistStep, TaskStep, StartCheck,
       StartViolation, LoadTemporary, CountViolation, QueuePending, Wake,
       SeeShutdown, Sweep, Decide, Drain, Gather, TxnNothing, TxnFull, TxnStart,
       TxnBuild, Succeeded, Failed, WriteFile, WriteFailed, StoreDurable,
       ConsumePending, Shutdown, Tick, ClockStep, vars, work, dvars

LEMMA TimeStep ==
  ASSUME TypeOK, ReadingsClose, Writer!WriterInv, LoadableInv, FileInv, WriteInv,
         TimeInv, [Next]_vars
  PROVE  TimeInv'
<1> SUFFICES ASSUME steps' = 0 PROVE TimeInv'
    BY DEF TimeInv
<1>0. /\ now \in Nat /\ wall \in Nat /\ Block \in Nat /\ steps = 0
      /\ now' \in Nat /\ wall' \in Nat /\ Second \in Nat /\ Lag \in Nat
      /\ (now' = now /\ wall' = wall) \/ (now' = now + 1 /\ wall' = wall + 1)
      BY Facts, MoreFacts, ClockFacts, ConfigAssumption
<1>a. /\ WholeSeconds(wall) \in Nat /\ WholeSeconds(wall') \in Nat
      /\ WholeSeconds(wall) <= wall /\ wall < WholeSeconds(wall) + Second
      /\ WholeSeconds(wall) <= WholeSeconds(wall')
  <2>1. /\ WholeSeconds(wall) \in Nat /\ WholeSeconds(wall') \in Nat
        /\ WholeSeconds(wall) <= wall /\ wall < WholeSeconds(wall) + Second
        /\ WholeSeconds(wall) <= WholeSeconds(wall + 1)
        BY <1>0, Seconds
  <2>2. CASE wall' = wall
        BY <2>1, <2>2
  <2>3. CASE wall' = wall + 1
        BY <2>1, <2>3
  <2>4. QED
        BY <1>0, <2>2, <2>3
<1>1. Aligned(durable) /\ Aligned(txn.cand) /\ durable \in Snapshot
      /\ txn.cand \in Snapshot
      BY <1>0, MoreFacts DEF TimeInv
<1>2. \A f \in Contents \cup {buf} : f # NoFile =>
        /\ f \in BlockTable
        /\ \A ip \in IPs : f[ip].expires <= WholeSeconds(wall) + Block
  <2>1. \A f \in Contents \cup {buf} : f # NoFile => f \in BlockTable
        BY MoreFacts DEF LoadableInv, Loadable, Contents
  <2>2. QED
        BY <1>0, <2>1 DEF TimeInv
<1>3. \A f \in Contents' \cup {buf'} : f # NoFile =>
        \A ip \in IPs : f[ip].expires <= WholeSeconds(wall') + Block
  <2>1. ASSUME NEW f \in Contents \cup {buf}, f # NoFile, NEW ip \in IPs
        PROVE  f[ip].expires <= WholeSeconds(wall') + Block
    <3>1. f[ip].expires \in Nat /\ f[ip].expires <= WholeSeconds(wall) + Block
          BY <1>2, <2>1 DEF BlockTable
    <3>2. QED
          BY <1>0, <1>a, <3>1
  <2>2. \A ip \in IPs : EmptyTable[ip].expires <= WholeSeconds(wall') + Block
        BY <1>0, <1>a DEF EmptyTable, NoRecord
  <2>3. ASSUME NEW ip \in IPs
        PROVE  TableOf(txn.cand)[ip].expires <= WholeSeconds(wall') + Block
    <3>1. CASE txn.cand[ip].deadline > now
      <4>1. TableOf(txn.cand)[ip].expires = txn.cand[ip].expires
            BY <3>1 DEF TableOf
      <4>2. /\ txn.cand[ip].expires \in Nat
            /\ txn.cand[ip].expires <= WholeSeconds(wall) + Block
        <5>1. txn.cand[ip].deadline \in Nat /\ txn.cand[ip].expires \in Nat
              BY <1>1 DEF Snapshot
        <5>2. txn.cand[ip].deadline # 0
              BY <1>0, <3>1, <5>1
        <5>3. QED
              BY <1>1, <5>1, <5>2 DEF Aligned, CloseAt
      <4>3. QED
            BY <1>0, <1>a, <4>1, <4>2
    <3>2. CASE ~ txn.cand[ip].deadline > now
          BY <1>0, <1>a, <3>2 DEF TableOf, NoRecord
    <3>3. QED
          BY <3>1, <3>2
  <2>4. CASE WriteFile
        BY <2>1, <2>2, <2>3, <2>4, WriterCall DEF Contents
  <2>5. CASE ~ WriteFile
        BY <2>1, <2>5, OnlyWriter DEF Contents
  <2>6. QED
        BY <2>4, <2>5
<1>4. ASSUME NEW blocks \in Snapshot, Aligned(blocks), NEW ip \in IPs
      PROVE  CloseAt(blocks[ip], now', wall')
  <2>1. blocks[ip].deadline \in Nat /\ blocks[ip].expires \in Nat
        BY DEF Snapshot
  <2>2. CloseAt(blocks[ip], now, wall)
        BY <1>4 DEF Aligned
  <2>3. QED
        BY <1>0, <1>a, <2>1, <2>2 DEF CloseAt
<1>5. \A ip \in IPs : NoBlocks[ip].deadline = 0
      BY DEF NoBlocks, NoBlock
<1>6. ASSUME BootLoaded, NEW ip \in IPs, durable'[ip].deadline # 0
      PROVE  /\ CloseAt(durable'[ip], now', wall')
             /\ file'[ip].expires = durable'[ip].expires
  <2>1. /\ file \in BlockTable /\ durable' = Loaded(file, txn.wall)
        /\ UNCHANGED <<file, now, wall>> /\ mpc = "load"
        /\ txn.wall \in Nat /\ txn.at \in Nat
        BY <1>6, Facts, MoreFacts DEF BootLoaded, StartUp, Loadable, clocks, dvars
  <2>2. /\ file[ip].expires <= txn.wall + Block
        /\ file[ip].expires <= WholeSeconds(wall) + Block
        /\ txn.wall + now <= wall + txn.at
        /\ wall + txn.at < txn.wall + now + Second
        BY <1>0, <2>1, ContentFact DEF TimeInv, SeenInv, Contents
  <2>3. txn.at <= now /\ now <= txn.at + Lag
        BY <2>1 DEF ReadingsClose
  <2>4. /\ durable'[ip].deadline + txn.wall = file[ip].expires + now
        /\ durable'[ip].expires = file[ip].expires
        BY <1>6, <2>1, <2>2, LoadedEnds
  <2>5. durable'[ip].deadline \in Nat /\ file[ip].expires \in Nat
    <3>1. Loaded(file, txn.wall) \in Snapshot
          BY <1>0, <2>1, LoadedType
    <3>2. QED
          BY <2>1, <3>1 DEF Snapshot, BlockTable
  <2>6. /\ file[ip].expires + now <= durable'[ip].deadline + wall + Lag
        /\ durable'[ip].deadline + wall < file[ip].expires + now + Second + Lag
        BY <1>0, <2>1, <2>2, <2>3, <2>4, <2>5
  <2>7. QED
        BY <2>1, <2>2, <2>4, <2>6 DEF CloseAt
<1>7. ASSUME NEW ip \in IPs PROVE CloseAt(durable'[ip], now', wall')
  <2>1. CASE UNCHANGED durable
        BY <1>1, <1>4, <2>1
  <2>2. CASE Vanish \/ BootCreated
        BY <1>5, <2>2 DEF Vanish, BootCreated, StartUp, CloseAt
  <2>3. CASE BootLoaded
    <3>1. CASE durable'[ip].deadline = 0
          BY <3>1 DEF CloseAt
    <3>2. QED
          BY <1>6, <2>3, <3>1
  <2>4. CASE StoreDurable
        BY <1>1, <1>4, <2>4 DEF StoreDurable
  <2>5. QED
        BY <2>1, <2>2, <2>3, <2>4, SnapshotStep
<1>8. ASSUME NEW ip \in IPs PROVE CloseAt(txn'.cand[ip], now', wall')
  <2>1. ASSUME NEW added \in SUBSET Fresh, NEW seen \in SUBSET Settled,
               TxnBuild(added, seen)
        PROVE  CloseAt(Candidate(added)[ip], now', wall')
    <3>1. UNCHANGED <<now, wall>> /\ mpc = "build"
          BY <2>1 DEF TxnBuild, clocks
    <3>2. txn.at \in Nat /\ txn.at <= now /\ now <= txn.at + Lag
          BY <3>1, Facts DEF ReadingsClose
    <3>3. CASE ip \in added
      <4>1. /\ Candidate(added)[ip].deadline = txn.at + Block
            /\ Candidate(added)[ip].expires = WholeSeconds(wall) + Block
            BY <3>3 DEF Candidate
      <4>2. QED
            BY <1>0, <1>a, <3>1, <3>2, <4>1 DEF CloseAt
    <3>4. CASE ip \notin added /\ ip \in Retained
          BY <1>1, <1>4, <3>4 DEF Candidate
    <3>5. CASE ip \notin added /\ ip \notin Retained
          BY <3>5 DEF Candidate, NoBlock, CloseAt
    <3>6. QED
          BY <3>3, <3>4, <3>5
  <2>2. CloseAt(NoBlocks[ip], now', wall')
        BY <1>5 DEF CloseAt
  <2>3. QED
        BY <1>1, <1>4, <2>1, <2>2, CandidateStep
<1>9. ASSUME Running', NEW ip \in Kept'
      PROVE  file'[ip].expires = durable'[ip].expires
  <2>0. ip \in IPs /\ durable'[ip].deadline > now'
        BY <1>9 DEF Kept
  <2>1. CASE WriteFile
    <3>1. /\ Running /\ mpc = "write" /\ ip \in Kept /\ UNCHANGED durable
          BY <1>9, <2>1, WriterCall DEF Running, Kept
    <3>2. CASE file' = file
          BY <1>0, <3>1, <3>2 DEF TimeInv
    <3>3. CASE file' = buf /\ buf \in BlockTable
      <4>1. buf # NoFile /\ txn.cand[ip] = durable[ip]
            /\ durable[ip].deadline > now
            BY <3>1, <3>3, ContentFact DEF WriteInv, Kept
      <4>2. buf[ip] = Record(durable[ip])
            BY <2>0, <3>1, <4>1 DEF WriteInv
      <4>3. QED
            BY <3>1, <3>3, <4>2 DEF Record
    <3>4. QED
          BY <2>1, <3>2, <3>3, WriterCall
  <2>2. CASE ~ WriteFile
    <3>1. UNCHANGED file /\ ~ Vanish
          BY <1>9, <2>2, OnlyWriter DEF Vanish, Running
    <3>2. CASE StoreDurable
      <4>1. /\ mpc = "write" /\ wpc = "ok" /\ durable' = txn.cand /\ now' = now
            BY <3>2 DEF StoreDurable, clocks
      <4>2. buf # NoFile /\ file = buf
            BY <4>1, ContentFact DEF Writer!WriterInv
      <4>3. buf[ip] = Record(txn.cand[ip])
            BY <2>0, <4>1, <4>2 DEF WriteInv
      <4>4. QED
            BY <3>1, <4>1, <4>2, <4>3 DEF Record
    <3>3. CASE BootLoaded
      <4>1. durable'[ip].deadline # 0
            BY <1>0, <2>0
      <4>2. QED
            BY <1>6, <2>0, <3>3, <4>1
    <3>4. CASE BootCreated
      <4>1. durable' = NoBlocks
            BY <3>4 DEF BootCreated, StartUp
      <4>2. QED
            BY <1>0, <1>5, <2>0, <4>1
    <3>5. CASE ~ (StoreDurable \/ BootLoaded \/ BootCreated)
      <4>1. UNCHANGED durable /\ Running
            BY <1>9, <3>1, <3>5, SnapshotStep, RunningStep
      <4>2. ip \in Kept
            BY <1>9, <4>1, KeptStep
      <4>3. QED
            BY <1>0, <3>1, <4>1, <4>2 DEF TimeInv
    <3>6. QED
          BY <3>2, <3>3, <3>4, <3>5
  <2>3. QED
        BY <2>1, <2>2
<1>10. SeenInv'
  <2> SUFFICES ASSUME mpc' = "load" PROVE SeenInv'
      BY DEF SeenInv
  <2>1. CASE Boot
    <3>1. /\ txn'.at = now /\ txn'.wall = WholeSeconds(wall)
          /\ UNCHANGED <<now, wall, file, shadow>>
          BY <2>1 DEF Boot, NoTxn, clocks, dvars
    <3>2. \A f \in Contents : f # NoFile =>
            \A ip \in IPs : f[ip].expires <= WholeSeconds(wall) + Block
          BY <1>2
    <3>3. QED
          BY <1>0, <1>a, <3>1, <3>2 DEF SeenInv, Contents
  <2>2. CASE ~ Boot
    <3>1. /\ mpc = "load" /\ UNCHANGED <<txn, file, shadow>>
          BY <2>2, LoadStep
    <3>2. txn.at \in Nat /\ txn.wall \in Nat
          BY Facts, MoreFacts
    <3>3. QED
          BY <1>0, <3>1, <3>2 DEF TimeInv, SeenInv, Contents
  <2>3. QED
        BY <2>1, <2>2
<1>11. QED
       BY <1>3, <1>7, <1>8, <1>9, <1>10 DEF TimeInv, Aligned

-----------------------------------------------------------------------------

\* All of it together is inductive.
DurableInv ==
  /\ TypeOK /\ Writer!WriterInv
  /\ LoadableInv /\ FileInv /\ OnDiskInv /\ WriteInv /\ DeadlineInv /\ TimeInv

LEMMA DurableInit == Init => DurableInv
<1> SUFFICES ASSUME Init PROVE DurableInv
    OBVIOUS
<1>1. TypeOK /\ Writer!WriterInv /\ LoadableInv
      BY InitTypes, InitWriter, LoadableInit
<1>2. FileInv /\ OnDiskInv /\ WriteInv
      BY DEF Init, FileInv, OnDiskInv, WriteInv, Running
<1>3. DeadlineInv
      BY ConfigAssumption DEF Init, DeadlineInv, Day, NoTxn, NoBlocks, NoBlock
<1>4. TimeInv
      BY DEF Init, TimeInv, Aligned, CloseAt, SeenInv, NoTxn, NoBlocks, NoBlock,
             Contents, Running
<1>5. QED
      BY <1>1, <1>2, <1>3, <1>4 DEF DurableInv

\* Restarts, crashes, failing writes and clock steps included.
THEOREM DurableInductive == Spec => []DurableInv
<1>1. Init => DurableInv
      BY DurableInit
<1>2. TypeOK' /\ PromotionInv /\ DurableInv /\ [Next]_vars => DurableInv'
  <2> SUFFICES ASSUME TypeOK', PromotionInv, DurableInv, [Next]_vars
               PROVE  DurableInv'
      OBVIOUS
  <2> USE DEF DurableInv
  <2>a. ReadingsClose
        BY DEF PromotionInv
  <2>1. Writer!WriterInv'
        BY WriterStep
  <2>2. LoadableInv' /\ FileInv' /\ OnDiskInv' /\ WriteInv'
        BY <2>a, LoadableStep, FileStep, OnDiskStep, WriteInvStep
  <2>3. DeadlineInv' /\ TimeInv'
        BY <2>a, DeadlineStep, TimeStep
  <2>4. QED
        BY <2>1, <2>2, <2>3
<1>3. QED
      BY <1>1, <1>2, TypeCorrect, PromotionCovered, PTL DEF Spec

\* Whatever crash or failed write comes next, the next start finds no file or
\* one that its loader accepts.
THEOREM FileLoads == Spec => []DiskLoadable
<1>1. DurableInv => DiskLoadable
      BY DEF DurableInv, LoadableInv, DiskLoadable, Contents
<1>2. QED
      BY <1>1, DurableInductive, PTL

\* A power loss brings back no content from which a block in force is missing.
THEOREM BlocksSurvivePowerLoss == Spec => []DurableSurvivesCrash
<1>1. DurableInv => DurableSurvivesCrash
  <2> SUFFICES ASSUME DurableInv, Running, NEW ip \in Kept
               PROVE  /\ file[ip].expires >= durable[ip].expires
                      /\ ~ first => \A f \in {file} \cup shadow :
                           /\ f # NoFile
                           /\ f[ip] = [created |-> durable[ip].created,
                                       expires |-> durable[ip].expires]
      BY DEF DurableSurvivesCrash
  <2>1. /\ file[ip].expires >= durable[ip].expires
        /\ ~ first => \A f \in Contents : Exact(f, ip)
        BY DEF DurableInv, OnDiskInv, Compacted
  <2>2. QED
        BY <2>1 DEF Contents, Exact, Record
<1>2. QED
      BY <1>1, DurableInductive, PTL

\* The next process blocks each address as long as this one would have, to
\* within a second and the time between two clock readings.
THEOREM BlocksRestart == Spec => []RestartKeepsBlocks
<1>1. DurableInv => RestartKeepsBlocks
  <2> DEFINE seen == WholeSeconds(wall)
             again(f, ip) == Most(Loaded(f, seen)[ip].deadline, now)
  <2> SUFFICES ASSUME DurableInv, Running, steps = 0, NEW ip \in Kept,
                      NEW f \in {file} \cup (IF first THEN {} ELSE shadow)
               PROVE  /\ durable[ip].deadline < again(f, ip) + Second + Lag
                      /\ again(f, ip) < durable[ip].deadline + Second + Lag
      BY DEF RestartKeepsBlocks
  <2>0. /\ TypeOK /\ LoadableInv /\ FileInv /\ OnDiskInv /\ TimeInv
        /\ now \in Nat /\ wall \in Nat /\ Block \in Nat
        /\ Second \in Nat \ {0} /\ Lag \in Nat
        BY Facts, MoreFacts, ConfigAssumption DEF DurableInv
  <2>a. seen \in Nat /\ seen <= wall /\ wall < seen + Second
        BY <2>0, Seconds
  <2>1. /\ ip \in IPs /\ durable[ip].deadline > now /\ durable[ip].deadline \in Nat
        /\ durable[ip].expires \in Nat /\ durable[ip].deadline # 0
        BY <2>0, MoreFacts DEF Kept, Snapshot
  <2>3. /\ durable[ip].expires + now <= durable[ip].deadline + wall + Lag
        /\ durable[ip].deadline + wall < durable[ip].expires + now + Second + Lag
        /\ durable[ip].expires <= seen + Block
        BY <2>0, <2>1 DEF TimeInv, Aligned, CloseAt
  <2>4. f \in Contents /\ (f = file \/ ~ first)
        BY DEF Contents
  <2>5. f \in BlockTable /\ f[ip].expires = durable[ip].expires
    <3>1. CASE f = file
          BY <2>0, <3>1 DEF FileInv, TimeInv
    <3>2. CASE ~ first
      <4>1. Exact(f, ip)
            BY <2>0, <2>4, <3>2 DEF OnDiskInv, Compacted
      <4>2. f \notin {NoFile, Torn} /\ f \in BlockTable \cup {NoFile, Torn}
            BY <2>0, <2>4, <4>1, MoreFacts
            DEF Exact, LoadableInv, Loadable, Contents
      <4>3. QED
            BY <4>1, <4>2 DEF Exact, Record
    <3>3. QED
          BY <2>4, <3>1, <3>2
  <2> HIDE DEF seen
  <2>6. CASE f[ip].expires <= seen
    <3>1. Loaded(f, seen)[ip] = NoBlock
          BY <2>0, <2>a, <2>1, <2>5, <2>6, LoadedAs, Zenon
    <3>2. again(f, ip) = now
          BY <2>0, <3>1 DEF Most, NoBlock
    <3>3. QED
          BY <2>0, <2>a, <2>1, <2>3, <2>5, <2>6, <3>2
  <2>7. CASE ~ f[ip].expires <= seen
    <3>1. Loaded(f, seen)[ip].deadline # 0
          /\ Loaded(f, seen)[ip].deadline \in Nat
      <4>1. PICK ahead \in Nat \ {0} : f[ip].expires = seen + ahead
        <5>1. f[ip].expires - seen \in Nat \ {0}
              /\ f[ip].expires = seen + (f[ip].expires - seen)
              BY <2>a, <2>1, <2>5, <2>7
        <5>2. QED
              BY <5>1
      <4>2. Loaded(f, seen)[ip] =
                IF ahead > Block
                THEN [deadline |-> now + Block, created |-> seen,
                      expires |-> seen + Block]
                ELSE [deadline |-> now + ahead, created |-> f[ip].created,
                      expires |-> f[ip].expires]
            BY <2>0, <2>a, <2>1, <2>5, <4>1, LoadedAs
      <4>3. Loaded(f, seen)[ip].deadline \in {now + Block, now + ahead}
            BY <4>2
      <4>4. now + Block > 0 /\ now + ahead > 0
            BY <2>0, <4>1, Facts
      <4>5. QED
            BY <2>0, <4>1, <4>3, <4>4
    <3>2. Loaded(f, seen)[ip].deadline + seen = f[ip].expires + now
      <4>1. f[ip].expires <= seen + Block
            BY <2>3, <2>5
      <4>2. QED
            BY <2>0, <2>a, <2>1, <2>5, <3>1, <4>1, LoadedEnds, Zenon
    <3>3. Loaded(f, seen)[ip].deadline > now
          BY <2>0, <2>a, <2>1, <2>5, <2>7, <3>1, <3>2
    <3>4. again(f, ip) = Loaded(f, seen)[ip].deadline
          BY <3>3 DEF Most
    <3>5. QED
          BY <2>0, <2>a, <2>1, <2>3, <2>5, <3>1, <3>2, <3>4
  <2>8. QED
        BY <2>6, <2>7
<1>2. QED
      BY <1>1, DurableInductive, PTL

\* Nobody is kept out for longer than the one day and the five minutes.
THEOREM RestrictionsBounded == Spec => []BoundedRestriction
<1>1. DurableInv /\ PromotionInv => BoundedRestriction
  <2> SUFFICES ASSUME DurableInv, PromotionInv, NEW ip \in IPs
               PROVE  /\ durable[ip].deadline <= now + Block
                      /\ pending[ip] <= now + Temporary
                      /\ temporary[ip] <= now + Temporary
      BY DEF BoundedRestriction
  <2>1. durable[ip].deadline <= now + Block
        BY DEF DurableInv, DeadlineInv, Day
  <2>2. now \in Nat /\ Temporary \in Nat /\ pending[ip] \in Nat
        BY Facts DEF DurableInv
  <2>3. pending[ip] <= now + Temporary
        BY <2>2 DEF PromotionInv, PendingCovered
  <2>4. QED
        BY <2>1, <2>3 DEF PromotionInv, Mirrored
<1>2. QED
      BY <1>1, DurableInductive, PromotionCovered, PTL

-----------------------------------------------------------------------------
(* A check between its two loads *)

\* An activation that a check has seen ends, or is the one it will find
\* again, unless it was promoted meanwhile.
AdmitInv ==
  \A t \in Tasks :
    tasks[t].pc = "load" /\ tasks[t].op = "check" =>
      tasks[t].until <= now \/ pending[tasks[t].ip] >= tasks[t].until

LEMMA AdmitStep ==
  ASSUME TypeOK, PromotionInv, AdmitInv, [Next]_vars
  PROVE  AdmitInv'
<1>0. /\ now \in Nat /\ now' \in Nat /\ now' >= now /\ roundAt \in Nat /\ roundAt <= now
      /\ pending \in [IPs -> Nat] /\ temporary = pending /\ Temporary \in Nat
      /\ \A t \in Tasks : tasks[t].until \in Nat /\ tasks[t].ip \in IPs
                          /\ tasks[t].now \in Nat
      BY Facts, ClockFacts DEF PromotionInv, Mirrored, TypeOK, TaskTypes
<1>1. SUFFICES ASSUME NEW t \in Tasks, tasks'[t].pc = "load", tasks'[t].op = "check"
               PROVE  tasks'[t].until <= now' \/ pending'[tasks'[t].ip] >= tasks'[t].until
      BY DEF AdmitInv
<1>2. ASSUME tasks'[t] = tasks[t],
             pending'[tasks[t].ip] >= pending[tasks[t].ip]
               \/ pending[tasks[t].ip] <= now,
             pending'[tasks[t].ip] \in Nat
      PROVE  tasks'[t].until <= now' \/ pending'[tasks'[t].ip] >= tasks'[t].until
  <2>1. /\ tasks[t].ip \in IPs /\ tasks[t].until \in Nat
        /\ pending[tasks[t].ip] \in Nat
        BY <1>0
  <2>2. tasks[t].until <= now \/ pending[tasks[t].ip] >= tasks[t].until
        BY <1>1, <1>2 DEF AdmitInv
  <2>3. QED
        BY <1>0, <1>2, <2>1, <2>2
<1>3. ASSUME NEW u \in Tasks, NEW ip \in IPs, StartCheck(u, ip)
      PROVE  tasks'[t].until <= now' \/ pending'[tasks'[t].ip] >= tasks'[t].until
  <2>1. CASE t = u
    <3>1. tasks'[t].until = temporary[ip] /\ tasks'[t].ip = ip /\ pending' = pending
          BY <1>3, <2>1 DEF StartCheck, IdleTask, TypeOK, TaskTypes
    <3>2. QED
          BY <1>0, <3>1
  <2>2. CASE t # u
        BY <1>0, <1>2, <1>3, <2>2 DEF StartCheck
  <2>3. QED
        BY <2>1, <2>2
<1>4. CASE Sweep \/ Drain
  <2>1. tasks' = tasks
        BY <1>4 DEF Sweep, Drain
  <2>2. PICK n \in Nat : n <= now /\ pending' = Unexpired(pending, n)
        BY <1>0, <1>4 DEF Sweep, Drain
  <2>3. QED
        BY <1>0, <1>2, <2>1, <2>2 DEF Unexpired
<1>5. ASSUME NEW u \in Tasks, QueuePending(u)
      PROVE  tasks'[t].until <= now' \/ pending'[tasks'[t].ip] >= tasks'[t].until
  <2>1. t # u /\ tasks'[t] = tasks[t]
        BY <1>1, <1>5 DEF QueuePending, IdleTask, TypeOK, TaskTypes
  <2>2. \A ip \in IPs : pending'[ip] >= pending[ip] /\ pending'[ip] \in Nat
        BY <1>0, <1>5 DEF QueuePending, Queued
  <2>3. QED
        BY <1>0, <1>2, <2>1, <2>2
<1>6. CASE ConsumePending
  <2>1. CASE tasks[t].pc = "load" /\ tasks[t].ip \in txn.consumed
    <3>1. tasks'[t].until = 0
          BY <1>6, <2>1 DEF ConsumePending, TypeOK, TaskTypes
    <3>2. QED
          BY <1>0, <3>1
  <2>2. CASE ~ (tasks[t].pc = "load" /\ tasks[t].ip \in txn.consumed)
    <3>1. tasks'[t] = tasks[t]
          BY <1>6, <2>2 DEF ConsumePending
    <3>2. pending'[tasks[t].ip] = pending[tasks[t].ip]
          BY <1>0, <1>1, <1>6, <2>2, <3>1 DEF ConsumePending
    <3>3. QED
          BY <1>0, <1>2, <3>1, <3>2
  <2>3. QED
        BY <2>1, <2>2
<1>7. CASE Vanish
      BY <1>1, <1>7 DEF Vanish, IdleTask
<1>8. ASSUME NEW u \in Tasks,
             \/ LoadTemporary(u) \/ CountViolation(u)
             \/ \E ip \in IPs, r \in Rules : StartViolation(u, ip, r)
      PROVE  tasks'[t].until <= now' \/ pending'[tasks'[t].ip] >= tasks'[t].until
  <2>1. UNCHANGED pending /\ t # u /\ tasks'[t] = tasks[t]
    <3>1. tasks[u].pc \in {"idle", "load", "count", "queue"}
          /\ DOMAIN tasks[u] = {"pc", "op", "ip", "rule", "now", "until"}
          BY DEF TypeOK, TaskTypes
    <3>2. CASE LoadTemporary(u)
          BY <1>1, <3>1, <3>2 DEF LoadTemporary, IdleTask, TypeOK, TaskTypes
    <3>3. CASE CountViolation(u)
      <4>1. tasks[u].pc = "count" /\ tasks'[u].pc \in {"count", "idle", "queue"}
            BY <3>1, <3>3 DEF CountViolation, IdleTask, TypeOK, TaskTypes
      <4>2. t # u
            BY <1>1, <4>1
      <4>3. QED
            BY <3>3, <4>2 DEF CountViolation
    <3>4. ASSUME NEW ip \in IPs, NEW r \in Rules, StartViolation(u, ip, r)
          PROVE  UNCHANGED pending /\ t # u /\ tasks'[t] = tasks[t]
      <4>1. tasks'[u].op = "record"
            BY <3>4 DEF StartViolation, IdleTask, TypeOK, TaskTypes
      <4>2. t # u
            BY <1>1, <4>1
      <4>3. QED
            BY <3>4, <4>2 DEF StartViolation
    <3>5. QED
          BY <1>8, <3>2, <3>3, <3>4
  <2>2. QED
        BY <1>0, <1>2, <2>1
<1>9. CASE UNCHANGED <<pending, tasks>>
      BY <1>0, <1>2, <1>9
<1>10. QED
       BY <1>3, <1>4, <1>5, <1>6, <1>7, <1>8, <1>9
       DEF Next, BootStep, Boot, BootLoaded, BootCreate, BootCreated, BootFailed, StartUp, Exit,
           Crash, ManagerStep, PersistStep, TaskStep, Wake, SeeShutdown, Decide,
           Gather, TxnNothing, TxnFull, TxnStart, TxnBuild, WriteFile, WriteFailed,
           StoreDurable, Shutdown, Tick, ClockStep, vars

\* A request passes between the two loads only when its restriction lapsed or
\* was promoted in that moment.
THEOREM AdmissionWindow == Spec => []AdmittedUnlessPromoted
<1>1. Init => AdmitInv
      BY DEF Init, AdmitInv, IdleTask
<1>2. TypeOK /\ PromotionInv /\ AdmitInv /\ [Next]_vars => AdmitInv'
      BY AdmitStep
<1>3. TypeOK /\ PromotionInv /\ AdmitInv => AdmittedUnlessPromoted
  <2> SUFFICES ASSUME TypeOK, PromotionInv, AdmitInv, NEW t \in Tasks, Admits(t)
               PROVE  tasks[t].until <= now
      BY DEF AdmittedUnlessPromoted
  <2>1. /\ tasks[t].ip \in IPs /\ tasks[t].now <= now /\ tasks[t].now \in Nat
        /\ tasks[t].until \in Nat /\ now \in Nat
        /\ pending[tasks[t].ip] \in Nat /\ temporary = pending
        BY Facts DEF Admits, PromotionInv, ReportsCovered, Mirrored, TypeOK, TaskTypes
  <2>2. pending[tasks[t].ip] <= tasks[t].now
        BY <2>1 DEF Admits
  <2>3. tasks[t].until <= now \/ pending[tasks[t].ip] >= tasks[t].until
        BY DEF AdmitInv, Admits
  <2>4. QED
        BY <2>1, <2>2, <2>3
<1>4. QED
      BY <1>1, <1>2, <1>3, TypeCorrect, PromotionCovered, PTL DEF Spec

-----------------------------------------------------------------------------
(* The limits of the tables *)

LEMMA LeastNatural ==
  ASSUME NEW S \in SUBSET Nat, S # {}
  PROVE  \E m \in S : \A n \in S : m <= n
<1> DEFINE R == OpToRel(<, Nat)
<1>1. PICK m \in S : \A y \in S : ~ (<<y, m>> \in R)
  <2>1. IsWellFoundedOn(R, Nat)
        BY NatLessThanWellFounded
  <2> HIDE DEF R
  <2>2. QED
        BY <2>1, WFMin
<1>2. \A y \in S : ~ (y < m)
      BY <1>1 DEF OpToRel
<1>3. QED
      BY <1>2

\* Each shard has its share of the windows, all of them the limit of the
\* pending activations.
CapacityInv ==
  /\ Cardinality(Queued) <= MaxPending
  /\ \A s \in 0..(Shards - 1) : Cardinality(Tracked(s)) <= Capacity(s)

\* What one more violation does to a window entry.
LEMMA BumpedSeen ==
  ASSUME NEW ip, NEW r \in Rules, NEW n
  PROVE  Bumped(ip, r, n).seen = n
BY DEF Bumped

LEMMA ShareFacts ==
  /\ MaxTracked \div Shards \in Nat /\ MaxTracked % Shards \in Nat
  /\ MaxTracked % Shards < Shards
  /\ MaxTracked = Shards * (MaxTracked \div Shards) + (MaxTracked % Shards)
  /\ \A s \in Nat : Capacity(s) \in Nat
<1>1. MaxTracked \in Nat /\ Shards \in Nat /\ Shards > 0
      BY ConfigAssumption
<1>2. /\ MaxTracked \div Shards \in Int /\ MaxTracked % Shards \in Nat
      /\ MaxTracked % Shards < Shards
      /\ MaxTracked = Shards * (MaxTracked \div Shards) + (MaxTracked % Shards)
      BY <1>1
<1>3. MaxTracked \div Shards >= 0
      BY <1>1, <1>2
<1>4. QED
      BY <1>2, <1>3 DEF Capacity

LEMMA OneMore ==
  ASSUME NEW S \in SUBSET IPs, NEW x \in IPs, NEW T \in SUBSET (S \cup {x})
  PROVE  Cardinality(T) \in Nat /\ Cardinality(T) <= Cardinality(S) + 1
<1>1. /\ IsFiniteSet(S) /\ Cardinality(S) \in Nat
      /\ S \cup {x} \in SUBSET IPs
      BY FiniteIPs
<1>2. Cardinality(S \cup {x}) \in Nat
      /\ Cardinality(S \cup {x}) <= Cardinality(S) + 1
  <2>1. Cardinality(S \cup {x}) = IF x \in S THEN Cardinality(S) ELSE Cardinality(S) + 1
        BY <1>1, FS_AddElement
  <2>2. QED
        BY <1>1, <2>1
<1>3. Cardinality(T) \in Nat /\ Cardinality(T) <= Cardinality(S \cup {x})
      BY <1>1, FiniteIPs
<1>4. QED
      BY <1>1, <1>2, <1>3

LEMMA QueuedStep ==
  ASSUME TypeOK, Cardinality(Queued) <= MaxPending, [Next]_vars
  PROVE  Cardinality(Queued') <= MaxPending
<1>0. MaxPending \in Nat /\ Queued \subseteq IPs /\ Queued' \subseteq IPs
      /\ Cardinality(Queued) \in Nat /\ IsFiniteSet(Queued)
  <2>1. Queued \subseteq IPs /\ Queued' \subseteq IPs /\ MaxPending \in Nat
        BY ConfigAssumption DEF Queued
  <2>2. QED
        BY <2>1, FiniteIPs
<1>1. ASSUME Queued' \subseteq Queued
      PROVE  Cardinality(Queued') <= MaxPending
  <2>1. Cardinality(Queued') \in Nat /\ Cardinality(Queued') <= Cardinality(Queued)
        BY <1>0, <1>1, FiniteIPs
  <2>2. QED
        BY <1>0, <2>1
<1>2. ASSUME NEW t \in Tasks, QueuePending(t)
      PROVE  Cardinality(Queued') <= MaxPending
  <2>1. CASE pending' = pending
        BY <1>1, <2>1 DEF Queued
  <2>2. CASE pending' # pending
    <3>1. /\ Cardinality(Queued) < MaxPending /\ tasks[t].ip \in IPs
          /\ pending' = [pending EXCEPT ![tasks[t].ip] = tasks[t].now + Temporary]
          BY <1>0, <1>2, <2>2, Facts DEF QueuePending
    <3>2. Queued' \subseteq Queued \cup {tasks[t].ip}
          BY <3>1, Facts DEF Queued
    <3>3. Cardinality(Queued') \in Nat
          /\ Cardinality(Queued') <= Cardinality(Queued) + 1
          BY <1>0, <3>1, <3>2, OneMore
    <3>4. QED
          BY <1>0, <3>1, <3>3
  <2>3. QED
        BY <2>1, <2>2
<1>3. CASE Vanish
      BY <1>1, <1>3 DEF Vanish, Queued, NoTable
<1>4. CASE Sweep \/ Drain
      BY <1>1, <1>4, Facts DEF Sweep, Drain, Unexpired, Queued
<1>5. CASE ConsumePending
      BY <1>1, <1>5, Facts DEF ConsumePending, Queued
<1>6. CASE UNCHANGED pending
      BY <1>1, <1>6 DEF Queued
<1>7. QED
      BY <1>2, <1>3, <1>4, <1>5, <1>6
      DEF Next, BootStep, Boot, BootLoaded, BootCreate, BootCreated, BootFailed, StartUp, Exit,
          Crash, ManagerStep, PersistStep, TaskStep, StartCheck, StartViolation,
          LoadTemporary, CountViolation, Wake, SeeShutdown, Decide,
          Gather, TxnNothing, TxnFull, TxnStart, TxnBuild, WriteFile, WriteFailed,
          StoreDurable, Shutdown, Tick, ClockStep, vars

LEMMA TrackedStep ==
  ASSUME TypeOK, NEW s \in 0..(Shards - 1),
         Cardinality(Tracked(s)) <= Capacity(s), [Next]_vars
  PROVE  Cardinality(Tracked(s)') <= Capacity(s)
<1>0. /\ Capacity(s) \in Nat /\ Tracked(s) \subseteq IPs /\ Tracked(s)' \subseteq IPs
      /\ Cardinality(Tracked(s)) \in Nat /\ IsFiniteSet(Tracked(s))
  <2>1. Tracked(s) \subseteq IPs /\ Tracked(s)' \subseteq IPs /\ s \in Nat
        BY DEF Tracked
  <2>2. QED
        BY <2>1, FiniteIPs, ShareFacts
<1>1. ASSUME Tracked(s)' \subseteq Tracked(s)
      PROVE  Cardinality(Tracked(s)') <= Capacity(s)
  <2>1. Cardinality(Tracked(s)') \in Nat
        /\ Cardinality(Tracked(s)') <= Cardinality(Tracked(s))
        BY <1>0, <1>1, FiniteIPs
  <2>2. QED
        BY <1>0, <2>1
<1>2. ASSUME NEW t \in Tasks, CountViolation(t)
      PROVE  Cardinality(Tracked(s)') <= Capacity(s)
  <2> DEFINE ip == tasks[t].ip
             full == /\ windows[ip].seen = 0
                     /\ Cardinality(Tracked(ShardOf[ip])) >= Capacity(ShardOf[ip])
             bumped == Bumped(ip, tasks[t].rule, tasks[t].now)
  <2>1. /\ ip \in IPs
        /\ windows' = IF full THEN windows ELSE [windows EXCEPT ![ip] = bumped]
        BY <1>2, Facts DEF CountViolation
  <2>2. windows' = windows \/ (~ full /\ windows' = [windows EXCEPT ![ip] = bumped])
        BY <2>1
  <2>3. CASE windows' = windows
        BY <1>1, <2>3 DEF Tracked
  <2>4. CASE ~ full /\ windows' = [windows EXCEPT ![ip] = bumped]
    <3>1. \A q \in IPs : q # ip => windows'[q] = windows[q]
          BY <2>4 DEF TypeOK, WindowTypes
    <3>2. CASE ip \in Tracked(s) \/ ShardOf[ip] # s
      <4>1. Tracked(s)' \subseteq Tracked(s)
            BY <3>1, <3>2 DEF Tracked
      <4>2. QED
            BY <1>1, <4>1
    <3>3. CASE ip \notin Tracked(s) /\ ShardOf[ip] = s
      <4>1. windows[ip].seen = 0
            BY <2>1, <3>3 DEF Tracked
      <4>2. Cardinality(Tracked(s)) < Capacity(s)
            BY <1>0, <2>4, <3>3, <4>1
      <4>3. Tracked(s)' \subseteq Tracked(s) \cup {ip}
            BY <3>1 DEF Tracked
      <4>4. Cardinality(Tracked(s)') \in Nat
            /\ Cardinality(Tracked(s)') <= Cardinality(Tracked(s)) + 1
            BY <1>0, <2>1, <4>3, OneMore
      <4>5. QED
            BY <1>0, <4>2, <4>4
    <3>4. QED
          BY <3>2, <3>3
  <2>5. QED
        BY <2>2, <2>3, <2>4
<1>3. CASE Vanish
      BY <1>1, <1>3 DEF Vanish, Tracked, NoWindow
<1>4. CASE Sweep
      BY <1>1, <1>4 DEF Sweep, Tracked, NoWindow
<1>5. CASE UNCHANGED windows
      BY <1>1, <1>5 DEF Tracked
<1>6. QED
      BY <1>2, <1>3, <1>4, <1>5
      DEF Next, BootStep, Boot, BootLoaded, BootCreate, BootCreated, BootFailed, StartUp, Exit,
          Crash, ManagerStep, PersistStep, TaskStep, StartCheck, StartViolation,
          LoadTemporary, QueuePending, Wake, SeeShutdown, Decide, Drain,
          Gather, TxnNothing, TxnFull, TxnStart, TxnBuild, WriteFile, WriteFailed,
          StoreDurable, ConsumePending, Shutdown, Tick, ClockStep, vars

\* The shares of the first k shards, summed.
Share(k) == k * (MaxTracked \div Shards) + Least(k, MaxTracked % Shards)

LEMMA ShareStep ==
  ASSUME NEW k \in Nat
  PROVE  Share(k) \in Nat /\ Share(k + 1) = Share(k) + Capacity(k)
<1> DEFINE d == MaxTracked \div Shards
           r == MaxTracked % Shards
<1>1. d \in Nat /\ r \in Nat
      BY ShareFacts
<1>2. Share(k) = k * d + Least(k, r) /\ Share(k + 1) = (k + 1) * d + Least(k + 1, r)
      /\ Capacity(k) = d + (IF k < r THEN 1 ELSE 0)
      BY DEF Share, Capacity
<1> HIDE DEF d, r
<1>3. k * d \in Nat /\ (k + 1) * d = k * d + d
      BY <1>1
<1>4. Least(k, r) \in Nat /\ Least(k + 1, r) = Least(k, r) + (IF k < r THEN 1 ELSE 0)
      BY <1>1 DEF Least
<1>5. QED
      BY <1>1, <1>2, <1>3, <1>4

\* The windows of the first k shards.
Below(k) == {ip \in IPs : windows[ip].seen # 0 /\ ShardOf[ip] < k}

LEMMA SharesHold ==
  ASSUME CapacityInv
  PROVE  \A k \in 0..Shards : Cardinality(Below(k)) <= Share(k)
<1> DEFINE Over == {k \in 0..Shards : ~ Cardinality(Below(k)) <= Share(k)}
<1>1. SUFFICES ASSUME Over # {} PROVE FALSE
      OBVIOUS
<1>2. PICK m \in Over : \A n \in Over : m <= n
  <2>1. Over \subseteq Nat
        OBVIOUS
  <2> HIDE DEF Over
  <2>2. QED
        BY <1>1, <2>1, LeastNatural
<1>3. Shards \in Nat /\ m \in Nat /\ m <= Shards
      BY ConfigAssumption
<1>4. CASE m = 0
  <2>1. Below(0) = {}
        BY ConfigAssumption DEF Below
  <2>2. Cardinality(Below(0)) = 0 /\ Share(0) \in Nat
    <3>1. 0 \in Nat /\ Cardinality({}) = 0
          BY FS_EmptySet
    <3>2. QED
          BY <2>1, <3>1, ShareStep
  <2>3. QED
        BY <1>2, <1>4, <2>2
<1>5. CASE m # 0
  <2>1. PICK k \in Nat : m = k + 1
        BY <1>3, <1>5
  <2>2. k \in 0..(Shards - 1) /\ k \in 0..Shards /\ k \notin Over
        BY <1>2, <1>3, <2>1
  <2>3. Cardinality(Below(k)) <= Share(k) /\ Cardinality(Tracked(k)) <= Capacity(k)
        BY <2>2 DEF CapacityInv
  <2>4. Below(k) \subseteq IPs /\ Tracked(k) \subseteq IPs
        BY DEF Below, Tracked
  <2>5. Below(m) \subseteq Below(k) \cup Tracked(k)
        BY <2>1, ConfigAssumption DEF Below, Tracked
  <2>6. /\ IsFiniteSet(Below(k)) /\ IsFiniteSet(Tracked(k))
        /\ Cardinality(Below(k)) \in Nat /\ Cardinality(Tracked(k)) \in Nat
        /\ Cardinality(Below(k) \cap Tracked(k)) \in Nat
        BY <2>4, FiniteIPs
  <2>7. Cardinality(Below(k) \cup Tracked(k)) =
          Cardinality(Below(k)) + Cardinality(Tracked(k))
            - Cardinality(Below(k) \cap Tracked(k))
        BY <2>6, FS_Union
  <2>8. Cardinality(Below(m)) \in Nat
        /\ Cardinality(Below(m)) <= Cardinality(Below(k) \cup Tracked(k))
        BY <2>4, <2>5, FiniteIPs
  <2>9. Share(m) = Share(k) + Capacity(k) /\ Share(k) \in Nat /\ Capacity(k) \in Nat
        BY <2>1, ShareStep, ShareFacts
  <2>10. Cardinality(Below(m)) <= Share(m)
         BY <2>3, <2>6, <2>7, <2>8, <2>9
  <2>11. QED
         BY <1>2, <2>10
<1>6. QED
      BY <1>4, <1>5

\* No race of reports, and no failing disk, fills a table beyond its limit.
THEOREM TablesBounded == Spec => []CapacityRespected
<1>1. Init => CapacityInv
  <2> SUFFICES ASSUME Init PROVE CapacityInv
      OBVIOUS
  <2>1. Queued = {} /\ \A s \in 0..(Shards - 1) : Tracked(s) = {}
        BY DEF Init, Queued, Tracked, NoTable, NoWindow
  <2>2. Cardinality({}) = 0 /\ MaxPending \in Nat
        /\ \A s \in 0..(Shards - 1) : Capacity(s) \in Nat
    <3>1. Cardinality({}) = 0
          BY FS_EmptySet
    <3>2. MaxPending \in Nat /\ \A s \in 0..(Shards - 1) : s \in Nat
          BY ConfigAssumption
    <3>3. QED
          BY <3>1, <3>2, ShareFacts
  <2>3. QED
        BY <2>1, <2>2 DEF CapacityInv
<1>2. TypeOK /\ CapacityInv /\ [Next]_vars => CapacityInv'
  <2> SUFFICES ASSUME TypeOK, CapacityInv, [Next]_vars PROVE CapacityInv'
      OBVIOUS
  <2>1. Cardinality(Queued') <= MaxPending
        BY QueuedStep DEF CapacityInv
  <2>2. \A s \in 0..(Shards - 1) : Cardinality(Tracked(s)') <= Capacity(s)
        BY TrackedStep DEF CapacityInv
  <2>3. QED
        BY <2>1, <2>2 DEF CapacityInv, Capacity
<1>3. DurableInv /\ CapacityInv => CapacityRespected
  <2> SUFFICES ASSUME DurableInv, CapacityInv PROVE CapacityRespected
      OBVIOUS
  <2>1. Cardinality(Held) <= MaxBlocked
        BY DEF DurableInv, LoadableInv, Bounded, Held
  <2>2. Cardinality(Below(Shards)) <= Share(Shards)
        BY SharesHold, ConfigAssumption
  <2>3. Below(Shards) = {ip \in IPs : windows[ip].seen # 0}
        BY ConfigAssumption DEF Below
  <2>4. Share(Shards) = MaxTracked
    <3>1. Shards \in Nat /\ MaxTracked % Shards \in Nat
          /\ Least(Shards, MaxTracked % Shards) = MaxTracked % Shards
          BY ShareFacts, ConfigAssumption DEF Least
    <3>2. QED
          BY <3>1, ShareFacts DEF Share
  <2>5. QED
        BY <2>1, <2>2, <2>3, <2>4 DEF CapacityRespected, CapacityInv, DurableInv
<1>4. QED
      BY <1>1, <1>2, <1>3, TypeCorrect, DurableInductive, PTL DEF Spec
=============================================================================
