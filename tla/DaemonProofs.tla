----------------------------- MODULE DaemonProofs -----------------------------
(***************************************************************************)
(* Theorems about Daemon, for every set of jobs, capacity of the queue and *)
(* number of faults.  IInv is the inductive invariant; every theorem       *)
(* follows from it.                                                        *)
(***************************************************************************)
EXTENDS Daemon, TLAPS

\* Jobs in the channel, in hand or just dequeued are still queued rows.
WaitingIsQueued ==
    \A j \in InQueue \cup InHand \cup Claimed(D) : ledger[j] = "queued"

\* Inside RunJob the consumer has a job.
HoldsAJob == pc[D] # "idle" => cur[D] \in Jobs

\* The consumer's state agrees with the row and the pipeline of its job.
ConsumerAgrees ==
    /\ pc[D] \in {"running", "ended", "announced"} => ledger[cur[D]] = "in_progress"
    /\ pc[D] = "running" => work[cur[D]] = "running"
    /\ pc[D] \in {"ended", "announced"} =>
         work[cur[D]] = (IF verdict[D] = "completed" THEN "succeeded" ELSE "broke")

\* What the history of a job's pipeline says about its row and its events.
HistoryAgrees ==
    \A j \in Jobs :
        /\ ledger[j] \in {"absent", "queued"} => work[j] = "none"
        /\ work[j] = "running" => pc[D] = "running" /\ cur[D] = j
        /\ "completed" \in announced[j] => work[j] = "succeeded"
        /\ "failed" \in announced[j] => work[j] = "broke"
        /\ ledger[j] = "completed" => work[j] = "succeeded"

\* Outside the phases of the consumer nothing runs, and before reconciliation
\* memory is empty.
PhaseAgrees ==
    /\ phase \notin {"running", "stopping"} => pc[D] = "idle"
    /\ phase \in Gone \cup {"booted", "recovered"} =>
         queue = <<>> /\ InHand = {}

IInv ==
    /\ TypeOK
    /\ HoldsAJob
    /\ OnePlace
    /\ WaitingIsQueued
    /\ ConsumerAgrees
    /\ HistoryAgrees
    /\ PhaseAgrees
-----------------------------------------------------------------------------
\* Append adds one element to the channel and keeps the others in place.
LEMMA AppendElements ==
    ASSUME NEW S, NEW q \in Seq(S), NEW e \in S
    PROVE  /\ Append(q, e) \in Seq(S)
           /\ Len(Append(q, e)) = Len(q) + 1
           /\ {Append(q, e)[i] : i \in 1..Len(Append(q, e))}
                = {q[i] : i \in 1..Len(q)} \cup {e}
           /\ \A i \in 1..Len(q) : Append(q, e)[i] = q[i]
           /\ Append(q, e)[Len(q) + 1] = e
  OBVIOUS

\* Taking the head of a channel without repetition removes exactly it.
LEMMA TailElements ==
    ASSUME NEW S, NEW q \in Seq(S), q # <<>>,
           \A a, b \in 1..Len(q) : q[a] = q[b] => a = b
    PROVE  /\ Head(q) \in S
           /\ Tail(q) \in Seq(S)
           /\ Len(Tail(q)) = Len(q) - 1
           /\ {Tail(q)[i] : i \in 1..Len(Tail(q))}
                = {q[i] : i \in 1..Len(q)} \ {Head(q)}
           /\ Head(q) \in {q[i] : i \in 1..Len(q)}
           /\ \A a, b \in 1..Len(Tail(q)) : Tail(q)[a] = Tail(q)[b] => a = b
  <1>1. Len(q) \in Nat \ {0} /\ Head(q) = q[1]
    OBVIOUS
  <1>2. Len(Tail(q)) = Len(q) - 1 /\ \A i \in 1..Len(Tail(q)) : Tail(q)[i] = q[i + 1]
    OBVIOUS
  <1>3. {Tail(q)[i] : i \in 1..Len(Tail(q))} \subseteq {q[i] : i \in 1..Len(q)} \ {Head(q)}
    BY <1>1, <1>2
  <1>4. ASSUME NEW i \in 1..Len(q), q[i] # Head(q)
        PROVE  q[i] \in {Tail(q)[k] : k \in 1..Len(Tail(q))}
    <2>1. i - 1 \in 1..Len(Tail(q)) /\ Tail(q)[i - 1] = q[i]
      BY <1>1, <1>2, <1>4
    <2> QED BY <2>1
  <1>5. \A a, b \in 1..Len(Tail(q)) : Tail(q)[a] = Tail(q)[b] => a = b
    <2> TAKE a, b \in 1..Len(Tail(q))
    <2>1. a + 1 \in 1..Len(q) /\ b + 1 \in 1..Len(q)
      BY <1>1, <1>2
    <2> QED BY <2>1, <1>2
  <1> QED
    BY <1>1, <1>2, <1>3, <1>4, <1>5
-----------------------------------------------------------------------------
USE DIsARunner, CapacityIsPositive, NoJobIsNotAJob, MaxFaultsIsNat, JobsAreInstants

\* The initial state: no rows, nothing in memory.
LEMMA InitIInv == Init => IInv
  BY DEF Init, IInv, TypeOK, RunTypeOK, RunInit, Ledger!LedgerInit,
         Ledger!LedgerTypeOK, Ledger!JobStatus, Ledger!WorkStates, Terminal,
         Ledger!Terminal, RunnerStates, Phases, Gone, Producers, OnePlace,
         WaitingIsQueued, HoldsAJob, ConsumerAgrees, HistoryAgrees, PhaseAgrees,
         InQueue, InHand, Claimed, Working

\* Type correctness is inductive once the consumer is known to hold a job.
LEMMA NextTypeOK == TypeOK /\ HoldsAJob /\ [Next]_vars => TypeOK' /\ HoldsAJob'
  <1> SUFFICES ASSUME TypeOK, HoldsAJob, [Next]_vars PROVE TypeOK' /\ HoldsAJob'
    OBVIOUS
  <1> USE DEF TypeOK, HoldsAJob, RunTypeOK, Ledger!LedgerTypeOK, Ledger!JobStatus,
              Ledger!WorkStates, Terminal, Ledger!Terminal, RunnerStates, Phases,
              Gone, Producers, vars, runVars, daemonVars
  <1>1. CASE Boot
    BY <1>1 DEF Boot
  <1>2. CASE FailOrphanedJobs
    BY <1>2 DEF FailOrphanedJobs
  <1>3. CASE reconcileQueuedJobs
    BY <1>3 DEF reconcileQueuedJobs, Report, Queued, Reconciled
  <1>4. CASE StartServers
    BY <1>4 DEF StartServers
  <1>5. CASE StartConsumer
    BY <1>5 DEF StartConsumer
  <1>6. ASSUME NEW p \in Producers, NEW j \in Jobs, Persist(p, j)
        PROVE  TypeOK' /\ HoldsAJob'
    BY <1>6 DEF Persist, CreateJob, UpdateJobStatus
  <1>7. ASSUME NEW p \in Producers, NEW j \in Jobs, PersistFails(p, j)
        PROVE  TypeOK' /\ HoldsAJob'
    BY <1>7 DEF PersistFails, CreateJobError, UpdateJobStatusError, UpdateJobStatus,
                Fault, Report
  <1>8. ASSUME NEW p \in Producers, NEW j \in Jobs, Enqueue(p, j)
        PROVE  TypeOK' /\ HoldsAJob'
    <2>1. queue' \in Seq(Jobs) /\ Len(queue') <= Capacity
      <3>1. CASE Len(queue) < Capacity /\ queue' = Append(queue, j)
        BY <3>1, AppendElements
      <3> QED
        BY <1>8, <3>1 DEF Enqueue
    <2>2. reported' \in [Runners -> SUBSET Jobs]
      BY <1>8 DEF Enqueue, Report
    <2> QED
      BY <1>8, <2>1, <2>2 DEF Enqueue
  <1>9. CASE Dequeue
    BY <1>9 DEF Dequeue, EnterRunJob, Goto
  <1>10. CASE RunNext
    <2> USE DEF RunNext, Leave, Goto, Fault, Report, UpdateJobStatus, UpdateJobStatusError
    <2>0. UNCHANGED daemonVars /\ RunJobStep(D, Cancelled)
      BY <1>10
    <2>1. CASE RefuseJob(D)
      BY <2>0, <2>1 DEF RefuseJob
    <2>2. CASE StartJob(D, Cancelled)
      BY <2>0, <2>2 DEF StartJob
    <2>3. CASE StartJobFails(D, Cancelled)
      BY <2>0, <2>3 DEF StartJobFails
    <2>4. CASE EndPipeline(D)
      <3>1. PICK v \in Terminal :
              /\ verdict' = [verdict EXCEPT ![D] = v]
              /\ work' = [work EXCEPT ![cur[D]] =
                             IF v = "completed" THEN "succeeded" ELSE "broke"]
        BY <2>4 DEF EndPipeline
      <3>2. work' \in [Jobs -> Ledger!WorkStates] /\ verdict' \in [Runners -> Terminal]
        BY <3>1
      <3> QED
        BY <2>0, <2>4, <3>2 DEF EndPipeline
    <2>5. CASE PublishVerdict(D)
      BY <2>0, <2>5 DEF PublishVerdict
    <2>6. CASE RecordVerdict(D)
      BY <2>0, <2>6 DEF RecordVerdict
    <2>7. CASE RecordVerdictFails(D)
      BY <2>0, <2>7 DEF RecordVerdictFails
    <2> QED
      BY <2>0, <2>1, <2>2, <2>3, <2>4, <2>5, <2>6, <2>7 DEF RunJobStep
  <1>11. CASE Shutdown \/ ConsumerReturns \/ StopScheduler
    BY <1>11 DEF Shutdown, ConsumerReturns, StopScheduler
  <1>12. CASE Exit \/ Crash
    <2>1. ProcessGone /\ phase' \in Phases /\ faults' \in 0..MaxFaults
      BY <1>12 DEF Exit, Crash, Fault
    <2>2. work' \in [Jobs -> Ledger!WorkStates]
      BY <2>1 DEF ProcessGone, LoseRunner
    <2>3. /\ pc' = [pc EXCEPT ![D] = "idle"]
          /\ cur' = [cur EXCEPT ![D] = NoJob]
          /\ reported' = [reported EXCEPT ![D] = {}]
      BY <2>1 DEF ProcessGone, LoseRunner, Leave, Goto
    <2>4. /\ queue' \in Seq(Jobs) /\ Len(queue') <= Capacity
          /\ handing' \in [Producers -> SUBSET Jobs]
      BY <2>1 DEF ProcessGone
    <2> QED
      BY <2>1, <2>2, <2>3, <2>4 DEF ProcessGone
  <1>13. CASE UNCHANGED vars
    BY <1>13
  <1> QED
    BY <1>1, <1>2, <1>3, <1>4, <1>5, <1>6, <1>7, <1>8, <1>9, <1>10, <1>11,
       <1>12, <1>13 DEF Next

\* Every variable keeps its type and the queue its capacity in every
\* reachable state (queue.NewMemory, core.JobStatus).
THEOREM TypeCorrect == Spec => []TypeOK
  <1>1. Init => TypeOK /\ HoldsAJob
    BY InitIInv DEF IInv
  <1> QED
    BY <1>1, NextTypeOK, PTL DEF Spec
-----------------------------------------------------------------------------
\* The rest of the invariant, one lemma per group of actions.
Core == OnePlace /\ WaitingIsQueued /\ ConsumerAgrees /\ HistoryAgrees /\ PhaseAgrees

\* Start-up steps: the consumer is idle and memory empty, except for what
\* reconciliation puts in the queue.
LEMMA StartupKeepsCore ==
    ASSUME IInv, TypeOK', Boot \/ FailOrphanedJobs \/ reconcileQueuedJobs
                          \/ StartServers \/ StartConsumer
    PROVE  Core'
  <1> USE DEF IInv, Core, TypeOK, RunTypeOK, HoldsAJob, Ledger!LedgerTypeOK, Ledger!JobStatus,
              Ledger!WorkStates, Terminal, Ledger!Terminal, RunnerStates, Phases,
              Gone, Producers
  <1>1. pc[D] = "idle" /\ phase \notin {"running", "stopping"}
    BY DEF Boot, FailOrphanedJobs, reconcileQueuedJobs, StartServers, StartConsumer,
           PhaseAgrees
  <1>2. CASE Boot \/ StartServers \/ StartConsumer
    BY <1>1, <1>2 DEF Boot, StartServers, StartConsumer, runVars, OnePlace, WaitingIsQueued,
              ConsumerAgrees, HistoryAgrees, PhaseAgrees, InQueue, InHand, Claimed, Working
  <1>3. CASE FailOrphanedJobs
    BY <1>1, <1>3 DEF FailOrphanedJobs, OnePlace, WaitingIsQueued,
              ConsumerAgrees, HistoryAgrees, PhaseAgrees, InQueue, InHand, Claimed, Working
  <1>4. CASE reconcileQueuedJobs
    <2>1. PICK n \in 0..Capacity : \E q \in [1..n -> Queued] :
             Reconciled(q) /\ queue' = q
      BY <1>4 DEF reconcileQueuedJobs
    <2>2. /\ \A a, b \in 1..Len(queue') : a < b => queue'[a] < queue'[b]
          /\ \A i \in 1..Len(queue') : queue'[i] \in Queued
      BY <2>1 DEF Reconciled
    <2>3. \A a, b \in 1..Len(queue') : queue'[a] = queue'[b] => a = b
      <3> SUFFICES ASSUME NEW a \in 1..Len(queue'), NEW b \in 1..Len(queue'), a # b
                   PROVE  queue'[a] # queue'[b]
        OBVIOUS
      <3>1. queue'[a] \in Nat /\ queue'[b] \in Nat /\ Len(queue') \in Nat
        <4>1. queue'[a] \in Jobs /\ queue'[b] \in Jobs
          BY <2>2 DEF Queued
        <4>2. Len(queue') \in Nat
          OBVIOUS
        <4> QED
          BY <4>1, <4>2
      <3>2. a < b \/ b < a
        BY <3>1
      <3> QED
        BY <2>2, <3>1, <3>2
    <2>4. UNCHANGED <<ledger, announced, work, pc, cur, verdict, handing>> /\ InHand = {}
      BY <1>4 DEF reconcileQueuedJobs, PhaseAgrees
    <2>5. OnePlace' /\ WaitingIsQueued'
      BY <1>1, <2>2, <2>3, <2>4 DEF OnePlace, WaitingIsQueued, InQueue, InHand, Claimed,
         Working, Queued
    <2>6. ConsumerAgrees' /\ HistoryAgrees' /\ PhaseAgrees'
      BY <1>1, <1>4, <2>4 DEF reconcileQueuedJobs, ConsumerAgrees, HistoryAgrees, PhaseAgrees
    <2> QED
      BY <2>5, <2>6
  <1> QED
    BY <1>2, <1>3, <1>4

\* Producers: a new row goes from a hand to the channel, or stays behind.
LEMMA ProducersKeepCore ==
    ASSUME IInv, TypeOK', NEW p \in Producers, NEW j \in Jobs,
           Persist(p, j) \/ PersistFails(p, j) \/ Enqueue(p, j)
    PROVE  Core'
  <1> USE DEF IInv, Core, TypeOK, RunTypeOK, HoldsAJob, Ledger!LedgerTypeOK, Ledger!JobStatus,
              Ledger!WorkStates, Terminal, Ledger!Terminal, RunnerStates, Phases,
              Gone, Producers
  <1>1. CASE Persist(p, j)
    <2>1. /\ ledger[j] = "absent" /\ ledger' = [ledger EXCEPT ![j] = "queued"]
          /\ handing' = [handing EXCEPT ![p] = @ \cup {j}]
          /\ UNCHANGED <<announced, work, pc, cur, verdict, phase, queue>>
          /\ phase \notin Gone \cup {"booted", "recovered"}
      BY <1>1 DEF Persist, CreateJob, UpdateJobStatus, LivePhases
    <2>2. /\ InHand' = InHand \cup {j} /\ InQueue' = InQueue
          /\ Claimed(D)' = Claimed(D) /\ Working(D)' = Working(D)
      BY <2>1 DEF InHand, InQueue, Claimed, Working
    <2>3. j \notin InQueue \cup InHand \cup Claimed(D) \cup Working(D)
      BY <2>1 DEF WaitingIsQueued, ConsumerAgrees, Working
    <2>4. OnePlace'
      BY <2>1, <2>2, <2>3 DEF OnePlace, InHand
    <2>5. WaitingIsQueued'
      BY <2>1, <2>2, <2>3 DEF WaitingIsQueued
    <2>6. ConsumerAgrees' /\ HistoryAgrees' /\ PhaseAgrees'
      BY <2>1, <2>3 DEF ConsumerAgrees, HistoryAgrees, PhaseAgrees, Working
    <2> QED
      BY <2>4, <2>5, <2>6
  <1>2. CASE PersistFails(p, j)
    <2>1. /\ ledger[j] = "absent"
          /\ ledger' = ledger \/ ledger' = [ledger EXCEPT ![j] = "queued"]
          /\ UNCHANGED <<announced, work, pc, cur, verdict, phase, queue, handing>>
      BY <1>2 DEF PersistFails, CreateJobError, UpdateJobStatusError, UpdateJobStatus
    <2>2. /\ InHand' = InHand /\ InQueue' = InQueue
          /\ Claimed(D)' = Claimed(D) /\ Working(D)' = Working(D)
      BY <2>1 DEF InHand, InQueue, Claimed, Working
    <2>3. j \notin InQueue \cup InHand \cup Claimed(D) \cup Working(D)
      BY <2>1 DEF WaitingIsQueued, ConsumerAgrees, Working
    <2>4. OnePlace'
      <3>1. queue' = queue /\ handing' = handing
        BY <2>1
      <3> QED
        BY <2>2, <3>1 DEF OnePlace
    <2>5. WaitingIsQueued'
      <3> SUFFICES ASSUME NEW k \in InQueue \cup InHand \cup Claimed(D)
                   PROVE  ledger'[k] = "queued"
        BY <2>2 DEF WaitingIsQueued
      <3>1. k # j /\ ledger[k] = "queued"
        BY <2>3 DEF WaitingIsQueued
      <3>2. k \in Jobs
        BY DEF InQueue, InHand, Claimed
      <3> QED
        BY <2>1, <3>1, <3>2
    <2>6. ConsumerAgrees'
      <3>1. pc[D] \in {"running", "ended", "announced"} => ledger'[cur[D]] = ledger[cur[D]]
        <4> SUFFICES ASSUME pc[D] \in {"running", "ended", "announced"}
                     PROVE  ledger'[cur[D]] = ledger[cur[D]]
          OBVIOUS
        <4>1. cur[D] \in Jobs /\ cur[D] # j
          BY <2>3 DEF Working
        <4>2. CASE ledger' = ledger
          BY <4>2
        <4>3. CASE ledger' = [ledger EXCEPT ![j] = "queued"]
          BY <4>1, <4>3
        <4> QED
          BY <2>1, <4>2, <4>3
      <3> QED
        BY <2>1, <3>1 DEF ConsumerAgrees
    <2>7. HistoryAgrees'
      <3>1. \A k \in Jobs : ledger'[k] = ledger[k] \/ (k = j /\ ledger'[k] = "queued")
        BY <2>1
      <3> QED
        BY <2>1, <3>1 DEF HistoryAgrees
    <2>8. PhaseAgrees'
      BY <2>1, <2>2 DEF PhaseAgrees
    <2> QED
      BY <2>4, <2>5, <2>6, <2>7, <2>8
  <1>3. CASE Enqueue(p, j)
    <2>1. /\ j \in handing[p] /\ handing' = [handing EXCEPT ![p] = @ \ {j}]
          /\ queue' = Append(queue, j) \/ queue' = queue
          /\ UNCHANGED <<ledger, announced, work, pc, cur, verdict, phase>>
      BY <1>3 DEF Enqueue
    <2>2. j \in InHand /\ j \notin InQueue
      BY <2>1 DEF InHand, OnePlace
    <2>3. InHand' = InHand \ {j}
      BY <2>1 DEF InHand, OnePlace
    <2>4. /\ InQueue' \subseteq InQueue \cup {j}
          /\ \A a, b \in 1..Len(queue') : queue'[a] = queue'[b] => a = b
      <3>1. CASE queue' = queue
        BY <3>1 DEF InQueue, OnePlace
      <3>2. CASE queue' = Append(queue, j)
        <4>0. queue \in Seq(Jobs) /\ Len(queue) \in Nat
          BY DEF IInv, TypeOK
        <4>1. /\ Len(queue') = Len(queue) + 1 /\ Len(queue) \in Nat
              /\ InQueue' = InQueue \cup {j}
              /\ \A i \in 1..Len(queue) : queue'[i] = queue[i]
              /\ queue'[Len(queue) + 1] = j
          <5> HIDE DEF IInv, TypeOK, Core
          <5>1. /\ Len(Append(queue, j)) = Len(queue) + 1
                /\ {Append(queue, j)[i] : i \in 1..Len(Append(queue, j))}
                     = {queue[i] : i \in 1..Len(queue)} \cup {j}
                /\ \A i \in 1..Len(queue) : Append(queue, j)[i] = queue[i]
                /\ Append(queue, j)[Len(queue) + 1] = j
            BY ONLY <4>0, AppendElements, j \in Jobs
          <5> QED
            BY ONLY <3>2, <4>0, <5>1 DEF InQueue
        <4>2. \A i \in 1..Len(queue) : queue[i] # j
          BY <2>2 DEF InQueue
        <4>3. \A a, b \in 1..Len(queue) : queue[a] = queue[b] => a = b
          BY DEF OnePlace
        <4>4. \A a \in 1..Len(queue') : a \in 1..Len(queue) \/ a = Len(queue) + 1
          BY <4>1
        <4> QED
          BY <4>1, <4>2, <4>3, <4>4
      <3> QED
        BY <2>1, <3>1, <3>2
    <2>5. Claimed(D)' = Claimed(D) /\ Working(D)' = Working(D)
      BY <2>1 DEF Claimed, Working
    <2>6. OnePlace'
      BY <2>1, <2>2, <2>3, <2>4, <2>5 DEF OnePlace
    <2>7. WaitingIsQueued'
      BY <2>1, <2>2, <2>3, <2>4, <2>5 DEF WaitingIsQueued
    <2>8. ConsumerAgrees' /\ HistoryAgrees' /\ PhaseAgrees'
      BY <2>1, <2>2, <2>3, <2>4 DEF ConsumerAgrees, HistoryAgrees, PhaseAgrees
    <2> QED
      BY <2>6, <2>7, <2>8
  <1> QED
    BY <1>1, <1>2, <1>3

\* The consumer: the job it takes leaves the channel, and only its own row
\* and its own history change.
LEMMA ConsumerKeepsCore ==
    ASSUME IInv, TypeOK', HoldsAJob', Dequeue \/ RunNext
    PROVE  Core'
  <1> USE DEF IInv, Core, TypeOK, RunTypeOK, HoldsAJob, Ledger!LedgerTypeOK, Ledger!JobStatus,
              Ledger!WorkStates, Terminal, Ledger!Terminal, RunnerStates, Phases,
              Gone, Producers
  <1>1. CASE Dequeue
    <2>1. /\ phase \in {"running", "stopping"} /\ queue # <<>>
          /\ pc[D] = "idle"
          /\ pc' = [pc EXCEPT ![D] = "claimed"] /\ cur' = [cur EXCEPT ![D] = Head(queue)]
          /\ queue' = Tail(queue)
          /\ UNCHANGED <<ledger, announced, work, verdict, phase, handing>>
      BY <1>1 DEF Dequeue, EnterRunJob, Goto
    <2>2. \A a, b \in 1..Len(queue) : queue[a] = queue[b] => a = b
      BY DEF OnePlace
    <2>3. /\ Head(queue) \in Jobs /\ Head(queue) \in InQueue
          /\ InQueue' = InQueue \ {Head(queue)}
          /\ \A a, b \in 1..Len(queue') : queue'[a] = queue'[b] => a = b
      <3>1. queue \in Seq(Jobs) /\ queue # <<>>
        BY <2>1
      <3>2. /\ Head(queue) \in Jobs
            /\ {Tail(queue)[i] : i \in 1..Len(Tail(queue))}
                 = {queue[i] : i \in 1..Len(queue)} \ {Head(queue)}
            /\ Head(queue) \in {queue[i] : i \in 1..Len(queue)}
            /\ \A a, b \in 1..Len(Tail(queue)) : Tail(queue)[a] = Tail(queue)[b] => a = b
        BY <3>1, <2>2, TailElements
      <3>3. queue' = Tail(queue)
        BY <2>1
      <3>4. InQueue' = {Tail(queue)[i] : i \in 1..Len(Tail(queue))}
        BY <3>3 DEF InQueue
      <3>5. InQueue = {queue[i] : i \in 1..Len(queue)}
        BY DEF InQueue
      <3>6. InQueue' = InQueue \ {Head(queue)} /\ Head(queue) \in InQueue
        BY <3>2, <3>4, <3>5, Zenon
      <3>7. \A a, b \in 1..Len(queue') : queue'[a] = queue'[b] => a = b
        BY <3>2, <3>3
      <3> QED
        BY <3>2, <3>6, <3>7
    <2>4. Claimed(D)' = {Head(queue)} /\ Working(D)' = {} /\ InHand' = InHand
      BY <2>1 DEF Claimed, Working, InHand
    <2>5. OnePlace'
      BY <2>1, <2>3, <2>4 DEF OnePlace
    <2>6. WaitingIsQueued'
      BY <2>1, <2>3, <2>4 DEF WaitingIsQueued
    <2>7. ConsumerAgrees' /\ HistoryAgrees' /\ PhaseAgrees'
      BY <2>1, <2>3 DEF ConsumerAgrees, HistoryAgrees, PhaseAgrees
    <2> QED
      BY <2>5, <2>6, <2>7
  <1>2. CASE RunNext
    <2>0. /\ UNCHANGED <<phase, queue, handing>> /\ RunJobStep(D, Cancelled)
          /\ InQueue' = InQueue /\ InHand' = InHand
      BY <1>2 DEF RunNext, daemonVars, InQueue, InHand
    <2>1. pc[D] # "idle" /\ cur[D] \in Jobs /\ phase \in {"running", "stopping"}
      BY <2>0 DEF RunJobStep, RefuseJob, StartJob, StartJobFails, EndPipeline,
            PublishVerdict, RecordVerdict, RecordVerdictFails, PhaseAgrees
    <2>2. cur[D] \notin InQueue \cup InHand
      BY <2>1 DEF OnePlace, Claimed, Working
    <2>3. /\ pc'[D] # "claimed"
          /\ pc'[D] # "idle" => cur'[D] = cur[D]
          /\ \A j \in Jobs : j # cur[D] => /\ ledger'[j] = ledger[j] /\ work'[j] = work[j]
                                        /\ announced'[j] = announced[j]
      BY <2>0, <2>1 DEF RunJobStep, RefuseJob, StartJob, StartJobFails, EndPipeline,
            PublishVerdict, RecordVerdict, RecordVerdictFails, Leave, Goto,
            UpdateJobStatus, UpdateJobStatusError
    <2>4. Claimed(D)' = {} /\ Working(D)' \subseteq {cur[D]}
      BY <2>3 DEF Claimed, Working
    <2>5. OnePlace'
      BY <2>0, <2>2, <2>4 DEF OnePlace
    <2>6. WaitingIsQueued'
      <3> SUFFICES ASSUME NEW k \in InQueue \cup InHand PROVE ledger'[k] = "queued"
        BY <2>0, <2>4 DEF WaitingIsQueued
      <3>1. k \in Jobs /\ k # cur[D] /\ ledger[k] = "queued"
        BY <2>2 DEF WaitingIsQueued, InQueue, InHand
      <3> QED
        BY <2>3, <3>1
    <2>7. PhaseAgrees'
      BY <2>0, <2>1 DEF PhaseAgrees
    <2>8. ConsumerAgrees' /\ HistoryAgrees'
      <3> DEFINE c == cur[D]
      <3>0. /\ c \in Jobs
            /\ pc[D] = "claimed" => ledger[c] = "queued" /\ work[c] = "none"
            /\ \A j \in Jobs \ {c} : work[j] # "running"
        BY <2>1 DEF WaitingIsQueued, Claimed, HistoryAgrees
      <3> USE <2>0, <2>1, <2>3, <3>0
      <3>1. CASE RefuseJob(D)
        BY <3>1 DEF RefuseJob, Leave, Goto, ConsumerAgrees, HistoryAgrees
      <3>2. CASE StartJob(D, Cancelled)
        BY <3>2 DEF StartJob, Goto, UpdateJobStatus, ConsumerAgrees, HistoryAgrees
      <3>3. CASE StartJobFails(D, Cancelled)
        BY <3>3 DEF StartJobFails, Leave, Goto, UpdateJobStatus, UpdateJobStatusError,
                    ConsumerAgrees, HistoryAgrees
      <3>4. CASE EndPipeline(D)
        <4>1. PICK v \in Terminal :
                /\ verdict' = [verdict EXCEPT ![D] = v]
                /\ work' = [work EXCEPT ![c] =
                               IF v = "completed" THEN "succeeded" ELSE "broke"]
          BY <3>4 DEF EndPipeline
        <4> QED
          BY <3>4, <4>1 DEF EndPipeline, Goto, ConsumerAgrees, HistoryAgrees
      <3>5. CASE PublishVerdict(D)
        BY <3>5 DEF PublishVerdict, Goto, ConsumerAgrees, HistoryAgrees
      <3>6. CASE RecordVerdict(D)
        BY <3>6 DEF RecordVerdict, Leave, Goto, UpdateJobStatus, ConsumerAgrees, HistoryAgrees
      <3>7. CASE RecordVerdictFails(D)
        BY <3>7 DEF RecordVerdictFails, Leave, Goto, UpdateJobStatus, UpdateJobStatusError,
                    ConsumerAgrees, HistoryAgrees
      <3> QED
        BY <3>1, <3>2, <3>3, <3>4, <3>5, <3>6, <3>7 DEF RunJobStep
    <2> QED
      BY <2>5, <2>6, <2>7, <2>8
  <1> QED
    BY <1>1, <1>2

\* A process that ends, at whatever point and for whatever reason, leaves the
\* rows as they are; its memory and the pipeline it ran are lost with it.
LEMMA ProcessEnds ==
    ASSUME IInv, ProcessGone, phase' \in Gone, faults' \in 0..MaxFaults
    PROVE  IInv' /\ [Ledger!LedgerNext]_(Ledger!ledgerVars)
  <1> USE DEF IInv, TypeOK, RunTypeOK, HoldsAJob, Ledger!LedgerTypeOK,
              Ledger!WorkStates, RunnerStates, Phases, Gone, Producers
  <1>1. /\ queue' = <<>> /\ handing' = [p \in Producers |-> {}]
        /\ pc' = [pc EXCEPT ![D] = "idle"]
        /\ cur' = [cur EXCEPT ![D] = NoJob]
        /\ reported' = [reported EXCEPT ![D] = {}]
        /\ work' = IF pc[D] = "running" THEN [work EXCEPT ![cur[D]] = "lost"] ELSE work
        /\ UNCHANGED <<ledger, announced, runnable, verdict>>
    BY DEF ProcessGone, LoseRunner, Leave, Goto
  <1>2. TypeOK' /\ HoldsAJob'
    <2>1. work' \in [Jobs -> Ledger!WorkStates]
      BY <1>1
    <2>2. queue' \in Seq(Jobs) /\ Len(queue') <= Capacity
      BY <1>1
    <2> QED
      BY <1>1, <2>1, <2>2
  <1>3. /\ InQueue' = {} /\ InHand' = {} /\ Claimed(D)' = {} /\ Working(D)' = {}
        /\ Len(queue') = 0
    BY <1>1 DEF InQueue, InHand, Claimed, Working
  <1>4. OnePlace' /\ WaitingIsQueued' /\ ConsumerAgrees' /\ PhaseAgrees'
    BY <1>1, <1>3 DEF OnePlace, WaitingIsQueued, ConsumerAgrees, PhaseAgrees
  <1>5. HistoryAgrees'
    BY <1>1 DEF HistoryAgrees, ConsumerAgrees
  <1>6. [Ledger!LedgerNext]_(Ledger!ledgerVars)
    <2>1. CASE pc[D] # "running"
      BY <1>1, <2>1 DEF Ledger!ledgerVars
    <2>2. CASE pc[D] = "running"
      <3>1. cur[D] \in Jobs /\ work[cur[D]] = "running"
        BY <2>2 DEF ConsumerAgrees
      <3>2. work' = [j \in Jobs |-> IF j \in {cur[D]} THEN "lost" ELSE work[j]]
        BY <1>1, <2>2, <3>1
      <3>3. Ledger!Lose({cur[D]})
        BY <1>1, <3>1, <3>2 DEF Ledger!Lose
      <3>4. {cur[D]} \in SUBSET Jobs
        BY <3>1
      <3> QED
        BY <3>3, <3>4 DEF Ledger!LedgerNext
    <2> QED
      BY <2>1, <2>2
  <1> QED
    BY <1>2, <1>4, <1>5, <1>6

\* Shutdown waits for the consumer; a crash leaves the rows and loses memory.
LEMMA StopKeepsCore ==
    ASSUME IInv, TypeOK', Shutdown \/ ConsumerReturns \/ StopScheduler \/ Exit \/ Crash
    PROVE  Core'
  <1> USE DEF IInv, Core, TypeOK, RunTypeOK, HoldsAJob, Ledger!LedgerTypeOK, Ledger!JobStatus,
              Ledger!WorkStates, Terminal, Ledger!Terminal, RunnerStates, Phases,
              Gone, Producers
  <1>1. CASE Shutdown \/ ConsumerReturns \/ StopScheduler
    BY <1>1 DEF Shutdown, ConsumerReturns, StopScheduler, runVars, OnePlace, WaitingIsQueued,
              ConsumerAgrees, HistoryAgrees, PhaseAgrees, InQueue, InHand, Claimed, Working
  <1>2. CASE Exit \/ Crash
    <2>1. ProcessGone /\ phase' \in Gone /\ faults' \in 0..MaxFaults
      BY <1>2 DEF Exit, Crash, Fault
    <2> QED
      BY <2>1, ProcessEnds DEF IInv, Core
  <1> QED
    BY <1>1, <1>2

\* IInv is inductive.
LEMMA NextIInv == IInv /\ [Next]_vars => IInv'
  <1> SUFFICES ASSUME IInv, [Next]_vars PROVE IInv'
    OBVIOUS
  <1>1. TypeOK' /\ HoldsAJob'
    BY NextTypeOK DEF IInv
  <1>2. Core'
    <2>1. CASE Boot \/ FailOrphanedJobs \/ reconcileQueuedJobs
               \/ StartServers \/ StartConsumer
      BY <1>1, <2>1, StartupKeepsCore
    <2>2. ASSUME NEW p \in Producers, NEW j \in Jobs,
                 Persist(p, j) \/ PersistFails(p, j) \/ Enqueue(p, j)
          PROVE  Core'
      BY <1>1, <2>2, ProducersKeepCore
    <2>3. CASE Dequeue \/ RunNext
      BY <1>1, <2>3, ConsumerKeepsCore
    <2>4. CASE Shutdown \/ ConsumerReturns \/ StopScheduler \/ Exit \/ Crash
      BY <1>1, <2>4, StopKeepsCore
    <2>5. CASE UNCHANGED vars
      <3>1. UNCHANGED <<ledger, announced, work, pc, cur, verdict, phase, queue, handing>>
        BY <2>5 DEF vars, runVars, daemonVars
      <3>2. UNCHANGED <<InQueue, InHand, Claimed(D), Working(D)>>
        BY <3>1 DEF InQueue, InHand, Claimed, Working
      <3>3. OnePlace' /\ WaitingIsQueued'
        BY <3>1, <3>2 DEF IInv, OnePlace, WaitingIsQueued
      <3>4. ConsumerAgrees' /\ HistoryAgrees' /\ PhaseAgrees'
        BY <3>1, <3>2 DEF IInv, ConsumerAgrees, HistoryAgrees, PhaseAgrees
      <3> QED
        BY <3>3, <3>4 DEF Core
    <2> QED
      BY <2>1, <2>2, <2>3, <2>4, <2>5 DEF Next
  <1> QED
    BY <1>1, <1>2 DEF IInv, Core

\* The inductive invariant holds in every reachable state.
THEOREM Invariance == Spec => []IInv
  BY InitIInv, NextIInv, PTL DEF Spec

\* No job id is ever in two places of the daemon's memory at once
\* (reconcileQueuedJobs, dispatch, triggerBackupHandler, Dequeue).
THEOREM OnePlaceHolds == Spec => []OnePlace
  BY Invariance, PTL DEF IInv

\* A row says completed only for a pipeline that ended without an error, and
\* no BackupFailed event was persisted for it (RunJob's finalStatus).
THEOREM CompletionIsTruthful == Spec => []TruthfulCompletion
  <1>1. IInv => TruthfulCompletion
    BY DEF IInv, HistoryAgrees, TruthfulCompletion
  <1> QED
    BY <1>1, Invariance, PTL

\* Within one daemon, across crashes and restarts, no job's pipeline is started
\* twice (UpdateJobStatus is unguarded; the queue discipline guards it).
THEOREM PipelinesRunOnce == Spec => RunsAtMostOnce
  <1> DEFINE A == \A j \in Jobs : work'[j] = "running" => work[j] \in {"none", "running"}
  <1>1. IInv /\ [Next]_vars => [A]_vars
    <2> SUFFICES ASSUME IInv, Next, NEW j \in Jobs, work'[j] = "running"
                 PROVE  work[j] \in {"none", "running"}
      OBVIOUS
    <2> USE DEF IInv, TypeOK, RunTypeOK, Ledger!LedgerTypeOK, HoldsAJob
    <2>1. CASE RunNext
      <3>1. CASE StartJob(D, Cancelled)
        <4>1. cur[D] \in Jobs /\ work[cur[D]] = "none"
          BY <3>1 DEF StartJob, WaitingIsQueued, Claimed, HistoryAgrees
        <4> QED
          BY <3>1, <4>1 DEF StartJob
      <3>2. CASE EndPipeline(D)
        BY <3>2 DEF EndPipeline
      <3>3. CASE work' = work
        BY <3>3
      <3> QED
        BY <2>1, <3>1, <3>2, <3>3 DEF RunNext, RunJobStep, RefuseJob, StartJobFails,
           PublishVerdict, RecordVerdict, RecordVerdictFails
    <2>2. CASE Exit \/ Crash
      BY <2>2 DEF Exit, Crash, ProcessGone, LoseRunner
    <2>3. CASE work' = work
      BY <2>3
    <2> QED
      BY <2>1, <2>2, <2>3 DEF Next, Boot, FailOrphanedJobs, reconcileQueuedJobs, StartServers,
         StartConsumer, Persist, PersistFails, Enqueue, Dequeue, Shutdown,
         ConsumerReturns, StopScheduler, runVars
  <1> QED
    BY <1>1, Invariance, PTL DEF Spec, RunsAtMostOnce

\* completed and failed are never overwritten by the daemon or its successors
\* (UpdateJobStatus, FailOrphanedJobs).
THEOREM TerminalStatusIsFinal == Spec => TerminalIsFinal
  <1> DEFINE A == \A j \in Jobs : ledger[j] \in Terminal => ledger'[j] = ledger[j]
  <1>1. IInv /\ [Next]_vars => [A]_vars
    <2> SUFFICES ASSUME IInv, Next, NEW j \in Jobs, ledger[j] \in Terminal
                 PROVE  ledger'[j] = ledger[j]
      OBVIOUS
    <2> USE DEF IInv, TypeOK, RunTypeOK, Ledger!LedgerTypeOK, HoldsAJob, Terminal, Ledger!Terminal
    <2>1. CASE RunNext
      <3>1. pc[D] # "idle" => cur[D] # j
        BY DEF ConsumerAgrees, WaitingIsQueued, Claimed, RunnerStates
      <3> QED
        BY <2>1, <3>1 DEF RunNext, RunJobStep, RefuseJob, StartJob, StartJobFails, EndPipeline,
           PublishVerdict, RecordVerdict, RecordVerdictFails, UpdateJobStatus,
           UpdateJobStatusError
    <2>2. CASE FailOrphanedJobs
      BY <2>2 DEF FailOrphanedJobs
    <2>3. ASSUME NEW p \in Producers, NEW k \in Jobs, Persist(p, k) \/ PersistFails(p, k)
          PROVE  ledger'[j] = ledger[j]
      BY <2>3 DEF Persist, PersistFails, CreateJob, CreateJobError, UpdateJobStatus,
         UpdateJobStatusError
    <2>4. CASE ledger' = ledger
      BY <2>4
    <2> QED
      BY <2>1, <2>2, <2>3, <2>4 DEF Next, Boot, reconcileQueuedJobs, StartServers,
         StartConsumer, Enqueue, Dequeue, Shutdown, ConsumerReturns, StopScheduler,
         Exit, Crash, ProcessGone, runVars
  <1> QED
    BY <1>1, Invariance, PTL DEF Spec, TerminalIsFinal
-----------------------------------------------------------------------------
\* What memory holds or has complained about, after each step that can make a
\* job queued or drop one.
LEMMA NextNoSilentLoss == IInv /\ NoSilentLoss /\ [Next]_vars => NoSilentLoss'
  <1> SUFFICES ASSUME IInv, NoSilentLoss, [Next]_vars,
                      phase' \notin Gone \cup {"booted", "recovered"},
                      NEW j \in Jobs, ledger'[j] = "queued"
               PROVE  j \in (InQueue \cup InHand \cup Claimed(D) \cup reported[D])'
    BY DEF NoSilentLoss, Queued
  <1> DEFINE Held == InQueue \cup InHand \cup Claimed(D) \cup reported[D]
  <1> USE DEF IInv, TypeOK, RunTypeOK, Ledger!LedgerTypeOK, HoldsAJob, Producers
  <1>0. phase \notin Gone \cup {"booted", "recovered"} /\ ledger[j] = "queued" => j \in Held
    BY DEF NoSilentLoss, Queued
  <1>1. CASE Boot \/ FailOrphanedJobs \/ Exit \/ Crash
    BY <1>1 DEF Boot, FailOrphanedJobs, Exit, Crash, Gone
  <1>2. CASE reconcileQueuedJobs
    <2>1. PICK n \in 0..Capacity : \E q \in [1..n -> Queued] :
             /\ Reconciled(q)
             /\ queue' = q
             /\ Report(D, Queued \ {q[i] : i \in 1..n})
      BY <1>2, Zenon DEF reconcileQueuedJobs
    <2>2. PICK q \in [1..n -> Queued] :
             /\ Reconciled(q)
             /\ queue' = q
             /\ Report(D, Queued \ {q[i] : i \in 1..n})
      BY <2>1, Zenon
    <2>3. Len(queue') = n
      BY <2>2
    <2>4. InQueue' = {q[i] : i \in 1..n}
      BY <2>2, <2>3 DEF InQueue
    <2>5. reported'[D] = reported[D] \cup (Queued \ {q[i] : i \in 1..n})
      BY <2>2 DEF Report
    <2>6. j \in Queued
      BY <1>2 DEF reconcileQueuedJobs, Queued
    <2> QED
      BY <2>4, <2>5, <2>6
  <1>3. CASE StartServers \/ StartConsumer \/ Shutdown \/ ConsumerReturns \/ StopScheduler
             \/ UNCHANGED vars
    <2>1. UNCHANGED <<ledger, pc, cur, reported, queue, handing>>
      BY <1>3 DEF StartServers, StartConsumer, Shutdown, ConsumerReturns, StopScheduler,
         vars, runVars, daemonVars
    <2>2. phase \notin Gone \cup {"booted", "recovered"}
      BY <1>3 DEF StartServers, StartConsumer, Shutdown, ConsumerReturns, StopScheduler,
         vars, daemonVars, Gone
    <2>3. j \in Held
      BY <1>0, <2>1, <2>2
    <2> QED
      BY <2>1, <2>3 DEF InQueue, InHand, Claimed
  <1>4. ASSUME NEW p \in Producers, NEW k \in Jobs, Persist(p, k)
        PROVE  j \in Held'
    <2>1. /\ UNCHANGED <<pc, cur, reported, phase, queue>>
          /\ handing' = [handing EXCEPT ![p] = @ \cup {k}]
          /\ ledger' = [ledger EXCEPT ![k] = "queued"]
      BY <1>4 DEF Persist, CreateJob, UpdateJobStatus
    <2>2. InQueue' = InQueue /\ Claimed(D)' = Claimed(D) /\ InHand' = InHand \cup {k}
      BY <2>1 DEF InQueue, Claimed, InHand
    <2>3. CASE j = k
      BY <2>2, <2>3
    <2>4. CASE j # k
      BY <1>0, <2>1, <2>2, <2>4
    <2> QED
      BY <2>3, <2>4
  <1>5. ASSUME NEW p \in Producers, NEW k \in Jobs, PersistFails(p, k)
        PROVE  j \in Held'
    <2>1. /\ UNCHANGED <<pc, cur, phase, queue, handing>>
          /\ reported' = [reported EXCEPT ![D] = @ \cup {k}]
          /\ j # k => ledger'[j] = ledger[j]
      BY <1>5 DEF PersistFails, CreateJobError, UpdateJobStatusError, UpdateJobStatus, Report
    <2>2. InQueue' = InQueue /\ Claimed(D)' = Claimed(D) /\ InHand' = InHand
      BY <2>1 DEF InQueue, Claimed, InHand
    <2>3. CASE j = k
      BY <2>1, <2>3
    <2>4. CASE j # k
      BY <1>0, <2>1, <2>2, <2>4
    <2> QED
      BY <2>3, <2>4
  <1>6. ASSUME NEW p \in Producers, NEW k \in Jobs, Enqueue(p, k)
        PROVE  j \in Held'
    <2>1. /\ UNCHANGED <<ledger, pc, cur, phase>>
          /\ handing' = [handing EXCEPT ![p] = @ \ {k}]
      BY <1>6 DEF Enqueue
    <2>2. InHand \subseteq InHand' \cup {k} /\ Claimed(D)' = Claimed(D)
      BY <2>1 DEF InHand, Claimed
    <2>3. InQueue \subseteq InQueue' /\ reported[D] \subseteq reported'[D]
          /\ k \in InQueue' \cup reported'[D]
      <3>1. CASE queue' = Append(queue, k) /\ UNCHANGED reported
        <4>1. InQueue' = InQueue \cup {k}
          BY <3>1, AppendElements DEF InQueue
        <4> QED
          BY <3>1, <4>1
      <3>2. CASE Report(D, {k}) /\ UNCHANGED queue
        BY <3>2 DEF Report, InQueue
      <3> QED
        BY <1>6, <3>1, <3>2 DEF Enqueue
    <2>4. j \in Held
      BY <1>0, <2>1
    <2> QED
      BY <2>2, <2>3, <2>4
  <1>7. CASE Dequeue
    <2>1. /\ queue # <<>> /\ queue' = Tail(queue) /\ pc[D] = "idle"
          /\ UNCHANGED <<ledger, phase, handing, reported>>
          /\ pc'[D] = "claimed" /\ cur'[D] = Head(queue)
      BY <1>7 DEF Dequeue, EnterRunJob, Goto
    <2>2. InQueue \subseteq InQueue' \cup {Head(queue)}
      <3> SUFFICES ASSUME NEW i \in 1..Len(queue), queue[i] # Head(queue)
                   PROVE  queue[i] \in InQueue'
        BY DEF InQueue
      <3>1. i # 1 /\ i - 1 \in 1..Len(queue') /\ queue'[i - 1] = queue[i]
        BY <2>1
      <3> QED
        BY <3>1 DEF InQueue
    <2>3. InHand' = InHand /\ Claimed(D) = {} /\ Claimed(D)' = {Head(queue)}
      BY <2>1 DEF InHand, Claimed
    <2>4. j \in Held
      BY <1>0, <2>1
    <2> QED
      BY <2>1, <2>2, <2>3, <2>4
  <1>8. CASE RunNext
    <2>1. /\ UNCHANGED <<phase, queue, handing>> /\ InQueue' = InQueue /\ InHand' = InHand
          /\ RunJobStep(D, Cancelled)
      BY <1>8 DEF RunNext, daemonVars, InQueue, InHand
    <2>2. cur[D] \in Jobs
      BY <2>1 DEF RunJobStep, RefuseJob, StartJob, StartJobFails, EndPipeline,
            PublishVerdict, RecordVerdict, RecordVerdictFails
    <2>3. CASE j # cur[D]
      <3>1. ledger'[j] = ledger[j] /\ reported[D] \subseteq reported'[D]
        BY <2>1, <2>2, <2>3 DEF RunJobStep, RefuseJob, StartJob, StartJobFails, EndPipeline,
            PublishVerdict, RecordVerdict, RecordVerdictFails, Report,
            UpdateJobStatus, UpdateJobStatusError
      <3> QED
        BY <1>0, <2>1, <2>3, <3>1 DEF Claimed
    <2>4. CASE j = cur[D] /\ (RefuseJob(D) \/ StartJobFails(D, Cancelled))
      BY <2>4 DEF RefuseJob, StartJobFails, Report
    <2>5. CASE j = cur[D] /\ ~(RefuseJob(D) \/ StartJobFails(D, Cancelled))
      <3>1. /\ StartJob(D, Cancelled) \/ EndPipeline(D) \/ PublishVerdict(D)
                 \/ RecordVerdict(D) \/ RecordVerdictFails(D)
            /\ pc[D] # "claimed" => ledger[j] = "in_progress"
        BY <2>1, <2>5 DEF RunJobStep, ConsumerAgrees, StartJob, EndPipeline,
            PublishVerdict, RecordVerdict, RecordVerdictFails
      <3>2. verdict[D] # "queued"
        BY DEF Terminal, Ledger!Terminal
      <3>3. ledger'[j] # "queued"
        BY <2>2, <2>5, <3>1, <3>2 DEF StartJob, EndPipeline, PublishVerdict, RecordVerdict,
            RecordVerdictFails, UpdateJobStatus, UpdateJobStatusError
      <3> QED
        BY <3>3
    <2> QED
      BY <2>3, <2>4, <2>5
  <1> QED
    BY <1>1, <1>2, <1>3, <1>4, <1>5, <1>6, <1>7, <1>8 DEF Next

\* The durability contract of queue.Queue, for any interleaving of dispatches,
\* handlers, crashes and restarts: a queued row that memory does not hold is
\* one an error was logged about (CreateJob, Enqueue, RunJob).
THEOREM DurabilityContract == Spec => []NoSilentLoss
  <1>1. Init => NoSilentLoss
    BY DEF Init, NoSilentLoss, Gone
  <1> QED
    BY <1>1, Invariance, NextNoSilentLoss, PTL DEF Spec

\* The start-up sweep leaves no in_progress row, and afterwards only the
\* consumer makes one.
LEMMA NextNoSilentOrphan == IInv /\ NoSilentOrphan /\ [Next]_vars => NoSilentOrphan'
  <1> SUFFICES ASSUME IInv, NoSilentOrphan, [Next]_vars,
                      phase' \notin Gone \cup {"booted"},
                      NEW j \in Jobs, ledger'[j] = "in_progress"
               PROVE  j \in (Working(D) \cup reported[D])'
    BY DEF NoSilentOrphan
  <1> USE DEF IInv, TypeOK, RunTypeOK, Ledger!LedgerTypeOK, HoldsAJob
  <1>0. phase \notin Gone \cup {"booted"} /\ ledger[j] = "in_progress" =>
          j \in Working(D) \cup reported[D]
    BY DEF NoSilentOrphan
  <1>1. CASE Boot \/ Exit \/ Crash
    BY <1>1 DEF Boot, Exit, Crash, Gone
  <1>2. CASE FailOrphanedJobs
    BY <1>2 DEF FailOrphanedJobs
  <1>3. CASE reconcileQueuedJobs \/ StartServers \/ StartConsumer \/ Shutdown \/ ConsumerReturns
             \/ StopScheduler \/ UNCHANGED vars
             \/ (\E p \in Producers, k \in Jobs : Persist(p, k) \/ PersistFails(p, k) \/ Enqueue(p, k))
    <2>1. /\ UNCHANGED <<pc, cur>> /\ reported[D] \subseteq reported'[D]
          /\ phase \notin Gone \cup {"booted"}
      BY <1>3 DEF reconcileQueuedJobs, StartServers, StartConsumer, Shutdown, ConsumerReturns,
         StopScheduler, vars, runVars, daemonVars, Gone, Persist, PersistFails, Enqueue, Report
    <2>2. ledger[j] = "in_progress"
      BY <1>3 DEF reconcileQueuedJobs, StartServers, StartConsumer, Shutdown, ConsumerReturns,
         StopScheduler, vars, runVars, Persist, PersistFails, Enqueue, CreateJob,
         CreateJobError, UpdateJobStatus, UpdateJobStatusError
    <2> QED
      BY <1>0, <2>1, <2>2 DEF Working
  <1>4. CASE Dequeue
    BY <1>0, <1>4 DEF Dequeue, EnterRunJob, Goto, Working
  <1>5. CASE RunNext
    <2>1. UNCHANGED phase /\ RunJobStep(D, Cancelled)
      BY <1>5 DEF RunNext, daemonVars
    <2>2. cur[D] \in Jobs
      BY <2>1 DEF RunJobStep, RefuseJob, StartJob, StartJobFails, EndPipeline,
            PublishVerdict, RecordVerdict, RecordVerdictFails
    <2>3. CASE j # cur[D]
      <3>1. ledger'[j] = ledger[j] /\ reported[D] \subseteq reported'[D]
        BY <2>1, <2>2, <2>3 DEF RunJobStep, RefuseJob, StartJob, StartJobFails, EndPipeline,
            PublishVerdict, RecordVerdict, RecordVerdictFails, Report,
            UpdateJobStatus, UpdateJobStatusError
      <3> QED
        BY <1>0, <2>1, <2>3, <3>1 DEF Working
    <2>4. CASE j = cur[D] /\ (RefuseJob(D) \/ StartJobFails(D, Cancelled) \/ RecordVerdictFails(D))
      BY <2>4 DEF RefuseJob, StartJobFails, RecordVerdictFails, Report
    <2>5. CASE j = cur[D] /\ (StartJob(D, Cancelled) \/ EndPipeline(D) \/ PublishVerdict(D))
      BY <2>5 DEF StartJob, EndPipeline, PublishVerdict, Goto, Working
    <2>6. CASE j = cur[D] /\ RecordVerdict(D)
      <3>1. verdict[D] # "in_progress"
        BY DEF Terminal, Ledger!Terminal
      <3> QED
        BY <2>2, <2>6, <3>1 DEF RecordVerdict, UpdateJobStatus
    <2> QED
      BY <2>1, <2>3, <2>4, <2>5, <2>6 DEF RunJobStep
  <1> QED
    BY <1>1, <1>2, <1>3, <1>4, <1>5 DEF Next

\* After the start-up sweep an in_progress row is the consumer's job or one
\* whose status write was reported as failed (FailOrphanedJobs, RunJob).
THEOREM OrphansAreSwept == Spec => []NoSilentOrphan
  <1>1. Init => NoSilentOrphan
    BY DEF Init, NoSilentOrphan, Gone
  <1> QED
    BY <1>1, Invariance, NextNoSilentOrphan, PTL DEF Spec
-----------------------------------------------------------------------------
\* Every step of the daemon is a step of the abstract ledger or leaves it.
LEMMA NextRefines == IInv /\ [Next]_vars => [Ledger!LedgerNext]_(Ledger!ledgerVars)
  <1> SUFFICES ASSUME IInv, [Next]_vars
               PROVE  Ledger!LedgerNext \/ UNCHANGED <<ledger, work>>
    BY DEF Ledger!ledgerVars
  <1> USE DEF IInv, TypeOK, RunTypeOK, Ledger!LedgerTypeOK, HoldsAJob
  <1>1. CASE \/ Boot \/ reconcileQueuedJobs \/ StartServers \/ StartConsumer \/ Dequeue
             \/ Shutdown \/ ConsumerReturns \/ StopScheduler \/ UNCHANGED vars
             \/ \E p \in Producers, j \in Jobs : Enqueue(p, j)
    BY <1>1 DEF Boot, reconcileQueuedJobs, StartServers, StartConsumer, Dequeue, Shutdown,
       ConsumerReturns, StopScheduler, vars, runVars, Enqueue
  <1>2. CASE FailOrphanedJobs
    <2> DEFINE S == {j \in Jobs : ledger[j] = "in_progress"}
    <2>1. /\ ledger' = [j \in Jobs |-> IF j \in S THEN "failed" ELSE ledger[j]]
          /\ UNCHANGED work
      BY <1>2 DEF FailOrphanedJobs
    <2>2. \A j \in S : work[j] # "running"
      BY <1>2 DEF FailOrphanedJobs, HistoryAgrees, PhaseAgrees
    <2>3. CASE S = {}
      BY <2>1, <2>3
    <2>4. CASE S # {}
      <3>1. Ledger!Abandon(S)
        BY <2>1, <2>2, <2>4 DEF Ledger!Abandon
      <3> QED
        BY <3>1 DEF Ledger!LedgerNext
    <2> QED
      BY <2>3, <2>4
  <1>3. ASSUME NEW p \in Producers, NEW j \in Jobs, Persist(p, j) \/ PersistFails(p, j)
        PROVE  Ledger!LedgerNext \/ UNCHANGED <<ledger, work>>
    <2>1. Ledger!Submit(j) \/ UNCHANGED <<ledger, work>>
      BY <1>3 DEF Persist, PersistFails, CreateJob, CreateJobError, UpdateJobStatus,
         UpdateJobStatusError, Ledger!Submit
    <2> QED
      BY <2>1 DEF Ledger!LedgerNext
  <1>4. CASE RunNext
    <2> DEFINE c == cur[D]
    <2>1. RunJobStep(D, Cancelled)
      BY <1>4 DEF RunNext
    <2>2. c \in Jobs
      BY <2>1 DEF RunJobStep, RefuseJob, StartJob, StartJobFails, EndPipeline,
            PublishVerdict, RecordVerdict, RecordVerdictFails
    <2>3. pc[D] = "claimed" => ledger[c] = "queued" /\ work[c] = "none"
      BY <2>2 DEF WaitingIsQueued, Claimed, HistoryAgrees
    <2>4. CASE RefuseJob(D) \/ PublishVerdict(D)
      BY <2>4 DEF RefuseJob, PublishVerdict
    <2>5. CASE StartJob(D, Cancelled) \/ StartJobFails(D, Cancelled)
      <3>1. Ledger!Claim(c) \/ UNCHANGED <<ledger, work>>
        BY <2>3, <2>5 DEF StartJob, StartJobFails, UpdateJobStatus, UpdateJobStatusError,
           Ledger!Claim
      <3> QED
        BY <2>2, <3>1 DEF Ledger!LedgerNext
    <2>6. CASE EndPipeline(D)
      <3>1. PICK v \in Terminal :
              work' = [work EXCEPT ![c] = IF v = "completed" THEN "succeeded" ELSE "broke"]
        BY <2>6 DEF EndPipeline
      <3>2. ledger[c] = "in_progress" /\ work[c] = "running" /\ ledger' = ledger
        BY <2>6 DEF EndPipeline, ConsumerAgrees
      <3>3. Ledger!Return(c)
        BY <3>1, <3>2 DEF Ledger!Return
      <3> QED
        BY <2>2, <3>3 DEF Ledger!LedgerNext
    <2>7. CASE RecordVerdict(D) \/ RecordVerdictFails(D)
      <3>1. /\ ledger[c] = "in_progress" /\ UNCHANGED work
            /\ ledger' = [ledger EXCEPT ![c] = verdict[D]] \/ ledger' = ledger
        BY <2>7 DEF RecordVerdict, RecordVerdictFails, ConsumerAgrees, UpdateJobStatus,
           UpdateJobStatusError
      <3>2. \/ verdict[D] = "completed" /\ work[c] = "succeeded"
            \/ verdict[D] = "failed" /\ work[c] = "broke"
        BY <2>7 DEF RecordVerdict, RecordVerdictFails, ConsumerAgrees, Terminal, Ledger!Terminal
      <3>3. Ledger!Record(c) \/ UNCHANGED <<ledger, work>>
        BY <3>1, <3>2 DEF Ledger!Record
      <3> QED
        BY <2>2, <3>3 DEF Ledger!LedgerNext
    <2> QED
      BY <2>1, <2>4, <2>5, <2>6, <2>7 DEF RunJobStep
  <1>5. CASE Exit \/ Crash
    <2>1. ProcessGone /\ phase' \in Gone /\ faults' \in 0..MaxFaults
      BY <1>5 DEF Exit, Crash, Fault, Gone
    <2> QED
      BY <2>1, ProcessEnds DEF Ledger!ledgerVars
  <1> QED
    BY <1>1, <1>2, <1>3, <1>4, <1>5 DEF Next

\* The jobs table behaves as the abstract ledger: claimed at most once, run at
\* most once, final once terminal, completed only for a pipeline that ended
\* without an error (UpdateJobStatus, FailOrphanedJobs, RunJob).
THEOREM Refinement == Spec => ImplementsLedger
  <1>1. Init => Ledger!LedgerInit
    BY DEF Init, RunInit
  <1> QED
    BY <1>1, Invariance, NextRefines, PTL DEF Spec, ImplementsLedger, Ledger!LedgerSpec
=============================================================================
