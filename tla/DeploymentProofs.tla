--------------------------- MODULE DeploymentProofs ---------------------------
(***************************************************************************)
(* The daemon and any number of `bop backup` commands over one jobs table. *)
(*                                                                         *)
(* What the daemon's own invariant says of all jobs holds here of those    *)
(* that no command had at hand during a start-up recovery: such a job is   *)
(* held by one process at most, and its row, its pipeline and its holder   *)
(* agree.  The queue discipline of the daemon's memory, and that a row     *)
(* never goes away, hold of every job.                                     *)
(***************************************************************************)
EXTENDS Deployment, DaemonProofs

\* The jobs in the daemon's memory that nobody has begun.
Waiting == InQueue \cup InHand

\* r is inside RunJob.
Busy(r) == pc[r] # "idle"

HoldsJobs == \A r \in Runners : Busy(r) => cur[r] \in Jobs

\* Whatever is held anywhere has a row, so CreateJob does not take its id.
HeldHasRow ==
    /\ \A j \in Waiting : ledger[j] # "absent"
    /\ \A r \in Runners : Busy(r) => ledger[cur[r]] # "absent"

\* An unexposed job has one holder at most.
Apart ==
    \A r \in Runners : Busy(r) /\ cur[r] \notin exposed =>
        /\ cur[r] \notin Waiting
        /\ \A q \in Runners : Busy(q) /\ cur[q] = cur[r] => q = r

\* An unexposed job that waits is a queued row.
WaitingIsNew == \A j \in Waiting \ exposed : ledger[j] = "queued"

\* A process agrees with the row and the pipeline of its unexposed job.
Agrees(r) ==
    /\ pc[r] = "claimed" => ledger[cur[r]] = "queued"
    /\ pc[r] \in {"running", "ended", "announced"} => ledger[cur[r]] = "in_progress"
    /\ pc[r] = "running" => work[cur[r]] = "running"
    /\ pc[r] \in {"ended", "announced"} =>
         work[cur[r]] = (IF verdict[r] = "completed" THEN "succeeded" ELSE "broke")

RunnersAgree ==
    \A r \in Runners : Busy(r) /\ cur[r] \notin exposed => Agrees(r)

\* What the history of an unexposed job's pipeline says of its row and events.
Consistent(j) ==
    /\ ledger[j] \in {"absent", "queued"} => work[j] = "none"
    /\ work[j] = "running" => \E r \in Runners : pc[r] = "running" /\ cur[r] = j
    /\ "completed" \in announced[j] => work[j] = "succeeded"
    /\ "failed" \in announced[j] => work[j] = "broke"
    /\ ledger[j] = "completed" => work[j] = "succeeded"

HistoriesAgree == \A j \in Jobs \ exposed : Consistent(j)

DeploymentInv ==
    /\ DeploymentTypeOK
    /\ HoldsJobs
    /\ PhaseAgrees
    /\ OnePlace
    /\ HeldHasRow
    /\ Apart
    /\ WaitingIsNew
    /\ RunnersAgree
    /\ HistoriesAgree

USE DIsARunner, CapacityIsPositive, NoJobIsNotAJob, MaxFaultsIsNat, JobsAreInstants
-----------------------------------------------------------------------------
(* What the processes hold                                                 *)

\* The consumer's job is what it has claimed or works on.
LEMMA ConsumersJob ==
    ASSUME TypeOK
    PROVE  /\ Claimed(D) \cup Working(D) = (IF Busy(D) THEN {cur[D]} ELSE {})
           /\ Claimed(D) \cap Working(D) = {}
  BY DEF TypeOK, RunTypeOK, RunnerStates, Claimed, Working, Busy

\* The daemon's memory is the channel and the hands of its producers.
LEMMA MemoryIsOf ==
    ASSUME TypeOK
    PROVE  Waiting \subseteq Jobs
  BY DEF TypeOK, Waiting, InQueue, InHand, Producers

\* What the conjuncts about places say of the next state, if the same jobs
\* wait, and each process holds what it held or nothing.
LEMMA PlacesKept ==
    ASSUME DeploymentInv, DeploymentTypeOK', UNCHANGED <<queue, handing, phase>>,
           exposed \subseteq exposed',
           \A r \in Runners : Busy(r)' => Busy(r) /\ cur'[r] = cur[r],
           \A j \in Jobs : ledger[j] # "absent" => ledger'[j] # "absent"
    PROVE  /\ HoldsJobs' /\ PhaseAgrees' /\ OnePlace' /\ HeldHasRow' /\ Apart'
           /\ Waiting' = Waiting
  <1> USE DEF DeploymentInv, DeploymentTypeOK
  <1>1. UNCHANGED <<InQueue, InHand, Waiting>>
    BY DEF Waiting, InQueue, InHand
  <1>2. HoldsJobs'
    BY DEF HoldsJobs
  <1>3. PhaseAgrees'
    BY <1>1 DEF PhaseAgrees, Busy
  <1>4. OnePlace'
    <2>1. (Claimed(D) \cup Working(D))' \subseteq Claimed(D) \cup Working(D)
      <3>1. Busy(D)' => Busy(D) /\ cur'[D] = cur[D]
        OBVIOUS
      <3>2. (Claimed(D) \cup Working(D))' \subseteq (IF Busy(D)' THEN {cur'[D]} ELSE {})
        BY DEF Claimed, Working, Busy
      <3> QED
        BY <3>1, <3>2, ConsumersJob
    <2> QED
      BY <1>1, <2>1 DEF OnePlace
  <1>5. HeldHasRow'
    BY <1>1, MemoryIsOf DEF HeldHasRow, HoldsJobs
  <1>6. Apart'
    BY <1>1 DEF Apart
  <1> QED
    BY <1>1, <1>2, <1>3, <1>4, <1>5, <1>6
-----------------------------------------------------------------------------
(* RunJob, in the daemon and in commands                                   *)

\* A step of RunJob touches the row, the pipeline and the events of its own
\* job, and nobody else (RunJob).
LEMMA RunJobFrame ==
    ASSUME DeploymentInv, NEW r \in Runners, NEW c \in BOOLEAN, RunJobStep(r, c)
    PROVE  /\ Busy(r) /\ cur[r] \in Jobs
           /\ \A q \in Runners \ {r} :
                 pc'[q] = pc[q] /\ cur'[q] = cur[q] /\ verdict'[q] = verdict[q]
           /\ pc'[r] # "claimed"
           /\ Busy(r)' => cur'[r] = cur[r]
           /\ \A j \in Jobs \ {cur[r]} : /\ ledger'[j] = ledger[j]
                                         /\ work'[j] = work[j]
                                         /\ announced'[j] = announced[j]
           /\ \A j \in Jobs : ledger[j] # "absent" => ledger'[j] # "absent"
  <1> USE DEF DeploymentInv, DeploymentTypeOK, TypeOK, RunTypeOK,
              Ledger!LedgerTypeOK, Busy
  <1>1. Busy(r)
    BY DEF RunJobStep, RefuseJob, StartJob, StartJobFails, EndPipeline,
           PublishVerdict, RecordVerdict, RecordVerdictFails
  <1>2. cur[r] \in Jobs
    BY <1>1 DEF HoldsJobs
  <1>3. /\ \A q \in Runners \ {r} :
              pc'[q] = pc[q] /\ cur'[q] = cur[q] /\ verdict'[q] = verdict[q]
        /\ pc'[r] # "claimed"
        /\ Busy(r)' => cur'[r] = cur[r]
    BY <1>1 DEF RunJobStep, RefuseJob, StartJob, StartJobFails, EndPipeline,
           PublishVerdict, RecordVerdict, RecordVerdictFails, Leave, Goto
  <1>4. \A j \in Jobs \ {cur[r]} : /\ ledger'[j] = ledger[j]
                                   /\ work'[j] = work[j]
                                   /\ announced'[j] = announced[j]
    BY <1>2 DEF RunJobStep, RefuseJob, StartJob, StartJobFails, EndPipeline,
           PublishVerdict, RecordVerdict, RecordVerdictFails,
           UpdateJobStatus, UpdateJobStatusError
  <1>5. ledger[cur[r]] # "absent" => ledger'[cur[r]] # "absent"
    BY <1>2 DEF RunJobStep, RefuseJob, StartJob, StartJobFails, EndPipeline,
           PublishVerdict, RecordVerdict, RecordVerdictFails,
           UpdateJobStatus, UpdateJobStatusError, Terminal, Ledger!Terminal
  <1> QED
    BY <1>1, <1>2, <1>3, <1>4, <1>5

\* A step of RunJob keeps its process in agreement with the row and the
\* pipeline of an unexposed job (RunJob, UpdateJobStatus).
LEMMA RunJobAgrees ==
    ASSUME DeploymentInv, NEW r \in Runners, NEW c \in BOOLEAN, RunJobStep(r, c),
           NEW j \in Jobs \ exposed, j = cur[r]
    PROVE  (Busy(r)' => Agrees(r)') /\ Consistent(j)'
  <1>1. /\ Busy(r) /\ j \in Jobs /\ Agrees(r) /\ Consistent(j)
        /\ Busy(r)' => cur'[r] = cur[r]
    BY RunJobFrame DEF DeploymentInv, RunnersAgree, HistoriesAgree
  <1>2. work[j] = "running" => pc[r] = "running"
    BY <1>1 DEF DeploymentInv, Apart, Consistent, Busy
  <1> USE <1>1, <1>2
          DEF DeploymentInv, DeploymentTypeOK, TypeOK, RunTypeOK,
              Ledger!LedgerTypeOK, Busy, Agrees, Consistent, Goto, Leave
  <1>3. CASE RefuseJob(r)
    BY <1>3 DEF RefuseJob
  <1>4. CASE StartJob(r, c)
    BY <1>4 DEF StartJob, UpdateJobStatus
  <1>5. CASE StartJobFails(r, c)
    BY <1>5 DEF StartJobFails, UpdateJobStatusError, UpdateJobStatus
  <1>6. CASE EndPipeline(r)
    <2>1. PICK v \in Terminal :
            /\ verdict' = [verdict EXCEPT ![r] = v]
            /\ work' = [work EXCEPT ![j] =
                           IF v = "completed" THEN "succeeded" ELSE "broke"]
      BY <1>6 DEF EndPipeline
    <2> QED
      BY <1>6, <2>1 DEF EndPipeline
  <1>7. CASE PublishVerdict(r)
    BY <1>7 DEF PublishVerdict, Terminal, Ledger!Terminal
  <1>8. CASE RecordVerdict(r)
    BY <1>8 DEF RecordVerdict, UpdateJobStatus, Terminal, Ledger!Terminal
  <1>9. CASE RecordVerdictFails(r)
    BY <1>9 DEF RecordVerdictFails, UpdateJobStatus, UpdateJobStatusError,
                Terminal, Ledger!Terminal
  <1> QED
    BY <1>3, <1>4, <1>5, <1>6, <1>7, <1>8, <1>9 DEF RunJobStep

\* A step of RunJob, by whichever process, keeps the invariant.
LEMMA RunJobKeeps ==
    ASSUME DeploymentInv, NEW r \in Runners, NEW c \in BOOLEAN, RunJobStep(r, c),
           UNCHANGED <<daemonVars, exposed>>, DeploymentTypeOK'
    PROVE  DeploymentInv'
  <1>1. /\ Busy(r) /\ cur[r] \in Jobs
        /\ \A q \in Runners \ {r} :
              pc'[q] = pc[q] /\ cur'[q] = cur[q] /\ verdict'[q] = verdict[q]
        /\ Busy(r)' => cur'[r] = cur[r]
        /\ \A j \in Jobs \ {cur[r]} : /\ ledger'[j] = ledger[j]
                                      /\ work'[j] = work[j]
                                      /\ announced'[j] = announced[j]
        /\ \A j \in Jobs : ledger[j] # "absent" => ledger'[j] # "absent"
    BY RunJobFrame
  <1>2. UNCHANGED <<queue, handing, phase>>
    BY DEF daemonVars
  <1>3. \A q \in Runners : Busy(q)' => Busy(q) /\ cur'[q] = cur[q]
    BY <1>1 DEF Busy
  <1>4. /\ HoldsJobs' /\ PhaseAgrees' /\ OnePlace' /\ HeldHasRow' /\ Apart'
        /\ Waiting' = Waiting
    BY <1>1, <1>2, <1>3, PlacesKept
  <1>5. WaitingIsNew'
    BY <1>1, <1>4, MemoryIsOf
       DEF DeploymentInv, DeploymentTypeOK, WaitingIsNew, Apart
  <1>6. RunnersAgree'
    <2> SUFFICES ASSUME NEW q \in Runners, Busy(q)', cur'[q] \notin exposed
                 PROVE  Agrees(q)'
      BY DEF RunnersAgree
    <2>1. CASE q = r
      BY <1>1, <1>3, <2>1, RunJobAgrees
    <2>2. CASE q # r
      <3>1. Busy(q) /\ cur[q] \notin exposed /\ cur[q] # cur[r] /\ cur[q] \in Jobs
        BY <1>1, <1>3, <2>2 DEF DeploymentInv, Apart, HoldsJobs
      <3>2. Agrees(q)
        BY <3>1 DEF DeploymentInv, RunnersAgree
      <3> QED
        BY <1>1, <2>2, <3>1, <3>2 DEF Agrees
    <2> QED
      BY <2>1, <2>2
  <1>7. HistoriesAgree'
    <2> SUFFICES ASSUME NEW j \in Jobs, j \notin exposed
                 PROVE  Consistent(j)'
      BY DEF HistoriesAgree
    <2>1. CASE j = cur[r]
      BY <2>1, RunJobAgrees
    <2>2. CASE j # cur[r]
      <3>1. Consistent(j)
        BY DEF DeploymentInv, HistoriesAgree
      <3>2. \A q \in Runners : pc[q] = "running" /\ cur[q] = j =>
                pc'[q] = "running" /\ cur'[q] = j
        BY <1>1, <2>2
      <3> QED
        BY <1>1, <2>2, <3>1, <3>2 DEF Consistent
    <2> QED
      BY <2>1, <2>2
  <1> QED
    BY <1>4, <1>5, <1>6, <1>7 DEF DeploymentInv
-----------------------------------------------------------------------------
(* Taking a job                                                            *)

\* The consumer takes the head of the channel, which is then nowhere else in
\* the daemon; an unexposed one no command holds either (Dequeue).
LEMMA DequeueKeeps ==
    ASSUME DeploymentInv, Dequeue, exposed' = exposed, DeploymentTypeOK'
    PROVE  DeploymentInv'
  <1> DEFINE h == Head(queue)
  <1> USE DEF DeploymentInv, DeploymentTypeOK
  <1>1. /\ queue # <<>> /\ queue' = Tail(queue) /\ pc[D] = "idle"
        /\ phase \in {"running", "stopping"}
        /\ pc' = [pc EXCEPT ![D] = "claimed"] /\ cur' = [cur EXCEPT ![D] = h]
        /\ UNCHANGED <<ledger, announced, work, verdict, phase, handing>>
    BY DEF Dequeue, EnterRunJob, Goto
  <1>2. queue \in Seq(Jobs) /\ \A a, b \in 1..Len(queue) : queue[a] = queue[b] => a = b
    BY DEF TypeOK, OnePlace
  <1>3. /\ h \in Jobs
        /\ {Tail(queue)[i] : i \in 1..Len(Tail(queue))}
             = {queue[i] : i \in 1..Len(queue)} \ {h}
        /\ h \in {queue[i] : i \in 1..Len(queue)}
        /\ \A a, b \in 1..Len(Tail(queue)) : Tail(queue)[a] = Tail(queue)[b] => a = b
    BY <1>1, <1>2, TailElements
  <1>4. InQueue' = {Tail(queue)[i] : i \in 1..Len(Tail(queue))}
    BY <1>1 DEF InQueue
  <1>5. InQueue' = InQueue \ {h} /\ h \in InQueue /\ InHand' = InHand
    <2>1. InHand' = InHand
      BY <1>1 DEF InHand
    <2> QED
      BY <1>3, <1>4, <2>1, Zenon DEF InQueue
  <1>6. h \notin InHand
    BY <1>5 DEF OnePlace
  <1>7. Waiting' = Waiting \ {h} /\ h \in Waiting
    BY <1>5, <1>6 DEF Waiting
  <1>8. /\ pc \in [Runners -> RunnerStates] /\ cur \in [Runners -> Jobs \cup {NoJob}]
        /\ \A q \in Runners \ {D} : pc'[q] = pc[q] /\ cur'[q] = cur[q]
        /\ pc'[D] = "claimed" /\ cur'[D] = h
    BY <1>1 DEF TypeOK, RunTypeOK
  <1>9. HoldsJobs'
    BY <1>3, <1>8 DEF HoldsJobs, Busy
  <1>10. PhaseAgrees'
    BY <1>1 DEF PhaseAgrees, Gone
  <1>11. OnePlace'
    <2>1. Claimed(D)' = {h} /\ Working(D)' = {}
      BY <1>8 DEF Claimed, Working
    <2>2. \A a, b \in 1..Len(queue') : queue'[a] = queue'[b] => a = b
      BY <1>1, <1>3
    <2> QED
      BY <1>1, <1>5, <1>6, <2>1, <2>2 DEF OnePlace
  <1>12. HeldHasRow'
    BY <1>1, <1>7, <1>8 DEF HeldHasRow, Busy
  <1>13. Apart'
    <2> SUFFICES ASSUME NEW r \in Runners, Busy(r)', cur'[r] \notin exposed
                 PROVE  /\ cur'[r] \notin Waiting'
                        /\ \A q \in Runners : Busy(q)' /\ cur'[q] = cur'[r] => q = r
      BY DEF Apart
    <2>1. CASE r = D
      <3>1. \A q \in Runners : Busy(q) => cur[q] # h
        BY <1>7, <1>8, <2>1 DEF Apart
      <3> QED
        BY <1>7, <1>8, <2>1, <3>1 DEF Busy
    <2>2. CASE r # D
      <3>1. /\ Busy(r) /\ cur'[r] = cur[r] /\ cur[r] \notin Waiting
            /\ \A q \in Runners : Busy(q) /\ cur[q] = cur[r] => q = r
        BY <1>8, <2>2 DEF Apart, Busy
      <3> QED
        BY <1>7, <1>8, <3>1 DEF Busy
    <2> QED
      BY <2>1, <2>2
  <1>14. WaitingIsNew'
    BY <1>1, <1>7 DEF WaitingIsNew
  <1>15. RunnersAgree'
    <2> SUFFICES ASSUME NEW r \in Runners, Busy(r)', cur'[r] \notin exposed
                 PROVE  Agrees(r)'
      BY DEF RunnersAgree
    <2>1. CASE r = D
      BY <1>1, <1>7, <1>8, <2>1 DEF Agrees, WaitingIsNew
    <2>2. CASE r # D
      BY <1>1, <1>8, <2>2 DEF Agrees, RunnersAgree, Busy
    <2> QED
      BY <2>1, <2>2
  <1>16. HistoriesAgree'
    <2> SUFFICES ASSUME NEW j \in Jobs \ exposed
                 PROVE  Consistent(j)'
      BY DEF HistoriesAgree
    <2>1. Consistent(j)
      BY DEF HistoriesAgree
    <2>2. \A q \in Runners : pc[q] = "running" /\ cur[q] = j =>
              pc'[q] = "running" /\ cur'[q] = j
      BY <1>1, <1>8
    <2> QED
      BY <1>1, <2>1, <2>2 DEF Consistent
  <1> QED
    BY <1>9, <1>10, <1>11, <1>12, <1>13, <1>14, <1>15, <1>16

\* A command's job is new: nobody has ever held it (newBackupCmd, CreateJob).
LEMMA BackupKeeps ==
    ASSUME DeploymentInv, NEW c \in Commands, NEW j \in Jobs, Backup(c, j),
           DeploymentTypeOK'
    PROVE  DeploymentInv'
  <1> USE DEF DeploymentInv, DeploymentTypeOK
  <1>1. /\ c \in Runners /\ c # D /\ pc[c] = "idle" /\ ledger[j] = "absent"
        /\ pc' = [pc EXCEPT ![c] = "claimed"] /\ cur' = [cur EXCEPT ![c] = j]
        /\ ledger' = [ledger EXCEPT ![j] = "queued"]
        /\ UNCHANGED <<announced, work, verdict, phase, queue, handing, exposed>>
    BY DEF Commands, Backup, CreateJob, EnterRunJob, Goto, UpdateJobStatus, daemonVars
  <1>2. /\ InQueue' = InQueue /\ InHand' = InHand /\ Waiting' = Waiting
        /\ Claimed(D)' = Claimed(D) /\ Working(D)' = Working(D)
    BY <1>1 DEF InQueue, InHand, Waiting, Claimed, Working
  <1>3. /\ pc \in [Runners -> RunnerStates] /\ cur \in [Runners -> Jobs \cup {NoJob}]
        /\ \A q \in Runners \ {c} : pc'[q] = pc[q] /\ cur'[q] = cur[q]
        /\ pc'[c] = "claimed" /\ cur'[c] = j
        /\ ledger \in [Jobs -> Ledger!JobStatus]
        /\ \A k \in Jobs \ {j} : ledger'[k] = ledger[k]
        /\ ledger'[j] = "queued"
    BY <1>1 DEF TypeOK, RunTypeOK, Ledger!LedgerTypeOK
  <1>4. j \notin Waiting /\ \A q \in Runners : Busy(q) => cur[q] # j
    BY <1>1 DEF HeldHasRow
  <1>5. HoldsJobs'
    BY <1>3 DEF HoldsJobs, Busy
  <1>6. PhaseAgrees'
    BY <1>1, <1>2, <1>3 DEF PhaseAgrees
  <1>7. OnePlace'
    BY <1>1, <1>2 DEF OnePlace
  <1>8. HeldHasRow'
    BY <1>2, <1>3, MemoryIsOf DEF HeldHasRow, HoldsJobs, Busy
  <1>9. Apart'
    <2> SUFFICES ASSUME NEW r \in Runners, Busy(r)', cur'[r] \notin exposed
                 PROVE  /\ cur'[r] \notin Waiting'
                        /\ \A q \in Runners : Busy(q)' /\ cur'[q] = cur'[r] => q = r
      BY <1>1 DEF Apart
    <2>1. CASE r = c
      BY <1>2, <1>3, <1>4, <2>1 DEF Busy
    <2>2. CASE r # c
      <3>1. /\ Busy(r) /\ cur'[r] = cur[r] /\ cur[r] \notin Waiting
            /\ \A q \in Runners : Busy(q) /\ cur[q] = cur[r] => q = r
        BY <1>3, <2>2 DEF Apart, Busy
      <3> QED
        BY <1>2, <1>3, <1>4, <3>1 DEF Busy
    <2> QED
      BY <2>1, <2>2
  <1>10. WaitingIsNew'
    BY <1>1, <1>2, <1>3, <1>4, MemoryIsOf DEF WaitingIsNew
  <1>11. RunnersAgree'
    <2> SUFFICES ASSUME NEW r \in Runners, Busy(r)', cur'[r] \notin exposed
                 PROVE  Agrees(r)'
      BY <1>1 DEF RunnersAgree
    <2>1. CASE r = c
      BY <1>1, <1>3, <2>1 DEF Agrees
    <2>2. CASE r # c
      <3>1. Busy(r) /\ cur[r] # j /\ cur[r] \in Jobs /\ cur'[r] = cur[r] /\ pc'[r] = pc[r]
        BY <1>3, <1>4, <2>2 DEF Busy, HoldsJobs
      <3> QED
        BY <1>1, <1>3, <3>1 DEF Agrees, RunnersAgree
    <2> QED
      BY <2>1, <2>2
  <1>12. HistoriesAgree'
    <2> SUFFICES ASSUME NEW k \in Jobs \ exposed
                 PROVE  Consistent(k)'
      BY <1>1 DEF HistoriesAgree
    <2>1. Consistent(k)
      BY DEF HistoriesAgree
    <2>2. \A q \in Runners : pc[q] = "running" /\ cur[q] = k =>
              pc'[q] = "running" /\ cur'[q] = k
      BY <1>1, <1>3
    <2>3. ledger'[k] = ledger[k] \/ (ledger[k] = "absent" /\ ledger'[k] = "queued")
      BY <1>1, <1>3
    <2> QED
      BY <1>1, <2>1, <2>2, <2>3 DEF Consistent
  <1> QED
    BY <1>5, <1>6, <1>7, <1>8, <1>9, <1>10, <1>11, <1>12
-----------------------------------------------------------------------------
(* New rows                                                                *)

\* A new row, in the hand of a producer or in nobody's; nobody holds its id
\* yet (CreateJob, and CreateJob failing).
LEMMA NewRowKeeps ==
    ASSUME DeploymentInv, DeploymentTypeOK', NEW j \in Jobs, ledger[j] = "absent",
           ledger' = [ledger EXCEPT ![j] = "queued"] \/ ledger' = ledger,
           Waiting' \subseteq Waiting \cup {j}, j \in Waiting' => ledger'[j] = "queued",
           UNCHANGED <<announced, work, pc, cur, verdict, phase, exposed>>,
           PhaseAgrees', OnePlace'
    PROVE  DeploymentInv'
  <1> USE DEF DeploymentInv, DeploymentTypeOK
  <1>1. /\ ledger \in [Jobs -> Ledger!JobStatus]
        /\ \A k \in Jobs \ {j} : ledger'[k] = ledger[k]
        /\ ledger'[j] \in {"absent", "queued"}
        /\ \A k \in Jobs : ledger[k] # "absent" => ledger'[k] = ledger[k]
    BY DEF TypeOK, RunTypeOK, Ledger!LedgerTypeOK
  <1>2. /\ j \notin Waiting /\ \A q \in Runners : Busy(q) => cur[q] # j
    BY DEF HeldHasRow
  <1>3. HoldsJobs'
    BY DEF HoldsJobs, Busy
  <1>4. HeldHasRow'
    <2>1. \A k \in Waiting' : ledger'[k] # "absent"
      BY <1>1, MemoryIsOf DEF HeldHasRow
    <2>2. \A r \in Runners : Busy(r)' => ledger'[cur'[r]] # "absent"
      BY <1>1 DEF HeldHasRow, HoldsJobs, Busy
    <2> QED
      BY <2>1, <2>2 DEF HeldHasRow
  <1>5. Apart'
    BY <1>2 DEF Apart, Busy
  <1>6. WaitingIsNew'
    BY <1>1, <1>2, MemoryIsOf DEF WaitingIsNew
  <1>7. RunnersAgree'
    <2> SUFFICES ASSUME NEW r \in Runners, Busy(r), cur[r] \notin exposed
                 PROVE  Agrees(r)'
      BY DEF RunnersAgree, Busy
    <2>1. cur[r] \in Jobs /\ ledger'[cur[r]] = ledger[cur[r]] /\ Agrees(r)
      BY <1>1, <1>2 DEF HoldsJobs, RunnersAgree
    <2> QED
      BY <2>1 DEF Agrees
  <1>8. HistoriesAgree'
    <2> SUFFICES ASSUME NEW k \in Jobs \ exposed
                 PROVE  Consistent(k)'
      BY DEF HistoriesAgree
    <2>1. Consistent(k)
      BY DEF HistoriesAgree
    <2>2. ledger'[k] = ledger[k] \/ (ledger[k] = "absent" /\ ledger'[k] = "queued")
      BY <1>1
    <2> QED
      BY <2>1, <2>2 DEF Consistent
  <1> QED
    BY <1>3, <1>4, <1>5, <1>6, <1>7, <1>8

\* Producers keep their new rows apart from everybody else's (dispatch,
\* triggerBackup).
LEMMA ProducerKeeps ==
    ASSUME DeploymentInv, NEW p \in Producers, NEW j \in Jobs,
           Persist(p, j) \/ PersistFails(p, j), exposed' = exposed,
           DeploymentTypeOK'
    PROVE  DeploymentInv'
  <1> USE DEF DeploymentInv, DeploymentTypeOK
  <1>1. /\ ledger[j] = "absent"
        /\ UNCHANGED <<announced, work, pc, cur, verdict, phase, queue>>
        /\ phase \notin Gone \cup {"booted", "recovered"}
    BY DEF Persist, PersistFails, CreateJob, CreateJobError, LivePhases, Gone,
           Producers
  <1>2. /\ j \notin Waiting
        /\ Busy(D) => cur[D] # j
    BY <1>1 DEF HeldHasRow
  <1>3. /\ Claimed(D)' = Claimed(D) /\ Working(D)' = Working(D)
        /\ InQueue' = InQueue
    BY <1>1 DEF Claimed, Working, InQueue
  <1>4. CASE Persist(p, j)
    <2>1. /\ ledger' = [ledger EXCEPT ![j] = "queued"]
          /\ handing' = [handing EXCEPT ![p] = @ \cup {j}]
          /\ handing \in [Producers -> SUBSET Jobs]
      BY <1>4 DEF Persist, CreateJob, UpdateJobStatus, TypeOK
    <2>2. InHand' = InHand \cup {j}
      BY <2>1 DEF InHand
    <2>3. Waiting' = Waiting \cup {j} /\ ledger'[j] = "queued"
      BY <1>3, <2>1, <2>2 DEF Waiting, TypeOK, RunTypeOK, Ledger!LedgerTypeOK
    <2>4. OnePlace'
      <3>1. j \notin InQueue \cup InHand \cup Claimed(D) \cup Working(D)
        BY <1>2, ConsumersJob DEF Waiting
      <3> QED
        BY <1>1, <1>3, <2>1, <2>2, <3>1 DEF OnePlace, InHand, Producers
    <2>5. PhaseAgrees'
      BY <1>1 DEF PhaseAgrees
    <2> QED
      BY <1>1, <2>1, <2>3, <2>4, <2>5, NewRowKeeps
  <1>5. CASE PersistFails(p, j)
    <2>1. /\ ledger' = [ledger EXCEPT ![j] = "queued"] \/ ledger' = ledger
          /\ handing' = handing
      BY <1>5 DEF PersistFails, CreateJobError, UpdateJobStatusError, UpdateJobStatus
    <2>2. InHand' = InHand
      BY <2>1 DEF InHand
    <2>3. Waiting' = Waiting
      BY <1>3, <2>2 DEF Waiting
    <2>4. OnePlace'
      BY <1>1, <1>3, <2>1, <2>2 DEF OnePlace
    <2>5. PhaseAgrees'
      BY <1>1 DEF PhaseAgrees
    <2> QED
      BY <1>1, <1>2, <2>1, <2>3, <2>4, <2>5, NewRowKeeps
  <1> QED
    BY <1>4, <1>5

\* The command whose CreateJob fails exits; its row, if there is one, is
\* nobody's (newBackupCmd).
LEMMA BackupNotCreatedKeeps ==
    ASSUME DeploymentInv, NEW c \in Commands, NEW j \in Jobs,
           BackupNotCreated(c, j), DeploymentTypeOK'
    PROVE  DeploymentInv'
  <1>1. /\ ledger[j] = "absent"
        /\ ledger' = [ledger EXCEPT ![j] = "queued"] \/ ledger' = ledger
        /\ UNCHANGED <<announced, work, pc, cur, verdict, phase, queue, handing, exposed>>
    BY DEF BackupNotCreated, CreateJobError, UpdateJobStatusError,
           UpdateJobStatus, daemonVars
  <1>2. /\ Claimed(D)' = Claimed(D) /\ Working(D)' = Working(D)
        /\ InQueue' = InQueue /\ InHand' = InHand /\ Waiting' = Waiting
    BY <1>1 DEF Claimed, Working, InQueue, InHand, Waiting
  <1>3. OnePlace'
    BY <1>1, <1>2 DEF DeploymentInv, OnePlace
  <1>4. PhaseAgrees'
    BY <1>1, <1>2 DEF DeploymentInv, PhaseAgrees
  <1>5. j \notin Waiting
    BY <1>1 DEF DeploymentInv, HeldHasRow
  <1> QED
    BY <1>1, <1>2, <1>3, <1>4, <1>5, NewRowKeeps
-----------------------------------------------------------------------------
(* The daemon's start-up and shutdown                                      *)

\* A job handed to the channel was new, so the channel did not have it; when
\* the channel is full it stays a queued row (Enqueue).
LEMMA EnqueueKeeps ==
    ASSUME DeploymentInv, NEW p \in Producers, NEW j \in Jobs, Enqueue(p, j),
           exposed' = exposed, DeploymentTypeOK'
    PROVE  DeploymentInv'
  <1> USE DEF DeploymentInv, DeploymentTypeOK
  <1>1. /\ j \in handing[p] /\ handing' = [handing EXCEPT ![p] = @ \ {j}]
        /\ queue' = Append(queue, j) \/ queue' = queue
        /\ UNCHANGED <<ledger, announced, work, pc, cur, verdict, phase>>
        /\ handing \in [Producers -> SUBSET Jobs] /\ queue \in Seq(Jobs)
    BY DEF Enqueue, TypeOK
  <1>2. j \in InHand /\ j \notin InQueue
    BY <1>1 DEF InHand, OnePlace
  <1>3. InHand' = InHand \ {j}
    BY <1>1 DEF InHand, OnePlace, Producers
  <1>4. /\ InQueue' \subseteq InQueue \cup {j}
        /\ \A a, b \in 1..Len(queue') : queue'[a] = queue'[b] => a = b
    <2>1. CASE queue' = queue
      BY <2>1 DEF InQueue, OnePlace
    <2>2. CASE queue' = Append(queue, j)
      <3>1. /\ Len(queue') = Len(queue) + 1 /\ queue'[Len(queue) + 1] = j
            /\ {queue'[i] : i \in 1..Len(queue')}
                 = {queue[i] : i \in 1..Len(queue)} \cup {j}
            /\ \A i \in 1..Len(queue) : queue'[i] = queue[i]
        BY <1>1, <2>2, AppendElements
      <3>2. \A a \in 1..Len(queue) : queue[a] # j
        BY <1>2 DEF InQueue
      <3>3. Len(queue) \in Nat
        BY <1>1
      <3>4. \A a, b \in 1..Len(queue') : queue'[a] = queue'[b] => a = b
        <4> TAKE a, b \in 1..Len(queue')
        <4>1. a \in 1..Len(queue) \/ a = Len(queue) + 1
          BY <3>1, <3>3
        <4>2. b \in 1..Len(queue) \/ b = Len(queue) + 1
          BY <3>1, <3>3
        <4>3. \A c, d \in 1..Len(queue) : queue[c] = queue[d] => c = d
          BY DEF OnePlace
        <4> QED
          BY <3>1, <3>2, <4>1, <4>2, <4>3
      <3> QED
        BY <3>1, <3>4 DEF InQueue
    <2> QED
      BY <1>1, <2>1, <2>2
  <1>5. /\ Claimed(D)' = Claimed(D) /\ Working(D)' = Working(D)
        /\ Waiting' \subseteq Waiting
    BY <1>1, <1>2, <1>3, <1>4 DEF Claimed, Working, Waiting
  <1>6. OnePlace'
    <2>1. /\ InQueue' \cap InHand' = {}
          /\ handing'["scheduler"] \cap handing'["api"] = {}
      BY <1>1, <1>3, <1>4 DEF OnePlace, Producers
    <2>2. (InQueue' \cup InHand') \cap (Claimed(D)' \cup Working(D)') = {}
      BY <1>2, <1>3, <1>4, <1>5 DEF OnePlace
    <2> QED
      BY <1>4, <2>1, <2>2 DEF OnePlace
  <1>7. PhaseAgrees'
    BY <1>1, <1>2 DEF PhaseAgrees
  <1>8. HoldsJobs' /\ HeldHasRow' /\ Apart' /\ WaitingIsNew'
    BY <1>1, <1>5 DEF HoldsJobs, HeldHasRow, Apart, WaitingIsNew, Busy
  <1>9. RunnersAgree' /\ HistoriesAgree'
    BY <1>1 DEF RunnersAgree, HistoriesAgree, Agrees, Consistent, Busy
  <1> QED
    BY <1>6, <1>7, <1>8, <1>9

\* A change of phase, and nothing else (StartServers, StartConsumer, Shutdown,
\* ConsumerReturns, StopScheduler, Boot).
LEMMA PhaseChangeKeeps ==
    ASSUME DeploymentInv, DeploymentTypeOK', PhaseAgrees',
           UNCHANGED <<ledger, announced, work, pc, cur, verdict, queue, handing,
                       exposed>>
    PROVE  DeploymentInv'
  <1> USE DEF DeploymentInv, DeploymentTypeOK
  <1>1. UNCHANGED <<InQueue, InHand, Waiting, Claimed(D), Working(D)>>
    BY DEF InQueue, InHand, Waiting, Claimed, Working
  <1>2. OnePlace'
    BY <1>1 DEF OnePlace
  <1>3. HoldsJobs' /\ HeldHasRow'
    BY <1>1 DEF HoldsJobs, HeldHasRow, Busy
  <1>4. Apart' /\ WaitingIsNew'
    BY <1>1 DEF Apart, WaitingIsNew, Busy
  <1>5. RunnersAgree'
    BY DEF RunnersAgree, Agrees, Busy
  <1>6. HistoriesAgree'
    BY DEF HistoriesAgree, Consistent
  <1> QED
    BY <1>2, <1>3, <1>4, <1>5, <1>6

\* The sweep fails in_progress rows: those of commands become exposed, and
\* the consumer does not run yet (FailOrphanedJobs).
LEMMA SweepKeeps ==
    ASSUME DeploymentInv, FailOrphanedJobs,
           exposed' = exposed \cup CommandJobs, DeploymentTypeOK'
    PROVE  DeploymentInv'
  <1> USE DEF DeploymentInv, DeploymentTypeOK
  <1>1. /\ phase = "booted" /\ phase' = "recovered"
        /\ ledger' = [j \in Jobs |-> IF ledger[j] = "in_progress" THEN "failed"
                                                                  ELSE ledger[j]]
        /\ UNCHANGED <<announced, work, pc, cur, verdict, queue, handing>>
    BY DEF FailOrphanedJobs
  <1>2. UNCHANGED <<InQueue, InHand, Waiting, Claimed(D), Working(D)>>
    BY <1>1 DEF InQueue, InHand, Waiting, Claimed, Working
  <1>3. pc[D] = "idle" /\ Waiting = {}
    <2>1. queue = <<>> /\ InHand = {} /\ pc[D] = "idle"
      BY <1>1 DEF PhaseAgrees, Gone
    <2>2. InQueue = {}
      BY <2>1 DEF InQueue
    <2> QED
      BY <2>1, <2>2 DEF Waiting
  <1>4. \A r \in Runners : Busy(r) => cur[r] \in exposed'
    BY <1>3 DEF Busy, CommandJobs, Commands
  <1>5. HoldsJobs' /\ PhaseAgrees' /\ OnePlace'
    BY <1>1, <1>2, <1>3 DEF HoldsJobs, PhaseAgrees, OnePlace, Busy, Gone
  <1>6. HeldHasRow'
    BY <1>1, <1>2, <1>3 DEF HeldHasRow, HoldsJobs, Busy
  <1>7. Apart' /\ RunnersAgree' /\ WaitingIsNew'
    BY <1>1, <1>2, <1>3, <1>4 DEF Apart, RunnersAgree, WaitingIsNew, Busy
  <1>8. HistoriesAgree'
    <2> SUFFICES ASSUME NEW j \in Jobs \ exposed'
                 PROVE  Consistent(j)'
      BY DEF HistoriesAgree
    <2>1. j \in Jobs \ exposed /\ Consistent(j)
      BY DEF HistoriesAgree
    <2>2. ledger'[j] = ledger[j] \/ (ledger[j] = "in_progress" /\ ledger'[j] = "failed")
      BY <1>1
    <2> QED
      BY <1>1, <2>1, <2>2 DEF Consistent
  <1> QED
    BY <1>5, <1>6, <1>7, <1>8

\* Reconciliation takes queued rows into the channel, once each; those that
\* are a command's become exposed (reconcileQueuedJobs).
LEMMA ReconcileKeeps ==
    ASSUME DeploymentInv, reconcileQueuedJobs,
           exposed' = exposed \cup CommandJobs, DeploymentTypeOK'
    PROVE  DeploymentInv'
  <1> USE DEF DeploymentInv, DeploymentTypeOK
  <1>1. /\ phase = "recovered" /\ phase' = "reconciled"
        /\ UNCHANGED <<ledger, announced, work, pc, cur, verdict, handing>>
    BY DEF reconcileQueuedJobs
  <1>2. /\ \A a, b \in 1..Len(queue') : a < b => queue'[a] < queue'[b]
        /\ \A i \in 1..Len(queue') : queue'[i] \in Queued
    <2>1. PICK n \in 0..Capacity : \E q \in [1..n -> Queued] :
             Reconciled(q) /\ queue' = q
      BY DEF reconcileQueuedJobs
    <2> QED
      BY <2>1 DEF Reconciled
  <1>3. \A a, b \in 1..Len(queue') : queue'[a] = queue'[b] => a = b
    <2> SUFFICES ASSUME NEW a \in 1..Len(queue'), NEW b \in 1..Len(queue'), a # b
                 PROVE  queue'[a] # queue'[b]
      OBVIOUS
    <2>1. queue'[a] \in Jobs /\ queue'[b] \in Jobs
      BY <1>2 DEF Queued
    <2>2. queue'[a] \in Nat /\ queue'[b] \in Nat
      BY <2>1
    <2>3. queue' \in Seq(Jobs)
      BY DEF TypeOK
    <2>4. a < b \/ b < a
      BY <2>3
    <2> QED
      BY <1>2, <2>2, <2>4
  <1>4. pc[D] = "idle" /\ InHand = {} /\ InHand' = {}
    BY <1>1 DEF PhaseAgrees, Gone, InHand
  <1>5. InQueue' \subseteq Queued /\ Waiting' \subseteq Queued
    BY <1>2, <1>4 DEF InQueue, Waiting
  <1>6. \A r \in Runners : Busy(r) => cur[r] \in exposed'
    BY <1>4 DEF Busy, CommandJobs, Commands
  <1>7. HoldsJobs' /\ PhaseAgrees'
    BY <1>1, <1>4 DEF HoldsJobs, PhaseAgrees, Busy, Gone
  <1>8. OnePlace'
    <2>1. Claimed(D)' = {} /\ Working(D)' = {}
      BY <1>1, <1>4 DEF Claimed, Working
    <2> QED
      BY <1>1, <1>3, <1>4, <2>1 DEF OnePlace
  <1>9. HeldHasRow' /\ WaitingIsNew'
    BY <1>1, <1>5 DEF HeldHasRow, WaitingIsNew, Queued, Busy
  <1>10. Apart' /\ RunnersAgree'
    BY <1>1, <1>6 DEF Apart, RunnersAgree, Busy
  <1>11. HistoriesAgree'
    BY <1>1 DEF HistoriesAgree, Consistent
  <1> QED
    BY <1>7, <1>8, <1>9, <1>10, <1>11
-----------------------------------------------------------------------------
(* Processes that die                                                      *)

\* The pipeline of a process that dies is lost with it; nobody else had its
\* unexposed job (the daemon's crash and exit, an interrupted command).
LEMMA LossKeeps ==
    ASSUME DeploymentInv, DeploymentTypeOK', NEW r \in Runners, LoseRunner(r),
           UNCHANGED <<ledger, announced, verdict, exposed>>,
           Waiting' \subseteq Waiting, OnePlace', PhaseAgrees'
    PROVE  DeploymentInv'
  <1> USE DEF DeploymentInv, DeploymentTypeOK
  <1>1. /\ pc \in [Runners -> RunnerStates] /\ cur \in [Runners -> Jobs \cup {NoJob}]
        /\ pc' = [pc EXCEPT ![r] = "idle"] /\ cur' = [cur EXCEPT ![r] = NoJob]
        /\ work' = IF pc[r] = "running" THEN [work EXCEPT ![cur[r]] = "lost"] ELSE work
        /\ work \in [Jobs -> Ledger!WorkStates]
    BY DEF LoseRunner, Leave, Goto, TypeOK, RunTypeOK, Ledger!LedgerTypeOK
  <1>2. /\ ~Busy(r)'
        /\ \A q \in Runners \ {r} : pc'[q] = pc[q] /\ cur'[q] = cur[q]
        /\ \A j \in Jobs : j # cur[r] \/ pc[r] # "running" => work'[j] = work[j]
        /\ pc[r] = "running" => cur[r] \in Jobs /\ work'[cur[r]] = "lost"
    BY <1>1 DEF Busy, HoldsJobs
  <1>3. HoldsJobs' /\ HeldHasRow'
    BY <1>2 DEF HoldsJobs, HeldHasRow, Busy
  <1>4. Apart' /\ WaitingIsNew'
    BY <1>2 DEF Apart, WaitingIsNew, Busy
  <1>5. RunnersAgree'
    <2> SUFFICES ASSUME NEW q \in Runners, Busy(q)', cur'[q] \notin exposed
                 PROVE  Agrees(q)'
      BY DEF RunnersAgree
    <2>1. /\ q # r /\ Busy(q) /\ pc'[q] = pc[q] /\ cur'[q] = cur[q] /\ cur[q] \in Jobs
          /\ Agrees(q)
      BY <1>2 DEF Busy, HoldsJobs, RunnersAgree
    <2>2. work'[cur[q]] = work[cur[q]]
      BY <1>2, <2>1 DEF Apart, Busy
    <2> QED
      BY <2>1, <2>2 DEF Agrees
  <1>6. HistoriesAgree'
    <2> SUFFICES ASSUME NEW j \in Jobs \ exposed
                 PROVE  Consistent(j)'
      BY DEF HistoriesAgree
    <2>1. Consistent(j)
      BY DEF HistoriesAgree
    <2>2. CASE pc[r] = "running" /\ cur[r] = j
      <3>1. ledger[j] = "in_progress" /\ work[j] = "running" /\ work'[j] = "lost"
        BY <1>2, <2>2 DEF RunnersAgree, Agrees, Busy
      <3> QED
        BY <2>1, <3>1 DEF Consistent
    <2>3. CASE ~(pc[r] = "running" /\ cur[r] = j)
      <3>1. work'[j] = work[j]
        BY <1>2, <2>3
      <3>2. \A q \in Runners : pc[q] = "running" /\ cur[q] = j =>
                pc'[q] = "running" /\ cur'[q] = j
        BY <1>2, <2>3
      <3> QED
        BY <2>1, <3>1, <3>2 DEF Consistent
    <2> QED
      BY <2>2, <2>3
  <1> QED
    BY <1>3, <1>4, <1>5, <1>6

\* A command that is interrupted holds nothing any more (newBackupCmd).
LEMMA InterruptKeeps ==
    ASSUME DeploymentInv, DeploymentTypeOK', NEW c \in Commands, Interrupt(c)
    PROVE  DeploymentInv'
  <1>1. /\ c \in Runners /\ c # D /\ LoseRunner(c)
        /\ UNCHANGED <<ledger, announced, verdict, exposed, phase, queue, handing>>
        /\ pc' = [pc EXCEPT ![c] = "idle"] /\ cur' = [cur EXCEPT ![c] = NoJob]
    BY DEF Interrupt, Commands, daemonVars, LoseRunner, Leave, Goto
  <1>2. pc'[D] = pc[D] /\ cur'[D] = cur[D]
    BY <1>1 DEF DeploymentInv, DeploymentTypeOK, TypeOK, RunTypeOK
  <1>3. UNCHANGED <<InQueue, InHand, Waiting, Claimed(D), Working(D)>>
    BY <1>1, <1>2 DEF InQueue, InHand, Waiting, Claimed, Working
  <1>4. OnePlace'
    BY <1>1, <1>3 DEF DeploymentInv, OnePlace
  <1>5. PhaseAgrees'
    BY <1>1, <1>2, <1>3 DEF DeploymentInv, PhaseAgrees
  <1> QED
    BY <1>1, <1>3, <1>4, <1>5, LossKeeps

\* A daemon that is gone holds nothing any more (bop controller's end).
LEMMA DaemonGoneKeeps ==
    ASSUME DeploymentInv, DeploymentTypeOK', ProcessGone, phase' \in Gone,
           exposed' = exposed
    PROVE  DeploymentInv'
  <1>1. /\ LoseRunner(D) /\ queue' = <<>> /\ handing' = [p \in Producers |-> {}]
        /\ UNCHANGED <<ledger, announced, verdict>>
        /\ pc' = [pc EXCEPT ![D] = "idle"]
    BY DEF ProcessGone, LoseRunner, Leave, Goto
  <1>2. pc'[D] = "idle"
    BY <1>1 DEF DeploymentInv, DeploymentTypeOK, TypeOK, RunTypeOK
  <1>3. /\ InQueue' = {} /\ InHand' = {} /\ Claimed(D)' = {} /\ Working(D)' = {}
        /\ Len(queue') = 0 /\ Waiting' = {}
    BY <1>1, <1>2 DEF InQueue, InHand, Waiting, Claimed, Working
  <1>4. OnePlace' /\ PhaseAgrees'
    BY <1>1, <1>2, <1>3 DEF OnePlace, PhaseAgrees, Producers, Gone
  <1> QED
    BY <1>1, <1>3, <1>4, LossKeeps
-----------------------------------------------------------------------------
(* Every step                                                              *)

\* Commands keep the types as the daemon does (core.JobStatus).
LEMMA CommandTypes ==
    ASSUME DeploymentInv, NEW c \in Commands,
           (\E j \in Jobs : Backup(c, j) \/ BackupNotCreated(c, j))
             \/ RunInline(c) \/ Interrupt(c)
    PROVE  DeploymentTypeOK'
  <1> USE DEF DeploymentInv, DeploymentTypeOK, TypeOK, RunTypeOK,
              Ledger!LedgerTypeOK, Ledger!JobStatus, Ledger!WorkStates, Terminal,
              Ledger!Terminal, RunnerStates, daemonVars, Leave, Goto, Fault,
              Report, UpdateJobStatus, UpdateJobStatusError
  <1>0. c \in Runners
    BY DEF Commands
  <1>1. ASSUME NEW j \in Jobs, Backup(c, j)
        PROVE  DeploymentTypeOK'
    <2>1. PICK S \in {{}, {j}} : runnable' = [runnable EXCEPT ![c] = S]
      BY <1>1 DEF Backup
    <2>2. runnable' \in [Runners -> SUBSET Jobs]
      BY <1>0, <2>1
    <2> QED
      BY <1>0, <1>1, <2>2 DEF Backup, CreateJob, EnterRunJob
  <1>2. ASSUME NEW j \in Jobs, BackupNotCreated(c, j)
        PROVE  DeploymentTypeOK'
    BY <1>0, <1>2 DEF BackupNotCreated, CreateJobError
  <1>3. CASE Interrupt(c)
    <2>1. work' \in [Jobs -> Ledger!WorkStates]
      BY <1>0, <1>3 DEF Interrupt, LoseRunner, HoldsJobs, Busy
    <2> QED
      BY <1>0, <1>3, <2>1 DEF Interrupt, LoseRunner
  <1>4. CASE RunInline(c)
    <2>0. UNCHANGED <<daemonVars, exposed>> /\ RunJobStep(c, FALSE) /\ cur[c] \in Jobs
      BY <1>0, <1>4, RunJobFrame DEF RunInline
    <2>1. CASE RefuseJob(c)
      BY <1>0, <2>0, <2>1 DEF RefuseJob
    <2>2. CASE StartJob(c, FALSE)
      BY <1>0, <2>0, <2>2 DEF StartJob
    <2>3. CASE StartJobFails(c, FALSE)
      BY <1>0, <2>0, <2>3 DEF StartJobFails
    <2>4. CASE EndPipeline(c)
      <3>1. PICK v \in Terminal :
              /\ verdict' = [verdict EXCEPT ![c] = v]
              /\ work' = [work EXCEPT ![cur[c]] =
                             IF v = "completed" THEN "succeeded" ELSE "broke"]
        BY <2>4 DEF EndPipeline
      <3>2. work' \in [Jobs -> Ledger!WorkStates] /\ verdict' \in [Runners -> Terminal]
        BY <3>1
      <3> QED
        BY <1>0, <2>0, <2>4, <3>2 DEF EndPipeline
    <2>5. CASE PublishVerdict(c)
      <3>1. verdict[c] \in Terminal
        BY <1>0
      <3>2. announced' \in [Jobs -> SUBSET Terminal]
        BY <2>0, <2>5, <3>1 DEF PublishVerdict
      <3>3. pc' = [pc EXCEPT ![c] = "announced"]
        BY <2>5 DEF PublishVerdict
      <3> QED
        BY <1>0, <2>0, <2>5, <3>2, <3>3 DEF PublishVerdict
    <2>6. CASE RecordVerdict(c)
      BY <1>0, <2>0, <2>6 DEF RecordVerdict
    <2>7. CASE RecordVerdictFails(c)
      BY <1>0, <2>0, <2>7 DEF RecordVerdictFails
    <2> QED
      BY <2>0, <2>1, <2>2, <2>3, <2>4, <2>5, <2>6, <2>7 DEF RunJobStep
  <1> QED
    BY <1>1, <1>2, <1>3, <1>4

\* The daemon's steps keep the invariant, its recovery because it exposes the
\* jobs that commands have at hand (bop controller).
LEMMA DaemonStepKeeps ==
    ASSUME DeploymentInv, DaemonStep
    PROVE  DeploymentInv'
  <1> USE DEF Gone
  <1>1. DeploymentTypeOK'
    <2>1. HoldsAJob
      BY DEF DeploymentInv, HoldsJobs, HoldsAJob, Busy
    <2>2. TypeOK'
      BY <2>1, NextTypeOK DEF DeploymentInv, DeploymentTypeOK, DaemonStep
    <2>3. CommandJobs \subseteq Jobs
      BY DEF DeploymentInv, HoldsJobs, Busy, CommandJobs, Commands
    <2> QED
      BY <2>2, <2>3 DEF DeploymentInv, DeploymentTypeOK, DaemonStep
  <1>2. CASE FailOrphanedJobs
    <2>1. exposed' = exposed \cup CommandJobs
      BY <1>2 DEF DaemonStep, FailOrphanedJobs
    <2> QED
      BY <1>1, <1>2, <2>1, SweepKeeps
  <1>3. CASE reconcileQueuedJobs
    <2>1. exposed' = exposed \cup CommandJobs
      BY <1>3 DEF DaemonStep, reconcileQueuedJobs
    <2> QED
      BY <1>1, <1>3, <2>1, ReconcileKeeps
  <1>4. CASE Boot \/ StartServers \/ StartConsumer \/ Shutdown \/ ConsumerReturns
             \/ StopScheduler
    <2>1. /\ exposed' = exposed
          /\ UNCHANGED <<ledger, announced, work, pc, cur, verdict, queue, handing>>
      BY <1>4 DEF DaemonStep, Boot, StartServers, StartConsumer, Shutdown,
                  ConsumerReturns, StopScheduler, runVars
    <2>2. InHand' = InHand
      BY <2>1 DEF InHand
    <2>3. PhaseAgrees'
      BY <1>4, <2>1, <2>2 DEF DeploymentInv, PhaseAgrees, Boot, StartServers,
         StartConsumer, Shutdown, ConsumerReturns, StopScheduler
    <2> QED
      BY <1>1, <2>1, <2>3, PhaseChangeKeeps
  <1>5. ASSUME NEW p \in Producers, NEW j \in Jobs,
               Persist(p, j) \/ PersistFails(p, j) \/ Enqueue(p, j)
        PROVE  DeploymentInv'
    <2>1. exposed' = exposed
      BY <1>5 DEF DaemonStep, Persist, PersistFails, Enqueue
    <2> QED
      BY <1>1, <1>5, <2>1, ProducerKeeps, EnqueueKeeps
  <1>6. CASE Dequeue
    <2>1. exposed' = exposed
      BY <1>6 DEF DaemonStep, Dequeue
    <2> QED
      BY <1>1, <1>6, <2>1, DequeueKeeps
  <1>7. CASE RunNext
    <2>1. UNCHANGED <<daemonVars, exposed>> /\ RunJobStep(D, Cancelled)
      BY <1>7 DEF DaemonStep, RunNext, daemonVars
    <2>2. Cancelled \in BOOLEAN
      BY DEF Cancelled
    <2> QED
      BY <1>1, <2>1, <2>2, RunJobKeeps
  <1>8. CASE Exit \/ Crash
    <2>1. exposed' = exposed /\ ProcessGone /\ phase' \in Gone
      BY <1>8 DEF DaemonStep, Exit, Crash
    <2> QED
      BY <1>1, <2>1, DaemonGoneKeeps
  <1> QED
    BY <1>2, <1>3, <1>4, <1>5, <1>6, <1>7, <1>8 DEF DaemonStep, Next

\* The invariant is inductive.
LEMMA DeploymentStep ==
    ASSUME DeploymentInv, [DeploymentNext]_deploymentVars
    PROVE  DeploymentInv'
  <1>1. CASE DaemonStep
    BY <1>1, DaemonStepKeeps
  <1>2. ASSUME NEW c \in Commands, NEW j \in Jobs, Backup(c, j)
        PROVE  DeploymentInv'
    BY <1>2, CommandTypes, BackupKeeps
  <1>3. ASSUME NEW c \in Commands, NEW j \in Jobs, BackupNotCreated(c, j)
        PROVE  DeploymentInv'
    BY <1>3, CommandTypes, BackupNotCreatedKeeps
  <1>4. ASSUME NEW c \in Commands, RunInline(c)
        PROVE  DeploymentInv'
    <2>1. c \in Runners /\ FALSE \in BOOLEAN
      BY DEF Commands
    <2> QED
      BY <1>4, <2>1, CommandTypes, RunJobKeeps DEF RunInline
  <1>5. ASSUME NEW c \in Commands, Interrupt(c)
        PROVE  DeploymentInv'
    BY <1>5, CommandTypes, InterruptKeeps
  <1>6. CASE UNCHANGED deploymentVars
    <2>1. /\ UNCHANGED <<ledger, announced, work, pc, cur, verdict, phase, queue,
                         handing, exposed, runnable, reported, faults>>
      BY <1>6 DEF deploymentVars, vars, runVars, daemonVars
    <2>2. InHand' = InHand
      BY <2>1 DEF InHand
    <2>3. DeploymentTypeOK'
      BY <2>1 DEF DeploymentInv, DeploymentTypeOK, TypeOK, RunTypeOK,
                  Ledger!LedgerTypeOK
    <2>4. PhaseAgrees'
      BY <2>1, <2>2 DEF DeploymentInv, PhaseAgrees
    <2> QED
      BY <2>1, <2>3, <2>4, PhaseChangeKeeps
  <1> QED
    BY <1>1, <1>2, <1>3, <1>4, <1>5, <1>6 DEF DeploymentNext
-----------------------------------------------------------------------------
(* Theorems                                                                *)

\* No rows, and nobody at work.
LEMMA DeploymentStarts == DeploymentInit => DeploymentInv
  <1> SUFFICES ASSUME DeploymentInit PROVE DeploymentInv
    OBVIOUS
  <1>1. IInv /\ exposed = {}
    BY InitIInv DEF DeploymentInit
  <1>2. /\ \A r \in Runners : ~Busy(r)
        /\ queue = <<>> /\ InHand = {}
        /\ \A j \in Jobs : /\ ledger[j] = "absent" /\ work[j] = "none"
                           /\ announced[j] = {}
    BY DEF DeploymentInit, Init, RunInit, Ledger!LedgerInit, Busy, InHand, Producers
  <1>3. Waiting = {}
    BY <1>2 DEF Waiting, InQueue
  <1>4. DeploymentTypeOK /\ PhaseAgrees /\ OnePlace
    BY <1>1 DEF IInv, DeploymentTypeOK
  <1>5. HoldsJobs /\ HeldHasRow /\ Apart /\ WaitingIsNew /\ RunnersAgree
    BY <1>2, <1>3 DEF HoldsJobs, HeldHasRow, Apart, WaitingIsNew, RunnersAgree
  <1>6. HistoriesAgree
    BY <1>2 DEF HistoriesAgree, Consistent
  <1> QED
    BY <1>4, <1>5, <1>6 DEF DeploymentInv

\* Daemon and commands over one jobs table: what each process holds is its
\* own unless a start-up recovery has exposed it (RunJob, newBackupCmd,
\* FailOrphanedJobs, reconcileQueuedJobs).
THEOREM DeploymentInvariance == DeploymentSpec => []DeploymentInv
  BY DeploymentStarts, DeploymentStep, PTL DEF DeploymentSpec

\* Types, with any number of commands beside the daemon (core.JobStatus).
THEOREM DeploymentTypes == DeploymentSpec => []DeploymentTypeOK
  BY DeploymentInvariance, PTL DEF DeploymentInv

\* The channel's capacity and the discipline of the daemon's memory survive
\* the commands, for exposed jobs as well: no job is twice in the daemon
\* (reconcileQueuedJobs, Enqueue, Dequeue).
THEOREM CommandsKeepOnePlace == DeploymentSpec => []OnePlace
  BY DeploymentInvariance, PTL DEF DeploymentInv

\* The row of a job that no start-up recovery has met in a command says
\* completed only if its pipeline returned without an error, whichever
\* process ran it (RunJob's finalStatus).
THEOREM UnexposedRowsAreTrue == DeploymentSpec => []UnexposedTruthful
  <1>1. DeploymentInv => UnexposedTruthful
    BY DEF DeploymentInv, HistoriesAgree, Consistent, UnexposedTruthful
  <1> QED
    BY <1>1, DeploymentInvariance, PTL

\* What a step can do to the pipeline and to the row of an unexposed job.
LEMMA UnexposedStep ==
    ASSUME DeploymentInv, DeploymentNext, NEW j \in Jobs \ exposed
    PROVE  /\ work'[j] = "running" => work[j] \in {"none", "running"}
           /\ ledger[j] \in Terminal => ledger'[j] = ledger[j]
  <1> USE DEF DeploymentInv, DeploymentTypeOK, TypeOK, RunTypeOK,
              Ledger!LedgerTypeOK, Terminal, Ledger!Terminal
  <1>1. ASSUME NEW r \in Runners, NEW c \in BOOLEAN, RunJobStep(r, c)
        PROVE  /\ work'[j] = "running" => work[j] \in {"none", "running"}
               /\ ledger[j] \in Terminal => ledger'[j] = ledger[j]
    <2>1. /\ Busy(r) /\ cur[r] \in Jobs
          /\ \A k \in Jobs \ {cur[r]} : ledger'[k] = ledger[k] /\ work'[k] = work[k]
      BY <1>1, RunJobFrame
    <2>2. CASE j # cur[r]
      BY <2>1, <2>2
    <2>3. CASE j = cur[r]
      <3>1. Agrees(r) /\ Consistent(j)
        BY <2>1, <2>3 DEF RunnersAgree, HistoriesAgree
      <3>2. ledger[j] \notin Terminal
        BY <2>1, <2>3, <3>1 DEF Agrees, Busy, RunnerStates
      <3>3. work'[j] = "running" => work[j] \in {"none", "running"}
        <4>1. CASE StartJob(r, c)
          BY <2>3, <3>1, <4>1 DEF StartJob, Agrees, Consistent
        <4>2. CASE EndPipeline(r)
          BY <2>1, <2>3, <4>2 DEF EndPipeline
        <4>3. CASE work' = work
          BY <4>3
        <4> QED
          BY <1>1, <4>1, <4>2, <4>3 DEF RunJobStep, RefuseJob, StartJobFails,
             PublishVerdict, RecordVerdict, RecordVerdictFails
      <3> QED
        BY <3>2, <3>3
    <2> QED
      BY <2>2, <2>3
  <1>2. ASSUME NEW r \in Runners, LoseRunner(r), ledger' = ledger
        PROVE  /\ work'[j] = "running" => work[j] \in {"none", "running"}
               /\ ledger[j] \in Terminal => ledger'[j] = ledger[j]
    BY <1>2 DEF LoseRunner
  <1>3. ASSUME NEW k \in Jobs, ledger[k] = "absent", work' = work,
               ledger' = [ledger EXCEPT ![k] = "queued"] \/ ledger' = ledger
        PROVE  /\ work'[j] = "running" => work[j] \in {"none", "running"}
               /\ ledger[j] \in Terminal => ledger'[j] = ledger[j]
    BY <1>3
  <1>4. CASE work' = work /\ ledger' = ledger
    BY <1>4
  <1>5. CASE FailOrphanedJobs
    BY <1>5 DEF FailOrphanedJobs
  <1>6. ASSUME NEW c \in Commands, RunInline(c)
        PROVE  RunJobStep(c, FALSE) /\ c \in Runners /\ FALSE \in BOOLEAN
    BY <1>6 DEF RunInline, Commands
  <1>7. ASSUME NEW c \in Commands, Interrupt(c)
        PROVE  LoseRunner(c) /\ c \in Runners /\ ledger' = ledger
    BY <1>7 DEF Interrupt, Commands
  <1>8. ASSUME NEW c \in Commands, NEW k \in Jobs, Backup(c, k) \/ BackupNotCreated(c, k)
        PROVE  /\ ledger[k] = "absent" /\ work' = work
               /\ ledger' = [ledger EXCEPT ![k] = "queued"] \/ ledger' = ledger
    BY <1>8 DEF Backup, BackupNotCreated, CreateJob, CreateJobError,
                UpdateJobStatus, UpdateJobStatusError
  <1>9. ASSUME NEW p \in Producers, NEW k \in Jobs, Persist(p, k) \/ PersistFails(p, k)
        PROVE  /\ ledger[k] = "absent" /\ work' = work
               /\ ledger' = [ledger EXCEPT ![k] = "queued"] \/ ledger' = ledger
    BY <1>9 DEF Persist, PersistFails, CreateJob, CreateJobError,
                UpdateJobStatus, UpdateJobStatusError
  <1>10. CASE RunNext
    <2>1. RunJobStep(D, Cancelled) /\ Cancelled \in BOOLEAN
      BY <1>10 DEF RunNext, Cancelled
    <2> QED
      BY <1>1, <2>1
  <1>11. CASE Exit \/ Crash
    <2>1. LoseRunner(D) /\ ledger' = ledger
      BY <1>11 DEF Exit, Crash, ProcessGone
    <2> QED
      BY <1>2, <2>1
  <1>12. CASE \/ Boot \/ reconcileQueuedJobs \/ StartServers \/ StartConsumer
              \/ Dequeue \/ Shutdown \/ ConsumerReturns \/ StopScheduler
              \/ \E p \in Producers, k \in Jobs : Enqueue(p, k)
    <2>1. work' = work /\ ledger' = ledger
      BY <1>12 DEF Boot, reconcileQueuedJobs, StartServers, StartConsumer,
         Dequeue, Shutdown, ConsumerReturns, StopScheduler, Enqueue, runVars
    <2> QED
      BY <1>4, <2>1
  <1>13. CASE DaemonStep
    BY <1>3, <1>5, <1>9, <1>10, <1>11, <1>12, <1>13 DEF DaemonStep, Next
  <1>14. ASSUME NEW c \in Commands,
                (\E k \in Jobs : Backup(c, k) \/ BackupNotCreated(c, k))
                  \/ RunInline(c) \/ Interrupt(c)
         PROVE  /\ work'[j] = "running" => work[j] \in {"none", "running"}
                /\ ledger[j] \in Terminal => ledger'[j] = ledger[j]
    BY <1>1, <1>2, <1>3, <1>6, <1>7, <1>8, <1>14
  <1> QED
    BY <1>13, <1>14 DEF DeploymentNext

\* Exposure is never taken back (history variable).
LEMMA ExposureStays ==
    ASSUME DeploymentNext
    PROVE  exposed \subseteq exposed'
  BY DEF DeploymentNext, DaemonStep, Backup, BackupNotCreated, RunInline, Interrupt

\* Daemon, its successors and commands together start an unexposed job's
\* pipeline at most once (newBackupCmd, reconcileQueuedJobs, RunJob).
THEOREM UnexposedJobsRunOnce == DeploymentSpec => UnexposedRunOnce
  <1> DEFINE A == \A j \in Jobs \ exposed' :
                      work'[j] = "running" => work[j] \in {"none", "running"}
  <1>1. DeploymentInv /\ [DeploymentNext]_deploymentVars => [A]_deploymentVars
    BY UnexposedStep, ExposureStays
  <1> QED
    BY <1>1, DeploymentInvariance, PTL DEF DeploymentSpec, UnexposedRunOnce

\* Nobody rewrites the outcome of an unexposed job (UpdateJobStatus,
\* FailOrphanedJobs).
THEOREM UnexposedOutcomesAreFinal == DeploymentSpec => UnexposedFinal
  <1> DEFINE A == \A j \in Jobs \ exposed' :
                      ledger[j] \in Terminal => ledger'[j] = ledger[j]
  <1>1. DeploymentInv /\ [DeploymentNext]_deploymentVars => [A]_deploymentVars
    BY UnexposedStep, ExposureStays
  <1> QED
    BY <1>1, DeploymentInvariance, PTL DEF DeploymentSpec, UnexposedFinal
-----------------------------------------------------------------------------
(* The abstract ledger                                                     *)

\* As long as nothing is exposed, RunJob's steps are the ledger's, whichever
\* process takes them (RunJob).
LEMMA RunJobRefines ==
    ASSUME DeploymentInv, exposed = {}, NEW r \in Runners, NEW c \in BOOLEAN,
           RunJobStep(r, c)
    PROVE  Ledger!LedgerNext \/ UNCHANGED <<ledger, work>>
  <1> DEFINE j == cur[r]
  <1>1. Busy(r) /\ j \in Jobs /\ Agrees(r) /\ Consistent(j)
    BY RunJobFrame DEF DeploymentInv, RunnersAgree, HistoriesAgree
  <1> USE DEF DeploymentInv, DeploymentTypeOK, TypeOK, RunTypeOK,
              Ledger!LedgerTypeOK
  <1>2. CASE RefuseJob(r) \/ PublishVerdict(r)
    BY <1>2 DEF RefuseJob, PublishVerdict
  <1>3. CASE StartJob(r, c) \/ StartJobFails(r, c)
    <2>1. ledger[j] = "queued" /\ work[j] = "none"
      BY <1>1, <1>3 DEF StartJob, StartJobFails, Agrees, Consistent
    <2>2. Ledger!Claim(j) \/ UNCHANGED <<ledger, work>>
      BY <1>3, <2>1 DEF StartJob, StartJobFails, UpdateJobStatus,
         UpdateJobStatusError, Ledger!Claim
    <2> QED
      BY <1>1, <2>2 DEF Ledger!LedgerNext
  <1>4. CASE EndPipeline(r)
    <2>1. PICK v \in Terminal :
            work' = [work EXCEPT ![j] = IF v = "completed" THEN "succeeded" ELSE "broke"]
      BY <1>4 DEF EndPipeline
    <2>2. ledger[j] = "in_progress" /\ work[j] = "running" /\ ledger' = ledger
      BY <1>1, <1>4 DEF EndPipeline, Agrees
    <2>3. Ledger!Return(j)
      BY <2>1, <2>2 DEF Ledger!Return
    <2> QED
      BY <1>1, <2>3 DEF Ledger!LedgerNext
  <1>5. CASE RecordVerdict(r) \/ RecordVerdictFails(r)
    <2>1. /\ ledger[j] = "in_progress" /\ UNCHANGED work
          /\ ledger' = [ledger EXCEPT ![j] = verdict[r]] \/ ledger' = ledger
      BY <1>1, <1>5 DEF RecordVerdict, RecordVerdictFails, Agrees,
         UpdateJobStatus, UpdateJobStatusError
    <2>2. \/ verdict[r] = "completed" /\ work[j] = "succeeded"
          \/ verdict[r] = "failed" /\ work[j] = "broke"
      BY <1>1, <1>5 DEF RecordVerdict, RecordVerdictFails, Agrees, Terminal,
         Ledger!Terminal
    <2>3. Ledger!Record(j) \/ UNCHANGED <<ledger, work>>
      BY <2>1, <2>2 DEF Ledger!Record
    <2> QED
      BY <1>1, <2>3 DEF Ledger!LedgerNext
  <1> QED
    BY <1>2, <1>3, <1>4, <1>5 DEF RunJobStep

\* A process that dies loses the pipeline it runs, if any.
LEMMA LossRefines ==
    ASSUME DeploymentInv, exposed = {}, NEW r \in Runners, LoseRunner(r),
           ledger' = ledger
    PROVE  Ledger!LedgerNext \/ UNCHANGED <<ledger, work>>
  <1>1. work' = IF pc[r] = "running" THEN [work EXCEPT ![cur[r]] = "lost"] ELSE work
    BY DEF LoseRunner
  <1>2. CASE pc[r] # "running"
    BY <1>1, <1>2
  <1>3. CASE pc[r] = "running"
    <2>1. cur[r] \in Jobs /\ work[cur[r]] = "running"
      BY <1>3 DEF DeploymentInv, HoldsJobs, RunnersAgree, Agrees, Busy
    <2>2. work' = [j \in Jobs |-> IF j \in {cur[r]} THEN "lost" ELSE work[j]]
      BY <1>1, <1>3, <2>1 DEF DeploymentInv, DeploymentTypeOK, TypeOK, RunTypeOK,
         Ledger!LedgerTypeOK
    <2>3. Ledger!Lose({cur[r]}) /\ {cur[r]} \in SUBSET Jobs
      BY <2>1, <2>2 DEF Ledger!Lose
    <2> QED
      BY <2>3 DEF Ledger!LedgerNext
  <1> QED
    BY <1>2, <1>3

\* A start-up sweep that meets no command fails rows nobody works on
\* (FailOrphanedJobs).
LEMMA SweepRefines ==
    ASSUME DeploymentInv, exposed' = {}, exposed' = exposed \cup CommandJobs,
           FailOrphanedJobs
    PROVE  Ledger!LedgerNext \/ UNCHANGED <<ledger, work>>
  <1> DEFINE S == {j \in Jobs : ledger[j] = "in_progress"}
  <1>1. /\ ledger' = [j \in Jobs |-> IF j \in S THEN "failed" ELSE ledger[j]]
        /\ UNCHANGED work /\ phase = "booted"
    BY DEF FailOrphanedJobs
  <1>2. \A r \in Runners : pc[r] # "running"
    <2>1. pc[D] = "idle"
      BY <1>1 DEF DeploymentInv, PhaseAgrees
    <2> QED
      BY <2>1 DEF CommandJobs, Commands
  <1>3. \A j \in S : work[j] # "running"
    BY <1>2 DEF DeploymentInv, HistoriesAgree, Consistent
  <1>4. CASE S = {}
    BY <1>1, <1>4 DEF DeploymentInv, DeploymentTypeOK, TypeOK, RunTypeOK,
       Ledger!LedgerTypeOK
  <1>5. CASE S # {}
    <2>1. Ledger!Abandon(S) /\ S \in SUBSET Jobs
      BY <1>1, <1>3, <1>5 DEF Ledger!Abandon
    <2> QED
      BY <2>1 DEF Ledger!LedgerNext
  <1> QED
    BY <1>4, <1>5

\* Every step that exposes nothing is one of the ledger, or leaves it alone.
LEMMA StepRefines ==
    ASSUME DeploymentInv, exposed' = {}, [DeploymentNext]_deploymentVars
    PROVE  [Ledger!LedgerNext]_(Ledger!ledgerVars)
  <1> SUFFICES Ledger!LedgerNext \/ UNCHANGED <<ledger, work>>
    BY DEF Ledger!ledgerVars
  <1>1. exposed = {}
    BY ExposureStays DEF deploymentVars
  <1>2. ASSUME NEW j \in Jobs, ledger[j] = "absent", work' = work,
               ledger' = [ledger EXCEPT ![j] = "queued"] \/ ledger' = ledger
        PROVE  Ledger!LedgerNext \/ UNCHANGED <<ledger, work>>
    BY <1>2 DEF Ledger!LedgerNext, Ledger!Submit
  <1>3. ASSUME NEW c \in Commands, NEW j \in Jobs, Backup(c, j) \/ BackupNotCreated(c, j)
        PROVE  Ledger!LedgerNext \/ UNCHANGED <<ledger, work>>
    BY <1>2, <1>3 DEF Backup, BackupNotCreated, CreateJob, CreateJobError,
       UpdateJobStatus, UpdateJobStatusError
  <1>4. ASSUME NEW c \in Commands, RunInline(c)
        PROVE  Ledger!LedgerNext \/ UNCHANGED <<ledger, work>>
    <2>1. RunJobStep(c, FALSE) /\ c \in Runners /\ FALSE \in BOOLEAN
      BY <1>4 DEF RunInline, Commands
    <2> QED
      BY <1>1, <2>1, RunJobRefines
  <1>5. ASSUME NEW c \in Commands, Interrupt(c)
        PROVE  Ledger!LedgerNext \/ UNCHANGED <<ledger, work>>
    <2>1. LoseRunner(c) /\ c \in Runners /\ ledger' = ledger
      BY <1>5 DEF Interrupt, Commands
    <2> QED
      BY <1>1, <2>1, LossRefines
  <1>6. CASE DaemonStep
    <2>1. ASSUME NEW p \in Producers, NEW j \in Jobs, Persist(p, j) \/ PersistFails(p, j)
          PROVE  Ledger!LedgerNext \/ UNCHANGED <<ledger, work>>
      BY <1>2, <2>1 DEF Persist, PersistFails, CreateJob, CreateJobError,
         UpdateJobStatus, UpdateJobStatusError
    <2>2. CASE FailOrphanedJobs
      <3>1. exposed' = exposed \cup CommandJobs
        BY <1>6, <2>2 DEF DaemonStep, FailOrphanedJobs
      <3> QED
        BY <2>2, <3>1, SweepRefines
    <2>3. CASE RunNext
      <3>1. RunJobStep(D, Cancelled) /\ Cancelled \in BOOLEAN
        BY <2>3 DEF RunNext, Cancelled
      <3> QED
        BY <1>1, <3>1, RunJobRefines
    <2>4. CASE Exit \/ Crash
      <3>1. LoseRunner(D) /\ ledger' = ledger
        BY <2>4 DEF Exit, Crash, ProcessGone
      <3> QED
        BY <1>1, <3>1, LossRefines
    <2>5. CASE \/ Boot \/ reconcileQueuedJobs \/ StartServers \/ StartConsumer
               \/ Dequeue \/ Shutdown \/ ConsumerReturns \/ StopScheduler
               \/ \E p \in Producers, j \in Jobs : Enqueue(p, j)
      BY <2>5 DEF Boot, reconcileQueuedJobs, StartServers, StartConsumer,
         Dequeue, Shutdown, ConsumerReturns, StopScheduler, Enqueue, runVars
    <2> QED
      BY <1>6, <2>1, <2>2, <2>3, <2>4, <2>5 DEF DaemonStep, Next
  <1>7. CASE UNCHANGED deploymentVars
    BY <1>7 DEF deploymentVars, vars, runVars
  <1> QED
    BY <1>3, <1>4, <1>5, <1>6, <1>7 DEF DeploymentNext

\* What JobLedger promises holds of daemon and commands together, as long as
\* no daemon starts while a command has a job at hand: start-up recovery is
\* the only place where the processes get in each other's way
\* (FailOrphanedJobs, reconcileQueuedJobs).
THEOREM UndisturbedRefinement ==
    DeploymentSpec /\ [](exposed = {}) => Ledger!LedgerSpec
  <1>1. DeploymentInit => Ledger!LedgerInit
    BY DEF DeploymentInit, Init, RunInit
  <1>2. DeploymentInv /\ (exposed = {})' /\ [DeploymentNext]_deploymentVars
            => [Ledger!LedgerNext]_(Ledger!ledgerVars)
    BY StepRefines
  <1> QED
    BY <1>1, <1>2, DeploymentInvariance, PTL DEF DeploymentSpec, Ledger!LedgerSpec
=============================================================================
