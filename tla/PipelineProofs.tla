---------------------------- MODULE PipelineProofs ----------------------------
(***************************************************************************)
(* Theorems about Pipeline, for every set of jobs, servers and resources,  *)
(* whether pipelines overlap or not.                                       *)
(***************************************************************************)
EXTENDS Pipeline, TLAPS, WellFoundedInduction

\* What is known of the job j at each point of its pipeline: the resources
\* behind it have a row (and a restore test) or an error.
Handled(j, r) ==
    \/ r \in errs[j]
    \/ /\ <<j, r>> \in rows
       /\ Verification(host[j]) => <<j, r>> \in tested

Progress(j) ==
    /\ pc[j] \in {"waiting", "resolving"} => found[j] = {} /\ todo[j] = {}
    /\ pc[j] \in Stages => res[j] \in Resources
    /\ pc[j] = "recording" => Current(j) \in confirmed
    /\ pc[j] = "restoring" => Current(j) \in rows
    /\ pc[j] # "crashed" =>
         \A r \in found[j] :
             \/ r \in todo[j]
             \/ pc[j] \in Stages /\ r = res[j]
             \/ Handled(j, r)
    /\ pc[j] \in {"succeeded", "broke"} => todo[j] = {}
    /\ pc[j] = "succeeded" => errs[j] = {}

AllProgress == \A j \in Jobs : Progress(j)

\* Whoever was confirmed was stored, and of whatever was stored the repository
\* holds a successor.
ConfirmedWasStored == \A s \in confirmed : born[s] > 0
Succeeded(s) == \E t \in repo : Bucket(t) = Bucket(s) /\ born[t] >= born[s]
StoredIsSucceeded == \A s \in Snapshots : born[s] > 0 => Succeeded(s)

IInv ==
    /\ TypeOK
    /\ AllProgress
    /\ ConfirmedWasStored
    /\ NeverRecordsUnverified
    /\ NoTempLeak
    /\ StoredIsSucceeded
-----------------------------------------------------------------------------
\* A bounded set of numbers has a greatest one.
LEMMA Greatest ==
    ASSUME NEW m \in Nat, NEW T \in SUBSET (0..m), T # {}
    PROVE  \E x \in T : \A y \in T : y <= x
<1> DEFINE U == {n \in Nat : m - n \in T}
<1>1. PICK t \in T : TRUE
  OBVIOUS
<1>2. U \subseteq Nat /\ U # {}
  <2>1. m - t \in Nat /\ m - (m - t) = t
    BY <1>1
  <2> QED BY <1>1, <2>1
<1>3. IsWellFoundedOn(OpToRel(<, Nat), Nat)
  BY NatLessThanWellFounded
<1>4. PICK n \in U : \A k \in U : ~ (<<k, n>> \in OpToRel(<, Nat))
  <2> HIDE DEF U
  <2> QED BY <1>2, <1>3, WFMin
<1>5. \A k \in U : ~ (k < n)
  BY <1>2, <1>4 DEF OpToRel
<1>6. \A y \in T : y <= m - n
  <2> SUFFICES ASSUME NEW y \in T PROVE y <= m - n
    OBVIOUS
  <2>1. m - y \in Nat /\ m - (m - y) = y
    OBVIOUS
  <2>2. m - y \in U
    BY <2>1
  <2>3. n \in Nat
    BY <1>2, <1>4
  <2>4. y \in Nat
    <3>1. y \in 0..m
      OBVIOUS
    <3> QED BY ONLY <3>1, m \in Nat
  <2>5. ~ (m - y < n)
    BY <1>5, <2>2
  <2> QED BY ONLY <2>3, <2>4, <2>5, m \in Nat
<1> QED BY <1>4, <1>6
-----------------------------------------------------------------------------
\* Retention leaves, for each snapshot of the repository, one of the same group
\* that is at least as recent.
LEMMA ForgetKeepsSuccessors ==
    ASSUME TypeOK, NEW h, Forget(h), UNCHANGED config, NEW s \in Snapshots, Succeeded(s)
    PROVE  Succeeded(s)'
<1>1. PICK t \in repo : Bucket(t) = Bucket(s) /\ born[t] >= born[s]
  BY DEF Succeeded
<1> DEFINE G == {u \in repo : Bucket(u) = Bucket(s)}
           T == {born[u] : u \in G}
<1>2. \A u \in repo : u \in Snapshots /\ born[u] \in 0..clock
  BY DEF TypeOK
<1>3. T \in SUBSET (0..clock) /\ T # {} /\ clock \in Nat
  BY <1>1, <1>2 DEF TypeOK
<1>4. PICK x \in T : \A y \in T : y <= x
  <2> HIDE DEF T
  <2> QED BY <1>3, Greatest
<1>5. PICK u \in G : born[u] = x
  OBVIOUS
<1>6. Newest(u)
  BY <1>4, <1>5 DEF Newest
<1>7. u \in repo' /\ repo' \subseteq repo
  BY <1>5, <1>6 DEF Forget, Kept
<1>8. born[u] >= born[s]
  <2>1. born[t] \in T
    BY <1>1
  <2>2. born[t] <= born[u]
    BY <2>1, <1>4, <1>5
  <2>3. born[s] \in Int /\ born[t] \in Int /\ born[u] \in Int
    BY <1>1, <1>2, <1>5 DEF TypeOK
  <2> QED BY <1>1, <2>2, <2>3
<1>9. Bucket(u)' = Bucket(s)'
  BY <1>5 DEF Bucket, config
<1>10. born' = born
  BY DEF Forget
<1> QED BY <1>7, <1>8, <1>9, <1>10 DEF Succeeded

\* A new snapshot succeeds itself, and disturbs no other.
LEMMA CommitKeepsSuccessors ==
    ASSUME TypeOK, NEW c \in Snapshots, Commit(c), UNCHANGED config, StoredIsSucceeded
    PROVE  StoredIsSucceeded'
<1>0. born' = [born EXCEPT ![c] = clock + 1] /\ repo' = repo \cup {c}
  BY DEF Commit
<1> SUFFICES ASSUME NEW s \in Snapshots, born'[s] > 0
             PROVE  \E t \in repo' : Bucket(t)' = Bucket(s)' /\ born'[t] >= born'[s]
  BY DEF StoredIsSucceeded, Succeeded, Snapshots
<1>1. \A t : Bucket(t)' = Bucket(t)
  BY DEF Bucket, config
<1>2. clock \in Nat /\ born'[c] = clock + 1
  BY <1>0 DEF TypeOK
<1>3. CASE s = c
  BY <1>0, <1>2, <1>3
<1>4. CASE s # c
  <2>1. born'[s] = born[s] /\ born[s] \in 0..clock
    BY <1>0, <1>4 DEF TypeOK
  <2>2. PICK t \in repo : Bucket(t) = Bucket(s) /\ born[t] >= born[s]
    BY <2>1 DEF StoredIsSucceeded, Succeeded
  <2>3. CASE t = c
    BY <1>0, <1>1, <1>2, <2>1, <2>2, <2>3
  <2>4. CASE t # c
    <3>1. born'[t] = born[t]
      BY <1>0, <2>2, <2>4 DEF TypeOK
    <3> QED BY <1>0, <1>1, <2>1, <2>2, <3>1
  <2> QED BY <2>3, <2>4
<1> QED BY <1>3, <1>4
-----------------------------------------------------------------------------
\* The steps of job j.
JobStep(j) == Begin(j) \/ Step(j) \/ Expire(j) \/ Crash(j)

\* Types are preserved by every step.
LEMMA TypeStep ==
    ASSUME TypeOK, AllProgress, ConfirmedWasStored, NEW j \in Jobs, JobStep(j)
    PROVE  TypeOK'
<1> USE DEF TypeOK, Goto, config, loop, store, history, Snapshots, States, Stages,
            Ended
<1>0. Progress(j)
  BY DEF AllProgress
<1>1. CASE Begin(j)
  BY <1>1 DEF Begin
<1>2. CASE NothingDiscovered(j)
  BY <1>2 DEF NothingDiscovered
<1>3. CASE Discover(j)
  BY <1>3 DEF Discover
<1>4. CASE \E r \in Resources : StartBackup(j, r)
  BY <1>4 DEF StartBackup
<1>5. CASE Dumped(j)
  BY <1>5 DEF Dumped
<1>6. CASE Checked(j)
  BY <1>6 DEF Checked
<1>7. ASSUME pc[j] \in Stages PROVE Current(j) \in Snapshots /\ res[j] \in Resources
  BY <1>0, <1>7 DEF Progress, Current
<1>8. ASSUME Commit(Current(j)), Current(j) \in Snapshots
      PROVE  /\ clock' \in Nat
             /\ born' \in [Snapshots -> 0..clock']
             /\ repo' \subseteq {s \in Snapshots : born'[s] > 0}
             /\ \A s \in Snapshots : born[s] > 0 => born'[s] > 0
  <2>1. \A s \in Snapshots : born'[s] = IF s = Current(j) THEN clock + 1 ELSE born[s]
    BY <1>8 DEF Commit
  <2>2. \A s \in Snapshots : born'[s] \in 0..(clock + 1)
    BY <2>1
  <2> QED BY <1>8, <2>1, <2>2 DEF Commit
<1>9. ASSUME NEW E \in SUBSET (Resources \cup {"retention"}), Settle(j, E)
      PROVE  /\ host' \in [Jobs -> Hosts]
             /\ override' \in [Hosts -> {"unset", "on", "off"}]
             /\ pc' \in [Jobs -> States]
             /\ found' \in [Jobs -> SUBSET Resources]
             /\ todo' \in [Jobs -> SUBSET Resources]
             /\ res' \in [Jobs -> Resources \cup {NoResource}]
             /\ errs' \in [Jobs -> SUBSET (Resources \cup {"retention"})]
             /\ expired' \in [Jobs -> BOOLEAN]
             /\ temp' \subseteq Snapshots
  BY <1>9 DEF Settle
<1>10. CASE Stored(j)
  BY <1>7, <1>8, <1>10 DEF Stored
<1>11. CASE Confirmed(j)
  BY <1>7, <1>11 DEF Confirmed
<1>12. CASE Recorded(j)
  <2>1. Current(j) \in Snapshots /\ born[Current(j)] > 0
    BY <1>0, <1>7, <1>12 DEF Recorded, Progress, ConfirmedWasStored
  <2>2. CASE Settle(j, {})
    BY <1>9, <1>12, <2>1, <2>2 DEF Recorded
  <2>3. CASE Goto(j, "restoring") /\ UNCHANGED <<config, loop, expired, temp>>
    BY <1>12, <2>1, <2>3 DEF Recorded
  <2> QED BY <1>12, <2>2, <2>3 DEF Recorded
<1>13. CASE RestoreTested(j)
  BY <1>7, <1>9, <1>13 DEF RestoreTested
<1>14. CASE StageFails(j)
  BY <1>7, <1>9, <1>14 DEF StageFails
<1>15. CASE StoreFails(j)
  <2>1. Current(j) \in Snapshots /\ res[j] \in Resources
    BY <1>7, <1>15 DEF StoreFails
  <2>2. CASE Commit(Current(j))
    BY <1>8, <1>9, <1>15, <2>1, <2>2 DEF StoreFails
  <2>3. CASE UNCHANGED store
    BY <1>9, <1>15, <2>1, <2>3 DEF StoreFails
  <2> QED BY <1>15, <2>2, <2>3 DEF StoreFails
<1>16. CASE RecordFails(j)
  <2>1. Current(j) \in Snapshots /\ res[j] \in Resources /\ born[Current(j)] > 0
    BY <1>0, <1>7, <1>16 DEF RecordFails, Progress, ConfirmedWasStored
  <2> QED BY <1>9, <1>16, <2>1 DEF RecordFails
<1>17. CASE Retain(j)
  <2>1. repo' \subseteq repo /\ born' = born /\ clock' = clock
    BY <1>17 DEF Retain, Forget
  <2> QED BY <1>17, <2>1 DEF Retain, Return
<1>18. CASE RetainFails(j)
  <2>1. repo' \subseteq repo /\ born' = born /\ clock' = clock
    BY <1>18 DEF RetainFails, Forget
  <2> QED BY <1>18, <2>1 DEF RetainFails, Return
<1>19. CASE Expire(j)
  BY <1>19 DEF Expire
<1>20. CASE Crash(j)
  BY <1>20 DEF Crash
<1> QED
  BY <1>1, <1>2, <1>3, <1>4, <1>5, <1>6, <1>10, <1>11, <1>12, <1>13, <1>14,
     <1>15, <1>16, <1>17, <1>18, <1>19, <1>20 DEF JobStep, Step
-----------------------------------------------------------------------------
\* What a step of job j leaves alone: the other jobs, and the past.
LEMMA Frame ==
    ASSUME TypeOK, NEW j \in Jobs, JobStep(j)
    PROVE  /\ UNCHANGED config
           /\ rows \subseteq rows' /\ confirmed \subseteq confirmed' /\ tested \subseteq tested'
           /\ \A k \in Jobs \ {j} :
                /\ pc'[k] = pc[k] /\ found'[k] = found[k] /\ todo'[k] = todo[k]
                /\ res'[k] = res[k] /\ errs'[k] = errs[k]
<1> USE DEF TypeOK, Goto, config, loop, store, history
<1>1. CASE Begin(j) \/ NothingDiscovered(j) \/ Discover(j) \/ Expire(j) \/ Crash(j)
  BY <1>1 DEF Begin, NothingDiscovered, Discover, Expire, Crash
<1>2. CASE (\E r \in Resources : StartBackup(j, r)) \/ Dumped(j) \/ Checked(j)
           \/ Stored(j) \/ Confirmed(j)
  BY <1>2 DEF StartBackup, Dumped, Checked, Stored, Confirmed
<1>3. CASE Recorded(j) \/ RestoreTested(j)
  BY <1>3 DEF Recorded, RestoreTested, Settle
<1>4. CASE StageFails(j) \/ StoreFails(j) \/ RecordFails(j)
  BY <1>4 DEF StageFails, StoreFails, RecordFails, Settle
<1>5. CASE Retain(j) \/ RetainFails(j)
  BY <1>5 DEF Retain, RetainFails, Return
<1> QED BY <1>1, <1>2, <1>3, <1>4, <1>5 DEF JobStep, Step

\* A job that does not move keeps its progress whatever the others do.
LEMMA OthersProgress ==
    ASSUME TypeOK, AllProgress, NEW j \in Jobs, JobStep(j), NEW k \in Jobs \ {j}
    PROVE  Progress(k)'
<1>1. Progress(k)
  BY DEF AllProgress
<1>2. /\ UNCHANGED config
      /\ rows \subseteq rows' /\ confirmed \subseteq confirmed' /\ tested \subseteq tested'
      /\ pc'[k] = pc[k] /\ found'[k] = found[k] /\ todo'[k] = todo[k]
      /\ res'[k] = res[k] /\ errs'[k] = errs[k]
  BY Frame
<1>3. /\ Current(k)' = Current(k)
      /\ Verification(host[k])' = Verification(host[k])
  BY <1>2 DEF Current, Verification, config
<1>4. \A r : Handled(k, r) => Handled(k, r)'
  BY <1>2, <1>3 DEF Handled, config
<1> QED BY <1>1, <1>2, <1>3, <1>4 DEF Progress

\* Settling a resource that is handled by now, or has just failed, is progress.
LEMMA SettleProgress ==
    ASSUME TypeOK, NEW j \in Jobs, pc[j] \in Stages, Progress(j), NEW E, Settle(j, E),
           rows \subseteq rows', tested \subseteq tested',
           \/ res[j] \in E
           \/ <<j, res[j]>> \in rows' /\ (Verification(host[j]) => <<j, res[j]>> \in tested')
    PROVE  Progress(j)'
<1>1. /\ pc'[j] = "looping" /\ errs'[j] = errs[j] \cup E
      /\ UNCHANGED config /\ found' = found /\ todo' = todo
  BY DEF Settle, Goto, TypeOK
<1>2. Verification(host[j])' = Verification(host[j]) /\ host' = host
  BY <1>1 DEF Verification, config
<1>3. \A r : Handled(j, r) => Handled(j, r)'
  BY <1>1, <1>2 DEF Handled
<1>4. \A r : r = res[j] => Handled(j, r)'
  BY <1>1, <1>2 DEF Handled
<1>5. \A r \in found[j] : r \in todo[j] \/ Handled(j, r)'
  BY <1>3, <1>4 DEF Progress, Stages
<1> QED BY <1>1, <1>5 DEF Progress, Stages

\* The job that moves makes progress.
LEMMA OwnProgress ==
    ASSUME TypeOK, AllProgress, NEW j \in Jobs, JobStep(j)
    PROVE  Progress(j)'
<1>0. Progress(j)
  BY DEF AllProgress
<1>f. UNCHANGED config /\ rows \subseteq rows' /\ confirmed \subseteq confirmed'
      /\ tested \subseteq tested'
  BY Frame
<1>v. Verification(host[j])' = Verification(host[j]) /\ host' = host
  BY <1>f DEF Verification, config
<1> USE DEF Goto, Stages, Progress
<1>1. CASE Begin(j) \/ NothingDiscovered(j) \/ Discover(j)
  <2>1. pc[j] \in {"waiting", "resolving"} /\ found[j] = {} /\ todo[j] = {}
    BY <1>0, <1>1 DEF Begin, NothingDiscovered, Discover
  <2>2. CASE Begin(j)
    BY <2>1, <2>2 DEF Begin, TypeOK, loop
  <2>3. CASE NothingDiscovered(j)
    BY <2>1, <2>3 DEF NothingDiscovered, TypeOK, loop
  <2>4. CASE Discover(j)
    BY <2>1, <2>4 DEF Discover, TypeOK
  <2> QED BY <1>1, <2>2, <2>3, <2>4
<1>2. CASE \E r \in Resources : StartBackup(j, r)
  <2>1. PICK r \in Resources : StartBackup(j, r)
    BY <1>2
  <2>2. /\ pc[j] = "looping" /\ pc'[j] = "dumping" /\ res'[j] = r
        /\ found' = found /\ errs' = errs /\ rows' = rows /\ tested' = tested
        /\ todo'[j] = todo[j] \ {r}
    BY <2>1 DEF StartBackup, TypeOK, history
  <2>3. \A q : Handled(j, q) => Handled(j, q)'
    BY <1>v, <2>2 DEF Handled
  <2> QED BY <1>0, <2>2, <2>3
<1>3. CASE Dumped(j) \/ Checked(j) \/ Stored(j) \/ Confirmed(j)
  <2>1. /\ pc[j] \in Stages \ {"recording", "restoring"}
        /\ pc'[j] \in Stages \ {"restoring"}
        /\ pc'[j] = "recording" => Confirmed(j)
        /\ found' = found /\ errs' = errs /\ rows' = rows /\ tested' = tested
        /\ todo' = todo /\ res' = res
    BY <1>3 DEF Dumped, Checked, Stored, Confirmed, TypeOK, loop, history
  <2>2. \A q : Handled(j, q) => Handled(j, q)'
    BY <1>v, <2>1 DEF Handled
  <2>3. pc'[j] = "recording" => Current(j)' \in confirmed'
    BY <2>1 DEF Confirmed, Current
  <2> QED BY <1>0, <2>1, <2>2, <2>3
<1>4. CASE Recorded(j)
  <2>1. pc[j] = "recording" /\ <<j, res[j]>> \in rows'
    BY <1>4 DEF Recorded, Current
  <2>2. CASE Verification(host[j])
    <3>1. /\ pc'[j] = "restoring" /\ found' = found /\ errs' = errs /\ tested' = tested
          /\ todo' = todo /\ res' = res
      BY <1>4, <2>2 DEF Recorded, TypeOK, loop, history
    <3>2. \A q : Handled(j, q) => Handled(j, q)'
      BY <1>f, <1>v, <3>1 DEF Handled
    <3> QED BY <1>0, <2>1, <3>1, <3>2 DEF Current
  <2>3. CASE ~Verification(host[j])
    <3>1. Settle(j, {})
      BY <1>4, <2>3 DEF Recorded
    <3> QED BY <1>0, <1>f, <2>1, <2>3, <3>1, SettleProgress
  <2> QED BY <2>2, <2>3
<1>5. CASE RestoreTested(j)
  <2>1. /\ pc[j] = "restoring" /\ Settle(j, {})
        /\ <<j, res[j]>> \in rows' /\ <<j, res[j]>> \in tested'
    BY <1>0, <1>5 DEF RestoreTested, Current
  <2> QED BY <1>0, <1>f, <2>1, SettleProgress
<1>6. CASE StageFails(j) \/ StoreFails(j) \/ RecordFails(j)
  <2>1. pc[j] \in Stages /\ Settle(j, {res[j]})
    BY <1>6 DEF StageFails, StoreFails, RecordFails
  <2> QED BY <1>0, <1>f, <2>1, SettleProgress
<1>7. CASE Retain(j) \/ RetainFails(j)
  <2>1. PICK E : /\ errs[j] \subseteq E /\ Return(j, E)
    BY <1>7 DEF Retain, RetainFails
  <2>2. /\ pc[j] = "looping" /\ todo[j] = {} /\ found' = found /\ todo' = todo
        /\ rows' = rows /\ tested' = tested
    BY <1>7 DEF Retain, RetainFails, history
  <2>3. errs'[j] = E /\ pc'[j] = IF E = {} THEN "succeeded" ELSE "broke"
    BY <2>1 DEF Return, TypeOK
  <2>4. \A q : Handled(j, q) => Handled(j, q)'
    BY <1>v, <2>1, <2>2, <2>3 DEF Handled
  <2> QED BY <1>0, <2>2, <2>3, <2>4
<1>8. CASE Expire(j) \/ Crash(j)
  <2>1. /\ pc'[j] = pc[j] \/ pc'[j] = "crashed"
        /\ found' = found /\ errs' = errs /\ rows' = rows /\ tested' = tested
        /\ todo' = todo /\ res' = res /\ confirmed' = confirmed
        /\ pc'[j] = "crashed" => pc[j] \notin {"waiting", "succeeded", "broke"}
    BY <1>8 DEF Expire, Crash, Running, Ended, TypeOK, loop, history
  <2>2. \A q : Handled(j, q) => Handled(j, q)'
    BY <1>v, <2>1 DEF Handled
  <2>3. Current(j)' = Current(j)
    BY <2>1 DEF Current
  <2> QED BY <1>0, <2>1, <2>2, <2>3
<1> QED
  BY <1>1, <1>2, <1>3, <1>4, <1>5, <1>6, <1>7, <1>8 DEF JobStep, Step
-----------------------------------------------------------------------------
\* No step leaks an artifact: only Settle ends the work on a resource.
LEMMA TempStep ==
    ASSUME TypeOK, NoTempLeak, NEW j \in Jobs, JobStep(j)
    PROVE  NoTempLeak'
<1> USE DEF TypeOK, Goto, loop, Stages, NoTempLeak
<1>s. \A s \in temp : s \in Snapshots /\ s = <<s[1], s[2]>> /\ s[1] \in Jobs
  BY DEF Snapshots
<1>1. CASE Begin(j) \/ NothingDiscovered(j) \/ Discover(j) \/ Expire(j) \/ Crash(j)
  BY <1>s, <1>1 DEF Begin, NothingDiscovered, Discover, Expire, Crash
<1>2. CASE \E r \in Resources : StartBackup(j, r)
  BY <1>s, <1>2 DEF StartBackup
<1>3. CASE Dumped(j) \/ Checked(j) \/ Stored(j) \/ Confirmed(j)
  BY <1>s, <1>3 DEF Dumped, Checked, Stored, Confirmed
<1>4. ASSUME pc[j] \in Stages, NEW E, Settle(j, E) PROVE NoTempLeak'
  <2>1. \A s \in temp' : s[1] # j
    BY <1>s, <1>4 DEF Settle, Current
  <2> QED BY <1>s, <1>4, <2>1 DEF Settle
<1>5. CASE Recorded(j)
  <2>1. CASE Settle(j, {})
    BY <1>4, <1>5, <2>1 DEF Recorded
  <2>2. CASE Goto(j, "restoring") /\ UNCHANGED <<config, loop, expired, temp>>
    BY <1>s, <1>5, <2>2 DEF Recorded
  <2> QED BY <1>5, <2>1, <2>2 DEF Recorded
<1>6. CASE RestoreTested(j) \/ StageFails(j) \/ StoreFails(j) \/ RecordFails(j)
  BY <1>4, <1>6 DEF RestoreTested, StageFails, StoreFails, RecordFails
<1>7. CASE Retain(j) \/ RetainFails(j)
  BY <1>s, <1>7 DEF Retain, RetainFails, Return
<1> QED
  BY <1>1, <1>2, <1>3, <1>5, <1>6, <1>7 DEF JobStep, Step
-----------------------------------------------------------------------------
\* Rows are only added for confirmed snapshots, and only stored snapshots are
\* confirmed.
LEMMA ConfirmStep ==
    ASSUME TypeOK, AllProgress, ConfirmedWasStored, NeverRecordsUnverified,
           NEW j \in Jobs, JobStep(j)
    PROVE  ConfirmedWasStored' /\ NeverRecordsUnverified'
<1> USE DEF ConfirmedWasStored, NeverRecordsUnverified, store, history
<1>0. Progress(j)
  BY DEF AllProgress
<1>1. CASE UNCHANGED <<rows, born, confirmed>>
  BY <1>1
<1>2. CASE Begin(j) \/ NothingDiscovered(j) \/ Discover(j) \/ Expire(j) \/ Crash(j)
           \/ Dumped(j) \/ Checked(j) \/ RestoreTested(j) \/ StageFails(j)
  BY <1>1, <1>2 DEF Begin, NothingDiscovered, Discover, Expire, Crash, Dumped,
                    Checked, RestoreTested, StageFails
<1>3. CASE \E r \in Resources : StartBackup(j, r)
  BY <1>1, <1>3 DEF StartBackup
<1>4. CASE Retain(j) \/ RetainFails(j)
  BY <1>1, <1>4 DEF Retain, RetainFails, Forget
<1>5. CASE Confirmed(j)
  BY <1>5 DEF Confirmed, TypeOK
<1>6. CASE Recorded(j) \/ RecordFails(j)
  BY <1>0, <1>6 DEF Recorded, RecordFails, Progress
<1>7. ASSUME Commit(Current(j)), UNCHANGED <<rows, confirmed>>
      PROVE  ConfirmedWasStored' /\ NeverRecordsUnverified'
  BY <1>7 DEF Commit, TypeOK
<1>8. CASE Stored(j) \/ StoreFails(j)
  BY <1>1, <1>7, <1>8 DEF Stored, StoreFails
<1> QED
  BY <1>2, <1>3, <1>4, <1>5, <1>6, <1>8 DEF JobStep, Step

\* Every snapshot ever stored keeps a successor in the repository.
LEMMA SuccessorStep ==
    ASSUME TypeOK, AllProgress, StoredIsSucceeded, NEW j \in Jobs, JobStep(j)
    PROVE  StoredIsSucceeded'
<1> USE DEF store
<1>0. UNCHANGED config
  BY Frame
<1>1. ASSUME UNCHANGED <<repo, born>> PROVE StoredIsSucceeded'
  <2>1. \A t : Bucket(t)' = Bucket(t)
    BY <1>0 DEF Bucket, config
  <2> QED BY <1>1, <2>1 DEF StoredIsSucceeded, Succeeded, Snapshots
<1>2. CASE Begin(j) \/ NothingDiscovered(j) \/ Discover(j) \/ Expire(j) \/ Crash(j)
           \/ Dumped(j) \/ Checked(j) \/ RestoreTested(j) \/ StageFails(j)
           \/ Confirmed(j) \/ Recorded(j) \/ RecordFails(j)
  BY <1>1, <1>2 DEF Begin, NothingDiscovered, Discover, Expire, Crash, Dumped,
           Checked, RestoreTested, StageFails, Confirmed, Recorded, RecordFails
<1>3. CASE \E r \in Resources : StartBackup(j, r)
  BY <1>1, <1>3 DEF StartBackup
<1>4. ASSUME Forget(host[j]) PROVE StoredIsSucceeded'
  <2>1. born' = born
    BY <1>4 DEF Forget
  <2>2. ASSUME NEW s \in Snapshots, Succeeded(s) PROVE Succeeded(s)'
    BY <1>0, <1>4, <2>2, ForgetKeepsSuccessors
  <2> QED BY <2>1, <2>2 DEF StoredIsSucceeded, Snapshots
<1>5. CASE Retain(j) \/ RetainFails(j)
  BY <1>1, <1>4, <1>5 DEF Retain, RetainFails
<1>6. CASE Stored(j) \/ StoreFails(j)
  <2>1. Current(j) \in Snapshots
    BY <1>6 DEF Stored, StoreFails, AllProgress, Progress, Stages, Current, Snapshots
  <2> QED BY <1>0, <1>1, <1>6, <2>1, CommitKeepsSuccessors DEF Stored, StoreFails
<1> QED
  BY <1>2, <1>3, <1>5, <1>6 DEF JobStep, Step
-----------------------------------------------------------------------------
\* The inductive invariant holds initially.
LEMMA InitInvariant == Init => IInv
<1> SUFFICES ASSUME Init PROVE IInv
  OBVIOUS
<1>1. TypeOK
  BY DEF Init, TypeOK, States
<1>2. AllProgress
  BY DEF Init, AllProgress, Progress, Stages
<1> QED
  BY <1>1, <1>2 DEF Init, IInv, ConfirmedWasStored, NeverRecordsUnverified,
                    NoTempLeak, StoredIsSucceeded

\* Every step preserves it.
LEMMA StepInvariant == IInv /\ [Next]_vars => IInv'
<1> SUFFICES ASSUME IInv, [Next]_vars PROVE IInv'
  OBVIOUS
<1> USE DEF IInv
<1>1. CASE Next
  <2>1. PICK j \in Jobs : JobStep(j)
    BY <1>1 DEF Next, JobStep
  <2>2. AllProgress'
    <3>1. \A k \in Jobs : Progress(k)'
      BY <2>1, OwnProgress, OthersProgress
    <3> QED BY <3>1 DEF AllProgress
  <2> QED BY <2>1, <2>2, TypeStep, TempStep, ConfirmStep, SuccessorStep
<1>2. CASE UNCHANGED vars
  <2>1. AllProgress'
    BY <1>2 DEF vars, AllProgress, Progress, Handled, Current, Verification,
                config, loop, store, history
  <2>2. TypeOK' /\ ConfirmedWasStored' /\ NeverRecordsUnverified' /\ NoTempLeak'
    BY <1>2 DEF vars, TypeOK, ConfirmedWasStored, NeverRecordsUnverified, NoTempLeak,
                config, loop, store, history
  <2>3. StoredIsSucceeded'
    BY <1>2 DEF vars, StoredIsSucceeded, Succeeded, Bucket, Snapshots, config, store
  <2> QED BY <2>1, <2>2, <2>3
<1> QED BY <1>1, <1>2

\* The inductive invariant, from which the theorems below follow.
THEOREM PipelineInvariance == Spec => []IInv
<1> QED BY InitInvariant, StepInvariant, PTL DEF Spec

\* Types hold throughout (TypeOK).
THEOREM PipelineTypeCorrect == Spec => []TypeOK
<1>1. IInv => TypeOK
  BY DEF IInv
<1> QED BY <1>1, PipelineInvariance, PTL

\* ListSnapshots never shows a snapshot that storage-level Verify has not
\* accepted, whatever fails and whoever runs next to it.
THEOREM RowsAreVerified == Spec => []NeverRecordsUnverified
<1>1. IInv => NeverRecordsUnverified
  BY DEF IInv
<1> QED BY <1>1, PipelineInvariance, PTL

\* Only a crash leaves artifacts in the temp directory.
THEOREM TempIsClean == Spec => []NoTempLeak
<1>1. IInv => NoTempLeak
  BY DEF IInv
<1> QED BY <1>1, PipelineInvariance, PTL

\* A job that returns without an error recorded, and tested where asked to, all
\* it discovered.
THEOREM CompletionIsComplete == Spec => []CompletedIsComplete
<1>1. IInv => CompletedIsComplete
  <2> SUFFICES ASSUME IInv, NEW j \in Jobs, pc[j] = "succeeded", NEW r \in found[j]
               PROVE  Handled(j, r) /\ errs[j] = {}
    BY DEF CompletedIsComplete, Handled
  <2>1. Progress(j)
    BY DEF IInv, AllProgress
  <2> QED BY <2>1 DEF Progress, Stages
<1> QED BY <1>1, PipelineInvariance, PTL

\* Each discovered resource ends with a row or with an error of its own.
THEOREM ResourcesAreSettled == Spec => []EveryResourceSettled
<1>1. IInv => EveryResourceSettled
  <2> SUFFICES ASSUME IInv, NEW j \in Jobs, pc[j] \in {"succeeded", "broke"},
                      NEW r \in found[j]
               PROVE  Handled(j, r)
    BY DEF EveryResourceSettled, Handled
  <2>1. Progress(j)
    BY DEF IInv, AllProgress
  <2> QED BY <2>1 DEF Progress, Stages
<1> QED BY <1>1, PipelineInvariance, PTL

\* Retention never takes the last good backup of a recorded resource, however
\* many pipelines overlap.
THEOREM RetentionIsSafe == Spec => []StaysRestorable
<1>1. IInv => StaysRestorable
  BY DEF IInv, StaysRestorable, StoredIsSucceeded, Succeeded, TypeOK
<1> QED BY <1>1, PipelineInvariance, PTL
-----------------------------------------------------------------------------
\* Snapshots disappear only when a job of their host applies retention.
LEMMA OnlyRetentionRemoves ==
    ASSUME TypeOK, NEW j \in Jobs, JobStep(j), NEW s \in repo \ repo'
    PROVE  /\ Retain(j) \/ RetainFails(j)
           /\ host[s[1]] = host[j]
           /\ pc[j] = "looping" /\ pc'[j] # "looping"
<1> USE DEF store
<1>1. CASE Begin(j) \/ NothingDiscovered(j) \/ Discover(j) \/ Expire(j) \/ Crash(j)
           \/ Dumped(j) \/ Checked(j) \/ RestoreTested(j) \/ StageFails(j)
           \/ Confirmed(j) \/ Recorded(j) \/ RecordFails(j)
  BY <1>1 DEF Begin, NothingDiscovered, Discover, Expire, Crash, Dumped,
           Checked, RestoreTested, StageFails, Confirmed, Recorded, RecordFails
<1>2. CASE \E r \in Resources : StartBackup(j, r)
  BY <1>2 DEF StartBackup
<1>3. CASE Stored(j) \/ StoreFails(j)
  BY <1>3 DEF Stored, StoreFails, Commit
<1>4. CASE Retain(j) \/ RetainFails(j)
  <2>1. Forget(host[j]) /\ (Retain(j) \/ RetainFails(j))
    BY <1>4 DEF Retain, RetainFails
  <2>2. host[s[1]] = host[j]
    BY <2>1 DEF Forget, Kept
  <2>3. pc[j] = "looping" /\ pc'[j] # "looping"
    BY <1>4 DEF Retain, RetainFails, Return, Goto, TypeOK
  <2> QED BY <2>1, <2>2, <2>3
<1> QED
  BY <1>1, <1>2, <1>3, <1>4 DEF JobStep, Step

\* Retention of one server never takes a snapshot of another.
THEOREM RetentionStaysOnHost == Spec => OtherHostsUntouched
<1>1. ASSUME IInv, [Next]_vars
      PROVE  [\A s \in repo \ repo' : \E j \in Jobs :
                 /\ host[j] = host[s[1]]
                 /\ pc[j] = "looping" /\ pc'[j] # "looping"]_vars
  <2>1. CASE Next
    <3>1. PICK j \in Jobs : JobStep(j)
      BY <2>1 DEF Next, JobStep
    <3> QED BY <1>1, <3>1, OnlyRetentionRemoves DEF IInv
  <2> QED BY <1>1, <2>1
<1> QED BY <1>1, PipelineInvariance, PTL DEF Spec, OtherHostsUntouched

\* As long as pipelines do not overlap, the snapshot about to be recorded is
\* still in the repository.
OneAtATime == \A a, b \in Jobs : Running(a) /\ Running(b) => a = b
RecordingIsStored == \A j \in Jobs : pc[j] = "recording" => Current(j) \in repo
SerialInv == ~Parallel => OneAtATime /\ RecordingIsStored

LEMMA SerialStep ==
    ASSUME TypeOK, SerialInv, NEW j \in Jobs, JobStep(j)
    PROVE  SerialInv'
<1> SUFFICES ASSUME ~Parallel PROVE OneAtATime' /\ RecordingIsStored'
  BY DEF SerialInv
<1>1. OneAtATime /\ RecordingIsStored
  BY DEF SerialInv
<1>2. \A k \in Jobs \ {j} : pc'[k] = pc[k] /\ res'[k] = res[k]
  BY Frame
<1>3. CASE Begin(j)
  <2>1. (\A k \in Jobs : ~Running(k)) /\ pc'[j] = "resolving" /\ repo' = repo
    BY <1>3 DEF Begin, Goto, TypeOK, store
  <2> QED BY <1>2, <2>1 DEF OneAtATime, RecordingIsStored, Running, Ended
<1>4. CASE Step(j) \/ Expire(j) \/ Crash(j)
  <2>1. Running(j)
    BY <1>4 DEF Step, Expire, Crash, NothingDiscovered, Discover, StartBackup, Dumped,
         Checked, Stored, Confirmed, Recorded, RestoreTested, StageFails, StoreFails,
         RecordFails, Retain, RetainFails, Running, Ended
  <2>2. OneAtATime'
    BY <1>1, <1>2, <2>1 DEF OneAtATime, Running
  <2>3. \A k \in Jobs \ {j} : pc'[k] # "recording"
    BY <1>1, <1>2, <2>1 DEF OneAtATime, Running, Ended
  <2>4. pc'[j] = "recording" => Current(j)' \in repo'
    <3>1. CASE Expire(j)
      BY <1>1, <3>1 DEF Expire, RecordingIsStored, Current, loop, store
    <3>2. CASE Crash(j)
      BY <3>2 DEF Crash, Goto, TypeOK
    <3>3. CASE Confirmed(j)
      BY <3>3 DEF Confirmed, Current, loop, store
    <3>4. CASE NothingDiscovered(j) \/ Discover(j) \/ Dumped(j) \/ Checked(j) \/ Stored(j)
      BY <3>4 DEF NothingDiscovered, Discover, Dumped, Checked, Stored, Goto, TypeOK
    <3>5. CASE \E r \in Resources : StartBackup(j, r)
      BY <3>5 DEF StartBackup, Goto, TypeOK
    <3>6. CASE Recorded(j) \/ RestoreTested(j) \/ StageFails(j) \/ StoreFails(j)
               \/ RecordFails(j)
      BY <3>6 DEF Recorded, RestoreTested, StageFails, StoreFails, RecordFails, Settle,
                  Goto, TypeOK
    <3>7. CASE Retain(j) \/ RetainFails(j)
      BY <3>7 DEF Retain, RetainFails, Return, Goto, TypeOK
    <3> QED BY <1>4, <3>1, <3>2, <3>3, <3>4, <3>5, <3>6, <3>7 DEF Step
  <2> QED BY <2>2, <2>3, <2>4 DEF RecordingIsStored
<1> QED BY <1>3, <1>4 DEF JobStep

\* If pipelines do not overlap, no row is written for a snapshot that retention
\* has already removed.
THEOREM SerialRowsAreStored == ASSUME ~Parallel PROVE Spec => RecordedWhileStored
<1>1. Init => SerialInv
  BY DEF Init, SerialInv, OneAtATime, RecordingIsStored, Running
<1>2. ASSUME IInv, SerialInv, [Next]_vars PROVE SerialInv'
  <2>1. CASE Next
    BY <1>2, <2>1, SerialStep DEF Next, JobStep, IInv
  <2>2. CASE UNCHANGED vars
    BY <1>2, <2>2 DEF vars, SerialInv, OneAtATime, RecordingIsStored, Running, Current,
                      loop, store
  <2> QED BY <1>2, <2>1, <2>2
<1>3. ASSUME IInv, SerialInv, [Next]_vars PROVE [rows' \ rows \subseteq repo']_vars
  <2>1. CASE Next
    <3>1. PICK j \in Jobs : JobStep(j)
      BY <2>1 DEF Next, JobStep
    <3>2. CASE Recorded(j) \/ RecordFails(j)
      BY <1>3, <3>2 DEF Recorded, RecordFails, SerialInv, RecordingIsStored, store
    <3>3. CASE ~(Recorded(j) \/ RecordFails(j))
      <4>1. rows' = rows
        BY <3>1, <3>3 DEF JobStep, Step, Begin, NothingDiscovered, Discover, StartBackup,
             Dumped, Checked, Stored, Confirmed, RestoreTested, StageFails, StoreFails,
             Retain, RetainFails, Expire, Crash
      <4> QED BY <4>1
    <3> QED BY <3>2, <3>3
  <2> QED BY <1>3, <2>1
<1> QED BY <1>1, <1>2, <1>3, PipelineInvariance, PTL DEF Spec, RecordedWhileStored
=============================================================================
