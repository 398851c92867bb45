------------------------------- MODULE JobLedger -------------------------------
(***************************************************************************)
(* What the jobs table promises its readers, whatever the processes that   *)
(* write it do: a backup job is submitted once, claimed at most once, its  *)
(* pipeline runs at most once, and once the row says completed or failed   *)
(* it never says anything else.  "completed" is only ever written for a    *)
(* pipeline that returned without an error; "failed" may also mean that    *)
(* the outcome was lost with the process that knew it.                     *)
(***************************************************************************)
CONSTANT Jobs

VARIABLES
    ledger,  \* ledger[j]: the status column of job j's row, "absent" if no row
    work     \* work[j]: what became of j's backup pipeline

ledgerVars == <<ledger, work>>

\* core.JobStatus, and "absent" for a job nobody has submitted.
Terminal == {"completed", "failed"}
JobStatus == {"absent", "queued", "in_progress"} \cup Terminal

\* A pipeline is never run, running, ended with or without an error, or
\* lost with the process that ran it.
WorkStates == {"none", "running", "succeeded", "broke", "lost"}

LedgerTypeOK ==
    /\ ledger \in [Jobs -> JobStatus]
    /\ work \in [Jobs -> WorkStates]

LedgerInit ==
    /\ ledger = [j \in Jobs |-> "absent"]
    /\ work = [j \in Jobs |-> "none"]

\* Somebody asks for a backup.
Submit(j) ==
    /\ ledger[j] = "absent"
    /\ ledger' = [ledger EXCEPT ![j] = "queued"]
    /\ UNCHANGED work

\* The job leaves the queue.  Its pipeline starts now or never: a claim whose
\* acknowledgement is lost leaves an in_progress row that nobody works on.
Claim(j) ==
    /\ ledger[j] = "queued"
    /\ work[j] = "none"
    /\ ledger' = [ledger EXCEPT ![j] = "in_progress"]
    /\ \/ work' = [work EXCEPT ![j] = "running"]
       \/ UNCHANGED work

\* The pipeline returns.
Return(j) ==
    /\ ledger[j] = "in_progress"
    /\ work[j] = "running"
    /\ \E w \in {"succeeded", "broke"} : work' = [work EXCEPT ![j] = w]
    /\ UNCHANGED ledger

\* The process dies, and the pipelines it ran die with it.
Lose(S) ==
    /\ S # {}
    /\ \A j \in S : work[j] = "running"
    /\ work' = [j \in Jobs |-> IF j \in S THEN "lost" ELSE work[j]]
    /\ UNCHANGED ledger

\* The outcome of a pipeline that returned is written down.
Record(j) ==
    /\ ledger[j] = "in_progress"
    /\ \/ work[j] = "succeeded" /\ ledger' = [ledger EXCEPT ![j] = "completed"]
       \/ work[j] = "broke" /\ ledger' = [ledger EXCEPT ![j] = "failed"]
    /\ UNCHANGED work

\* Jobs that are in_progress with nobody working on them are given up.
Abandon(S) ==
    /\ S # {}
    /\ \A j \in S : ledger[j] = "in_progress" /\ work[j] # "running"
    /\ ledger' = [j \in Jobs |-> IF j \in S THEN "failed" ELSE ledger[j]]
    /\ UNCHANGED work

LedgerNext ==
    \/ \E j \in Jobs : Submit(j) \/ Claim(j) \/ Return(j) \/ Record(j)
    \/ \E S \in SUBSET Jobs : Lose(S) \/ Abandon(S)

LedgerSpec == LedgerInit /\ [][LedgerNext]_ledgerVars
=============================================================================
