------------------------------ MODULE CfSyncJob ------------------------------
(***************************************************************************)
(* The Cloudflare sync job engine:                                         *)
(* internal/services/cloudflare_sync_job_service.go.                       *)
(*                                                                         *)
(* The goroutine keeps the whole job in memory and persists a copy of its  *)
(* own fields, status included, after every change; cancel_requested is    *)
(* the one field it never writes.  Every call it makes, to the database or *)
(* to Cloudflare, is on one context with a deadline, and past the deadline *)
(* fails without effect; before it the database may refuse any call, and   *)
(* the error is discarded.  Reconciling a domain is abstracted to its      *)
(* outcome (module CfRecordSync looks inside).                              *)
(***************************************************************************)
EXTENDS Integers, FiniteSets

CONSTANTS
  Jobs,        \* rows of cloudflare_sync_jobs
  MaxDomains,  \* most domains a job covers
  MaxRestarts, \* bound on restarts of the process
  MaxRefused   \* bound on calls that the database refuses

ASSUME DomainsAssumption == MaxDomains \in Nat
ASSUME RestartAssumption == MaxRestarts \in Nat
ASSUME RefusedAssumption == MaxRefused \in Nat

VARIABLES
  status,          \* job row: status
  cancelRequested, \* job row: cancel_requested
  items,           \* job row: status of each item
  failed,          \* job row: failed
  job,             \* the goroutine's copy of the job
  pc,              \* the goroutine's program counter
  at,              \* the item it is at
  expired,         \* its context passed the deadline
  late,            \* history: items reconciled after the cancel was requested
  blind,           \* history: items started on a failed read of the flag
  hanging,         \* history: dead jobs whose load or final write failed
  recovering,      \* the boot-time recovery has not run yet
  restarts,        \* restarts so far
  refused          \* calls refused so far

row == <<status, cancelRequested, items, failed>>
env == <<recovering, restarts>>
vars == <<row, job, pc, at, expired, late, blind, hanging, env, refused>>

Unfinished == {"queued", "running"}
ItemStatus == {"pending", "running", "done", "skipped", "failed"}
ItemLists == UNION {[1 .. n -> ItemStatus] : n \in 0 .. MaxDomains}
NoJob == [status |-> "queued", items |-> << >>, failed |-> 0]

Live(j) == pc[j] # "dead"
Total(j) == Cardinality(DOMAIN job[j].items)
Goto(j, l) == pc' = [pc EXCEPT ![j] = l]

Init ==
  /\ status = [j \in Jobs |-> "absent"]
  /\ cancelRequested = [j \in Jobs |-> FALSE]
  /\ items = [j \in Jobs |-> << >>]
  /\ failed = [j \in Jobs |-> 0]
  /\ job = [j \in Jobs |-> NoJob]
  /\ pc = [j \in Jobs |-> "dead"]
  /\ at = [j \in Jobs |-> 1]
  /\ expired = [j \in Jobs |-> FALSE]
  /\ late = [j \in Jobs |-> {}]
  /\ blind = [j \in Jobs |-> {}]
  /\ hanging = {}
  /\ recovering = FALSE
  /\ restarts = 0
  /\ refused = 0

-----------------------------------------------------------------------------
(* The goroutine                                                           *)

\* newJob and insertAndRun; a sync of every connected domain may find none.
Start(j) ==
  /\ status[j] = "absent"
  /\ \E n \in 0 .. MaxDomains :
       LET pending == [i \in 1 .. n |-> "pending"] IN
       /\ items' = [items EXCEPT ![j] = pending]
       /\ job' = [job EXCEPT ![j] = [NoJob EXCEPT !.items = pending]]
  /\ status' = [status EXCEPT ![j] = "queued"]
  /\ Goto(j, "begin")
  /\ UNCHANGED <<cancelRequested, failed, at, expired, late, blind, hanging,
                 env, refused>>

\* A call on the run's context succeeds, or it fails: past the deadline, or
\* refused by the database.
Refused == refused < MaxRefused /\ refused' = refused + 1
Succeeds(j) == ~expired[j] /\ UNCHANGED refused
Fails(j) == (expired[j] /\ UNCHANGED refused) \/ Refused

\* The row becomes the goroutine's copy q, every field but the cancel flag.
PersistWholeDoc(j, q) ==
  /\ status' = [status EXCEPT ![j] = q.status]
  /\ items' = [items EXCEPT ![j] = q.items]
  /\ failed' = [failed EXCEPT ![j] = q.failed]
  /\ cancelRequested' = [cancelRequested EXCEPT ![j] = FALSE]
Persist(j, q) ==
  /\ status' = [status EXCEPT ![j] = q.status]
  /\ items' = [items EXCEPT ![j] = q.items]
  /\ failed' = [failed EXCEPT ![j] = q.failed]
  /\ UNCHANGED cancelRequested

\* The goroutine's copy becomes q; whether the row follows it never learns.
Saves(j, q) ==
  /\ job' = [job EXCEPT ![j] = q]
  /\ \/ Succeeds(j) /\ Persist(j, q)
     \/ Fails(j) /\ UNCHANGED row

\* Load the row; an error ends the goroutine.
Begin(j) ==
  /\ pc[j] = "begin"
  /\ \/ Succeeds(j) /\ Goto(j, "mark") /\ UNCHANGED hanging
     \/ Fails(j) /\ Goto(j, "dead") /\ hanging' = hanging \cup {j}
  /\ UNCHANGED <<row, job, at, expired, late, blind, env>>

MarkRunning(j) ==
  /\ pc[j] = "mark"
  /\ Saves(j, [job[j] EXCEPT !.status = "running"])
  /\ Goto(j, "provider")
  /\ UNCHANGED <<at, expired, late, blind, hanging, env>>

\* The last write: the goroutine ends whatever became of it.
Finish(j, s) ==
  LET q == [job[j] EXCEPT !.status = s] IN
  /\ job' = [job EXCEPT ![j] = q]
  /\ \/ Succeeds(j) /\ Persist(j, q) /\ UNCHANGED hanging
     \/ Fails(j) /\ hanging' = hanging \cup {j} /\ UNCHANGED row
  /\ Goto(j, "dead")
  /\ UNCHANGED <<at, expired, late, blind, env>>

Provider(j) ==
  /\ pc[j] = "provider"
  /\ \/ Finish(j, "failed")
     \/ ~expired[j] /\ Goto(j, "check")
        /\ UNCHANGED <<row, job, at, expired, late, blind, hanging, env, refused>>

AllDone(j) == at[j] > Total(j)

\* isCancelled: a read that fails, for whatever reason, counts as "not
\* cancelled".
IsCancelled(j) == cancelRequested[j]

CheckCancel(j) ==
  /\ pc[j] = "check" /\ ~AllDone(j)
  /\ \/ /\ Succeeds(j)
        /\ Goto(j, IF IsCancelled(j) THEN "cancel" ELSE "start")
        /\ UNCHANGED blind
     \/ /\ Fails(j)
        /\ Goto(j, "start")
        /\ blind' = [blind EXCEPT ![j] = @ \cup {at[j]}]
  /\ UNCHANGED <<row, job, at, expired, late, hanging, env>>

StopCancelled(j) == pc[j] = "cancel" /\ Finish(j, "cancelled")

StartItem(j) ==
  /\ pc[j] = "start"
  /\ Saves(j, [job[j] EXCEPT !.items[at[j]] = "running"])
  /\ Goto(j, "reconcile")
  /\ late' = [late EXCEPT ![j] =
                IF cancelRequested[j] THEN @ \cup {at[j]} ELSE @]
  /\ UNCHANGED <<at, expired, blind, hanging, env>>

FailedBy(outcome) == IF outcome = "failed" THEN 1 ELSE 0

\* reconcileDomain, then the write of the item's outcome.  On an expired
\* context every call inside it errs: the domain fails, or reads as disabled.
ReconcileItem(j) ==
  /\ pc[j] = "reconcile"
  /\ \E outcome \in {"done", "skipped", "failed"} :
       /\ expired[j] => outcome # "done"
       /\ Saves(j, [job[j] EXCEPT
            !.items[at[j]] = outcome,
            !.failed = @ + FailedBy(outcome)])
  /\ at' = [at EXCEPT ![j] = @ + 1]
  /\ Goto(j, "check")
  /\ UNCHANGED <<expired, late, blind, hanging, env>>

FinalStatus(j) ==
  IF job[j].failed > 0 /\ job[j].failed = Total(j) THEN "failed"
                                                    ELSE "completed"

Complete(j) ==
  /\ pc[j] = "check" /\ AllDone(j)
  /\ Finish(j, FinalStatus(j))

-----------------------------------------------------------------------------
(* The operator, the deadline and the process                              *)

CancelSyncJob(j) ==
  /\ status[j] \in Unfinished
  /\ cancelRequested' = [cancelRequested EXCEPT ![j] = TRUE]
  /\ UNCHANGED <<status, items, failed, job, pc, at, expired, late, blind,
                 hanging, env, refused>>

Expire(j) ==
  /\ Live(j)
  /\ expired' = [expired EXCEPT ![j] = TRUE]
  /\ UNCHANGED <<row, job, pc, at, late, blind, hanging, env, refused>>

\* The next boot answers for the jobs that the last process left hanging.
Restart ==
  /\ restarts < MaxRestarts
  /\ restarts' = restarts + 1
  /\ recovering' = TRUE
  /\ pc' = [j \in Jobs |-> "dead"]
  /\ hanging' = {}
  /\ UNCHANGED <<row, job, at, expired, late, blind, refused>>

\* RecoverStaleOnBoot, beside the server that already accepts new jobs; its
\* error is discarded too.
RecoverableRunning(j) == status[j] = "running"
Recoverable(j) == status[j] \in Unfinished

Recover ==
  /\ recovering
  /\ recovering' = FALSE
  /\ \/ /\ status' = [j \in Jobs |->
                        IF Recoverable(j) THEN "failed" ELSE status[j]]
        /\ UNCHANGED <<hanging, refused>>
     \/ /\ Refused
        /\ hanging' = hanging \cup {j \in Jobs : Recoverable(j) /\ ~Live(j)}
        /\ UNCHANGED status
  /\ UNCHANGED <<cancelRequested, items, failed, job, pc, at, expired, late,
                 blind, restarts>>

-----------------------------------------------------------------------------
Work(j) ==
  \/ Begin(j) \/ MarkRunning(j) \/ Provider(j) \/ CheckCancel(j)
  \/ StopCancelled(j) \/ StartItem(j) \/ ReconcileItem(j) \/ Complete(j)

Next ==
  \/ \E j \in Jobs : Start(j) \/ Work(j) \/ CancelSyncJob(j) \/ Expire(j)
  \/ Restart
  \/ Recover

\* The scheduler runs the goroutines and the recovery.
Fairness == WF_vars(Recover) /\ \A j \in Jobs : WF_vars(Work(j))

Spec == Init /\ [][Next]_vars /\ Fairness

-----------------------------------------------------------------------------
Lifecycle == INSTANCE JobLifecycle
               WITH live <- [j \in Jobs |-> Live(j)]

\* Every variable has its type.
TypeOK ==
  /\ status \in [Jobs -> Lifecycle!Status]
  /\ cancelRequested \in [Jobs -> BOOLEAN]
  /\ items \in [Jobs -> ItemLists]
  /\ failed \in [Jobs -> 0 .. MaxDomains]
  /\ job \in [Jobs -> [status : Lifecycle!Status, items : ItemLists,
                       failed : 0 .. MaxDomains]]
  /\ pc \in [Jobs -> {"dead", "begin", "mark", "provider", "check", "cancel",
                      "start", "reconcile"}]
  /\ at \in [Jobs -> 1 .. MaxDomains + 1]
  /\ expired \in [Jobs -> BOOLEAN]
  /\ late \in [Jobs -> SUBSET (1 .. MaxDomains)]
  /\ blind \in [Jobs -> SUBSET (1 .. MaxDomains)]
  /\ hanging \subseteq Jobs
  /\ recovering \in BOOLEAN
  /\ restarts \in 0 .. MaxRestarts
  /\ refused \in 0 .. MaxRefused

\* persist leaves cancel_requested out so that a cancel arriving while a
\* domain is being synced is not lost: at most the item whose check had
\* passed is still synced, besides those whose read of the flag failed.
CancelStopsWork == \A j \in Jobs : Cardinality(late[j] \ blind[j]) <= 1

ItemsAt(j, s) == {i \in DOMAIN items[j] : items[j][i] = s}

\* What a poller reads adds up at every moment: the failure counter is the
\* number of failed items, a completed job left no item behind and did not
\* fail on every one, and an ended job that was not cut off by a restart
\* shows no item still running.
PolledRowAddsUp ==
  \A j \in Jobs :
    /\ failed[j] = Cardinality(ItemsAt(j, "failed"))
    /\ status[j] = "completed" =>
         /\ ItemsAt(j, "pending") = {}
         /\ DOMAIN items[j] # {} => ItemsAt(j, "failed") # DOMAIN items[j]
    /\ status[j] = "failed" /\ restarts = 0 =>
         \/ ItemsAt(j, "pending") = DOMAIN items[j]
         \/ ItemsAt(j, "failed") = DOMAIN items[j]
    /\ status[j] \in {"completed", "cancelled"} => ItemsAt(j, "running") = {}

\* The row persist writes whole, and a poller reads, is right at every moment:
\* it adds up, and a cancel it shows is obeyed.
RowIsTrue == PolledRowAddsUp /\ CancelStopsWork

\* Every job settles, restarts included.  One whose load or final write failed,
\* refused or past the deadline, waits for the next boot, which settles it
\* unless the recovery's own write is refused.
EverySyncSettles ==
  \A j \in Jobs : (status[j] # "absent") ~> (Lifecycle!Settled(j) \/ j \in hanging)
=============================================================================
