----------------------------- MODULE SslBulkJob -----------------------------
(***************************************************************************)
(* Bulk certificate issuance: internal/services/ssl_bulk_job_service.go.   *)
(*                                                                         *)
(* One goroutine per job issues one certificate after another.  Unlike the *)
(* bulk upload it writes progress on the worker's context, which has a     *)
(* deadline, and only the final write on one of its own; and its boot-time *)
(* recovery fails only rows not written to for a cutoff, so the module     *)
(* keeps a clock.  Issuing is abstracted to its outcome.  The database may *)
(* refuse a call on the worker's context MaxFaults times.                  *)
(***************************************************************************)
EXTENDS Integers, FiniteSets

CONSTANTS
  Jobs,        \* rows of ssl_bulk_jobs
  NDomains,    \* de-duplicated domains of each job
  Cutoff,      \* staleRunningCutoff
  MaxNow,      \* bound on the logical clock
  MaxRestarts, \* bound on restarts of the process
  MaxFaults    \* bound on refused database calls

ASSUME DomainsAssumption == NDomains \in Nat \ {0}
ASSUME BoundsAssumption ==
  /\ Cutoff \in Nat \ {0} /\ MaxNow \in Nat
  /\ MaxRestarts \in Nat /\ MaxFaults \in Nat

Domain == 1 .. NDomains

VARIABLES
  now,             \* time.Now()
  status,          \* job row: status
  cancelRequested, \* job row: cancel_requested
  updatedAt,       \* job row: updated_at
  items,           \* job row: outcome of each item
  success,         \* job row: success
  failed,          \* job row: failed
  worker,          \* the goroutine: program counter, domain, counters
  cancelling,      \* cancel requests that have read the row
  expired,         \* the worker's context passed its deadline
  issued,          \* history: domains a certificate was issued for
  late,            \* history: domains started after the cancel was requested
  recovering,      \* the boot-time recovery has not run yet
  restarts,
  faults

row == <<status, cancelRequested, updatedAt, items, success, failed>>
env == <<now, recovering, restarts>>
vars == <<row, worker, cancelling, expired, issued, late, faults, env>>

Unfinished == {"queued", "running"}
Dead == [pc |-> "dead", i |-> 1, ok |-> 0, bad |-> 0, result |-> "none"]

Live(j) == worker[j].pc # "dead"
AtPc(j, pc) == worker[j].pc = pc
Goto(j, pc) == worker' = [worker EXCEPT ![j].pc = pc]

Init ==
  /\ now = 0
  /\ status = [j \in Jobs |-> "absent"]
  /\ cancelRequested = [j \in Jobs |-> FALSE]
  /\ updatedAt = [j \in Jobs |-> 0]
  /\ items = [j \in Jobs |-> [i \in Domain |-> "none"]]
  /\ success = [j \in Jobs |-> 0]
  /\ failed = [j \in Jobs |-> 0]
  /\ worker = [j \in Jobs |-> Dead]
  /\ cancelling = {}
  /\ expired = [j \in Jobs |-> FALSE]
  /\ issued = [j \in Jobs |-> {}]
  /\ late = [j \in Jobs |-> {}]
  /\ recovering = FALSE
  /\ restarts = 0
  /\ faults = 0

-----------------------------------------------------------------------------
(* The worker                                                              *)

\* A call on the worker's context succeeds, or the database refuses it.
Refused == faults < MaxFaults /\ faults' = faults + 1
CallSucceeds(j) == ~expired[j] /\ UNCHANGED faults
CallFails(j) == (expired[j] /\ UNCHANGED faults) \/ Refused

Start(j) ==
  /\ status[j] = "absent"
  /\ status' = [status EXCEPT ![j] = "queued"]
  /\ updatedAt' = [updatedAt EXCEPT ![j] = now]
  /\ Goto(j, "begin")
  /\ UNCHANGED <<cancelRequested, items, success, failed, cancelling, expired,
                 issued, late, faults, env>>

\* If the row cannot be marked running the goroutine gives up.
Begin(j) ==
  /\ AtPc(j, "begin")
  /\ \/ /\ CallSucceeds(j)
        /\ status' = [status EXCEPT ![j] = "running"]
        /\ updatedAt' = [updatedAt EXCEPT ![j] = now]
        /\ Goto(j, "check")
     \/ /\ CallFails(j)
        /\ worker' = [worker EXCEPT ![j] = Dead]
        /\ UNCHANGED <<status, updatedAt>>
  /\ UNCHANGED <<cancelRequested, items, success, failed, cancelling, expired,
                 issued, late, env>>

\* A failed read of the flag counts as "not cancelled".
CancelSeen(j) == cancelRequested[j]

CheckCancel(j) ==
  /\ AtPc(j, "check")
  /\ \/ CallSucceeds(j) /\ Goto(j, IF CancelSeen(j) THEN "cancel" ELSE "stamp")
     \/ CallFails(j) /\ Goto(j, "stamp")
  /\ UNCHANGED <<row, cancelling, expired, issued, late, env>>

\* Stamp current_domain; this is also the row's heartbeat.
StampDomain(j) ==
  /\ AtPc(j, "stamp")
  /\ \/ /\ CallSucceeds(j)
        /\ updatedAt' = [updatedAt EXCEPT ![j] = now]
     \/ CallFails(j) /\ UNCHANGED updatedAt
  /\ late' = [late EXCEPT ![j] =
       IF cancelRequested[j] /\ ~expired[j] THEN @ \cup {worker[j].i} ELSE @]
  /\ Goto(j, "issue")
  /\ UNCHANGED <<status, cancelRequested, items, success, failed, cancelling,
                 expired, issued, env>>

\* The tenant gate and IssueLetsEncrypt; an expired context issues nothing.
IssueCert(j) ==
  LET w == worker[j] IN
  /\ AtPc(j, "issue")
  /\ \/ /\ worker' = [worker EXCEPT
             ![j] = [w EXCEPT !.pc = "record", !.result = "failed",
                              !.bad = @ + 1]]
        /\ UNCHANGED issued
     \/ /\ ~expired[j]
        /\ worker' = [worker EXCEPT
             ![j] = [w EXCEPT !.pc = "record", !.result = "issued",
                              !.ok = @ + 1]]
        /\ issued' = [issued EXCEPT ![j] = @ \cup {w.i}]
  /\ UNCHANGED <<row, cancelling, expired, late, faults, env>>

LastDomain(w) == w.i = NDomains

\* writeBulkRowOutcome: a failed write is logged and the loop goes on.
RecordOutcome(j) ==
  LET w == worker[j] IN
  /\ AtPc(j, "record")
  /\ \/ /\ CallSucceeds(j)
        /\ items' = [items EXCEPT ![j][w.i] = w.result]
        /\ success' = [success EXCEPT ![j] = w.ok]
        /\ failed' = [failed EXCEPT ![j] = w.bad]
        /\ updatedAt' = [updatedAt EXCEPT ![j] = now]
     \/ CallFails(j) /\ UNCHANGED <<items, success, failed, updatedAt>>
  /\ worker' = [worker EXCEPT
       ![j] = [w EXCEPT !.pc = IF LastDomain(w) THEN "complete" ELSE "check",
                        !.i = IF LastDomain(w) THEN @ ELSE @ + 1,
                        !.result = "none"]]
  /\ UNCHANGED <<status, cancelRequested, cancelling, expired, issued, late,
                 env>>

\* finaliseBulkJob writes the goroutine's counters on a context of its own.
FinaliseStatusOnly(j, s) ==
  /\ status' = [status EXCEPT ![j] = s]
  /\ UNCHANGED <<success, failed>>
FinaliseOnWorkerCtx(j, s) ==
  /\ status' = IF expired[j] THEN status ELSE [status EXCEPT ![j] = s]
  /\ success' = [success EXCEPT ![j] = worker[j].ok]
  /\ failed' = [failed EXCEPT ![j] = worker[j].bad]
Finalise(j, s) ==
  /\ status' = [status EXCEPT ![j] = s]
  /\ success' = [success EXCEPT ![j] = worker[j].ok]
  /\ failed' = [failed EXCEPT ![j] = worker[j].bad]

Finish(j, pc, s) ==
  /\ AtPc(j, pc)
  /\ Finalise(j, s)
  /\ updatedAt' = [updatedAt EXCEPT ![j] = now]
  /\ worker' = [worker EXCEPT ![j] = Dead]
  /\ UNCHANGED <<cancelRequested, items, cancelling, expired, issued, late,
                 faults, env>>

Complete(j) == Finish(j, "complete", "completed")
StopCancelled(j) == Finish(j, "cancel", "cancelled")

\* A panic while issuing is recovered: markBulkJobFailed keeps the counters.
Panic(j) ==
  /\ AtPc(j, "issue")
  /\ status' = [status EXCEPT ![j] = "failed"]
  /\ updatedAt' = [updatedAt EXCEPT ![j] = now]
  /\ worker' = [worker EXCEPT ![j] = Dead]
  /\ UNCHANGED <<cancelRequested, items, success, failed, cancelling, expired,
                 issued, late, faults, env>>

-----------------------------------------------------------------------------
(* The operator, time and the process                                      *)

\* CancelBulkIssueJob reads the row, then sets the flag unconditionally.
ReadForCancel(j) ==
  /\ status[j] \in Unfinished
  /\ cancelling' = cancelling \cup {j}
  /\ UNCHANGED <<row, worker, expired, issued, late, faults, env>>

RequestCancel(j) ==
  /\ j \in cancelling
  /\ cancelling' = cancelling \ {j}
  /\ cancelRequested' = [cancelRequested EXCEPT ![j] = TRUE]
  /\ updatedAt' = [updatedAt EXCEPT ![j] = now]
  /\ UNCHANGED <<status, items, success, failed, worker, expired, issued,
                 late, faults, env>>

\* The deadline (45 minutes) is far away when the goroutine starts.
Expire(j) ==
  /\ Live(j) /\ ~AtPc(j, "begin")
  /\ expired' = [expired EXCEPT ![j] = TRUE]
  /\ UNCHANGED <<row, worker, cancelling, issued, late, faults, env>>

\* The recovery is over within 30 seconds of a boot, so the clock, whose unit
\* is minutes, waits for it.
Tick ==
  /\ now < MaxNow
  /\ ~recovering
  /\ now' = now + 1
  /\ UNCHANGED <<row, worker, cancelling, expired, issued, late, faults,
                 recovering, restarts>>

Restart ==
  /\ restarts < MaxRestarts
  /\ restarts' = restarts + 1
  /\ worker' = [j \in Jobs |-> Dead]
  /\ cancelling' = {}
  /\ recovering' = TRUE
  /\ UNCHANGED <<row, expired, issued, late, faults, now>>

\* RecoverStaleRunningJobs, once per boot.
StaleAny(j) == status[j] \in Unfinished
Stale(j) == status[j] \in Unfinished /\ updatedAt[j] < now - Cutoff

Recover ==
  /\ recovering
  /\ recovering' = FALSE
  /\ status' = [j \in Jobs |-> IF Stale(j) THEN "failed" ELSE status[j]]
  /\ updatedAt' = [j \in Jobs |-> IF Stale(j) THEN now ELSE updatedAt[j]]
  /\ UNCHANGED <<cancelRequested, items, success, failed, worker, cancelling,
                 expired, issued, late, faults, now, restarts>>

-----------------------------------------------------------------------------
Work(j) ==
  \/ Begin(j) \/ CheckCancel(j) \/ StampDomain(j) \/ IssueCert(j)
  \/ RecordOutcome(j) \/ Complete(j) \/ StopCancelled(j) \/ Panic(j)

Next ==
  \/ \E j \in Jobs : \/ Start(j) \/ Work(j) \/ Expire(j)
                     \/ ReadForCancel(j) \/ RequestCancel(j)
  \/ Tick
  \/ Restart
  \/ Recover

\* The scheduler runs the workers and the recovery; no cancel is owed.
Fairness == WF_vars(Recover) /\ \A j \in Jobs : WF_vars(Work(j))

Spec == Init /\ [][Next]_vars /\ Fairness

-----------------------------------------------------------------------------
Lifecycle == INSTANCE JobLifecycle
               WITH live <- [j \in Jobs |-> Live(j)]

Pc == {"dead", "begin", "check", "stamp", "issue", "record", "complete",
       "cancel"}

\* Every variable has its type.
TypeOK ==
  /\ now \in 0 .. MaxNow
  /\ status \in [Jobs -> Lifecycle!Status]
  /\ cancelRequested \in [Jobs -> BOOLEAN]
  /\ updatedAt \in [Jobs -> 0 .. MaxNow]
  /\ items \in [Jobs -> [Domain -> {"none", "issued", "failed"}]]
  /\ success \in [Jobs -> Nat]
  /\ failed \in [Jobs -> Nat]
  /\ worker \in [Jobs -> [pc : Pc, i : Domain, ok : Nat, bad : Nat,
                          result : {"none", "issued", "failed"}]]
  /\ cancelling \subseteq Jobs
  /\ expired \in [Jobs -> BOOLEAN]
  /\ issued \in [Jobs -> SUBSET Domain]
  /\ late \in [Jobs -> SUBSET Domain]
  /\ recovering \in BOOLEAN
  /\ restarts \in 0 .. MaxRestarts
  /\ faults \in 0 .. MaxFaults

\* Once a cancel is requested at most one domain whose check had passed is
\* still started, plus one per failed read of the flag.
CancelStopsWork == \A j \in Jobs : Cardinality(late[j]) <= 1 + faults

\* The final counters tell the truth whatever progress writes were lost to a
\* refused call or an expired context.
FinalCountersExact ==
  \A j \in Jobs : status[j] \in {"completed", "cancelled"} =>
    /\ success[j] = Cardinality(issued[j])
    /\ status[j] = "completed" => success[j] + failed[j] = NDomains

\* The row of the job is right: a cancel it shows is obeyed, and its final
\* counters are the certificates issued.
RowIsTrue == FinalCountersExact /\ CancelStopsWork

\* The cutoff keeps the recovery, which runs beside the server that accepts
\* new jobs, from failing a job whose goroutine is alive.
RecoverySparesLive ==
  [][\A j \in Jobs : Live(j) /\ Live(j)' /\ status'[j] = "failed"
                       => status[j] = "failed"]_vars

\* The job keeps the lifecycle's promise.
ImplementsLifecycle == Lifecycle!SafeSpec

\* Every submitted job settles, its deadline passed or not, unless it was cut
\* off by a restart or a refused call.
SettlesUnlessCutOff ==
  \A j \in Jobs : (status[j] # "absent")
                    ~> (Lifecycle!Settled(j) \/ restarts > 0 \/ faults > 0)
=============================================================================
