---------------------------- MODULE DomainBulkJob ----------------------------
(***************************************************************************)
(* The asynchronous bulk domain upload:                                    *)
(* internal/services/domain_bulk_job_service.go, processBulkRow and        *)
(* issueBulkSSLBackground of domain_bulk_service.go.                       *)
(*                                                                         *)
(* One goroutine per job walks the rows of the sheet.  Each write to the   *)
(* job's row, each read of its cancel flag and each domain creation is a   *)
(* step; the operator's cancel, the 60-minute deadline of the worker's     *)
(* context, a restart of the process and its boot-time recovery interleave *)
(* with them.  Creating a domain is abstracted to its outcome.  Every call *)
(* to the database may be refused, whatever its context: the worker and    *)
(* the recovery discard the error and go on.                               *)
(***************************************************************************)
EXTENDS Integers, FiniteSets

CONSTANTS
  Jobs,        \* rows of domain_bulk_jobs
  NRows,       \* non-blank rows of each uploaded sheet
  MaxRestarts, \* bound on restarts of the process
  MaxFaults    \* bound on calls that the database refuses

ASSUME RowsAssumption == NRows \in Nat \ {0}
ASSUME RestartAssumption == MaxRestarts \in Nat
ASSUME FaultAssumption == MaxFaults \in Nat

Row == 1 .. NRows

VARIABLES
  status,          \* job row: status
  cancelRequested, \* job row: cancel_requested
  items,           \* job row: status of each item
  successes,       \* job row: successes
  failures,        \* job row: failures
  worker,          \* the goroutine: program counter, row, counters, SSL queue
  expired,         \* the worker's context passed its deadline
  sslPass,         \* rows the background SSL pass still has to issue
  created,         \* history: rows whose domain was created
  late,            \* history: rows started after the cancel was requested
  blind,           \* history: rows started on a failed read of the flag
  unmarked,        \* history: rows whose "creating" was not written
  unrecorded,      \* history: rows whose outcome was not written
  hanging,         \* history: dead jobs whose final write was refused
  recovering,      \* the boot-time recovery has not run yet
  restarts,        \* restarts so far
  faults           \* calls refused so far

row == <<status, cancelRequested, items, successes, failures>>
history == <<created, late, blind, unmarked, unrecorded, hanging>>
process == <<recovering, restarts>>
vars == <<row, worker, expired, sslPass, history, process, faults>>

Unfinished == {"queued", "running"}
Dead == [pc |-> "dead", i |-> 1, ok |-> 0, bad |-> 0, result |-> "none",
         queue |-> {}]

Live(j) == worker[j].pc # "dead"
AtPc(j, pc) == worker[j].pc = pc
Goto(j, pc) == worker' = [worker EXCEPT ![j].pc = pc]
Exit(j) == worker' = [worker EXCEPT ![j] = Dead]

Init ==
  /\ status = [j \in Jobs |-> "absent"]
  /\ cancelRequested = [j \in Jobs |-> FALSE]
  /\ items = [j \in Jobs |-> [i \in Row |-> "pending"]]
  /\ successes = [j \in Jobs |-> 0]
  /\ failures = [j \in Jobs |-> 0]
  /\ worker = [j \in Jobs |-> Dead]
  /\ expired = [j \in Jobs |-> FALSE]
  /\ sslPass = [j \in Jobs |-> {}]
  /\ created = [j \in Jobs |-> {}]
  /\ late = [j \in Jobs |-> {}]
  /\ blind = [j \in Jobs |-> {}]
  /\ unmarked = [j \in Jobs |-> {}]
  /\ unrecorded = [j \in Jobs |-> {}]
  /\ hanging = {}
  /\ recovering = FALSE
  /\ restarts = 0
  /\ faults = 0

-----------------------------------------------------------------------------
(* The worker                                                              *)

\* A call reaches the database, or is refused.
Reaches == UNCHANGED faults
Refused == faults < MaxFaults /\ faults' = faults + 1

Start(j) ==
  /\ status[j] = "absent"
  /\ status' = [status EXCEPT ![j] = "queued"]
  /\ Goto(j, "begin")
  /\ UNCHANGED <<cancelRequested, items, successes, failures, expired,
                 sslPass, history, process, faults>>

\* setJob writes with a context of its own, whatever became of the worker's.
SetJobOnWorkerCtx(j, s) ==
  status' = IF expired[j] THEN status ELSE [status EXCEPT ![j] = s]
SetJob(j, s) == status' = [status EXCEPT ![j] = s]

Begin(j) ==
  /\ AtPc(j, "begin")
  /\ \/ Reaches /\ SetJob(j, "running")
     \/ Refused /\ UNCHANGED status
  /\ Goto(j, "check")
  /\ UNCHANGED <<cancelRequested, items, successes, failures, expired,
                 sslPass, history, process>>

\* The flag is read on the worker's context.  A read that fails, refused or
\* past the deadline, counts as "not cancelled".
SeesCancelNever(j) == FALSE
SeesCancel(j) == cancelRequested[j]

CheckCancel(j) ==
  /\ AtPc(j, "check")
  /\ \/ /\ ~expired[j] /\ Reaches
        /\ Goto(j, IF SeesCancel(j) THEN "cancel" ELSE "mark")
        /\ UNCHANGED blind
     \/ /\ (expired[j] /\ Reaches) \/ Refused
        /\ Goto(j, "mark")
        /\ blind' = [blind EXCEPT ![j] = @ \cup {worker[j].i}]
  /\ UNCHANGED <<row, expired, sslPass, created, late, unmarked, unrecorded,
                 hanging, process>>

ItemMarked(j) == [items EXCEPT ![j][worker[j].i] = "creating"]

MarkCreating(j) ==
  LET i == worker[j].i IN
  /\ AtPc(j, "mark")
  /\ \/ Reaches /\ items' = ItemMarked(j) /\ UNCHANGED unmarked
     \/ /\ Refused
        /\ unmarked' = [unmarked EXCEPT ![j] = @ \cup {i}]
        /\ UNCHANGED items
  /\ Goto(j, "create")
  /\ late' = [late EXCEPT ![j] = IF cancelRequested[j] THEN @ \cup {i} ELSE @]
  /\ UNCHANGED <<status, cancelRequested, successes, failures, expired,
                 sslPass, created, blind, unrecorded, hanging, process>>

\* processBulkRow: refused, created with its SSL done or not wanted, or
\* created with its SSL queued.  An expired context creates nothing.
ProcessRow(j) ==
  LET i == worker[j].i IN
  /\ AtPc(j, "create")
  /\ \/ /\ worker' = [worker EXCEPT ![j].pc = "record", ![j].result = "failed"]
        /\ UNCHANGED created
     \/ /\ ~expired[j]
        /\ \E queue \in {worker[j].queue, worker[j].queue \cup {i}} :
             worker' = [worker EXCEPT ![j].pc = "record",
                                      ![j].result = "done",
                                      ![j].queue = queue]
        /\ created' = [created EXCEPT ![j] = @ \cup {i}]
  /\ UNCHANGED <<row, expired, sslPass, late, blind, unmarked, unrecorded,
                 hanging, process, faults>>

LastRowDropped(w) == w.i = NRows - 1
LastRow(w) == w.i = NRows

\* The counters are the goroutine's own, so a refused write is caught up by
\* the next one; the item it carried is not written again.
RecordRow(j) ==
  LET w == worker[j]
      ok == IF w.result = "done" THEN w.ok + 1 ELSE w.ok
      bad == IF w.result = "failed" THEN w.bad + 1 ELSE w.bad
  IN
  /\ AtPc(j, "record")
  /\ \/ /\ Reaches
        /\ items' = [items EXCEPT ![j][w.i] = w.result]
        /\ successes' = [successes EXCEPT ![j] = ok]
        /\ failures' = [failures EXCEPT ![j] = bad]
        /\ UNCHANGED unrecorded
     \/ /\ Refused
        /\ unrecorded' = [unrecorded EXCEPT ![j] = @ \cup {w.i}]
        /\ UNCHANGED <<items, successes, failures>>
  /\ worker' = [worker EXCEPT
       ![j] = [w EXCEPT !.pc = IF LastRow(w) THEN "ssl" ELSE "check",
                        !.i = IF LastRow(w) THEN @ ELSE @ + 1,
                        !.ok = ok, !.bad = bad, !.result = "none"]]
  /\ UNCHANGED <<status, cancelRequested, expired, sslPass, created, late,
                 blind, unmarked, hanging, process>>

\* After the loop only: the deferred SSL pass gets a goroutine of its own.
LaunchSslPass(j) ==
  /\ AtPc(j, "ssl")
  /\ sslPass' = [sslPass EXCEPT ![j] = worker[j].queue]
  /\ Goto(j, "complete")
  /\ UNCHANGED <<row, expired, history, process, faults>>

\* The goroutine ends whatever became of its final write.
Finish(j, pc, s) ==
  /\ AtPc(j, pc)
  /\ \/ Reaches /\ SetJob(j, s) /\ UNCHANGED hanging
     \/ Refused /\ hanging' = hanging \cup {j} /\ UNCHANGED status
  /\ Exit(j)
  /\ UNCHANGED <<cancelRequested, items, successes, failures, expired,
                 sslPass, created, late, blind, unmarked, unrecorded, process>>

Complete(j) == Finish(j, "complete", "completed")
StopCancelled(j) == Finish(j, "cancel", "cancelled")

\* issueBulkSSLBackground: one domain at a time, each tried whatever the
\* outcome of the one before.
IssueSsl(j) ==
  /\ sslPass[j] # {}
  /\ \E i \in sslPass[j] : sslPass' = [sslPass EXCEPT ![j] = @ \ {i}]
  /\ UNCHANGED <<row, worker, expired, history, process, faults>>

-----------------------------------------------------------------------------
(* The operator, the deadline and the process                              *)

Cancel(j) ==
  /\ status[j] # "absent"
  /\ cancelRequested' = [cancelRequested EXCEPT ![j] = TRUE]
  /\ UNCHANGED <<status, items, successes, failures, worker, expired,
                 sslPass, history, process, faults>>

Expire(j) ==
  /\ Live(j)
  /\ expired' = [expired EXCEPT ![j] = TRUE]
  /\ UNCHANGED <<row, worker, sslPass, history, process, faults>>

\* The next boot answers for the jobs that the last process left hanging.
Restart ==
  /\ restarts < MaxRestarts
  /\ restarts' = restarts + 1
  /\ worker' = [j \in Jobs |-> Dead]
  /\ sslPass' = [j \in Jobs |-> {}]
  /\ recovering' = TRUE
  /\ hanging' = {}
  /\ UNCHANGED <<row, expired, created, late, blind, unmarked, unrecorded,
                 faults>>

\* RecoverStaleBulkUploadJobsOnBoot runs in a goroutine of its own beside the
\* server that already accepts new jobs; its error is discarded too.
RecoverableAny(j) == status[j] # "absent"
Recoverable(j) == status[j] \in Unfinished

Recover ==
  /\ recovering
  /\ recovering' = FALSE
  /\ \/ /\ Reaches
        /\ status' = [j \in Jobs |->
                        IF Recoverable(j) THEN "failed" ELSE status[j]]
        /\ UNCHANGED hanging
     \/ /\ Refused
        /\ hanging' = hanging \cup {j \in Jobs : Recoverable(j) /\ ~Live(j)}
        /\ UNCHANGED status
  /\ UNCHANGED <<cancelRequested, items, successes, failures, worker,
                 expired, sslPass, created, late, blind, unmarked, unrecorded,
                 restarts>>

-----------------------------------------------------------------------------
Work(j) ==
  \/ Begin(j) \/ CheckCancel(j) \/ MarkCreating(j) \/ ProcessRow(j)
  \/ RecordRow(j) \/ LaunchSslPass(j) \/ Complete(j) \/ StopCancelled(j)

Next ==
  \/ \E j \in Jobs : Start(j) \/ Work(j) \/ IssueSsl(j) \/ Cancel(j)
                     \/ Expire(j)
  \/ Restart
  \/ Recover

\* The scheduler runs every goroutine, the recovery's included.
Fairness ==
  /\ \A j \in Jobs : WF_vars(Work(j)) /\ WF_vars(IssueSsl(j))
  /\ WF_vars(Recover)

Spec == Init /\ [][Next]_vars /\ Fairness

-----------------------------------------------------------------------------
Lifecycle == INSTANCE JobLifecycle
               WITH live <- [j \in Jobs |-> Live(j)]

Pc == {"dead", "begin", "check", "mark", "create", "record", "ssl",
       "complete", "cancel"}

\* Every variable has its type.
TypeOK ==
  /\ status \in [Jobs -> Lifecycle!Status]
  /\ cancelRequested \in [Jobs -> BOOLEAN]
  /\ items \in [Jobs -> [Row -> {"pending", "creating", "done", "failed"}]]
  /\ successes \in [Jobs -> Nat]
  /\ failures \in [Jobs -> Nat]
  /\ worker \in [Jobs -> [pc : Pc, i : Row, ok : Nat, bad : Nat,
                          result : {"none", "done", "failed"},
                          queue : SUBSET Row]]
  /\ expired \in [Jobs -> BOOLEAN]
  /\ sslPass \in [Jobs -> SUBSET Row]
  /\ created \in [Jobs -> SUBSET Row]
  /\ late \in [Jobs -> SUBSET Row]
  /\ blind \in [Jobs -> SUBSET Row]
  /\ unmarked \in [Jobs -> SUBSET Row]
  /\ unrecorded \in [Jobs -> SUBSET Row]
  /\ hanging \subseteq Jobs
  /\ recovering \in BOOLEAN
  /\ restarts \in 0 .. MaxRestarts
  /\ faults \in 0 .. MaxFaults

CountOf(j, s) == Cardinality({i \in Row : items[j][i] = s})

\* A cancel is never lost: once it is requested, at most the row whose check
\* had already passed is still started, besides those whose read of the flag
\* failed.
CancelStopsWork ==
  \A j \in Jobs : Cardinality(late[j] \ blind[j]) <= 1

\* What a poller reads never claims more domains than were created, and adds
\* up exactly as long as no outcome's write was refused.
RowAddsUp(j) ==
  /\ CountOf(j, "done") <= successes[j]
  /\ successes[j] <= Cardinality(created[j])
  /\ unrecorded[j] = {} => /\ successes[j] = CountOf(j, "done")
                           /\ failures[j] = CountOf(j, "failed")

\* A completed job's counters are exact whatever was refused on the way, its
\* last outcome excepted; no finished job shows an item still being created
\* except one whose outcome could not be written.
FinishedExact(j) ==
  /\ status[j] = "completed" /\ NRows \notin unrecorded[j] =>
       /\ successes[j] = Cardinality(created[j])
       /\ successes[j] + failures[j] = NRows
  /\ status[j] \in {"completed", "cancelled"} =>
       \A i \in Row : items[j][i] = "creating" => i \in unrecorded[j]

\* The row accounts for every domain, whenever a poller reads it and when the
\* job is finished.
FinishedRowAddsUp == \A j \in Jobs : RowAddsUp(j) /\ FinishedExact(j)

\* No domain is created behind the row's back: a created domain's item says
\* done, or creating when the process stopped in between, unless neither the
\* mark nor, if it came to that, the outcome could be written.
CreatedIsShown ==
  \A j \in Jobs : \A i \in created[j] :
    items[j][i] \in {"done", "creating"} \/ i \in unmarked[j]

\* Every job that is submitted settles, through cancels, an expired context
\* and restarts (the reason setJob does not use the worker's context).  A job
\* whose final write the database refused waits for the next boot, which
\* settles it unless the recovery's own write is refused.
EverySubmittedSettles ==
  \A j \in Jobs : (status[j] # "absent") ~> (Lifecycle!Settled(j) \/ j \in hanging)

\* The upload job keeps the lifecycle's promise.
ImplementsLifecycle == Lifecycle!SafeSpec
=============================================================================
