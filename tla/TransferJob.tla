----------------------------- MODULE TransferJob -----------------------------
(***************************************************************************)
(* Server-to-server transfers: internal/services/transfer_service.go, its  *)
(* mail suite step in transfer_mailsuite.go and the resume at boot in      *)
(* cmd/server/main.go.                                                     *)
(*                                                                         *)
(* A transfer is a row of transfer_jobs and a goroutine that copies one    *)
(* kind of data after another from the source server, looking at the row   *)
(* between steps to see whether it was cancelled.  The panel may stop at   *)
(* any point; the next boot starts every unfinished transfer again from    *)
(* its first step.  Of the data, one item of each kind is kept.  What is   *)
(* copied, progress and logs are left out; the step of the panel's records *)
(* is module PanelRecords.                                                 *)
(***************************************************************************)
EXTENDS Naturals, FiniteSets, Sequences

CONSTANTS
  Jobs,       \* rows of transfer_jobs
  Sources,    \* source servers
  Clients,    \* create requests in flight at once
  OptionSets, \* the sets of optional steps a request may ask for
  MaxFaults,  \* bound on stops, refused writes and failed reads together
  None        \* no row, no source

Order == <<"validate", "discover", "hostname", "packages", "config", "software",
           "domains", "dns", "ssl", "databases", "email", "cron", "ftp",
           "firewall", "apps", "keys", "suite", "records", "verify", "finish">>
Always == {"validate", "discover", "suite", "records", "verify", "finish"}
Names == {Order[i] : i \in DOMAIN Order}

ASSUME NoneAssumption == None \notin Jobs /\ None \notin Sources
ASSUME OptionsAssumption ==
  IsFiniteSet(Jobs) /\ MaxFaults \in Nat /\ OptionSets \subseteq SUBSET Names

VARIABLES
  job,     \* rows: status, source, options, a failed step, error_count > 0
  ex,      \* per row, its goroutine: next step, an item dropped in it, a look at
           \* the row that failed, verdict
  req,     \* per client: where its Create is
  up,      \* the panel serves
  faults,
  quit,    \* history: "late" if cancelled before the first look or after the
           \* last, else "heard"
  begun,   \* history: steps begun after a cancellation that is heard, but for the
           \* two that follow the FTP accounts
  raced,   \* history: jobs created while another creation was in flight, or
           \* after a count that failed
  refused  \* history: jobs of which a read or a write failed

history == <<quit, begun, raced, refused>>
vars == <<job, ex, req, up, faults, history>>

Running == {"pending", "in_progress"}
Terminal == {"completed", "partial", "failed", "cancelled"}
NoJob == [status |-> "absent", source |-> None, options |-> {},
          failedStep |-> FALSE, errors |-> FALSE]
Gone == [pc |-> "gone", dropped |-> FALSE, overlooked |-> FALSE, verdict |-> "completed"]
IdleClient == [pc |-> "idle", source |-> None, options |-> {}, raced |-> FALSE]

Exists(j) == job[j].status # "absent"
At(j, pc) == up /\ ex[j].pc = pc
Alive(j) == ex[j].pc # "gone"
Fault == faults < MaxFaults /\ faults' = faults + 1

Init ==
  /\ job = [j \in Jobs |-> NoJob]
  /\ ex = [j \in Jobs |-> Gone]
  /\ req = [c \in Clients |-> IdleClient]
  /\ up = TRUE /\ faults = 0
  /\ quit = [j \in Jobs |-> "no"]
  /\ begun = [j \in Jobs |-> {}] /\ raced = {} /\ refused = {}

-----------------------------------------------------------------------------
(* Creating and cancelling                                                 *)

ActivePendingOnly(s) == {j \in Jobs : job[j].source = s /\ job[j].status = "pending"}
Active(s) == {j \in Jobs : job[j].source = s /\ job[j].status \in Running}

\* Create counts the active transfers from this source; it refuses if any.
CountActive(c, s, options) ==
  /\ up /\ req[c].pc = "idle"
  /\ Active(s) = {}
  /\ req' = [req EXCEPT ![c] = [pc |-> "insert", source |-> s,
                                options |-> options, raced |-> FALSE]]
  /\ UNCHANGED <<job, ex, up, faults, history>>

\* A count that fails is taken for none.
CountFails(c, s, options) ==
  /\ up /\ req[c].pc = "idle" /\ Fault
  /\ req' = [req EXCEPT ![c] = [pc |-> "insert", source |-> s,
                                options |-> options, raced |-> TRUE]]
  /\ UNCHANGED <<job, ex, up, history>>

\* The row is inserted and the goroutine started.
InsertJob(c, j) ==
  LET s == req[c].source IN
  /\ up /\ req[c].pc = "insert"
  /\ ~Exists(j)
  /\ job' = [job EXCEPT ![j] = [NoJob EXCEPT !.status = "pending", !.source = s,
                                             !.options = req[c].options]]
  /\ ex' = [ex EXCEPT ![j] = [Gone EXCEPT !.pc = "begin"]]
  /\ raced' = IF req[c].raced THEN raced \cup {j} ELSE raced
  /\ req' = [d \in Clients |->
               IF d = c THEN IdleClient
               ELSE [req[d] EXCEPT !.raced = @ \/ req[d].source = s]]
  /\ UNCHANGED <<up, faults, quit, begun, refused>>

Heard == (Names \ {"validate", "discover", "verify", "finish"})
           \cup {"wire", "import"}

\* One update by id: it does not ask whether the job is still running.
Cancel(j) ==
  /\ up /\ Exists(j) /\ job[j].status # "cancelled"
  /\ job' = [job EXCEPT ![j].status = "cancelled"]
  /\ quit' = [quit EXCEPT ![j] = IF ex[j].pc \in Heard THEN "heard" ELSE "late"]
  /\ UNCHANGED <<ex, req, up, faults, begun, raced, refused>>

-----------------------------------------------------------------------------
(* Walking the steps                                                       *)

\* buildSteps: the steps of a job are those its options enable, in order.
NextStep ==
  [options \in OptionSets |-> [i \in 1 .. Len(Order) - 1 |->
     CHOOSE k \in i + 1 .. Len(Order) :
       /\ Order[k] \in Always \cup options
       /\ \A m \in i + 1 .. k - 1 : Order[m] \notin Always \cup options]]
Index == [s \in Names |-> CHOOSE i \in DOMAIN Order : Order[i] = s]
Following(j, s) == Order[NextStep[job[j].options][Index[s]]]

\* No look at the row before the first step, nor between the FTP accounts and
\* the Node.js apps, nor after the verification.
UncheckedAlsoEmail == {"validate", "firewall", "apps", "finish", "email"}
Unchecked == {"validate", "firewall", "apps", "finish"}

\* isCancelled: the goroutine returns as soon as it sees the row cancelled.
Stopped(j, s) == s \notin Unchecked /\ job[j].status = "cancelled"

SeeCancelled(j, s) ==
  /\ At(j, s) /\ Stopped(j, s) /\ ~ex[j].overlooked
  /\ ex' = [ex EXCEPT ![j] = Gone]
  /\ UNCHANGED <<job, req, up, faults, history>>

\* ... but a look that fails says the job was not cancelled.
Overlook(j, s) ==
  /\ At(j, s) /\ Stopped(j, s) /\ ~ex[j].overlooked /\ Fault
  /\ ex' = [ex EXCEPT ![j].overlooked = TRUE]
  /\ refused' = refused \cup {j}
  /\ UNCHANGED <<job, req, up, quit, begun, raced>>

\* Step s of job j is taken, for good or in part.
Step(j, s) ==
  /\ At(j, s) /\ (Stopped(j, s) => ex[j].overlooked)
  /\ begun' = IF quit[j] = "heard" /\ s \notin {"firewall", "apps"} THEN [begun EXCEPT ![j] = @ \cup {s}]
              ELSE begun
  /\ UNCHANGED <<req, up, faults, quit, raced, refused>>
Advance(j, s) == ex' = [ex EXCEPT ![j] = [Gone EXCEPT !.pc = Following(j, s)]]
Part(j, pc, dropped) ==
  ex' = [ex EXCEPT ![j] = [Gone EXCEPT !.pc = pc, !.dropped = dropped]]

\* A step whose failures are logged and not counted.
LoggedStep(j, s) ==
  /\ Step(j, s) /\ Advance(j, s)
  /\ UNCHANGED job

\* A step of which some item may fail: the failure is counted on the job (a
\* count the database refuses leaves the row as if nothing had failed).
Count(j, dropped) == job' = [job EXCEPT ![j].errors = @ \/ dropped]
CountedStep(j, s) ==
  /\ Step(j, s) /\ Advance(j, s)
  /\ \E dropped \in BOOLEAN : Count(j, dropped)

Abort(j) ==
  /\ job' = [job EXCEPT ![j].status = "failed", ![j].failedStep = TRUE]
  /\ ex' = [ex EXCEPT ![j] = Gone]

\* The first write of the goroutine, over whatever the status is by then.
Begin(j) ==
  /\ At(j, "begin")
  /\ job' = [job EXCEPT ![j].status = "in_progress"]
  /\ ex' = [ex EXCEPT ![j].pc = "validate"]
  /\ UNCHANGED <<req, up, faults, history>>

Validate(j) ==
  /\ Step(j, "validate")
  /\ \/ Advance(j, "validate") /\ UNCHANGED job
     \/ Abort(j)

Discover(j) ==
  /\ Step(j, "discover")
  /\ \/ Advance(j, "discover") /\ UNCHANGED job
     \/ Abort(j)

SkipHostname(j) == LoggedStep(j, "hostname")
TransferPackages(j) == LoggedStep(j, "packages")
CaptureConfig(j) == LoggedStep(j, "config")
TransferSoftware(j) == LoggedStep(j, "software")

\* The files of the domain's user are fetched and restored ...
FetchFiles(j) ==
  /\ Step(j, "domains")
  /\ \E dropped \in BOOLEAN : Part(j, "wire", dropped)
  /\ UNCHANGED job

\* ... then its domain is set up, and the errors counted so far reach the row.
WireDomain(j) ==
  /\ Step(j, "wire") /\ Advance(j, "domains")
  /\ Count(j, ex[j].dropped)

\* The zone is recreated in PowerDNS and in the panel; one that fails is not
\* counted ...
RecreateZone(j) ==
  /\ Step(j, "dns")
  /\ Advance(j, "dns") \/ Part(j, "import", FALSE)
  /\ UNCHANGED job

\* ... nor one whose records cannot be read; nothing looks at the row between.
ImportRecords(j) ==
  /\ At(j, "import")
  /\ Advance(j, "dns")
  /\ UNCHANGED <<job, req, up, faults, history>>

TransferSSL(j) == CountedStep(j, "ssl")
TransferDatabases(j) == CountedStep(j, "databases")
TransferEmail(j) == CountedStep(j, "email")
TransferCron(j) == LoggedStep(j, "cron")
TransferFTP(j) == LoggedStep(j, "ftp")
TransferFirewall(j) == LoggedStep(j, "firewall")
TransferApps(j) == LoggedStep(j, "apps")
TransferKeys(j) == LoggedStep(j, "keys")

\* The only step after discovery that is marked failed; the job goes on.
MigrateMailSuite(j) ==
  /\ Step(j, "suite") /\ Advance(j, "suite")
  /\ \E fails \in BOOLEAN : job' = [job EXCEPT ![j].failedStep = @ \/ fails]

SyncPanelRecords(j) == LoggedStep(j, "records")
Verify(j) == LoggedStep(j, "verify")

\* finalTransferStatus reads the row back ...
VerdictByErrors(j) == IF job[j].errors THEN "partial" ELSE "completed"
Verdict(j) == IF job[j].failedStep \/ job[j].errors THEN "partial" ELSE "completed"

ReadVerdict(j) ==
  /\ Step(j, "finish")
  /\ ex' = [ex EXCEPT ![j].pc = "write", ![j].verdict = Verdict(j)]
  /\ UNCHANGED job

\* ... and the verdict is written over whatever the status is by then.
WriteVerdict(j) ==
  /\ At(j, "write")
  /\ job' = [job EXCEPT ![j].status = ex[j].verdict]
  /\ ex' = [ex EXCEPT ![j] = Gone]
  /\ UNCHANGED <<req, up, faults, history>>

-----------------------------------------------------------------------------
(* Stops, boots and refused writes                                         *)

Unanswered(j) ==
  /\ Fault
  /\ refused' = refused \cup {j}
  /\ UNCHANGED <<job, req, up, quit, begun, raced>>

\* The errors of these writes are ignored: the goroutine goes on, or ends.
BeginRefused(j) ==
  /\ At(j, "begin")
  /\ ex' = [ex EXCEPT ![j].pc = "validate"]
  /\ Unanswered(j)
StatusRefused(j) ==
  /\ \/ At(j, "write") \/ At(j, "validate")
     \/ At(j, "discover") /\ ~Stopped(j, "discover")
  /\ ex' = [ex EXCEPT ![j] = Gone]
  /\ Unanswered(j)

\* finalTransferStatus cannot read the row: the job is called completed.
VerdictUnread(j) ==
  /\ At(j, "finish")
  /\ ex' = [ex EXCEPT ![j].pc = "write", ![j].verdict = "completed"]
  /\ Unanswered(j)

Stop ==
  /\ up /\ Fault
  /\ up' = FALSE
  /\ ex' = [j \in Jobs |-> Gone]
  /\ req' = [c \in Clients |-> IdleClient]
  /\ UNCHANGED <<job, history>>

\* ResumeRunningTransfers, called before the server listens.
ResumableInProgress == {j \in Jobs : job[j].status = "in_progress"}
Resumable == {j \in Jobs : job[j].status \in Running}

Boot ==
  /\ ~up
  /\ up' = TRUE
  /\ job' = [j \in Jobs |-> IF j \in Resumable
                            THEN [job[j] EXCEPT !.failedStep = FALSE] ELSE job[j]]
  /\ ex' = [j \in Jobs |-> IF j \in Resumable THEN [Gone EXCEPT !.pc = "begin"]
                           ELSE Gone]
  /\ UNCHANGED <<req, faults, history>>

\* The unfinished transfers cannot be read; the server starts without them.  The
\* stop before it was counted as a fault already.
BootWithoutResume ==
  /\ ~up
  /\ up' = TRUE
  /\ refused' = refused \cup Resumable
  /\ UNCHANGED <<job, ex, req, faults, quit, begun, raced>>

-----------------------------------------------------------------------------
Execute(j) ==
  \/ Begin(j) \/ Validate(j) \/ Discover(j) \/ SkipHostname(j)
  \/ TransferPackages(j) \/ CaptureConfig(j) \/ TransferSoftware(j)
  \/ FetchFiles(j) \/ WireDomain(j) \/ RecreateZone(j)
  \/ ImportRecords(j)
  \/ TransferSSL(j) \/ TransferDatabases(j) \/ TransferEmail(j)
  \/ TransferCron(j) \/ TransferFTP(j) \/ TransferFirewall(j)
  \/ TransferApps(j) \/ TransferKeys(j) \/ MigrateMailSuite(j)
  \/ SyncPanelRecords(j) \/ Verify(j) \/ ReadVerdict(j) \/ WriteVerdict(j)
  \/ \E s \in Names \cup {"wire"} : SeeCancelled(j, s)

Refusal(j) ==
  \/ BeginRefused(j) \/ StatusRefused(j) \/ VerdictUnread(j)
  \/ \E s \in Names \cup {"wire"} : Overlook(j, s)

Next ==
  \/ \E j \in Jobs : Execute(j) \/ Cancel(j) \/ Refusal(j)
  \/ \E c \in Clients : \/ \E s \in Sources, o \in OptionSets :
                              CountActive(c, s, o) \/ CountFails(c, s, o)
                        \/ \E j \in Jobs : InsertJob(c, j)
  \/ Stop \/ Boot \/ BootWithoutResume

Spec == Init /\ [][Next]_vars

-----------------------------------------------------------------------------
Pcs == Names \cup {"gone", "begin", "wire", "import", "write"}
JobRow == [status : {"absent"} \cup Running \cup Terminal,
           source : Sources \cup {None}, options : OptionSets \cup {{}},
           failedStep : BOOLEAN, errors : BOOLEAN]

\* Every variable has its type.
TypeOK ==
  /\ job \in [Jobs -> JobRow]
  /\ ex \in [Jobs -> [pc : Pcs, dropped : BOOLEAN, overlooked : BOOLEAN,
                    verdict : {"completed", "partial"}]]
  /\ req \in [Clients -> [pc : {"idle", "insert"}, source : Sources \cup {None},
                          options : OptionSets \cup {{}}, raced : BOOLEAN]]
  /\ up \in BOOLEAN /\ faults \in 0 .. MaxFaults
  /\ quit \in [Jobs -> {"no", "heard", "late"}]
  /\ begun \in [Jobs -> SUBSET Pcs]
  /\ raced \subseteq Jobs /\ refused \subseteq Jobs

\* "One active transfer per source is the safe contract" (Create): two
\* goroutines copy from one source only if their creations overlapped, or if
\* one's job was cancelled and the other created before it noticed, or if the
\* count of the active ones failed.
OverlapOnlyByRace ==
  \A j, k \in Jobs :
    j # k /\ Alive(j) /\ Alive(k) /\ job[j].source = job[k].source =>
      {j, k} \cap raced # {} \/ quit[j] # "no" \/ quit[k] # "no"

\* finalTransferStatus, "the honest terminal status": a job that reads
\* completed has no failed step and no counted error, however often the panel
\* restarted it or was asked to cancel it, at whichever of its writes, unless
\* the row could not be read at the end.
GreenMeansCounted ==
  \A j \in Jobs \ refused : job[j].status = "completed" =>
    ~job[j].failedStep /\ ~job[j].errors

\* A transfer cancelled between its discovery and its last look at the row is
\* cancelled for good, and copies nothing more than the two kinds that are
\* copied without a look, unless a look failed.
CancelHolds ==
  \A j \in Jobs \ refused : quit[j] = "heard" =>
    job[j].status = "cancelled" /\ begun[j] = {}

\* ResumeRunningTransfers leaves no transfer behind: while the panel is up, a
\* job that reads pending or in progress has a goroutine at work, whatever
\* restarts and cancellations it met, unless one of its writes was refused or
\* a boot could not read it.
NoOrphans ==
  up => \A j \in Jobs : job[j].status \in Running => j \in refused \/ Alive(j)
=============================================================================
