--------------------------- MODULE DeployPipeline ---------------------------
(***************************************************************************)
(* The deploy pipeline of internal/services/project_service.go: one        *)
(* bounded queue, a pool of workers, a mutex per project that the workers  *)
(* try and the batches of "Deploy all" and of the GitHub webhook wait for, *)
(* and one working tree per project that every service is built from       *)
(* (the shared-clone layout).                                              *)
(*                                                                         *)
(* A deploy is: mark the service and insert the deployment row, pull or    *)
(* skip the pull, read the commit, build and restart, settle the row,      *)
(* stamp the service.  The commands of a build are their outcome only.     *)
(***************************************************************************)
EXTENDS Naturals, Sequences, FiniteSets

CONSTANTS
  Projects, Services,
  ProjectOf,    \* the project of each service
  SlNo,         \* its place in the project's serial order
  Workers,      \* the worker pool
  Batches,      \* runs of runProjectPullAndEnqueue in flight at once
  QueueCap,     \* capacity of deployQueue
  MaxRedeploys, \* bound on the redeploys of one service asked for
  MaxBatches,   \* bound on the batches asked for
  MaxCommits,   \* bound on the commits of a branch
  MaxFaults,    \* bound on refused database calls, timeouts and restarts
  None

ASSUME ServicesAssumption ==
  /\ ProjectOf \in [Services -> Projects]
  /\ SlNo \in [Services -> Nat]
  /\ \A s, t \in Services :
       ProjectOf[s] = ProjectOf[t] /\ SlNo[s] = SlNo[t] => s = t
ASSUME DeployersAssumption ==
  /\ Workers \cap Batches = {}
  /\ None \notin Workers \cup Batches \cup Services \cup Projects
ASSUME BoundsAssumption ==
  /\ QueueCap \in Nat \ {0} /\ MaxRedeploys \in Nat /\ MaxBatches \in Nat
  /\ MaxCommits \in Nat \ {0} /\ MaxFaults \in Nat

VARIABLES
  queue,     \* deployQueue
  lock,      \* holder of each project's deploy mutex
  act,       \* what each worker and each batch is doing
  status,    \* status of the service rows; "settled" is running or error
  open,      \* deployment rows of a service that say "running"
  head,      \* newest commit of each project's branch
  tree,      \* commit in each project's working tree
  redeploys, batches, faults,
  meddled,   \* history: projects pulled by hand while their mutex was held
  cut        \* history: services that had a deploy cut short

repo == <<head, tree>>
asked == <<redeploys, batches>>
bounds == <<asked, faults>>
vars == <<queue, lock, act, status, open, repo, bounds, meddled, cut>>

Deployers == Workers \cup Batches
Idle == [pc |-> "idle", project |-> None, svc |-> None, todo |-> {},
         pull |-> FALSE, target |-> 0, commit |-> 0, built |-> 0,
         ok |-> FALSE, expired |-> FALSE]

Init ==
  /\ queue = <<>>
  /\ lock = [p \in Projects |-> None]
  /\ act = [d \in Deployers |-> Idle]
  /\ status = [s \in Services |-> "settled"]
  /\ open = [s \in Services |-> 0]
  /\ head = [p \in Projects |-> 1] /\ tree = [p \in Projects |-> 1]
  /\ redeploys = 0 /\ batches = 0 /\ faults = 0
  /\ meddled = {} /\ cut = {}

At(d, pc) == act[d].pc = pc
Goto(d, pc) == act' = [act EXCEPT ![d].pc = pc]
Fault == faults < MaxFaults /\ faults' = faults + 1

-----------------------------------------------------------------------------
(* The queue                                                               *)

QueuedSilently(job) ==
  /\ queue' = IF Len(queue) < QueueCap THEN Append(queue, job) ELSE queue
  /\ UNCHANGED status

\* A full queue is reported on the service's row.
Queued(job) ==
  IF Len(queue) < QueueCap
  THEN queue' = Append(queue, job) /\ UNCHANGED status
  ELSE status' = [status EXCEPT ![job.svc] = "queue-full"] /\ UNCHANGED queue

DeployService(s, pull) ==
  /\ redeploys < MaxRedeploys
  /\ redeploys' = redeploys + 1
  /\ Queued([svc |-> s, pull |-> pull])
  /\ UNCHANGED <<lock, act, open, repo, batches, faults, meddled, cut>>

Dequeue(w) ==
  /\ At(w, "idle") /\ queue # <<>>
  /\ queue' = Tail(queue)
  /\ act' = [act EXCEPT ![w] =
               [Idle EXCEPT !.pc = "trylock", !.svc = Head(queue).svc,
                            !.project = ProjectOf[Head(queue).svc],
                            !.pull = Head(queue).pull]]
  /\ UNCHANGED <<lock, status, open, repo, bounds, meddled, cut>>

\* The service or its project cannot be read: the job is dropped.
LoadFails(w) ==
  /\ At(w, "trylock") /\ Fault
  /\ act' = [act EXCEPT ![w] = Idle]
  /\ cut' = cut \cup {act[w].svc}
  /\ UNCHANGED <<queue, lock, status, open, repo, asked, meddled>>

FreeUnchecked(p) == TRUE
Free(p) == lock[p] = None

TakeLock(d, pc) ==
  /\ lock' = [lock EXCEPT ![act[d].project] = d]
  /\ Goto(d, pc)

TryLock(w) ==
  /\ At(w, "trylock")
  /\ IF Free(act[w].project)
     THEN TakeLock(w, "begin")
     ELSE Goto(w, "contended") /\ UNCHANGED lock
  /\ UNCHANGED <<queue, status, open, repo, bounds, meddled, cut>>

MarkPending(w) ==
  /\ At(w, "contended")
  /\ status' = [status EXCEPT ![act[w].svc] = "pending"]
  /\ Goto(w, "backoff")
  /\ UNCHANGED <<queue, lock, open, repo, bounds, meddled, cut>>

\* After the two seconds of back-off.
Requeue(w) ==
  /\ At(w, "backoff")
  /\ Queued([svc |-> act[w].svc, pull |-> act[w].pull])
  /\ act' = [act EXCEPT ![w] = Idle]
  /\ UNCHANGED <<lock, open, repo, bounds, meddled, cut>>

-----------------------------------------------------------------------------
(* Batches: one pull, then the services one after the other                *)

\* "Deploy all" takes every service, a push those on its branch.
LaunchBatch(b, p, todo) ==
  /\ At(b, "idle")
  /\ batches < MaxBatches
  /\ batches' = batches + 1
  /\ act' = [act EXCEPT ![b] = [Idle EXCEPT !.pc = "lock", !.project = p,
                                            !.todo = todo]]
  /\ UNCHANGED <<queue, lock, status, open, repo, redeploys, faults, meddled, cut>>

LockProject(b) ==
  /\ At(b, "lock") /\ lock[act[b].project] = None
  /\ TakeLock(b, "pull_project")
  /\ UNCHANGED <<queue, status, open, repo, bounds, meddled, cut>>

\* Without a shared pull every service pulls for itself.
PullProject(b) ==
  LET p == act[b].project IN
  /\ At(b, "pull_project")
  /\ \/ /\ tree' = [tree EXCEPT ![p] = head[p]]
        /\ act' = [act EXCEPT ![b] = [@ EXCEPT !.pc = "next", !.target = head[p]]]
     \/ /\ act' = [act EXCEPT ![b] = [@ EXCEPT !.pc = "next", !.pull = TRUE]]
        /\ UNCHANGED tree
  /\ UNCHANGED <<queue, lock, status, open, head, bounds, meddled, cut>>

First(todo) ==
  CHOOSE s \in todo : \A t \in todo : SlNo[s] <= SlNo[t]

\* A service that cannot be read is passed over.
NextService(b) ==
  LET s == First(act[b].todo)
      rest == act[b].todo \ {s} IN
  /\ At(b, "next") /\ act[b].todo # {}
  /\ \/ /\ act' = [act EXCEPT ![b] = [@ EXCEPT !.pc = "begin", !.svc = s,
                                               !.todo = rest]]
        /\ UNCHANGED faults
     \/ Fault /\ act' = [act EXCEPT ![b] = [@ EXCEPT !.todo = rest]]
  /\ UNCHANGED <<queue, lock, status, open, repo, asked, meddled, cut>>

UnlockedByWorker(d) ==
  IF d \in Workers THEN [lock EXCEPT ![act[d].project] = None] ELSE lock
Unlocked(d) == [lock EXCEPT ![act[d].project] = None]

\* The deferred Unlock, and the goroutine is done with the project.
Leave(d) ==
  /\ lock' = Unlocked(d)
  /\ act' = [act EXCEPT ![d] = Idle]
  /\ meddled' = meddled \ {act[d].project}

EndBatch(b) ==
  /\ At(b, "next") /\ act[b].todo = {}
  /\ Leave(b)
  /\ UNCHANGED <<queue, status, open, repo, bounds, cut>>

-----------------------------------------------------------------------------
(* runDeployLocked, by a worker or a batch                                 *)

PullsEachTime(d) == TRUE
Pulls(d) == act[d].pull

Begin(d) ==
  LET s == act[d].svc IN
  /\ At(d, "begin")
  /\ status' = [status EXCEPT ![s] = "deploying"]
  /\ open' = [open EXCEPT ![s] = @ + 1]
  /\ Goto(d, IF Pulls(d) THEN "pull" ELSE "commit")
  /\ UNCHANGED <<queue, lock, repo, bounds, meddled, cut>>

\* The process is gone: queue, mutexes and whatever was in flight are lost.
Lost == {s \in Services : \/ \E i \in 1..Len(queue) : queue[i].svc = s
                          \/ \E d \in Deployers : act[d].svc = s}
Crash ==
  /\ queue' = <<>>
  /\ lock' = [p \in Projects |-> None]
  /\ act' = [d \in Deployers |-> Idle]
  /\ cut' = cut \cup Lost
  /\ meddled' = {}
  /\ UNCHANGED <<open, repo, asked>>

\* The row cannot be inserted and the nil result is dereferenced.  A worker
\* recovers and marks the service; nothing recovers a batch.
InsertFails(d) ==
  LET s == act[d].svc IN
  /\ At(d, "begin") /\ Fault
  /\ \/ /\ d \in Workers
        /\ status' = [status EXCEPT ![s] = "settled"]
        /\ Leave(d)
        /\ UNCHANGED <<queue, open, repo, asked, cut>>
     \/ /\ d \in Batches
        /\ status' = [status EXCEPT ![s] = "deploying"]
        /\ Crash

PullService(d) ==
  LET p == act[d].project IN
  /\ At(d, "pull")
  /\ \/ /\ tree' = [tree EXCEPT ![p] = head[p]]
        /\ Goto(d, "commit")
     \/ /\ act' = [act EXCEPT ![d] = [@ EXCEPT !.pc = "finalize", !.ok = FALSE,
                                               !.commit = 0]]
        /\ UNCHANGED tree
  /\ UNCHANGED <<queue, lock, status, open, head, bounds, meddled, cut>>

\* rev-parse, or else the commit the batch pulled (0: none is reported).
ReadCommit(d) ==
  /\ At(d, "commit")
  /\ \E c \in {tree[act[d].project], act[d].target} :
       act' = [act EXCEPT ![d] = [@ EXCEPT !.pc = "build", !.commit = c]]
  /\ UNCHANGED <<queue, lock, status, open, repo, bounds, meddled, cut>>

Build(d) ==
  /\ At(d, "build")
  /\ \E ok \in BOOLEAN :
       LET built == IF ok THEN tree[act[d].project] ELSE 0 IN
       act' = [act EXCEPT ![d] = [@ EXCEPT !.pc = "finalize", !.ok = ok,
                                           !.built = built]]
  /\ UNCHANGED <<queue, lock, status, open, repo, bounds, meddled, cut>>

\* finalize writes the deployment row and then the service, both under the
\* deploy's own context.
Finalize(d) ==
  LET s == act[d].svc IN
  /\ At(d, "finalize")
  /\ open' = IF act[d].expired THEN open ELSE [open EXCEPT ![s] = @ - 1]
  /\ cut' = IF act[d].expired THEN cut \cup {s} ELSE cut
  /\ act' = [act EXCEPT ![d] = [@ EXCEPT !.pc = "stamp", !.ok = FALSE,
                                          !.commit = 0, !.built = 0]]
  /\ UNCHANGED <<queue, lock, status, repo, bounds, meddled>>

StampService(d) ==
  LET s == act[d].svc IN
  /\ At(d, "stamp")
  /\ status' = IF act[d].expired THEN status
               ELSE [status EXCEPT ![s] = "settled"]
  /\ cut' = IF act[d].expired THEN cut \cup {s} ELSE cut
  /\ \/ d \in Workers /\ Leave(d)
     \/ /\ d \in Batches
        /\ act' = [act EXCEPT ![d] = [@ EXCEPT !.pc = "next", !.svc = None,
                                                !.expired = FALSE]]
        /\ UNCHANGED <<lock, meddled>>
  /\ UNCHANGED <<queue, open, repo, bounds>>

\* The fifteen minutes of a deploy are over.  Before the last two writes this
\* shows only as commands that fail, which PullService and Build cover.
Expire(d) ==
  /\ act[d].pc \in {"finalize", "stamp"} /\ ~act[d].expired
  /\ Fault
  /\ act' = [act EXCEPT ![d].expired = TRUE]
  /\ UNCHANGED <<queue, lock, status, open, repo, asked, meddled, cut>>

-----------------------------------------------------------------------------
Push(p) ==
  /\ head[p] < MaxCommits
  /\ head' = [head EXCEPT ![p] = @ + 1]
  /\ UNCHANGED <<queue, lock, act, status, open, tree, bounds, meddled, cut>>

\* The project's Pull button takes no deploy mutex.
OperatorPull(p) ==
  /\ tree[p] # head[p]
  /\ tree' = [tree EXCEPT ![p] = head[p]]
  /\ meddled' = IF Free(p) THEN meddled ELSE meddled \cup {p}
  /\ UNCHANGED <<queue, lock, act, status, open, head, bounds, cut>>

Restart == Fault /\ Crash /\ UNCHANGED status

PoolStep(w) == Dequeue(w) \/ TryLock(w) \/ MarkPending(w) \/ Requeue(w)
BatchStep(b) == PullProject(b) \/ NextService(b) \/ EndBatch(b)
DeployStep(d) == Begin(d) \/ PullService(d) \/ ReadCommit(d) \/ Build(d)
                 \/ Finalize(d) \/ StampService(d)

Next ==
  \/ \E s \in Services, pull \in BOOLEAN : DeployService(s, pull)
  \/ \E w \in Workers : PoolStep(w) \/ LoadFails(w)
  \/ \E b \in Batches, p \in Projects :
       \E todo \in SUBSET {s \in Services : ProjectOf[s] = p} :
         todo # {} /\ LaunchBatch(b, p, todo)
  \/ \E b \in Batches : LockProject(b) \/ BatchStep(b)
  \/ \E d \in Deployers : DeployStep(d) \/ InsertFails(d) \/ Expire(d)
  \/ \E p \in Projects : Push(p) \/ OperatorPull(p)
  \/ Restart

\* Goroutines are scheduled, and Go's mutex does not starve a waiter.
Fairness ==
  /\ \A w \in Workers : WF_vars(PoolStep(w) \/ DeployStep(w))
  /\ \A b \in Batches : /\ WF_vars(BatchStep(b) \/ DeployStep(b))
                        /\ SF_vars(LockProject(b))

Spec == Init /\ [][Next]_vars /\ Fairness

-----------------------------------------------------------------------------
Pcs == {"idle", "trylock", "contended", "backoff", "lock", "pull_project",
        "next", "begin", "pull", "commit", "build", "finalize", "stamp"}
Holding == Pcs \ {"idle", "trylock", "contended", "backoff", "lock"}
InFlight == {"pull", "commit", "build", "finalize"}

\* Every variable has its type, and the queue never exceeds its capacity.
TypeOK ==
  /\ queue \in Seq([svc : Services, pull : BOOLEAN]) /\ Len(queue) <= QueueCap
  /\ lock \in [Projects -> Deployers \cup {None}]
  /\ act \in [Deployers ->
                [pc : Pcs, project : Projects \cup {None},
                 svc : Services \cup {None}, todo : SUBSET Services,
                 pull : BOOLEAN, target : Nat, commit : Nat, built : Nat,
                 ok : BOOLEAN, expired : BOOLEAN]]
  /\ status \in [Services -> {"settled", "pending", "deploying",
                              "queue-full"}]
  /\ open \in [Services -> Nat]
  /\ head \in [Projects -> Nat] /\ tree \in [Projects -> Nat]
  /\ redeploys \in Nat /\ batches \in Nat /\ faults \in Nat
  /\ meddled \in SUBSET Projects /\ cut \in SUBSET Services

\* Two services of one project are never deployed at once, whether by pool
\* workers or by a batch, which keeps the project from its pull to its end.
OneDeployPerProject ==
  \A d, e \in Deployers :
    act[d].pc \in Holding /\ act[e].pc \in Holding
      /\ act[d].project = act[e].project => d = e

\* A deploy builds the commit it reports, and a batch that pulled builds all
\* its services from that pull, unless the project is pulled by hand meanwhile.
BuildsWhatItReports ==
  \A d \in Deployers :
    act[d].pc = "finalize" /\ act[d].ok /\ act[d].project \notin meddled
      => /\ act[d].commit \in {0, act[d].built}
         /\ act[d].target \in {0, act[d].built}

\* Unless a deploy of it was cut short, a service that says "pending" has a
\* job in the queue or with a worker, one that says "deploying" is being
\* deployed, and its deployment rows that say "running" are those in flight.
IndicatorsAreTrue ==
  \A s \in Services \ cut :
    /\ status[s] = "pending" =>
         \/ \E i \in 1..Len(queue) : queue[i].svc = s
         \/ \E w \in Workers : act[w].svc = s
    /\ status[s] = "deploying" => \E d \in Deployers : act[d].svc = s
    /\ open[s] = Cardinality({d \in Deployers : act[d].svc = s
                                                /\ act[d].pc \in InFlight})

\* Once requests stop, the queue drains and no service is left pending or
\* deploying, except one that had a deploy cut short.
EveryJobSettles ==
  <>[](/\ queue = <<>>
       /\ \A s \in Services : status[s] \in {"pending", "deploying"} => s \in cut)
=============================================================================
