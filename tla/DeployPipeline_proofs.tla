------------------------ MODULE DeployPipeline_proofs ------------------------
(***************************************************************************)
(* Proofs about DeployPipeline for any projects and services, any number   *)
(* of workers and batches, and any capacity of the queue.                  *)
(*                                                                         *)
(* Everything rests on Base: the holder of a project's mutex is the only   *)
(* one past it (LockInv), and it is known which project and service a      *)
(* deployer is at (JobsInv) and that its deployment row is open (OpenInv). *)
(* SourceInv and HonestInv, proved on top of Base, strengthen the claims   *)
(* about the source built and about the indicators.                        *)
(***************************************************************************)
EXTENDS DeployPipeline, FiniteSetTheorems, SequenceTheorems,
        WellFoundedInduction, TLAPS

Serving == {"trylock", "contended", "backoff", "begin", "pull", "commit",
            "build", "finalize", "stamp"}

JobsInv ==
  \A d \in Deployers :
    /\ act[d].pc = "idle" => act[d].svc = None
    /\ act[d].pc # "idle" => act[d].project \in Projects
    /\ act[d].pc \in Serving =>
         act[d].svc \in Services /\ ProjectOf[act[d].svc] = act[d].project
    /\ \A s \in act[d].todo : ProjectOf[s] = act[d].project

LockInv ==
  \A d \in Deployers : act[d].pc \in Holding => lock[act[d].project] = d

OpenInv ==
  \A d \in Deployers : act[d].pc \in InFlight => open[act[d].svc] > 0

Base == TypeOK /\ JobsInv /\ LockInv /\ OpenInv

-----------------------------------------------------------------------------
(* The next service of a batch                                             *)

LEMMA FirstIsOne ==
  ASSUME NEW todo \in SUBSET Services, todo # {}
  PROVE  First(todo) \in todo
<1> DEFINE Less == {r \in Nat \X Nat : r[1] < r[2]}
           T == {SlNo[s] : s \in todo}
<1>1. T \subseteq Nat /\ T # {}
  BY ServicesAssumption
<1>2. IsWellFoundedOn(Less, Nat)
  BY NatLessThanWellFounded DEF OpToRel
<1>3. PICK x \in T : \A y \in T : ~(<<y, x>> \in Less)
  <2> HIDE DEF Less, T
  <2> QED
    BY <1>1, <1>2, WFMin
<1>4. \A y \in T : x <= y
  <2> SUFFICES ASSUME NEW y \in T PROVE x <= y
    OBVIOUS
  <2>1. x \in Nat /\ y \in Nat
    BY <1>1
  <2>2. ~(<<y, x>> \in Less)
    BY <1>3
  <2>3. y < x => <<y, x>> \in Less
    BY <2>1
  <2> HIDE DEF Less
  <2> QED
    BY <2>1, <2>2, <2>3
<1>5. PICK s \in todo : \A t \in todo : SlNo[s] <= SlNo[t]
  BY <1>3, <1>4
<1> QED
  BY <1>5 DEF First

-----------------------------------------------------------------------------
(* Type correctness                                                        *)

Job == [svc : Services, pull : BOOLEAN]
Doing == [pc : Pcs, project : Projects \cup {None},
          svc : Services \cup {None}, todo : SUBSET Services,
          pull : BOOLEAN, target : Nat, commit : Nat, built : Nat,
          ok : BOOLEAN, expired : BOOLEAN]
Statuses == {"settled", "pending", "deploying", "queue-full"}

LEMMA IdleTyped == Idle \in Doing
BY DEF Idle, Doing, Pcs

LEMMA SetTyped ==
  ASSUME TypeOK, NEW d \in Deployers, NEW r \in Doing,
         act' = [act EXCEPT ![d] = r]
  PROVE  act' \in [Deployers -> Doing]
<1>1. act \in [Deployers -> Doing]
  BY DEF TypeOK, Doing
<1> QED
  BY <1>1

LEMMA ActTyped ==
  ASSUME TypeOK, NEW d \in Deployers
  PROVE  act[d] \in Doing
BY DEF TypeOK, Doing

LEMMA GotoTyped ==
  ASSUME TypeOK, NEW d \in Deployers, NEW pc \in Pcs, Goto(d, pc)
  PROVE  act' \in [Deployers -> Doing]
<1>1. [act[d] EXCEPT !.pc = pc] \in Doing
  BY ActTyped DEF Doing
<1> QED
  BY <1>1, SetTyped DEF Goto

LEMMA InitTyped == Init => TypeOK
<1> SUFFICES ASSUME Init PROVE TypeOK
  OBVIOUS
<1>1. queue \in Seq(Job) /\ Len(queue) <= QueueCap
  BY BoundsAssumption DEF Init
<1>2. act \in [Deployers -> Doing]
  BY IdleTyped DEF Init
<1> QED
  BY <1>1, <1>2 DEF Init, TypeOK, Job, Doing

LEMMA QueuedTyped ==
  ASSUME TypeOK, NEW job \in Job, Queued(job)
  PROVE  /\ queue' \in Seq(Job) /\ Len(queue') <= QueueCap
         /\ status' \in [Services -> Statuses]
<1> USE DEF TypeOK, Job, Statuses
<1>1. CASE Len(queue) < QueueCap
  <2>1. queue' = Append(queue, job) /\ status' = status
    BY <1>1 DEF Queued
  <2>2. Len(Append(queue, job)) = Len(queue) + 1
    OBVIOUS
  <2>3. Len(queue) \in Nat
    OBVIOUS
  <2> QED
    BY <1>1, <2>1, <2>2, <2>3, BoundsAssumption
<1>2. CASE ~(Len(queue) < QueueCap)
  BY <1>2 DEF Queued
<1> QED
  BY <1>1, <1>2

LEMMA LeaveTyped ==
  ASSUME TypeOK, NEW d \in Deployers, Leave(d)
  PROVE  /\ lock' \in [Projects -> Deployers \cup {None}]
         /\ act' \in [Deployers -> Doing]
         /\ meddled' \in SUBSET Projects
<1>1. act' \in [Deployers -> Doing]
  BY IdleTyped DEF TypeOK, Leave, Doing
<1> QED
  BY <1>1 DEF TypeOK, Leave, Unlocked

LEMMA CrashTyped ==
  ASSUME TypeOK, Crash, faults' \in Nat,
         status' \in [Services -> Statuses]
  PROVE  TypeOK'
<1>1. queue' \in Seq(Job) /\ Len(queue') <= QueueCap
  BY BoundsAssumption DEF Crash
<1>2. act' \in [Deployers -> Doing]
  BY IdleTyped DEF Crash
<1>3. cut' \in SUBSET Services
  BY DEF TypeOK, Crash, Lost
<1> QED
  BY <1>1, <1>2, <1>3 DEF TypeOK, Crash, Job, Doing, Statuses, repo, asked

LEMMA FaultTyped == TypeOK /\ Fault => faults' \in Nat
BY DEF TypeOK, Fault

LEMMA PoolTyped ==
  ASSUME Base, NEW w \in Workers, PoolStep(w) \/ LoadFails(w)
  PROVE  TypeOK'
<1> w \in Deployers
  BY DEF Deployers
<1>a. TypeOK /\ JobsInv
  BY DEF Base
<1>1. CASE Dequeue(w)
  <2>0. queue \in Seq(Job) /\ queue # <<>> /\ Len(queue) <= QueueCap
    BY <1>a, <1>1 DEF TypeOK, Dequeue, Job
  <2>1. Head(queue) \in Job /\ Tail(queue) \in Seq(Job)
        /\ Len(Tail(queue)) <= QueueCap
    BY <2>0, HeadTailProperties, BoundsAssumption
  <2>2. ProjectOf[Head(queue).svc] \in Projects
    BY <2>1, ServicesAssumption DEF Job
  <2>3. act' \in [Deployers -> Doing]
    BY <1>a, <1>1, <2>1, <2>2, IdleTyped
    DEF TypeOK, Dequeue, Doing, Job, Pcs
  <2> QED
    BY <1>a, <1>1, <2>1, <2>3
    DEF TypeOK, Dequeue, Job, Doing, repo, bounds, asked
<1>2. CASE TryLock(w)
  <2>1. act' \in [Deployers -> Doing]
    BY <1>a, <1>2, GotoTyped DEF TryLock, TakeLock, Pcs
  <2>2. lock' \in [Projects -> Deployers \cup {None}]
    BY <1>a, <1>2 DEF TypeOK, TryLock, TakeLock
  <2> QED
    BY <1>a, <1>2, <2>1, <2>2
    DEF TypeOK, TryLock, Doing, repo, bounds, asked
<1>3. CASE MarkPending(w)
  <2>1. act' \in [Deployers -> Doing]
    BY <1>a, <1>3, GotoTyped DEF MarkPending, Pcs
  <2> QED
    BY <1>a, <1>3, <2>1 DEF TypeOK, MarkPending, Doing, repo, bounds, asked
<1>4. CASE Requeue(w)
  <2>1. [svc |-> act[w].svc, pull |-> act[w].pull] \in Job
    BY <1>a, <1>4 DEF TypeOK, Requeue, At, JobsInv, Serving, Job
  <2>2. act' \in [Deployers -> Doing]
    BY <1>a, <1>4, IdleTyped DEF TypeOK, Requeue, Doing
  <2>3. /\ queue' \in Seq(Job) /\ Len(queue') <= QueueCap
        /\ status' \in [Services -> Statuses]
    BY <1>a, <1>4, <2>1, QueuedTyped DEF Requeue
  <2> QED
    BY <1>a, <1>4, <2>2, <2>3
    DEF TypeOK, Requeue, Job, Doing, Statuses, repo, bounds, asked
<1>5. CASE LoadFails(w)
  <2>1. act' \in [Deployers -> Doing]
    BY <1>a, <1>5, IdleTyped DEF TypeOK, LoadFails, Doing
  <2>2. cut' \in SUBSET Services
    BY <1>a, <1>5 DEF TypeOK, LoadFails, JobsInv, Serving, At
  <2> QED
    BY <1>a, <1>5, <2>1, <2>2, FaultTyped
    DEF TypeOK, LoadFails, Doing, repo, asked
<1> QED
  BY <1>1, <1>2, <1>3, <1>4, <1>5 DEF PoolStep

LEMMA BatchTyped ==
  ASSUME Base, NEW b \in Batches, LockProject(b) \/ BatchStep(b)
  PROVE  TypeOK'
<1> b \in Deployers
  BY DEF Deployers
<1>a. TypeOK /\ JobsInv /\ act[b] \in Doing
  BY ActTyped DEF Base
<1>b. act[b].pc # "idle" => act[b].project \in Projects
  BY <1>a DEF JobsInv
<1>1. CASE LockProject(b)
  <2>1. act' \in [Deployers -> Doing]
    BY <1>a, <1>1, GotoTyped DEF LockProject, TakeLock, Pcs
  <2> QED
    BY <1>a, <1>1, <2>1
    DEF TypeOK, LockProject, TakeLock, Doing, repo, bounds, asked
<1>2. CASE PullProject(b)
  <2> DEFINE p == act[b].project
  <2>1. p \in Projects
    BY <1>b, <1>2 DEF PullProject, At
  <2>2. head[p] \in Nat
    BY <1>a, <2>1 DEF TypeOK
  <2>3. /\ [act[b] EXCEPT !.pc = "next", !.target = head[p]] \in Doing
        /\ [act[b] EXCEPT !.pc = "next", !.pull = TRUE] \in Doing
    BY <1>a, <2>2 DEF Doing, Pcs
  <2>4. act' \in [Deployers -> Doing]
    BY <1>a, <1>2, <2>3, SetTyped DEF PullProject
  <2>5. tree' \in [Projects -> Nat]
    BY <1>a, <1>2, <2>2 DEF TypeOK, PullProject
  <2> QED
    BY <1>a, <1>2, <2>4, <2>5 DEF TypeOK, PullProject, Doing, bounds, asked
<1>3. CASE NextService(b)
  <2> DEFINE s == First(act[b].todo)
             rest == act[b].todo \ {s}
  <2>1. s \in Services
    <3>1. act[b].todo \in SUBSET Services /\ act[b].todo # {}
      BY <1>a, <1>3 DEF Doing, NextService
    <3> QED
      BY <3>1, FirstIsOne
  <2>2. rest \in SUBSET Services
    BY <1>a DEF Doing
  <2>3. act' \in [Deployers -> Doing]
    <3>1. \/ act' = [act EXCEPT ![b] = [@ EXCEPT !.pc = "begin", !.svc = s,
                                                !.todo = rest]]
          \/ act' = [act EXCEPT ![b] = [@ EXCEPT !.todo = rest]]
      BY <1>3 DEF NextService
    <3> HIDE DEF s, rest
    <3>2. /\ [act[b] EXCEPT !.pc = "begin", !.svc = s, !.todo = rest] \in Doing
          /\ [act[b] EXCEPT !.todo = rest] \in Doing
      BY <1>a, <2>1, <2>2 DEF Doing, Pcs
    <3> QED
      BY <1>a, <3>1, <3>2, SetTyped
  <2>4. faults' \in Nat
    BY <1>a, <1>3, FaultTyped DEF TypeOK, NextService
  <2> QED
    BY <1>a, <1>3, <2>3, <2>4 DEF TypeOK, NextService, Doing, repo, asked
<1>4. CASE EndBatch(b)
  BY <1>a, <1>4, LeaveTyped DEF TypeOK, EndBatch, Doing, repo, bounds, asked
<1> QED
  BY <1>1, <1>2, <1>3, <1>4 DEF BatchStep

LEMMA DeployTyped ==
  ASSUME Base, NEW d \in Deployers, DeployStep(d) \/ Expire(d) \/ InsertFails(d)
  PROVE  TypeOK'
<1>a. TypeOK /\ JobsInv /\ act[d] \in Doing
  BY ActTyped DEF Base
<1>b. act[d].pc \in {"begin", "pull", "commit", "build", "finalize", "stamp"}
      => act[d].project \in Projects /\ act[d].svc \in Services
  BY <1>a DEF JobsInv, Serving
<1>1. CASE Begin(d)
  <2>1. act' \in [Deployers -> Doing]
    BY <1>a, <1>1, GotoTyped DEF Begin, Pcs
  <2>2. /\ open' \in [Services -> Nat]
        /\ status' \in [Services -> Statuses]
    <3>1. act[d].svc \in Services
      BY <1>b, <1>1 DEF Begin, At
    <3> QED
      BY <1>a, <1>1, <3>1 DEF TypeOK, Begin, Statuses
  <2> QED
    BY <1>a, <1>1, <2>1, <2>2
    DEF TypeOK, Begin, Doing, Statuses, repo, bounds, asked
<1>2. CASE PullService(d)
  <2>1. act[d].project \in Projects
    BY <1>b, <1>2 DEF PullService, At
  <2>2. tree' \in [Projects -> Nat]
    BY <1>a, <1>2, <2>1 DEF TypeOK, PullService
  <2>3. [act[d] EXCEPT !.pc = "finalize", !.ok = FALSE, !.commit = 0] \in Doing
    BY <1>a DEF Doing, Pcs
  <2>4. act' \in [Deployers -> Doing]
    BY <1>a, <1>2, <2>3, SetTyped, GotoTyped DEF PullService, Pcs
  <2> QED
    BY <1>a, <1>2, <2>2, <2>4 DEF TypeOK, PullService, Doing, bounds, asked
<1>3. CASE ReadCommit(d)
  <2>1. PICK c \in {tree[act[d].project], act[d].target} :
          act' = [act EXCEPT ![d] = [@ EXCEPT !.pc = "build", !.commit = c]]
    BY <1>3 DEF ReadCommit
  <2>2. act[d].project \in Projects
    BY <1>b, <1>3 DEF ReadCommit, At
  <2>3. c \in Nat
    BY <1>a, <2>1, <2>2 DEF TypeOK, Doing
  <2>4. [act[d] EXCEPT !.pc = "build", !.commit = c] \in Doing
    BY <1>a, <2>3 DEF Doing, Pcs
  <2>5. act' \in [Deployers -> Doing]
    BY <1>a, <2>1, <2>4, SetTyped
  <2> QED
    BY <1>a, <1>3, <2>5 DEF TypeOK, ReadCommit, Doing, repo, bounds, asked
<1>4. CASE Build(d)
  <2> DEFINE Built(ok) == IF ok THEN tree[act[d].project] ELSE 0
  <2>1. PICK ok \in BOOLEAN :
          act' = [act EXCEPT ![d] = [@ EXCEPT !.pc = "finalize", !.ok = ok,
                                              !.built = Built(ok)]]
    BY <1>4 DEF Build
  <2>2. act[d].project \in Projects
    BY <1>b, <1>4 DEF Build, At
  <2>3. Built(ok) \in Nat
    BY <1>a, <2>2 DEF TypeOK
  <2>4. [act[d] EXCEPT !.pc = "finalize", !.ok = ok, !.built = Built(ok)]
          \in Doing
    <3> HIDE DEF Built
    <3> QED
      BY <1>a, <2>3 DEF Doing, Pcs
  <2>5. act' \in [Deployers -> Doing]
    BY <1>a, <2>1, <2>4, SetTyped
  <2> QED
    BY <1>a, <1>4, <2>5 DEF TypeOK, Build, Doing, repo, bounds, asked
<1>5. CASE Finalize(d)
  <2>1. act[d].svc \in Services /\ open[act[d].svc] > 0
    BY <1>b, <1>5 DEF Finalize, At, Base, OpenInv, InFlight
  <2>2. open' \in [Services -> Nat]
    BY <1>a, <1>5, <2>1 DEF TypeOK, Finalize
  <2>3. cut' \in SUBSET Services
    BY <1>a, <1>5, <2>1 DEF TypeOK, Finalize
  <2>4. [act[d] EXCEPT !.pc = "stamp", !.ok = FALSE, !.commit = 0, !.built = 0]
          \in Doing
    BY <1>a DEF Doing, Pcs
  <2>5. act' \in [Deployers -> Doing]
    BY <1>a, <1>5, <2>4, SetTyped DEF Finalize
  <2> QED
    BY <1>a, <1>5, <2>2, <2>3, <2>5
    DEF TypeOK, Finalize, Doing, repo, bounds, asked
<1>6. CASE StampService(d)
  <2>1. act[d].svc \in Services
    BY <1>b, <1>6 DEF StampService, At
  <2>2. cut' \in SUBSET Services /\ status' \in [Services -> Statuses]
    BY <1>a, <1>6, <2>1 DEF TypeOK, StampService, Statuses
  <2>3. [act[d] EXCEPT !.pc = "next", !.svc = None, !.expired = FALSE] \in Doing
    BY <1>a DEF Doing, Pcs
  <2>4. act' \in [Deployers -> Doing]
    BY <1>a, <1>6, <2>3, SetTyped, LeaveTyped DEF StampService
  <2>5. /\ lock' \in [Projects -> Deployers \cup {None}]
        /\ meddled' \in SUBSET Projects
    BY <1>a, <1>6, LeaveTyped DEF TypeOK, StampService
  <2> QED
    BY <1>a, <1>6, <2>2, <2>4, <2>5
    DEF TypeOK, StampService, Doing, Statuses, repo, bounds, asked
<1>7. CASE Expire(d)
  <2>1. [act[d] EXCEPT !.expired = TRUE] \in Doing
    BY <1>a DEF Doing
  <2>2. act' \in [Deployers -> Doing] /\ faults' \in Nat
    BY <1>a, <1>7, <2>1, SetTyped, FaultTyped DEF Expire
  <2> QED
    BY <1>a, <1>7, <2>2 DEF TypeOK, Expire, Doing, repo, asked
<1>8. CASE InsertFails(d)
  <2>1. faults' \in Nat /\ status' \in [Services -> Statuses]
    BY <1>a, <1>8, FaultTyped DEF TypeOK, InsertFails, Statuses
  <2>2. CASE d \in Workers /\ Leave(d) /\ UNCHANGED <<queue, open, repo, asked, cut>>
    BY <1>a, <2>1, <2>2, LeaveTyped
    DEF TypeOK, Doing, Statuses, repo, asked
  <2>3. CASE Crash
    BY <1>a, <2>1, <2>3, CrashTyped
  <2> QED
    BY <1>8, <2>2, <2>3 DEF InsertFails
<1> QED
  BY <1>1, <1>2, <1>3, <1>4, <1>5, <1>6, <1>7, <1>8 DEF DeployStep

LEMMA OtherTyped ==
  ASSUME Base,
         \/ \E s \in Services, pull \in BOOLEAN : DeployService(s, pull)
         \/ \E b \in Batches, p \in Projects :
              \E todo \in SUBSET {s \in Services : ProjectOf[s] = p} :
                todo # {} /\ LaunchBatch(b, p, todo)
         \/ \E p \in Projects : Push(p) \/ OperatorPull(p)
         \/ Restart
         \/ UNCHANGED vars
  PROVE  TypeOK'
<1>a. TypeOK
  BY DEF Base
<1>1. ASSUME NEW s \in Services, NEW pull \in BOOLEAN, DeployService(s, pull)
      PROVE  TypeOK'
  <2>1. [svc |-> s, pull |-> pull] \in Job
    BY DEF Job
  <2>2. /\ queue' \in Seq(Job) /\ Len(queue') <= QueueCap
        /\ status' \in [Services -> Statuses]
    BY <1>a, <1>1, <2>1, QueuedTyped DEF DeployService
  <2> QED
    BY <1>a, <1>1, <2>2 DEF TypeOK, DeployService, Job, Statuses, repo
<1>2. ASSUME NEW b \in Batches, NEW p \in Projects,
             NEW todo \in SUBSET {s \in Services : ProjectOf[s] = p},
             LaunchBatch(b, p, todo)
      PROVE  TypeOK'
  <2>1. [Idle EXCEPT !.pc = "lock", !.project = p, !.todo = todo] \in Doing
    BY IdleTyped DEF Doing, Pcs
  <2>2. act' \in [Deployers -> Doing]
    BY <1>a, <1>2, <2>1, SetTyped DEF LaunchBatch, Deployers
  <2>3. batches' \in Nat
    <3>1. batches' = batches + 1
      BY <1>2 DEF LaunchBatch
    <3> QED
      BY <1>a, <3>1 DEF TypeOK
  <2>4. UNCHANGED <<queue, lock, status, open, repo, redeploys, faults, meddled,
                    cut>>
    BY <1>2 DEF LaunchBatch
  <2> QED
    BY <1>a, <2>2, <2>3, <2>4 DEF TypeOK, Doing, repo
<1>3. ASSUME NEW p \in Projects, Push(p)
      PROVE  TypeOK'
  BY <1>a, <1>3 DEF TypeOK, Push, bounds, asked
<1>4. ASSUME NEW p \in Projects, OperatorPull(p)
      PROVE  TypeOK'
  <2>1. tree' \in [Projects -> Nat] /\ meddled' \in SUBSET Projects
    BY <1>a, <1>4 DEF TypeOK, OperatorPull
  <2> QED
    BY <1>a, <1>4, <2>1 DEF TypeOK, OperatorPull, bounds, asked
<1>5. ASSUME Restart PROVE TypeOK'
  <2>1. faults' \in Nat
    BY <1>a, <1>5, FaultTyped DEF Restart
  <2>2. status' \in [Services -> Statuses]
    BY <1>a, <1>5 DEF Restart, TypeOK, Statuses
  <2> QED
    BY <1>a, <1>5, <2>1, <2>2, CrashTyped DEF Restart
<1>6. ASSUME UNCHANGED vars PROVE TypeOK'
  BY <1>a, <1>6 DEF TypeOK, vars, repo, bounds, asked
<1> QED
  BY <1>1, <1>2, <1>3, <1>4, <1>5, <1>6

LEMMA StepTyped == Base /\ [Next]_vars => TypeOK'
<1> SUFFICES ASSUME Base, [Next]_vars PROVE TypeOK'
  OBVIOUS
<1>1. ASSUME NEW w \in Workers, PoolStep(w) \/ LoadFails(w) PROVE TypeOK'
  BY <1>1, PoolTyped
<1>2. ASSUME NEW b \in Batches, LockProject(b) \/ BatchStep(b) PROVE TypeOK'
  BY <1>2, BatchTyped
<1>3. ASSUME NEW d \in Deployers,
             DeployStep(d) \/ InsertFails(d) \/ Expire(d)
      PROVE  TypeOK'
  BY <1>3, DeployTyped
<1> QED
  BY <1>1, <1>2, <1>3, OtherTyped DEF Next

-----------------------------------------------------------------------------
(* One deployer past the mutex                                             *)

LEMMA PoolKeeps ==
  ASSUME Base, NEW w \in Workers, PoolStep(w) \/ LoadFails(w)
  PROVE  JobsInv' /\ LockInv' /\ OpenInv'
<1> USE DEF JobsInv, LockInv, OpenInv, Holding, InFlight, Serving, Pcs
<1> w \in Deployers
  BY DEF Deployers
<1>a. act \in [Deployers -> Doing] /\ lock \in [Projects -> Deployers \cup {None}]
  BY DEF Base, TypeOK, Doing
<1>b. JobsInv /\ LockInv /\ OpenInv
  BY DEF Base
<1>1. CASE Dequeue(w)
  <2>0. queue \in Seq(Job) /\ queue # <<>>
    BY <1>1 DEF Base, TypeOK, Dequeue, Job
  <2>1. Head(queue) \in Job
    BY <2>0, HeadTailProperties
  <2>2. ProjectOf[Head(queue).svc] \in Projects /\ Head(queue).svc \in Services
    BY <2>1, ServicesAssumption DEF Job
  <2>3. \A e \in Deployers : e # w => act'[e] = act[e]
    BY <1>a, <1>1 DEF Dequeue
  <2>4. act'[w].pc = "trylock" /\ act'[w].svc = Head(queue).svc
        /\ act'[w].project = ProjectOf[Head(queue).svc] /\ act'[w].todo = {}
    BY <1>a, <1>1 DEF Dequeue, Idle
  <2> QED
    BY <1>b, <1>1, <2>2, <2>3, <2>4 DEF Dequeue
<1>2. CASE TryLock(w)
  <2> DEFINE p == act[w].project
             pc == IF Free(p) THEN "begin" ELSE "contended"
  <2>1. act' = [act EXCEPT ![w].pc = pc] /\ act[w].pc = "trylock"
    BY <1>2 DEF TryLock, TakeLock, Goto, At
  <2>2. \A e \in Deployers : e # w => act'[e] = act[e]
    BY <1>a, <2>1
  <2>3. act'[w].pc = pc /\ act'[w].project = p /\ act'[w].svc = act[w].svc
        /\ act'[w].todo = act[w].todo
    BY <1>a, <2>1
  <2>4. p \in Projects /\ UNCHANGED open
    BY <1>b, <1>2, <2>1 DEF TryLock
  <2>5. JobsInv' /\ OpenInv'
    BY <1>b, <2>1, <2>2, <2>3, <2>4
  <2>6. CASE Free(p)
    <3>1. lock[p] = None /\ lock' = [lock EXCEPT ![p] = w]
      BY <1>2, <2>6 DEF TryLock, TakeLock, Free
    <3>2. \A e \in Deployers : lock[p] # e
      BY <3>1, DeployersAssumption DEF Deployers
    <3> QED
      BY <1>a, <1>b, <2>2, <2>3, <2>4, <2>5, <3>1, <3>2
  <2>7. CASE ~Free(p)
    BY <1>b, <1>2, <2>2, <2>3, <2>5, <2>7 DEF TryLock
  <2> QED
    BY <2>6, <2>7
<1>3. CASE MarkPending(w)
  BY <1>a, <1>b, <1>3 DEF MarkPending, Goto, At
<1>4. CASE Requeue(w)
  BY <1>a, <1>b, <1>4 DEF Requeue, Idle
<1>5. CASE LoadFails(w)
  BY <1>a, <1>b, <1>5 DEF LoadFails, Idle
<1> QED
  BY <1>1, <1>2, <1>3, <1>4, <1>5 DEF PoolStep

LEMMA LeaveKeeps ==
  ASSUME Base, NEW d \in Deployers, act[d].pc \in Holding, Leave(d), UNCHANGED open
  PROVE  JobsInv' /\ LockInv' /\ OpenInv'
<1> USE DEF JobsInv, LockInv, OpenInv, Holding, InFlight, Serving, Pcs
<1>1. act \in [Deployers -> Doing] /\ lock \in [Projects -> Deployers \cup {None}]
      /\ JobsInv /\ LockInv /\ OpenInv
  BY DEF Base, TypeOK, Doing
<1>2. act' = [act EXCEPT ![d] = Idle]
      /\ lock' = [lock EXCEPT ![act[d].project] = None]
  BY DEF Leave, Unlocked
<1>3. \A e \in Deployers : e # d => act'[e] = act[e]
  BY <1>1, <1>2
<1>4. act'[d].pc = "idle" /\ act'[d].svc = None /\ act'[d].todo = {}
  BY <1>1, <1>2 DEF Idle
<1>5. JobsInv' /\ OpenInv'
  BY <1>1, <1>3, <1>4
<1>6. ASSUME NEW e \in Deployers, e # d, act[e].pc \in Holding
      PROVE  act[e].project # act[d].project
  BY <1>1, <1>6
<1>7. LockInv'
  BY <1>1, <1>2, <1>3, <1>4, <1>6
<1> QED
  BY <1>5, <1>7

LEMMA CrashKeeps ==
  ASSUME Crash
  PROVE  JobsInv' /\ LockInv' /\ OpenInv'
BY DEF Crash, Idle, JobsInv, LockInv, OpenInv, Holding, InFlight, Serving, Pcs

LEMMA BatchKeeps ==
  ASSUME Base, NEW b \in Batches, LockProject(b) \/ BatchStep(b)
  PROVE  JobsInv' /\ LockInv' /\ OpenInv'
<1> USE DEF JobsInv, LockInv, OpenInv, Holding, InFlight, Serving, Pcs
<1> b \in Deployers
  BY DEF Deployers
<1>a. act \in [Deployers -> Doing] /\ lock \in [Projects -> Deployers \cup {None}]
      /\ JobsInv /\ LockInv /\ OpenInv
  BY DEF Base, TypeOK, Doing
<1>b. act[b] \in Doing
  BY <1>a
<1>1. CASE LockProject(b)
  <2> DEFINE p == act[b].project
  <2>1. act' = [act EXCEPT ![b].pc = "pull_project"] /\ act[b].pc = "lock"
        /\ lock[p] = None /\ lock' = [lock EXCEPT ![p] = b] /\ UNCHANGED open
    BY <1>1 DEF LockProject, TakeLock, Goto, At
  <2>2. \A e \in Deployers : e # b => act'[e] = act[e]
    BY <1>a, <2>1
  <2>3. act'[b].pc = "pull_project" /\ act'[b].project = p
        /\ act'[b].todo = act[b].todo
    BY <1>a, <2>1
  <2>4. p \in Projects /\ \A e \in Deployers : lock[p] # e
    BY <1>a, <2>1, DeployersAssumption DEF Deployers
  <2> QED
    BY <1>a, <2>1, <2>2, <2>3, <2>4
<1>2. CASE PullProject(b)
  <2> DEFINE h == head[act[b].project]
  <2>1. \/ act' = [act EXCEPT ![b] = [@ EXCEPT !.pc = "next", !.target = h]]
        \/ act' = [act EXCEPT ![b] = [@ EXCEPT !.pc = "next", !.pull = TRUE]]
    BY <1>2 DEF PullProject
  <2> HIDE DEF h
  <2>2. \A e \in Deployers : e # b => act'[e] = act[e]
    BY <1>a, <2>1
  <2>3. \/ act'[b] = [act[b] EXCEPT !.pc = "next", !.target = h]
        \/ act'[b] = [act[b] EXCEPT !.pc = "next", !.pull = TRUE]
    BY <1>a, <2>1
  <2>4. act'[b].pc = "next" /\ act'[b].project = act[b].project
        /\ act'[b].todo = act[b].todo
    BY <1>b, <2>3 DEF Doing
  <2>5. act[b].pc = "pull_project" /\ UNCHANGED <<lock, open>>
    BY <1>2 DEF PullProject, At
  <2> QED
    BY <1>a, <2>2, <2>4, <2>5
<1>3. CASE NextService(b)
  <2> DEFINE s == First(act[b].todo)
  <2>1. s \in act[b].todo /\ s \in Services
    <3>1. act[b].todo \in SUBSET Services /\ act[b].todo # {}
      BY <1>a, <1>3 DEF Doing, NextService
    <3> QED
      BY <3>1, FirstIsOne
  <2> HIDE DEF s
  <2>2. \/ act' = [act EXCEPT ![b] = [@ EXCEPT !.pc = "begin", !.svc = s,
                                              !.todo = act[b].todo \ {s}]]
        \/ act' = [act EXCEPT ![b] = [@ EXCEPT !.todo = act[b].todo \ {s}]]
    BY <1>3 DEF NextService, s
  <2>3. act[b].pc = "next" /\ UNCHANGED <<lock, open>>
    BY <1>3 DEF NextService, At
  <2> DEFINE rest == act[b].todo \ {s}
  <2> HIDE DEF rest
  <2>4. \A e \in Deployers : e # b => act'[e] = act[e]
    BY <1>a, <2>2
  <2>5. \/ act'[b] = [act[b] EXCEPT !.pc = "begin", !.svc = s, !.todo = rest]
        \/ act'[b] = [act[b] EXCEPT !.todo = rest]
    BY <1>a, <2>2 DEF rest
  <2>6. act'[b].project = act[b].project /\ act'[b].todo = rest
    BY <1>b, <2>5 DEF Doing
  <2>7. act'[b].pc = "next" \/ (act'[b].pc = "begin" /\ act'[b].svc = s)
    BY <1>b, <2>3, <2>5 DEF Doing
  <2> QED
    BY <1>a, <2>1, <2>3, <2>4, <2>6, <2>7 DEF rest
<1>4. CASE EndBatch(b)
  <2>1. Leave(b) /\ UNCHANGED open /\ act[b].pc = "next"
    BY <1>4 DEF EndBatch, At
  <2> QED
    BY <2>1, LeaveKeeps
<1> QED
  BY <1>1, <1>2, <1>3, <1>4 DEF BatchStep

Deploying == {"begin", "pull", "commit", "build", "finalize", "stamp"}

LEMMA MoveKeeps ==
  ASSUME Base, NEW d \in Deployers, act[d].pc \in Deploying, NEW r,
         act' = [act EXCEPT ![d] = r], UNCHANGED lock,
         r.project = act[d].project, r.todo = act[d].todo,
         \/ r.pc \in Deploying /\ r.svc = act[d].svc
         \/ r.pc = "next",
         \A s \in Services \ {act[d].svc} : open'[s] = open[s],
         r.pc \in InFlight => open'[act[d].svc] > 0
  PROVE  JobsInv' /\ LockInv' /\ OpenInv'
<1> USE DEF JobsInv, LockInv, OpenInv, Holding, InFlight, Serving, Pcs, Deploying
<1>1. act \in [Deployers -> Doing] /\ JobsInv /\ LockInv /\ OpenInv
  BY DEF Base, TypeOK, Doing
<1>2. act'[d] = r /\ \A e \in Deployers : e # d => act'[e] = act[e]
  BY <1>1
<1>3. JobsInv'
  BY <1>1, <1>2
<1>4. LockInv'
  BY <1>1, <1>2
<1>5. ASSUME NEW e \in Deployers, e # d, act[e].pc \in InFlight
      PROVE  act[e].svc \in Services \ {act[d].svc}
  BY <1>1, <1>5
<1>6. OpenInv'
  BY <1>1, <1>2, <1>5
<1> QED
  BY <1>3, <1>4, <1>6

LEMMA DeployKeeps ==
  ASSUME Base, NEW d \in Deployers, DeployStep(d) \/ Expire(d) \/ InsertFails(d)
  PROVE  JobsInv' /\ LockInv' /\ OpenInv'
<1>a. /\ TypeOK /\ JobsInv /\ LockInv /\ OpenInv
      /\ act \in [Deployers -> Doing] /\ act[d] \in Doing
  BY ActTyped DEF Base, TypeOK, Doing
<1>b. act[d].pc \in Deploying
      => act[d].project \in Projects /\ act[d].svc \in Services
  BY <1>a DEF JobsInv, Serving, Deploying
<1>1. CASE Begin(d)
  <2> DEFINE r == [act[d] EXCEPT !.pc = IF Pulls(d) THEN "pull" ELSE "commit"]
  <2>1. act' = [act EXCEPT ![d] = r] /\ act[d].pc \in Deploying
        /\ UNCHANGED lock /\ open' = [open EXCEPT ![act[d].svc] = @ + 1]
    BY <1>1 DEF Begin, Goto, At, Deploying
  <2>2. /\ r.project = act[d].project /\ r.todo = act[d].todo
        /\ r.pc \in Deploying /\ r.svc = act[d].svc
    BY <1>a DEF Doing, Deploying
  <2>3. /\ \A s \in Services \ {act[d].svc} : open'[s] = open[s]
        /\ open'[act[d].svc] > 0
    BY <1>a, <1>b, <2>1 DEF TypeOK
  <2> HIDE DEF r
  <2> QED
    BY <2>1, <2>2, <2>3, MoveKeeps
<1>2. CASE PullService(d)
  <2> DEFINE r1 == [act[d] EXCEPT !.pc = "commit"]
             r2 == [act[d] EXCEPT !.pc = "finalize", !.ok = FALSE, !.commit = 0]
  <2>1. act' = [act EXCEPT ![d] = r1] \/ act' = [act EXCEPT ![d] = r2]
    BY <1>2 DEF PullService, Goto
  <2>2. act[d].pc = "pull" /\ UNCHANGED <<lock, open>>
    BY <1>2 DEF PullService, At
  <2>3. act[d].pc \in Deploying /\ open[act[d].svc] > 0
    BY <1>a, <2>2 DEF Deploying, OpenInv, InFlight
  <2>4. ASSUME NEW r \in {r1, r2}
        PROVE  /\ r.project = act[d].project /\ r.todo = act[d].todo
               /\ r.pc \in Deploying /\ r.svc = act[d].svc
    BY <1>a DEF Doing, Deploying
  <2> HIDE DEF r1, r2
  <2> QED
    BY <2>1, <2>2, <2>3, <2>4, MoveKeeps
<1>3. CASE ReadCommit(d)
  <2>1. PICK c : act' = [act EXCEPT ![d] = [@ EXCEPT !.pc = "build", !.commit = c]]
    BY <1>3 DEF ReadCommit
  <2> DEFINE r == [act[d] EXCEPT !.pc = "build", !.commit = c]
  <2>2. act[d].pc = "commit" /\ UNCHANGED <<lock, open>>
    BY <1>3 DEF ReadCommit, At
  <2>3. act[d].pc \in Deploying /\ open[act[d].svc] > 0
    BY <1>a, <2>2 DEF Deploying, OpenInv, InFlight
  <2>4. /\ r.project = act[d].project /\ r.todo = act[d].todo
        /\ r.pc \in Deploying /\ r.svc = act[d].svc
    BY <1>a DEF Doing, Deploying
  <2>5. act' = [act EXCEPT ![d] = r]
    BY <2>1
  <2> HIDE DEF r
  <2> QED
    BY <2>2, <2>3, <2>4, <2>5, MoveKeeps
<1>4. CASE Build(d)
  <2>1. PICK ok, b : act' = [act EXCEPT ![d] = [@ EXCEPT !.pc = "finalize",
                                                 !.ok = ok, !.built = b]]
    BY <1>4 DEF Build
  <2> DEFINE r == [act[d] EXCEPT !.pc = "finalize", !.ok = ok, !.built = b]
  <2>2. act[d].pc = "build" /\ UNCHANGED <<lock, open>>
    BY <1>4 DEF Build, At
  <2>3. act[d].pc \in Deploying /\ open[act[d].svc] > 0
    BY <1>a, <2>2 DEF Deploying, OpenInv, InFlight
  <2>4. /\ r.project = act[d].project /\ r.todo = act[d].todo
        /\ r.pc \in Deploying /\ r.svc = act[d].svc
    BY <1>a DEF Doing, Deploying
  <2>5. act' = [act EXCEPT ![d] = r]
    BY <2>1
  <2> HIDE DEF r
  <2> QED
    BY <2>2, <2>3, <2>4, <2>5, MoveKeeps
<1>5. CASE Finalize(d)
  <2> DEFINE r == [act[d] EXCEPT !.pc = "stamp", !.ok = FALSE, !.commit = 0,
                                 !.built = 0]
  <2>1. act' = [act EXCEPT ![d] = r] /\ act[d].pc \in Deploying
        /\ UNCHANGED lock
    BY <1>5 DEF Finalize, At, Deploying
  <2>2. open' = open \/ open' = [open EXCEPT ![act[d].svc] = @ - 1]
    BY <1>5 DEF Finalize
  <2>3. /\ r.project = act[d].project /\ r.todo = act[d].todo
        /\ r.pc = "stamp" /\ r.svc = act[d].svc
    BY <1>a DEF Doing
  <2>4. r.pc \in Deploying /\ r.pc \notin InFlight
    BY <2>3 DEF Deploying, InFlight
  <2>5. \A s \in Services \ {act[d].svc} : open'[s] = open[s]
    BY <1>a, <2>2 DEF TypeOK
  <2> HIDE DEF r
  <2> QED
    BY <2>1, <2>3, <2>4, <2>5, MoveKeeps
<1>6. CASE StampService(d)
  <2>1. act[d].pc = "stamp" /\ UNCHANGED open
    BY <1>6 DEF StampService, At
  <2>2. CASE Leave(d)
    BY <2>1, <2>2, LeaveKeeps DEF Holding, Pcs
  <2>3. CASE ~Leave(d)
    <3> DEFINE r == [act[d] EXCEPT !.pc = "next", !.svc = None, !.expired = FALSE]
    <3>1. act' = [act EXCEPT ![d] = r] /\ UNCHANGED lock
      BY <1>6, <2>3 DEF StampService
    <3>2. /\ r.project = act[d].project /\ r.todo = act[d].todo
          /\ r.pc = "next"
      BY <1>a DEF Doing
    <3>3. act[d].pc \in Deploying /\ r.pc \notin InFlight
      BY <2>1, <3>2 DEF Deploying, InFlight
    <3> HIDE DEF r
    <3> QED
      BY <2>1, <3>1, <3>2, <3>3, MoveKeeps
  <2> QED
    BY <2>2, <2>3
<1>7. CASE Expire(d)
  <2> DEFINE r == [act[d] EXCEPT !.expired = TRUE]
  <2>1. /\ act' = [act EXCEPT ![d] = r] /\ UNCHANGED <<lock, open>>
        /\ act[d].pc \in {"finalize", "stamp"}
    BY <1>7 DEF Expire
  <2>2. /\ r.project = act[d].project /\ r.todo = act[d].todo
        /\ r.pc = act[d].pc /\ r.svc = act[d].svc
    BY <1>a DEF Doing
  <2>3. /\ act[d].pc \in Deploying
        /\ act[d].pc \in InFlight => open[act[d].svc] > 0
    BY <1>a, <2>1 DEF Deploying, OpenInv
  <2> HIDE DEF r
  <2> QED
    BY <2>1, <2>2, <2>3, MoveKeeps
<1>8. CASE InsertFails(d)
  <2>1. CASE Leave(d) /\ UNCHANGED open
    BY <1>8, <2>1, LeaveKeeps DEF InsertFails, At, Holding, Pcs
  <2>2. CASE Crash
    BY <2>2, CrashKeeps
  <2> QED
    BY <1>8, <2>1, <2>2 DEF InsertFails
<1> QED
  BY <1>1, <1>2, <1>3, <1>4, <1>5, <1>6, <1>7, <1>8 DEF DeployStep

LEMMA OtherKeeps ==
  ASSUME Base,
         \/ \E s \in Services, pull \in BOOLEAN : DeployService(s, pull)
         \/ \E b \in Batches, p \in Projects :
              \E todo \in SUBSET {s \in Services : ProjectOf[s] = p} :
                todo # {} /\ LaunchBatch(b, p, todo)
         \/ \E p \in Projects : Push(p) \/ OperatorPull(p)
         \/ Restart
         \/ UNCHANGED vars
  PROVE  JobsInv' /\ LockInv' /\ OpenInv'
<1>a. act \in [Deployers -> Doing] /\ JobsInv /\ LockInv /\ OpenInv
  BY DEF Base, TypeOK, Doing
<1>1. CASE UNCHANGED <<act, lock, open>>
  BY <1>a, <1>1 DEF JobsInv, LockInv, OpenInv
<1>2. ASSUME NEW b \in Batches, NEW p \in Projects,
             NEW todo \in SUBSET {s \in Services : ProjectOf[s] = p},
             LaunchBatch(b, p, todo)
      PROVE  JobsInv' /\ LockInv' /\ OpenInv'
  <2> DEFINE r == [Idle EXCEPT !.pc = "lock", !.project = p, !.todo = todo]
  <2>1. act' = [act EXCEPT ![b] = r] /\ UNCHANGED <<lock, open>>
    BY <1>2 DEF LaunchBatch
  <2>2. r.pc = "lock" /\ r.project = p /\ r.todo = todo
    BY DEF Idle
  <2> HIDE DEF r
  <2>3. act'[b] = r /\ \A e \in Deployers : e # b => act'[e] = act[e]
    BY <1>a, <2>1 DEF Deployers
  <2> QED
    BY <1>a, <2>1, <2>2, <2>3
    DEF JobsInv, LockInv, OpenInv, Holding, InFlight, Serving, Pcs
<1>3. CASE Restart
  BY <1>3, CrashKeeps DEF Restart
<1> QED
  BY <1>1, <1>2, <1>3 DEF DeployService, Push, OperatorPull, vars

LEMMA InitBase == Init => Base
<1> SUFFICES ASSUME Init PROVE Base
  OBVIOUS
<1>1. \A d \in Deployers : act[d] = Idle
  BY DEF Init
<1> QED
  BY <1>1, InitTyped
  DEF Base, JobsInv, LockInv, OpenInv, Idle, Holding, InFlight, Serving, Pcs

LEMMA StepBase == Base /\ [Next]_vars => Base'
<1> SUFFICES ASSUME Base, [Next]_vars PROVE JobsInv' /\ LockInv' /\ OpenInv'
  BY StepTyped DEF Base
<1>1. ASSUME NEW w \in Workers, PoolStep(w) \/ LoadFails(w)
      PROVE  JobsInv' /\ LockInv' /\ OpenInv'
  BY <1>1, PoolKeeps
<1>2. ASSUME NEW b \in Batches, LockProject(b) \/ BatchStep(b)
      PROVE  JobsInv' /\ LockInv' /\ OpenInv'
  BY <1>2, BatchKeeps
<1>3. ASSUME NEW d \in Deployers,
             DeployStep(d) \/ InsertFails(d) \/ Expire(d)
      PROVE  JobsInv' /\ LockInv' /\ OpenInv'
  BY <1>3, DeployKeeps
<1> QED
  BY <1>1, <1>2, <1>3, OtherKeeps DEF Next

LEMMA AlwaysBase == Spec => []Base
BY InitBase, StepBase, PTL DEF Spec

\* Whatever the workers, the batches and the faults do, the state is well
\* typed and the queue stays within its capacity.
THEOREM TypeCorrect == Spec => []TypeOK
<1>1. Base => TypeOK
  BY DEF Base
<1> QED
  BY <1>1, AlwaysBase, PTL

\* runDeploy and runProjectPullAndEnqueue never have two deploys of one
\* project under way.
THEOREM OneDeployPerProjectAlways == Spec => []OneDeployPerProject
<1>1. Base => OneDeployPerProject
  BY DEF Base, LockInv, OneDeployPerProject
<1> QED
  BY <1>1, AlwaysBase, PTL

-----------------------------------------------------------------------------
(* A deploy builds what it reports.  What deployer record r is going to    *)
(* report agrees with the project's tree t, because only the holder of the *)
(* mutex, or an operator's pull, moves that tree.                          *)

Aimed(r) ==
  /\ r.pc \notin Holding \/ r.pull => r.target = 0
  /\ r.pc \in {"lock", "pull_project"} => ~r.pull /\ r.target = 0
  /\ r.pc = "pull" => r.pull

Faithful(r, t) ==
  /\ r.target \in {0, t}
  /\ r.pc = "build" => r.commit \in {0, t}
  /\ r.pc = "finalize" /\ r.ok => r.built = t /\ r.commit \in {0, t}

SourceInv ==
  \A d \in Deployers :
    /\ Aimed(act[d])
    /\ act[d].pc \in Holding /\ act[d].project \notin meddled
         => Faithful(act[d], tree[act[d].project])

LEMMA SourceMove ==
  ASSUME Base, SourceInv, NEW d \in Deployers, NEW r,
         act' = [act EXCEPT ![d] = r],
         Aimed(r),
         r.pc \in Holding /\ r.project \notin meddled'
           => Faithful(r, tree'[r.project]),
         \A p \in Projects : lock[p] # d =>
           tree'[p] = tree[p] /\ (p \in meddled => p \in meddled')
  PROVE  SourceInv'
<1>1. act \in [Deployers -> Doing] /\ JobsInv /\ LockInv
  BY DEF Base, TypeOK, Doing
<1>2. act'[d] = r /\ \A e \in Deployers : e # d => act'[e] = act[e]
  BY <1>1
<1> SUFFICES ASSUME NEW e \in Deployers, e # d
             PROVE  /\ Aimed(act[e])
                    /\ act[e].pc \in Holding /\ act[e].project \notin meddled'
                         => Faithful(act[e], tree'[act[e].project])
  BY <1>2 DEF SourceInv
<1>3. Aimed(act[e])
  BY DEF SourceInv
<1>4. ASSUME act[e].pc \in Holding, act[e].project \notin meddled'
      PROVE  Faithful(act[e], tree'[act[e].project])
  <2>1. act[e].project \in Projects /\ lock[act[e].project] # d
    BY <1>1, <1>4 DEF JobsInv, LockInv, Holding
  <2>2. Faithful(act[e], tree[act[e].project])
    BY <1>4, <2>1 DEF SourceInv
  <2> QED
    BY <2>1, <2>2
<1> QED
  BY <1>3, <1>4

LEMMA SourceLeave ==
  ASSUME Base, SourceInv, NEW d \in Deployers, act[d].pc \in Holding,
         Leave(d), UNCHANGED tree
  PROVE  SourceInv'
<1>1. act' = [act EXCEPT ![d] = Idle] /\ meddled' = meddled \ {act[d].project}
  BY DEF Leave
<1>2. Aimed(Idle) /\ Idle.pc \notin Holding
  BY DEF Aimed, Idle, Holding
<1>3. \A p \in Projects : lock[p] # d => (p \in meddled => p \in meddled')
  BY <1>1 DEF Base, LockInv
<1> QED
  BY <1>1, <1>2, <1>3, SourceMove

LEMMA SourceCrash == Crash => SourceInv'
BY DEF Crash, SourceInv, Aimed, Idle, Holding, Pcs

LEMMA SourcePool ==
  ASSUME Base, SourceInv, NEW w \in Workers, PoolStep(w) \/ LoadFails(w)
  PROVE  SourceInv'
<1> w \in Deployers
  BY DEF Deployers
<1>a. act[w] \in Doing /\ Aimed(act[w]) /\ UNCHANGED <<tree, meddled>>
  BY ActTyped DEF Base, SourceInv, PoolStep, LoadFails, Dequeue, TryLock,
                  MarkPending, Requeue, repo
<1>1. CASE Dequeue(w)
  <2> DEFINE r == [Idle EXCEPT !.pc = "trylock", !.svc = Head(queue).svc,
                               !.project = ProjectOf[Head(queue).svc],
                               !.pull = Head(queue).pull]
  <2>1. act' = [act EXCEPT ![w] = r]
    BY <1>1 DEF Dequeue
  <2>2. Aimed(r) /\ r.pc \notin Holding
    BY DEF Aimed, Idle, Holding
  <2> HIDE DEF r
  <2> QED
    BY <1>a, <2>1, <2>2, SourceMove
<1>2. CASE TryLock(w) \/ MarkPending(w)
  <2>1. PICK pc \in {"begin", "contended", "backoff"} :
          act' = [act EXCEPT ![w] = [@ EXCEPT !.pc = pc]]
    BY <1>2 DEF TryLock, TakeLock, MarkPending, Goto
  <2>2. act[w].pc \in {"trylock", "contended"}
    BY <1>2 DEF TryLock, MarkPending, At
  <2> DEFINE r == [act[w] EXCEPT !.pc = pc]
  <2>3. Aimed(r) /\ \A t : Faithful(r, t)
    BY <1>a, <2>2 DEF Aimed, Faithful, Doing, Holding, Pcs
  <2>4. act' = [act EXCEPT ![w] = r]
    BY <2>1
  <2> HIDE DEF r
  <2> QED
    BY <1>a, <2>3, <2>4, SourceMove
<1>3. CASE Requeue(w) \/ LoadFails(w)
  <2>1. act' = [act EXCEPT ![w] = Idle]
    BY <1>3 DEF Requeue, LoadFails
  <2>2. Aimed(Idle) /\ Idle.pc \notin Holding
    BY DEF Aimed, Idle, Holding
  <2> QED
    BY <1>a, <2>1, <2>2, SourceMove
<1> QED
  BY <1>1, <1>2, <1>3 DEF PoolStep

LEMMA SourceBatch ==
  ASSUME Base, SourceInv, NEW b \in Batches, LockProject(b) \/ BatchStep(b)
  PROVE  SourceInv'
<1> b \in Deployers
  BY DEF Deployers
<1>a. /\ act[b] \in Doing /\ Aimed(act[b])
      /\ act[b].pc \in Holding /\ act[b].project \notin meddled
           => Faithful(act[b], tree[act[b].project])
  BY ActTyped DEF Base, SourceInv
<1>1. CASE LockProject(b)
  <2> DEFINE r == [act[b] EXCEPT !.pc = "pull_project"]
  <2>1. /\ act' = [act EXCEPT ![b] = r] /\ act[b].pc = "lock"
        /\ UNCHANGED <<tree, meddled>>
    BY <1>1 DEF LockProject, TakeLock, Goto, At, repo
  <2>2. Aimed(r) /\ \A t : Faithful(r, t)
    BY <1>a, <2>1 DEF Aimed, Faithful, Doing
  <2> HIDE DEF r
  <2> QED
    BY <2>1, <2>2, SourceMove
<1>2. CASE PullProject(b)
  <2> DEFINE p == act[b].project
             r1 == [act[b] EXCEPT !.pc = "next", !.target = head[p]]
             r2 == [act[b] EXCEPT !.pc = "next", !.pull = TRUE]
  <2>1. act[b].pc = "pull_project" /\ UNCHANGED meddled
    BY <1>2 DEF PullProject, At
  <2>2. p \in Projects /\ lock[p] = b
    BY <2>1 DEF Base, JobsInv, LockInv, Holding, Pcs
  <2>3. CASE act' = [act EXCEPT ![b] = r1] /\ tree' = [tree EXCEPT ![p] = head[p]]
    <3>1. Aimed(r1) /\ r1.project = p
      BY <1>a, <2>1 DEF Aimed, Doing, Holding, Pcs
    <3>2. Faithful(r1, head[p])
      BY <1>a DEF Faithful, Doing
    <3>3. tree \in [Projects -> Nat]
      BY DEF Base, TypeOK
    <3>4. /\ tree'[p] = head[p]
          /\ \A q \in Projects : lock[q] # b => tree'[q] = tree[q]
      BY <2>2, <2>3, <3>3
    <3> HIDE DEF r1
    <3> QED
      BY <2>1, <2>3, <3>1, <3>2, <3>4, SourceMove
  <2>4. CASE act' = [act EXCEPT ![b] = r2] /\ UNCHANGED tree
    <3>1. Aimed(r2) /\ \A t : Faithful(r2, t)
      BY <1>a, <2>1 DEF Aimed, Faithful, Doing, Holding, Pcs
    <3> HIDE DEF r2
    <3> QED
      BY <2>1, <2>4, <3>1, SourceMove
  <2> QED
    BY <1>2, <2>3, <2>4 DEF PullProject
<1>3. CASE NextService(b)
  <2>1. PICK s, rest :
          \/ act' = [act EXCEPT ![b] = [@ EXCEPT !.pc = "begin", !.svc = s,
                                                !.todo = rest]]
          \/ act' = [act EXCEPT ![b] = [@ EXCEPT !.todo = rest]]
    BY <1>3 DEF NextService
  <2> DEFINE r1 == [act[b] EXCEPT !.pc = "begin", !.svc = s, !.todo = rest]
             r2 == [act[b] EXCEPT !.todo = rest]
  <2>2. act[b].pc = "next" /\ UNCHANGED <<tree, meddled>>
    BY <1>3 DEF NextService, At, repo
  <2>3. act[b].project \notin meddled
          => act[b].target \in {0, tree[act[b].project]}
    BY <1>a, <2>2 DEF Faithful, Holding, Pcs
  <2>4. ASSUME NEW r \in {r1, r2}
        PROVE  /\ Aimed(r) /\ r.project = act[b].project
               /\ r.project \notin meddled => Faithful(r, tree[r.project])
    BY <1>a, <2>2, <2>3 DEF Aimed, Faithful, Doing, Holding, Pcs
  <2>5. act' = [act EXCEPT ![b] = r1] \/ act' = [act EXCEPT ![b] = r2]
    BY <2>1
  <2> HIDE DEF r1, r2
  <2> QED
    BY <2>2, <2>4, <2>5, SourceMove
<1>4. CASE EndBatch(b)
  <2>1. Leave(b) /\ UNCHANGED tree /\ act[b].pc \in Holding
    BY <1>4 DEF EndBatch, At, repo, Holding, Pcs
  <2> QED
    BY <2>1, SourceLeave
<1> QED
  BY <1>1, <1>2, <1>3, <1>4 DEF BatchStep

LEMMA SourceDeploy ==
  ASSUME Base, SourceInv, NEW d \in Deployers,
         DeployStep(d) \/ Expire(d) \/ InsertFails(d)
  PROVE  SourceInv'
<1>a. /\ act[d] \in Doing /\ Aimed(act[d])
      /\ act[d].pc \in Holding /\ act[d].project \notin meddled
           => Faithful(act[d], tree[act[d].project])
  BY ActTyped DEF Base, SourceInv
<1>b. act[d].pc \in Deploying => act[d].pc \in Holding
  BY DEF Deploying, Holding, Pcs
<1>1. CASE Begin(d)
  <2> DEFINE r == [act[d] EXCEPT !.pc = IF Pulls(d) THEN "pull" ELSE "commit"]
  <2>1. /\ act' = [act EXCEPT ![d] = r] /\ act[d].pc = "begin"
        /\ UNCHANGED <<tree, meddled>>
    BY <1>1 DEF Begin, Goto, At, repo
  <2>2. act[d].project \notin meddled
          => act[d].target \in {0, tree[act[d].project]}
    BY <1>a, <1>b, <2>1 DEF Faithful, Deploying
  <2>3. Aimed(r) /\ r.project = act[d].project
    BY <1>a, <2>1 DEF Aimed, Pulls, Doing, Holding, Pcs
  <2>4. r.project \notin meddled => Faithful(r, tree[r.project])
    BY <1>a, <2>2 DEF Faithful, Doing
  <2> HIDE DEF r
  <2> QED
    BY <2>1, <2>3, <2>4, SourceMove
<1>2. CASE PullService(d)
  <2> DEFINE p == act[d].project
             r1 == [act[d] EXCEPT !.pc = "commit"]
             r2 == [act[d] EXCEPT !.pc = "finalize", !.ok = FALSE, !.commit = 0]
  <2>1. act[d].pc = "pull" /\ UNCHANGED meddled
    BY <1>2 DEF PullService, At
  <2>2. act[d].target = 0
    BY <1>a, <2>1 DEF Aimed
  <2>3. p \in Projects /\ lock[p] = d
    BY <2>1 DEF Base, JobsInv, LockInv, Holding, Pcs
  <2>4. ASSUME NEW r \in {r1, r2}
        PROVE  Aimed(r) /\ \A t : Faithful(r, t)
    BY <1>a, <2>2 DEF Aimed, Faithful, Doing
  <2>5. act' = [act EXCEPT ![d] = r1] \/ act' = [act EXCEPT ![d] = r2]
    BY <1>2 DEF PullService, Goto
  <2>6. \A q \in Projects : lock[q] # d => tree'[q] = tree[q]
    <3>1. tree' = tree \/ tree' = [tree EXCEPT ![p] = head[p]]
      BY <1>2 DEF PullService
    <3>2. tree \in [Projects -> Nat]
      BY DEF Base, TypeOK
    <3> QED
      BY <2>3, <3>1, <3>2
  <2> HIDE DEF r1, r2
  <2> QED
    BY <2>1, <2>4, <2>5, <2>6, SourceMove
<1>3. CASE ReadCommit(d)
  <2>1. PICK c \in {tree[act[d].project], act[d].target} :
          act' = [act EXCEPT ![d] = [@ EXCEPT !.pc = "build", !.commit = c]]
    BY <1>3 DEF ReadCommit
  <2> DEFINE r == [act[d] EXCEPT !.pc = "build", !.commit = c]
  <2>2. act[d].pc = "commit" /\ UNCHANGED <<tree, meddled>>
    BY <1>3 DEF ReadCommit, At, repo
  <2>3. act[d].project \notin meddled
          => act[d].target \in {0, tree[act[d].project]}
    BY <1>a, <1>b, <2>2 DEF Faithful, Deploying
  <2>4. Aimed(r) /\ r.project = act[d].project
    BY <1>a, <2>2 DEF Aimed, Doing, Holding, Pcs
  <2>5. r.project \notin meddled => Faithful(r, tree[r.project])
    BY <1>a, <2>1, <2>3 DEF Faithful, Doing
  <2>6. act' = [act EXCEPT ![d] = r]
    BY <2>1
  <2> HIDE DEF r
  <2> QED
    BY <2>2, <2>4, <2>5, <2>6, SourceMove
<1>4. CASE Build(d)
  <2> DEFINE Built(ok) == IF ok THEN tree[act[d].project] ELSE 0
  <2>1. PICK ok \in BOOLEAN :
          act' = [act EXCEPT ![d] = [@ EXCEPT !.pc = "finalize", !.ok = ok,
                                              !.built = Built(ok)]]
    BY <1>4 DEF Build
  <2> DEFINE r == [act[d] EXCEPT !.pc = "finalize", !.ok = ok,
                                 !.built = Built(ok)]
  <2>2. act[d].pc = "build" /\ UNCHANGED <<tree, meddled>>
    BY <1>4 DEF Build, At, repo
  <2>3. act[d].project \notin meddled
          => /\ act[d].target \in {0, tree[act[d].project]}
             /\ act[d].commit \in {0, tree[act[d].project]}
    BY <1>a, <1>b, <2>2 DEF Faithful, Deploying
  <2>4. Aimed(r) /\ r.project = act[d].project
    BY <1>a, <2>2 DEF Aimed, Doing, Holding, Pcs
  <2>5. r.project \notin meddled => Faithful(r, tree[r.project])
    BY <1>a, <2>1, <2>3 DEF Faithful, Doing
  <2>6. act' = [act EXCEPT ![d] = r]
    BY <2>1
  <2> HIDE DEF r
  <2> QED
    BY <2>2, <2>4, <2>5, <2>6, SourceMove
<1>5. CASE Finalize(d)
  <2> DEFINE r == [act[d] EXCEPT !.pc = "stamp", !.ok = FALSE, !.commit = 0,
                                 !.built = 0]
  <2>1. /\ act' = [act EXCEPT ![d] = r] /\ act[d].pc = "finalize"
        /\ UNCHANGED <<tree, meddled>>
    BY <1>5 DEF Finalize, At, repo
  <2>2. act[d].project \notin meddled
          => act[d].target \in {0, tree[act[d].project]}
    BY <1>a, <1>b, <2>1 DEF Faithful, Deploying
  <2>3. Aimed(r) /\ r.project = act[d].project
    BY <1>a, <2>1 DEF Aimed, Doing, Holding, Pcs
  <2>4. r.project \notin meddled => Faithful(r, tree[r.project])
    BY <1>a, <2>2 DEF Faithful, Doing
  <2> HIDE DEF r
  <2> QED
    BY <2>1, <2>3, <2>4, SourceMove
<1>6. CASE StampService(d)
  <2>1. act[d].pc = "stamp" /\ act[d].pc \in Holding /\ UNCHANGED tree
    BY <1>6 DEF StampService, At, repo, Holding, Pcs
  <2>2. CASE Leave(d)
    BY <2>1, <2>2, SourceLeave
  <2>3. CASE ~Leave(d)
    <3> DEFINE r == [act[d] EXCEPT !.pc = "next", !.svc = None, !.expired = FALSE]
    <3>1. act' = [act EXCEPT ![d] = r] /\ UNCHANGED meddled
      BY <1>6, <2>3 DEF StampService
    <3>2. act[d].project \notin meddled
            => act[d].target \in {0, tree[act[d].project]}
      BY <1>a, <2>1 DEF Faithful
    <3>3. Aimed(r) /\ r.project = act[d].project
      BY <1>a, <2>1 DEF Aimed, Doing, Holding, Pcs
    <3>4. r.project \notin meddled => Faithful(r, tree[r.project])
      BY <1>a, <3>2 DEF Faithful, Doing
    <3> HIDE DEF r
    <3> QED
      BY <2>1, <3>1, <3>3, <3>4, SourceMove
  <2> QED
    BY <2>2, <2>3
<1>7. CASE Expire(d)
  <2> DEFINE r == [act[d] EXCEPT !.expired = TRUE]
  <2>1. /\ act' = [act EXCEPT ![d] = r] /\ UNCHANGED <<tree, meddled>>
        /\ act[d].pc \in {"finalize", "stamp"}
    BY <1>7 DEF Expire, repo
  <2>2. Aimed(r) /\ r.project = act[d].project
    BY <1>a DEF Aimed, Doing
  <2>3. r.project \notin meddled => Faithful(r, tree[r.project])
    BY <1>a, <1>b, <2>1 DEF Faithful, Doing, Deploying
  <2> HIDE DEF r
  <2> QED
    BY <2>1, <2>2, <2>3, SourceMove
<1>8. CASE InsertFails(d)
  <2>1. CASE Leave(d) /\ UNCHANGED tree
    BY <1>8, <2>1, SourceLeave DEF InsertFails, At, Holding, Pcs
  <2>2. CASE Crash
    BY <2>2, SourceCrash
  <2> QED
    BY <1>8, <2>1, <2>2 DEF InsertFails, repo
<1> QED
  BY <1>1, <1>2, <1>3, <1>4, <1>5, <1>6, <1>7, <1>8 DEF DeployStep

LEMMA SourceOther ==
  ASSUME Base, SourceInv,
         \/ \E s \in Services, pull \in BOOLEAN : DeployService(s, pull)
         \/ \E b \in Batches, p \in Projects :
              \E todo \in SUBSET {s \in Services : ProjectOf[s] = p} :
                todo # {} /\ LaunchBatch(b, p, todo)
         \/ \E p \in Projects : Push(p) \/ OperatorPull(p)
         \/ Restart
         \/ UNCHANGED vars
  PROVE  SourceInv'
<1>1. CASE UNCHANGED <<act, tree, meddled>>
  BY <1>1 DEF SourceInv
<1>2. ASSUME NEW b \in Batches, NEW p \in Projects,
             NEW todo \in SUBSET {s \in Services : ProjectOf[s] = p},
             LaunchBatch(b, p, todo)
      PROVE  SourceInv'
  <2> DEFINE r == [Idle EXCEPT !.pc = "lock", !.project = p, !.todo = todo]
  <2>1. act' = [act EXCEPT ![b] = r] /\ UNCHANGED <<tree, meddled>>
    BY <1>2 DEF LaunchBatch, repo
  <2>2. Aimed(r) /\ r.pc \notin Holding
    BY DEF Aimed, Idle, Holding
  <2> HIDE DEF r
  <2> QED
    BY <2>1, <2>2, SourceMove DEF Deployers
<1>3. ASSUME NEW p \in Projects, OperatorPull(p)
      PROVE  SourceInv'
  <2>1. tree \in [Projects -> Nat] /\ JobsInv /\ LockInv
    BY DEF Base, TypeOK
  <2>2. /\ tree' = [tree EXCEPT ![p] = head[p]] /\ UNCHANGED act
        /\ meddled' = IF Free(p) THEN meddled ELSE meddled \cup {p}
    BY <1>3 DEF OperatorPull
  <2> SUFFICES ASSUME NEW e \in Deployers, act[e].pc \in Holding,
                      act[e].project \notin meddled'
               PROVE  Faithful(act[e], tree'[act[e].project])
    BY <2>2 DEF SourceInv
  <2>3. act[e].project \in Projects /\ lock[act[e].project] = e
    BY <2>1 DEF JobsInv, LockInv, Holding
  <2>4. act[e].project # p /\ act[e].project \notin meddled
    BY <2>2, <2>3, DeployersAssumption DEF Free, Deployers
  <2> QED
    BY <2>1, <2>2, <2>3, <2>4 DEF SourceInv
<1>4. CASE Restart
  BY <1>4, SourceCrash DEF Restart
<1> QED
  BY <1>1, <1>2, <1>3, <1>4 DEF DeployService, Push, vars, repo

LEMMA StepSource == Base /\ SourceInv /\ [Next]_vars => SourceInv'
<1> SUFFICES ASSUME Base, SourceInv, [Next]_vars PROVE SourceInv'
  OBVIOUS
<1>1. ASSUME NEW w \in Workers, PoolStep(w) \/ LoadFails(w) PROVE SourceInv'
  BY <1>1, SourcePool
<1>2. ASSUME NEW b \in Batches, LockProject(b) \/ BatchStep(b) PROVE SourceInv'
  BY <1>2, SourceBatch
<1>3. ASSUME NEW d \in Deployers,
             DeployStep(d) \/ InsertFails(d) \/ Expire(d)
      PROVE  SourceInv'
  BY <1>3, SourceDeploy
<1> QED
  BY <1>1, <1>2, <1>3, SourceOther DEF Next

\* A deploy of runDeployLocked that succeeds was built from the commit it
\* reports, and from the one its batch pulled, unless ProjectAction "pull"
\* moved the project's tree meanwhile.
THEOREM BuildsWhatItReportsAlways == Spec => []BuildsWhatItReports
<1>1. Init => SourceInv
  BY DEF Init, SourceInv, Aimed, Idle, Holding
<1>2. SourceInv => BuildsWhatItReports
  <2> SUFFICES ASSUME SourceInv, NEW d \in Deployers,
                      act[d].pc = "finalize", act[d].ok,
                      act[d].project \notin meddled
               PROVE  /\ act[d].commit \in {0, act[d].built}
                      /\ act[d].target \in {0, act[d].built}
    BY DEF BuildsWhatItReports
  <2> QED
    BY DEF SourceInv, Faithful, Holding, Pcs
<1> QED
  BY <1>1, <1>2, AlwaysBase, StepSource, PTL DEF Spec

-----------------------------------------------------------------------------
(* The indicators                                                          *)

Active == {"pull", "commit", "build", "finalize", "stamp"}
InQueue(s) == \E i \in 1..Len(queue) : queue[i].svc = s
Flying(d, s) == act[d].svc = s /\ act[d].pc \in InFlight

Honest(s) ==
  /\ status[s] = "pending" => InQueue(s) \/ \E w \in Workers : act[w].svc = s
  /\ status[s] = "deploying" =>
       \E d \in Deployers : act[d].svc = s /\ act[d].pc \in Active
  /\ (\E d \in Deployers : Flying(d, s)) => open[s] = 1
  /\ (\A d \in Deployers : ~Flying(d, s)) => open[s] = 0

HonestInv == \A s \in Services \ cut : Honest(s)

\* A step of d leaves the services it is not at alone.
LEMMA OthersHonest ==
  ASSUME TypeOK, HonestInv, NEW d \in Deployers, NEW r,
         act' = [act EXCEPT ![d] = r], cut \subseteq cut',
         NEW s \in Services \ cut', s # act[d].svc, s # r.svc,
         status'[s] = status[s], open'[s] = open[s], InQueue(s) => InQueue(s)'
  PROVE  Honest(s)'
<1>1. act \in [Deployers -> Doing]
  BY DEF TypeOK, Doing
<1>2. act'[d] = r /\ \A e \in Deployers : e # d => act'[e] = act[e]
  BY <1>1
<1>3. Honest(s)
  BY DEF HonestInv
<1>4. \A w \in Workers : w \in Deployers
  BY DEF Deployers
<1>5. \A e \in Deployers : Flying(e, s)' <=> Flying(e, s)
  BY <1>2 DEF Flying
<1>6. \A e \in Deployers : act[e].svc = s => act'[e] = act[e]
  BY <1>2
<1>7. status'[s] = "pending" => InQueue(s)' \/ \E w \in Workers : act'[w].svc = s
  BY <1>3, <1>4, <1>6 DEF Honest
<1>8. status'[s] = "deploying" =>
        \E e \in Deployers : act'[e].svc = s /\ act'[e].pc \in Active
  BY <1>3, <1>6 DEF Honest
<1>9. /\ (\E e \in Deployers : Flying(e, s)') => open'[s] = 1
      /\ (\A e \in Deployers : ~Flying(e, s)') => open'[s] = 0
  BY <1>3, <1>5 DEF Honest
<1> QED
  BY <1>7, <1>8, <1>9 DEF Honest

\* Steps outside a deploy, which write no row.
LEMMA QuietHonest ==
  ASSUME TypeOK, HonestInv, NEW d \in Deployers, NEW r,
         act' = [act EXCEPT ![d] = r], UNCHANGED <<queue, status, open>>,
         cut' = cut,
         act[d].pc \notin Active, r.pc \notin Active,
         d \in Workers => r.svc = act[d].svc
  PROVE  HonestInv'
<1>1. act \in [Deployers -> Doing]
  BY DEF TypeOK, Doing
<1>2. act'[d] = r /\ \A e \in Deployers : e # d => act'[e] = act[e]
  BY <1>1
<1> SUFFICES ASSUME NEW s \in Services \ cut PROVE Honest(s)'
  BY DEF HonestInv
<1>3. Honest(s)
  BY DEF HonestInv
<1>4. \A e \in Deployers : Flying(e, s)' <=> Flying(e, s)
  BY <1>2 DEF Flying, InFlight, Active
<1>5. InQueue(s)' <=> InQueue(s)
  BY DEF InQueue
<1>6. \A w \in Workers : act'[w].svc = act[w].svc
  BY <1>2 DEF Deployers
<1>7. \A e \in Deployers : act[e].pc \in Active => act'[e] = act[e]
  BY <1>2
<1>8. status'[s] = "pending" => InQueue(s)' \/ \E w \in Workers : act'[w].svc = s
  BY <1>3, <1>5, <1>6 DEF Honest
<1>9. status'[s] = "deploying" =>
        \E e \in Deployers : act'[e].svc = s /\ act'[e].pc \in Active
  BY <1>3, <1>7 DEF Honest
<1>10. /\ (\E e \in Deployers : Flying(e, s)') => open'[s] = 1
       /\ (\A e \in Deployers : ~Flying(e, s)') => open'[s] = 0
  BY <1>3, <1>4 DEF Honest
<1> QED
  BY <1>8, <1>9, <1>10 DEF Honest

\* Steps within a deploy, which write no row.
LEMMA StayHonest ==
  ASSUME TypeOK, HonestInv, NEW d \in Deployers, NEW r,
         act' = [act EXCEPT ![d] = r], UNCHANGED <<queue, status, open>>,
         cut' = cut, r.svc = act[d].svc,
         r.pc \in Active, r.pc \in InFlight <=> act[d].pc \in InFlight
  PROVE  HonestInv'
<1>1. act \in [Deployers -> Doing]
  BY DEF TypeOK, Doing
<1>2. act'[d] = r /\ \A e \in Deployers : e # d => act'[e] = act[e]
  BY <1>1
<1> SUFFICES ASSUME NEW s \in Services \ cut PROVE Honest(s)'
  BY DEF HonestInv
<1>3. Honest(s)
  BY DEF HonestInv
<1>4. \A e \in Deployers : Flying(e, s)' <=> Flying(e, s)
  BY <1>2 DEF Flying
<1>5. InQueue(s)' <=> InQueue(s)
  BY DEF InQueue
<1>6. \A e \in Deployers : /\ act'[e].svc = act[e].svc
                           /\ act[e].pc \in Active => act'[e].pc \in Active
  BY <1>2
<1>7. status'[s] = "pending" => InQueue(s)' \/ \E w \in Workers : act'[w].svc = s
  BY <1>3, <1>5, <1>6 DEF Honest, Deployers
<1>8. status'[s] = "deploying" =>
        \E e \in Deployers : act'[e].svc = s /\ act'[e].pc \in Active
  BY <1>3, <1>6 DEF Honest
<1>9. /\ (\E e \in Deployers : Flying(e, s)') => open'[s] = 1
      /\ (\A e \in Deployers : ~Flying(e, s)') => open'[s] = 0
  BY <1>3, <1>4 DEF Honest
<1> QED
  BY <1>7, <1>8, <1>9 DEF Honest

LEMMA CrashHonest ==
  ASSUME HonestInv, Crash, \A s \in Services \ Lost : status'[s] = status[s]
  PROVE  HonestInv'
<1>1. /\ cut' = cut \cup Lost /\ UNCHANGED open
      /\ act' = [d \in Deployers |-> Idle]
  BY DEF Crash
<1> SUFFICES ASSUME NEW s \in Services, s \notin cut, s \notin Lost
             PROVE  Honest(s)'
  BY <1>1 DEF HonestInv
<1>2. Honest(s) /\ status'[s] = status[s]
  BY DEF HonestInv
<1>3. ~InQueue(s) /\ \A d \in Deployers : act[d].svc # s
  BY DEF Lost, InQueue
<1>4. status[s] \notin {"pending", "deploying"} /\ open[s] = 0
  BY <1>2, <1>3 DEF Honest, Flying, Deployers
<1>5. \A d \in Deployers : ~Flying(d, s)'
  BY <1>1 DEF Flying, Idle, InFlight
<1> QED
  BY <1>1, <1>2, <1>4, <1>5 DEF Honest

\* While d holds a project's mutex nobody else is deploying its services.
LEMMA AloneWith ==
  ASSUME Base, NEW d \in Deployers, act[d].pc \in Deploying,
         NEW e \in Deployers, e # d, act[e].pc \in Active
  PROVE  act[e].svc # act[d].svc
<1>1. act[d].pc \in Holding /\ act[e].pc \in Holding
      /\ act[d].pc \in Serving /\ act[e].pc \in Serving
  BY DEF Deploying, Active, Holding, Serving, Pcs
<1>2. act[e].project # act[d].project
  BY <1>1 DEF Base, LockInv
<1> QED
  BY <1>1, <1>2 DEF Base, JobsInv

LEMMA QueuedHonest ==
  ASSUME TypeOK, NEW job \in Job, Queued(job), NEW s \in Services
  PROVE  /\ InQueue(s) => InQueue(s)'
         /\ status'[s] \in {"pending", "deploying"} => status'[s] = status[s]
         /\ s # job.svc => status'[s] = status[s]
         /\ status'[s] = "pending" /\ s = job.svc => InQueue(s)'
<1>1. queue \in Seq(Job) /\ Len(queue) \in Nat
  BY DEF TypeOK, Job
<1>2. CASE Len(queue) < QueueCap
  <2>1. queue' = Append(queue, job) /\ status' = status
    BY <1>2 DEF Queued
  <2>2. /\ Len(queue') = Len(queue) + 1
        /\ \A i \in 1..Len(queue) : queue'[i] = queue[i]
        /\ queue'[Len(queue) + 1] = job
    BY <1>1, <2>1, AppendProperties
  <2>3. s = job.svc => InQueue(s)'
    BY <1>1, <2>2 DEF InQueue
  <2>4. InQueue(s) => InQueue(s)'
    BY <1>1, <2>2 DEF InQueue
  <2> QED
    BY <2>1, <2>3, <2>4
<1>3. CASE ~(Len(queue) < QueueCap)
  <2>1. queue' = queue /\ status' = [status EXCEPT ![job.svc] = "queue-full"]
    BY <1>3 DEF Queued
  <2>2. status \in [Services -> Statuses]
    BY DEF TypeOK, Statuses
  <2>3. InQueue(s)' <=> InQueue(s)
    BY <2>1 DEF InQueue
  <2>4. s = job.svc => status'[s] = "queue-full"
    BY <2>1, <2>2
  <2>5. s # job.svc => status'[s] = status[s]
    BY <2>1, <2>2
  <2> QED
    BY <2>3, <2>4, <2>5
<1> QED
  BY <1>2, <1>3

LEMMA PoolHonest ==
  ASSUME Base, HonestInv, NEW w \in Workers, PoolStep(w) \/ LoadFails(w)
  PROVE  HonestInv'
<1> w \in Deployers
  BY DEF Deployers
<1>a. /\ TypeOK /\ JobsInv /\ act[w] \in Doing
      /\ act \in [Deployers -> Doing] /\ status \in [Services -> Statuses]
  BY ActTyped DEF Base, TypeOK, Doing, Statuses
<1>1. CASE Dequeue(w)
  <2> DEFINE h == Head(queue)
             r == [Idle EXCEPT !.pc = "trylock", !.svc = h.svc,
                               !.project = ProjectOf[h.svc], !.pull = h.pull]
  <2>1. /\ act' = [act EXCEPT ![w] = r] /\ act[w].pc = "idle"
        /\ queue' = Tail(queue) /\ queue # <<>>
        /\ UNCHANGED <<status, open, cut>>
    BY <1>1 DEF Dequeue, At
  <2>2. r.pc = "trylock" /\ r.svc = h.svc
    BY DEF Idle
  <2>3. act[w].svc = None
    BY <1>a, <2>1 DEF JobsInv
  <2>4. queue \in Seq(Job)
    BY <1>a DEF TypeOK, Job
  <2> HIDE DEF r
  <2>5. act'[w] = r /\ \A e \in Deployers : e # w => act'[e] = act[e]
    BY <1>a, <2>1
  <2> SUFFICES ASSUME NEW s \in Services \ cut PROVE Honest(s)'
    BY <2>1 DEF HonestInv
  <2>6. CASE s = h.svc
    <3>1. act'[w].svc = s
      BY <2>2, <2>5, <2>6
    <3>2. \A e \in Deployers : Flying(e, s)' <=> Flying(e, s)
      BY <2>1, <2>2, <2>5 DEF Flying, InFlight
    <3>3. \A e \in Deployers : act[e].pc \in Active => act'[e] = act[e]
      BY <2>1, <2>5 DEF Active
    <3>4. Honest(s)
      BY DEF HonestInv
    <3>5. status'[s] = "deploying" =>
            \E e \in Deployers : act'[e].svc = s /\ act'[e].pc \in Active
      BY <2>1, <3>3, <3>4 DEF Honest
    <3>6. /\ (\E e \in Deployers : Flying(e, s)') => open'[s] = 1
          /\ (\A e \in Deployers : ~Flying(e, s)') => open'[s] = 0
      BY <2>1, <3>2, <3>4 DEF Honest
    <3> QED
      BY <3>1, <3>5, <3>6 DEF Honest
  <2>7. CASE s # h.svc
    <3>1. ASSUME NEW i \in 1..Len(queue), queue[i].svc = s
          PROVE  \E j \in 1..Len(Tail(queue)) : Tail(queue)[j].svc = s
      <4>1. Head(queue) = queue[1] /\ Len(queue) \in Nat
        BY <2>1, <2>4
      <4>2. i # 1
        BY <2>7, <3>1, <4>1
      <4>3. /\ Len(Tail(queue)) = Len(queue) - 1
            /\ \A j \in 1..Len(Tail(queue)) : Tail(queue)[j] = queue[j + 1]
        BY <2>1, <2>4, HeadTailProperties
      <4>4. i - 1 \in 1..Len(Tail(queue)) /\ (i - 1) + 1 = i
        BY <4>1, <4>2, <4>3
      <4> QED
        BY <3>1, <4>3, <4>4
    <3>2. InQueue(s) => InQueue(s)'
      BY <2>1, <3>1 DEF InQueue
    <3>3. s # None
      BY DeployersAssumption
    <3> QED
      BY <1>a, <2>1, <2>2, <2>3, <2>7, <3>2, <3>3, OthersHonest
  <2> QED
    BY <2>6, <2>7
<1>2. CASE TryLock(w)
  <2>1. PICK pc \in {"begin", "contended"} : act' = [act EXCEPT ![w].pc = pc]
    BY <1>2 DEF TryLock, TakeLock, Goto
  <2> DEFINE r == [act[w] EXCEPT !.pc = pc]
  <2>2. r.pc = pc /\ r.svc = act[w].svc
    BY <1>a DEF Doing
  <2>3. /\ act' = [act EXCEPT ![w] = r] /\ act[w].pc = "trylock"
        /\ UNCHANGED <<queue, status, open, cut>>
    BY <1>2, <2>1 DEF TryLock, At
  <2> HIDE DEF r
  <2> QED
    BY <1>a, <2>2, <2>3, QuietHonest DEF Active
<1>3. CASE MarkPending(w)
  <2> DEFINE r == [act[w] EXCEPT !.pc = "backoff"]
  <2>1. r.pc = "backoff" /\ r.svc = act[w].svc
    BY <1>a DEF Doing
  <2>2. /\ act' = [act EXCEPT ![w] = r] /\ act[w].pc = "contended"
        /\ status' = [status EXCEPT ![act[w].svc] = "pending"]
        /\ UNCHANGED <<queue, open, cut>>
    BY <1>3 DEF MarkPending, Goto, At
  <2> HIDE DEF r
  <2>3. act'[w] = r /\ \A e \in Deployers : e # w => act'[e] = act[e]
    BY <1>a, <2>2
  <2> SUFFICES ASSUME NEW s \in Services \ cut PROVE Honest(s)'
    BY <2>2 DEF HonestInv
  <2>4. CASE s = act[w].svc
    <3>1. status'[s] = "pending" /\ act'[w].svc = s
      BY <1>a, <2>1, <2>2, <2>3, <2>4
    <3>2. \A e \in Deployers : Flying(e, s)' <=> Flying(e, s)
      BY <2>1, <2>2, <2>3 DEF Flying, InFlight
    <3>3. Honest(s)
      BY DEF HonestInv
    <3>4. /\ (\E e \in Deployers : Flying(e, s)') => open'[s] = 1
          /\ (\A e \in Deployers : ~Flying(e, s)') => open'[s] = 0
      BY <2>2, <3>2, <3>3 DEF Honest
    <3> QED
      BY <3>1, <3>4 DEF Honest
  <2>5. CASE s # act[w].svc
    <3>1. status'[s] = status[s] /\ (InQueue(s) => InQueue(s)')
      BY <1>a, <2>2, <2>5 DEF InQueue
    <3> QED
      BY <1>a, <2>1, <2>2, <2>5, <3>1, OthersHonest
  <2> QED
    BY <2>4, <2>5
<1>4. CASE Requeue(w)
  <2> DEFINE job == [svc |-> act[w].svc, pull |-> act[w].pull]
  <2>1. job \in Job /\ job.svc = act[w].svc
    BY <1>a, <1>4 DEF TypeOK, Requeue, At, JobsInv, Serving, Job
  <2>2. /\ Queued(job) /\ act' = [act EXCEPT ![w] = Idle]
        /\ act[w].pc = "backoff" /\ UNCHANGED <<open, cut>>
    BY <1>4 DEF Requeue, At
  <2> HIDE DEF job
  <2>3. act'[w] = Idle /\ \A e \in Deployers : e # w => act'[e] = act[e]
    BY <1>a, <2>2
  <2>4. Idle.svc = None /\ Idle.pc = "idle"
    BY DEF Idle
  <2> SUFFICES ASSUME NEW s \in Services \ cut PROVE Honest(s)'
    BY <2>2 DEF HonestInv
  <2>5. /\ InQueue(s) => InQueue(s)'
        /\ status'[s] \in {"pending", "deploying"} => status'[s] = status[s]
        /\ s # job.svc => status'[s] = status[s]
        /\ status'[s] = "pending" /\ s = job.svc => InQueue(s)'
    BY <1>a, <2>1, <2>2, QueuedHonest
  <2>6. CASE s = act[w].svc
    <3>1. \A e \in Deployers : Flying(e, s)' <=> Flying(e, s)
      BY <2>2, <2>3, <2>4 DEF Flying, InFlight
    <3>2. \A e \in Deployers : act[e].pc \in Active => act'[e] = act[e]
      BY <2>2, <2>3 DEF Active
    <3>3. Honest(s)
      BY DEF HonestInv
    <3>4. status'[s] = "deploying" =>
            \E e \in Deployers : act'[e].svc = s /\ act'[e].pc \in Active
      BY <2>5, <3>2, <3>3 DEF Honest
    <3>5. /\ (\E e \in Deployers : Flying(e, s)') => open'[s] = 1
          /\ (\A e \in Deployers : ~Flying(e, s)') => open'[s] = 0
      BY <2>2, <3>1, <3>3 DEF Honest
    <3> QED
      BY <2>1, <2>5, <2>6, <3>4, <3>5 DEF Honest
  <2>7. CASE s # act[w].svc
    <3>1. s # Idle.svc
      BY <2>4, DeployersAssumption
    <3> QED
      BY <1>a, <2>1, <2>2, <2>5, <2>7, <3>1, OthersHonest
  <2> QED
    BY <2>6, <2>7
<1>5. CASE LoadFails(w)
  <2>1. /\ act' = [act EXCEPT ![w] = Idle] /\ cut' = cut \cup {act[w].svc}
        /\ UNCHANGED <<queue, status, open>>
    BY <1>5 DEF LoadFails
  <2> SUFFICES ASSUME NEW s \in Services \ cut' PROVE Honest(s)'
    BY DEF HonestInv
  <2>2. s # Idle.svc /\ s # act[w].svc
    BY <2>1, DeployersAssumption DEF Idle
  <2>3. InQueue(s) => InQueue(s)'
    BY <2>1 DEF InQueue
  <2> QED
    BY <1>a, <2>1, <2>2, <2>3, OthersHonest
<1> QED
  BY <1>1, <1>2, <1>3, <1>4, <1>5 DEF PoolStep

LEMMA BatchHonest ==
  ASSUME Base, HonestInv, NEW b \in Batches, LockProject(b) \/ BatchStep(b)
  PROVE  HonestInv'
<1> b \in Deployers /\ b \notin Workers
  BY DeployersAssumption DEF Deployers
<1>a. TypeOK /\ act[b] \in Doing
  BY ActTyped DEF Base
<1>1. PICK r : act' = [act EXCEPT ![b] = r]
               /\ r.pc \in {"idle", "pull_project", "next", "begin"}
  <2>1. CASE LockProject(b)
    <3>1. [act[b] EXCEPT !.pc = "pull_project"].pc = "pull_project"
      BY <1>a DEF Doing
    <3>2. act' = [act EXCEPT ![b] = [act[b] EXCEPT !.pc = "pull_project"]]
      BY <2>1 DEF LockProject, TakeLock, Goto
    <3> QED
      BY <3>1, <3>2
  <2>2. CASE PullProject(b)
    <3> DEFINE r1 == [act[b] EXCEPT !.pc = "next",
                                    !.target = head[act[b].project]]
               r2 == [act[b] EXCEPT !.pc = "next", !.pull = TRUE]
    <3>1. r1.pc = "next" /\ r2.pc = "next"
      BY <1>a DEF Doing
    <3>2. act' = [act EXCEPT ![b] = r1] \/ act' = [act EXCEPT ![b] = r2]
      BY <2>2 DEF PullProject
    <3> HIDE DEF r1, r2
    <3> QED
      BY <3>1, <3>2
  <2>3. CASE NextService(b)
    <3> DEFINE s == First(act[b].todo)
               rest == act[b].todo \ {s}
               r1 == [act[b] EXCEPT !.pc = "begin", !.svc = s, !.todo = rest]
               r2 == [act[b] EXCEPT !.todo = rest]
    <3>1. act' = [act EXCEPT ![b] = r1] \/ act' = [act EXCEPT ![b] = r2]
      BY <2>3 DEF NextService
    <3>2. act[b].pc = "next"
      BY <2>3 DEF NextService, At
    <3>3. r1.pc = "begin" /\ r2.pc = "next"
      BY <1>a, <3>2 DEF Doing
    <3> HIDE DEF r1, r2
    <3> QED
      BY <3>1, <3>3
  <2>4. CASE EndBatch(b)
    <3>1. act' = [act EXCEPT ![b] = Idle] /\ Idle.pc = "idle"
      BY <2>4 DEF EndBatch, Leave, Idle
    <3> HIDE DEF Idle
    <3> QED
      BY <3>1
  <2> QED
    BY <2>1, <2>2, <2>3, <2>4 DEF BatchStep
<1>2. act[b].pc \in {"lock", "pull_project", "next"}
      /\ UNCHANGED <<queue, status, open, cut>>
  BY DEF BatchStep, LockProject, PullProject, NextService, EndBatch, At
<1> QED
  BY <1>a, <1>1, <1>2, QuietHonest DEF Active

LEMMA DeployHonest ==
  ASSUME Base, HonestInv, NEW d \in Deployers,
         DeployStep(d) \/ Expire(d) \/ InsertFails(d)
  PROVE  HonestInv'
<1>a. /\ TypeOK /\ JobsInv /\ act[d] \in Doing
      /\ act \in [Deployers -> Doing] /\ status \in [Services -> Statuses]
      /\ open \in [Services -> Nat]
  BY ActTyped DEF Base, TypeOK, Doing, Statuses
<1>b. act[d].pc \in Deploying => act[d].svc \in Services
  BY <1>a DEF JobsInv, Serving, Deploying
<1>c. ASSUME NEW s \in Services \ cut PROVE Honest(s)
  BY DEF HonestInv
<1>1. CASE Begin(d)
  <2> DEFINE r == [act[d] EXCEPT !.pc = IF Pulls(d) THEN "pull" ELSE "commit"]
  <2>1. /\ act' = [act EXCEPT ![d] = r] /\ act[d].pc = "begin"
        /\ status' = [status EXCEPT ![act[d].svc] = "deploying"]
        /\ open' = [open EXCEPT ![act[d].svc] = @ + 1]
        /\ UNCHANGED <<queue, cut>>
    BY <1>1 DEF Begin, Goto, At
  <2>2. r.pc \in {"pull", "commit"} /\ r.svc = act[d].svc
    BY <1>a DEF Doing
  <2> HIDE DEF r
  <2>3. act'[d] = r /\ \A e \in Deployers : e # d => act'[e] = act[e]
    BY <1>a, <2>1
  <2> SUFFICES ASSUME NEW s \in Services \ cut PROVE Honest(s)'
    BY <2>1 DEF HonestInv
  <2>4. CASE s = act[d].svc
    <3>1. \A e \in Deployers : ~Flying(e, s)
      BY <2>1, <2>4, AloneWith DEF Flying, Deploying, Active, InFlight
    <3>2. open'[s] = 1 /\ status'[s] = "deploying"
      BY <1>a, <1>c, <2>1, <2>4, <3>1 DEF Honest
    <3>3. act'[d].svc = s /\ act'[d].pc \in Active /\ Flying(d, s)'
      BY <2>2, <2>3, <2>4 DEF Active, Flying, InFlight
    <3> QED
      BY <3>2, <3>3 DEF Honest
  <2>5. CASE s # act[d].svc
    <3>1. /\ status'[s] = status[s] /\ open'[s] = open[s]
          /\ InQueue(s) => InQueue(s)'
      BY <1>a, <2>1, <2>5 DEF InQueue
    <3> QED
      BY <1>a, <2>1, <2>2, <2>5, <3>1, OthersHonest
  <2> QED
    BY <2>4, <2>5
<1>2. CASE PullService(d) \/ ReadCommit(d) \/ Build(d) \/ Expire(d)
  <2>1. PICK r :
          /\ act' = [act EXCEPT ![d] = r] /\ r.svc = act[d].svc
          /\ \/ /\ act[d].pc \in {"pull", "commit", "build"}
                /\ r.pc \in {"commit", "build", "finalize"}
             \/ r.pc = act[d].pc /\ r.pc \in {"finalize", "stamp"}
    <3>1. CASE PullService(d)
      <4> DEFINE r1 == [act[d] EXCEPT !.pc = "commit"]
                 r2 == [act[d] EXCEPT !.pc = "finalize", !.ok = FALSE,
                                      !.commit = 0]
      <4>1. /\ r1.pc = "commit" /\ r1.svc = act[d].svc
            /\ r2.pc = "finalize" /\ r2.svc = act[d].svc
        BY <1>a DEF Doing
      <4>2. act' = [act EXCEPT ![d] = r1] \/ act' = [act EXCEPT ![d] = r2]
        BY <3>1 DEF PullService, Goto
      <4>3. act[d].pc = "pull"
        BY <3>1 DEF PullService, At
      <4> HIDE DEF r1, r2
      <4> QED
        BY <4>1, <4>2, <4>3
    <3>2. CASE ReadCommit(d)
      <4>1. PICK c : act' = [act EXCEPT ![d] =
                               [act[d] EXCEPT !.pc = "build", !.commit = c]]
        BY <3>2 DEF ReadCommit
      <4> DEFINE r1 == [act[d] EXCEPT !.pc = "build", !.commit = c]
      <4>2. r1.pc = "build" /\ r1.svc = act[d].svc
        BY <1>a DEF Doing
      <4>3. act[d].pc = "commit" /\ act' = [act EXCEPT ![d] = r1]
        BY <3>2, <4>1 DEF ReadCommit, At
      <4> HIDE DEF r1
      <4> QED
        BY <4>2, <4>3
    <3>3. CASE Build(d)
      <4>1. PICK ok, c : act' = [act EXCEPT ![d] =
                [act[d] EXCEPT !.pc = "finalize", !.ok = ok, !.built = c]]
        BY <3>3 DEF Build
      <4> DEFINE r1 == [act[d] EXCEPT !.pc = "finalize", !.ok = ok, !.built = c]
      <4>2. r1.pc = "finalize" /\ r1.svc = act[d].svc
        BY <1>a DEF Doing
      <4>3. act[d].pc = "build" /\ act' = [act EXCEPT ![d] = r1]
        BY <3>3, <4>1 DEF Build, At
      <4> HIDE DEF r1
      <4> QED
        BY <4>2, <4>3
    <3>4. CASE Expire(d)
      <4> DEFINE r1 == [act[d] EXCEPT !.expired = TRUE]
      <4>1. r1.pc = act[d].pc /\ r1.svc = act[d].svc
        BY <1>a DEF Doing
      <4>2. /\ act[d].pc \in {"finalize", "stamp"}
            /\ act' = [act EXCEPT ![d] = r1]
        BY <3>4 DEF Expire
      <4> HIDE DEF r1
      <4> QED
        BY <4>1, <4>2
    <3> QED
      BY <1>2, <3>1, <3>2, <3>3, <3>4
  <2>2. UNCHANGED <<queue, status, open, cut>>
    BY <1>2 DEF PullService, ReadCommit, Build, Expire
  <2> QED
    BY <1>a, <2>1, <2>2, StayHonest DEF Active, InFlight
<1>3. CASE Finalize(d)
  <2> DEFINE r == [act[d] EXCEPT !.pc = "stamp", !.ok = FALSE, !.commit = 0,
                                 !.built = 0]
  <2>1. /\ act' = [act EXCEPT ![d] = r] /\ act[d].pc = "finalize"
        /\ UNCHANGED <<queue, status>>
    BY <1>3 DEF Finalize, At
  <2>2. IF act[d].expired THEN open' = open /\ cut' = cut \cup {act[d].svc}
        ELSE open' = [open EXCEPT ![act[d].svc] = @ - 1] /\ cut' = cut
    BY <1>3 DEF Finalize
  <2>3. r.pc = "stamp" /\ r.svc = act[d].svc
    BY <1>a DEF Doing
  <2> HIDE DEF r
  <2>4. act'[d] = r /\ \A e \in Deployers : e # d => act'[e] = act[e]
    BY <1>a, <2>1
  <2> SUFFICES ASSUME NEW s \in Services \ cut' PROVE Honest(s)'
    BY DEF HonestInv
  <2>5. s \notin cut /\ Honest(s)
    BY <2>2 DEF HonestInv
  <2>6. CASE s = act[d].svc
    <3>1. Flying(d, s) /\ \A e \in Deployers : e # d => ~Flying(e, s)
      BY <2>1, <2>6, AloneWith DEF Flying, Deploying, Active, InFlight
    <3>2. open[s] = 1
      BY <2>5, <3>1 DEF Honest
    <3>3. open'[s] = 0
      BY <1>a, <2>2, <2>6, <3>2
    <3>4. \A e \in Deployers : ~Flying(e, s)'
      BY <2>3, <2>4, <3>1 DEF Flying, InFlight
    <3>5. \A e \in Deployers : /\ act'[e].svc = act[e].svc
                               /\ act[e].pc \in Active => act'[e].pc \in Active
      BY <2>3, <2>4 DEF Active
    <3>6. InQueue(s)' <=> InQueue(s)
      BY <2>1 DEF InQueue
    <3>7. status'[s] = "pending"
            => InQueue(s)' \/ \E w \in Workers : act'[w].svc = s
      BY <2>1, <2>5, <3>5, <3>6 DEF Honest, Deployers
    <3>8. status'[s] = "deploying" =>
            \E e \in Deployers : act'[e].svc = s /\ act'[e].pc \in Active
      BY <2>1, <2>5, <3>5 DEF Honest
    <3> QED
      BY <3>3, <3>4, <3>7, <3>8 DEF Honest
  <2>7. CASE s # act[d].svc
    <3>1. /\ status'[s] = status[s] /\ open'[s] = open[s] /\ cut \subseteq cut'
          /\ InQueue(s) => InQueue(s)'
      BY <1>a, <2>1, <2>2, <2>7 DEF InQueue
    <3> QED
      BY <1>a, <2>1, <2>3, <2>7, <3>1, OthersHonest
  <2> QED
    BY <2>6, <2>7
<1>4. CASE StampService(d)
  <2>1. /\ act[d].pc = "stamp" /\ UNCHANGED <<queue, open>>
        /\ IF act[d].expired THEN status' = status /\ cut' = cut \cup {act[d].svc}
           ELSE status' = [status EXCEPT ![act[d].svc] = "settled"] /\ cut' = cut
    BY <1>4 DEF StampService, At
  <2>2. PICK r : /\ act' = [act EXCEPT ![d] = r]
                 /\ r.svc = None /\ r.pc \in {"idle", "next"}
    <3> DEFINE r1 == [act[d] EXCEPT !.pc = "next", !.svc = None,
                                    !.expired = FALSE]
    <3>1. /\ r1.pc = "next" /\ r1.svc = None
          /\ Idle.pc = "idle" /\ Idle.svc = None
      BY <1>a DEF Doing, Idle
    <3>2. act' = [act EXCEPT ![d] = r1] \/ act' = [act EXCEPT ![d] = Idle]
      BY <1>4 DEF StampService, Leave
    <3> HIDE DEF r1
    <3> QED
      BY <3>1, <3>2
  <2>3. act'[d] = r /\ \A e \in Deployers : e # d => act'[e] = act[e]
    BY <1>a, <2>2
  <2> SUFFICES ASSUME NEW s \in Services \ cut' PROVE Honest(s)'
    BY DEF HonestInv
  <2>4. s \notin cut /\ Honest(s) /\ s # None
    BY <2>1, DeployersAssumption DEF HonestInv
  <2>5. CASE s = act[d].svc
    <3>1. status'[s] = "settled"
      BY <1>a, <2>1, <2>5
    <3>2. \A e \in Deployers : ~Flying(e, s)
      BY <2>1, <2>5, AloneWith DEF Flying, Deploying, Active, InFlight
    <3>3. \A e \in Deployers : ~Flying(e, s)'
      BY <2>2, <2>3, <3>2 DEF Flying, InFlight
    <3>4. open'[s] = 0
      BY <2>1, <2>4, <3>2 DEF Honest
    <3> QED
      BY <3>1, <3>3, <3>4 DEF Honest
  <2>6. CASE s # act[d].svc
    <3>1. /\ status'[s] = status[s] /\ open'[s] = open[s] /\ cut \subseteq cut'
          /\ InQueue(s) => InQueue(s)'
      BY <1>a, <2>1, <2>6 DEF InQueue
    <3> QED
      BY <1>a, <2>2, <2>4, <2>6, <3>1, OthersHonest
  <2> QED
    BY <2>5, <2>6
<1>5. CASE InsertFails(d)
  <2>0. act[d].pc = "begin"
    BY <1>5 DEF InsertFails, At
  <2>1. CASE /\ status' = [status EXCEPT ![act[d].svc] = "settled"]
             /\ Leave(d) /\ UNCHANGED <<queue, open, repo, asked, cut>>
    <3>1. act' = [act EXCEPT ![d] = Idle] /\ Idle.svc = None /\ Idle.pc = "idle"
      BY <2>1 DEF Leave, Idle
    <3>2. act'[d] = Idle /\ \A e \in Deployers : e # d => act'[e] = act[e]
      BY <1>a, <3>1
    <3> SUFFICES ASSUME NEW s \in Services \ cut PROVE Honest(s)'
      BY <2>1 DEF HonestInv
    <3>3. CASE s = act[d].svc
      <4>1. status'[s] = "settled"
        BY <1>a, <2>1, <3>3
      <4>2. \A e \in Deployers : Flying(e, s)' <=> Flying(e, s)
        BY <2>0, <3>1, <3>2 DEF Flying, InFlight
      <4> QED
        BY <1>c, <2>1, <4>1, <4>2 DEF Honest
    <3>4. CASE s # act[d].svc
      <4>1. /\ status'[s] = status[s] /\ s # None
            /\ InQueue(s) => InQueue(s)'
        BY <1>a, <2>1, <3>4, DeployersAssumption DEF InQueue
      <4> QED
        BY <1>a, <2>1, <3>1, <3>4, <4>1, OthersHonest
    <3> QED
      BY <3>3, <3>4
  <2>2. CASE status' = [status EXCEPT ![act[d].svc] = "deploying"] /\ Crash
    <3>1. ASSUME NEW s \in Services \ Lost PROVE status'[s] = status[s]
      <4>1. act[d].svc # s
        BY DEF Lost
      <4> QED
        BY <1>a, <2>2, <4>1
    <3> QED
      BY <2>2, <3>1, CrashHonest
  <2> QED
    BY <1>5, <2>1, <2>2 DEF InsertFails
<1> QED
  BY <1>1, <1>2, <1>3, <1>4, <1>5 DEF DeployStep

LEMMA OtherHonest ==
  ASSUME Base, HonestInv,
         \/ \E s \in Services, pull \in BOOLEAN : DeployService(s, pull)
         \/ \E b \in Batches, p \in Projects :
              \E todo \in SUBSET {s \in Services : ProjectOf[s] = p} :
                todo # {} /\ LaunchBatch(b, p, todo)
         \/ \E p \in Projects : Push(p) \/ OperatorPull(p)
         \/ Restart
         \/ UNCHANGED vars
  PROVE  HonestInv'
<1>a. TypeOK
  BY DEF Base
<1>1. CASE UNCHANGED <<queue, act, status, open, cut>>
  <2>1. ASSUME NEW s \in Services \ cut PROVE Honest(s)'
    <3>1. Honest(s)
      BY DEF HonestInv
    <3>2. \A d \in Deployers : Flying(d, s)' <=> Flying(d, s)
      BY <1>1 DEF Flying
    <3> QED
      BY <1>1, <3>1, <3>2 DEF Honest, InQueue
  <2> QED
    BY <1>1, <2>1 DEF HonestInv
<1>2. ASSUME NEW job \in Job, Queued(job), UNCHANGED <<act, open, cut>>
      PROVE  HonestInv'
  <2> SUFFICES ASSUME NEW s \in Services \ cut PROVE Honest(s)'
    BY <1>2 DEF HonestInv
  <2>1. Honest(s)
    BY DEF HonestInv
  <2>2. \A d \in Deployers : Flying(d, s)' <=> Flying(d, s)
    BY <1>2 DEF Flying
  <2>3. /\ InQueue(s) => InQueue(s)'
        /\ status'[s] \in {"pending", "deploying"} => status'[s] = status[s]
    BY <1>a, <1>2, QueuedHonest
  <2>4. status'[s] = "pending" => InQueue(s)' \/ \E w \in Workers : act'[w].svc = s
    BY <1>2, <2>1, <2>3 DEF Honest
  <2>5. status'[s] = "deploying" =>
          \E e \in Deployers : act'[e].svc = s /\ act'[e].pc \in Active
    BY <1>2, <2>1, <2>3 DEF Honest
  <2>6. /\ (\E e \in Deployers : Flying(e, s)') => open'[s] = 1
        /\ (\A e \in Deployers : ~Flying(e, s)') => open'[s] = 0
    BY <1>2, <2>1, <2>2 DEF Honest
  <2> QED
    BY <2>4, <2>5, <2>6 DEF Honest
<1>3. ASSUME NEW s \in Services, NEW pull \in BOOLEAN, DeployService(s, pull)
      PROVE  HonestInv'
  <2>1. [svc |-> s, pull |-> pull] \in Job
    BY DEF Job
  <2> QED
    BY <1>2, <1>3, <2>1 DEF DeployService
<1>4. ASSUME NEW b \in Batches, NEW p \in Projects,
             NEW todo \in SUBSET {s \in Services : ProjectOf[s] = p},
             LaunchBatch(b, p, todo)
      PROVE  HonestInv'
  <2> DEFINE r == [Idle EXCEPT !.pc = "lock", !.project = p, !.todo = todo]
  <2>1. /\ act' = [act EXCEPT ![b] = r] /\ act[b].pc = "idle"
        /\ UNCHANGED <<queue, status, open, cut>>
    BY <1>4 DEF LaunchBatch, At
  <2>2. r.pc = "lock"
    BY DEF Idle
  <2>3. b \in Deployers /\ b \notin Workers
    BY DeployersAssumption DEF Deployers
  <2> HIDE DEF r
  <2> QED
    BY <1>a, <2>1, <2>2, <2>3, QuietHonest DEF Active
<1>5. CASE Restart
  BY <1>5, CrashHonest DEF Restart
<1> QED
  BY <1>1, <1>3, <1>4, <1>5 DEF Push, OperatorPull, vars, bounds

LEMMA StepHonest == Base /\ HonestInv /\ [Next]_vars => HonestInv'
<1> SUFFICES ASSUME Base, HonestInv, [Next]_vars PROVE HonestInv'
  OBVIOUS
<1>1. ASSUME NEW w \in Workers, PoolStep(w) \/ LoadFails(w) PROVE HonestInv'
  BY <1>1, PoolHonest
<1>2. ASSUME NEW b \in Batches, LockProject(b) \/ BatchStep(b) PROVE HonestInv'
  BY <1>2, BatchHonest
<1>3. ASSUME NEW d \in Deployers,
             DeployStep(d) \/ InsertFails(d) \/ Expire(d)
      PROVE  HonestInv'
  BY <1>3, DeployHonest
<1> QED
  BY <1>1, <1>2, <1>3, OtherHonest DEF Next

\* Unless a deploy of it was cut short, what enqueue, runDeploy and finalize
\* write of a service says what its jobs are doing.
THEOREM IndicatorsAlwaysTrue == Spec => []IndicatorsAreTrue
<1>1. Init => HonestInv
  BY DEF Init, HonestInv, Honest, Flying, Idle, InFlight
<1>2. Base /\ HonestInv => IndicatorsAreTrue
  <2> SUFFICES ASSUME Base, HonestInv, NEW s \in Services \ cut
               PROVE  /\ status[s] = "pending" =>
                           \/ \E i \in 1..Len(queue) : queue[i].svc = s
                           \/ \E w \in Workers : act[w].svc = s
                      /\ status[s] = "deploying" =>
                           \E d \in Deployers : act[d].svc = s
                      /\ open[s] = Cardinality({d \in Deployers :
                                                  act[d].svc = s
                                                  /\ act[d].pc \in InFlight})
    BY DEF IndicatorsAreTrue
  <2> DEFINE F == {d \in Deployers : act[d].svc = s /\ act[d].pc \in InFlight}
  <2>1. Honest(s)
    BY DEF HonestInv
  <2>2. CASE F = {}
    <3>1. open[s] = 0
      BY <2>1, <2>2 DEF Honest, Flying
    <3> QED
      BY <2>1, <2>2, <3>1, FS_EmptySet DEF Honest, InQueue
  <2>3. CASE F # {}
    <3>1. PICK d \in Deployers : d \in F
      BY <2>3
    <3>2. open[s] = 1
      BY <2>1, <3>1 DEF Honest, Flying
    <3>3. F = {d}
      BY <3>1, AloneWith DEF InFlight, Deploying, Active
    <3>4. Cardinality(F) = 1
      BY <3>3, FS_Singleton
    <3> QED
      BY <2>1, <3>2, <3>4 DEF Honest, InQueue
  <2> QED
    BY <2>2, <2>3
<1> QED
  BY <1>1, <1>2, AlwaysBase, StepHonest, PTL DEF Spec
=============================================================================
