-------------------------- MODULE SslBulkJob_proofs --------------------------
(***************************************************************************)
(* Proofs about SslBulkJob for any number of jobs, domains, restarts and   *)
(* refused calls, and any cutoff.                                          *)
(*                                                                         *)
(* JobInv says of a job what its goroutine has counted, how many domains a *)
(* cancel has already failed to stop, and that a live goroutine's row is   *)
(* fresh whenever a recovery may look at it.                               *)
(***************************************************************************)
EXTENDS SslBulkJob, FiniteSetTheorems, TLAPS

Outcome == {"none", "issued", "failed"}
Doing == [pc : Pc, i : Domain, ok : Nat, bad : Nat, result : Outcome]

\* Domains the goroutine has counted an outcome for.
Done(w) == IF w.pc \in {"record", "complete"} THEN w.i ELSE w.i - 1

WorkerInv(j) ==
  LET w == worker[j] IN
  /\ status[j] \in Unfinished
  /\ w.ok + w.bad = Done(w)
  /\ \A k \in issued[j] : k <= Done(w)
  /\ w.ok = Cardinality(issued[j])
  /\ w.pc = "complete" => w.i = NDomains

AbsentInv(j) == status[j] = "absent" => worker[j] = Dead /\ issued[j] = {}

FinalInv(j) ==
  status[j] \in {"completed", "cancelled"} =>
    /\ success[j] = Cardinality(issued[j])
    /\ status[j] = "completed" => success[j] + failed[j] = NDomains

\* A goroutine about to start a domain has slack for it.
CancelInv(j) ==
  /\ late[j] # {} => cancelRequested[j]
  /\ Cardinality(late[j]) <= 1 + faults
  /\ AtPc(j, "stamp") /\ ~expired[j] => Cardinality(late[j]) <= faults

\* The clock waits for the recovery, and every write stamps the row.
FreshInv(j) == recovering /\ Live(j) => updatedAt[j] = now

JobInv(j) ==
  /\ Live(j) => WorkerInv(j)
  /\ AbsentInv(j) /\ FinalInv(j) /\ CancelInv(j) /\ FreshInv(j)

IInv == TypeOK /\ \A j \in Jobs : JobInv(j)

-----------------------------------------------------------------------------
(* Types                                                                   *)

LEMMA DeadTyped == Dead \in Doing
BY DomainsAssumption DEF Dead, Doing, Pc, Domain, Outcome

LEMMA InitTyped == Init => TypeOK
<1> SUFFICES ASSUME Init PROVE TypeOK
  OBVIOUS
<1>1. worker \in [Jobs -> Doing]
  BY DeadTyped DEF Init
<1>2. "absent" \in Lifecycle!Status
  BY DEF Lifecycle!Status
<1>3. restarts \in 0 .. MaxRestarts /\ faults \in 0 .. MaxFaults /\ now \in 0 .. MaxNow
  BY BoundsAssumption DEF Init
<1>4. updatedAt \in [Jobs -> 0 .. MaxNow]
  BY BoundsAssumption DEF Init
<1> QED
  BY <1>1, <1>2, <1>3, <1>4 DEF Init, TypeOK, Doing, Outcome

\* A call on the worker's context uses up at most one refusal.
LEMMA CallTyped ==
  ASSUME TypeOK, NEW j \in Jobs, CallSucceeds(j) \/ CallFails(j)
  PROVE  faults' \in 0 .. MaxFaults /\ faults <= faults'
BY BoundsAssumption DEF TypeOK, CallSucceeds, CallFails, Refused

\* A step of the goroutine changes its own record, into one of the same type.
LEMMA WorkerTyped ==
  ASSUME TypeOK, NEW j \in Jobs, Work(j)
  PROVE  \E r \in Doing : worker' = [worker EXCEPT ![j] = r]
<1>a. worker[j] \in Doing
  BY DEF TypeOK, Doing, Outcome
<1>g. ASSUME NEW pc \in Pc PROVE [worker[j] EXCEPT !.pc = pc] \in Doing
  BY <1>a DEF Doing
<1>1. CASE Begin(j) \/ CheckCancel(j) \/ StampDomain(j)
  <2>1. \E pc \in Pc : worker' = [worker EXCEPT ![j] = [worker[j] EXCEPT !.pc = pc]]
          \/ worker' = [worker EXCEPT ![j] = Dead]
    BY <1>1 DEF Begin, CheckCancel, StampDomain, Goto, Pc
  <2> QED
    BY <2>1, <1>g, DeadTyped
<1>2. CASE IssueCert(j)
  <2> DEFINE bad == worker[j].bad + 1
             ok == worker[j].ok + 1
  <2>1. ok \in Nat /\ bad \in Nat
    BY <1>a DEF Doing
  <2>2. [worker[j] EXCEPT !.pc = "record", !.result = "failed", !.bad = bad] \in Doing
    BY <1>a, <2>1 DEF Doing, Pc, Outcome
  <2>3. [worker[j] EXCEPT !.pc = "record", !.result = "issued", !.ok = ok] \in Doing
    BY <1>a, <2>1 DEF Doing, Pc, Outcome
  <2> QED
    BY <1>2, <2>2, <2>3 DEF IssueCert
<1>3. CASE RecordOutcome(j)
  <2> DEFINE w == worker[j]
             r == [w EXCEPT !.pc = IF LastDomain(w) THEN "complete" ELSE "check",
                            !.i = IF LastDomain(w) THEN @ ELSE @ + 1,
                            !.result = "none"]
  <2>1. w.i # NDomains => w.i + 1 \in Domain
    BY <1>a, DomainsAssumption DEF Doing, Domain
  <2>2. r \in Doing
    BY <1>a, <2>1 DEF Doing, Pc, Outcome, LastDomain
  <2>3. worker' = [worker EXCEPT ![j] = r]
    BY <1>3 DEF RecordOutcome
  <2> QED
    BY <2>2, <2>3
<1>4. CASE Complete(j) \/ StopCancelled(j) \/ Panic(j)
  BY <1>4, DeadTyped DEF Complete, StopCancelled, Finish, Panic
<1> QED
  BY <1>1, <1>2, <1>3, <1>4 DEF Work

LEMMA WorkTyped ==
  ASSUME TypeOK, NEW j \in Jobs, Work(j)
  PROVE  TypeOK'
<1>a. /\ worker \in [Jobs -> Doing] /\ worker[j] \in Doing /\ now \in 0 .. MaxNow
      /\ worker[j].i \in Domain /\ worker[j].ok \in Nat /\ worker[j].bad \in Nat
      /\ worker[j].result \in Outcome
  BY DEF TypeOK, Doing, Outcome
<1>b. /\ "running" \in Lifecycle!Status /\ "completed" \in Lifecycle!Status
      /\ "cancelled" \in Lifecycle!Status /\ "failed" \in Lifecycle!Status
  BY DEF Lifecycle!Status, Lifecycle!Unfinished, Lifecycle!Terminal
<1>w. worker' \in [Jobs -> Doing]
  BY <1>a, WorkerTyped
<1>1. CASE Begin(j)
  <2>1. faults' \in 0 .. MaxFaults
    BY <1>1, CallTyped DEF Begin
  <2>2. status' \in [Jobs -> Lifecycle!Status]
    BY <1>1, <1>b DEF Begin, TypeOK
  <2>3. updatedAt' \in [Jobs -> 0 .. MaxNow]
    BY <1>1, <1>a DEF Begin, TypeOK
  <2> QED
    BY <1>1, <1>w, <2>1, <2>2, <2>3 DEF Begin, TypeOK, Doing, Outcome, env
<1>2. CASE CheckCancel(j)
  <2>1. faults' \in 0 .. MaxFaults
    BY <1>2, CallTyped DEF CheckCancel
  <2> QED
    BY <1>2, <1>w, <2>1 DEF CheckCancel, TypeOK, Doing, Outcome, row, env
<1>3. CASE StampDomain(j)
  <2>1. faults' \in 0 .. MaxFaults
    BY <1>3, CallTyped DEF StampDomain
  <2>2. late' \in [Jobs -> SUBSET Domain]
    BY <1>3, <1>a DEF StampDomain, TypeOK
  <2>3. updatedAt' \in [Jobs -> 0 .. MaxNow]
    BY <1>3, <1>a DEF StampDomain, TypeOK
  <2> QED
    BY <1>3, <1>w, <2>1, <2>2, <2>3 DEF StampDomain, TypeOK, Doing, Outcome, env
<1>4. CASE IssueCert(j)
  <2>1. issued' \in [Jobs -> SUBSET Domain]
    <3>1. \/ issued' = issued
          \/ issued' = [issued EXCEPT ![j] = @ \cup {worker[j].i}]
      BY <1>4 DEF IssueCert
    <3>2. issued \in [Jobs -> SUBSET Domain]
      BY DEF TypeOK
    <3> QED
      BY <1>a, <3>1, <3>2
  <2> QED
    BY <1>4, <1>w, <2>1 DEF IssueCert, TypeOK, Doing, Outcome, row, env
<1>5. CASE RecordOutcome(j)
  <2>1. faults' \in 0 .. MaxFaults
    BY <1>5, CallTyped DEF RecordOutcome
  <2>2. items' \in [Jobs -> [Domain -> Outcome]]
    <3>1. \/ items' = items
          \/ items' = [items EXCEPT ![j][worker[j].i] = worker[j].result]
      BY <1>5 DEF RecordOutcome
    <3>2. items \in [Jobs -> [Domain -> Outcome]]
      BY DEF TypeOK, Outcome
    <3> QED
      BY <1>a, <3>1, <3>2
  <2>3. success' \in [Jobs -> Nat] /\ failed' \in [Jobs -> Nat]
    BY <1>5, <1>a DEF RecordOutcome, TypeOK
  <2>4. updatedAt' \in [Jobs -> 0 .. MaxNow]
    BY <1>5, <1>a DEF RecordOutcome, TypeOK
  <2> QED
    BY <1>5, <1>w, <2>1, <2>2, <2>3, <2>4 DEF RecordOutcome, TypeOK, Doing, Outcome, env
<1>6. CASE Complete(j) \/ StopCancelled(j)
  <2> USE <1>6, <1>a DEF Complete, StopCancelled, Finish, Finalise, TypeOK
  <2>1. status' \in [Jobs -> Lifecycle!Status]
    BY <1>b
  <2>2. success' \in [Jobs -> Nat] /\ failed' \in [Jobs -> Nat]
    OBVIOUS
  <2>3. updatedAt' \in [Jobs -> 0 .. MaxNow]
    OBVIOUS
  <2> QED
    BY <1>w, <2>1, <2>2, <2>3 DEF Doing, Outcome, env
<1>7. CASE Panic(j)
  BY <1>7, <1>a, <1>b, <1>w DEF Panic, TypeOK, Doing, Outcome, env
<1> QED
  BY <1>1, <1>2, <1>3, <1>4, <1>5, <1>6, <1>7 DEF Work

\* What submits, cuts off or cancels a job.
Outside(j) == Start(j) \/ Expire(j) \/ ReadForCancel(j) \/ RequestCancel(j)

LEMMA OutsideTyped ==
  ASSUME TypeOK, NEW j \in Jobs, Outside(j)
  PROVE  TypeOK'
<1>1. CASE Start(j)
  <2>1. [worker[j] EXCEPT !.pc = "begin"] \in Doing
    BY DEF TypeOK, Doing, Outcome, Pc
  <2>2. worker' \in [Jobs -> Doing]
    BY <1>1, <2>1 DEF Start, Goto, TypeOK, Doing, Outcome
  <2>3. "queued" \in Lifecycle!Status
    BY DEF Lifecycle!Status, Lifecycle!Unfinished
  <2> QED
    BY <1>1, <2>2, <2>3 DEF Start, TypeOK, Doing, Outcome, env
<1>2. CASE Expire(j)
  BY <1>2 DEF Expire, TypeOK, row, env
<1>3. CASE ReadForCancel(j)
  BY <1>3 DEF ReadForCancel, TypeOK, row, env
<1>4. CASE RequestCancel(j)
  BY <1>4 DEF RequestCancel, TypeOK, env
<1> QED
  BY <1>1, <1>2, <1>3, <1>4 DEF Outside

LEMMA ProcessTyped ==
  ASSUME TypeOK, Tick \/ Restart \/ Recover
  PROVE  TypeOK'
<1>1. CASE Tick
  <2>1. now' \in 0 .. MaxNow
    BY <1>1, BoundsAssumption DEF Tick, TypeOK
  <2> QED
    BY <1>1, <2>1 DEF Tick, TypeOK, row
<1>2. CASE Restart
  <2>1. worker' \in [Jobs -> Doing]
    BY <1>2, DeadTyped DEF Restart
  <2>2. restarts' \in 0 .. MaxRestarts
    BY <1>2, BoundsAssumption DEF Restart, TypeOK
  <2> QED
    BY <1>2, <2>1, <2>2 DEF Restart, TypeOK, Doing, Outcome, row
<1>3. CASE Recover
  <2>1. "failed" \in Lifecycle!Status
    BY DEF Lifecycle!Status, Lifecycle!Terminal
  <2>2. status' \in [Jobs -> Lifecycle!Status]
    BY <1>3, <2>1 DEF Recover, TypeOK
  <2>3. updatedAt' \in [Jobs -> 0 .. MaxNow]
    BY <1>3 DEF Recover, TypeOK
  <2> QED
    BY <1>3, <2>2, <2>3 DEF Recover, TypeOK
<1> QED
  BY <1>1, <1>2, <1>3

-----------------------------------------------------------------------------
(* The job invariant                                                       *)

LEMMA DomainsFinite ==
  ASSUME TypeOK, NEW j \in Jobs
  PROVE  /\ IsFiniteSet(late[j]) /\ Cardinality(late[j]) \in Nat
         /\ IsFiniteSet(issued[j]) /\ Cardinality(issued[j]) \in Nat
<1>1. IsFiniteSet(Domain)
  BY DomainsAssumption, FS_Interval DEF Domain
<1>2. late[j] \subseteq Domain /\ issued[j] \subseteq Domain
  BY DEF TypeOK
<1> QED
  BY <1>1, <1>2, FS_Subset, FS_CardinalityType

LEMMA AddOne ==
  ASSUME NEW S, IsFiniteSet(S), NEW x
  PROVE  /\ Cardinality(S \cup {x}) \in Nat
         /\ Cardinality(S \cup {x}) <= Cardinality(S) + 1
<1>1. Cardinality(S) \in Nat
  BY FS_CardinalityType
<1>2. CASE x \in S
  <2>1. S \cup {x} = S
    BY <1>2
  <2>2. Cardinality(S \cup {x}) = Cardinality(S)
    BY <2>1, Zenon
  <2> QED
    BY <1>1, <2>2
<1>3. CASE x \notin S
  <2>1. Cardinality(S \cup {x}) = Cardinality(S) + 1
    BY <1>3, FS_AddElement
  <2> QED
    BY <1>1, <2>1
<1> QED
  BY <1>2, <1>3

\* A job whose row, goroutine and history stay as they are keeps it, while
\* refusals are used up and the clock waits for the recovery.
LEMMA Frame ==
  ASSUME TypeOK, NEW k \in Jobs, JobInv(k), faults <= faults', faults' \in Nat,
         recovering' => recovering /\ now' = now,
         status'[k] = status[k], cancelRequested'[k] = cancelRequested[k],
         updatedAt'[k] = updatedAt[k], success'[k] = success[k],
         failed'[k] = failed[k], worker'[k] = worker[k],
         expired'[k] = expired[k], issued'[k] = issued[k], late'[k] = late[k]
  PROVE  JobInv(k)'
<1>1. Live(k)' = Live(k) /\ (WorkerInv(k) => WorkerInv(k)')
  BY DEF Live, WorkerInv
<1>2. AbsentInv(k)' /\ FinalInv(k)' /\ FreshInv(k)'
  BY <1>1 DEF JobInv, AbsentInv, FinalInv, FreshInv
<1>3. CancelInv(k)'
  <2>1. Cardinality(late[k]) \in Nat /\ faults \in Nat
    BY DomainsFinite DEF TypeOK
  <2> QED
    BY <2>1 DEF JobInv, CancelInv, AtPc
<1> QED
  BY <1>1, <1>2, <1>3 DEF JobInv

\* The goroutine counts refusals up and leaves the process alone.
LEMMA WorkEnv ==
  ASSUME TypeOK, NEW j \in Jobs, Work(j)
  PROVE  faults' \in Nat /\ faults <= faults' /\ UNCHANGED env
<1>1. ASSUME CallSucceeds(j) \/ CallFails(j)
      PROVE  faults' \in Nat /\ faults <= faults'
  BY <1>1, CallTyped, BoundsAssumption
<1>2. faults \in Nat
  BY DEF TypeOK
<1>3. UNCHANGED env /\ (CallSucceeds(j) \/ CallFails(j) \/ UNCHANGED faults)
  BY DEF Work, Begin, CheckCancel, StampDomain, IssueCert, RecordOutcome,
         Complete, StopCancelled, Finish, Panic
<1> QED
  BY <1>1, <1>2, <1>3

\* A step of one job leaves the others alone.
LEMMA OthersKeep ==
  ASSUME TypeOK, NEW j \in Jobs, NEW k \in Jobs, k # j, JobInv(k),
         Work(j) \/ Outside(j)
  PROVE  JobInv(k)'
<1>1. /\ status'[k] = status[k] /\ cancelRequested'[k] = cancelRequested[k]
      /\ updatedAt'[k] = updatedAt[k] /\ success'[k] = success[k]
      /\ failed'[k] = failed[k] /\ expired'[k] = expired[k]
      /\ issued'[k] = issued[k] /\ late'[k] = late[k]
  <2> USE DEF TypeOK, row
  <2>1. CASE Begin(j) \/ CheckCancel(j) \/ StampDomain(j)
    BY <2>1 DEF Begin, CheckCancel, StampDomain
  <2>2. CASE IssueCert(j) \/ RecordOutcome(j)
    BY <2>2 DEF IssueCert, RecordOutcome
  <2>3. CASE Complete(j) \/ StopCancelled(j) \/ Panic(j)
    BY <2>3 DEF Complete, StopCancelled, Finish, Finalise, Panic
  <2>4. CASE Outside(j)
    BY <2>4 DEF Outside, Start, Expire, ReadForCancel, RequestCancel
  <2> QED
    BY <2>1, <2>2, <2>3, <2>4 DEF Work
<1>2. worker'[k] = worker[k]
  <2>1. CASE Work(j)
    BY <2>1, WorkerTyped DEF TypeOK
  <2>2. CASE Outside(j)
    BY <2>2 DEF Outside, Start, Goto, Expire, ReadForCancel, RequestCancel, TypeOK
  <2> QED
    BY <2>1, <2>2
<1>3. faults' \in Nat /\ faults <= faults' /\ UNCHANGED env
  <2>1. CASE Work(j)
    BY <2>1, WorkEnv
  <2>2. CASE Outside(j)
    BY <2>2 DEF Outside, Start, Expire, ReadForCancel, RequestCancel, TypeOK
  <2> QED
    BY <2>1, <2>2
<1> QED
  BY <1>1, <1>2, <1>3, Frame DEF env

\* The goroutine's own steps.
LEMMA WorkKeeps ==
  ASSUME IInv, NEW j \in Jobs, Work(j)
  PROVE  JobInv(j)'
<1> DEFINE w == worker[j]
           n == worker'[j]
<1>a. /\ TypeOK /\ JobInv(j) /\ w \in Doing /\ w.i \in Domain /\ w.i \in Nat
      /\ w.ok \in Nat /\ w.bad \in Nat /\ faults \in Nat /\ now \in Nat
      /\ worker \in [Jobs -> Doing] /\ updatedAt \in [Jobs -> 0 .. MaxNow]
      /\ late \in [Jobs -> SUBSET Domain] /\ issued \in [Jobs -> SUBSET Domain]
  <2>1. TypeOK /\ JobInv(j)
    BY DEF IInv
  <2>2. worker \in [Jobs -> Doing]
    BY <2>1 DEF TypeOK, Doing, Outcome
  <2>3. w \in Doing /\ w.i \in Domain /\ w.ok \in Nat /\ w.bad \in Nat
    BY <2>2 DEF Doing
  <2>4. w.i \in Nat /\ now \in Nat /\ faults \in Nat
    BY <2>1, <2>3, DomainsAssumption, BoundsAssumption DEF TypeOK, Domain
  <2> QED
    BY <2>1, <2>2, <2>3, <2>4 DEF TypeOK
<1>b. /\ Live(j) /\ WorkerInv(j) /\ AbsentInv(j) /\ FinalInv(j) /\ CancelInv(j)
      /\ FreshInv(j)
  BY <1>a DEF Work, Begin, CheckCancel, StampDomain, IssueCert, RecordOutcome,
              Complete, StopCancelled, Finish, Panic, AtPc, Live, JobInv
<1>c. faults' \in Nat /\ faults <= faults' /\ UNCHANGED env
  BY <1>a, WorkEnv
<1>d. /\ IsFiniteSet(late[j]) /\ Cardinality(late[j]) \in Nat
      /\ IsFiniteSet(issued[j]) /\ Cardinality(issued[j]) \in Nat
  BY <1>a, DomainsFinite
<1>k. ASSUME status'[j] \in Unfinished, ~AtPc(j, "stamp")', UNCHANGED late,
             cancelRequested'[j] = cancelRequested[j],
             updatedAt'[j] \in {updatedAt[j], now}
      PROVE  AbsentInv(j)' /\ FinalInv(j)' /\ CancelInv(j)' /\ FreshInv(j)'
  BY <1>k, <1>b, <1>c, <1>d, <1>a
     DEF AbsentInv, FinalInv, CancelInv, FreshInv, Unfinished, env
<1>e. ASSUME ~Live(j)', UNCHANGED <<late, cancelRequested>>, status'[j] # "absent",
             FinalInv(j)'
      PROVE  JobInv(j)'
  <2>1. CancelInv(j)'
    BY <1>e, <1>a, <1>b, <1>c, <1>d DEF CancelInv, Live, AtPc
  <2> QED
    BY <1>e, <2>1 DEF JobInv, AbsentInv, FreshInv
<1>1. CASE Begin(j)
  <2>1. CASE worker' = [worker EXCEPT ![j] = Dead]
    <3>1. ~Live(j)'
      BY <2>1, <1>a DEF Live, Dead
    <3>2. status'[j] \in Unfinished
      BY <1>1, <1>a, <1>b DEF Begin, WorkerInv, TypeOK, Unfinished
    <3> QED
      BY <3>1, <3>2, <1>1, <1>e DEF Begin, FinalInv, Unfinished
  <2>2. CASE Goto(j, "check") /\ status' = [status EXCEPT ![j] = "running"]
              /\ updatedAt' = [updatedAt EXCEPT ![j] = now]
    <3>1. /\ n.pc = "check" /\ n.i = w.i /\ n.ok = w.ok /\ n.bad = w.bad
          /\ w.pc = "begin"
      BY <1>1, <2>2, <1>a DEF Begin, Goto, AtPc, Doing
    <3>2. status'[j] \in Unfinished /\ updatedAt'[j] = now /\ issued' = issued
      BY <1>1, <2>2, <1>a DEF Begin, TypeOK, Unfinished
    <3>3. WorkerInv(j)'
      BY <1>b, <3>1, <3>2 DEF WorkerInv, Done
    <3> QED
      BY <1>1, <1>k, <3>1, <3>2, <3>3 DEF Begin, JobInv, AtPc
  <2> QED
    BY <1>1, <2>1, <2>2 DEF Begin
<1>2. CASE CheckCancel(j)
  <2>1. /\ w.pc = "check" /\ n.i = w.i /\ n.ok = w.ok /\ n.bad = w.bad
        /\ n.pc \in {"cancel", "stamp"} /\ UNCHANGED row
        /\ UNCHANGED <<issued, late, expired>>
    BY <1>2, <1>a DEF CheckCancel, Goto, AtPc, Doing
  <2>2. WorkerInv(j)'
    BY <1>b, <2>1 DEF WorkerInv, Done, row
  <2>3. CancelInv(j)'
    <3>1. CASE CallFails(j)
      <4>1. expired[j] \/ faults' = faults + 1
        BY <3>1 DEF CallFails, Refused
      <4> QED
        BY <4>1, <1>a, <1>b, <1>c, <1>d, <2>1 DEF CancelInv, row, AtPc
    <3>2. CASE ~CallFails(j)
      <4>1. n.pc = "stamp" => ~cancelRequested[j]
        BY <1>2, <3>2, <1>a DEF CheckCancel, Goto, CancelSeen, Doing
      <4>2. n.pc = "stamp" => Cardinality(late[j]) = 0
        BY <4>1, <1>b, FS_EmptySet DEF CancelInv
      <4> QED
        BY <4>2, <1>a, <1>b, <1>c, <1>d, <2>1 DEF CancelInv, row, AtPc
    <3> QED
      BY <3>1, <3>2
  <2>4. AbsentInv(j)' /\ FinalInv(j)' /\ FreshInv(j)'
    BY <1>b, <1>c, <2>1 DEF AbsentInv, FinalInv, FreshInv, WorkerInv, Unfinished, row, env
  <2> QED
    BY <2>2, <2>3, <2>4 DEF JobInv
<1>3. CASE StampDomain(j)
  <2>1. /\ w.pc = "stamp" /\ n.pc = "issue" /\ n.i = w.i /\ n.ok = w.ok
        /\ n.bad = w.bad
        /\ UNCHANGED <<status, cancelRequested, success, failed, expired, issued>>
    BY <1>3, <1>a DEF StampDomain, Goto, AtPc, Doing
  <2>2. updatedAt'[j] \in {updatedAt[j], now}
    BY <1>3, <1>a DEF StampDomain
  <2>3. WorkerInv(j)'
    BY <1>b, <2>1 DEF WorkerInv, Done
  <2>4. CancelInv(j)'
    <3>1. late'[j] = IF cancelRequested[j] /\ ~expired[j] THEN late[j] \cup {w.i}
                                                          ELSE late[j]
      BY <1>3, <1>a DEF StampDomain
    <3>2. Cardinality(late[j] \cup {w.i}) <= Cardinality(late[j]) + 1
      BY <1>d, AddOne
    <3>3. Cardinality(late[j] \cup {w.i}) \in Nat
      BY <1>d, AddOne
    <3>4. Cardinality(late'[j]) <= 1 + faults'
      BY <1>a, <1>b, <1>c, <1>d, <2>1, <3>1, <3>2, <3>3 DEF CancelInv, AtPc
    <3> QED
      BY <1>b, <2>1, <3>1, <3>4 DEF CancelInv, AtPc
  <2>5. AbsentInv(j)' /\ FinalInv(j)' /\ FreshInv(j)'
    BY <1>b, <1>c, <2>1, <2>2 DEF AbsentInv, FinalInv, FreshInv, WorkerInv, Unfinished, env
  <2> QED
    BY <2>3, <2>4, <2>5 DEF JobInv
<1>4. CASE IssueCert(j)
  <2>1. /\ w.pc = "issue" /\ n.pc = "record" /\ n.i = w.i
        /\ UNCHANGED row /\ UNCHANGED late
    <3>1. /\ w.pc = "issue" /\ UNCHANGED row /\ UNCHANGED late
          /\ \/ worker' = [worker EXCEPT ![j] =
                  [w EXCEPT !.pc = "record", !.result = "failed", !.bad = @ + 1]]
             \/ worker' = [worker EXCEPT ![j] =
                  [w EXCEPT !.pc = "record", !.result = "issued", !.ok = @ + 1]]
      BY <1>4 DEF IssueCert, AtPc
    <3>2. \/ n = [w EXCEPT !.pc = "record", !.result = "failed", !.bad = @ + 1]
          \/ n = [w EXCEPT !.pc = "record", !.result = "issued", !.ok = @ + 1]
      BY <3>1, <1>a
    <3> QED
      BY <3>1, <3>2, <1>a DEF Doing
  <2>2. \/ n.ok = w.ok /\ n.bad = w.bad + 1 /\ issued'[j] = issued[j]
        \/ n.ok = w.ok + 1 /\ n.bad = w.bad /\ issued'[j] = issued[j] \cup {w.i}
    <3>1. \/ /\ n = [w EXCEPT !.pc = "record", !.result = "failed", !.bad = @ + 1]
             /\ issued' = issued
          \/ /\ n = [w EXCEPT !.pc = "record", !.result = "issued", !.ok = @ + 1]
             /\ issued' = [issued EXCEPT ![j] = @ \cup {w.i}]
      BY <1>4, <1>a DEF IssueCert
    <3> QED
      BY <3>1, <1>a DEF Doing
  <2>3. /\ \A k \in issued[j] : k <= w.i - 1
        /\ w.i \notin issued[j]
    BY <1>a, <1>b, <2>1 DEF WorkerInv, Done
  <2>4. \A k \in issued'[j] : k <= w.i
    <3>1. issued[j] \subseteq Nat
      BY <1>a DEF Domain
    <3> QED
      BY <1>a, <2>2, <2>3, <3>1
  <2>5. n.ok = Cardinality(issued'[j])
    <3>1. Cardinality(issued[j] \cup {w.i}) = Cardinality(issued[j]) + 1
      BY <1>d, <2>3, FS_AddElement
    <3> QED
      BY <1>b, <2>2, <3>1 DEF WorkerInv
  <2>6. n.ok + n.bad = w.i
    BY <1>a, <1>b, <2>1, <2>2 DEF WorkerInv, Done
  <2>7. WorkerInv(j)'
    BY <1>b, <2>1, <2>4, <2>5, <2>6 DEF WorkerInv, Done, row
  <2>8. status'[j] \in Unfinished
    BY <1>b, <2>1 DEF WorkerInv, row
  <2> QED
    BY <1>k, <2>1, <2>7, <2>8 DEF JobInv, AtPc, row
<1>5. CASE RecordOutcome(j)
  <2>1. /\ w.pc = "record" /\ n.ok = w.ok /\ n.bad = w.bad
        /\ UNCHANGED <<status, cancelRequested, expired, issued, late>>
        /\ updatedAt'[j] \in {updatedAt[j], now}
    BY <1>5, <1>a DEF RecordOutcome, AtPc, Doing
  <2>2. \/ w.i = NDomains /\ n.pc = "complete" /\ n.i = w.i
        \/ w.i # NDomains /\ n.pc = "check" /\ n.i = w.i + 1
    BY <1>5, <1>a DEF RecordOutcome, LastDomain, Doing
  <2>3. Done(n) = Done(w)
    BY <1>a, <2>1, <2>2 DEF Done
  <2>4. WorkerInv(j)'
    BY <1>b, <2>1, <2>2, <2>3 DEF WorkerInv
  <2>5. status'[j] \in Unfinished
    BY <1>b, <2>1 DEF WorkerInv
  <2> QED
    BY <1>k, <2>1, <2>2, <2>4, <2>5 DEF JobInv, AtPc
<1>6. CASE Complete(j) \/ StopCancelled(j)
  <2>1. /\ n = Dead /\ UNCHANGED <<late, cancelRequested, issued>>
        /\ success'[j] = w.ok /\ failed'[j] = w.bad
        /\ \/ w.pc = "complete" /\ status'[j] = "completed"
           \/ w.pc = "cancel" /\ status'[j] = "cancelled"
    BY <1>6, <1>a DEF Complete, StopCancelled, Finish, Finalise, AtPc, TypeOK
  <2>2. ~Live(j)'
    BY <2>1 DEF Live, Dead
  <2>3. FinalInv(j)'
    BY <1>b, <2>1 DEF FinalInv, WorkerInv, Done
  <2> QED
    BY <1>e, <2>1, <2>2, <2>3
<1>7. CASE Panic(j)
  <2>1. n = Dead /\ UNCHANGED <<late, cancelRequested>> /\ status'[j] = "failed"
    BY <1>7, <1>a DEF Panic, TypeOK
  <2>2. ~Live(j)'
    BY <2>1 DEF Live, Dead
  <2> QED
    BY <1>e, <2>1, <2>2 DEF FinalInv
<1> QED
  BY <1>1, <1>2, <1>3, <1>4, <1>5, <1>6, <1>7 DEF Work

LEMMA OutsideKeeps ==
  ASSUME IInv, NEW j \in Jobs, Outside(j)
  PROVE  JobInv(j)'
<1>a. /\ TypeOK /\ JobInv(j) /\ AbsentInv(j) /\ FinalInv(j) /\ CancelInv(j)
      /\ FreshInv(j) /\ faults \in Nat
  BY DEF IInv, JobInv, TypeOK
<1>b. Cardinality(late[j]) \in Nat
  BY <1>a, DomainsFinite
<1>1. CASE Start(j)
  <2>1. /\ status[j] = "absent" /\ status'[j] = "queued" /\ updatedAt'[j] = now
        /\ worker'[j] = [worker[j] EXCEPT !.pc = "begin"]
        /\ UNCHANGED <<success, failed, issued, late, cancelRequested, expired,
                       faults, env>>
    BY <1>1, <1>a DEF Start, Goto, TypeOK
  <2>2. worker'[j] = [Dead EXCEPT !.pc = "begin"] /\ issued[j] = {}
    BY <1>a, <2>1 DEF AbsentInv
  <2>3. /\ worker'[j].pc = "begin" /\ worker'[j].i = 1
        /\ worker'[j].ok = 0 /\ worker'[j].bad = 0
    BY <2>2 DEF Dead
  <2>4. WorkerInv(j)'
    <3>1. Cardinality(issued'[j]) = 0 /\ \A k \in issued'[j] : k <= 0
      BY <2>1, <2>2, FS_EmptySet
    <3> QED
      BY <2>1, <2>3, <3>1 DEF WorkerInv, Done, Unfinished
  <2>5. AbsentInv(j)' /\ FinalInv(j)' /\ FreshInv(j)'
    BY <2>1 DEF AbsentInv, FinalInv, FreshInv, env
  <2>6. CancelInv(j)'
    BY <1>a, <2>1, <2>3 DEF CancelInv, AtPc
  <2> QED
    BY <2>4, <2>5, <2>6 DEF JobInv
<1>2. CASE ReadForCancel(j)
  BY <1>2, <1>a, Frame DEF ReadForCancel, row, env
<1>3. CASE Expire(j) \/ RequestCancel(j)
  <2>1. /\ UNCHANGED <<status, success, failed, worker, issued, late, faults, env>>
        /\ cancelRequested[j] => cancelRequested'[j]
        /\ expired[j] => expired'[j]
        /\ updatedAt'[j] \in {updatedAt[j], now}
    BY <1>3, <1>a DEF Expire, RequestCancel, row, TypeOK
  <2>2. Live(j)' = Live(j) /\ (WorkerInv(j) => WorkerInv(j)')
    BY <2>1 DEF Live, WorkerInv
  <2>3. AbsentInv(j)' /\ FinalInv(j)' /\ FreshInv(j)'
    BY <1>a, <2>1, <2>2 DEF AbsentInv, FinalInv, FreshInv, env
  <2>4. CancelInv(j)'
    BY <1>a, <2>1 DEF CancelInv, AtPc
  <2> QED
    BY <1>a, <2>2, <2>3, <2>4 DEF JobInv
<1> QED
  BY <1>1, <1>2, <1>3 DEF Outside

\* A recovery finds no live goroutine's row stale.
LEMMA LiveNotStale ==
  ASSUME IInv, Recover, NEW j \in Jobs, Live(j)
  PROVE  ~Stale(j)
<1>1. updatedAt[j] = now
  BY DEF IInv, JobInv, FreshInv, Recover
<1> QED
  BY <1>1, BoundsAssumption DEF Stale, IInv, TypeOK

LEMMA ProcessKeeps ==
  ASSUME IInv, Tick \/ Restart \/ Recover, NEW j \in Jobs
  PROVE  JobInv(j)'
<1>a. /\ TypeOK /\ JobInv(j) /\ AbsentInv(j) /\ FinalInv(j) /\ CancelInv(j)
      /\ faults \in Nat /\ Cardinality(late[j]) \in Nat
  BY DomainsFinite DEF IInv, JobInv, TypeOK
<1>1. CASE Tick
  BY <1>1, <1>a, Frame DEF Tick, row
<1>2. CASE Restart
  <2>1. worker'[j] = Dead /\ UNCHANGED <<row, issued, late, expired, faults>>
    BY <1>2 DEF Restart
  <2>2. ~Live(j)' /\ ~AtPc(j, "stamp")'
    BY <2>1 DEF Live, AtPc, Dead
  <2>3. AbsentInv(j)' /\ FinalInv(j)' /\ FreshInv(j)' /\ CancelInv(j)'
    BY <1>a, <2>1, <2>2 DEF AbsentInv, FinalInv, FreshInv, CancelInv, row
  <2> QED
    BY <2>2, <2>3 DEF JobInv
<1>3. CASE Recover
  <2>1. /\ \/ ~Live(j) /\ status[j] \in Unfinished /\ status'[j] = "failed"
           \/ status'[j] = status[j]
        /\ UNCHANGED <<cancelRequested, success, failed, worker, expired, issued,
                       late, faults>>
        /\ recovering' = FALSE
    BY <1>3, LiveNotStale DEF Recover, Stale
  <2>2. Live(j)' = Live(j) /\ (Live(j) /\ WorkerInv(j) => WorkerInv(j)')
    BY <2>1 DEF Live, WorkerInv
  <2>3. AbsentInv(j)' /\ FinalInv(j)' /\ FreshInv(j)' /\ CancelInv(j)'
    BY <1>a, <2>1 DEF AbsentInv, FinalInv, FreshInv, CancelInv, AtPc, Unfinished
  <2> QED
    BY <1>a, <2>2, <2>3 DEF JobInv
<1> QED
  BY <1>1, <1>2, <1>3

LEMMA InitInv == Init => IInv
<1> SUFFICES ASSUME Init, NEW j \in Jobs PROVE JobInv(j)
  BY InitTyped DEF IInv
<1>1. /\ status[j] = "absent" /\ late[j] = {} /\ issued[j] = {} /\ faults = 0
      /\ worker[j] = Dead
  BY DEF Init
<1>2. ~Live(j) /\ ~AtPc(j, "stamp")
  BY <1>1 DEF Live, AtPc, Dead
<1>3. Cardinality(late[j]) = 0
  BY <1>1, FS_EmptySet
<1>4. AbsentInv(j) /\ FinalInv(j) /\ FreshInv(j) /\ CancelInv(j)
  BY <1>1, <1>2, <1>3 DEF AbsentInv, FinalInv, FreshInv, CancelInv
<1> QED
  BY <1>2, <1>4 DEF JobInv

LEMMA StepInv == IInv /\ [Next]_vars => IInv'
<1> SUFFICES ASSUME IInv, [Next]_vars PROVE IInv'
  OBVIOUS
<1>t. TypeOK /\ \A k \in Jobs : JobInv(k)
  BY DEF IInv
<1>1. ASSUME NEW j \in Jobs, Work(j) PROVE IInv'
  BY <1>1, <1>t, WorkTyped, WorkKeeps, OthersKeep DEF IInv
<1>2. ASSUME NEW j \in Jobs, Outside(j) PROVE IInv'
  BY <1>2, <1>t, OutsideTyped, OutsideKeeps, OthersKeep DEF IInv
<1>3. CASE Tick \/ Restart \/ Recover
  BY <1>3, <1>t, ProcessTyped, ProcessKeeps DEF IInv
<1>4. CASE UNCHANGED vars
  <2>1. faults \in Nat
    BY <1>t DEF TypeOK
  <2>2. ASSUME NEW k \in Jobs PROVE JobInv(k)'
    BY <1>4, <1>t, <2>1, Frame DEF vars, row, env
  <2>3. TypeOK'
    BY <1>4, <1>t DEF TypeOK, vars, row, env
  <2> QED
    BY <2>2, <2>3 DEF IInv
<1> QED
  BY <1>1, <1>2, <1>3, <1>4 DEF Next, Outside

LEMMA AlwaysInv == Spec => []IInv
BY InitInv, StepInv, PTL DEF Spec

-----------------------------------------------------------------------------
(* What the issuance job guarantees                                        *)

\* Every variable of the issuance job keeps its type through any number of
\* refused calls, cancels, deadlines and restarts.
THEOREM TypeCorrect == Spec => []TypeOK
<1>1. IInv => TypeOK
  BY DEF IInv
<1> QED
  BY <1>1, AlwaysInv, PTL

\* The final row tells the truth about the certificates issued, and a cancel
\* lets at most one more domain start, plus one per failed read of the flag.
THEOREM RowAlwaysTrue == Spec => []RowIsTrue
<1>1. IInv => FinalCountersExact
  BY DEF IInv, JobInv, FinalInv, FinalCountersExact
<1>2. IInv => CancelStopsWork
  BY DEF IInv, JobInv, CancelInv, CancelStopsWork
<1> QED
  BY <1>1, <1>2, AlwaysInv, PTL DEF RowIsTrue

\* The recovery fails no job whose goroutine is alive, whatever the cutoff.
THEOREM RecoveryAlwaysSparesLive == Spec => RecoverySparesLive
<1>1. ASSUME IInv, [Next]_vars, NEW j \in Jobs,
             Live(j), Live(j)', status'[j] = "failed"
      PROVE  status[j] = "failed"
  <2>1. JobInv(j)'
    BY <1>1, StepInv DEF IInv
  <2> QED
    BY <1>1, <2>1 DEF JobInv, WorkerInv, Unfinished
<1>2. IInv /\ [Next]_vars =>
        [\A j \in Jobs : Live(j) /\ Live(j)' /\ status'[j] = "failed"
                           => status[j] = "failed"]_vars
  BY <1>1
<1> QED
  BY <1>2, AlwaysInv, PTL DEF Spec, RecoverySparesLive

\* The issuance job, step by step, is a job of the abstract lifecycle: only its
\* goroutine reports, completes or cancels it, it may give up, and the recovery
\* fails only what is unfinished.
THEOREM IssuanceImplementsLifecycle == Spec => ImplementsLifecycle
<1>1. Init => Lifecycle!Init
  <2> SUFFICES ASSUME Init PROVE Lifecycle!Init
    OBVIOUS
  <2>1. \A j \in Jobs : Live(j) = FALSE
    BY DEF Init, Live, Dead
  <2> QED
    BY <2>1 DEF Init, Lifecycle!Init
<1>2. IInv /\ [Next]_vars => [Lifecycle!Next]_Lifecycle!vars
  <2> SUFFICES ASSUME IInv, [Next]_vars
               PROVE  [Lifecycle!Next]_Lifecycle!vars
    OBVIOUS
  <2>a. /\ TypeOK /\ worker \in [Jobs -> Doing]
        /\ status \in [Jobs -> Lifecycle!Status]
    BY DEF IInv, TypeOK, Doing, Outcome
  <2>s. ASSUME UNCHANGED status, \A k \in Jobs : Live(k)' = Live(k)
        PROVE  UNCHANGED Lifecycle!vars
    BY <2>s DEF Lifecycle!vars
  <2>d. ASSUME NEW S \in SUBSET Jobs, UNCHANGED status,
               \A k \in Jobs : Live(k)' = (Live(k) /\ k \notin S)
        PROVE  Lifecycle!Die
    BY <2>d DEF Lifecycle!Die
  <2>1. ASSUME NEW j \in Jobs, Start(j) PROVE Lifecycle!Submit(j)
    <3>1. worker' = [worker EXCEPT ![j] = [worker[j] EXCEPT !.pc = "begin"]]
      BY <2>1 DEF Start, Goto
    <3>2. \A k \in Jobs : Live(k)' = IF k = j THEN TRUE ELSE Live(k)
      BY <3>1, <2>a DEF Live, Doing
    <3> QED
      BY <2>1, <3>2 DEF Start, Lifecycle!Submit
  <2>2. ASSUME NEW j \in Jobs, Begin(j)
        PROVE  Lifecycle!Report(j) \/ Lifecycle!Die
    <3>1. worker[j].pc = "begin" /\ Live(j)
      BY <2>2 DEF Begin, AtPc, Live
    <3>2. CASE Goto(j, "check") /\ status' = [status EXCEPT ![j] = "running"]
      <4>1. \A k \in Jobs : Live(k)' = Live(k)
        BY <3>1, <3>2, <2>a DEF Goto, Live, Doing
      <4> QED
        BY <3>1, <3>2, <4>1 DEF Lifecycle!Report
    <3>3. CASE worker' = [worker EXCEPT ![j] = Dead] /\ UNCHANGED status
      <4>1. \A k \in Jobs : Live(k)' = (Live(k) /\ k \notin {j})
        BY <3>3, <2>a DEF Live, Dead
      <4> QED
        BY <3>3, <4>1, <2>d
    <3> QED
      BY <2>2, <3>2, <3>3 DEF Begin
  <2>3. ASSUME NEW j \in Jobs,
               CheckCancel(j) \/ StampDomain(j) \/ IssueCert(j) \/ RecordOutcome(j)
        PROVE  UNCHANGED Lifecycle!vars
    <3>1. worker[j].pc # "dead" /\ UNCHANGED status
      BY <2>3 DEF CheckCancel, StampDomain, IssueCert, RecordOutcome, AtPc, row
    <3>2. worker'[j].pc # "dead"
      <4>1. CASE CheckCancel(j) \/ StampDomain(j)
        BY <4>1, <2>a DEF CheckCancel, StampDomain, Goto, Doing
      <4>2. CASE IssueCert(j)
        <5>1. \/ worker'[j] = [worker[j] EXCEPT !.pc = "record",
                               !.result = "failed", !.bad = @ + 1]
              \/ worker'[j] = [worker[j] EXCEPT !.pc = "record",
                               !.result = "issued", !.ok = @ + 1]
          BY <4>2, <2>a DEF IssueCert
        <5> QED
          BY <5>1, <2>a DEF Doing
      <4>3. CASE RecordOutcome(j)
        BY <4>3, <2>a DEF RecordOutcome, Doing
      <4> QED
        BY <2>3, <4>1, <4>2, <4>3
    <3>3. \A k \in Jobs : k # j => worker'[k] = worker[k]
      BY <2>3, <2>a, WorkerTyped DEF Work
    <3>4. \A k \in Jobs : Live(k)' = Live(k)
      BY <3>1, <3>2, <3>3 DEF Live
    <3> QED
      BY <3>1, <3>4, <2>s
  <2>4. ASSUME NEW j \in Jobs, Complete(j) \/ StopCancelled(j) \/ Panic(j)
        PROVE  Lifecycle!End(j)
    <3>1. /\ Live(j) /\ worker' = [worker EXCEPT ![j] = Dead]
          /\ \E s \in {"completed", "cancelled", "failed"} :
               status' = [status EXCEPT ![j] = s]
      BY <2>4 DEF Complete, StopCancelled, Finish, Finalise, Panic, AtPc, Live
    <3>2. \A k \in Jobs : Live(k)' = IF k = j THEN FALSE ELSE Live(k)
      BY <3>1, <2>a DEF Live, Dead
    <3> QED
      BY <3>1, <3>2 DEF Lifecycle!End, Lifecycle!Terminal
  <2>5. ASSUME NEW j \in Jobs, Expire(j) \/ ReadForCancel(j) \/ RequestCancel(j)
        PROVE  UNCHANGED Lifecycle!vars
    BY <2>5, <2>s DEF Expire, ReadForCancel, RequestCancel, row, Live
  <2>6. CASE Tick
    BY <2>6, <2>s DEF Tick, row, Live
  <2>7. CASE Restart
    <3>1. UNCHANGED status /\ \A k \in Jobs : Live(k)' = (Live(k) /\ k \notin Jobs)
      BY <2>7 DEF Restart, row, Live, Dead
    <3> QED
      BY <3>1, <2>d DEF Lifecycle!Next
  <2>8. CASE Recover
    <3>1. \A k \in Jobs : Live(k)' = Live(k)
      BY <2>8 DEF Recover, Live
    <3> DEFINE S == {j \in Jobs : Stale(j)}
    <3>2. S \in SUBSET {j \in Jobs : Lifecycle!Failable(j)}
      BY DEF Stale, Unfinished, Lifecycle!Failable, Lifecycle!Unfinished
    <3>3. status' = [j \in Jobs |-> IF j \in S THEN "failed" ELSE status[j]]
      BY <2>8 DEF Recover
    <3> HIDE DEF S
    <3> QED
      BY <3>1, <3>2, <3>3 DEF Lifecycle!Recover, Lifecycle!Next
  <2>9. CASE UNCHANGED vars
    BY <2>9, <2>s DEF vars, row, Live
  <2> QED
    BY <2>1, <2>2, <2>3, <2>4, <2>5, <2>6, <2>7, <2>8, <2>9
       DEF Next, Work, Lifecycle!Next
<1> QED
  BY <1>1, <1>2, AlwaysInv, PTL DEF Spec, ImplementsLifecycle, Lifecycle!SafeSpec

\* A poller that sees a terminal status of an issuance job whose goroutine has
\* ended has the final word: no later restart or recovery changes it.
THEOREM SettledStaysSettled == Spec => Lifecycle!SettledForGood
<1> DEFINE Stays(j) == Lifecycle!Settled(j) =>
                         Lifecycle!Settled(j)' /\ status'[j] = status[j]
<1>1. IInv /\ [Lifecycle!Next]_Lifecycle!vars => \A j \in Jobs : Stays(j)
  <2> SUFFICES ASSUME IInv, [Lifecycle!Next]_Lifecycle!vars, NEW j \in Jobs,
                      ~Live(j), status[j] \in Lifecycle!Terminal
               PROVE  ~Live(j)' /\ status'[j] = status[j]
    BY DEF Lifecycle!Settled
  <2>a. status \in [Jobs -> Lifecycle!Status]
    BY DEF IInv, TypeOK
  <2> USE DEF Live, Lifecycle!Terminal
  <2>1. ASSUME NEW k \in Jobs,
               Lifecycle!Submit(k) \/ Lifecycle!Report(k) \/ Lifecycle!End(k)
        PROVE  ~Live(j)' /\ status'[j] = status[j]
    BY <2>1, <2>a DEF Lifecycle!Submit, Lifecycle!Report, Lifecycle!End
  <2>2. CASE Lifecycle!Die
    BY <2>2 DEF Lifecycle!Die
  <2>3. CASE Lifecycle!Recover
    BY <2>3 DEF Lifecycle!Recover, Lifecycle!Failable, Lifecycle!Unfinished
  <2>4. CASE UNCHANGED Lifecycle!vars
    BY <2>4 DEF Lifecycle!vars
  <2> QED
    BY <2>1, <2>2, <2>3, <2>4 DEF Lifecycle!Next
<1> QED
  BY <1>1, AlwaysInv, IssuanceImplementsLifecycle, PTL
     DEF ImplementsLifecycle, Lifecycle!SafeSpec, Lifecycle!SettledForGood
=============================================================================
