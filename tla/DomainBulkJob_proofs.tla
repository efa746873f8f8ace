------------------------ MODULE DomainBulkJob_proofs ------------------------
(***************************************************************************)
(* Proofs about DomainBulkJob for any number of jobs, rows, restarts and   *)
(* refused calls.                                                          *)
(*                                                                         *)
(* JobInv says of a job which rows lie behind its goroutine, what has been *)
(* written about them and what could not be, how far the row's counters    *)
(* lag behind the goroutine's, and what a cancel leaves it to do.          *)
(***************************************************************************)
EXTENDS DomainBulkJob, FiniteSetTheorems, TLAPS

Doing == [pc : Pc, i : Row, ok : Nat, bad : Nat,
          result : {"none", "done", "failed"}, queue : SUBSET Row]
Items == {"pending", "creating", "done", "failed"}

\* The rows the goroutine is done with, how many they are, and the row it is
\* creating.
Past(w) == IF w.pc \in {"ssl", "complete"} THEN Row ELSE {k \in Row : k < w.i}
RowsDone(w) == IF w.pc \in {"ssl", "complete"} THEN NRows ELSE w.i - 1
Current(w) == IF w.pc \in {"create", "record"} THEN {w.i} ELSE {}
Uncounted(w) == IF w.pc = "record" /\ w.result = "done" THEN 1 ELSE 0

\* What has been written about the rows, and what could not be.
ItemsInv(j) ==
  LET w == worker[j] IN
  /\ \A k \in Past(w) : items[j][k] \in {"done", "failed"} \/ k \in unrecorded[j]
  /\ \A k \in Row \ Past(w) :
       /\ items[j][k] \in {"pending", "creating"}
       /\ items[j][k] = "creating" => k \in Current(w)
       /\ k \in Current(w) => items[j][k] = "creating" \/ k \in unmarked[j]
       /\ k \notin unrecorded[j]
  /\ \A k \in created[j] : k \in Past(w) \/ (k = w.i /\ Uncounted(w) = 1)

\* The goroutine's counters, and how far the row's lag behind them.
TallyInv(j) ==
  LET w == worker[j] IN
  /\ w.ok + w.bad = RowsDone(w)
  /\ Cardinality(created[j]) = w.ok + Uncounted(w)
  /\ successes[j] <= w.ok
  /\ RowsDone(w) \notin unrecorded[j] => successes[j] = w.ok /\ failures[j] = w.bad

WorkerInv(j) ==
  /\ status[j] \notin {"absent", "completed", "cancelled"}
  /\ AtPc(j, "record") => worker[j].result # "none"
  /\ ItemsInv(j) /\ TallyInv(j)

StatusInv(j) ==
  /\ status[j] = "absent" =>
       /\ late[j] = {} /\ created[j] = {} /\ unrecorded[j] = {}
       /\ \A k \in Row : items[j][k] = "pending"
       /\ worker[j] = Dead /\ successes[j] = 0 /\ failures[j] = 0
  /\ FinishedExact(j)

ShownInv(j) ==
  \A k \in created[j] : items[j][k] \in {"done", "creating"} \/ k \in unmarked[j]

CancelInv(j) ==
  late[j] \ blind[j] # {} =>
    /\ cancelRequested[j]
    /\ AtPc(j, "mark") => worker[j].i \in blind[j]
    /\ \E i \in Row : late[j] \ blind[j] = {i}

JobInv(j) ==
  /\ Live(j) => WorkerInv(j)
  /\ StatusInv(j) /\ RowAddsUp(j) /\ ShownInv(j) /\ CancelInv(j)

IInv == TypeOK /\ \A j \in Jobs : JobInv(j)

-----------------------------------------------------------------------------
(* Types                                                                   *)

LEMMA DeadTyped == Dead \in Doing
BY RowsAssumption DEF Dead, Doing, Pc, Row

LEMMA InitTyped == Init => TypeOK
<1> SUFFICES ASSUME Init PROVE TypeOK
  OBVIOUS
<1>1. worker \in [Jobs -> Doing]
  BY DeadTyped DEF Init
<1>2. "absent" \in Lifecycle!Status
  BY DEF Lifecycle!Status
<1>3. restarts \in 0 .. MaxRestarts /\ faults \in 0 .. MaxFaults
  BY RestartAssumption, FaultAssumption DEF Init
<1> QED
  BY <1>1, <1>2, <1>3 DEF Init, TypeOK, Doing

\* Steps that end at another place of the goroutine's program keep its type.
LEMMA GotoTyped ==
  ASSUME TypeOK, NEW j \in Jobs, NEW pc \in Pc, Goto(j, pc)
  PROVE  worker' \in [Jobs -> Doing]
<1>1. worker \in [Jobs -> Doing] /\ worker[j] \in Doing
  BY DEF TypeOK, Doing
<1>2. [worker[j] EXCEPT !.pc = pc] \in Doing
  BY <1>1 DEF Doing
<1> QED
  BY <1>1, <1>2 DEF Goto

LEMMA FaultsTyped ==
  ASSUME TypeOK, Reaches \/ Refused
  PROVE  faults' \in 0 .. MaxFaults
<1>1. CASE Reaches
  BY <1>1 DEF Reaches, TypeOK
<1>2. CASE Refused
  BY <1>2, FaultAssumption DEF Refused, TypeOK
<1> QED
  BY <1>1, <1>2

\* A step of the goroutine keeps the types when it keeps those of its record.
LEMMA WorkTyped ==
  ASSUME IInv, NEW j \in Jobs, Work(j)
  PROVE  TypeOK'
<1>a. /\ status \in [Jobs -> Lifecycle!Status] /\ worker \in [Jobs -> Doing]
      /\ items \in [Jobs -> [Row -> Items]] /\ worker[j] \in Doing
      /\ worker[j].i \in Row
  BY DEF IInv, TypeOK, Doing, Items
<1>t. TypeOK
  BY DEF IInv
<1>h. /\ created \in [Jobs -> SUBSET Row] /\ late \in [Jobs -> SUBSET Row]
      /\ blind \in [Jobs -> SUBSET Row] /\ unmarked \in [Jobs -> SUBSET Row]
      /\ successes \in [Jobs -> Nat] /\ failures \in [Jobs -> Nat]
  BY <1>t DEF TypeOK
<1>b. {"running", "completed", "cancelled"} \subseteq Lifecycle!Status
  BY DEF Lifecycle!Status, Lifecycle!Unfinished, Lifecycle!Terminal
<1>1. CASE Begin(j)
  <2>1. worker' \in [Jobs -> Doing]
    BY <1>t, <1>1, GotoTyped DEF Begin, Pc
  <2>2. faults' \in 0 .. MaxFaults
    BY <1>t, <1>1, FaultsTyped DEF Begin
  <2>3. status' \in [Jobs -> Lifecycle!Status]
    BY <1>1, <1>a, <1>b DEF Begin, SetJob
  <2> QED
    BY <1>t, <1>1, <2>1, <2>2, <2>3 DEF Begin, TypeOK, Doing, history, process
<1>2. CASE CheckCancel(j)
  <2>1. worker' \in [Jobs -> Doing]
    <3>1. Goto(j, "mark") \/ Goto(j, "cancel")
      BY <1>2 DEF CheckCancel
    <3> QED
      BY <1>t, <3>1, GotoTyped DEF Pc
  <2>2. faults' \in 0 .. MaxFaults
    BY <1>t, <1>2, FaultsTyped DEF CheckCancel
  <2>3. blind' \in [Jobs -> SUBSET Row]
    <3>1. \/ blind' = blind
          \/ blind' = [blind EXCEPT ![j] = @ \cup {worker[j].i}]
      BY <1>2 DEF CheckCancel
    <3> QED
      BY <1>h, <1>a, <3>1
  <2> QED
    BY <1>t, <1>2, <2>1, <2>2, <2>3 DEF CheckCancel, TypeOK, Doing, row, process
<1>3. CASE MarkCreating(j)
  <2>1. worker' \in [Jobs -> Doing]
    BY <1>t, <1>3, GotoTyped DEF MarkCreating, Pc
  <2>2. items' \in [Jobs -> [Row -> Items]]
    BY <1>3, <1>a DEF MarkCreating, ItemMarked, Items
  <2>3. late' \in [Jobs -> SUBSET Row] /\ unmarked' \in [Jobs -> SUBSET Row]
    <3>1. \/ unmarked' = unmarked
          \/ unmarked' = [unmarked EXCEPT ![j] = @ \cup {worker[j].i}]
      BY <1>3 DEF MarkCreating
    <3>2. late' = [late EXCEPT
                     ![j] = IF cancelRequested[j] THEN @ \cup {worker[j].i} ELSE @]
      BY <1>3 DEF MarkCreating
    <3> QED
      BY <1>h, <1>a, <3>1, <3>2
  <2>4. faults' \in 0 .. MaxFaults
    BY <1>t, <1>3, FaultsTyped DEF MarkCreating
  <2> QED
    BY <1>t, <1>3, <2>1, <2>2, <2>3, <2>4
       DEF MarkCreating, TypeOK, Doing, Items, process
<1>4. CASE ProcessRow(j)
  <2>1. worker' \in [Jobs -> Doing]
    <3>1. ASSUME NEW r \in {"done", "failed"}, NEW q \in SUBSET Row
          PROVE  [worker[j] EXCEPT !.pc = "record", !.result = r, !.queue = q] \in Doing
      BY <1>a DEF Doing, Pc
    <3>2. [worker[j] EXCEPT !.pc = "record", !.result = "failed"] \in Doing
      BY <1>a DEF Doing, Pc
    <3>3. CASE worker' = [worker EXCEPT ![j].pc = "record", ![j].result = "failed"]
      BY <3>2, <3>3, <1>a
    <3>4. ASSUME NEW q \in {worker[j].queue, worker[j].queue \cup {worker[j].i}},
                 worker' = [worker EXCEPT ![j].pc = "record", ![j].result = "done",
                                          ![j].queue = q]
          PROVE  worker' \in [Jobs -> Doing]
      <4>1. q \in SUBSET Row
        BY <1>a DEF Doing
      <4> QED
        BY <3>1, <3>4, <4>1, <1>a
    <3> QED
      BY <1>4, <3>3, <3>4 DEF ProcessRow
  <2>2. created' \in [Jobs -> SUBSET Row]
    <3>1. created' = created
            \/ created' = [created EXCEPT ![j] = @ \cup {worker[j].i}]
      BY <1>4 DEF ProcessRow
    <3> QED
      BY <1>h, <1>a, <3>1
  <2> QED
    BY <1>t, <1>4, <2>1, <2>2 DEF ProcessRow, TypeOK, Doing, row, process
<1>5. CASE RecordRow(j)
  <2> DEFINE w == worker[j]
             good == IF w.result = "done" THEN w.ok + 1 ELSE w.ok
             bad == IF w.result = "failed" THEN w.bad + 1 ELSE w.bad
             r == [w EXCEPT !.pc = IF LastRow(w) THEN "ssl" ELSE "check",
                            !.i = IF LastRow(w) THEN @ ELSE @ + 1,
                            !.ok = good, !.bad = bad, !.result = "none"]
  <2>1. good \in Nat /\ bad \in Nat
    BY <1>a DEF Doing
  <2>2. w.i \in Row /\ (w.i # NRows => w.i + 1 \in Row)
    BY <1>a, RowsAssumption DEF Doing, Row
  <2>3. r \in Doing
    BY <1>a, <2>1, <2>2 DEF Doing, Pc, LastRow
  <2>4. worker' = [worker EXCEPT ![j] = r]
    BY <1>5 DEF RecordRow
  <2>5. worker' \in [Jobs -> Doing]
    BY <2>3, <2>4, <1>a
  <2>6. items' \in [Jobs -> [Row -> Items]]
    <3>1. w.result \in Items
      BY <1>5, <1>a DEF IInv, JobInv, WorkerInv, Live, Doing, Items, RecordRow, AtPc
    <3> QED
      BY <1>5, <1>a, <2>2, <3>1 DEF RecordRow, Items
  <2>7. faults' \in 0 .. MaxFaults
    BY <1>t, <1>5, FaultsTyped DEF RecordRow
  <2>8. unrecorded' \in [Jobs -> SUBSET Row]
    BY <1>t, <1>5, <1>a DEF RecordRow, TypeOK
  <2>9. successes' \in [Jobs -> Nat] /\ failures' \in [Jobs -> Nat]
    <3>1. \/ successes' = [successes EXCEPT ![j] = good]
             /\ failures' = [failures EXCEPT ![j] = bad]
          \/ UNCHANGED <<successes, failures>>
      BY <1>5 DEF RecordRow
    <3> QED
      BY <1>h, <2>1, <3>1
  <2> QED
    BY <1>t, <1>5, <2>5, <2>6, <2>7, <2>8, <2>9
       DEF RecordRow, TypeOK, Doing, Items, process
<1>6. CASE LaunchSslPass(j)
  <2>1. worker' \in [Jobs -> Doing]
    BY <1>t, <1>6, GotoTyped DEF LaunchSslPass, Pc
  <2>2. sslPass' \in [Jobs -> SUBSET Row]
    BY <1>t, <1>6, <1>a DEF LaunchSslPass, TypeOK, Doing
  <2> QED
    BY <1>t, <1>6, <2>1, <2>2 DEF LaunchSslPass, TypeOK, Doing, row, history, process
<1>7. CASE Complete(j) \/ StopCancelled(j)
  <2>0. \E pc, s \in {"complete", "completed", "cancel", "cancelled"} :
          Finish(j, pc, s) /\ s \in {"completed", "cancelled"}
    BY <1>7 DEF Complete, StopCancelled
  <2>1. worker' \in [Jobs -> Doing]
    BY <2>0, <1>a, DeadTyped DEF Finish, Exit
  <2>2. status' \in [Jobs -> Lifecycle!Status]
    BY <2>0, <1>a, <1>b DEF Finish, SetJob
  <2>3. faults' \in 0 .. MaxFaults
    BY <1>t, <2>0, FaultsTyped DEF Finish
  <2>4. hanging' \subseteq Jobs
    BY <1>t, <2>0 DEF Finish, TypeOK
  <2> QED
    BY <1>t, <2>0, <2>1, <2>2, <2>3, <2>4 DEF Finish, TypeOK, Doing, process
<1> QED
  BY <1>1, <1>2, <1>3, <1>4, <1>5, <1>6, <1>7 DEF Work

\* What submits, cuts off, cancels, restarts or recovers a job.
Outside(j) == Start(j) \/ IssueSsl(j) \/ Cancel(j) \/ Expire(j)

LEMMA OutsideTyped ==
  ASSUME IInv, NEW j \in Jobs, Outside(j)
  PROVE  TypeOK'
<1>a. /\ TypeOK /\ status \in [Jobs -> Lifecycle!Status]
      /\ worker \in [Jobs -> Doing] /\ worker[j] \in Doing
  BY DEF IInv, TypeOK, Doing
<1>1. CASE Start(j)
  <2>2. worker' \in [Jobs -> Doing]
    BY <1>1, <1>a, GotoTyped DEF Start, Pc
  <2>3. "queued" \in Lifecycle!Status
    BY DEF Lifecycle!Status, Lifecycle!Unfinished
  <2> QED
    BY <1>1, <1>a, <2>2, <2>3 DEF Start, TypeOK, Doing, history, process
<1>2. CASE IssueSsl(j)
  BY <1>2, <1>a DEF IssueSsl, TypeOK, row, history, process
<1>3. CASE Cancel(j)
  BY <1>3, <1>a DEF Cancel, TypeOK, history, process
<1>4. CASE Expire(j)
  BY <1>4, <1>a DEF Expire, TypeOK, row, history, process
<1> QED
  BY <1>1, <1>2, <1>3, <1>4 DEF Outside

LEMMA ProcessTyped == TypeOK /\ (Restart \/ Recover) => TypeOK'
<1> SUFFICES ASSUME TypeOK, Restart \/ Recover PROVE TypeOK'
  OBVIOUS
<1>1. CASE Restart
  <2>1. worker' \in [Jobs -> Doing]
    BY <1>1, DeadTyped DEF Restart
  <2>2. restarts' \in 0 .. MaxRestarts
    BY <1>1, RestartAssumption DEF Restart, TypeOK
  <2> QED
    BY <1>1, <2>1, <2>2 DEF Restart, TypeOK, Doing, row
<1>2. CASE Recover
  <2>1. "failed" \in Lifecycle!Status
    BY DEF Lifecycle!Status, Lifecycle!Terminal
  <2>2. status' \in [Jobs -> Lifecycle!Status]
    BY <1>2, <2>1 DEF Recover, TypeOK
  <2>3. faults' \in 0 .. MaxFaults
    BY <1>2, FaultsTyped DEF Recover
  <2>4. hanging' \subseteq Jobs
    BY <1>2 DEF Recover, TypeOK
  <2> QED
    BY <1>2, <2>2, <2>3, <2>4 DEF Recover, TypeOK
<1> QED
  BY <1>1, <1>2

-----------------------------------------------------------------------------
(* The job invariant                                                       *)

\* A job whose row, goroutine and history stay as they are keeps it.
LEMMA Frame ==
  ASSUME NEW k, JobInv(k),
         status'[k] = status[k], cancelRequested'[k] = cancelRequested[k],
         items'[k] = items[k], successes'[k] = successes[k],
         failures'[k] = failures[k], worker'[k] = worker[k],
         created'[k] = created[k], late'[k] = late[k], blind'[k] = blind[k],
         unmarked'[k] = unmarked[k], unrecorded'[k] = unrecorded[k]
  PROVE  JobInv(k)'
<1>1. ItemsInv(k) => ItemsInv(k)'
  BY DEF ItemsInv
<1>2. TallyInv(k) => TallyInv(k)'
  BY DEF TallyInv
<1>3. WorkerInv(k) => WorkerInv(k)'
  BY <1>1, <1>2 DEF WorkerInv, AtPc
<1>4. Live(k)' = Live(k)
  BY DEF Live
<1>5. RowAddsUp(k)'
  BY DEF JobInv, RowAddsUp, CountOf
<1>6. StatusInv(k)'
  BY DEF JobInv, StatusInv, FinishedExact
<1>7. ShownInv(k)' /\ CancelInv(k)'
  BY DEF JobInv, ShownInv, CancelInv, AtPc
<1> QED
  BY <1>3, <1>4, <1>5, <1>6, <1>7 DEF JobInv

\* A step of one job leaves the others alone.
LEMMA OthersKeep ==
  ASSUME IInv, NEW j \in Jobs, NEW k \in Jobs, k # j, Work(j) \/ Outside(j)
  PROVE  JobInv(k)'
<1>1. TypeOK /\ JobInv(k)
  BY DEF IInv
<1> USE DEF TypeOK, Goto, Exit, SetJob, row, history
<1>2. CASE Begin(j) \/ LaunchSslPass(j)
  BY <1>1, <1>2, Frame DEF Begin, LaunchSslPass
<1>3. CASE CheckCancel(j)
  BY <1>1, <1>3, Frame DEF CheckCancel
<1>4. CASE MarkCreating(j)
  <2>1. items'[k] = items[k] /\ late'[k] = late[k] /\ unmarked'[k] = unmarked[k]
    BY <1>1, <1>4 DEF MarkCreating, ItemMarked
  <2> QED
    BY <1>1, <1>4, <2>1, Frame DEF MarkCreating
<1>5. CASE ProcessRow(j)
  <2>1. worker'[k] = worker[k] /\ created'[k] = created[k]
    BY <1>1, <1>5 DEF ProcessRow
  <2> QED
    BY <1>1, <1>5, <2>1, Frame DEF ProcessRow
<1>6. CASE RecordRow(j)
  <2>1. /\ items'[k] = items[k] /\ successes'[k] = successes[k]
        /\ failures'[k] = failures[k] /\ unrecorded'[k] = unrecorded[k]
    BY <1>1, <1>6 DEF RecordRow
  <2>2. worker'[k] = worker[k]
    BY <1>1, <1>6 DEF RecordRow
  <2> QED
    BY <1>1, <1>6, <2>1, <2>2, Frame DEF RecordRow
<1>7. CASE Complete(j) \/ StopCancelled(j)
  BY <1>1, <1>7, Frame DEF Complete, StopCancelled, Finish
<1>8. CASE Outside(j)
  BY <1>1, <1>8, Frame DEF Outside, Start, IssueSsl, Cancel, Expire
<1> QED
  BY <1>2, <1>3, <1>4, <1>5, <1>6, <1>7, <1>8 DEF Work

LEMMA RowsFinite == IsFiniteSet(Row) /\ Cardinality(Row) = NRows
BY RowsAssumption, FS_Interval DEF Row

LEMMA CountsAreNumbers ==
  ASSUME NEW f, NEW s
  PROVE  Cardinality({k \in Row : f[k] = s}) \in Nat
<1>1. IsFiniteSet({k \in Row : f[k] = s})
  BY RowsFinite, FS_Subset
<1> QED
  BY <1>1, FS_CardinalityType

\* Recording an outcome for a row counts it once.
LEMMA CountsOne ==
  ASSUME NEW f \in [Row -> Items], NEW i \in Row, f[i] \in {"pending", "creating"},
         NEW r \in {"done", "failed"}, NEW s \in {"done", "failed"}
  PROVE  Cardinality({k \in Row : [f EXCEPT ![i] = r][k] = s})
           = Cardinality({k \in Row : f[k] = s}) + (IF r = s THEN 1 ELSE 0)
<1> DEFINE A == {k \in Row : f[k] = s}
           B == {k \in Row : [f EXCEPT ![i] = r][k] = s}
<1>1. IsFiniteSet(A)
  BY RowsFinite, FS_Subset
<1>2. i \notin A
  OBVIOUS
<1>3. CASE r = s
  <2>1. B = A \cup {i}
    BY <1>3
  <2>2. Cardinality(B) = Cardinality(A) + 1
    BY <1>1, <1>2, <2>1, FS_AddElement
  <2> QED
    BY <1>3, <2>2
<1>4. CASE r # s
  <2>1. B = A
    BY <1>4
  <2>2. Cardinality(A) \in Nat
    BY <1>1, FS_CardinalityType
  <2> QED
    BY <1>4, <2>1, <2>2
<1> QED
  BY <1>3, <1>4

\* Marking a row changes neither count.
LEMMA MarkCounts ==
  ASSUME NEW f \in [Row -> Items], NEW i \in Row, f[i] \in {"pending", "creating"},
         NEW s \in {"done", "failed"}
  PROVE  {k \in Row : [f EXCEPT ![i] = "creating"][k] = s} = {k \in Row : f[k] = s}
OBVIOUS

\* What the goroutine's steps have in common: the state they start from.
LEMMA WorkFacts ==
  ASSUME IInv, NEW j \in Jobs, Live(j)
  PROVE  /\ TypeOK /\ JobInv(j)
         /\ worker \in [Jobs -> Doing] /\ worker[j] \in Doing
         /\ items \in [Jobs -> [Row -> Items]] /\ items[j] \in [Row -> Items]
         /\ worker[j].i \in Row /\ created[j] \in SUBSET Row
         /\ status[j] \notin {"absent", "completed", "cancelled"}
         /\ WorkerInv(j) /\ ItemsInv(j) /\ TallyInv(j)
         /\ StatusInv(j) /\ RowAddsUp(j) /\ ShownInv(j) /\ CancelInv(j)
<1>1. TypeOK /\ JobInv(j)
  BY DEF IInv
<1>2. WorkerInv(j)
  BY <1>1 DEF JobInv
<1>3. /\ status[j] \notin {"absent", "completed", "cancelled"}
      /\ ItemsInv(j) /\ TallyInv(j)
  BY <1>2 DEF WorkerInv
<1>4. /\ worker \in [Jobs -> Doing] /\ worker[j] \in Doing
      /\ items \in [Jobs -> [Row -> Items]] /\ items[j] \in [Row -> Items]
      /\ worker[j].i \in Row /\ created[j] \in SUBSET Row
  BY <1>1 DEF TypeOK, Doing, Items
<1> QED
  BY <1>1, <1>2, <1>3, <1>4 DEF JobInv

\* A job that is neither absent nor finished has nothing of StatusInv to keep.
LEMMA UnfinishedStatus ==
  ASSUME NEW j, status'[j] \notin {"absent", "completed", "cancelled"}
  PROVE  StatusInv(j)'
BY DEF StatusInv, FinishedExact

LEMMA BeginKeeps ==
  ASSUME IInv, NEW j \in Jobs, Begin(j) \/ CheckCancel(j)
  PROVE  JobInv(j)'
<1>1. worker[j].pc \in {"begin", "check"}
  BY DEF Begin, CheckCancel, AtPc
<1>a. Live(j)
  BY <1>1 DEF Live
<1>b. /\ TypeOK /\ worker[j] \in Doing /\ worker \in [Jobs -> Doing]
      /\ worker[j].i \in Row /\ WorkerInv(j) /\ ItemsInv(j) /\ TallyInv(j)
      /\ RowAddsUp(j) /\ ShownInv(j) /\ CancelInv(j)
      /\ status[j] \notin {"absent", "completed", "cancelled"}
  BY <1>a, WorkFacts
<1>2. PICK pc \in {"check", "cancel", "mark"} :
        worker'[j] = [worker[j] EXCEPT !.pc = pc]
  BY <1>b DEF Begin, CheckCancel, Goto
<1>3. /\ worker'[j].pc = pc /\ worker'[j].i = worker[j].i
      /\ worker'[j].ok = worker[j].ok /\ worker'[j].bad = worker[j].bad
  BY <1>2, <1>b DEF Doing
<1>4. /\ items'[j] = items[j] /\ successes'[j] = successes[j]
      /\ failures'[j] = failures[j] /\ created'[j] = created[j]
      /\ late'[j] = late[j] /\ unmarked'[j] = unmarked[j]
      /\ unrecorded'[j] = unrecorded[j]
      /\ cancelRequested'[j] = cancelRequested[j]
      /\ status'[j] \in {status[j], "running"}
  BY <1>b DEF Begin, CheckCancel, SetJob, row, history, TypeOK
<1>5. /\ Past(worker'[j]) = Past(worker[j]) /\ RowsDone(worker'[j]) = RowsDone(worker[j])
      /\ Current(worker'[j]) = {} /\ Current(worker[j]) = {}
      /\ Uncounted(worker'[j]) = 0 /\ Uncounted(worker[j]) = 0
  BY <1>1, <1>3 DEF Past, RowsDone, Current, Uncounted
<1>6. ItemsInv(j)'
  BY <1>b, <1>3, <1>4, <1>5 DEF ItemsInv
<1>7. TallyInv(j)'
  BY <1>b, <1>3, <1>4, <1>5 DEF TallyInv
<1>8. WorkerInv(j)'
  BY <1>b, <1>3, <1>4, <1>6, <1>7 DEF WorkerInv, AtPc
<1>9. StatusInv(j)' /\ ShownInv(j)' /\ RowAddsUp(j)'
  <2>1. StatusInv(j)'
    BY <1>b, <1>4, UnfinishedStatus
  <2>2. ShownInv(j)'
    BY <1>b, <1>4 DEF ShownInv
  <2>3. RowAddsUp(j)'
    BY <1>b, <1>4 DEF RowAddsUp, CountOf
  <2> QED
    BY <2>1, <2>2, <2>3
<1>10. CancelInv(j)'
  <2>1. CASE Begin(j)
    <3>1. pc = "check" /\ blind' = blind
      BY <2>1, <1>2, <1>b DEF Begin, Goto, Doing, history
    <3> QED
      BY <1>b, <1>3, <1>4, <3>1 DEF CancelInv, AtPc
  <2>2. CASE CheckCancel(j)
    <3>1. \/ blind' = blind /\ (pc = "mark" => ~cancelRequested[j])
          \/ blind'[j] = blind[j] \cup {worker[j].i}
      BY <2>2, <1>2, <1>b DEF CheckCancel, Goto, Doing, SeesCancel, TypeOK
    <3>2. CASE blind' = blind /\ (pc = "mark" => ~cancelRequested[j])
      BY <3>2, <1>b, <1>3, <1>4 DEF CancelInv, AtPc
    <3>3. CASE blind'[j] = blind[j] \cup {worker[j].i}
      <4>1. (late[j] \ blind[j])' \subseteq late[j] \ blind[j]
        BY <3>3, <1>4
      <4>2. worker'[j].i \in blind'[j]
        BY <3>3, <1>3
      <4> QED
        BY <1>b, <1>4, <4>1, <4>2 DEF CancelInv
    <3> QED
      BY <3>1, <3>2, <3>3
  <2> QED
    BY <2>1, <2>2
<1> QED
  BY <1>8, <1>9, <1>10 DEF JobInv

LEMMA MarkKeeps ==
  ASSUME IInv, NEW j \in Jobs, MarkCreating(j)
  PROVE  JobInv(j)'
<1> DEFINE i == worker[j].i
<1>1. worker[j].pc = "mark"
  BY DEF MarkCreating, AtPc
<1>a. Live(j)
  BY <1>1 DEF Live
<1>b. /\ TypeOK /\ worker[j] \in Doing /\ worker \in [Jobs -> Doing]
      /\ i \in Row /\ WorkerInv(j) /\ ItemsInv(j) /\ TallyInv(j)
      /\ RowAddsUp(j) /\ ShownInv(j) /\ CancelInv(j) /\ created[j] \in SUBSET Row
      /\ items \in [Jobs -> [Row -> Items]] /\ items[j] \in [Row -> Items]
      /\ status[j] \notin {"absent", "completed", "cancelled"}
  BY <1>a, WorkFacts
<1>2. worker'[j] = [worker[j] EXCEPT !.pc = "create"]
  BY <1>b DEF MarkCreating, Goto
<1>3. /\ worker'[j].pc = "create" /\ worker'[j].i = i
      /\ worker'[j].ok = worker[j].ok /\ worker'[j].bad = worker[j].bad
  BY <1>2, <1>b DEF Doing
<1>4. /\ successes'[j] = successes[j]
      /\ failures'[j] = failures[j] /\ created'[j] = created[j]
      /\ unrecorded'[j] = unrecorded[j] /\ blind'[j] = blind[j]
      /\ cancelRequested'[j] = cancelRequested[j] /\ status'[j] = status[j]
  BY DEF MarkCreating
<1>5. \/ items'[j] = [items[j] EXCEPT ![i] = "creating"] /\ unmarked'[j] = unmarked[j]
      \/ items'[j] = items[j] /\ unmarked'[j] = unmarked[j] \cup {i}
  BY <1>b DEF MarkCreating, ItemMarked, TypeOK
<1>6. /\ Past(worker'[j]) = Past(worker[j]) /\ RowsDone(worker'[j]) = RowsDone(worker[j])
      /\ Current(worker'[j]) = {i} /\ Current(worker[j]) = {}
      /\ Uncounted(worker'[j]) = 0 /\ Uncounted(worker[j]) = 0
      /\ i \notin Past(worker[j])
  BY <1>1, <1>3, <1>b DEF Past, RowsDone, Current, Uncounted, Row
<1>7. items[j][i] = "pending"
  BY <1>b, <1>6 DEF ItemsInv
<1>8. /\ \A k \in Row : k # i => items'[j][k] = items[j][k]
      /\ items'[j][i] = "creating" \/ (items'[j][i] = "pending" /\ i \in unmarked'[j])
      /\ unmarked[j] \subseteq unmarked'[j]
  BY <1>b, <1>5, <1>7
<1>9. ItemsInv(j)'
  <2> DEFINE P == Past(worker[j])
  <2>1. P \subseteq Row
    BY <1>b DEF Past
  <2>2. \A k \in P : items'[j][k] \in {"done", "failed"} \/ k \in unrecorded'[j]
    BY <1>b, <1>4, <1>6, <1>8, <2>1 DEF ItemsInv
  <2>3. \A k \in Row \ P :
          /\ items'[j][k] \in {"pending", "creating"}
          /\ items'[j][k] = "creating" => k \in {i}
          /\ k \in {i} => items'[j][k] = "creating" \/ k \in unmarked'[j]
          /\ k \notin unrecorded'[j]
    BY <1>b, <1>4, <1>6, <1>8 DEF ItemsInv
  <2>4. \A k \in created'[j] : k \in P
    BY <1>b, <1>4, <1>6 DEF ItemsInv
  <2> QED
    BY <1>6, <2>2, <2>3, <2>4 DEF ItemsInv
<1>10. TallyInv(j)'
  BY <1>b, <1>3, <1>4, <1>6 DEF TallyInv
<1>11. WorkerInv(j)'
  BY <1>b, <1>3, <1>4, <1>9, <1>10 DEF WorkerInv, AtPc
<1>12. StatusInv(j)'
  BY <1>b, <1>4, UnfinishedStatus
<1>13. RowAddsUp(j)'
  <2>1. ASSUME NEW s \in {"done", "failed"} PROVE CountOf(j, s)' = CountOf(j, s)
    <3>1. {k \in Row : items'[j][k] = s} = {k \in Row : items[j][k] = s}
      BY <1>7, <1>8
    <3> QED
      BY <3>1 DEF CountOf
  <2> QED
    BY <1>b, <1>4, <2>1 DEF RowAddsUp
<1>14. ShownInv(j)'
  BY <1>b, <1>4, <1>8 DEF ShownInv
<1>15. CancelInv(j)'
  <2>1. late'[j] = IF cancelRequested[j] THEN late[j] \cup {i} ELSE late[j]
    BY <1>b DEF MarkCreating, TypeOK
  <2>2. late[j] \ blind[j] = {} \/ i \in blind[j]
    BY <1>b, <1>1 DEF CancelInv, AtPc
  <2>3. worker'[j].pc # "mark"
    BY <1>3
  <2>4. \/ (late[j] \ blind[j])' = late[j] \ blind[j]
        \/ (late[j] \ blind[j])' = {i} /\ cancelRequested'[j]
    BY <1>4, <2>1, <2>2
  <2> QED
    BY <1>b, <1>4, <2>3, <2>4 DEF CancelInv, AtPc
<1> QED
  BY <1>11, <1>12, <1>13, <1>14, <1>15 DEF JobInv

LEMMA ProcessRowKeeps ==
  ASSUME IInv, NEW j \in Jobs, ProcessRow(j)
  PROVE  JobInv(j)'
<1> DEFINE i == worker[j].i
<1>1. worker[j].pc = "create"
  BY DEF ProcessRow, AtPc
<1>a. Live(j)
  BY <1>1 DEF Live
<1>b. /\ TypeOK /\ worker[j] \in Doing /\ worker \in [Jobs -> Doing]
      /\ i \in Row /\ WorkerInv(j) /\ ItemsInv(j) /\ TallyInv(j)
      /\ RowAddsUp(j) /\ ShownInv(j) /\ CancelInv(j) /\ created[j] \in SUBSET Row
      /\ status[j] \notin {"absent", "completed", "cancelled"}
  BY <1>a, WorkFacts
<1>2. /\ UNCHANGED row /\ UNCHANGED <<late, blind, unmarked, unrecorded>>
      /\ worker'[j].pc = "record" /\ worker'[j].i = i
      /\ worker'[j].ok = worker[j].ok /\ worker'[j].bad = worker[j].bad
  BY <1>b DEF ProcessRow, Doing
<1>3. \/ worker'[j].result = "failed" /\ created'[j] = created[j]
      \/ worker'[j].result = "done" /\ created'[j] = created[j] \cup {i}
  BY <1>b DEF ProcessRow, Doing, TypeOK
<1>4. /\ Past(worker'[j]) = Past(worker[j]) /\ RowsDone(worker'[j]) = RowsDone(worker[j])
      /\ Current(worker'[j]) = {i} /\ Current(worker[j]) = {i}
      /\ Uncounted(worker[j]) = 0 /\ i \notin Past(worker[j])
  BY <1>1, <1>2, <1>b DEF Past, RowsDone, Current, Uncounted, Row
<1>5. Uncounted(worker'[j]) = IF worker'[j].result = "done" THEN 1 ELSE 0
  BY <1>2 DEF Uncounted
<1>6. i \notin created[j]
  BY <1>b, <1>4 DEF ItemsInv
<1>7. Cardinality(created'[j]) = Cardinality(created[j]) + Uncounted(worker'[j])
      /\ Cardinality(created[j]) \in Nat
  <2>1. IsFiniteSet(created[j])
    BY <1>b, RowsFinite, FS_Subset
  <2>2. Cardinality(created[j]) \in Nat
    BY <2>1, FS_CardinalityType
  <2>3. Cardinality(created[j] \cup {i}) = Cardinality(created[j]) + 1
    BY <1>6, <2>1, FS_AddElement
  <2> QED
    <3>1. CASE worker'[j].result = "failed" /\ created'[j] = created[j]
      BY <1>5, <2>2, <3>1
    <3>2. CASE worker'[j].result = "done" /\ created'[j] = created[j] \cup {i}
      BY <1>5, <2>2, <2>3, <3>2
    <3> QED
      BY <1>3, <3>1, <3>2
<1>8. ItemsInv(j)'
  <2>1. \A k \in created'[j] :
          k \in Past(worker'[j]) \/ (k = worker'[j].i /\ Uncounted(worker'[j]) = 1)
    BY <1>b, <1>2, <1>3, <1>4, <1>5 DEF ItemsInv
  <2> QED
    BY <1>b, <1>2, <1>4, <2>1 DEF ItemsInv, row
<1>9. TallyInv(j)'
  <2>1. /\ worker[j].ok \in Nat /\ worker[j].ok + 0 = Cardinality(created[j])
    BY <1>b, <1>4, <1>7 DEF TallyInv, Doing
  <2>2. Cardinality(created'[j]) = worker'[j].ok + Uncounted(worker'[j])
    BY <1>2, <1>5, <1>7, <2>1
  <2> QED
    BY <1>b, <1>2, <1>4, <2>2 DEF TallyInv, row
<1>10. WorkerInv(j)'
  <2>1. worker'[j].result # "none" /\ status'[j] = status[j]
    BY <1>2, <1>3 DEF row
  <2> QED
    BY <1>b, <1>8, <1>9, <2>1 DEF WorkerInv, AtPc
<1>11. StatusInv(j)'
  BY <1>b, <1>2, UnfinishedStatus DEF row
<1>12. RowAddsUp(j)'
  <2>1. Cardinality(created[j]) <= Cardinality(created'[j])
    BY <1>5, <1>7
  <2>2. successes[j] \in Nat /\ Cardinality(created'[j]) \in Nat
    BY <1>b, <1>5, <1>7 DEF TypeOK
  <2>3. successes[j] <= Cardinality(created'[j])
    BY <1>b, <1>7, <2>1, <2>2 DEF RowAddsUp
  <2> QED
    BY <1>b, <1>2, <2>3 DEF RowAddsUp, CountOf, row
<1>13. ShownInv(j)'
  <2>1. items[j][i] = "creating" \/ i \in unmarked[j]
    BY <1>b, <1>4 DEF ItemsInv
  <2> QED
    BY <1>b, <1>2, <1>3, <2>1 DEF ShownInv, row
<1>14. CancelInv(j)'
  BY <1>b, <1>2 DEF CancelInv, AtPc, row
<1> QED
  BY <1>10, <1>11, <1>12, <1>13, <1>14 DEF JobInv

LEMMA RecordKeeps ==
  ASSUME IInv, NEW j \in Jobs, RecordRow(j)
  PROVE  JobInv(j)'
<1> DEFINE w == worker[j]
           i == w.i
<1>1. w.pc = "record"
  BY DEF RecordRow, AtPc
<1>a. Live(j)
  BY <1>1 DEF Live
<1>b. /\ TypeOK /\ w \in Doing /\ worker \in [Jobs -> Doing]
      /\ i \in Row /\ WorkerInv(j) /\ ItemsInv(j) /\ TallyInv(j)
      /\ RowAddsUp(j) /\ ShownInv(j) /\ CancelInv(j) /\ created[j] \in SUBSET Row
      /\ items \in [Jobs -> [Row -> Items]] /\ items[j] \in [Row -> Items]
      /\ status[j] \notin {"absent", "completed", "cancelled"}
  BY <1>a, WorkFacts
<1>2. w.result \in {"done", "failed"} /\ w.ok \in Nat /\ w.bad \in Nat
  BY <1>1, <1>b DEF WorkerInv, AtPc, Doing
<1> DEFINE plus == IF w.result = "done" THEN 1 ELSE 0
           minus == IF w.result = "failed" THEN 1 ELSE 0
<1>3. /\ worker'[j].pc = IF LastRow(w) THEN "ssl" ELSE "check"
      /\ worker'[j].i = IF LastRow(w) THEN i ELSE i + 1
      /\ worker'[j].ok = w.ok + plus /\ worker'[j].bad = w.bad + minus
  BY <1>b, <1>2 DEF RecordRow, Doing
<1>4. UNCHANGED <<status, cancelRequested, created, late, blind, unmarked>>
  BY DEF RecordRow
<1>5. \/ /\ items'[j] = [items[j] EXCEPT ![i] = w.result]
         /\ successes'[j] = w.ok + plus /\ failures'[j] = w.bad + minus
         /\ unrecorded'[j] = unrecorded[j]
      \/ /\ items'[j] = items[j]
         /\ successes'[j] = successes[j] /\ failures'[j] = failures[j]
         /\ unrecorded'[j] = unrecorded[j] \cup {i}
  <2>1. /\ items \in [Jobs -> [Row -> Items]]
        /\ successes \in [Jobs -> Nat] /\ failures \in [Jobs -> Nat]
        /\ unrecorded \in [Jobs -> SUBSET Row]
    BY <1>b DEF TypeOK
  <2>2. CASE /\ items' = [items EXCEPT ![j][w.i] = w.result]
             /\ successes' = [successes EXCEPT
                  ![j] = IF w.result = "done" THEN w.ok + 1 ELSE w.ok]
             /\ failures' = [failures EXCEPT
                  ![j] = IF w.result = "failed" THEN w.bad + 1 ELSE w.bad]
             /\ UNCHANGED unrecorded
    BY <1>2, <2>1, <2>2
  <2>3. CASE /\ unrecorded' = [unrecorded EXCEPT ![j] = @ \cup {w.i}]
             /\ UNCHANGED <<items, successes, failures>>
    BY <2>1, <2>3
  <2> QED
    BY <2>2, <2>3 DEF RecordRow
<1>6. /\ Past(worker'[j]) = Past(w) \cup {i} /\ RowsDone(worker'[j]) = i
      /\ RowsDone(w) = i - 1
      /\ Current(worker'[j]) = {} /\ Current(w) = {i}
      /\ Uncounted(worker'[j]) = 0 /\ Uncounted(w) = plus
      /\ i \notin Past(w) /\ Past(w) \subseteq Row
  <2>1. Past(worker'[j]) = Past(w) \cup {i}
    BY <1>1, <1>3, <1>b, RowsAssumption DEF Past, Row, LastRow
  <2>2. RowsDone(worker'[j]) = i /\ RowsDone(w) = i - 1
    BY <1>1, <1>3, <1>b, RowsAssumption DEF RowsDone, Row, LastRow
  <2>3. /\ Current(worker'[j]) = {} /\ Current(w) = {i}
        /\ Uncounted(worker'[j]) = 0 /\ Uncounted(w) = plus
    BY <1>1, <1>3 DEF Current, Uncounted
  <2>4. i \notin Past(w) /\ Past(w) \subseteq Row
    BY <1>1, <1>b DEF Past, Row
  <2> QED
    BY <2>1, <2>2, <2>3, <2>4
<1>7. /\ items[j][i] \in {"pending", "creating"} /\ i \notin unrecorded[j]
      /\ i \in created[j] => plus = 1
  BY <1>b, <1>6 DEF ItemsInv
<1>8. /\ \A k \in Row : k # i => items'[j][k] = items[j][k]
      /\ items'[j][i] = w.result \/ i \in unrecorded'[j]
      /\ unrecorded'[j] \subseteq unrecorded[j] \cup {i}
      /\ unrecorded[j] \subseteq unrecorded'[j]
  BY <1>b, <1>5
<1>9. ItemsInv(j)'
  <2>1. \A k \in Past(w) \cup {i} :
          items'[j][k] \in {"done", "failed"} \/ k \in unrecorded'[j]
    BY <1>b, <1>2, <1>6, <1>8 DEF ItemsInv
  <2>2. \A k \in Row \ (Past(w) \cup {i}) :
          items'[j][k] = "pending" /\ k \notin unrecorded'[j]
    BY <1>b, <1>6, <1>8 DEF ItemsInv
  <2>3. \A k \in created'[j] : k \in Past(w) \cup {i}
    BY <1>b, <1>4 DEF ItemsInv
  <2> QED
    BY <1>6, <2>1, <2>2, <2>3 DEF ItemsInv
<1>10. /\ w.ok + w.bad = i - 1 /\ Cardinality(created[j]) = w.ok + plus
       /\ successes[j] <= w.ok /\ successes[j] \in Nat /\ failures[j] \in Nat
       /\ i - 1 \notin unrecorded[j] => successes[j] = w.ok /\ failures[j] = w.bad
  BY <1>b, <1>6 DEF TallyInv, TypeOK
<1>11. TallyInv(j)'
  <2>1. worker'[j].ok + worker'[j].bad = i
    BY <1>2, <1>3, <1>10, <1>b DEF Row
  <2>2. successes'[j] <= worker'[j].ok
    BY <1>2, <1>3, <1>5, <1>10
  <2>3. i \notin unrecorded'[j] =>
          successes'[j] = worker'[j].ok /\ failures'[j] = worker'[j].bad
    BY <1>3, <1>5
  <2>4. Cardinality(created'[j]) = worker'[j].ok + 0
    BY <1>2, <1>3, <1>4, <1>10
  <2> QED
    BY <1>6, <2>1, <2>2, <2>3, <2>4 DEF TallyInv
<1>12. WorkerInv(j)'
  BY <1>b, <1>3, <1>4, <1>9, <1>11 DEF WorkerInv, AtPc
<1>13. StatusInv(j)'
  BY <1>b, <1>4, UnfinishedStatus
<1>14. RowAddsUp(j)'
  <2>1. CASE /\ items'[j] = [items[j] EXCEPT ![i] = w.result]
             /\ successes'[j] = w.ok + plus /\ failures'[j] = w.bad + minus
             /\ unrecorded'[j] = unrecorded[j]
    <3>1. ASSUME NEW s \in {"done", "failed"}
          PROVE  CountOf(j, s)' = CountOf(j, s) + (IF w.result = s THEN 1 ELSE 0)
      <4>1. {k \in Row : items'[j][k] = s}
              = {k \in Row : [items[j] EXCEPT ![i] = w.result][k] = s}
        BY <2>1
      <4>2. Cardinality({k \in Row : [items[j] EXCEPT ![i] = w.result][k] = s})
              = Cardinality({k \in Row : items[j][k] = s})
                  + (IF w.result = s THEN 1 ELSE 0)
        <5> DEFINE f == items[j]
                   x == worker[j].i
                   o == worker[j].result
        <5>1. /\ f \in [Row -> Items] /\ x \in Row /\ f[x] \in {"pending", "creating"}
              /\ o \in {"done", "failed"}
          BY <1>b, <1>2, <1>7
        <5> HIDE DEF f, x, o
        <5>2. Cardinality({k \in Row : [f EXCEPT ![x] = o][k] = s})
                = Cardinality({k \in Row : f[k] = s}) + (IF o = s THEN 1 ELSE 0)
          BY <5>1, CountsOne
        <5> QED
          BY <5>2 DEF f, x, o
      <4> QED
        BY <4>1, <4>2 DEF CountOf
    <3>2. CountOf(j, "done")' = CountOf(j, "done") + plus
      BY <3>1
    <3>3. CountOf(j, "failed")' = CountOf(j, "failed") + minus
      BY <3>1
    <3>4. CountOf(j, "done") \in Nat /\ CountOf(j, "failed") \in Nat
      BY CountsAreNumbers DEF CountOf
    <3>5. CountOf(j, "done")' <= successes'[j]
      BY <1>b, <1>2, <1>10, <2>1, <3>2, <3>4 DEF RowAddsUp
    <3>6. successes'[j] <= Cardinality(created'[j])
      BY <1>2, <1>4, <1>10, <2>1
    <3>7. unrecorded'[j] = {} => /\ successes'[j] = CountOf(j, "done")'
                                 /\ failures'[j] = CountOf(j, "failed")'
      BY <1>b, <1>10, <2>1, <3>2, <3>3 DEF RowAddsUp
    <3> QED
      BY <3>5, <3>6, <3>7 DEF RowAddsUp
  <2>2. CASE /\ items'[j] = items[j]
             /\ successes'[j] = successes[j] /\ failures'[j] = failures[j]
             /\ unrecorded'[j] = unrecorded[j] \cup {i}
    BY <1>b, <1>4, <2>2 DEF RowAddsUp, CountOf
  <2> QED
    BY <1>5, <2>1, <2>2
<1>15. ShownInv(j)'
  <2>1. ASSUME NEW k \in created[j], k = i
        PROVE  items'[j][k] \in {"done", "creating"} \/ k \in unmarked'[j]
    <3>1. w.result = "done"
      BY <1>2, <1>7, <2>1
    <3> QED
      BY <1>b, <1>4, <1>5, <2>1, <3>1 DEF ShownInv
  <2> QED
    BY <1>b, <1>4, <1>8, <2>1 DEF ShownInv
<1>16. CancelInv(j)'
  BY <1>b, <1>3, <1>4 DEF CancelInv, AtPc
<1> QED
  BY <1>12, <1>13, <1>14, <1>15, <1>16 DEF JobInv

LEMMA LaunchKeeps ==
  ASSUME IInv, NEW j \in Jobs, LaunchSslPass(j)
  PROVE  JobInv(j)'
<1>1. worker[j].pc = "ssl"
  BY DEF LaunchSslPass, AtPc
<1>a. Live(j)
  BY <1>1 DEF Live
<1>b. /\ TypeOK /\ worker[j] \in Doing /\ worker \in [Jobs -> Doing]
      /\ WorkerInv(j) /\ ItemsInv(j) /\ TallyInv(j)
      /\ RowAddsUp(j) /\ ShownInv(j) /\ CancelInv(j)
      /\ status[j] \notin {"absent", "completed", "cancelled"}
  BY <1>a, WorkFacts
<1>2. worker'[j] = [worker[j] EXCEPT !.pc = "complete"]
  BY <1>b DEF LaunchSslPass, Goto
<1>3. /\ worker'[j].pc = "complete" /\ worker'[j].i = worker[j].i
      /\ worker'[j].ok = worker[j].ok /\ worker'[j].bad = worker[j].bad
  BY <1>2, <1>b DEF Doing
<1>4. UNCHANGED <<status, cancelRequested, items, successes, failures, created,
                  late, blind, unmarked, unrecorded>>
  BY DEF LaunchSslPass, row, history
<1>5. /\ Past(worker'[j]) = Past(worker[j]) /\ RowsDone(worker'[j]) = RowsDone(worker[j])
      /\ Current(worker'[j]) = {} /\ Current(worker[j]) = {}
      /\ Uncounted(worker'[j]) = 0 /\ Uncounted(worker[j]) = 0
  BY <1>1, <1>3 DEF Past, RowsDone, Current, Uncounted
<1>6. ItemsInv(j)'
  BY <1>b, <1>4, <1>5 DEF ItemsInv
<1>7. TallyInv(j)'
  BY <1>b, <1>3, <1>4, <1>5 DEF TallyInv
<1>8. WorkerInv(j)'
  BY <1>b, <1>3, <1>4, <1>6, <1>7 DEF WorkerInv, AtPc
<1>9. StatusInv(j)'
  BY <1>b, <1>4, UnfinishedStatus
<1>10. ShownInv(j)' /\ CancelInv(j)'
  BY <1>b, <1>3, <1>4 DEF ShownInv, CancelInv, AtPc
<1>11. RowAddsUp(j)'
  BY <1>b, <1>4 DEF RowAddsUp, CountOf
<1> QED
  BY <1>8, <1>9, <1>10, <1>11 DEF JobInv

LEMMA FinishKeeps ==
  ASSUME IInv, NEW j \in Jobs, Complete(j) \/ StopCancelled(j)
  PROVE  JobInv(j)'
<1>1. worker[j].pc \in {"complete", "cancel"}
  BY DEF Complete, StopCancelled, Finish, AtPc
<1>a. Live(j)
  BY <1>1 DEF Live
<1>b. /\ TypeOK /\ worker[j] \in Doing /\ worker \in [Jobs -> Doing]
      /\ ItemsInv(j) /\ TallyInv(j)
      /\ RowAddsUp(j) /\ ShownInv(j) /\ CancelInv(j)
      /\ status[j] \notin {"absent", "completed", "cancelled"}
  BY <1>a, WorkFacts
<1>2. /\ worker'[j] = Dead
      /\ UNCHANGED <<items, successes, failures, cancelRequested, created, late,
                     blind, unmarked, unrecorded>>
      /\ \/ status'[j] = status[j]
         \/ worker[j].pc = "complete" /\ status'[j] = "completed"
         \/ worker[j].pc = "cancel" /\ status'[j] = "cancelled"
  BY <1>b DEF Complete, StopCancelled, Finish, SetJob, Exit, AtPc, TypeOK
<1>3. ~Live(j)' /\ worker'[j].pc = "dead"
  BY <1>2 DEF Live, Dead
<1>4. StatusInv(j)'
  <2>1. CASE status'[j] = status[j]
    BY <1>b, <2>1, UnfinishedStatus
  <2>2. CASE worker[j].pc = "complete" /\ status'[j] = "completed"
    <3>1. /\ Past(worker[j]) = Row /\ RowsDone(worker[j]) = NRows
          /\ Uncounted(worker[j]) = 0
      BY <2>2 DEF Past, RowsDone, Uncounted
    <3>2. \A k \in Row : items[j][k] = "creating" => k \in unrecorded[j]
      BY <1>b, <3>1 DEF ItemsInv
    <3>3. NRows \notin unrecorded[j] =>
            successes[j] = Cardinality(created[j]) /\ successes[j] + failures[j] = NRows
      <4>1. worker[j].ok \in Nat
        BY <1>b DEF Doing
      <4> QED
        BY <1>b, <3>1, <4>1 DEF TallyInv
    <3> QED
      BY <1>2, <2>2, <3>2, <3>3 DEF StatusInv, FinishedExact
  <2>3. CASE worker[j].pc = "cancel" /\ status'[j] = "cancelled"
    <3>1. Current(worker[j]) = {}
      BY <2>3 DEF Current
    <3>2. \A k \in Row : items[j][k] = "creating" => k \in unrecorded[j]
      BY <1>b, <3>1 DEF ItemsInv
    <3> QED
      BY <1>2, <2>3, <3>2 DEF StatusInv, FinishedExact
  <2> QED
    BY <1>2, <2>1, <2>2, <2>3
<1>5. ShownInv(j)' /\ CancelInv(j)'
  BY <1>b, <1>2, <1>3 DEF ShownInv, CancelInv, AtPc
<1>6. RowAddsUp(j)'
  BY <1>b, <1>2 DEF RowAddsUp, CountOf
<1> QED
  BY <1>3, <1>4, <1>5, <1>6 DEF JobInv

\* The goroutine's own steps.
LEMMA WorkKeeps ==
  ASSUME IInv, NEW j \in Jobs, Work(j)
  PROVE  JobInv(j)'
BY BeginKeeps, MarkKeeps, ProcessRowKeeps, RecordKeeps, LaunchKeeps, FinishKeeps
   DEF Work

LEMMA OutsideKeeps ==
  ASSUME IInv, NEW j \in Jobs, Outside(j)
  PROVE  JobInv(j)'
<1>a. /\ TypeOK /\ JobInv(j) /\ StatusInv(j) /\ RowAddsUp(j) /\ ShownInv(j)
      /\ CancelInv(j)
      /\ worker \in [Jobs -> Doing] /\ worker[j] \in Doing
  BY DEF IInv, JobInv, TypeOK, Doing
<1>1. CASE Start(j)
  <2>1. /\ status[j] = "absent" /\ status'[j] = "queued"
        /\ worker'[j] = [worker[j] EXCEPT !.pc = "begin"]
        /\ UNCHANGED <<items, successes, failures, created, late, blind,
                       unmarked, unrecorded>>
    BY <1>1, <1>a DEF Start, Goto, history, TypeOK
  <2>2. /\ late[j] = {} /\ created[j] = {} /\ worker[j] = Dead
        /\ \A k \in Row : items[j][k] = "pending"
        /\ successes[j] = 0 /\ failures[j] = 0 /\ unrecorded[j] = {}
    BY <1>a, <2>1 DEF StatusInv
  <2>3. worker'[j] = [Dead EXCEPT !.pc = "begin"]
    BY <2>1, <2>2
  <2>4. /\ worker'[j].pc = "begin" /\ worker'[j].i = 1
        /\ worker'[j].ok = 0 /\ worker'[j].bad = 0
    BY <2>3 DEF Dead
  <2>5. /\ Past(worker'[j]) = {} /\ Current(worker'[j]) = {}
        /\ Uncounted(worker'[j]) = 0 /\ RowsDone(worker'[j]) = 0
    BY <2>4 DEF Past, Current, Uncounted, RowsDone, Row
  <2>6. ItemsInv(j)'
    BY <2>1, <2>2, <2>5 DEF ItemsInv
  <2>7. TallyInv(j)'
    BY <2>1, <2>2, <2>4, <2>5, FS_EmptySet DEF TallyInv
  <2>8. WorkerInv(j)'
    BY <2>1, <2>4, <2>6, <2>7 DEF WorkerInv, AtPc
  <2>9. StatusInv(j)' /\ ShownInv(j)' /\ CancelInv(j)'
    BY <2>1, <2>2, UnfinishedStatus DEF ShownInv, CancelInv
  <2>10. RowAddsUp(j)'
    BY <1>a, <2>1 DEF RowAddsUp, CountOf
  <2> QED
    BY <2>8, <2>9, <2>10 DEF JobInv
<1>2. CASE IssueSsl(j)
  BY <1>2, <1>a, Frame DEF IssueSsl, row, history
<1>3. CASE Cancel(j) \/ Expire(j)
  <2>1. /\ UNCHANGED <<status, items, successes, failures, worker, created, late,
                       blind, unmarked, unrecorded>>
        /\ cancelRequested[j] => cancelRequested'[j]
    BY <1>3, <1>a DEF Cancel, Expire, row, history, TypeOK
  <2>2. Live(j)' = Live(j)
    BY <2>1 DEF Live
  <2>3. WorkerInv(j) => WorkerInv(j)'
    BY <2>1 DEF WorkerInv, ItemsInv, TallyInv, AtPc
  <2>4. StatusInv(j)' /\ ShownInv(j)' /\ CancelInv(j)'
    BY <1>a, <2>1 DEF StatusInv, FinishedExact, ShownInv, CancelInv, AtPc
  <2>5. RowAddsUp(j)'
    BY <1>a, <2>1 DEF RowAddsUp, CountOf
  <2> QED
    BY <1>a, <2>2, <2>3, <2>4, <2>5 DEF JobInv
<1> QED
  BY <1>1, <1>2, <1>3 DEF Outside

\* A restart leaves no goroutine; a recovery fails only unfinished rows.
LEMMA ProcessKeeps ==
  ASSUME IInv, Restart \/ Recover, NEW j \in Jobs
  PROVE  JobInv(j)'
<1>a. /\ TypeOK /\ JobInv(j) /\ StatusInv(j) /\ RowAddsUp(j) /\ ShownInv(j)
      /\ CancelInv(j)
  BY DEF IInv, JobInv
<1>1. CASE Restart
  <2>1. /\ worker'[j] = Dead
        /\ UNCHANGED <<status, cancelRequested, items, successes, failures,
                       created, late, blind, unmarked, unrecorded>>
    BY <1>1 DEF Restart, row
  <2>2. ~Live(j)' /\ ~AtPc(j, "mark")'
    BY <2>1 DEF Live, AtPc, Dead
  <2>3. StatusInv(j)' /\ ShownInv(j)' /\ CancelInv(j)'
    BY <1>a, <2>1, <2>2 DEF StatusInv, FinishedExact, ShownInv, CancelInv
  <2>4. RowAddsUp(j)'
    BY <1>a, <2>1 DEF RowAddsUp, CountOf
  <2> QED
    BY <2>2, <2>3, <2>4 DEF JobInv
<1>2. CASE Recover
  <2>1. /\ \/ status'[j] = status[j]
           \/ status[j] \in {"queued", "running"} /\ status'[j] = "failed"
        /\ UNCHANGED <<worker, cancelRequested, items, successes, failures,
                       created, late, blind, unmarked, unrecorded>>
    BY <1>2 DEF Recover, Recoverable, Unfinished
  <2>2. Live(j)' = Live(j)
    BY <2>1 DEF Live
  <2>3. WorkerInv(j) => WorkerInv(j)'
    BY <2>1 DEF WorkerInv, ItemsInv, TallyInv, AtPc
  <2>4. StatusInv(j)' /\ ShownInv(j)' /\ CancelInv(j)'
    BY <1>a, <2>1 DEF StatusInv, FinishedExact, ShownInv, CancelInv, AtPc
  <2>5. RowAddsUp(j)'
    BY <1>a, <2>1 DEF RowAddsUp, CountOf
  <2> QED
    BY <1>a, <2>2, <2>3, <2>4, <2>5 DEF JobInv
<1> QED
  BY <1>1, <1>2

LEMMA InitInv == Init => IInv
<1> SUFFICES ASSUME Init, NEW j \in Jobs PROVE JobInv(j)
  BY InitTyped DEF IInv
<1>1. /\ status[j] = "absent" /\ late[j] = {} /\ created[j] = {}
      /\ \A k \in Row : items[j][k] = "pending"
      /\ worker[j] = Dead /\ successes[j] = 0 /\ failures[j] = 0
      /\ unrecorded[j] = {}
  BY DEF Init
<1>2. ~Live(j)
  BY <1>1 DEF Live, Dead
<1>3. StatusInv(j) /\ ShownInv(j) /\ CancelInv(j)
  BY <1>1 DEF StatusInv, FinishedExact, ShownInv, CancelInv
<1>4. RowAddsUp(j)
  <2>1. /\ {k \in Row : items[j][k] = "done"} = {}
        /\ {k \in Row : items[j][k] = "failed"} = {}
    BY <1>1
  <2> QED
    BY <1>1, <2>1, FS_EmptySet DEF RowAddsUp, CountOf
<1> QED
  BY <1>2, <1>3, <1>4 DEF JobInv

LEMMA StepInv == IInv /\ [Next]_vars => IInv'
<1> SUFFICES ASSUME IInv, [Next]_vars PROVE IInv'
  OBVIOUS
<1>1. ASSUME NEW j \in Jobs, Work(j) PROVE IInv'
  BY <1>1, WorkTyped, WorkKeeps, OthersKeep DEF IInv
<1>2. ASSUME NEW j \in Jobs, Outside(j) PROVE IInv'
  BY <1>2, OutsideTyped, OutsideKeeps, OthersKeep DEF IInv
<1>3. CASE Restart \/ Recover
  BY <1>3, ProcessTyped, ProcessKeeps DEF IInv
<1>4. CASE UNCHANGED vars
  <2>1. ASSUME NEW k \in Jobs PROVE JobInv(k)'
    BY <1>4, Frame DEF vars, row, history, IInv
  <2>2. TypeOK'
    BY <1>4 DEF IInv, TypeOK, vars, row, history, process
  <2> QED
    BY <2>1, <2>2 DEF IInv
<1> QED
  BY <1>1, <1>2, <1>3, <1>4 DEF Next, Outside

LEMMA AlwaysInv == Spec => []IInv
BY InitInv, StepInv, PTL DEF Spec

-----------------------------------------------------------------------------
(* What the upload job guarantees                                          *)

\* Every variable of the upload job keeps its type through any number of
\* cancels, deadlines and restarts.
THEOREM TypeCorrect == Spec => []TypeOK
<1>1. IInv => TypeOK
  BY DEF IInv
<1> QED
  BY <1>1, AlwaysInv, PTL

\* A cancel stops the worker after at most the row it had already checked,
\* however many rows the sheet has, besides the rows whose read of the flag
\* failed.
THEOREM CancelAlwaysStops == Spec => []CancelStopsWork
<1>1. ASSUME IInv, NEW j \in Jobs PROVE Cardinality(late[j] \ blind[j]) <= 1
  <2>1. late[j] \ blind[j] = {} \/ \E i \in Row : late[j] \ blind[j] = {i}
    BY <1>1 DEF IInv, JobInv, CancelInv
  <2>2. CASE late[j] \ blind[j] = {}
    BY <2>2, FS_EmptySet
  <2>3. ASSUME NEW i \in Row, late[j] \ blind[j] = {i}
        PROVE  Cardinality(late[j] \ blind[j]) = 1
    BY <2>3, FS_Singleton
  <2> QED
    BY <2>1, <2>2, <2>3
<1>2. IInv => CancelStopsWork
  BY <1>1 DEF CancelStopsWork
<1> QED
  BY <1>2, AlwaysInv, PTL

\* The row never hides a domain that was created.
THEOREM CreatedAlwaysShown == Spec => []CreatedIsShown
<1>1. IInv => CreatedIsShown
  BY DEF IInv, JobInv, ShownInv, CreatedIsShown
<1> QED
  BY <1>1, AlwaysInv, PTL

\* A poller never reads of more domains than were created, reads the exact
\* numbers while no outcome was refused, and reads them of every completed job
\* whose last outcome was written.
THEOREM FinishedRowAlwaysAddsUp == Spec => []FinishedRowAddsUp
<1>1. IInv => FinishedRowAddsUp
  BY DEF IInv, JobInv, StatusInv, FinishedRowAddsUp
<1> QED
  BY <1>1, AlwaysInv, PTL

\* The upload job, step by step, is a job of the abstract lifecycle: only its
\* goroutine reports, completes or cancels it, and the recovery fails only
\* what is unfinished.
THEOREM UploadImplementsLifecycle == Spec => ImplementsLifecycle
<1>1. Init => Lifecycle!Init
  <2> SUFFICES ASSUME Init PROVE Lifecycle!Init
    OBVIOUS
  <2>1. \A j \in Jobs : Live(j) = FALSE
    BY DEF Init, Live, Dead
  <2> QED
    BY <2>1 DEF Init, Lifecycle!Init
<1>2. IInv /\ [Next]_vars => [Lifecycle!Next]_Lifecycle!vars
  <2> SUFFICES ASSUME IInv, [Next]_vars
               PROVE  [Lifecycle!Next]_Lifecycle!vars
    OBVIOUS
  <2>a. /\ TypeOK /\ worker \in [Jobs -> Doing]
        /\ status \in [Jobs -> Lifecycle!Status]
    BY DEF IInv, TypeOK, Doing
  <2>s. ASSUME UNCHANGED status, \A k \in Jobs : Live(k)' = Live(k)
        PROVE  UNCHANGED Lifecycle!vars
    BY <2>s DEF Lifecycle!vars
  <2>1. ASSUME NEW j \in Jobs, Start(j) PROVE Lifecycle!Submit(j)
    <3>1. worker' = [worker EXCEPT ![j] = [worker[j] EXCEPT !.pc = "begin"]]
      BY <2>1 DEF Start, Goto
    <3>2. \A k \in Jobs : Live(k)' = IF k = j THEN TRUE ELSE Live(k)
      BY <3>1, <2>a DEF Live, Doing
    <3> QED
      BY <2>1, <3>2 DEF Start, Lifecycle!Submit
  <2>2. ASSUME NEW j \in Jobs, Begin(j)
        PROVE  Lifecycle!Report(j) \/ UNCHANGED Lifecycle!vars
    <3>1. worker' = [worker EXCEPT ![j] = [worker[j] EXCEPT !.pc = "check"]]
      BY <2>2 DEF Begin, Goto
    <3>2. Live(j) /\ \A k \in Jobs : Live(k)' = Live(k)
      BY <2>2, <3>1, <2>a DEF Begin, AtPc, Live, Doing
    <3> QED
      BY <2>2, <2>s, <3>2 DEF Begin, SetJob, Lifecycle!Report
  <2>3. ASSUME NEW j \in Jobs,
               \/ CheckCancel(j) \/ MarkCreating(j) \/ ProcessRow(j)
               \/ RecordRow(j) \/ LaunchSslPass(j)
        PROVE  UNCHANGED Lifecycle!vars
    <3>1. worker[j].pc # "dead"
      BY <2>3 DEF CheckCancel, MarkCreating, ProcessRow, RecordRow,
                  LaunchSslPass, AtPc
    <3>2. UNCHANGED status
      BY <2>3 DEF CheckCancel, MarkCreating, ProcessRow, RecordRow,
                  LaunchSslPass, row
    <3>3. worker'[j].pc # "dead" /\ \A k \in Jobs : k # j => worker'[k] = worker[k]
      <4>1. CASE CheckCancel(j)
        BY <4>1, <2>a DEF CheckCancel, Goto, Doing
      <4>2. CASE MarkCreating(j)
        BY <4>2, <2>a DEF MarkCreating, Goto, Doing
      <4>3. CASE ProcessRow(j)
        BY <4>3, <2>a DEF ProcessRow, Doing
      <4>4. CASE RecordRow(j)
        BY <4>4, <2>a DEF RecordRow, Doing
      <4>5. CASE LaunchSslPass(j)
        BY <4>5, <2>a DEF LaunchSslPass, Goto, Doing
      <4> QED
        BY <2>3, <4>1, <4>2, <4>3, <4>4, <4>5
    <3>4. \A k \in Jobs : Live(k)' = Live(k)
      BY <3>1, <3>3 DEF Live
    <3> QED
      BY <2>s, <3>2, <3>4
  <2>4. ASSUME NEW j \in Jobs, Complete(j) \/ StopCancelled(j)
        PROVE  Lifecycle!End(j) \/ Lifecycle!Die
    <3>1. Live(j) /\ worker' = [worker EXCEPT ![j] = Dead]
      BY <2>4 DEF Complete, StopCancelled, Finish, Exit, AtPc, Live
    <3>2. \A k \in Jobs : Live(k)' = IF k = j THEN FALSE ELSE Live(k)
      BY <3>1, <2>a DEF Live, Dead
    <3>3. \/ \E s \in Lifecycle!Terminal : status' = [status EXCEPT ![j] = s]
          \/ UNCHANGED status
      BY <2>4 DEF Complete, StopCancelled, Finish, SetJob, Lifecycle!Terminal
    <3>4. CASE UNCHANGED status
      <4>1. ASSUME NEW k \in Jobs PROVE Live(k)' = (Live(k) /\ k \notin {j})
        <5>1. CASE k = j
          BY <3>2, <5>1
        <5>2. CASE k # j
          <6>1. k \notin {j} /\ Live(k)' = Live(k)
            BY <3>2, <5>2
          <6> QED
            BY <6>1 DEF Live
        <5> QED
          BY <5>1, <5>2
      <4>2. {j} \in SUBSET Jobs
        OBVIOUS
      <4> QED
        BY <3>4, <4>1, <4>2 DEF Lifecycle!Die
    <3> QED
      BY <3>1, <3>2, <3>3, <3>4 DEF Lifecycle!End
  <2>5. ASSUME NEW j \in Jobs, IssueSsl(j) \/ Cancel(j) \/ Expire(j)
        PROVE  UNCHANGED Lifecycle!vars
    <3>1. UNCHANGED <<status, worker>>
      BY <2>5 DEF IssueSsl, Cancel, Expire, row
    <3> QED
      BY <3>1, <2>s DEF Live
  <2>6. CASE Restart
    <3>1. \A k \in Jobs : Live(k)' = (Live(k) /\ k \notin Jobs)
      BY <2>6 DEF Restart, Live, Dead
    <3>2. UNCHANGED status
      BY <2>6 DEF Restart, row
    <3>3. Lifecycle!Die
      BY <3>1, <3>2 DEF Lifecycle!Die
    <3> QED
      BY <3>3 DEF Lifecycle!Next
  <2>7. CASE Recover
    <3> DEFINE S == {k \in Jobs : Recoverable(k)}
    <3>1. \/ status' = [k \in Jobs |-> IF k \in S THEN "failed" ELSE status[k]]
          \/ UNCHANGED status
      BY <2>7 DEF Recover
    <3>2. S \in SUBSET {k \in Jobs : Lifecycle!Failable(k)}
      BY DEF Recoverable, Unfinished, Lifecycle!Failable, Lifecycle!Unfinished
    <3>3. \A k \in Jobs : Live(k)' = Live(k)
      BY <2>7 DEF Recover, Live
    <3>4. Lifecycle!Recover \/ UNCHANGED Lifecycle!vars
      BY <2>s, <3>1, <3>2, <3>3 DEF Lifecycle!Recover
    <3> QED
      BY <3>4 DEF Lifecycle!Next
  <2>8. CASE UNCHANGED vars
    BY <2>8, <2>s DEF vars, row, Live
  <2> QED
    BY <2>1, <2>2, <2>3, <2>4, <2>5, <2>6, <2>7, <2>8 DEF Next, Work, Lifecycle!Next
<1> QED
  BY <1>1, <1>2, AlwaysInv, PTL DEF Spec, ImplementsLifecycle, Lifecycle!SafeSpec

\* A poller that sees a terminal status of an upload whose goroutine has
\* ended has the final word: no later restart or recovery changes it.
THEOREM SettledStaysSettled == Spec => Lifecycle!SettledForGood
<1> DEFINE Stays(j) == Lifecycle!Settled(j) =>
                         Lifecycle!Settled(j)' /\ status'[j] = status[j]
<1>1. IInv /\ [Lifecycle!Next]_Lifecycle!vars => \A j \in Jobs : Stays(j)
  <2> SUFFICES ASSUME IInv, [Lifecycle!Next]_Lifecycle!vars, NEW j \in Jobs,
                      ~Live(j), status[j] \in Lifecycle!Terminal
               PROVE  ~Live(j)' /\ status'[j] = status[j]
    BY DEF Lifecycle!Settled
  <2>a. status \in [Jobs -> Lifecycle!Status]
    BY DEF IInv, TypeOK
  <2> USE DEF Live, Lifecycle!Terminal
  <2>1. ASSUME NEW k \in Jobs,
               Lifecycle!Submit(k) \/ Lifecycle!Report(k) \/ Lifecycle!End(k)
        PROVE  ~Live(j)' /\ status'[j] = status[j]
    BY <2>1, <2>a DEF Lifecycle!Submit, Lifecycle!Report, Lifecycle!End
  <2>2. CASE Lifecycle!Die
    BY <2>2 DEF Lifecycle!Die
  <2>3. CASE Lifecycle!Recover
    BY <2>3 DEF Lifecycle!Recover, Lifecycle!Failable, Lifecycle!Unfinished
  <2>4. CASE UNCHANGED Lifecycle!vars
    BY <2>4 DEF Lifecycle!vars
  <2> QED
    BY <2>1, <2>2, <2>3, <2>4 DEF Lifecycle!Next
<1> QED
  BY <1>1, AlwaysInv, UploadImplementsLifecycle, PTL
     DEF ImplementsLifecycle, Lifecycle!SafeSpec, Lifecycle!SettledForGood
=============================================================================
