-------------------------- MODULE Cloudflare_proofs --------------------------
(***************************************************************************)
(* Proofs about the two Cloudflare modules: the sync jobs and their rows   *)
(* (CfSyncJob), for any number of jobs, domains, restarts and refused      *)
(* calls, and how the records themselves follow the panel (CfRecordSync),  *)
(* for any values and any number of edits, operator syncs, failing calls   *)
(* and restarts.                                                           *)
(***************************************************************************)
EXTENDS CfSyncJob, CfRecordSync, SequenceTheorems, NaturalsInduction,
        WellFoundedInduction, FiniteSetTheorems, TLAPS

-----------------------------------------------------------------------------
(* CfSyncJob.  What a poller reads follows from what the goroutine holds,  *)
(* so JobInv says three things the properties do not: the shape of the     *)
(* goroutine's copy (outcomes before the item it is at, nothing started    *)
(* after it), what the row's status may be while the goroutine lives, and  *)
(* that a goroutine about to start an item has seen no cancel, or could    *)
(* not read the flag.                                                      *)

Outcomes == {"done", "skipped", "failed"}
Copy == [status : Lifecycle!Status, items : ItemLists, failed : 0 .. MaxDomains]
Pc == {"dead", "begin", "mark", "provider", "check", "cancel", "start",
       "reconcile"}

\* The items of a list with an outcome.
With(list, s) == {i \in DOMAIN list : list[i] = s}

\* How far the goroutine is through its list.
Progress(j) ==
  LET list == job[j].items IN
  /\ \A i \in DOMAIN list :
       /\ i < at[j] => list[i] \in Outcomes
       /\ i > at[j] => list[i] = "pending"
       /\ i = at[j] =>
            list[i] = IF pc[j] = "reconcile" THEN "running" ELSE "pending"
  /\ pc[j] \in {"begin", "mark", "provider"} => at[j] = 1
  /\ at[j] <= Total(j) + 1
  /\ pc[j] \in {"cancel", "start", "reconcile"} => at[j] <= Total(j)

WorkerInv(j) ==
  /\ Progress(j)
  /\ job[j].failed = Cardinality(With(job[j].items, "failed"))
  /\ pc[j] \notin {"begin", "mark"} => job[j].status = "running"
  /\ status[j] \in {"queued", "running", "failed"}
  /\ status[j] = "failed" => restarts > 0

AbsentInv(j) ==
  status[j] = "absent" => pc[j] = "dead" /\ at[j] = 1 /\ late[j] = {} /\ failed[j] = 0

\* What PolledRowAddsUp says of one row.
RowInv(j) ==
  /\ failed[j] = Cardinality(With(items[j], "failed"))
  /\ status[j] = "completed" =>
       /\ With(items[j], "pending") = {}
       /\ DOMAIN items[j] # {} => With(items[j], "failed") # DOMAIN items[j]
  /\ status[j] = "failed" /\ restarts = 0 =>
       \/ With(items[j], "pending") = DOMAIN items[j]
       \/ With(items[j], "failed") = DOMAIN items[j]
  /\ status[j] \in {"completed", "cancelled"} => With(items[j], "running") = {}

CancelInv(j) ==
  /\ late[j] \ blind[j] # {} => cancelRequested[j]
  /\ \E x : late[j] \ blind[j] \subseteq {x}
  /\ pc[j] = "start" => late[j] \ blind[j] = {} \/ at[j] \in blind[j]

JobInv(j) ==
  /\ Live(j) => WorkerInv(j)
  /\ AbsentInv(j) /\ RowInv(j) /\ CancelInv(j)

IInv ==
  /\ TypeOK
  /\ recovering => restarts > 0
  /\ \A j \in Jobs : JobInv(j)

-----------------------------------------------------------------------------
(* Lists of items and the counters over them                               *)

LEMMA ListLength ==
  ASSUME NEW list \in ItemLists
  PROVE  /\ Cardinality(DOMAIN list) \in 0 .. MaxDomains
         /\ DOMAIN list = 1 .. Cardinality(DOMAIN list)
         /\ list \in [DOMAIN list -> ItemStatus]
<1>1. PICK n \in 0 .. MaxDomains : list \in [1 .. n -> ItemStatus]
  BY DEF ItemLists
<1>2. Cardinality(1 .. n) = n
  <2>1. 1 \in Int /\ n \in Int
    BY DomainsAssumption
  <2>2. Cardinality(1 .. n) = IF 1 > n THEN 0 ELSE n - 1 + 1
    BY <2>1, FS_Interval
  <2> QED
    BY <2>1, <2>2, DomainsAssumption
<1>3. DOMAIN list = 1 .. n
  BY <1>1
<1> QED
  BY <1>1, <1>2, <1>3

LEMMA ListOf ==
  ASSUME NEW n \in 0 .. MaxDomains, NEW list \in [1 .. n -> ItemStatus]
  PROVE  list \in ItemLists
BY DEF ItemLists

LEMMA ListSet ==
  ASSUME NEW list \in ItemLists, NEW i \in DOMAIN list, NEW s \in ItemStatus
  PROVE  /\ [list EXCEPT ![i] = s] \in ItemLists
         /\ DOMAIN [list EXCEPT ![i] = s] = DOMAIN list
<1>1. PICK n \in 0 .. MaxDomains : list \in [1 .. n -> ItemStatus]
  BY DEF ItemLists
<1>2. [list EXCEPT ![i] = s] \in [1 .. n -> ItemStatus]
  BY <1>1
<1> QED
  BY <1>2, ListOf

LEMMA WithFinite ==
  ASSUME NEW list \in ItemLists, NEW s
  PROVE  /\ IsFiniteSet(DOMAIN list) /\ IsFiniteSet(With(list, s))
         /\ Cardinality(With(list, s)) \in Nat
         /\ Cardinality(With(list, s)) <= Cardinality(DOMAIN list)
<1>1. IsFiniteSet(DOMAIN list)
  <2>1. DOMAIN list = 1 .. Cardinality(DOMAIN list) /\ Cardinality(DOMAIN list) \in Int
    BY ListLength, DomainsAssumption
  <2>2. IsFiniteSet(1 .. Cardinality(DOMAIN list))
    BY <2>1, FS_Interval
  <2> QED
    BY <2>1, <2>2
<1>2. With(list, s) \subseteq DOMAIN list
  BY DEF With
<1> QED
  BY <1>1, <1>2, FS_Subset, FS_CardinalityType

\* A list on which every item counts as failed has no other.
LEMMA AllWith ==
  ASSUME NEW list \in ItemLists, NEW s,
         Cardinality(With(list, s)) = Cardinality(DOMAIN list)
  PROVE  With(list, s) = DOMAIN list
<1>1. With(list, s) \subseteq DOMAIN list
  BY DEF With
<1> QED
  BY <1>1, WithFinite, FS_Subset

\* The counter moves with the item's outcome.
LEMMA CountsOne ==
  ASSUME NEW list \in ItemLists, NEW i \in DOMAIN list, list[i] # "failed",
         NEW s \in ItemStatus
  PROVE  Cardinality(With([list EXCEPT ![i] = s], "failed"))
           = Cardinality(With(list, "failed")) + FailedBy(s)
<1> DEFINE new == [list EXCEPT ![i] = s]
           F == With(list, "failed")
<1>1. IsFiniteSet(F) /\ Cardinality(F) \in Nat
  BY WithFinite
<1>2. list \in [DOMAIN list -> ItemStatus]
  BY ListLength
<1>3. i \notin F
  BY DEF With
<1>4. CASE s = "failed"
  <2>1. With(new, "failed") = F \cup {i}
    BY <1>2, <1>4 DEF With
  <2>2. Cardinality(F \cup {i}) = Cardinality(F) + 1
    BY <1>1, <1>3, FS_AddElement
  <2> HIDE DEF new, F
  <2>3. Cardinality(With(new, "failed")) = Cardinality(F) + 1
    BY <2>1, <2>2
  <2> QED
    BY <2>3, <1>4 DEF FailedBy, new, F
<1>5. CASE s # "failed"
  <2>1. With(new, "failed") = F
    BY <1>2, <1>5 DEF With
  <2> HIDE DEF new, F
  <2>2. Cardinality(With(new, "failed")) = Cardinality(F)
    BY <2>1
  <2> QED
    BY <1>1, <2>2, <1>5 DEF FailedBy, new, F
<1> QED
  BY <1>4, <1>5

LEMMA TotalTyped ==
  ASSUME TypeOK, NEW j \in Jobs
  PROVE  /\ Total(j) \in 0 .. MaxDomains /\ Total(j) \in Nat
         /\ DOMAIN job[j].items = 1 .. Total(j)
         /\ at[j] \in Nat /\ at[j] \in 1 .. MaxDomains + 1
<1>1. job[j].items \in ItemLists /\ at[j] \in 1 .. MaxDomains + 1
  BY DEF TypeOK
<1>2. Total(j) \in 0 .. MaxDomains /\ DOMAIN job[j].items = 1 .. Total(j)
  BY <1>1, ListLength DEF Total
<1> QED
  BY <1>1, <1>2, DomainsAssumption

-----------------------------------------------------------------------------
(* What a write does                                                       *)

LEMMA Statuses ==
  \A s \in {"absent", "queued", "running", "completed", "cancelled", "failed"} :
    s \in Lifecycle!Status
BY DEF Lifecycle!Status, Lifecycle!Unfinished, Lifecycle!Terminal

LEMMA CopyTyped ==
  ASSUME TypeOK, NEW j \in Jobs
  PROVE  /\ job \in [Jobs -> Copy] /\ job[j] \in Copy /\ job[j].items \in ItemLists
         /\ items[j] \in ItemLists
BY DEF TypeOK, Copy

\* A save of the copy q types, touches one job, and reaches the row or leaves
\* it alone.
LEMMA Written ==
  ASSUME TypeOK, NEW j \in Jobs, NEW q \in Copy, Saves(j, q)
  PROVE  /\ job' \in [Jobs -> Copy] /\ status' \in [Jobs -> Lifecycle!Status]
         /\ items' \in [Jobs -> ItemLists] /\ failed' \in [Jobs -> 0 .. MaxDomains]
         /\ UNCHANGED cancelRequested /\ job'[j] = q
         /\ \/ UNCHANGED <<status, items, failed>>
            \/ /\ status'[j] = q.status /\ items'[j] = q.items
               /\ failed'[j] = q.failed /\ status' = [status EXCEPT ![j] = q.status]
         /\ \A k \in Jobs \ {j} :
              job'[k] = job[k] /\ status'[k] = status[k] /\ items'[k] = items[k]
                /\ failed'[k] = failed[k]
<1>1. q.status \in Lifecycle!Status /\ q.items \in ItemLists /\ q.failed \in 0 .. MaxDomains
  BY DEF Copy
<1>2. job \in [Jobs -> Copy] /\ job' = [job EXCEPT ![j] = q]
  BY CopyTyped DEF Saves
<1>3. CASE UNCHANGED row
  BY <1>1, <1>2, <1>3 DEF row, TypeOK
<1>4. CASE Persist(j, q)
  <2>1. /\ status' = [status EXCEPT ![j] = q.status]
        /\ items' = [items EXCEPT ![j] = q.items]
        /\ failed' = [failed EXCEPT ![j] = q.failed]
        /\ UNCHANGED cancelRequested
    BY <1>4 DEF Persist
  <2>2. /\ status' \in [Jobs -> Lifecycle!Status] /\ status'[j] = q.status
        /\ \A k \in Jobs \ {j} : status'[k] = status[k]
    BY <1>1, <2>1 DEF TypeOK
  <2>3. /\ items' \in [Jobs -> ItemLists] /\ items'[j] = q.items
        /\ \A k \in Jobs \ {j} : items'[k] = items[k]
    BY <1>1, <2>1 DEF TypeOK
  <2>4. /\ failed' \in [Jobs -> 0 .. MaxDomains] /\ failed'[j] = q.failed
        /\ \A k \in Jobs \ {j} : failed'[k] = failed[k]
    BY <1>1, <2>1 DEF TypeOK
  <2> QED
    BY <1>2, <2>1, <2>2, <2>3, <2>4
<1> QED
  BY <1>3, <1>4 DEF Saves

\* A call that succeeds or fails keeps the count of refusals within its bound.
LEMMA RefusedTyped ==
  ASSUME TypeOK, NEW j \in Jobs,
         Succeeds(j) \/ Fails(j) \/ UNCHANGED refused
  PROVE  refused' \in 0 .. MaxRefused
<1>1. CASE UNCHANGED refused
  BY <1>1 DEF TypeOK
<1>2. CASE Refused
  BY <1>2, RefusedAssumption DEF Refused, TypeOK
<1> QED
  BY <1>1, <1>2 DEF Succeeds, Fails

\* The last write is a save like any other.
LEMMA FinishSaves ==
  ASSUME NEW j \in Jobs, NEW s, Finish(j, s)
  PROVE  /\ Saves(j, [job[j] EXCEPT !.status = s]) /\ Goto(j, "dead")
         /\ UNCHANGED <<at, expired, late, blind, env>>
BY DEF Finish, Saves

LEMMA SetStatus ==
  ASSUME TypeOK, NEW j \in Jobs, NEW s \in Lifecycle!Status
  PROVE  /\ [job[j] EXCEPT !.status = s] \in Copy
         /\ [job[j] EXCEPT !.status = s].status = s
         /\ [job[j] EXCEPT !.status = s].items = job[j].items
         /\ [job[j] EXCEPT !.status = s].failed = job[j].failed
BY CopyTyped DEF Copy

LEMMA SetRunning ==
  ASSUME TypeOK, NEW j \in Jobs, at[j] <= Total(j)
  PROVE  LET q == [job[j] EXCEPT !.items[at[j]] = "running"] IN
         /\ q \in Copy /\ q.status = job[j].status /\ q.failed = job[j].failed
         /\ q.items = [job[j].items EXCEPT ![at[j]] = "running"]
<1>1. at[j] \in DOMAIN job[j].items
  BY TotalTyped
<1>2. [job[j].items EXCEPT ![at[j]] = "running"] \in ItemLists
  BY <1>1, CopyTyped, ListSet DEF ItemStatus
<1> QED
  BY <1>2, CopyTyped DEF Copy

\* The item's outcome and the counter, which stays within the list.
LEMMA SetOutcome ==
  ASSUME TypeOK, NEW j \in Jobs, WorkerInv(j), at[j] <= Total(j),
         pc[j] = "reconcile", NEW o \in Outcomes
  PROVE  LET q == [job[j] EXCEPT !.items[at[j]] = o, !.failed = @ + FailedBy(o)] IN
         /\ q \in Copy /\ q.status = job[j].status
         /\ q.items = [job[j].items EXCEPT ![at[j]] = o]
         /\ q.failed = Cardinality(With(q.items, "failed"))
<1> DEFINE new == [job[j].items EXCEPT ![at[j]] = o]
           n == job[j].failed + FailedBy(o)
           q == [job[j] EXCEPT !.items[at[j]] = o, !.failed = @ + FailedBy(o)]
<1>1. at[j] \in DOMAIN job[j].items /\ o \in ItemStatus
  BY TotalTyped DEF Outcomes, ItemStatus
<1>2. job[j].items[at[j]] = "running"
  BY <1>1, TotalTyped DEF WorkerInv, Progress
<1>3. new \in ItemLists /\ DOMAIN new = DOMAIN job[j].items
  BY <1>1, CopyTyped, ListSet
<1>4. Cardinality(With(new, "failed")) = n
  BY <1>1, <1>2, CopyTyped, CountsOne DEF WorkerInv
<1> HIDE DEF new
<1>5. n \in 0 .. MaxDomains
  <2>1. Cardinality(With(new, "failed")) \in Nat
    BY <1>3, WithFinite
  <2>2. Cardinality(With(new, "failed")) <= Cardinality(DOMAIN new)
    BY <1>3, WithFinite
  <2>3. Cardinality(DOMAIN new) \in 0 .. MaxDomains
    BY <1>3, ListLength
  <2> QED
    BY <1>4, <2>1, <2>2, <2>3, DomainsAssumption
<1>6. q = [job[j] EXCEPT !.items = new, !.failed = n]
  BY CopyTyped DEF new, Copy
<1>7. q \in Copy /\ q.status = job[j].status /\ q.items = new /\ q.failed = n
  BY <1>3, <1>5, <1>6, CopyTyped DEF Copy
<1>8. new = [job[j].items EXCEPT ![at[j]] = o]
  BY DEF new
<1> HIDE DEF q, n
<1>9. q.failed = Cardinality(With(q.items, "failed"))
  BY <1>4, <1>7
<1> QED
  BY <1>7, <1>8, <1>9 DEF q

-----------------------------------------------------------------------------
(* Types                                                                   *)

LEMMA InitTyped == Init => TypeOK
<1> SUFFICES ASSUME Init PROVE TypeOK
  OBVIOUS
<1>1. << >> \in ItemLists
  <2>1. << >> \in Seq(ItemStatus) /\ Len(<< >>) = 0
    OBVIOUS
  <2>2. << >> \in [1 .. 0 -> ItemStatus]
    BY <2>1
  <2>3. 0 \in 0 .. MaxDomains
    BY DomainsAssumption
  <2> QED
    BY <2>2, <2>3, ListOf
<1>2. NoJob \in [status : Lifecycle!Status, items : ItemLists, failed : 0 .. MaxDomains]
  BY <1>1, Statuses, DomainsAssumption DEF NoJob
<1>3. "absent" \in Lifecycle!Status /\ 0 \in 0 .. MaxDomains /\ 1 \in 1 .. MaxDomains + 1
      /\ 0 \in 0 .. MaxRestarts /\ 0 \in 0 .. MaxRefused
  BY Statuses, DomainsAssumption, RestartAssumption, RefusedAssumption
<1> QED
  BY <1>1, <1>2, <1>3 DEF Init, TypeOK

\* A live goroutine's step saves a copy or leaves it, and moves on its counter.
Wrote(j, q) ==
  /\ q \in Copy
  /\ Saves(j, q) \/ (q = job[j] /\ UNCHANGED <<row, job>>)
  /\ \E l \in Pc : Goto(j, l)
  /\ UNCHANGED <<expired, env>>

\* What it records beside that: its place, and its history.
Noted(j) ==
  /\ refused' \in 0 .. MaxRefused /\ hanging' \subseteq Jobs
  /\ late' \in [Jobs -> SUBSET (1 .. MaxDomains)]
  /\ blind' \in [Jobs -> SUBSET (1 .. MaxDomains)]
  /\ at' \in [Jobs -> 1 .. MaxDomains + 1]
  /\ \A k \in Jobs \ {j} : late'[k] = late[k] /\ blind'[k] = blind[k] /\ at'[k] = at[k]

LEMMA WroteTyped ==
  ASSUME TypeOK, NEW j \in Jobs, NEW q, Wrote(j, q), Noted(j)
  PROVE  TypeOK'
<1>1. pc' \in [Jobs -> Pc]
  BY DEF Wrote, Goto, TypeOK, Pc
<1>2. /\ job' \in [Jobs -> Copy] /\ status' \in [Jobs -> Lifecycle!Status]
      /\ items' \in [Jobs -> ItemLists] /\ failed' \in [Jobs -> 0 .. MaxDomains]
      /\ UNCHANGED cancelRequested
  <2>1. CASE Saves(j, q)
    BY <2>1, Written DEF Wrote
  <2>2. CASE UNCHANGED <<row, job>>
    BY <2>2 DEF row, TypeOK, Copy
  <2> QED
    BY <2>1, <2>2 DEF Wrote
<1> QED
  BY <1>1, <1>2 DEF Wrote, Noted, TypeOK, env, Pc, Copy

\* What a goroutine's step writes.
LEMMA WorkWrites ==
  ASSUME TypeOK, NEW j \in Jobs, Work(j), Live(j) => WorkerInv(j)
  PROVE  /\ Live(j) /\ \E q : Wrote(j, q)
         /\ Noted(j)
<1>a. job[j] \in Copy /\ WorkerInv(j) /\ Live(j)
  BY CopyTyped DEF Work, Begin, MarkRunning, Provider, CheckCancel, StopCancelled,
                   StartItem, ReconcileItem, Complete, Live
<1>b. /\ late \in [Jobs -> SUBSET (1 .. MaxDomains)]
      /\ blind \in [Jobs -> SUBSET (1 .. MaxDomains)]
      /\ at \in [Jobs -> 1 .. MaxDomains + 1] /\ hanging \subseteq Jobs
  BY DEF TypeOK
<1>n. ASSUME UNCHANGED <<at, late, blind>>, hanging' \in {hanging, hanging \cup {j}},
             refused' \in 0 .. MaxRefused
      PROVE  Noted(j)
  BY <1>b, <1>n DEF Noted
<1>u. ASSUME UNCHANGED <<at, expired, late, blind, env>>,
             hanging' \in {hanging, hanging \cup {j}}, refused' \in 0 .. MaxRefused,
             NEW q \in Copy, NEW l \in Pc, Goto(j, l),
             Saves(j, q) \/ (q = job[j] /\ UNCHANGED <<row, job>>)
      PROVE  (\E p : Wrote(j, p)) /\ Noted(j)
  <2>1. Wrote(j, q)
    BY <1>u DEF Wrote
  <2> QED
    BY <2>1, <1>n, <1>u
<1>s. ASSUME NEW q, Saves(j, q) PROVE refused' \in 0 .. MaxRefused
  BY <1>s, RefusedTyped DEF Saves
<1>f. ASSUME NEW s \in {"completed", "cancelled", "failed"}, Finish(j, s)
      PROVE  (\E q : Wrote(j, q)) /\ Noted(j)
  <2>1. /\ Saves(j, [job[j] EXCEPT !.status = s]) /\ Goto(j, "dead")
        /\ UNCHANGED <<at, expired, late, blind, env>>
    BY <1>f, FinishSaves
  <2>2. [job[j] EXCEPT !.status = s] \in Copy /\ "dead" \in Pc
    BY Statuses, SetStatus DEF Pc
  <2>3. hanging' \in {hanging, hanging \cup {j}}
    BY <1>f DEF Finish
  <2> QED
    BY <1>s, <1>u, <2>1, <2>2, <2>3
<1>1. CASE Begin(j)
  <2>1. /\ UNCHANGED <<row, job, at, expired, late, blind, env>>
        /\ hanging' \in {hanging, hanging \cup {j}}
        /\ Goto(j, "mark") \/ Goto(j, "dead")
    BY <1>1 DEF Begin
  <2>2. refused' \in 0 .. MaxRefused
    BY <1>1, RefusedTyped DEF Begin
  <2> QED
    BY <1>a, <1>u, <2>1, <2>2 DEF Pc
<1>2. CASE MarkRunning(j)
  <2>1. /\ UNCHANGED <<at, expired, late, blind, hanging, env>>
        /\ Saves(j, [job[j] EXCEPT !.status = "running"]) /\ Goto(j, "provider")
    BY <1>2 DEF MarkRunning
  <2>2. [job[j] EXCEPT !.status = "running"] \in Copy /\ "provider" \in Pc
    BY Statuses, SetStatus DEF Pc
  <2> QED
    BY <1>a, <1>s, <1>u, <2>1, <2>2
<1>3. CASE Provider(j)
  <2>1. CASE Finish(j, "failed")
    BY <2>1, <1>a, <1>f
  <2>2. CASE Goto(j, "check")
             /\ UNCHANGED <<row, job, at, expired, late, blind, hanging, env, refused>>
    BY <2>2, <1>a, <1>u, RefusedTyped DEF Pc
  <2> QED
    BY <1>3, <2>1, <2>2 DEF Provider
<1>4. CASE CheckCancel(j)
  <2>1. /\ UNCHANGED <<row, job, at, expired, late, hanging, env>>
        /\ \E l \in {"cancel", "start"} : Goto(j, l)
        /\ blind' = blind \/ blind' = [blind EXCEPT ![j] = @ \cup {at[j]}]
    BY <1>4 DEF CheckCancel
  <2>2. refused' \in 0 .. MaxRefused
    BY <1>4, RefusedTyped DEF CheckCancel
  <2>3. at[j] \in 1 .. MaxDomains
    BY <1>4, <1>a, TotalTyped, DomainsAssumption
       DEF CheckCancel, WorkerInv, Progress, AllDone
  <2>4. blind' \in [Jobs -> SUBSET (1 .. MaxDomains)]
        /\ \A k \in Jobs \ {j} : blind'[k] = blind[k]
    BY <1>b, <2>1, <2>3
  <2>5. Noted(j)
    BY <1>b, <2>1, <2>2, <2>4 DEF Noted
  <2>6. Wrote(j, job[j])
    BY <1>a, <2>1 DEF Wrote, Pc
  <2> QED
    BY <1>a, <2>5, <2>6
<1>5. CASE StopCancelled(j)
  BY <1>5, <1>a, <1>f DEF StopCancelled
<1>6. CASE StartItem(j)
  <2> DEFINE q == [job[j] EXCEPT !.items[at[j]] = "running"]
  <2>1. at[j] <= Total(j) /\ at[j] \in 1 .. MaxDomains
    BY <1>6, <1>a, TotalTyped, DomainsAssumption DEF StartItem, WorkerInv, Progress
  <2>2. q \in Copy
    BY <2>1, SetRunning
  <2>3. Saves(j, q) /\ Goto(j, "reconcile") /\ UNCHANGED <<at, expired, blind, hanging, env>>
    BY <1>6 DEF StartItem
  <2>4. \/ late' = late
        \/ late' = [late EXCEPT ![j] = @ \cup {at[j]}]
    BY <1>6, <1>b DEF StartItem
  <2> HIDE DEF q
  <2>5. Wrote(j, q)
    BY <2>2, <2>3 DEF Wrote, Pc
  <2>6. late' \in [Jobs -> SUBSET (1 .. MaxDomains)]
        /\ \A k \in Jobs \ {j} : late'[k] = late[k]
    BY <1>b, <2>1, <2>4
  <2>7. refused' \in 0 .. MaxRefused
    BY <1>s, <2>3
  <2>8. Noted(j)
    BY <1>b, <2>3, <2>6, <2>7 DEF Noted
  <2> QED
    BY <1>a, <2>5, <2>8
<1>7. CASE ReconcileItem(j)
  <2>1. PICK o \in Outcomes :
          Saves(j, [job[j] EXCEPT !.items[at[j]] = o, !.failed = @ + FailedBy(o)])
    BY <1>7 DEF ReconcileItem, Outcomes
  <2> DEFINE q == [job[j] EXCEPT !.items[at[j]] = o, !.failed = @ + FailedBy(o)]
  <2>2. at[j] <= Total(j) /\ at[j] + 1 \in 1 .. MaxDomains + 1 /\ pc[j] = "reconcile"
    BY <1>7, <1>a, TotalTyped, DomainsAssumption DEF ReconcileItem, WorkerInv, Progress
  <2>3. q \in Copy /\ Saves(j, q)
    BY <1>a, <2>1, <2>2, SetOutcome
  <2> HIDE DEF q
  <2>4. Goto(j, "check") /\ UNCHANGED <<expired, late, blind, hanging, env>>
        /\ at' = [at EXCEPT ![j] = @ + 1]
    BY <1>7 DEF ReconcileItem
  <2>5. Wrote(j, q)
    BY <2>3, <2>4 DEF Wrote, Pc
  <2>6. at' \in [Jobs -> 1 .. MaxDomains + 1] /\ \A k \in Jobs \ {j} : at'[k] = at[k]
    BY <1>b, <2>2, <2>4
  <2>7. refused' \in 0 .. MaxRefused
    BY <1>s, <2>3
  <2>8. Noted(j)
    BY <1>b, <2>4, <2>6, <2>7 DEF Noted
  <2> QED
    BY <1>a, <2>5, <2>8
<1>8. CASE Complete(j)
  <2>1. FinalStatus(j) \in {"completed", "cancelled", "failed"}
    BY DEF FinalStatus
  <2> QED
    BY <1>8, <1>a, <2>1, <1>f DEF Complete
<1> QED
  BY <1>1, <1>2, <1>3, <1>4, <1>5, <1>6, <1>7, <1>8 DEF Work

LEMMA WorkTyped ==
  ASSUME TypeOK, NEW j \in Jobs, Work(j), Live(j) => WorkerInv(j)
  PROVE  TypeOK'
<1>1. PICK q : Wrote(j, q)
  BY WorkWrites
<1>2. Noted(j)
  BY WorkWrites
<1> QED
  BY <1>1, <1>2, WroteTyped

\* What submits, cancels or cuts off a job.
Outside(j) == Start(j) \/ CancelSyncJob(j) \/ Expire(j)

\* A new job's row and copy.
LEMMA Started ==
  ASSUME TypeOK, NEW j \in Jobs, Start(j)
  PROVE  \E n \in 0 .. MaxDomains :
           LET list == [i \in 1 .. n |-> "pending"] IN
           /\ list \in ItemLists
           /\ items' = [items EXCEPT ![j] = list]
           /\ job' = [job EXCEPT ![j] = [NoJob EXCEPT !.items = list]]
           /\ [NoJob EXCEPT !.items = list] \in Copy
<1>1. PICK n \in 0 .. MaxDomains :
        /\ items' = [items EXCEPT ![j] = [i \in 1 .. n |-> "pending"]]
        /\ job' = [job EXCEPT ![j] = [NoJob EXCEPT !.items = [i \in 1 .. n |-> "pending"]]]
  BY DEF Start
<1>2. [i \in 1 .. n |-> "pending"] \in ItemLists
  BY ListOf DEF ItemStatus
<1>3. \A list \in ItemLists : [NoJob EXCEPT !.items = list] \in Copy
  BY Statuses, DomainsAssumption DEF NoJob, Copy
<1> QED
  BY <1>1, <1>2, <1>3

LEMMA StartedFrom ==
  ASSUME TypeOK, NEW j \in Jobs, Start(j)
  PROVE  \E list \in ItemLists, q \in Copy :
           items' = [items EXCEPT ![j] = list] /\ job' = [job EXCEPT ![j] = q]
<1>1. PICK n \in 0 .. MaxDomains :
        /\ [i \in 1 .. n |-> "pending"] \in ItemLists
        /\ items' = [items EXCEPT ![j] = [i \in 1 .. n |-> "pending"]]
        /\ job' = [job EXCEPT ![j] = [NoJob EXCEPT !.items = [i \in 1 .. n |-> "pending"]]]
        /\ [NoJob EXCEPT !.items = [i \in 1 .. n |-> "pending"]] \in Copy
  BY Started
<1> QED
  BY <1>1

LEMMA OutsideTyped ==
  ASSUME TypeOK, NEW j \in Jobs, Outside(j)
  PROVE  TypeOK'
<1>1. CASE Start(j)
  <2>1. items' \in [Jobs -> ItemLists] /\ job' \in [Jobs -> Copy]
    <3>1. PICK list \in ItemLists, q \in Copy :
            items' = [items EXCEPT ![j] = list] /\ job' = [job EXCEPT ![j] = q]
      BY <1>1, StartedFrom
    <3> QED
      BY <3>1, CopyTyped DEF TypeOK
  <2>2. status' \in [Jobs -> Lifecycle!Status] /\ pc' \in [Jobs -> Pc]
    BY <1>1, Statuses DEF Start, Goto, TypeOK, Pc
  <2> QED
    BY <1>1, <2>1, <2>2 DEF Start, TypeOK, env, Copy, Pc
<1>2. CASE CancelSyncJob(j)
  BY <1>2 DEF CancelSyncJob, TypeOK, env
<1>3. CASE Expire(j)
  BY <1>3 DEF Expire, TypeOK, row, env
<1> QED
  BY <1>1, <1>2, <1>3 DEF Outside

LEMMA ProcessTyped ==
  ASSUME TypeOK, Restart \/ Recover
  PROVE  TypeOK'
<1>1. CASE Restart
  BY <1>1, RestartAssumption DEF Restart, TypeOK, row
<1>2. CASE Recover
  <2>1. status' \in [Jobs -> Lifecycle!Status]
    BY <1>2, Statuses DEF Recover, TypeOK
  <2>2. refused' \in 0 .. MaxRefused
    BY <1>2, RefusedAssumption DEF Recover, Refused, TypeOK
  <2>3. hanging' \subseteq Jobs
    BY <1>2 DEF Recover, TypeOK
  <2> QED
    BY <1>2, <2>1, <2>2, <2>3 DEF Recover, TypeOK
<1> QED
  BY <1>1, <1>2

-----------------------------------------------------------------------------
(* The job invariant                                                       *)

\* A job whose row, goroutine and history stay as they are keeps it.
LEMMA Frame ==
  ASSUME TypeOK, NEW k \in Jobs, JobInv(k), restarts \in Nat,
         restarts' \in Nat, restarts <= restarts',
         status'[k] = status[k], cancelRequested'[k] = cancelRequested[k],
         items'[k] = items[k], failed'[k] = failed[k], job'[k] = job[k],
         pc'[k] = pc[k], at'[k] = at[k], expired'[k] = expired[k],
         late'[k] = late[k], blind'[k] = blind[k]
  PROVE  JobInv(k)'
<1>1. restarts' = 0 => restarts = 0
  OBVIOUS
<1>2. Live(k)' = Live(k) /\ (WorkerInv(k) => WorkerInv(k)')
  BY <1>1 DEF Live, WorkerInv, Progress, Total
<1>3. RowInv(k)'
  BY <1>1 DEF JobInv, RowInv
<1>4. AbsentInv(k)' /\ CancelInv(k)'
  BY DEF JobInv, AbsentInv, CancelInv
<1> QED
  BY <1>2, <1>3, <1>4 DEF JobInv

LEMMA RestartsNat == TypeOK => restarts \in Nat
BY RestartAssumption DEF TypeOK

\* A step of one job leaves the others alone.
LEMMA OthersKeep ==
  ASSUME TypeOK, NEW j \in Jobs, NEW k \in Jobs, k # j, JobInv(k),
         Work(j) \/ Outside(j), Live(j) => WorkerInv(j)
  PROVE  JobInv(k)'
<1>1. CASE Work(j)
  <2>1. PICK q : Wrote(j, q)
    BY <1>1, WorkWrites
  <2>2. /\ job'[k] = job[k] /\ status'[k] = status[k] /\ items'[k] = items[k]
        /\ failed'[k] = failed[k] /\ cancelRequested'[k] = cancelRequested[k]
    <3>1. CASE Saves(j, q)
      BY <2>1, <3>1, Written DEF Wrote
    <3>2. CASE UNCHANGED <<row, job>>
      BY <3>2 DEF row
    <3> QED
      BY <2>1, <3>1, <3>2 DEF Wrote
  <2>3. late'[k] = late[k] /\ blind'[k] = blind[k] /\ at'[k] = at[k]
    BY <1>1, WorkWrites DEF Noted
  <2>4. pc'[k] = pc[k] /\ expired'[k] = expired[k] /\ restarts' = restarts
    BY <2>1 DEF Wrote, Goto, env, TypeOK
  <2> QED
    BY <2>2, <2>3, <2>4, Frame, RestartsNat
<1>2. CASE Outside(j)
  <2>1. CASE Start(j)
    <3>1. job'[k] = job[k] /\ items'[k] = items[k]
      <4>1. PICK list, q : /\ items' = [items EXCEPT ![j] = list]
                            /\ job' = [job EXCEPT ![j] = q]
        BY <2>1, StartedFrom
      <4> QED
        BY <4>1 DEF TypeOK
    <3> QED
      BY <2>1, <3>1, Frame, RestartsNat DEF Start, Goto, env, TypeOK
  <2>2. CASE CancelSyncJob(j) \/ Expire(j)
    BY <2>2, Frame, RestartsNat DEF CancelSyncJob, Expire, row, env, TypeOK
  <2> QED
    BY <1>2, <2>1, <2>2 DEF Outside
<1> QED
  BY <1>1, <1>2

\* A save by a goroutine that goes on: the row is the new copy, or as it was.
LEMMA PersistKeeps ==
  ASSUME IInv, NEW j \in Jobs, Live(j), NEW q \in Copy, Saves(j, q),
         q.status = "running", q.failed = Cardinality(With(q.items, "failed")),
         UNCHANGED <<expired, env>>, pc'[j] \in Pc \ {"dead", "begin", "mark"},
         Progress(j)', CancelInv(j)'
  PROVE  JobInv(j)'
<1>a. TypeOK /\ WorkerInv(j) /\ RowInv(j)
  BY DEF IInv, JobInv
<1>1. /\ job'[j] = q /\ restarts' = restarts
      /\ \/ status'[j] = status[j] /\ items'[j] = items[j] /\ failed'[j] = failed[j]
         \/ status'[j] = q.status /\ items'[j] = q.items /\ failed'[j] = q.failed
  BY <1>a, Written DEF env
<1>2. WorkerInv(j)'
  BY <1>a, <1>1 DEF WorkerInv
<1>3. RowInv(j)'
  BY <1>a, <1>1 DEF RowInv
<1>4. AbsentInv(j)'
  BY <1>2 DEF WorkerInv, AbsentInv
<1> QED
  BY <1>2, <1>3, <1>4 DEF JobInv

\* The last write: what it makes of the row is true, or the row is as it was.
LEMMA FinishKeeps ==
  ASSUME IInv, NEW j \in Jobs, Live(j), NEW s \in {"completed", "cancelled", "failed"},
         Finish(j, s),
         s = "completed" =>
           /\ With(job[j].items, "pending") = {}
           /\ DOMAIN job[j].items # {} =>
                With(job[j].items, "failed") # DOMAIN job[j].items,
         s = "failed" =>
           \/ With(job[j].items, "pending") = DOMAIN job[j].items
           \/ With(job[j].items, "failed") = DOMAIN job[j].items,
         s \in {"completed", "cancelled"} => With(job[j].items, "running") = {}
  PROVE  JobInv(j)'
<1>a. TypeOK /\ WorkerInv(j) /\ RowInv(j) /\ CancelInv(j)
  BY DEF IInv, JobInv
<1> DEFINE q == [job[j] EXCEPT !.status = s]
<1>1. q \in Copy /\ q.status = s /\ q.items = job[j].items /\ q.failed = job[j].failed
  BY <1>a, Statuses, SetStatus
<1>2. Saves(j, q) /\ Goto(j, "dead") /\ UNCHANGED <<at, expired, late, blind, env>>
  BY FinishSaves
<1> HIDE DEF q
<1>3. /\ restarts' = restarts /\ pc'[j] = "dead" /\ UNCHANGED cancelRequested
      /\ \/ status'[j] = status[j] /\ items'[j] = items[j] /\ failed'[j] = failed[j]
         \/ status'[j] = s /\ items'[j] = job[j].items /\ failed'[j] = job[j].failed
  BY <1>a, <1>1, <1>2, Written DEF env, Goto, TypeOK
<1>4. RowInv(j)'
  <2>1. CASE status'[j] = status[j] /\ items'[j] = items[j] /\ failed'[j] = failed[j]
    BY <1>a, <1>3, <2>1 DEF RowInv
  <2>2. CASE status'[j] = s /\ items'[j] = job[j].items /\ failed'[j] = job[j].failed
    BY <1>a, <1>3, <2>2 DEF RowInv, WorkerInv
  <2> QED
    BY <1>3, <2>1, <2>2
<1>5. status'[j] # "absent"
  BY <1>a, <1>3 DEF WorkerInv
<1>6. CancelInv(j)'
  BY <1>a, <1>2, <1>3 DEF CancelInv
<1> QED
  BY <1>3, <1>4, <1>5, <1>6 DEF JobInv, AbsentInv, Live

\* The goroutine's own steps.
LEMMA WorkKeeps ==
  ASSUME IInv, NEW j \in Jobs, Work(j)
  PROVE  JobInv(j)'
<1> DEFINE list == job[j].items
<1>a. /\ TypeOK /\ JobInv(j) /\ RowInv(j) /\ CancelInv(j) /\ AbsentInv(j)
      /\ job[j] \in Copy /\ list \in ItemLists /\ list \in [DOMAIN list -> ItemStatus]
      /\ pc \in [Jobs -> Pc]
  BY CopyTyped, ListLength DEF IInv, JobInv, TypeOK, Pc
<1>b. Live(j) /\ WorkerInv(j) /\ Progress(j)
  BY <1>a, WorkWrites DEF JobInv, WorkerInv
<1>c. /\ Total(j) \in Nat /\ DOMAIN list = 1 .. Total(j) /\ at[j] \in Nat
      /\ at[j] >= 1 /\ at[j] <= Total(j) + 1
  BY <1>a, <1>b, TotalTyped DEF Progress
<1>1. CASE Begin(j)
  <2>1. /\ UNCHANGED <<row, job, at, late, blind, expired, restarts>>
        /\ pc[j] = "begin" /\ pc'[j] \in {"mark", "dead"}
    BY <1>1, <1>a DEF Begin, Goto, env
  <2>2. RowInv(j)' /\ CancelInv(j)'
    BY <1>a, <2>1 DEF RowInv, CancelInv, row
  <2>3. status'[j] # "absent"
    BY <1>b, <2>1 DEF WorkerInv, row
  <2>4. pc'[j] = "mark" => Progress(j)'
    BY <1>b, <2>1 DEF Progress, Total
  <2>5. pc'[j] = "mark" => WorkerInv(j)'
    BY <1>b, <2>1, <2>4 DEF WorkerInv, row
  <2> QED
    BY <2>1, <2>2, <2>3, <2>5 DEF JobInv, AbsentInv, Live
<1>0. CASE MarkRunning(j)
  <2> DEFINE q == [job[j] EXCEPT !.status = "running"]
  <2>1. q \in Copy /\ q.status = "running" /\ q.items = list /\ q.failed = job[j].failed
    BY <1>a, Statuses, SetStatus
  <2>2. Saves(j, q)
    BY <1>0 DEF MarkRunning
  <2> HIDE DEF q
  <2>3. /\ pc'[j] = "provider" /\ job'[j] = q /\ UNCHANGED <<at, late, blind, expired, env>>
        /\ UNCHANGED cancelRequested /\ pc[j] = "mark"
    BY <1>0, <1>a, <2>1, <2>2, Written DEF MarkRunning, Goto
  <2>4. Progress(j)'
    BY <1>b, <2>1, <2>3 DEF Progress, Total
  <2>5. CancelInv(j)'
    BY <1>a, <2>3 DEF CancelInv
  <2> QED
    BY <1>b, <2>1, <2>2, <2>3, <2>4, <2>5, PersistKeeps DEF WorkerInv, Pc
<1>2. CASE Provider(j)
  <2>1. CASE Finish(j, "failed")
    <3>1. pc[j] = "provider" /\ at[j] = 1
      BY <1>2, <1>b DEF Provider, Progress
    <3>2. With(list, "pending") = DOMAIN list
      BY <1>b, <1>c, <3>1 DEF With, Progress
    <3> QED
      BY <1>b, <2>1, <3>2, FinishKeeps
  <2>2. CASE Goto(j, "check")
             /\ UNCHANGED <<row, job, at, expired, late, blind, hanging, env, refused>>
    <3>1. /\ pc[j] = "provider" /\ pc'[j] = "check"
          /\ UNCHANGED <<row, job, at, late, blind, expired, restarts>>
      BY <1>2, <1>a, <2>2 DEF Provider, Goto, env
    <3>2. RowInv(j)' /\ CancelInv(j)'
      BY <1>a, <3>1 DEF RowInv, CancelInv, row
    <3>3. Progress(j)'
      BY <1>b, <3>1 DEF Progress, Total
    <3>4. WorkerInv(j)'
      BY <1>b, <3>1, <3>3 DEF WorkerInv, row
    <3> QED
      BY <3>1, <3>2, <3>4 DEF JobInv, AbsentInv, WorkerInv
  <2> QED
    BY <1>2, <2>1, <2>2 DEF Provider
<1>3. CASE CheckCancel(j)
  <2>1. /\ pc[j] = "check" /\ at[j] <= Total(j)
        /\ pc'[j] \in {"cancel", "start"}
        /\ \/ blind'[j] = blind[j] /\ (pc'[j] = "start" => ~cancelRequested[j])
           \/ blind'[j] = blind[j] \cup {at[j]}
        /\ UNCHANGED <<row, job, at, late, expired, restarts>>
    BY <1>3, <1>a, <1>c DEF CheckCancel, Goto, AllDone, env, IsCancelled, TypeOK
  <2>2. RowInv(j)'
    BY <1>a, <2>1 DEF RowInv, row
  <2>3. CancelInv(j)'
    <3>1. CASE blind'[j] = blind[j] /\ (pc'[j] = "start" => ~cancelRequested[j])
      BY <1>a, <2>1, <3>1 DEF CancelInv, row
    <3>2. CASE blind'[j] = blind[j] \cup {at[j]}
      <4>1. late'[j] \ blind'[j] \subseteq late[j] \ blind[j] /\ at'[j] \in blind'[j]
        BY <2>1, <3>2
      <4> QED
        BY <1>a, <2>1, <4>1 DEF CancelInv, row
    <3> QED
      BY <2>1, <3>1, <3>2
  <2>4. Progress(j)'
    BY <1>b, <2>1 DEF Progress, Total
  <2>5. WorkerInv(j)'
    BY <1>b, <2>1, <2>4 DEF WorkerInv, row
  <2> QED
    BY <2>2, <2>3, <2>5 DEF JobInv, AbsentInv, WorkerInv
<1>4. CASE StopCancelled(j)
  <2>1. With(list, "running") = {}
    BY <1>4, <1>b, <1>c DEF With, Progress, StopCancelled, Outcomes
  <2> QED
    BY <1>4, <1>b, <2>1, FinishKeeps DEF StopCancelled
<1>5. CASE StartItem(j)
  <2> DEFINE q == [job[j] EXCEPT !.items[at[j]] = "running"]
  <2>1. pc[j] = "start" /\ at[j] <= Total(j) /\ at[j] \in DOMAIN list
    BY <1>5, <1>b, <1>c DEF StartItem, Progress
  <2>2. /\ q \in Copy /\ q.status = job[j].status /\ q.failed = job[j].failed
        /\ q.items = [list EXCEPT ![at[j]] = "running"]
    BY <1>a, <2>1, SetRunning
  <2>3. Saves(j, q)
    BY <1>5 DEF StartItem
  <2> HIDE DEF q
  <2>4. /\ job'[j] = q /\ pc'[j] = "reconcile" /\ UNCHANGED <<at, expired, blind, env>>
        /\ UNCHANGED cancelRequested
        /\ late'[j] = IF cancelRequested[j] THEN late[j] \cup {at[j]} ELSE late[j]
    BY <1>5, <1>a, <2>2, <2>3, Written DEF StartItem, Goto, TypeOK
  <2>5. list[at[j]] = "pending"
    BY <1>b, <2>1 DEF Progress
  <2>6. q.failed = Cardinality(With(q.items, "failed"))
    <3>a. list \in ItemLists /\ job[j].failed = Cardinality(With(list, "failed"))
      BY <1>a, <1>b DEF WorkerInv
    <3>b. "running" \in ItemStatus /\ list[at[j]] # "failed"
      BY <2>5 DEF ItemStatus
    <3>c. at[j] \in DOMAIN list /\ q.items = [list EXCEPT ![at[j]] = "running"]
      BY <2>1, <2>2
    <3> HIDE DEF list
    <3>1. Cardinality(With(q.items, "failed")) = job[j].failed + FailedBy("running")
      BY <3>a, <3>b, <3>c, CountsOne
    <3> QED
      BY <1>a, <2>2, <3>1, DomainsAssumption DEF FailedBy, Copy
  <2>7. Progress(j)'
    <3>1. /\ DOMAIN q.items = DOMAIN list /\ q.items[at[j]] = "running"
          /\ \A i \in DOMAIN list : i # at[j] => q.items[i] = list[i]
      BY <1>a, <2>1, <2>2
    <3>2. Total(j)' = Total(j)
      BY <2>4, <3>1 DEF Total
    <3> QED
      BY <1>b, <1>c, <2>1, <2>4, <3>1, <3>2 DEF Progress
  <2>8. CancelInv(j)'
    <3>1. \/ late'[j] \ blind'[j] = late[j] \ blind[j]
          \/ cancelRequested[j] /\ late'[j] \ blind'[j] = {at[j]}
      BY <1>a, <2>1, <2>4 DEF CancelInv
    <3> QED
      BY <1>a, <2>4, <3>1 DEF CancelInv
  <2> QED
    BY <1>b, <2>1, <2>2, <2>3, <2>4, <2>6, <2>7, <2>8, PersistKeeps DEF WorkerInv, Pc
<1>6. CASE ReconcileItem(j)
  <2>1. PICK o \in Outcomes :
          Saves(j, [job[j] EXCEPT !.items[at[j]] = o, !.failed = @ + FailedBy(o)])
    BY <1>6 DEF ReconcileItem, Outcomes
  <2> DEFINE q == [job[j] EXCEPT !.items[at[j]] = o, !.failed = @ + FailedBy(o)]
  <2>2. pc[j] = "reconcile" /\ at[j] <= Total(j) /\ at[j] \in DOMAIN list
    BY <1>6, <1>b, <1>c DEF ReconcileItem, Progress
  <2>3. /\ q \in Copy /\ q.status = job[j].status /\ Saves(j, q)
        /\ q.items = [list EXCEPT ![at[j]] = o]
        /\ q.failed = Cardinality(With(q.items, "failed"))
    BY <1>a, <1>b, <2>1, <2>2, SetOutcome
  <2> HIDE DEF q
  <2>4. /\ job'[j] = q /\ pc'[j] = "check" /\ UNCHANGED <<expired, late, blind, env>>
        /\ UNCHANGED cancelRequested /\ at'[j] = at[j] + 1
    BY <1>6, <1>a, <2>3, Written DEF ReconcileItem, Goto, TypeOK
  <2>5. Progress(j)'
    <3>1. /\ DOMAIN q.items = DOMAIN list /\ q.items[at[j]] = o
          /\ \A i \in DOMAIN list : i # at[j] => q.items[i] = list[i]
      BY <1>a, <2>2, <2>3
    <3>2. Total(j)' = Total(j)
      BY <2>4, <3>1 DEF Total
    <3>3. \A i \in DOMAIN list :
            /\ i < at[j] + 1 => q.items[i] \in Outcomes
            /\ i > at[j] => q.items[i] = "pending"
      BY <1>b, <1>c, <3>1 DEF Progress
    <3> QED
      BY <1>c, <2>2, <2>4, <3>1, <3>2, <3>3 DEF Progress
  <2>6. CancelInv(j)'
    BY <1>a, <2>4 DEF CancelInv
  <2> QED
    BY <1>b, <2>2, <2>3, <2>4, <2>5, <2>6, PersistKeeps DEF WorkerInv, Pc
<1>7. CASE Complete(j)
  <2>1. at[j] = Total(j) + 1 /\ Finish(j, FinalStatus(j))
    BY <1>7, <1>c DEF Complete, AllDone
  <2>2. With(list, "pending") = {} /\ With(list, "running") = {}
    BY <1>b, <1>c, <2>1 DEF With, Progress, Outcomes
  <2>3. FinalStatus(j) = "failed" => With(list, "failed") = DOMAIN list
    BY <1>a, <1>b, AllWith DEF FinalStatus, WorkerInv, Total
  <2>4. FinalStatus(j) = "completed" /\ DOMAIN list # {} =>
          With(list, "failed") # DOMAIN list
    <3>1. ASSUME DOMAIN list # {}, With(list, "failed") = DOMAIN list
          PROVE  FinalStatus(j) = "failed"
      <4>1. job[j].failed = Total(j)
        BY <1>b, <3>1 DEF WorkerInv, Total
      <4>2. Total(j) > 0
        BY <1>c, <3>1
      <4> QED
        BY <4>1, <4>2 DEF FinalStatus
    <3> QED
      BY <3>1
  <2>5. FinalStatus(j) \in {"completed", "cancelled", "failed"}
    BY DEF FinalStatus
  <2> QED
    BY <1>b, <2>1, <2>2, <2>3, <2>4, <2>5, FinishKeeps
<1> QED
  BY <1>0, <1>1, <1>2, <1>3, <1>4, <1>5, <1>6, <1>7 DEF Work

LEMMA OutsideKeeps ==
  ASSUME IInv, NEW j \in Jobs, Outside(j)
  PROVE  JobInv(j)'
<1>a. /\ TypeOK /\ JobInv(j) /\ RowInv(j) /\ CancelInv(j) /\ AbsentInv(j)
      /\ restarts \in Nat
  BY RestartsNat DEF IInv, JobInv
<1>1. CASE Start(j)
  <2>1. PICK list \in ItemLists :
          /\ \A i \in DOMAIN list : list[i] = "pending"
          /\ items'[j] = list /\ job'[j] = [NoJob EXCEPT !.items = list]
          /\ job'[j] \in Copy
    <3>1. PICK n \in 0 .. MaxDomains :
           LET list == [i \in 1 .. n |-> "pending"] IN
           /\ list \in ItemLists
           /\ items' = [items EXCEPT ![j] = list]
           /\ job' = [job EXCEPT ![j] = [NoJob EXCEPT !.items = list]]
           /\ [NoJob EXCEPT !.items = list] \in Copy
      BY <1>1, <1>a, Started
    <3> DEFINE list == [i \in 1 .. n |-> "pending"]
    <3>2. \A i \in DOMAIN list : list[i] = "pending"
      OBVIOUS
    <3>3. items'[j] = list /\ job'[j] = [NoJob EXCEPT !.items = list]
      BY <1>a, <3>1, CopyTyped DEF TypeOK
    <3> HIDE DEF list
    <3> QED
      BY <3>1, <3>2, <3>3 DEF list
  <2>2. job'[j].status = "queued" /\ job'[j].items = list /\ job'[j].failed = 0
    BY <2>1 DEF NoJob
  <2>3. /\ status[j] = "absent" /\ status'[j] = "queued" /\ pc'[j] = "begin"
        /\ UNCHANGED <<cancelRequested, failed, at, expired, late, blind, restarts>>
    BY <1>1, <1>a DEF Start, Goto, TypeOK, env
  <2>4. at[j] = 1 /\ late[j] = {} /\ failed[j] = 0
    BY <1>a, <2>3 DEF AbsentInv
  <2>5. Cardinality(With(list, "failed")) = 0
    <3>1. With(list, "failed") = {}
      BY <2>1 DEF With
    <3> QED
      BY <3>1, FS_EmptySet
  <2>6. Progress(j)'
    <3>1. /\ Cardinality(DOMAIN list) \in Nat
          /\ DOMAIN list = 1 .. Cardinality(DOMAIN list)
      BY ListLength, DomainsAssumption
    <3>2. Total(j)' = Cardinality(DOMAIN list)
      BY <2>2 DEF Total
    <3> QED
      BY <2>1, <2>2, <2>3, <2>4, <3>1, <3>2 DEF Progress
  <2>7. WorkerInv(j)'
    BY <2>1, <2>2, <2>3, <2>4, <2>5, <2>6 DEF WorkerInv
  <2>8. RowInv(j)'
    BY <2>1, <2>3, <2>4, <2>5 DEF RowInv
  <2>9. AbsentInv(j)' /\ CancelInv(j)'
    BY <1>a, <2>3 DEF AbsentInv, CancelInv
  <2> QED
    BY <2>7, <2>8, <2>9 DEF JobInv
<1>2. CASE CancelSyncJob(j)
  <2>1. /\ UNCHANGED <<status, items, failed, job, pc, at, expired, late, blind,
                       restarts>>
        /\ cancelRequested'[j] = TRUE
    BY <1>2, <1>a DEF CancelSyncJob, env, TypeOK
  <2>2. Live(j)' = Live(j) /\ (WorkerInv(j) => WorkerInv(j)')
    BY <2>1 DEF Live, WorkerInv, Progress, Total
  <2>3. RowInv(j)' /\ AbsentInv(j)' /\ CancelInv(j)'
    BY <1>a, <2>1 DEF RowInv, AbsentInv, CancelInv
  <2> QED
    BY <1>a, <2>2, <2>3 DEF JobInv
<1>3. CASE Expire(j)
  <2>1. UNCHANGED <<row, job, pc, at, late, blind, restarts>>
    BY <1>3, <1>a DEF Expire, env, TypeOK
  <2>2. Live(j)' = Live(j) /\ (WorkerInv(j) => WorkerInv(j)')
    BY <2>1 DEF Live, WorkerInv, Progress, Total, row
  <2>3. RowInv(j)' /\ AbsentInv(j)' /\ CancelInv(j)'
    BY <1>a, <2>1 DEF RowInv, AbsentInv, CancelInv, row
  <2> QED
    BY <1>a, <2>2, <2>3 DEF JobInv
<1> QED
  BY <1>1, <1>2, <1>3 DEF Outside

\* A restart ends every goroutine; the recovery fails what it left unfinished,
\* and a job submitted meanwhile.
LEMMA ProcessKeeps ==
  ASSUME IInv, Restart \/ Recover, NEW j \in Jobs
  PROVE  JobInv(j)'
<1>a. /\ TypeOK /\ JobInv(j) /\ RowInv(j) /\ CancelInv(j) /\ AbsentInv(j)
      /\ restarts \in Nat
  BY RestartsNat DEF IInv, JobInv
<1>1. CASE Restart
  <2>1. /\ pc'[j] = "dead" /\ UNCHANGED <<row, at, expired, late, blind>>
        /\ restarts' = restarts + 1
    BY <1>1 DEF Restart
  <2>2. RowInv(j)'
    BY <1>a, <2>1 DEF RowInv, row
  <2>3. AbsentInv(j)' /\ CancelInv(j)'
    BY <1>a, <2>1 DEF AbsentInv, CancelInv, row
  <2> QED
    BY <2>1, <2>2, <2>3 DEF JobInv, Live
<1>2. CASE Recover
  <2>1. /\ restarts > 0 /\ restarts' = restarts
        /\ UNCHANGED <<cancelRequested, items, failed, job, pc, at, expired, late, blind>>
        /\ \/ status'[j] = status[j]
           \/ status[j] \in Unfinished /\ status'[j] = "failed"
    BY <1>2 DEF Recover, Recoverable, IInv
  <2>2. Live(j)' = Live(j) /\ (WorkerInv(j) => WorkerInv(j)')
    BY <2>1 DEF Live, WorkerInv, Progress, Total
  <2>3. RowInv(j)'
    BY <1>a, <2>1 DEF RowInv
  <2>4. AbsentInv(j)' /\ CancelInv(j)'
    BY <1>a, <2>1 DEF AbsentInv, CancelInv
  <2> QED
    BY <1>a, <2>2, <2>3, <2>4 DEF JobInv
<1> QED
  BY <1>1, <1>2

LEMMA InitInv == Init => IInv
<1> SUFFICES ASSUME Init PROVE IInv
  OBVIOUS
<1>1. ASSUME NEW j \in Jobs PROVE JobInv(j)
  <2>1. /\ status[j] = "absent" /\ late[j] = {} /\ pc[j] = "dead" /\ at[j] = 1
        /\ failed[j] = 0 /\ items[j] = << >>
    BY DEF Init
  <2>2. DOMAIN items[j] = {}
    BY <2>1
  <2>3. With(items[j], "failed") = {}
    BY <2>2 DEF With
  <2>4. Cardinality({}) = 0
    BY FS_EmptySet
  <2>5. RowInv(j)
    BY <2>1, <2>3, <2>4 DEF RowInv
  <2>6. CancelInv(j) /\ AbsentInv(j)
    BY <2>1, <2>4 DEF CancelInv, AbsentInv
  <2> QED
    BY <2>1, <2>5, <2>6 DEF JobInv, Live
<1> QED
  BY <1>1, InitTyped DEF IInv, Init

LEMMA StepInv == IInv /\ [Next]_vars => IInv'
<1> SUFFICES ASSUME IInv, [Next]_vars PROVE IInv'
  OBVIOUS
<1>t. /\ TypeOK /\ \A k \in Jobs : JobInv(k) /\ (Live(k) => WorkerInv(k))
      /\ recovering => restarts > 0
      /\ restarts \in Nat
  BY RestartsNat DEF IInv, JobInv
<1>e. ASSUME UNCHANGED env PROVE (recovering => restarts > 0)'
  BY <1>e, <1>t DEF env
<1>1. ASSUME NEW j \in Jobs, Work(j) PROVE IInv'
  <2>1. UNCHANGED env
    BY <1>1, <1>t, WorkWrites DEF Wrote
  <2> QED
    BY <1>1, <1>t, <1>e, <2>1, WorkTyped, WorkKeeps, OthersKeep DEF IInv
<1>2. ASSUME NEW j \in Jobs, Outside(j) PROVE IInv'
  <2>1. UNCHANGED env
    BY <1>2 DEF Outside, Start, CancelSyncJob, Expire
  <2> QED
    BY <1>2, <1>t, <1>e, <2>1, OutsideTyped, OutsideKeeps, OthersKeep DEF IInv
<1>3. CASE Restart \/ Recover
  <2>1. (recovering => restarts > 0)'
    BY <1>3, <1>t DEF Restart, Recover
  <2> QED
    BY <1>3, <1>t, <2>1, ProcessTyped, ProcessKeeps DEF IInv
<1>4. CASE UNCHANGED vars
  <2>1. ASSUME NEW k \in Jobs PROVE JobInv(k)'
    BY <1>4, <1>t, Frame DEF vars, row, env
  <2>2. TypeOK'
    BY <1>4, <1>t DEF TypeOK, vars, row, env
  <2> QED
    BY <1>4, <1>e, <2>1, <2>2 DEF IInv, vars
<1> QED
  BY <1>1, <1>2, <1>3, <1>4 DEF Next, Outside

LEMMA AlwaysInv == Spec => []IInv
BY InitInv, StepInv, PTL DEF Spec

-----------------------------------------------------------------------------
(* What the sync job guarantees                                            *)

\* Every variable of the sync job keeps its type through any number of
\* deadlines, cancels and restarts.
THEOREM TypeCorrect == Spec => []TypeOK
<1>1. IInv => TypeOK
  BY DEF IInv
<1> QED
  BY <1>1, AlwaysInv, PTL

\* What a poller reads adds up at every moment, and a cancel lets at most the
\* item whose check had passed be synced, besides those whose check could not
\* be made.
THEOREM RowAlwaysTrue == Spec => []RowIsTrue
<1>1. IInv => PolledRowAddsUp
  BY DEF IInv, JobInv, RowInv, PolledRowAddsUp, ItemsAt, With
<1>2. IInv => CancelStopsWork
  <2> SUFFICES ASSUME IInv, NEW j \in Jobs
               PROVE  Cardinality(late[j] \ blind[j]) <= 1
    BY DEF CancelStopsWork
  <2>1. PICK x : late[j] \ blind[j] \subseteq {x}
    BY DEF IInv, JobInv, CancelInv
  <2>2. late[j] \ blind[j] = {} \/ late[j] \ blind[j] = {x}
    BY <2>1
  <2>3. Cardinality({}) = 0 /\ Cardinality({x}) = 1
    BY FS_EmptySet, FS_Singleton
  <2> QED
    BY <2>2, <2>3
<1> QED
  BY <1>1, <1>2, AlwaysInv, PTL DEF RowIsTrue

\* The sync job, step by step, is a job of the abstract lifecycle: a deadline
\* makes its goroutine give up, and the recovery fails only unfinished rows.
THEOREM SyncImplementsLifecycle == Spec => Lifecycle!SafeSpec
<1>1. Init => Lifecycle!Init
  <2> SUFFICES ASSUME Init PROVE Lifecycle!Init
    OBVIOUS
  <2>1. \A j \in Jobs : Live(j) = FALSE
    BY DEF Init, Live
  <2> QED
    BY <2>1 DEF Init, Lifecycle!Init
<1>2. IInv /\ [Next]_vars => [Lifecycle!Next]_Lifecycle!vars
  <2> SUFFICES ASSUME IInv, [Next]_vars PROVE [Lifecycle!Next]_Lifecycle!vars
    OBVIOUS
  <2>a. /\ TypeOK /\ pc \in [Jobs -> Pc] /\ status \in [Jobs -> Lifecycle!Status]
    BY DEF IInv, TypeOK, Pc
  <2>s. ASSUME UNCHANGED status, \A k \in Jobs : Live(k)' = Live(k)
        PROVE  UNCHANGED Lifecycle!vars
    BY <2>s DEF Lifecycle!vars
  <2>d. ASSUME NEW S \in SUBSET Jobs, UNCHANGED status,
               \A k \in Jobs : Live(k)' = (Live(k) /\ k \notin S)
        PROVE  Lifecycle!Die
    BY <2>d DEF Lifecycle!Die
  <2>1. ASSUME NEW j \in Jobs, Start(j) PROVE Lifecycle!Submit(j)
    <3>1. \A k \in Jobs : Live(k)' = IF k = j THEN TRUE ELSE Live(k)
      BY <2>1, <2>a DEF Start, Goto, Live
    <3> QED
      BY <2>1, <3>1 DEF Start, Lifecycle!Submit
  <2>m. ASSUME NEW j \in Jobs, Live(j), NEW l \in Pc \ {"dead"}, Goto(j, l)
        PROVE  \A k \in Jobs : Live(k)' = Live(k)
    BY <2>m, <2>a DEF Goto, Live
  <2>e. ASSUME NEW j \in Jobs, Live(j), Goto(j, "dead")
        PROVE  \A k \in Jobs : Live(k)' = (Live(k) /\ k \notin {j})
    BY <2>e, <2>a DEF Goto, Live
  <2>r. ASSUME NEW j \in Jobs, Live(j), NEW l \in Pc \ {"dead"}, Goto(j, l),
               NEW q \in Copy, q.status = "running", Saves(j, q)
        PROVE  Lifecycle!Report(j) \/ UNCHANGED Lifecycle!vars
    BY <2>a, <2>r, <2>m, <2>s, Written DEF Lifecycle!Report
  <2>f. ASSUME NEW j \in Jobs, Live(j), NEW s \in {"completed", "cancelled", "failed"},
               Finish(j, s)
        PROVE  Lifecycle!End(j) \/ Lifecycle!Die
    <3> DEFINE q == [job[j] EXCEPT !.status = s]
    <3>1. q \in Copy /\ q.status = s
      BY <2>a, Statuses, SetStatus
    <3>2. Saves(j, q) /\ Goto(j, "dead")
      BY <2>f, FinishSaves
    <3> HIDE DEF q
    <3>3. \A k \in Jobs : Live(k)' = (Live(k) /\ k \notin {j})
      BY <2>e, <2>f, <3>2
    <3>4. CASE UNCHANGED status
      BY <2>d, <3>3, <3>4
    <3>5. CASE status' = [status EXCEPT ![j] = s]
      <4>2. \A k \in Jobs : Live(k)' = IF k = j THEN FALSE ELSE Live(k)
        BY <3>3 DEF Live
      <4> QED
        BY <2>f, <3>5, <4>2 DEF Lifecycle!End, Lifecycle!Terminal
    <3> QED
      BY <2>a, <3>1, <3>2, <3>4, <3>5, Written
  <2>w. ASSUME NEW j \in Jobs, Work(j) PROVE Live(j) /\ WorkerInv(j)
    BY <2>w, WorkWrites DEF IInv, JobInv
  <2>2. ASSUME NEW j \in Jobs, Begin(j) \/ MarkRunning(j)
        PROVE  Lifecycle!Report(j) \/ Lifecycle!Die \/ UNCHANGED Lifecycle!vars
    <3>1. Live(j)
      BY <2>2 DEF Begin, MarkRunning, Live
    <3>2. CASE Begin(j)
      <4>1. UNCHANGED status /\ (Goto(j, "dead") \/ Goto(j, "mark"))
        BY <3>2 DEF Begin, row
      <4>2. CASE Goto(j, "dead")
        <5>1. \A k \in Jobs : Live(k)' = (Live(k) /\ k \notin {j})
          BY <2>e, <3>1, <4>2
        <5> QED
          BY <2>d, <4>1, <5>1
      <4>3. CASE Goto(j, "mark")
        BY <2>m, <2>s, <3>1, <4>1, <4>3 DEF Pc
      <4> QED
        BY <4>1, <4>2, <4>3
    <3>3. CASE Saves(j, [job[j] EXCEPT !.status = "running"]) /\ Goto(j, "provider")
      <4>1. /\ [job[j] EXCEPT !.status = "running"] \in Copy
            /\ [job[j] EXCEPT !.status = "running"].status = "running"
        BY <2>a, Statuses, SetStatus
      <4> QED
        BY <2>r, <3>1, <3>3, <4>1 DEF Pc
    <3> QED
      BY <2>2, <3>2, <3>3 DEF MarkRunning
  <2>3. ASSUME NEW j \in Jobs, Provider(j) \/ CheckCancel(j)
        PROVE  Lifecycle!End(j) \/ Lifecycle!Die \/ UNCHANGED Lifecycle!vars
    <3>1. Live(j)
      BY <2>3 DEF Provider, CheckCancel, Live
    <3>2. \/ Finish(j, "failed")
          \/ UNCHANGED status /\ \E l \in {"check", "cancel", "start"} : Goto(j, l)
      BY <2>3 DEF Provider, CheckCancel, row
    <3> QED
      BY <2>f, <2>m, <2>s, <3>1, <3>2 DEF Pc
  <2>4. ASSUME NEW j \in Jobs, StartItem(j)
        PROVE  Lifecycle!Report(j) \/ UNCHANGED Lifecycle!vars
    <3> DEFINE q == [job[j] EXCEPT !.items[at[j]] = "running"]
    <3>1. Live(j) /\ at[j] <= Total(j) /\ job[j].status = "running"
      BY <2>4, <2>w DEF Work, StartItem, WorkerInv, Progress
    <3>2. q \in Copy /\ q.status = "running"
      BY <2>a, <3>1, SetRunning
    <3>3. Saves(j, q) /\ Goto(j, "reconcile")
      BY <2>4 DEF StartItem
    <3> HIDE DEF q
    <3> QED
      BY <2>r, <3>1, <3>2, <3>3 DEF Pc
  <2>5. ASSUME NEW j \in Jobs, ReconcileItem(j)
        PROVE  Lifecycle!Report(j) \/ UNCHANGED Lifecycle!vars
    <3>1. PICK o \in Outcomes :
            Saves(j, [job[j] EXCEPT !.items[at[j]] = o, !.failed = @ + FailedBy(o)])
      BY <2>5 DEF ReconcileItem, Outcomes
    <3> DEFINE q == [job[j] EXCEPT !.items[at[j]] = o, !.failed = @ + FailedBy(o)]
    <3>2. /\ Live(j) /\ WorkerInv(j) /\ at[j] <= Total(j) /\ pc[j] = "reconcile"
          /\ job[j].status = "running" /\ Goto(j, "check")
      BY <2>5, <2>w DEF Work, ReconcileItem, WorkerInv, Progress
    <3>3. q \in Copy /\ q.status = "running" /\ Saves(j, q)
      BY <2>a, <3>1, <3>2, SetOutcome
    <3> HIDE DEF q
    <3> QED
      BY <2>r, <3>2, <3>3 DEF Pc
  <2>6. ASSUME NEW j \in Jobs, StopCancelled(j) \/ Complete(j)
        PROVE  Lifecycle!End(j) \/ Lifecycle!Die
    <3>1. Live(j) /\ \E s \in {"completed", "cancelled", "failed"} : Finish(j, s)
      BY <2>6 DEF StopCancelled, Complete, FinalStatus, Live
    <3> QED
      BY <2>f, <3>1
  <2>7. ASSUME NEW j \in Jobs, CancelSyncJob(j) \/ Expire(j)
        PROVE  UNCHANGED Lifecycle!vars
    BY <2>7, <2>s DEF CancelSyncJob, Expire, row, Live
  <2>8. CASE Restart
    <3>1. UNCHANGED status /\ \A k \in Jobs : Live(k)' = (Live(k) /\ k \notin Jobs)
      BY <2>8 DEF Restart, row, Live
    <3> QED
      BY <3>1, <2>d DEF Lifecycle!Next
  <2>9. CASE Recover
    <3>1. \A k \in Jobs : Live(k)' = Live(k)
      BY <2>9 DEF Recover, Live
    <3> DEFINE S == {j \in Jobs : Recoverable(j)}
    <3>2. S \in SUBSET {j \in Jobs : Lifecycle!Failable(j)}
      BY DEF Recoverable, Unfinished, Lifecycle!Failable, Lifecycle!Unfinished
    <3>3. \/ status' = [j \in Jobs |-> IF j \in S THEN "failed" ELSE status[j]]
          \/ UNCHANGED status
      BY <2>9 DEF Recover
    <3> HIDE DEF S
    <3> QED
      BY <2>s, <3>1, <3>2, <3>3 DEF Lifecycle!Recover, Lifecycle!Next
  <2>10. CASE UNCHANGED vars
    BY <2>10, <2>s DEF vars, row, Live
  <2> QED
    BY <2>1, <2>2, <2>3, <2>4, <2>5, <2>6, <2>7, <2>8, <2>9, <2>10
       DEF Next, Work, Lifecycle!Next
<1> QED
  BY <1>1, <1>2, AlwaysInv, PTL DEF Spec, Lifecycle!SafeSpec

\* A poller that sees a terminal status of a sync whose goroutine has ended has
\* the final word: no later restart or recovery changes it.
THEOREM SettledStaysSettled == Spec => Lifecycle!SettledForGood
<1> DEFINE Stays(j) == Lifecycle!Settled(j) =>
                         Lifecycle!Settled(j)' /\ status'[j] = status[j]
<1>1. IInv /\ [Lifecycle!Next]_Lifecycle!vars => \A j \in Jobs : Stays(j)
  <2> SUFFICES ASSUME IInv, [Lifecycle!Next]_Lifecycle!vars, NEW j \in Jobs,
                      ~Live(j), status[j] \in Lifecycle!Terminal
               PROVE  ~Live(j)' /\ status'[j] = status[j]
    BY DEF Lifecycle!Settled
  <2>a. status \in [Jobs -> Lifecycle!Status]
    BY DEF IInv, TypeOK
  <2> USE DEF Live, Lifecycle!Terminal
  <2>1. ASSUME NEW k \in Jobs,
               Lifecycle!Submit(k) \/ Lifecycle!Report(k) \/ Lifecycle!End(k)
        PROVE  ~Live(j)' /\ status'[j] = status[j]
    BY <2>1, <2>a DEF Lifecycle!Submit, Lifecycle!Report, Lifecycle!End
  <2>2. CASE Lifecycle!Die
    BY <2>2 DEF Lifecycle!Die
  <2>3. CASE Lifecycle!Recover
    BY <2>3 DEF Lifecycle!Recover, Lifecycle!Failable, Lifecycle!Unfinished
  <2>4. CASE UNCHANGED Lifecycle!vars
    BY <2>4 DEF Lifecycle!vars
  <2> QED
    BY <2>1, <2>2, <2>3, <2>4 DEF Lifecycle!Next
<1> QED
  BY <1>1, AlwaysInv, SyncImplementsLifecycle, PTL
     DEF Lifecycle!SafeSpec, Lifecycle!SettledForGood

-----------------------------------------------------------------------------
(* CfRecordSync.  RecordInv joins three arguments.  The goroutines begin   *)
(* in the order of their numbers and there are enough numbers (Numbered).  *)
(* Until two syncs overlap, what one has listed is still Cloudflare's, and *)
(* the rest of its plan can be carried out (SyncsInv).  And an edit no     *)
(* sync has read is on its way to one, while a value that was read is in   *)
(* Cloudflare for good or in the plan (CaughtUp).  First, what a plan is.  *)

\* Whatever order the values come in, a set of them has one ascending
\* enumeration: every value once.
LEMMA AscendingExists ==
  ASSUME NEW S, S \subseteq Values
  PROVE  \E s \in SetToSeqs(S) : \A i, j \in DOMAIN s : i < j => s[i] < s[j]
<1> DEFINE below(x) == {y \in S : y <= x}
           rank == [x \in S |-> Cardinality(below(x))]
           n == Cardinality(S)
<1>1. S \subseteq Int /\ IsFiniteSet(S) /\ n \in Nat
  BY ValuesAssumption, FS_Subset, FS_CardinalityType
<1>2. ASSUME NEW v \in S PROVE IsFiniteSet(below(v)) /\ rank[v] \in 1 .. n
  <2>1. below(v) \subseteq S /\ v \in below(v)
    BY <1>1
  <2>2. IsFiniteSet(below(v)) /\ Cardinality(below(v)) <= n
    BY <1>1, <2>1, FS_Subset
  <2>3. Cardinality(below(v)) \in Nat /\ Cardinality(below(v)) # 0
    BY <2>1, <2>2, FS_EmptySet, FS_CardinalityType
  <2> QED
    BY <1>1, <2>2, <2>3
<1>3. ASSUME NEW v \in S, NEW w \in S, v < w PROVE rank[v] < rank[w]
  <2>0. v \in Int /\ w \in Int /\ \A u \in S : u \in Int
    BY <1>1
  <2>5. \A y \in S : y <= v => y <= w
    BY <1>3, <2>0
  <2>6. w <= w /\ ~(w <= v)
    BY <1>3, <2>0
  <2>1. below(v) \subseteq below(w) /\ w \in below(w) /\ w \notin below(v)
    BY <2>5, <2>6
  <2>2. Cardinality(below(v)) <= Cardinality(below(w))
    BY <1>2, <2>1, FS_Subset
  <2>3. Cardinality(below(v)) # Cardinality(below(w))
    BY <1>2, <2>1, FS_Subset
  <2>4. Cardinality(below(v)) \in Nat /\ Cardinality(below(w)) \in Nat
    BY <1>2, FS_CardinalityType
  <2> QED
    BY <2>2, <2>3, <2>4
<1> HIDE DEF rank
<1>4. rank \in [S -> 1 .. n]
  BY <1>2 DEF rank
<1>5. \A v, w \in S : rank[v] = rank[w] => v = w
  <2> SUFFICES ASSUME NEW v \in S, NEW w \in S, v < w PROVE rank[v] # rank[w]
    BY <1>1
  <2>1. rank[v] \in Int /\ rank[w] \in Int
    BY <1>1, <1>4
  <2> QED
    BY <1>3, <2>1
<1>6. rank \in Injection(S, 1 .. n)
  BY <1>4, <1>5 DEF Injection, IsInjective
<1>7. IsFiniteSet(1 .. n) /\ Cardinality(1 .. n) = n
  <2>1. Cardinality(1 .. n) = IF 1 > n THEN 0 ELSE n - 1 + 1
    BY <1>1, FS_Interval
  <2> QED
    BY <1>1, <2>1, FS_Interval
<1>8. \A i \in 1 .. n : \E v \in S : rank[v] = i
  <2>1. rank \in Surjection(S, 1 .. n)
    BY <1>6, <1>7, FS_Injection
  <2> QED
    BY <2>1 DEF Surjection
<1> DEFINE s == [i \in 1 .. n |-> CHOOSE v \in S : rank[v] = i]
<1>9. \A i \in 1 .. n : s[i] \in S /\ rank[s[i]] = i
  BY <1>8
<1>10. DOMAIN s = 1 .. n /\ s \in [1 .. n -> S]
  BY <1>9
<1> HIDE DEF s
<1>11. \A i, j \in 1 .. n : i < j => s[i] < s[j]
  <2> SUFFICES ASSUME NEW i \in 1 .. n, NEW j \in 1 .. n, i < j PROVE s[i] < s[j]
    OBVIOUS
  <2>1. s[i] \in S /\ s[j] \in S /\ s[i] \in Int /\ s[j] \in Int
    BY <1>1, <1>9
  <2>2. s[i] # s[j]
    BY <1>9
  <2>3. ~(s[j] < s[i])
    BY <1>3, <1>9, <2>1
  <2> QED
    BY <2>1, <2>2, <2>3
<1>12. \A i, j \in 1 .. n : i # j => s[i] # s[j]
  BY <1>9
<1>13. s \in SetToSeqs(S)
  BY <1>10, <1>12 DEF SetToSeqs
<1> QED
  BY <1>10, <1>11, <1>13

LEMMA AscendingEnumerates ==
  ASSUME NEW S, S \subseteq Values
  PROVE  /\ Cardinality(S) \in Nat
         /\ Ascending(S) \in [1 .. Cardinality(S) -> S]
         /\ \A i, j \in 1 .. Cardinality(S) : Ascending(S)[i] = Ascending(S)[j] => i = j
         /\ \A v \in S : \E i \in 1 .. Cardinality(S) : Ascending(S)[i] = v
         /\ Ascending(S) \in Seq(S) /\ Len(Ascending(S)) = Cardinality(S)
<1> DEFINE s == Ascending(S)
           n == Cardinality(S)
<1>1. IsFiniteSet(S) /\ n \in Nat
  BY ValuesAssumption, FS_Subset, FS_CardinalityType
<1>2. s \in SetToSeqs(S)
  BY AscendingExists DEF Ascending
<1>3. s \in [1 .. n -> S] /\ \A i, j \in 1 .. n : i # j => s[i] # s[j]
  BY <1>2 DEF SetToSeqs
<1>4. IsFiniteSet(1 .. n) /\ Cardinality(1 .. n) = n
  <2>1. Cardinality(1 .. n) = IF 1 > n THEN 0 ELSE n - 1 + 1
    BY <1>1, FS_Interval
  <2> QED
    BY <1>1, <2>1, FS_Interval
<1> HIDE DEF s
<1>5. s \in Injection(1 .. n, S)
  BY <1>3 DEF Injection, IsInjective
<1>6. s \in Surjection(1 .. n, S)
  BY <1>1, <1>4, <1>5, FS_Injection
<1>7. \A v \in S : \E i \in 1 .. n : s[i] = v
  BY <1>6 DEF Surjection
<1>8. s \in Seq(S) /\ Len(s) = n
  BY <1>1, <1>3
<1> QED
  BY <1>1, <1>3, <1>7, <1>8 DEF s

LEMMA Joined ==
  ASSUME NEW s \in Seq(Ops), NEW t \in Seq(Ops)
  PROVE  /\ s \o t \in Seq(Ops) /\ Len(s \o t) = Len(s) + Len(t)
         /\ \A i \in 1 .. Len(s) + Len(t) :
              (s \o t)[i] = IF i <= Len(s) THEN s[i] ELSE t[i - Len(s)]
OBVIOUS

LEMMA Suffix ==
  ASSUME NEW S, NEW s \in Seq(S), NEW n, n = Len(s), NEW u \in 0 .. n
  PROVE  /\ SubSeq(s, u + 1, n) \in Seq(S)
         /\ Len(SubSeq(s, u + 1, n)) = n - u
         /\ \A i \in 1 .. n - u : SubSeq(s, u + 1, n)[i] = s[u + i]
<1>1. \A i \in u + 1 .. n : s[i] \in S
  BY ElementOfSeq
<1> QED
  BY <1>1, SubSeqProperties

-----------------------------------------------------------------------------
(* What a sync plans                                                       *)

\* A plan is a run of updates, one of creates and one of deletes: the missing
\* values in their order, the first of them over the extra values, and deletes
\* of extra values that no update takes.
PlanIs(p, lv, V, cv, deletes, u, c, d, dropped) ==
  LET missing == Ascending(lv \ V)
      extra == Ascending(V \ lv)
  IN
  /\ p \in Seq(Ops) /\ Len(p) = u + c + d
  /\ u + c = Cardinality(lv \ V) /\ u <= Cardinality(V \ lv)
  /\ \A i \in 1 .. u : p[i] = Op("update", missing[i], cv[extra[i]])
  /\ \A i \in u + 1 .. u + c : p[i] = Op("create", missing[i], 0)
  /\ \A i \in u + c + 1 .. u + c + d :
       p[i] = Op("delete", dropped[i - u - c], cv[dropped[i - u - c]])
  /\ dropped \in [1 .. d -> V \ lv]
  /\ \A i \in 1 .. d : /\ deletes /\ dropped[i] \notin MailValues
                       /\ \A j \in 1 .. u : dropped[i] # extra[j]
  /\ \A i, j \in 1 .. d : dropped[i] = dropped[j] => i = j
  /\ deletes => \A j \in u + 1 .. Cardinality(V \ lv) :
       extra[j] \in MailValues \/ \E i \in 1 .. d : dropped[i] = extra[j]

LEMMA PlanShape ==
  ASSUME NEW lv, lv \subseteq Values, NEW V, V \subseteq Values,
         NEW cv \in [V -> Nat], NEW deletes \in BOOLEAN
  PROVE  \E u, c, d \in Nat : \E dropped :
           PlanIs(Plan(lv, cv, deletes), lv, V, cv, deletes, u, c, d, dropped)
<1> DEFINE missing == Ascending(lv \ V)
           extra == Ascending(V \ lv)
           m == Cardinality(lv \ V)
           x == Cardinality(V \ lv)
           u == IF Len(missing) < Len(extra) THEN Len(missing) ELSE Len(extra)
           created == SubSeq(missing, FirstCreate(u), Len(missing))
           rest == {extra[i] : i \in u + 1 .. Len(extra)}
           gone == {v \in rest : deletes /\ Leftover(v)}
           dropped == Ascending(gone)
           d == Cardinality(gone)
           A == [i \in 1 .. u |-> Op("update", missing[i], cv[extra[i]])]
           B == [i \in DOMAIN created |-> Op("create", created[i], 0)]
           C == [i \in DOMAIN dropped |-> Op("delete", dropped[i], cv[dropped[i]])]
<1>1. Plan(lv, cv, deletes) = (A \o B) \o C
  BY DEF Plan
<1>2. /\ m \in Nat /\ missing \in [1 .. m -> lv \ V] /\ Len(missing) = m
      /\ missing \in Seq(lv \ V)
  BY AscendingEnumerates
<1>3. /\ x \in Nat /\ extra \in [1 .. x -> V \ lv] /\ Len(extra) = x
      /\ \A i, j \in 1 .. x : extra[i] = extra[j] => i = j
  BY AscendingEnumerates
<1> HIDE DEF missing, extra, m, x
<1>4. /\ u \in Nat /\ u <= m /\ u <= x /\ u \in 0 .. m
      /\ FirstCreate(u) = u + 1
  BY <1>2, <1>3 DEF FirstCreate
<1> HIDE DEF u
<1>5. rest \subseteq V \ lv
  BY <1>3, <1>4
<1>6. \A v \in gone : /\ deletes /\ v \notin MailValues
                      /\ \A j \in 1 .. u : v # extra[j]
  <2> SUFFICES ASSUME NEW i \in u + 1 .. x, deletes, Leftover(extra[i]),
                      NEW j \in 1 .. u
               PROVE  extra[i] \notin MailValues /\ extra[i] # extra[j]
    BY <1>3 DEF Leftover
  <2>1. i \in 1 .. x /\ j \in 1 .. x /\ i # j
    BY <1>3, <1>4
  <2> QED
    BY <1>3, <2>1 DEF Leftover
<1>7. gone \subseteq V \ lv /\ gone \subseteq Values
  BY <1>5
<1>8. /\ d \in Nat /\ dropped \in [1 .. d -> gone] /\ DOMAIN dropped = 1 .. d
      /\ \A i, j \in 1 .. d : dropped[i] = dropped[j] => i = j
      /\ \A v \in gone : \E i \in 1 .. d : dropped[i] = v
  BY <1>7, AscendingEnumerates
<1>c. deletes => \A j \in u + 1 .. x :
        extra[j] \in MailValues \/ \E i \in 1 .. d : dropped[i] = extra[j]
  <2> SUFFICES ASSUME deletes, NEW j \in u + 1 .. x, extra[j] \notin MailValues
               PROVE  extra[j] \in gone
    BY <1>8
  <2> QED
    BY <1>3 DEF Leftover
<1>9. /\ DOMAIN created = 1 .. m - u
      /\ \A i \in 1 .. m - u : created[i] = missing[u + i]
  <2>1. created = SubSeq(missing, u + 1, m)
    BY <1>2, <1>4
  <2> HIDE DEF created
  <2>3. /\ created \in Seq(lv \ V) /\ Len(created) = m - u
        /\ \A i \in 1 .. m - u : created[i] = missing[u + i]
    BY <1>2, <1>4, <2>1, Suffix
  <2>4. DOMAIN created = 1 .. Len(created)
    BY <2>3, LenProperties
  <2> QED
    BY <2>3, <2>4
<1> DEFINE c == m - u
<1>10. c \in Nat /\ \A i \in 1 .. c : u + i \in 1 .. m
  BY <1>2, <1>4
<1> HIDE DEF gone, dropped, created, d
<1>11. A \in Seq(Ops) /\ Len(A) = u
  <2>1. \A i \in 1 .. u : A[i] \in Ops
    <3> SUFFICES ASSUME NEW i \in 1 .. u PROVE A[i] \in Ops
      OBVIOUS
    <3>1. i \in 1 .. m /\ i \in 1 .. x
      BY <1>2, <1>3, <1>4
    <3>2. missing[i] \in Values /\ cv[extra[i]] \in Nat
      BY <1>2, <1>3, <3>1
    <3> QED
      BY <3>2 DEF Op, Ops
  <2> QED
    BY <1>4, <2>1
<1>12. /\ B = [i \in 1 .. c |-> Op("create", missing[u + i], 0)]
       /\ B \in Seq(Ops) /\ Len(B) = c
  <2>1. B = [i \in 1 .. c |-> Op("create", missing[u + i], 0)]
    BY <1>9
  <2>2. \A i \in 1 .. c : Op("create", missing[u + i], 0) \in Ops
    <3> SUFFICES ASSUME NEW i \in 1 .. c PROVE Op("create", missing[u + i], 0) \in Ops
      OBVIOUS
    <3>1. missing[u + i] \in Values
      BY <1>2, <1>10
    <3> QED
      BY <3>1 DEF Op, Ops
  <2> HIDE DEF c, B
  <2> QED
    BY <1>10, <2>1, <2>2
<1>13. C \in Seq(Ops) /\ Len(C) = d /\ C = [i \in 1 .. d |-> Op("delete", dropped[i], cv[dropped[i]])]
  <2>1. \A i \in 1 .. d : C[i] \in Ops
    <3> SUFFICES ASSUME NEW i \in 1 .. d PROVE C[i] \in Ops
      OBVIOUS
    <3>1. dropped[i] \in Values /\ cv[dropped[i]] \in Nat
      BY <1>7, <1>8
    <3> QED
      BY <1>8, <3>1 DEF Op, Ops
  <2> QED
    BY <1>8, <2>1
<1>14. \A i \in 1 .. u : A[i] = Op("update", missing[i], cv[extra[i]])
  OBVIOUS
<1>15. \A i \in 1 .. c : B[i] = Op("create", missing[u + i], 0)
  BY <1>12
<1>16. \A i \in 1 .. d : C[i] = Op("delete", dropped[i], cv[dropped[i]])
  BY <1>13
<1> HIDE DEF A, B, C
<1>a. B \in Seq(Ops) /\ Len(B) = c
  BY <1>12
<1>b. c \in Nat
  BY <1>10
<1>e. C \in Seq(Ops) /\ Len(C) = d /\ d \in Nat
  BY <1>8, <1>13
<1>f. u \in Nat
  BY <1>4
<1> HIDE DEF c
<1>17. /\ A \o B \in Seq(Ops) /\ Len(A \o B) = u + c
       /\ \A i \in 1 .. u + c : (A \o B)[i] = IF i <= u THEN A[i] ELSE B[i - u]
  BY <1>11, <1>a, <1>b, <1>f
<1> DEFINE AB == A \o B
           p == AB \o C
<1>g. AB \in Seq(Ops) /\ Len(AB) = u + c
  BY <1>17
<1> HIDE DEF AB
<1>18. /\ p \in Seq(Ops) /\ Len(p) = u + c + d
       /\ \A i \in 1 .. u + c + d :
            p[i] = IF i <= u + c THEN AB[i] ELSE C[i - (u + c)]
  <2>1. /\ p \in Seq(Ops) /\ Len(p) = Len(AB) + Len(C)
        /\ \A i \in 1 .. Len(AB) + Len(C) :
             p[i] = IF i <= Len(AB) THEN AB[i] ELSE C[i - Len(AB)]
    BY <1>e, <1>g, Joined
  <2> HIDE DEF p
  <2> QED
    BY <1>b, <1>e, <1>f, <1>g, <2>1
<1> HIDE DEF p
<1>19. \A i \in 1 .. u : p[i] = Op("update", missing[i], cv[extra[i]])
  <2> SUFFICES ASSUME NEW i \in 1 .. u
               PROVE  p[i] = Op("update", missing[i], cv[extra[i]])
    OBVIOUS
  <2>1. i \in 1 .. u + c /\ i \in 1 .. u + c + d /\ i <= u /\ i <= u + c
    BY <1>4, <1>8, <1>10
  <2> QED
    BY <1>14, <1>17, <1>18, <2>1 DEF AB
<1>20. \A i \in u + 1 .. u + c : p[i] = Op("create", missing[i], 0)
  <2> SUFFICES ASSUME NEW i \in u + 1 .. u + c
               PROVE  p[i] = Op("create", missing[i], 0)
    OBVIOUS
  <2>1. /\ i \in 1 .. u + c /\ i \in 1 .. u + c + d /\ ~(i <= u) /\ i <= u + c
        /\ i - u \in 1 .. c /\ u + (i - u) = i
    BY <1>4, <1>8, <1>10
  <2> QED
    BY <1>15, <1>17, <1>18, <2>1 DEF AB
<1>21. \A i \in u + c + 1 .. u + c + d :
         p[i] = Op("delete", dropped[i - u - c], cv[dropped[i - u - c]])
  <2> SUFFICES ASSUME NEW i \in u + c + 1 .. u + c + d
               PROVE  p[i] = Op("delete", dropped[i - u - c], cv[dropped[i - u - c]])
    OBVIOUS
  <2>1. /\ i \in 1 .. u + c + d /\ ~(i <= u + c)
        /\ i - (u + c) \in 1 .. d /\ i - u - c = i - (u + c)
    BY <1>4, <1>8, <1>10
  <2> QED
    BY <1>16, <1>18, <2>1
<1>22. u + c = m
  BY <1>2, <1>4 DEF c
<1>23. dropped \in [1 .. d -> V \ lv]
  BY <1>7, <1>8
<1>24. \A i \in 1 .. d : /\ deletes /\ dropped[i] \notin MailValues
                         /\ \A j \in 1 .. u : dropped[i] # extra[j]
  BY <1>6, <1>8
<1>25. Plan(lv, cv, deletes) = p
  BY <1>1 DEF p, AB
<1>26. PlanIs(p, lv, V, cv, deletes, u, c, d, dropped)
  BY <1>4, <1>18, <1>19, <1>20, <1>21, <1>22, <1>23, <1>24, <1>8, <1>c
  DEF PlanIs, missing, extra, m, x
<1>27. u \in Nat /\ c \in Nat /\ d \in Nat
  BY <1>4, <1>8, <1>10
<1> HIDE DEF PlanIs
<1> QED
  BY <1>25, <1>26, <1>27

\* What the debounce has not turned into a sync yet; with the syncs begun, no
\* more than the edits and the operator's syncs.
Unheard ==
  Cardinality(following) + hooks + orphans + firing + (IF armed THEN 1 ELSE 0)
Begun(n) == \A r \in Runs : run[r].pc # "none" <=> r <= n
Numbered ==
  /\ edits <= MaxEdits /\ operator + faults + reboots <= MaxEvents
  /\ \E n \in 0 .. edits + operator : Begun(n) /\ n + Unheard <= edits + operator

\* A planned delete was asked for, and is of no mail record.
Guarded(k) ==
  \A i \in DOMAIN k.todo :
    k.todo[i].kind = "delete" => k.deletes /\ k.todo[i].value \notin MailValues

\* Until two syncs overlap, there is one at a time; what it has listed is
\* Cloudflare's, and what it still plans can be done.
Alone == \A r, s \in Runs : Active(r) /\ Active(s) => r = s

Sound(ops, zone) ==
  /\ \A i \in DOMAIN ops :
       /\ ops[i].kind # "create" => ops[i].id \in DOMAIN zone
       /\ ops[i].kind = "delete" => zone[ops[i].id] = ops[i].value
       /\ ops[i].kind # "delete" => ~InCf(ops[i].value, zone)
  /\ \A i, j \in DOMAIN ops : i # j =>
       /\ ops[i].kind # "create" /\ ops[j].kind # "create" => ops[i].id # ops[j].id
       /\ ops[i].kind # "delete" /\ ops[j].kind # "delete" => ops[i].value # ops[j].value

Current(k, zone) ==
  /\ k.pc = "load" => k.listed \in Listings(zone)
  /\ k.pc = "apply" => Sound(k.todo, zone)

\* Of a value of the panel, once a sync has read it: Cloudflare has it and no
\* plan takes it away, or a plan still brings it.
Spares(ops, zone, v) ==
  \A i \in DOMAIN ops : ops[i].kind # "create" => zone[ops[i].id] # v
Brings(ops, v) == \E i \in DOMAIN ops : ops[i].kind # "delete" /\ ops[i].value = v
Kept(v) ==
  InCf(v, cf) /\ \A r \in Runs : run[r].pc = "apply" => Spares(run[r].todo, cf, v)
Planned(v) == \E r \in Runs : run[r].pc = "apply" /\ Brings(run[r].todo, v)

\* An edit no sync has read is on its way to one.
Owed ==
  \/ following # {} \/ hooks > 0 \/ armed \/ orphans > 0 \/ firing > 0
  \/ \E r \in Runs : run[r].pc \in {"list", "load"}

Undisturbed == ~overlapped /\ faults = 0 /\ reboots = 0
CaughtUp ==
  Undisturbed => IF dirty THEN Owed ELSE \A v \in local : Kept(v) \/ Planned(v)

SyncsInv ==
  /\ \A r \in Runs : Guarded(run[r])
  /\ ~overlapped => Alone /\ \A r \in Runs : Current(run[r], cf)

RecordInv == RecordTypeOK /\ Numbered /\ SyncsInv /\ CaughtUp

RunSet ==
  [pc : {"none", "list", "load", "apply", "ended"}, deletes : BOOLEAN,
   listed : UNION {[V -> Nat] : V \in SUBSET Values}, todo : Seq(Ops)]

LEMMA OpFields ==
  \A kind, v, id : /\ Op(kind, v, id).kind = kind /\ Op(kind, v, id).value = v
                    /\ Op(kind, v, id).id = id
BY DEF Op

LEMMA PlanIsTyped ==
  ASSUME NEW lv, lv \subseteq Values, NEW V, V \subseteq Values,
         NEW cv \in [V -> Nat], NEW deletes \in BOOLEAN
  PROVE  /\ Plan(lv, cv, deletes) \in Seq(Ops)
         /\ \A i \in DOMAIN Plan(lv, cv, deletes) :
              Plan(lv, cv, deletes)[i].kind = "delete" =>
                deletes /\ Plan(lv, cv, deletes)[i].value \notin MailValues
<1> DEFINE p == Plan(lv, cv, deletes)
           missing == Ascending(lv \ V)
           extra == Ascending(V \ lv)
<1>a. PICK u, c, d \in Nat : \E dropped : PlanIs(p, lv, V, cv, deletes, u, c, d, dropped)
  BY PlanShape
<1>b. PICK dropped : PlanIs(p, lv, V, cv, deletes, u, c, d, dropped)
  BY <1>a
<1>1.   /\ p \in Seq(Ops) /\ Len(p) = u + c + d
        /\ \A i \in 1 .. u : p[i] = Op("update", missing[i], cv[extra[i]])
        /\ \A i \in u + 1 .. u + c : p[i] = Op("create", missing[i], 0)
        /\ \A i \in u + c + 1 .. u + c + d :
             p[i] = Op("delete", dropped[i - u - c], cv[dropped[i - u - c]])
        /\ \A i \in 1 .. d : deletes /\ dropped[i] \notin MailValues
  BY <1>b DEF PlanIs
<1> HIDE DEF p, missing, extra
<1>2. DOMAIN p = 1 .. u + c + d
  BY <1>1, LenProperties
<1>3. ASSUME NEW i \in DOMAIN p, p[i].kind = "delete"
      PROVE  deletes /\ p[i].value \notin MailValues
  <2>1. i \in u + c + 1 .. u + c + d
    <3>1. i \in 1 .. u => p[i].kind = "update"
      BY <1>1, OpFields
    <3>2. i \in u + 1 .. u + c => p[i].kind = "create"
      BY <1>1, OpFields
    <3> QED
      BY <1>2, <1>3, <3>1, <3>2
  <2>2. i - u - c \in 1 .. d
    BY <2>1
  <2>3. p[i] = Op("delete", dropped[i - u - c], cv[dropped[i - u - c]])
    BY <1>1, <2>1
  <2>4. p[i].value = dropped[i - u - c]
    BY <2>3, OpFields
  <2> QED
    BY <1>1, <2>2, <2>4
<1> QED
  BY <1>1, <1>3 DEF p

\* A plan made from a listing of the zone as it is can be carried out, brings
\* what is missing and touches nothing of what is there.
LEMMA PlanIsSound ==
  ASSUME NEW lv, lv \subseteq Values, NEW zone, DOMAIN zone \subseteq Nat,
         \A id \in DOMAIN zone : zone[id] \in Values,
         NEW f \in Listings(zone), NEW deletes \in BOOLEAN
  PROVE  /\ Sound(Plan(lv, f, deletes), zone)
         /\ \A v \in lv : \/ InCf(v, zone) /\ Spares(Plan(lv, f, deletes), zone, v)
                          \/ Brings(Plan(lv, f, deletes), v)
<1> DEFINE V == {zone[id] : id \in DOMAIN zone}
           p == Plan(lv, f, deletes)
           missing == Ascending(lv \ V)
           extra == Ascending(V \ lv)
           m == Cardinality(lv \ V)
           x == Cardinality(V \ lv)
<1>1. /\ V \subseteq Values /\ f \in [V -> DOMAIN zone] /\ f \in [V -> Nat]
      /\ \A v \in V : zone[f[v]] = v
      /\ \A v : v \in V <=> InCf(v, zone)
  BY DEF Listings, InCf
<1> HIDE DEF V
<1>a. PICK u, c, d \in Nat : \E dropped : PlanIs(p, lv, V, f, deletes, u, c, d, dropped)
  BY <1>1, PlanShape
<1>b. PICK dropped : PlanIs(p, lv, V, f, deletes, u, c, d, dropped)
  BY <1>a
<1>2.   /\ dropped \in [1 .. d -> V \ lv]
        /\ p \in Seq(Ops) /\ Len(p) = u + c + d
        /\ u + c = m /\ u <= x
        /\ \A i \in 1 .. u : p[i] = Op("update", missing[i], f[extra[i]])
        /\ \A i \in u + 1 .. u + c : p[i] = Op("create", missing[i], 0)
        /\ \A i \in u + c + 1 .. u + c + d :
             p[i] = Op("delete", dropped[i - u - c], f[dropped[i - u - c]])
        /\ \A i \in 1 .. d : \A j \in 1 .. u : dropped[i] # extra[j]
        /\ \A i, j \in 1 .. d : dropped[i] = dropped[j] => i = j
  BY <1>b DEF PlanIs
<1>3. /\ m \in Nat /\ missing \in [1 .. m -> lv \ V]
      /\ \A i, j \in 1 .. m : missing[i] = missing[j] => i = j
      /\ \A v \in lv \ V : \E i \in 1 .. m : missing[i] = v
  BY AscendingEnumerates
<1>4. /\ x \in Nat /\ extra \in [1 .. x -> V \ lv]
      /\ \A i, j \in 1 .. x : extra[i] = extra[j] => i = j
  BY <1>1, AscendingEnumerates
<1> HIDE DEF p, missing, extra, m, x
<1> DEFINE Upd == 1 .. u
           Cre == u + 1 .. u + c
           Del == u + c + 1 .. u + c + d
           target == [i \in Upd \cup Del |-> IF i \in Upd THEN extra[i] ELSE dropped[i - u - c]]
<1>5. /\ DOMAIN p = Upd \cup Cre \cup Del
      /\ Upd \cap Cre = {} /\ Upd \cap Del = {} /\ Cre \cap Del = {}
      /\ Upd \cup Cre = 1 .. m /\ Upd \subseteq 1 .. x
      /\ \A i \in Del : i - u - c \in 1 .. d
      /\ \A i, j \in Del : i - u - c = j - u - c => i = j
  <2>1. DOMAIN p = 1 .. u + c + d
    BY <1>2, LenProperties
  <2> QED
    BY <1>2, <1>4, <2>1
<1> HIDE DEF Upd, Cre, Del
<1>6. ASSUME NEW i \in Upd
      PROVE  p[i].kind = "update" /\ p[i].value = missing[i] /\ p[i].id = f[extra[i]]
  BY <1>2, OpFields DEF Upd
<1>7. ASSUME NEW i \in Cre
      PROVE  p[i].kind = "create" /\ p[i].value = missing[i]
  BY <1>2, OpFields DEF Cre
<1>8. ASSUME NEW i \in Del
      PROVE  /\ p[i].kind = "delete" /\ p[i].value = dropped[i - u - c]
             /\ p[i].id = f[dropped[i - u - c]]
  BY <1>2, OpFields DEF Del
<1>9. \A i \in Upd \cup Del : /\ target[i] \in V \ lv /\ p[i].id = f[target[i]]
                              /\ p[i].kind = "delete" => p[i].value = target[i]
  <2> SUFFICES ASSUME NEW i \in Upd \cup Del
               PROVE  /\ target[i] \in V \ lv /\ p[i].id = f[target[i]]
                      /\ p[i].kind = "delete" => p[i].value = target[i]
    OBVIOUS
  <2>1. CASE i \in Upd
    BY <1>4, <1>5, <1>6, <2>1
  <2>2. CASE i \notin Upd
    <3>1. i \in Del /\ i - u - c \in 1 .. d
      BY <1>5, <2>2
    <3> QED
      BY <1>2, <1>8, <2>2, <3>1
  <2> QED
    BY <2>1, <2>2
<1>10. \A i, j \in Upd \cup Del : target[i] = target[j] => i = j
  <2> SUFFICES ASSUME NEW i \in Upd \cup Del, NEW j \in Upd \cup Del, i # j
               PROVE  target[i] # target[j]
    OBVIOUS
  <2>1. CASE i \in Upd /\ j \in Upd
    BY <1>4, <1>5, <2>1
  <2>2. CASE i \in Upd /\ j \notin Upd
    <3>1. j - u - c \in 1 .. d /\ i \in 1 .. u
      BY <1>5, <2>2 DEF Upd
    <3> QED
      BY <1>2, <2>2, <3>1
  <2>3. CASE i \notin Upd /\ j \in Upd
    <3>1. i - u - c \in 1 .. d /\ j \in 1 .. u
      BY <1>5, <2>3 DEF Upd
    <3> QED
      BY <1>2, <2>3, <3>1
  <2>4. CASE i \notin Upd /\ j \notin Upd
    <3>1. /\ i - u - c \in 1 .. d /\ j - u - c \in 1 .. d /\ i - u - c # j - u - c
      BY <1>5, <2>4
    <3> QED
      BY <1>2, <2>4, <3>1
  <2> QED
    BY <2>1, <2>2, <2>3, <2>4
<1> HIDE DEF target
<1>11. \A i \in DOMAIN p : /\ p[i].kind # "create" <=> i \in Upd \cup Del
                           /\ p[i].kind # "delete" <=> i \in Upd \cup Cre
  BY <1>5, <1>6, <1>7, <1>8
<1>12. \A i \in Upd \cup Cre : p[i].value = missing[i] /\ missing[i] \in lv \ V
  BY <1>3, <1>5, <1>6, <1>7
<1>13. \A i \in Upd \cup Del : p[i].id \in DOMAIN zone /\ zone[p[i].id] = target[i]
  BY <1>1, <1>9
<1>14. Sound(p, zone)
  <2>1. ASSUME NEW i \in DOMAIN p
        PROVE  /\ p[i].kind # "create" => p[i].id \in DOMAIN zone
               /\ p[i].kind = "delete" => zone[p[i].id] = p[i].value
               /\ p[i].kind # "delete" => ~InCf(p[i].value, zone)
    <3>1. p[i].kind # "create" => p[i].id \in DOMAIN zone
      BY <1>11, <1>13
    <3>2. p[i].kind = "delete" => zone[p[i].id] = p[i].value
      BY <1>9, <1>11, <1>13
    <3>3. p[i].kind # "delete" => ~InCf(p[i].value, zone)
      BY <1>1, <1>11, <1>12
    <3> QED
      BY <3>1, <3>2, <3>3
  <2>2. ASSUME NEW i \in DOMAIN p, NEW j \in DOMAIN p, i # j
        PROVE  /\ p[i].kind # "create" /\ p[j].kind # "create" => p[i].id # p[j].id
               /\ p[i].kind # "delete" /\ p[j].kind # "delete" => p[i].value # p[j].value
    <3>1. p[i].kind # "create" /\ p[j].kind # "create" => p[i].id # p[j].id
      BY <1>10, <1>11, <1>13, <2>2
    <3>2. p[i].kind # "delete" /\ p[j].kind # "delete" => p[i].value # p[j].value
      BY <1>3, <1>5, <1>11, <1>12, <2>2
    <3> QED
      BY <3>1, <3>2
  <2> QED
    BY <2>1, <2>2 DEF Sound
<1>15. ASSUME NEW v \in lv, v \in V PROVE InCf(v, zone) /\ Spares(p, zone, v)
  BY <1>1, <1>9, <1>11, <1>13, <1>15 DEF Spares
<1>16. ASSUME NEW v \in lv, v \notin V PROVE Brings(p, v)
  <2>1. PICK i \in 1 .. m : missing[i] = v
    BY <1>3, <1>16
  <2>2. i \in DOMAIN p /\ i \in Upd \cup Cre
    BY <1>5
  <2> QED
    BY <1>11, <1>12, <2>1, <2>2 DEF Brings
<1> QED
  BY <1>14, <1>15, <1>16 DEF p

-----------------------------------------------------------------------------
(* One call of a sync                                                      *)

\* What a call makes of the zone, by its kind.
LEMMA AppliedZone ==
  ASSUME NEW op \in Ops, NEW zone, NEW fresh, fresh \notin DOMAIN zone,
         Accepts(op, zone)
  PROVE  LET after == Applied(op, zone, fresh) IN
         /\ op.kind = "update" =>
              /\ DOMAIN after = DOMAIN zone /\ op.id \in DOMAIN zone
              /\ after[op.id] = op.value
              /\ \A id \in DOMAIN zone : id # op.id => after[id] = zone[id]
         /\ op.kind = "create" =>
              /\ DOMAIN after = DOMAIN zone \cup {fresh} /\ after[fresh] = op.value
              /\ \A id \in DOMAIN zone : after[id] = zone[id]
         /\ op.kind = "delete" =>
              /\ DOMAIN after = DOMAIN zone \ {op.id} /\ op.id \in DOMAIN zone
              /\ \A id \in DOMAIN zone : id # op.id => after[id] = zone[id]
         /\ op.kind \in {"update", "create", "delete"}
<1>1. op.kind \in {"update", "create", "delete"}
  BY DEF Ops
<1>2. CASE op.kind = "update"
  <2>1. Applied(op, zone, fresh) = [zone EXCEPT ![op.id] = op.value]
    BY <1>2 DEF Applied
  <2>2. op.id \in DOMAIN zone
    BY <1>2 DEF Accepts
  <2> QED
    BY <1>2, <2>1, <2>2
<1>3. CASE op.kind = "create"
  <2>1. Applied(op, zone, fresh) = [id \in DOMAIN zone \cup {fresh} |->
                                      IF id = fresh THEN op.value ELSE zone[id]]
    BY <1>3 DEF Applied
  <2> QED
    BY <1>3, <2>1
<1>4. CASE op.kind = "delete"
  <2>1. Applied(op, zone, fresh) = [id \in DOMAIN zone \ {op.id} |-> zone[id]]
    BY <1>4 DEF Applied
  <2>2. op.id \in DOMAIN zone
    BY <1>4 DEF Accepts
  <2> QED
    BY <1>4, <2>1, <2>2
<1> QED
  BY <1>1, <1>2, <1>3, <1>4

LEMMA TailOf ==
  ASSUME NEW ops \in Seq(Ops), ops # << >>
  PROVE  /\ Head(ops) = ops[1] /\ 1 \in DOMAIN ops /\ ops[1] \in Ops
         /\ Tail(ops) \in Seq(Ops)
         /\ \A i \in DOMAIN Tail(ops) : i + 1 \in DOMAIN ops /\ Tail(ops)[i] = ops[i + 1]
                                        /\ i + 1 # 1 /\ i \in Nat
         /\ \A i \in DOMAIN ops : i # 1 => i - 1 \in DOMAIN Tail(ops)
                                           /\ Tail(ops)[i - 1] = ops[i]
<1>1. Len(ops) \in Nat /\ DOMAIN ops = 1 .. Len(ops) /\ Len(ops) # 0
  OBVIOUS
<1>2. Tail(ops) \in Seq(Ops) /\ DOMAIN Tail(ops) = 1 .. Len(ops) - 1
  OBVIOUS
<1>3. \A i \in 1 .. Len(ops) - 1 : Tail(ops)[i] = ops[i + 1]
  OBVIOUS
<1>4. 1 \in DOMAIN ops /\ ops[1] \in Ops /\ Head(ops) = ops[1]
  BY <1>1
<1>5. \A i \in DOMAIN Tail(ops) : i + 1 \in DOMAIN ops /\ i + 1 # 1 /\ i \in Nat
  BY <1>1, <1>2
<1>6. \A i \in DOMAIN ops : i # 1 => i - 1 \in 1 .. Len(ops) - 1 /\ (i - 1) + 1 = i
  BY <1>1
<1> QED
  BY <1>2, <1>3, <1>4, <1>5, <1>6

\* The head of a sound plan goes through, and leaves the rest sound.
LEMMA SoundNext ==
  ASSUME NEW ops \in Seq(Ops), ops # << >>, NEW zone, Sound(ops, zone),
         NEW fresh, fresh \notin DOMAIN zone
  PROVE  /\ Accepts(Head(ops), zone) /\ ~Refuses(Head(ops), zone)
         /\ Sound(Tail(ops), Applied(Head(ops), zone, fresh))
         /\ \A v : InCf(v, zone) /\ Spares(ops, zone, v) =>
                     LET after == Applied(Head(ops), zone, fresh) IN
                     InCf(v, after) /\ Spares(Tail(ops), after, v)
         /\ \A v : Brings(ops, v) =>
                     LET after == Applied(Head(ops), zone, fresh) IN
                     \/ InCf(v, after) /\ Spares(Tail(ops), after, v)
                     \/ Brings(Tail(ops), v)
<1> DEFINE op == ops[1]
           rest == Tail(ops)
           after == Applied(op, zone, fresh)
<1>1. /\ Head(ops) = op /\ 1 \in DOMAIN ops /\ op \in Ops /\ rest \in Seq(Ops)
      /\ \A i \in DOMAIN rest : i + 1 \in DOMAIN ops /\ rest[i] = ops[i + 1]
                                /\ i + 1 # 1 /\ i \in Nat
      /\ \A i \in DOMAIN ops : i # 1 => i - 1 \in DOMAIN rest /\ rest[i - 1] = ops[i]
  BY TailOf
<1>2. /\ \A i \in DOMAIN ops :
           /\ ops[i].kind # "create" => ops[i].id \in DOMAIN zone
           /\ ops[i].kind = "delete" => zone[ops[i].id] = ops[i].value
           /\ ops[i].kind # "delete" => ~InCf(ops[i].value, zone)
      /\ \A i, j \in DOMAIN ops : i # j =>
           /\ ops[i].kind # "create" /\ ops[j].kind # "create" => ops[i].id # ops[j].id
           /\ ops[i].kind # "delete" /\ ops[j].kind # "delete" =>
                ops[i].value # ops[j].value
  BY DEF Sound
<1>3. Accepts(op, zone) /\ ~Refuses(op, zone)
  BY <1>1, <1>2 DEF Accepts, Refuses
<1>4. /\ op.kind = "update" =>
           /\ DOMAIN after = DOMAIN zone /\ op.id \in DOMAIN zone
           /\ after[op.id] = op.value
           /\ \A id \in DOMAIN zone : id # op.id => after[id] = zone[id]
      /\ op.kind = "create" =>
           /\ DOMAIN after = DOMAIN zone \cup {fresh} /\ after[fresh] = op.value
           /\ \A id \in DOMAIN zone : after[id] = zone[id]
      /\ op.kind = "delete" =>
           /\ DOMAIN after = DOMAIN zone \ {op.id} /\ op.id \in DOMAIN zone
           /\ \A id \in DOMAIN zone : id # op.id => after[id] = zone[id]
      /\ op.kind \in {"update", "create", "delete"}
  BY <1>1, <1>3, AppliedZone
<1> HIDE DEF after, rest
\* What the other calls address is still there and as it was.
<1>5. ASSUME NEW j \in DOMAIN ops, j # 1, ops[j].kind # "create"
      PROVE  ops[j].id \in DOMAIN after /\ after[ops[j].id] = zone[ops[j].id]
  <2>1. ops[j].id \in DOMAIN zone
    BY <1>2, <1>5
  <2>2. op.kind # "create" => ops[j].id # op.id
    BY <1>1, <1>2, <1>5
  <2> QED
    BY <1>4, <2>1, <2>2
<1>6. \A v : InCf(v, after) => InCf(v, zone) \/ (op.kind # "delete" /\ v = op.value)
  BY <1>4 DEF InCf
<1>7. op.kind # "delete" => InCf(op.value, after)
  BY <1>4 DEF InCf
<1>8. ASSUME NEW j \in DOMAIN ops, j # 1
      PROVE  /\ ops[j].kind # "create" => ops[j].id \in DOMAIN after
             /\ ops[j].kind = "delete" => after[ops[j].id] = ops[j].value
             /\ ops[j].kind # "delete" => ~InCf(ops[j].value, after)
  <2>1. ops[j].kind # "create" => ops[j].id \in DOMAIN after
    BY <1>5, <1>8
  <2>2. ops[j].kind = "delete" => after[ops[j].id] = ops[j].value
    BY <1>2, <1>5, <1>8
  <2>3. ops[j].kind # "delete" => ~InCf(ops[j].value, after)
    BY <1>1, <1>2, <1>6, <1>8
  <2> QED
    BY <2>1, <2>2, <2>3
<1>9. Sound(rest, after)
  <2>1. ASSUME NEW i \in DOMAIN rest
        PROVE  /\ rest[i].kind # "create" => rest[i].id \in DOMAIN after
               /\ rest[i].kind = "delete" => after[rest[i].id] = rest[i].value
               /\ rest[i].kind # "delete" => ~InCf(rest[i].value, after)
    <3>1. PICK k \in DOMAIN ops : k # 1 /\ rest[i] = ops[k]
      BY <1>1
    <3> QED
      BY <1>8, <3>1
  <2>2. ASSUME NEW i \in DOMAIN rest, NEW j \in DOMAIN rest, i # j
        PROVE  /\ rest[i].kind # "create" /\ rest[j].kind # "create" =>
                    rest[i].id # rest[j].id
               /\ rest[i].kind # "delete" /\ rest[j].kind # "delete" =>
                    rest[i].value # rest[j].value
    <3>1. /\ i + 1 \in DOMAIN ops /\ j + 1 \in DOMAIN ops
          /\ rest[i] = ops[i + 1] /\ rest[j] = ops[j + 1]
      BY <1>1
    <3>2. i + 1 # j + 1
      BY <1>1, <2>2
    <3> QED
      BY <1>2, <3>1, <3>2
  <2> QED
    BY <2>1, <2>2 DEF Sound
<1>10. ASSUME NEW v, InCf(v, zone), Spares(ops, zone, v)
       PROVE  InCf(v, after) /\ Spares(rest, after, v)
  <2>1. PICK id \in DOMAIN zone : zone[id] = v
    BY <1>10 DEF InCf
  <2>2. op.kind # "create" => op.id # id
    BY <1>1, <1>10, <2>1 DEF Spares
  <2>3. InCf(v, after)
    BY <1>4, <2>1, <2>2 DEF InCf
  <2>4. ASSUME NEW i \in DOMAIN rest, rest[i].kind # "create"
        PROVE  after[rest[i].id] # v
    <3>1. PICK k \in DOMAIN ops : k # 1 /\ rest[i] = ops[k]
      BY <1>1
    <3> QED
      BY <1>5, <1>10, <2>4, <3>1 DEF Spares
  <2> QED
    BY <2>3, <2>4 DEF Spares
<1>11. ASSUME NEW v, Brings(ops, v)
       PROVE  (InCf(v, after) /\ Spares(rest, after, v)) \/ Brings(rest, v)
  <2>1. PICK k \in DOMAIN ops : ops[k].kind # "delete" /\ ops[k].value = v
    BY <1>11 DEF Brings
  <2>2. CASE k = 1
    <3>1. InCf(v, after)
      BY <1>7, <2>1, <2>2
    <3>2. ~InCf(v, zone)
      BY <1>2, <2>1
    <3>3. ASSUME NEW i \in DOMAIN rest, rest[i].kind # "create"
          PROVE  after[rest[i].id] # v
      <4>1. PICK l \in DOMAIN ops : l # 1 /\ rest[i] = ops[l]
        BY <1>1
      <4>2. ops[l].id \in DOMAIN zone /\ after[ops[l].id] = zone[ops[l].id]
        BY <1>2, <1>5, <3>3, <4>1
      <4> QED
        BY <3>2, <4>1, <4>2 DEF InCf
    <3> QED
      BY <3>1, <3>3 DEF Spares
  <2>3. CASE k # 1
    <3>1. k - 1 \in DOMAIN rest /\ rest[k - 1] = ops[k]
      BY <1>1, <2>3
    <3> QED
      BY <2>1, <3>1 DEF Brings
  <2> QED
    BY <2>2, <2>3
<1> QED
  BY <1>1, <1>3, <1>9, <1>10, <1>11 DEF after, rest

-----------------------------------------------------------------------------
(* Types and counters                                                      *)

LEMMA RunTypes ==
  ASSUME NEW f
  PROVE  f \in [Runs -> RunSet] <=>
           /\ f = [r \in Runs |-> f[r]]
           /\ \A r \in Runs : \E V \in SUBSET Values :
                f[r] \in [pc : {"none", "list", "load", "apply", "ended"},
                          deletes : BOOLEAN, listed : [V -> Nat], todo : Seq(Ops)]
<1>1. ASSUME NEW k
      PROVE  k \in RunSet <=> \E V \in SUBSET Values :
               k \in [pc : {"none", "list", "load", "apply", "ended"},
                      deletes : BOOLEAN, listed : [V -> Nat], todo : Seq(Ops)]
  BY DEF RunSet
<1> QED
  BY <1>1

LEMMA NoRunTyped == NoRun \in RunSet
<1>1. << >> \in UNION {[V -> Nat] : V \in SUBSET Values}
  <2>1. << >> \in [{} -> Nat] /\ {} \in SUBSET Values
    OBVIOUS
  <2> QED
    BY <2>1
<1> QED
  BY <1>1 DEF NoRun, RunSet

LEMMA TypeParts ==
  RecordTypeOK <=>
    /\ local \in SUBSET Values
    /\ DOMAIN cf \subseteq 1 .. (nextId - 1)
    /\ \A id \in DOMAIN cf : cf[id] \in Values
    /\ nextId \in Nat \ {0}
    /\ following \subseteq [kind : {"add", "update", "delete"}, value : Values, edit : Nat]
    /\ IsFiniteSet(following)
    /\ hooks \in Nat /\ orphans \in Nat /\ firing \in Nat
    /\ edits \in Nat /\ operator \in Nat /\ faults \in Nat /\ reboots \in Nat
    /\ entry \in BOOLEAN /\ armed \in BOOLEAN /\ dirty \in BOOLEAN
    /\ overlapped \in BOOLEAN
    /\ armed => entry
    /\ Unheard <= edits
    /\ run \in [Runs -> RunSet]
BY RunTypes DEF RecordTypeOK, Unheard

LEMMA TypePartsNext ==
  RecordTypeOK' <=>
    /\ local' \in SUBSET Values
    /\ DOMAIN cf' \subseteq 1 .. (nextId' - 1)
    /\ \A id \in DOMAIN cf' : cf'[id] \in Values
    /\ nextId' \in Nat \ {0}
    /\ following' \subseteq [kind : {"add", "update", "delete"}, value : Values, edit : Nat]
    /\ IsFiniteSet(following')
    /\ hooks' \in Nat /\ orphans' \in Nat /\ firing' \in Nat
    /\ edits' \in Nat /\ operator' \in Nat /\ faults' \in Nat /\ reboots' \in Nat
    /\ entry' \in BOOLEAN /\ armed' \in BOOLEAN /\ dirty' \in BOOLEAN
    /\ overlapped' \in BOOLEAN
    /\ armed' => entry'
    /\ Unheard' <= edits'
    /\ run' \in [Runs -> RunSet]
BY RunTypes DEF RecordTypeOK, Unheard

LEMMA Counted ==
  ASSUME RecordTypeOK
  PROVE  /\ Cardinality(following) \in Nat /\ Unheard \in Nat
         /\ MaxEdits \in Nat /\ MaxEvents \in Nat
         /\ (IF armed THEN 1 ELSE 0) \in {0, 1}
<1>1. Cardinality(following) \in Nat
  BY FS_CardinalityType DEF RecordTypeOK
<1> QED
  BY <1>1, TypeParts, BoundsAssumption DEF Unheard

\* Nothing that concerns a sync has changed.
LEMMA SyncsSame ==
  ASSUME SyncsInv, UNCHANGED <<run, cf, overlapped>>
  PROVE  SyncsInv'
BY DEF SyncsInv, Alone, Active, Current, Listings, Sound, Guarded, InCf

LEMMA CaughtUpSame ==
  ASSUME CaughtUp, UNCHANGED <<run, cf, local, dirty, overlapped, faults, reboots>>,
         Owed => Owed'
  PROVE  CaughtUp'
<1>1. \A v : Kept(v) => Kept(v)'
  BY DEF Kept, Spares, InCf
<1>2. \A v : Planned(v) => Planned(v)'
  BY DEF Planned, Brings
<1> QED
  BY <1>1, <1>2 DEF CaughtUp, Undisturbed

LEMMA NumberedAgain ==
  ASSUME NEW n \in Nat, \A r \in Runs : run'[r].pc # "none" <=> r <= n,
         n \in 0 .. edits' + operator', n + Unheard' <= edits' + operator',
         edits' <= MaxEdits, operator' + faults' + reboots' <= MaxEvents
  PROVE  Numbered'
BY Zenon DEF Numbered, Begun

LEMMA NumberedNow ==
  ASSUME Numbered
  PROVE  /\ edits <= MaxEdits /\ operator + faults + reboots <= MaxEvents
         /\ \E n \in 0 .. edits + operator :
              /\ \A r \in Runs : run[r].pc # "none" <=> r <= n
              /\ n + Unheard <= edits + operator
BY DEF Numbered, Begun

-----------------------------------------------------------------------------
(* Edits and the debounce                                                  *)

LEMMA EditKeeps ==
  ASSUME RecordInv, NEW kind \in {"add", "update", "delete"}, NEW value \in Values,
         NEW after, after \subseteq Values, Edit(kind, value, after)
  PROVE  RecordInv'
<1> DEFINE e == [kind |-> kind, value |-> value, edit |-> edits]
           c == Cardinality(following \cup {e})
           m == Cardinality(following)
<1>1. RecordTypeOK /\ Numbered /\ SyncsInv
  BY DEF RecordInv
<1>2. /\ following' = following \cup {e} /\ edits' = edits + 1 /\ edits < MaxEdits
      /\ local' = after /\ dirty' = TRUE
      /\ UNCHANGED <<cf, nextId, hooks, entry, armed, orphans, firing, run, operator,
                     reboots, faults, overlapped>>
  BY DEF Edit, timer, counters
<1>3. e \in [kind : {"add", "update", "delete"}, value : Values, edit : Nat]
  BY <1>1, TypeParts
<1> HIDE DEF e
<1>4. IsFiniteSet(following \cup {e}) /\ m \in Nat /\ c \in Nat /\ c <= m + 1
  <2>1. IsFiniteSet(following) /\ m \in Nat
    BY <1>1, Counted, TypeParts
  <2>2. /\ IsFiniteSet(following \cup {e})
        /\ c = IF e \in following THEN m ELSE m + 1
    BY <2>1, FS_AddElement
  <2> QED
    BY <2>1, <2>2
<1> HIDE DEF c, m
<1>5. /\ Unheard = m + hooks + orphans + firing + (IF armed THEN 1 ELSE 0)
      /\ Unheard' = c + hooks + orphans + firing + (IF armed THEN 1 ELSE 0)
  BY <1>2 DEF Unheard, m, c
<1>6. Unheard' \in Nat /\ Unheard' <= Unheard + 1
  BY <1>1, <1>4, <1>5, Counted, TypeParts
<1>7. RecordTypeOK'
  <2>1. Unheard' <= edits'
    BY <1>1, <1>2, <1>6, Counted, TypeParts
  <2>2. edits' \in Nat /\ following' \subseteq [kind : {"add", "update", "delete"}, value : Values, edit : Nat]
        /\ IsFiniteSet(following')
    BY <1>1, <1>2, <1>3, <1>4, TypeParts
  <2> QED
    BY <1>1, <1>2, <2>1, <2>2, TypeParts, TypePartsNext
<1>8. Numbered'
  <2>1. PICK n \in 0 .. edits + operator :
          /\ \A r \in Runs : run[r].pc # "none" <=> r <= n
          /\ n + Unheard <= edits + operator
    BY <1>1, NumberedNow
  <2>2. n \in Nat /\ n \in 0 .. edits' + operator' /\ n + Unheard' <= edits' + operator'
    BY <1>1, <1>2, <1>6, <2>1, Counted, TypeParts
  <2>3. edits' <= MaxEdits
    BY <1>1, <1>2, Counted, TypeParts
  <2>4. operator' + faults' + reboots' <= MaxEvents
    BY <1>1, <1>2, NumberedNow
  <2>5. \A r \in Runs : run'[r].pc # "none" <=> r <= n
    BY <1>2, <2>1
  <2> QED
    BY <2>2, <2>3, <2>4, <2>5, NumberedAgain
<1>9. SyncsInv'
  BY <1>1, <1>2, SyncsSame
<1>10. CaughtUp'
  <2>1. Owed'
    BY <1>2 DEF Owed
  <2> QED
    BY <1>2, <2>1 DEF CaughtUp
<1> QED
  BY <1>7, <1>8, <1>9, <1>10 DEF RecordInv

\* A step of the debounce that keeps what is unheard unheard.
LEMMA DebounceKeeps ==
  ASSUME RecordInv,
         UNCHANGED <<local, cf, nextId, run, edits, operator, faults, reboots, dirty,
                     overlapped>>,
         following' \subseteq following,
         hooks' \in Nat, orphans' \in Nat, firing' \in Nat, entry' \in BOOLEAN,
         armed' \in BOOLEAN, armed' => entry',
         Unheard' \in Nat, Unheard' <= Unheard, Owed => Owed'
  PROVE  RecordInv'
<1>1. RecordTypeOK /\ Numbered /\ SyncsInv /\ CaughtUp
  BY DEF RecordInv
<1>2. IsFiniteSet(following')
  BY <1>1, TypeParts, FS_Subset
<1>3. RecordTypeOK'
  <2>1. Unheard' <= edits'
    <3>1. PICK x \in Nat : x = Unheard'
      OBVIOUS
    <3>2. x <= Unheard /\ Unheard <= edits /\ Unheard \in Nat /\ edits \in Nat
      BY <1>1, <3>1, Counted, TypeParts
    <3>3. x <= edits
      BY <3>2
    <3> QED
      BY <3>1, <3>3
  <2> QED
    BY <1>1, <1>2, <2>1, TypeParts, TypePartsNext
<1>4. Numbered'
  <2>1. PICK n \in 0 .. edits + operator :
          /\ \A r \in Runs : run[r].pc # "none" <=> r <= n
          /\ n + Unheard <= edits + operator
    BY <1>1, NumberedNow
  <2>2. n \in Nat /\ n + Unheard' <= edits + operator
    <3>1. PICK x \in Nat : x = Unheard'
      OBVIOUS
    <3>2. x <= Unheard /\ Unheard \in Nat /\ edits \in Nat /\ operator \in Nat
      BY <1>1, <3>1, Counted, TypeParts
    <3>3. n \in Nat /\ n + x <= edits + operator
      BY <2>1, <3>2
    <3> QED
      BY <3>1, <3>3
  <2> QED
    BY <1>1, <2>1, <2>2, NumberedNow, NumberedAgain
<1>5. SyncsInv' /\ CaughtUp'
  BY <1>1, SyncsSame, CaughtUpSame
<1> QED
  BY <1>3, <1>4, <1>5 DEF RecordInv

LEMMA PdnsFollowsKeeps ==
  ASSUME RecordInv, NEW e \in following, PdnsFollows(e)
  PROVE  RecordInv'
<1> DEFINE m == Cardinality(following)
           c == Cardinality(following \ {e})
<1>1. RecordTypeOK
  BY DEF RecordInv
<1>2. /\ following' = following \ {e} /\ hooks' = hooks + 1
      /\ UNCHANGED <<local, cf, nextId, entry, armed, orphans, firing, run, edits,
                     operator, reboots, faults, dirty, overlapped>>
  BY DEF PdnsFollows, FireHook, timer, counters
<1>3. m \in Nat /\ c \in Nat /\ c = m - 1
  BY <1>1, TypeParts, FS_RemoveElement, FS_CardinalityType
<1> HIDE DEF m, c
<1>4. /\ Unheard = m + hooks + orphans + firing + (IF armed THEN 1 ELSE 0)
      /\ Unheard' = c + (hooks + 1) + orphans + firing + (IF armed THEN 1 ELSE 0)
  BY <1>2 DEF Unheard, m, c
<1>5. Unheard' = Unheard /\ Unheard' \in Nat /\ Unheard' <= Unheard
  BY <1>1, <1>3, <1>4, Counted, TypeParts
<1>6. hooks' \in Nat /\ hooks' > 0
  BY <1>1, <1>2, TypeParts
<1>7. Owed'
  BY <1>6 DEF Owed
<1> QED
  BY <1>1, <1>2, <1>5, <1>6, <1>7, TypeParts, DebounceKeeps

LEMMA HookKeeps == ASSUME RecordInv, Hook PROVE RecordInv'
<1>1. RecordTypeOK
  BY DEF RecordInv
<1>2. /\ hooks > 0 /\ hooks' = hooks - 1 /\ entry' = TRUE /\ armed' = TRUE
      /\ UNCHANGED <<local, cf, nextId, following, orphans, firing, run, edits,
                     operator, reboots, faults, dirty, overlapped>>
  BY DEF Hook, counters
<1>3. /\ Unheard = Cardinality(following) + hooks + orphans + firing
                     + (IF armed THEN 1 ELSE 0)
      /\ Unheard' = Cardinality(following) + (hooks - 1) + orphans + firing + 1
  BY <1>2 DEF Unheard
<1>4. Unheard' \in Nat /\ Unheard' <= Unheard
  BY <1>1, <1>2, <1>3, Counted, TypeParts
<1>5. hooks' \in Nat /\ Owed'
  BY <1>1, <1>2, TypeParts DEF Owed
<1> QED
  BY <1>1, <1>2, <1>4, <1>5, TypeParts, DebounceKeeps

LEMMA FireKeeps == ASSUME RecordInv, Fire PROVE RecordInv'
<1>1. RecordTypeOK
  BY DEF RecordInv
<1>2. /\ \/ armed /\ armed' = FALSE /\ UNCHANGED orphans
         \/ orphans > 0 /\ orphans' = orphans - 1 /\ UNCHANGED armed
      /\ firing' = firing + 1
      /\ UNCHANGED <<local, cf, nextId, following, hooks, entry, run, edits, operator,
                     reboots, faults, dirty, overlapped>>
  BY DEF Fire, counters
<1>3. Unheard = Cardinality(following) + hooks + orphans + firing
                  + (IF armed THEN 1 ELSE 0)
  BY DEF Unheard
<1>4. Unheard' \in Nat /\ Unheard' <= Unheard /\ armed' \in BOOLEAN /\ orphans' \in Nat
      /\ (armed' => entry)
  <2>1. CASE armed /\ armed' = FALSE /\ UNCHANGED orphans
    <3>1. Unheard' = Cardinality(following) + hooks + orphans + (firing + 1) + 0
      BY <1>2, <2>1 DEF Unheard
    <3>2. Unheard' = Unheard
      BY <1>1, <1>3, <2>1, <3>1, Counted, TypeParts
    <3>3. armed' \in BOOLEAN /\ (armed' => entry)
      BY <2>1, Zenon
    <3>4. Unheard' \in Nat /\ Unheard' <= Unheard
      BY <1>1, <3>2, Counted
    <3>5. orphans' \in Nat
      BY <1>1, <2>1, TypeParts
    <3> QED
      BY <3>3, <3>4, <3>5
  <2>2. CASE orphans > 0 /\ orphans' = orphans - 1 /\ UNCHANGED armed
    <3>1. Unheard' = Cardinality(following) + hooks + (orphans - 1) + (firing + 1)
                       + (IF armed THEN 1 ELSE 0)
      BY <1>2, <2>2 DEF Unheard
    <3> QED
      BY <1>1, <1>3, <2>2, <3>1, Counted, TypeParts
  <2> QED
    BY <1>2, <2>1, <2>2
<1>5. firing' \in Nat /\ Owed'
  BY <1>1, <1>2, TypeParts DEF Owed
<1> QED
  BY <1>1, <1>2, <1>4, <1>5, TypeParts, DebounceKeeps

\* A failing call ends the promise of convergence and nothing else.
LEMMA PdnsFailsKeeps ==
  ASSUME RecordInv, NEW e \in following, PdnsFails(e)
  PROVE  RecordInv'
<1> DEFINE m == Cardinality(following)
           c == Cardinality(following \ {e})
<1>1. RecordTypeOK /\ Numbered /\ SyncsInv
  BY DEF RecordInv
<1>2. /\ following' = following \ {e} /\ faults' = faults + 1
      /\ operator + faults + reboots < MaxEvents
      /\ local' \subseteq local
      /\ UNCHANGED <<cf, nextId, hooks, entry, armed, orphans, firing, run, edits,
                     operator, reboots, dirty, overlapped>>
  BY DEF PdnsFails, EventAllowed, timer, counters
<1>3. m \in Nat /\ c \in Nat /\ c = m - 1 /\ IsFiniteSet(following \ {e})
  BY <1>1, TypeParts, FS_RemoveElement, FS_CardinalityType
<1> HIDE DEF m, c
<1>4. /\ Unheard = m + hooks + orphans + firing + (IF armed THEN 1 ELSE 0)
      /\ Unheard' = c + hooks + orphans + firing + (IF armed THEN 1 ELSE 0)
  BY <1>2 DEF Unheard, m, c
<1>5. Unheard' = Unheard - 1
  BY <1>1, <1>3, <1>4, Counted, TypeParts
<1>6. RecordTypeOK'
  <2>1. Unheard' <= edits
    BY <1>1, <1>5, Counted, TypeParts
  <2>2. faults' \in Nat /\ local' \in SUBSET Values
    BY <1>1, <1>2, TypeParts
  <2>3. /\ following' \subseteq [kind : {"add", "update", "delete"}, value : Values, edit : Nat]
        /\ IsFiniteSet(following')
    BY <1>1, <1>2, <1>3, TypeParts
  <2> QED
    BY <1>1, <1>2, <2>1, <2>2, <2>3, TypeParts, TypePartsNext
<1>7. Numbered'
  <2>1. PICK n \in 0 .. edits + operator :
          /\ \A r \in Runs : run[r].pc # "none" <=> r <= n
          /\ n + Unheard <= edits + operator
    BY <1>1, NumberedNow
  <2>2. n \in Nat /\ n + Unheard' <= edits + operator
    BY <1>1, <1>5, <2>1, Counted, TypeParts
  <2>3. operator + faults' + reboots <= MaxEvents
    BY <1>1, <1>2, Counted, TypeParts
  <2> QED
    BY <1>1, <1>2, <2>1, <2>2, <2>3, NumberedNow, NumberedAgain
<1>8. SyncsInv'
  BY <1>1, <1>2, SyncsSame
<1>9. CaughtUp'
  <2>1. faults' # 0
    BY <1>1, <1>2, TypeParts
  <2> QED
    BY <2>1 DEF CaughtUp, Undisturbed
<1> QED
  BY <1>6, <1>7, <1>8, <1>9 DEF RecordInv

-----------------------------------------------------------------------------
(* A sync begins                                                           *)

\* The goroutine that starts is the next one.
LEMMA StartsNext ==
  ASSUME RecordTypeOK, NEW n \in Nat, n + 1 \in Runs, NEW deletes \in BOOLEAN,
         \A r \in Runs : run[r].pc # "none" <=> r <= n,
         StartSync(deletes)
  PROVE  /\ run' \in [Runs -> RunSet] /\ run[n + 1].pc = "none"
         /\ run'[n + 1].pc = "list" /\ run'[n + 1].deletes = deletes
         /\ run'[n + 1].todo = << >>
         /\ \A r \in Runs : r # n + 1 => run'[r] = run[r]
         /\ overlapped' = (overlapped \/ \E s \in Runs : Active(s))
<1> DEFINE Free(s) == run[s].pc = "none" /\ \A t \in Runs : t < s => run[t].pc # "none"
           first == CHOOSE s \in Runs : Free(s)
           k == [NoRun EXCEPT !.pc = "list", !.deletes = deletes]
<1>1. Runs \subseteq Nat /\ run \in [Runs -> RunSet]
  BY TypeParts, BoundsAssumption DEF Runs
<1>2. Free(n + 1)
  <2>1. ~(n + 1 <= n) /\ \A t \in Runs : t < n + 1 => t <= n
    BY <1>1
  <2> QED
    BY <2>1
<1>3. ASSUME NEW s \in Runs, Free(s) PROVE s = n + 1
  <2>1. s \in Nat /\ ~(s <= n)
    BY <1>1, <1>3
  <2>2. n + 1 < s => run[n + 1].pc # "none"
    BY <1>3
  <2>3. ~(n + 1 < s)
    BY <1>2, <2>2
  <2> QED
    BY <2>1, <2>3
<1>4. first = n + 1
  BY <1>2, <1>3, Zenon
<1>5. run' = [run EXCEPT ![first] = k]
  BY DEF StartSync
<1> HIDE DEF first
<1>7. run' = [run EXCEPT ![n + 1] = k]
  BY <1>4, <1>5
<1>8. k \in RunSet
  BY NoRunTyped DEF RunSet
<1>9. k.pc = "list" /\ k.deletes = deletes /\ k.todo = << >>
  BY DEF NoRun
<1> HIDE DEF k
<1>10. /\ run' \in [Runs -> RunSet] /\ run'[n + 1] = k
       /\ \A r \in Runs : r # n + 1 => run'[r] = run[r]
  BY <1>1, <1>7, <1>8
<1>11. overlapped' = (overlapped \/ \E s \in Runs : Active(s))
  BY DEF StartSync
<1> QED
  BY <1>2, <1>9, <1>10, <1>11

\* What a sync that begins leaves true.
LEMMA BeginKeeps ==
  ASSUME RecordInv, NEW n \in Nat, n + 1 \in Runs, NEW deletes \in BOOLEAN,
         \A r \in Runs : run[r].pc # "none" <=> r <= n,
         StartSync(deletes), UNCHANGED <<cf, local, dirty, faults, reboots>>
  PROVE  SyncsInv' /\ CaughtUp' /\ \A r \in Runs : run'[r].pc # "none" <=> r <= n + 1
<1>1. RecordTypeOK /\ SyncsInv /\ CaughtUp
  BY DEF RecordInv
<1>2. /\ run[n + 1].pc = "none"
      /\ run'[n + 1].pc = "list" /\ run'[n + 1].deletes = deletes
      /\ run'[n + 1].todo = << >>
      /\ \A r \in Runs : r # n + 1 => run'[r] = run[r]
      /\ overlapped' = (overlapped \/ \E s \in Runs : Active(s))
  BY <1>1, StartsNext
<1>3. \A r \in Runs : Guarded(run'[r])
  <2>1. Guarded(run'[n + 1])
    BY <1>2 DEF Guarded
  <2> QED
    BY <1>1, <1>2, <2>1 DEF SyncsInv
<1>4. ASSUME ~overlapped' PROVE Alone' /\ \A r \in Runs : Current(run'[r], cf')
  <2>1. \A r \in Runs : ~Active(r)
    BY <1>2, <1>4
  <2>2. \A r \in Runs : Active(r)' => r = n + 1
    BY <1>2, <2>1 DEF Active
  <2>3. \A r \in Runs : run'[r].pc \notin {"load", "apply"}
    BY <1>2, <2>1 DEF Active
  <2>4. \A r \in Runs : Current(run'[r], cf')
    BY <2>3 DEF Current
  <2> QED
    BY <2>2, <2>4 DEF Alone
<1>5. SyncsInv'
  BY <1>3, <1>4 DEF SyncsInv
<1>6. CaughtUp'
  <2>1. Undisturbed' => Undisturbed
    BY <1>2 DEF Undisturbed
  <2>2. Owed'
    BY <1>2 DEF Owed
  <2>3. \A v : Kept(v) => Kept(v)'
    <3> SUFFICES ASSUME NEW v, Kept(v) PROVE Kept(v)'
      OBVIOUS
    <3>1. \A r \in Runs : run'[r].pc = "apply" => run'[r] = run[r]
      BY <1>2
    <3> QED
      BY <3>1 DEF Kept, InCf, Spares
  <2>4. \A v : Planned(v) => Planned(v)'
    <3> SUFFICES ASSUME NEW v, Planned(v) PROVE Planned(v)'
      OBVIOUS
    <3>1. PICK r \in Runs : run[r].pc = "apply" /\ Brings(run[r].todo, v)
      BY DEF Planned
    <3>2. run'[r] = run[r]
      BY <1>2, <3>1
    <3> QED
      BY <3>1, <3>2 DEF Planned, Brings
  <2> QED
    BY <1>1, <2>1, <2>2, <2>3, <2>4 DEF CaughtUp
<1>7. \A r \in Runs : run'[r].pc # "none" <=> r <= n + 1
  <2> SUFFICES ASSUME NEW r \in Runs PROVE run'[r].pc # "none" <=> r <= n + 1
    OBVIOUS
  <2>1. r \in Nat
    BY BoundsAssumption DEF Runs
  <2>2. CASE r = n + 1
    BY <1>2, <2>2
  <2>3. CASE r # n + 1
    <3>1. r <= n <=> r <= n + 1
      BY <2>1, <2>3
    <3> QED
      BY <1>2, <2>3, <3>1
  <2> QED
    BY <2>2, <2>3
<1> QED
  BY <1>5, <1>6, <1>7

LEMMA Room ==
  ASSUME RecordTypeOK, Numbered
  PROVE  \E n \in Nat :
           /\ n \in 0 .. edits + operator
           /\ \A r \in Runs : run[r].pc # "none" <=> r <= n
           /\ n + Unheard <= edits + operator
           /\ Unheard > 0 \/ operator < MaxEvents => n + 1 \in Runs
<1>1. PICK n \in 0 .. edits + operator :
        /\ \A r \in Runs : run[r].pc # "none" <=> r <= n
        /\ n + Unheard <= edits + operator
  BY NumberedNow
<1>2. /\ edits <= MaxEdits /\ operator + faults + reboots <= MaxEvents
      /\ edits \in Nat /\ operator \in Nat /\ faults \in Nat /\ reboots \in Nat
      /\ Unheard \in Nat /\ MaxEdits \in Nat /\ MaxEvents \in Nat
  BY NumberedNow, Counted, TypeParts
<1>3. n \in Nat /\ operator <= MaxEvents
  BY <1>1, <1>2
<1>4. Unheard > 0 \/ operator < MaxEvents => n + 1 <= MaxEdits + MaxEvents
  BY <1>1, <1>2, <1>3
<1>5. Unheard > 0 \/ operator < MaxEvents => n + 1 \in Runs
  BY <1>2, <1>3, <1>4 DEF Runs
<1> QED
  BY <1>1, <1>3, <1>5

LEMMA CallbackKeeps == ASSUME RecordInv, Callback PROVE RecordInv'
<1>1. RecordTypeOK /\ Numbered /\ SyncsInv
  BY DEF RecordInv
<1>2. /\ firing > 0 /\ firing' = firing - 1 /\ entry' = FALSE /\ armed' = FALSE
      /\ orphans' = IF armed THEN orphans + 1 ELSE orphans
      /\ UNCHANGED <<local, cf, nextId, following, hooks, edits, operator, reboots, dirty>>
  BY DEF Callback, counters
<1> DEFINE m == Cardinality(following)
           o == IF armed THEN orphans + 1 ELSE orphans
           a == IF armed THEN 1 ELSE 0
<1>3. m \in Nat /\ o \in Nat /\ a \in Nat /\ o = orphans + a
  BY <1>1, Counted, TypeParts
<1>4. Unheard = m + hooks + orphans + firing + a
  BY DEF Unheard
<1>5. Unheard' = m + hooks + o + (firing - 1) + 0
  BY <1>2 DEF Unheard
<1> HIDE DEF m, o, a
<1>6. Unheard' = Unheard - 1 /\ Unheard > 0
  BY <1>1, <1>2, <1>3, <1>4, <1>5, Counted, TypeParts
<1>7. orphans' = o
  BY <1>2 DEF o
<1>8. /\ hooks' \in Nat /\ orphans' \in Nat /\ firing' \in Nat
      /\ entry' \in BOOLEAN /\ armed' \in BOOLEAN /\ (armed' => entry')
  <2>1. hooks' \in Nat /\ orphans' \in Nat /\ firing' \in Nat
    BY <1>1, <1>2, <1>3, <1>7, TypeParts
  <2>2. entry' \in BOOLEAN /\ armed' \in BOOLEAN /\ (armed' => entry')
    BY <1>2, Zenon
  <2> QED
    BY <2>1, <2>2
<1>9. Unheard' <= edits'
  BY <1>1, <1>2, <1>6, Counted, TypeParts
<1>10. PICK n \in Nat :
         /\ n \in 0 .. edits + operator
         /\ \A r \in Runs : run[r].pc # "none" <=> r <= n
         /\ n + Unheard <= edits + operator
         /\ Unheard > 0 => n + 1 \in Runs
  BY <1>1, Room
<1>11. CASE StartSync(FALSE) /\ UNCHANGED faults
  <2>1. /\ run' \in [Runs -> RunSet]
        /\ overlapped' = (overlapped \/ \E s \in Runs : Active(s))
    BY <1>1, <1>6, <1>10, <1>11, StartsNext
  <2>2. RecordTypeOK'
    BY <1>1, <1>2, <1>8, <1>9, <1>11, <2>1, TypeParts, TypePartsNext
  <2>3. SyncsInv' /\ CaughtUp' /\ \A r \in Runs : run'[r].pc # "none" <=> r <= n + 1
    BY <1>2, <1>6, <1>10, <1>11, BeginKeeps
  <2>4. /\ n + 1 \in Nat /\ n + 1 \in 0 .. edits + operator
        /\ (n + 1) + Unheard' <= edits + operator
    BY <1>1, <1>6, <1>10, Counted, TypeParts
  <2>5. Numbered'
    BY <1>1, <1>2, <1>11, <2>3, <2>4, NumberedNow, NumberedAgain
  <2> QED
    BY <2>2, <2>3, <2>5 DEF RecordInv
<1>12. CASE /\ EventAllowed /\ faults' = faults + 1
            /\ UNCHANGED <<run, overlapped>>
  <2>1. faults' \in Nat /\ faults' # 0 /\ operator + faults' + reboots <= MaxEvents
    BY <1>1, <1>12, Counted, TypeParts DEF EventAllowed
  <2>2. RecordTypeOK'
    BY <1>1, <1>2, <1>8, <1>9, <1>12, <2>1, TypeParts, TypePartsNext
  <2>3. n + Unheard' <= edits + operator
    BY <1>1, <1>6, <1>10, Counted, TypeParts
  <2>4. Numbered'
    BY <1>1, <1>2, <1>10, <1>12, <2>1, <2>3, NumberedNow, NumberedAgain
  <2>5. SyncsInv' /\ CaughtUp'
    BY <1>1, <1>2, <1>12, <2>1, SyncsSame DEF CaughtUp, Undisturbed
  <2> QED
    BY <2>2, <2>4, <2>5 DEF RecordInv
<1> QED
  BY <1>11, <1>12 DEF Callback

LEMMA OperatorSyncKeeps == ASSUME RecordInv, OperatorSync PROVE RecordInv'
<1>1. RecordTypeOK /\ Numbered
  BY DEF RecordInv
<1>2. /\ operator' = operator + 1 /\ operator + faults + reboots < MaxEvents
      /\ UNCHANGED <<local, cf, nextId, following, hooks, entry, armed, orphans, firing,
                     edits, faults, reboots, dirty>>
  BY DEF OperatorSync, EventAllowed, timer
<1>3. PICK deletes \in BOOLEAN : StartSync(deletes)
  BY DEF OperatorSync
<1>4. operator < MaxEvents /\ operator' \in Nat
  BY <1>1, <1>2, Counted, TypeParts
<1>5. PICK n \in Nat :
         /\ n \in 0 .. edits + operator
         /\ \A r \in Runs : run[r].pc # "none" <=> r <= n
         /\ n + Unheard <= edits + operator
         /\ operator < MaxEvents => n + 1 \in Runs
  BY <1>1, Room
<1>6. Unheard' = Unheard
  BY <1>2 DEF Unheard
<1>7. /\ run' \in [Runs -> RunSet]
      /\ overlapped' = (overlapped \/ \E s \in Runs : Active(s))
  BY <1>1, <1>3, <1>4, <1>5, StartsNext
<1>8. RecordTypeOK'
  BY <1>1, <1>2, <1>4, <1>6, <1>7, TypeParts, TypePartsNext
<1>9. SyncsInv' /\ CaughtUp' /\ \A r \in Runs : run'[r].pc # "none" <=> r <= n + 1
  BY <1>2, <1>3, <1>4, <1>5, BeginKeeps
<1>10. Numbered'
  <2>1. /\ n + 1 \in Nat /\ n + 1 \in 0 .. edits + (operator + 1)
        /\ (n + 1) + Unheard <= edits + (operator + 1)
    BY <1>1, <1>5, Counted, TypeParts
  <2>2. (operator + 1) + faults + reboots <= MaxEvents /\ edits <= MaxEdits
    BY <1>1, <1>2, Counted, TypeParts, NumberedNow
  <2> QED
    BY <1>2, <1>6, <1>9, <2>1, <2>2, NumberedAgain
<1> QED
  BY <1>8, <1>9, <1>10 DEF RecordInv

-----------------------------------------------------------------------------
(* The calls of a sync                                                     *)

\* A call of one sync moves it and no other.
LEMMA RunMoves ==
  ASSUME RecordTypeOK, Numbered, NEW r \in Runs, Active(r), NEW k \in RunSet,
         k.pc # "none", run' = [run EXCEPT ![r] = k],
         UNCHANGED <<local, following, hooks, timer, edits, operator, reboots, overlapped>>,
         faults' \in Nat, operator + faults' + reboots <= MaxEvents, dirty' \in BOOLEAN,
         DOMAIN cf' \subseteq 1 .. (nextId' - 1), \A id \in DOMAIN cf' : cf'[id] \in Values,
         nextId' \in Nat \ {0}
  PROVE  /\ RecordTypeOK' /\ Numbered' /\ run'[r] = k
         /\ \A s \in Runs : s # r => run'[s] = run[s]
<1>1. run' \in [Runs -> RunSet] /\ run'[r] = k /\ \A s \in Runs : s # r => run'[s] = run[s]
  BY TypeParts
<1>2. UNCHANGED <<local, following, hooks, entry, armed, orphans, firing, edits, operator,
                  reboots, overlapped>>
  BY DEF timer
<1>3. Unheard' = Unheard
  BY <1>2 DEF Unheard
<1>4. RecordTypeOK'
  BY <1>1, <1>2, <1>3, TypeParts, TypePartsNext
<1>5. Numbered'
  <2>1. PICK n \in 0 .. edits + operator :
          /\ \A s \in Runs : run[s].pc # "none" <=> s <= n
          /\ n + Unheard <= edits + operator
    BY NumberedNow
  <2>2. n \in Nat
    BY TypeParts
  <2>3. run[r].pc # "none"
    BY DEF Active
  <2>4. \A s \in Runs : run'[s].pc # "none" <=> s <= n
    BY <1>1, <2>1, <2>3
  <2> QED
    BY <1>2, <1>3, <2>1, <2>2, <2>4, NumberedNow, NumberedAgain
<1> QED
  BY <1>1, <1>4, <1>5

LEMMA SyncStep ==
  ASSUME SyncsInv, NEW r \in Runs, Active(r), UNCHANGED overlapped,
         \A s \in Runs : s # r => run'[s] = run[s],
         Guarded(run'[r]), ~overlapped => Current(run'[r], cf')
  PROVE  SyncsInv'
<1>1. \A s \in Runs : Guarded(run'[s])
  BY DEF SyncsInv
<1>2. ASSUME ~overlapped
      PROVE  Alone' /\ \A s \in Runs : Current(run'[s], cf')
  <2>1. \A s \in Runs : s # r => ~Active(s)
    BY <1>2 DEF SyncsInv, Alone
  <2>2. \A s \in Runs : s # r => run'[s].pc \notin {"list", "load", "apply"}
    BY <2>1 DEF Active
  <2>3. Alone'
    BY <2>2 DEF Alone, Active
  <2>4. \A s \in Runs : Current(run'[s], cf')
    BY <1>2, <2>2 DEF Current
  <2> QED
    BY <2>3, <2>4
<1> QED
  BY <1>1, <1>2 DEF SyncsInv

\* With one sync at work, what is kept and what is planned is up to it.
LEMMA OneRun ==
  ASSUME SyncsInv, ~overlapped, NEW r \in Runs, Active(r),
         \A s \in Runs : s # r => run'[s] = run[s]
  PROVE  /\ \A v : Kept(v) =>
              InCf(v, cf) /\ (run[r].pc = "apply" => Spares(run[r].todo, cf, v))
         /\ \A v : Planned(v) => run[r].pc = "apply" /\ Brings(run[r].todo, v)
         /\ \A v : InCf(v, cf') /\ (run'[r].pc = "apply" => Spares(run'[r].todo, cf', v))
                     => Kept(v)'
         /\ \A v : run'[r].pc = "apply" /\ Brings(run'[r].todo, v) => Planned(v)'
         /\ Owed /\ run[r].pc = "apply" =>
              following # {} \/ hooks > 0 \/ armed \/ orphans > 0 \/ firing > 0
<1>1. \A s \in Runs : s # r => run[s].pc \notin {"list", "load", "apply"}
  BY DEF SyncsInv, Alone, Active
<1>2. \A s \in Runs : s # r => run'[s].pc \notin {"list", "load", "apply"}
  BY <1>1
<1>3. ASSUME NEW v, InCf(v, cf'), run'[r].pc = "apply" => Spares(run'[r].todo, cf', v)
      PROVE  Kept(v)'
  <2>1. \A s \in Runs : run'[s].pc = "apply" => Spares(run'[s].todo, cf', v)
    BY <1>2, <1>3
  <2> QED
    BY <1>3, <2>1 DEF Kept, Spares, InCf
<1>4. ASSUME NEW v, run'[r].pc = "apply", Brings(run'[r].todo, v)
      PROVE  Planned(v)'
  BY <1>4 DEF Planned, Brings
<1>5. \A v : Planned(v) => run[r].pc = "apply" /\ Brings(run[r].todo, v)
  BY <1>1 DEF Planned
<1>6. \A v : Kept(v) =>
         InCf(v, cf) /\ (run[r].pc = "apply" => Spares(run[r].todo, cf, v))
  BY DEF Kept
<1>7. Owed /\ run[r].pc = "apply" =>
        following # {} \/ hooks > 0 \/ armed \/ orphans > 0 \/ firing > 0
  BY <1>1 DEF Owed
<1> QED
  BY <1>3, <1>4, <1>5, <1>6, <1>7

LEMMA ListKeeps ==
  ASSUME RecordInv, NEW r \in Runs, ListRecords(r)
  PROVE  RecordInv'
<1>1. RecordTypeOK /\ Numbered /\ SyncsInv /\ CaughtUp
  BY DEF RecordInv
<1>2. /\ run[r].pc = "list"
      /\ UNCHANGED <<local, cf, nextId, following, hooks, timer, edits, operator,
                     reboots, faults, dirty, overlapped>>
  BY DEF ListRecords, counters
<1>3. PICK f \in Listings(cf) :
        run' = [run EXCEPT ![r] = [@ EXCEPT !.pc = "load", !.listed = f]]
  BY DEF ListRecords
<1> DEFINE k == [run[r] EXCEPT !.pc = "load", !.listed = f]
<1>4. run \in [Runs -> RunSet] /\ run[r] \in RunSet
  BY <1>1, TypeParts
<1>5. f \in UNION {[V -> Nat] : V \in SUBSET Values}
  <2> DEFINE V == {cf[id] : id \in DOMAIN cf}
  <2>1. V \in SUBSET Values /\ DOMAIN cf \subseteq Nat
    BY <1>1, TypeParts
  <2>2. f \in [V -> DOMAIN cf]
    BY DEF Listings
  <2> HIDE DEF V
  <2>3. f \in [V -> Nat]
    BY <2>1, <2>2
  <2> QED
    BY <2>1, <2>3
<1>6. k \in RunSet /\ k.pc = "load" /\ k.listed = f /\ k.todo = run[r].todo
      /\ k.deletes = run[r].deletes
  BY <1>4, <1>5 DEF RunSet
<1>7. run' = [run EXCEPT ![r] = k]
  BY <1>3
<1> HIDE DEF k
<1>8. Active(r)
  BY <1>2 DEF Active
<1>9. /\ RecordTypeOK' /\ Numbered' /\ run'[r] = k
      /\ \A s \in Runs : s # r => run'[s] = run[s]
  BY <1>1, <1>2, <1>6, <1>7, <1>8, RunMoves, TypeParts, NumberedNow
<1>10. SyncsInv'
  <2>1. Guarded(run[r])
    BY <1>1 DEF SyncsInv
  <2>2. Guarded(run'[r])
    BY <1>6, <1>9, <2>1 DEF Guarded
  <2>3. Current(run'[r], cf')
    BY <1>2, <1>6, <1>9 DEF Current
  <2> QED
    BY <1>1, <1>2, <1>8, <1>9, <2>2, <2>3, SyncStep
<1>11. CaughtUp'
  <2> SUFFICES ASSUME Undisturbed'
               PROVE  IF dirty' THEN Owed' ELSE \A v \in local' : Kept(v)' \/ Planned(v)'
    BY DEF CaughtUp
  <2>1. Undisturbed /\ ~overlapped
    BY <1>2 DEF Undisturbed
  <2>2. Owed'
    BY <1>6, <1>9 DEF Owed
  <2>3. ASSUME NEW v \in local, ~dirty PROVE Kept(v)'
    <3>1. Kept(v) \/ Planned(v)
      BY <1>1, <2>1, <2>3 DEF CaughtUp
    <3>2. InCf(v, cf)
      BY <1>1, <1>2, <1>8, <1>9, <2>1, <3>1, OneRun
    <3>3. InCf(v, cf') /\ run'[r].pc # "apply"
      BY <1>2, <1>6, <1>9, <3>2
    <3> QED
      BY <1>1, <1>8, <1>9, <2>1, <3>3, OneRun
  <2> QED
    BY <1>2, <2>2, <2>3
<1> QED
  BY <1>9, <1>10, <1>11 DEF RecordInv

LEMMA LoadKeeps ==
  ASSUME RecordInv, NEW r \in Runs, LoadLocal(r)
  PROVE  RecordInv'
<1> DEFINE p == Plan(local, run[r].listed, run[r].deletes)
           k == [NoRun EXCEPT !.pc = "apply", !.deletes = run[r].deletes, !.todo = p]
<1>1. RecordTypeOK /\ Numbered /\ SyncsInv
  BY DEF RecordInv
<1>2. /\ run[r].pc = "load" /\ run' = [run EXCEPT ![r] = k] /\ dirty' = FALSE
      /\ UNCHANGED <<local, cf, nextId, following, hooks, timer, edits, operator,
                     reboots, faults, overlapped>>
  BY DEF LoadLocal, counters
<1>3. run[r] \in RunSet /\ local \subseteq Values
  BY <1>1, TypeParts
<1>4. PICK V \in SUBSET Values : run[r].listed \in [V -> Nat]
  BY <1>3 DEF RunSet
<1>5. run[r].deletes \in BOOLEAN
  BY <1>3 DEF RunSet
<1>6. /\ p \in Seq(Ops)
      /\ \A i \in DOMAIN p : p[i].kind = "delete" =>
           run[r].deletes /\ p[i].value \notin MailValues
  BY <1>3, <1>4, <1>5, PlanIsTyped
<1> HIDE DEF p
<1>7. k \in RunSet
  BY <1>5, <1>6, NoRunTyped DEF RunSet
<1>8. k.pc = "apply" /\ k.deletes = run[r].deletes /\ k.todo = p
  BY <1>5 DEF NoRun
<1> HIDE DEF k
<1>9. Active(r)
  BY <1>2 DEF Active
<1>10. /\ RecordTypeOK' /\ Numbered' /\ run'[r] = k
       /\ \A s \in Runs : s # r => run'[s] = run[s]
  BY <1>1, <1>2, <1>7, <1>8, <1>9, RunMoves, TypeParts, NumberedNow
<1>11. ASSUME ~overlapped
       PROVE  /\ Sound(p, cf)
              /\ \A v \in local : (InCf(v, cf) /\ Spares(p, cf, v)) \/ Brings(p, v)
  <2>1. run[r].listed \in Listings(cf)
    BY <1>1, <1>2, <1>11 DEF SyncsInv, Current
  <2>2. DOMAIN cf \subseteq Nat /\ \A id \in DOMAIN cf : cf[id] \in Values
    BY <1>1, TypeParts
  <2> QED
    BY <1>3, <1>5, <2>1, <2>2, PlanIsSound DEF p
<1>12. SyncsInv'
  <2>1. Guarded(run'[r])
    BY <1>6, <1>8, <1>10 DEF Guarded
  <2>2. ~overlapped => Current(run'[r], cf')
    BY <1>2, <1>8, <1>10, <1>11 DEF Current
  <2> QED
    BY <1>1, <1>2, <1>9, <1>10, <2>1, <2>2, SyncStep
<1>13. CaughtUp'
  <2> SUFFICES ASSUME Undisturbed', NEW v \in local' PROVE Kept(v)' \/ Planned(v)'
    BY <1>2 DEF CaughtUp
  <2>1. ~overlapped /\ v \in local
    BY <1>2 DEF Undisturbed
  <2>2. run'[r].pc = "apply" /\ run'[r].todo = p /\ cf' = cf
    BY <1>2, <1>8, <1>10
  <2>3. CASE InCf(v, cf) /\ Spares(p, cf, v)
    BY <1>1, <1>9, <1>10, <2>1, <2>2, <2>3, OneRun
  <2>4. CASE Brings(p, v)
    BY <1>1, <1>9, <1>10, <2>1, <2>2, <2>4, OneRun
  <2> QED
    BY <1>11, <2>1, <2>3, <2>4
<1> QED
  BY <1>10, <1>12, <1>13 DEF RecordInv

\* A sync that ends brings nothing more and plans nothing more.
LEMMA EndTyped ==
  /\ [NoRun EXCEPT !.pc = "ended"] \in RunSet
  /\ [NoRun EXCEPT !.pc = "ended"].pc = "ended"
  /\ [NoRun EXCEPT !.pc = "ended"].todo = << >>
  /\ DOMAIN [NoRun EXCEPT !.pc = "ended"].todo = {}
<1>1. DOMAIN << >> = {}
  OBVIOUS
<1> QED
  BY <1>1, NoRunTyped DEF RunSet, NoRun

LEMMA EndKeeps ==
  ASSUME RecordInv, NEW r \in Runs, Active(r),
         run' = [run EXCEPT ![r] = [NoRun EXCEPT !.pc = "ended"]],
         UNCHANGED <<local, cf, nextId, following, hooks, timer, edits, operator,
                     reboots, dirty, overlapped>>,
         faults' \in Nat, operator + faults' + reboots <= MaxEvents, CaughtUp'
  PROVE  RecordInv'
<1> DEFINE k == [NoRun EXCEPT !.pc = "ended"]
<1>1. RecordTypeOK /\ Numbered /\ SyncsInv
  BY DEF RecordInv
<1>2. k \in RunSet /\ k.pc = "ended" /\ DOMAIN k.todo = {} /\ run' = [run EXCEPT ![r] = k]
  BY EndTyped
<1> HIDE DEF k
<1>3. /\ RecordTypeOK' /\ Numbered' /\ run'[r] = k
      /\ \A s \in Runs : s # r => run'[s] = run[s]
  BY <1>1, <1>2, RunMoves, TypeParts
<1>4. Guarded(run'[r]) /\ Current(run'[r], cf')
  <2>1. run'[r].pc = "ended" /\ DOMAIN run'[r].todo = {}
    BY <1>2, <1>3
  <2> QED
    BY <2>1 DEF Guarded, Current
<1>5. SyncsInv'
  BY <1>1, <1>3, <1>4, SyncStep
<1> QED
  BY <1>3, <1>5 DEF RecordInv

LEMMA SyncedKeeps ==
  ASSUME RecordInv, NEW r \in Runs, Synced(r)
  PROVE  RecordInv'
<1>1. RecordTypeOK /\ Numbered /\ SyncsInv /\ CaughtUp
  BY DEF RecordInv
<1>2. /\ run[r].pc = "apply" /\ run[r].todo = << >>
      /\ run' = [run EXCEPT ![r] = [NoRun EXCEPT !.pc = "ended"]]
      /\ UNCHANGED <<local, cf, nextId, following, hooks, timer, edits, operator,
                     reboots, faults, dirty, overlapped>>
  BY DEF Synced, counters
<1>3. Active(r)
  BY <1>2 DEF Active
<1>4. run'[r].pc = "ended" /\ \A s \in Runs : s # r => run'[s] = run[s]
  BY <1>1, <1>2, EndTyped, TypeParts
<1>5. CaughtUp'
  <2> SUFFICES ASSUME Undisturbed'
               PROVE  IF dirty' THEN Owed' ELSE \A v \in local' : Kept(v)' \/ Planned(v)'
    BY DEF CaughtUp
  <2>1. Undisturbed /\ ~overlapped
    BY <1>2 DEF Undisturbed
  <2>2. ASSUME dirty' PROVE Owed'
    <3>1. Owed
      BY <1>1, <1>2, <2>1, <2>2 DEF CaughtUp
    <3>2. following # {} \/ hooks > 0 \/ armed \/ orphans > 0 \/ firing > 0
      BY <1>1, <1>2, <1>3, <1>4, <2>1, <3>1, OneRun
    <3> QED
      BY <1>2, <3>2 DEF Owed, timer
  <2>3. ASSUME NEW v \in local, ~dirty PROVE Kept(v)'
    <3>1. Kept(v) \/ Planned(v)
      BY <1>1, <2>1, <2>3 DEF CaughtUp
    <3>2. ~Brings(run[r].todo, v)
      BY <1>2 DEF Brings
    <3>3. InCf(v, cf)
      BY <1>1, <1>3, <1>4, <2>1, <3>1, <3>2, OneRun
    <3>4. InCf(v, cf') /\ run'[r].pc # "apply"
      BY <1>2, <1>4, <3>3
    <3> QED
      BY <1>1, <1>3, <1>4, <2>1, <3>4, OneRun
  <2> QED
    BY <1>2, <2>2, <2>3
<1> QED
  BY <1>1, <1>2, <1>3, <1>5, EndKeeps, TypeParts, NumberedNow

LEMMA CallFailsKeeps ==
  ASSUME RecordInv, NEW r \in Runs, CallFails(r)
  PROVE  RecordInv'
<1>1. RecordTypeOK /\ Numbered
  BY DEF RecordInv
<1>2. /\ Active(r) /\ faults' = faults + 1 /\ operator + faults + reboots < MaxEvents
      /\ run' = [run EXCEPT ![r] = [NoRun EXCEPT !.pc = "ended"]]
      /\ UNCHANGED <<local, cf, nextId, following, hooks, timer, edits, operator,
                     reboots, dirty, overlapped>>
  BY DEF CallFails, EventAllowed, counters
<1>3. faults' \in Nat /\ faults' # 0 /\ operator + faults' + reboots <= MaxEvents
  BY <1>1, <1>2, TypeParts, Counted
<1>4. CaughtUp'
  BY <1>3 DEF CaughtUp, Undisturbed
<1> QED
  BY <1>2, <1>3, <1>4, EndKeeps

LEMMA AppliedNext ==
  ASSUME NEW u \in Ops, NEW fresh, fresh \notin DOMAIN cf, Accepts(u, cf),
         cf' = Applied(u, cf, fresh)
  PROVE  /\ u.kind = "update" =>
              /\ DOMAIN cf' = DOMAIN cf /\ cf'[u.id] = u.value
              /\ \A id \in DOMAIN cf : id # u.id => cf'[id] = cf[id]
         /\ u.kind = "create" =>
              /\ DOMAIN cf' = DOMAIN cf \cup {fresh} /\ cf'[fresh] = u.value
              /\ \A id \in DOMAIN cf : cf'[id] = cf[id]
         /\ u.kind = "delete" =>
              /\ DOMAIN cf' = DOMAIN cf \ {u.id}
              /\ \A id \in DOMAIN cf : id # u.id => cf'[id] = cf[id]
         /\ u.kind \in {"update", "create", "delete"}
<1>1. u.kind \in {"update", "create", "delete"}
  BY DEF Ops
<1>2. CASE u.kind = "update"
  <2>1. cf' = [cf EXCEPT ![u.id] = u.value]
    BY <1>2 DEF Applied
  <2>2. u.id \in DOMAIN cf
    BY <1>2 DEF Accepts
  <2> QED
    BY <1>2, <2>1, <2>2
<1>3. CASE u.kind = "create"
  <2>1. cf' = [id \in DOMAIN cf \cup {fresh} |-> IF id = fresh THEN u.value ELSE cf[id]]
    BY <1>3 DEF Applied
  <2> QED
    BY <1>3, <2>1
<1>4. CASE u.kind = "delete"
  <2>1. cf' = [id \in DOMAIN cf \ {u.id} |-> cf[id]]
    BY <1>4 DEF Applied
  <2> QED
    BY <1>4, <2>1
<1> QED
  BY <1>1, <1>2, <1>3, <1>4

LEMMA ApplyKeeps ==
  ASSUME RecordInv, NEW r \in Runs, ApplyNext(r)
  PROVE  RecordInv'
<1> DEFINE ops == run[r].todo
           u == Head(ops)
           k == [run[r] EXCEPT !.todo = Tail(run[r].todo)]
<1>1. RecordTypeOK /\ Numbered /\ SyncsInv /\ CaughtUp
  BY DEF RecordInv
<1>2. /\ run[r].pc = "apply" /\ ops # << >>
      /\ UNCHANGED <<local, following, hooks, timer, edits, operator,
                     reboots, faults, dirty, overlapped>>
  BY DEF ApplyNext, counters
<1>3. run \in [Runs -> RunSet] /\ run[r] \in RunSet /\ ops \in Seq(Ops)
  BY <1>1, TypeParts DEF RunSet
<1>4. Active(r)
  BY <1>2 DEF Active
<1>5. nextId \in Nat \ {0} /\ nextId \notin DOMAIN cf
  BY <1>1, TypeParts
<1>6. ~overlapped => Sound(ops, cf)
  BY <1>1, <1>2 DEF SyncsInv, Current
<1>7. CASE /\ Accepts(u, cf) /\ cf' = Applied(u, cf, nextId)
           /\ nextId' = IF u.kind = "create" THEN nextId + 1 ELSE nextId
           /\ run' = [run EXCEPT ![r] = [@ EXCEPT !.todo = Tail(ops)]]
  <2>1. u \in Ops /\ Tail(ops) \in Seq(Ops) /\ u = ops[1]
    BY <1>2, <1>3, TailOf
  <2>2. k \in RunSet /\ k.pc = "apply" /\ k.todo = Tail(ops) /\ k.deletes = run[r].deletes
    BY <1>2, <1>3, <2>1 DEF RunSet
  <2>3. run' = [run EXCEPT ![r] = k]
    BY <1>7
  <2> HIDE DEF k
  <2>4. /\ nextId' \in Nat \ {0} /\ DOMAIN cf' \subseteq 1 .. (nextId' - 1)
        /\ \A id \in DOMAIN cf' : cf'[id] \in Values
    <3> DEFINE next == IF u.kind = "create" THEN nextId + 1 ELSE nextId
    <3>1. u.value \in Values /\ DOMAIN cf \subseteq 1 .. (nextId - 1)
          /\ \A id \in DOMAIN cf : cf[id] \in Values
      BY <1>1, <2>1, TypeParts DEF Ops
    <3>2. /\ u.kind = "update" =>
               /\ DOMAIN cf' = DOMAIN cf /\ cf'[u.id] = u.value
               /\ \A id \in DOMAIN cf : id # u.id => cf'[id] = cf[id]
          /\ u.kind = "create" =>
               /\ DOMAIN cf' = DOMAIN cf \cup {nextId} /\ cf'[nextId] = u.value
               /\ \A id \in DOMAIN cf : cf'[id] = cf[id]
          /\ u.kind = "delete" =>
               /\ DOMAIN cf' = DOMAIN cf \ {u.id}
               /\ \A id \in DOMAIN cf : id # u.id => cf'[id] = cf[id]
          /\ u.kind \in {"update", "create", "delete"}
      BY <1>5, <1>7, <2>1, AppliedNext
    <3>3. next \in Nat \ {0} /\ 1 .. (nextId - 1) \subseteq 1 .. (next - 1)
          /\ (u.kind = "create" => nextId \in 1 .. (next - 1))
      <4>1. CASE u.kind = "create"
        <5>1. next = nextId + 1 /\ nextId # 0
          BY <1>5, <4>1
        <5> QED
          BY <1>5, <4>1, <5>1
      <4>2. CASE u.kind # "create"
        BY <1>5, <4>2
      <4> QED
        BY <4>1, <4>2
    <3> HIDE DEF next
    <3>4. DOMAIN cf' \subseteq 1 .. (next - 1)
      BY <3>1, <3>2, <3>3
    <3>5. \A id \in DOMAIN cf' : cf'[id] \in Values
      BY <3>1, <3>2
    <3>6. nextId' = next
      BY <1>7 DEF next
    <3> QED
      BY <3>3, <3>4, <3>5, <3>6
  <2>5. /\ RecordTypeOK' /\ Numbered' /\ run'[r] = k
        /\ \A s \in Runs : s # r => run'[s] = run[s]
    BY <1>1, <1>2, <1>4, <2>2, <2>3, <2>4, RunMoves, TypeParts, NumberedNow
  <2>6. Guarded(run'[r])
    <3>1. Guarded(run[r])
      BY <1>1 DEF SyncsInv
    <3>2. \A i \in DOMAIN Tail(ops) : i + 1 \in DOMAIN ops /\ Tail(ops)[i] = ops[i + 1]
      BY <1>2, <1>3, TailOf
    <3>3. ASSUME NEW i \in DOMAIN run'[r].todo, run'[r].todo[i].kind = "delete"
          PROVE  run'[r].deletes /\ run'[r].todo[i].value \notin MailValues
      <4>1. run'[r].todo = Tail(ops) /\ run'[r].deletes = run[r].deletes
        BY <2>2, <2>5
      <4>2. i + 1 \in DOMAIN ops /\ run'[r].todo[i] = ops[i + 1]
        BY <3>2, <3>3, <4>1
      <4> QED
        BY <3>1, <3>3, <4>1, <4>2 DEF Guarded
    <3> QED
      BY <3>3 DEF Guarded
  <2>7. ASSUME ~overlapped
        PROVE  /\ Sound(Tail(ops), cf')
               /\ \A v : InCf(v, cf) /\ Spares(ops, cf, v) =>
                           InCf(v, cf') /\ Spares(Tail(ops), cf', v)
               /\ \A v : Brings(ops, v) =>
                           \/ InCf(v, cf') /\ Spares(Tail(ops), cf', v)
                           \/ Brings(Tail(ops), v)
    BY <1>2, <1>3, <1>5, <1>6, <1>7, <2>7, SoundNext
  <2>8. SyncsInv'
    <3>1. ~overlapped => Current(run'[r], cf')
      BY <2>2, <2>5, <2>7 DEF Current
    <3> QED
      BY <1>1, <1>2, <1>4, <2>5, <2>6, <3>1, SyncStep
  <2>9. CaughtUp'
    <3> SUFFICES ASSUME Undisturbed'
                 PROVE  IF dirty' THEN Owed' ELSE \A v \in local' : Kept(v)' \/ Planned(v)'
      BY DEF CaughtUp
    <3>1. Undisturbed /\ ~overlapped
      BY <1>2 DEF Undisturbed
    <3>2. ASSUME dirty' PROVE Owed'
      <4>1. Owed
        BY <1>1, <1>2, <3>1, <3>2 DEF CaughtUp
      <4>2. following # {} \/ hooks > 0 \/ armed \/ orphans > 0 \/ firing > 0
        BY <1>1, <1>2, <1>4, <2>5, <3>1, <4>1, OneRun
      <4> QED
        BY <1>2, <4>2 DEF Owed, timer
    <3>3. ASSUME NEW v \in local, ~dirty PROVE Kept(v)' \/ Planned(v)'
      <4>1. Kept(v) \/ Planned(v)
        BY <1>1, <3>1, <3>3 DEF CaughtUp
      <4>2. (InCf(v, cf) /\ Spares(ops, cf, v)) \/ Brings(ops, v)
        BY <1>1, <1>2, <1>4, <2>5, <3>1, <4>1, OneRun
      <4>3. \/ InCf(v, cf') /\ Spares(Tail(ops), cf', v)
            \/ Brings(Tail(ops), v)
        BY <2>7, <3>1, <4>2
      <4>4. run'[r].pc = "apply" /\ run'[r].todo = Tail(ops)
        BY <2>2, <2>5
      <4>5. CASE InCf(v, cf') /\ Spares(Tail(ops), cf', v)
        BY <1>1, <1>4, <2>5, <3>1, <4>4, <4>5, OneRun
      <4>6. CASE Brings(Tail(ops), v)
        BY <1>1, <1>4, <2>5, <3>1, <4>4, <4>6, OneRun
      <4> QED
        BY <4>3, <4>5, <4>6
    <3> QED
      BY <1>2, <3>2, <3>3
  <2> QED
    BY <2>5, <2>8, <2>9 DEF RecordInv
<1>8. CASE /\ Refuses(u, cf)
           /\ run' = [run EXCEPT ![r] = [NoRun EXCEPT !.pc = "ended"]]
           /\ UNCHANGED <<cf, nextId>>
  <2>1. overlapped
    BY <1>2, <1>3, <1>5, <1>6, <1>8, SoundNext
  <2>2. CaughtUp'
    BY <1>2, <2>1 DEF CaughtUp, Undisturbed
  <2> QED
    BY <1>1, <1>2, <1>4, <1>8, <2>2, EndKeeps, TypeParts, NumberedNow
<1> QED
  BY <1>7, <1>8 DEF ApplyNext

LEMMA RestartKeeps == ASSUME RecordInv, ProcessRestarts PROVE RecordInv'
<1>1. RecordTypeOK /\ Numbered /\ SyncsInv
  BY DEF RecordInv
<1>2. /\ reboots' = reboots + 1 /\ operator + faults + reboots < MaxEvents
      /\ following' = {} /\ hooks' = 0 /\ entry' = FALSE /\ armed' = FALSE
      /\ orphans' = 0 /\ firing' = 0
      /\ UNCHANGED <<local, cf, nextId, edits, operator, faults, dirty, overlapped>>
  BY DEF ProcessRestarts, EventAllowed
<1>3. \A r \in Runs : run'[r] = IF Active(r) THEN [NoRun EXCEPT !.pc = "ended"]
                                            ELSE run[r]
  BY DEF ProcessRestarts
<1>4. run' \in [Runs -> RunSet]
  <2>1. run' = [r \in Runs |-> IF Active(r) THEN [NoRun EXCEPT !.pc = "ended"]
                                            ELSE run[r]]
    BY DEF ProcessRestarts
  <2>2. \A r \in Runs : run[r] \in RunSet
    BY <1>1, TypeParts
  <2> QED
    BY <2>1, <2>2, EndTyped
<1>5. \A r \in Runs : /\ run'[r].pc = "none" <=> run[r].pc = "none"
                      /\ run'[r].pc \notin {"list", "load", "apply"}
                      /\ Guarded(run'[r])
  <2> SUFFICES ASSUME NEW r \in Runs
               PROVE  /\ run'[r].pc = "none" <=> run[r].pc = "none"
                      /\ run'[r].pc \notin {"list", "load", "apply"}
                      /\ Guarded(run'[r])
    OBVIOUS
  <2>1. CASE Active(r)
    <3>1. run'[r].pc = "ended" /\ DOMAIN run'[r].todo = {}
      BY <1>3, <2>1, EndTyped
    <3> QED
      BY <2>1, <3>1 DEF Active, Guarded
  <2>2. CASE ~Active(r)
    BY <1>1, <1>3, <2>2 DEF Active, SyncsInv
  <2> QED
    BY <2>1, <2>2
<1>6. Unheard' = 0 /\ IsFiniteSet(following')
  <2>1. Cardinality({}) = 0 /\ IsFiniteSet({})
    BY FS_EmptySet
  <2> QED
    BY <1>2, <2>1 DEF Unheard
<1>7. reboots' \in Nat /\ reboots' # 0 /\ operator + faults + reboots' <= MaxEvents
  BY <1>1, <1>2, Counted, TypeParts
<1>8. RecordTypeOK'
  <2>1. /\ hooks' \in Nat /\ orphans' \in Nat /\ firing' \in Nat /\ Unheard' <= edits
        /\ following' \subseteq [kind : {"add", "update", "delete"}, value : Values, edit : Nat]
    BY <1>1, <1>2, <1>6, TypeParts
  <2>2. entry' \in BOOLEAN /\ armed' \in BOOLEAN /\ (armed' => entry')
    BY <1>2, Zenon
  <2> QED
    BY <1>1, <1>2, <1>4, <1>6, <1>7, <2>1, <2>2, TypeParts, TypePartsNext
<1>9. Numbered'
  <2>1. PICK n \in 0 .. edits + operator :
          /\ \A r \in Runs : run[r].pc # "none" <=> r <= n
          /\ n + Unheard <= edits + operator
    BY <1>1, NumberedNow
  <2>2. n \in Nat /\ n + 0 <= edits + operator
    BY <1>1, <2>1, Counted, TypeParts
  <2>3. \A r \in Runs : run'[r].pc # "none" <=> r <= n
    BY <1>5, <2>1
  <2> QED
    BY <1>1, <1>2, <1>6, <1>7, <2>1, <2>2, <2>3, NumberedNow, NumberedAgain
<1>10. SyncsInv' /\ CaughtUp'
  BY <1>5, <1>7 DEF SyncsInv, Alone, Active, Current, CaughtUp, Undisturbed
<1> QED
  BY <1>8, <1>9, <1>10 DEF RecordInv

-----------------------------------------------------------------------------
(* The invariant                                                           *)

LEMMA RecordInvInit == RecordInit => RecordInv
<1> SUFFICES ASSUME RecordInit PROVE RecordInv
  OBVIOUS
<1>1. /\ local \in SUBSET Values /\ nextId = Cardinality(Values) + 1
      /\ following = {} /\ hooks = 0 /\ entry = FALSE /\ armed = FALSE /\ orphans = 0
      /\ firing = 0 /\ run = [r \in Runs |-> NoRun]
      /\ edits = 0 /\ operator = 0 /\ faults = 0 /\ reboots = 0
      /\ dirty = FALSE /\ overlapped = FALSE
  BY DEF RecordInit
<1>2. PICK S \in SUBSET Values : local \subseteq S /\ cf = Ascending(S)
  BY DEF RecordInit
<1>3. IsFiniteSet(Values) /\ Cardinality(Values) \in Nat /\ Cardinality(S) <= Cardinality(Values)
      /\ Cardinality(S) \in Nat
  BY ValuesAssumption, FS_Subset, FS_CardinalityType
<1>4. /\ cf \in [1 .. Cardinality(S) -> S]
      /\ \A v \in S : \E i \in 1 .. Cardinality(S) : cf[i] = v
  BY <1>2, AscendingEnumerates
<1>5. nextId \in Nat \ {0} /\ DOMAIN cf \subseteq 1 .. (nextId - 1)
  BY <1>1, <1>3, <1>4
<1>6. \A id \in DOMAIN cf : cf[id] \in Values
  BY <1>4
<1>7. \A r \in Runs : run[r].pc = "none" /\ run[r].todo = << >>
  BY <1>1 DEF NoRun
<1>8. Unheard = 0 /\ IsFiniteSet(following)
  <2>1. Cardinality({}) = 0 /\ IsFiniteSet({})
    BY FS_EmptySet
  <2> QED
    BY <1>1, <2>1 DEF Unheard
<1>9. RecordTypeOK
  <2>1. run \in [Runs -> RunSet]
    BY <1>1, NoRunTyped
  <2>2. /\ entry \in BOOLEAN /\ armed \in BOOLEAN /\ dirty \in BOOLEAN
        /\ overlapped \in BOOLEAN /\ (armed => entry)
    BY <1>1, Zenon
  <2>3. following \subseteq [kind : {"add", "update", "delete"}, value : Values, edit : Nat]
    BY <1>1
  <2> QED
    BY <1>1, <1>5, <1>6, <1>8, <2>1, <2>2, <2>3, TypeParts
<1>10. Numbered
  <2>1. \A r \in Runs : run[r].pc # "none" <=> r <= 0
    BY <1>7, BoundsAssumption DEF Runs
  <2> QED
    BY <1>1, <1>8, <2>1, BoundsAssumption DEF Numbered, Begun
<1>11. SyncsInv
  BY <1>7 DEF SyncsInv, Alone, Active, Current, Guarded
<1>12. CaughtUp
  <2>1. \A v \in local : InCf(v, cf)
    BY <1>2, <1>4 DEF InCf
  <2>2. \A v \in local : Kept(v)
    BY <1>7, <2>1 DEF Kept
  <2> QED
    BY <1>1, <2>2 DEF CaughtUp
<1> QED
  BY <1>9, <1>10, <1>11, <1>12 DEF RecordInv

LEMMA RecordInductive == RecordInv /\ [RecordNext]_recordVars => RecordInv'
<1> SUFFICES ASSUME RecordInv, [RecordNext]_recordVars PROVE RecordInv'
  OBVIOUS
<1>1. RecordTypeOK /\ Numbered /\ SyncsInv /\ CaughtUp
  BY DEF RecordInv
<1>2. CASE AddRecord
  <2>1. PICK v \in Values \ local : Edit("add", v, local \cup {v})
    BY <1>2 DEF AddRecord
  <2>2. local \cup {v} \subseteq Values
    BY <1>1, TypeParts
  <2> QED
    BY <2>1, <2>2, EditKeeps
<1>3. CASE DeleteRecord
  <2>1. PICK v \in local : Edit("delete", v, local \ {v})
    BY <1>3 DEF DeleteRecord
  <2>2. local \ {v} \subseteq Values /\ v \in Values
    BY <1>1, TypeParts
  <2> QED
    BY <2>1, <2>2, EditKeeps
<1>4. CASE UpdateRecord
  <2>1. PICK v \in local, w \in Values \ local :
          Edit("update", w, (local \ {v}) \cup {w})
    BY <1>4 DEF UpdateRecord
  <2>2. (local \ {v}) \cup {w} \subseteq Values
    BY <1>1, TypeParts
  <2> QED
    BY <2>1, <2>2, EditKeeps
<1>5. CASE \E e \in following : PdnsFollows(e) \/ PdnsFails(e)
  BY <1>5, PdnsFollowsKeeps, PdnsFailsKeeps
<1>6. CASE Hook \/ Fire \/ Callback \/ OperatorSync
  BY <1>6, HookKeeps, FireKeeps, CallbackKeeps, OperatorSyncKeeps
<1>7. CASE \E r \in Runs : Sync(r) \/ CallFails(r)
  BY <1>7, ListKeeps, LoadKeeps, ApplyKeeps, SyncedKeeps, CallFailsKeeps DEF Sync
<1>8. CASE ProcessRestarts
  BY <1>8, RestartKeeps
<1>9. CASE UNCHANGED recordVars
  <2>1. UNCHANGED <<local, cf, nextId, following, hooks, entry, armed, orphans, firing,
                    run, edits, operator, faults, reboots, dirty, overlapped>>
    BY <1>9 DEF recordVars, timer, counters
  <2>2. Unheard' = Unheard
    BY <2>1 DEF Unheard
  <2>3. Owed => Owed'
    BY <2>1 DEF Owed
  <2> QED
    BY <1>1, <2>1, <2>2, <2>3, Counted, TypeParts, DebounceKeeps
<1> QED
  BY <1>2, <1>3, <1>4, <1>5, <1>6, <1>7, <1>8, <1>9 DEF RecordNext

LEMMA RecordInvariant == RecordSpec => []RecordInv
BY RecordInvInit, RecordInductive, PTL DEF RecordSpec

\* Every variable of the record sync keeps its type, and what the debounce
\* holds never outgrows the edits that caused it (dns_service.go, the timers
\* of cmd/server/main.go, reconcileDomain).
THEOREM RecordTypeCorrect == RecordSpec => []RecordTypeOK
<1>1. RecordInv => RecordTypeOK
  BY DEF RecordInv
<1> QED
  BY <1>1, RecordInvariant, PTL

\* For any values and any number of edits: once every hook, timer and sync has
\* run out, Cloudflare has every record of the panel, unless two syncs
\* overlapped, a call failed or the process restarted.  An edit is always on
\* its way to a sync that has not read the records yet, and a value that sync
\* has read stays in Cloudflare or in the calls it has left.
THEOREM NothingMissedEver == RecordSpec => []NothingMissed
<1>1. RecordInv => NothingMissed
  <2> SUFFICES ASSUME RecordInv, Quiet, ~overlapped, faults = 0, reboots = 0,
                      NEW v \in local
               PROVE  InCf(v, cf)
    BY DEF NothingMissed
  <2>1. RecordTypeOK /\ CaughtUp /\ Undisturbed
    BY DEF RecordInv, Undisturbed
  <2>2. \A r \in Runs : run[r].pc \notin {"list", "load", "apply"}
    BY DEF Quiet, Active
  <2>3. following = {} /\ hooks = 0 /\ ~armed /\ orphans = 0 /\ firing = 0
    BY DEF Quiet
  <2>4. ~Owed
    BY <2>2, <2>3 DEF Owed
  <2>5. Kept(v) \/ Planned(v)
    BY <2>1, <2>4 DEF CaughtUp
  <2>6. ~Planned(v)
    BY <2>2 DEF Planned
  <2> QED
    BY <2>5, <2>6 DEF Kept
<1> QED
  BY <1>1, RecordInvariant, PTL

\* Of any zone: a record leaves Cloudflare only through a sync that was asked
\* to delete, and a mail record only when another sync had changed it since
\* this one listed it (the isMailRecord guard of reconcileDomain).
THEOREM MailAlwaysSpared == RecordSpec => MailNeverDeleted
<1>1. RecordInv /\ [RecordNext]_recordVars =>
        [\A id \in DOMAIN cf \ DOMAIN cf' :
           /\ \E r \in Runs : run[r].deletes
           /\ cf[id] \in MailValues => overlapped]_recordVars
  <2> SUFFICES ASSUME RecordInv, RecordNext, NEW id \in DOMAIN cf \ DOMAIN cf'
               PROVE  /\ \E r \in Runs : run[r].deletes
                      /\ cf[id] \in MailValues => overlapped
    BY Zenon
  <2>1. RecordTypeOK /\ SyncsInv
    BY DEF RecordInv
  <2>2. cf' # cf
    OBVIOUS
  <2>3. PICK r \in Runs : ApplyNext(r)
    BY <2>2 DEF RecordNext, AddRecord, DeleteRecord, UpdateRecord, Edit, PdnsFollows,
       PdnsFails, Hook, Fire, Callback, OperatorSync, Sync, ListRecords, LoadLocal,
       Synced, CallFails, ProcessRestarts
  <2> DEFINE ops == run[r].todo
             u == Head(ops)
  <2>4. /\ run[r].pc = "apply" /\ ops # << >> /\ Accepts(u, cf)
        /\ cf' = Applied(u, cf, nextId)
    BY <2>2, <2>3 DEF ApplyNext
  <2>5. ops \in Seq(Ops) /\ nextId \notin DOMAIN cf
    BY <2>1, TypeParts DEF RunSet
  <2>6. u = ops[1] /\ 1 \in DOMAIN ops /\ u \in Ops
    BY <2>4, <2>5, TailOf
  <2>7. u.kind = "delete" /\ id = u.id
    <3> HIDE DEF u, ops
    <3>1. /\ u.kind = "update" => DOMAIN cf' = DOMAIN cf
          /\ u.kind = "create" => DOMAIN cf' = DOMAIN cf \cup {nextId}
          /\ u.kind = "delete" => DOMAIN cf' = DOMAIN cf \ {u.id}
          /\ u.kind \in {"update", "create", "delete"}
      BY <2>4, <2>5, <2>6, AppliedNext
    <3> QED
      BY <3>1
  <2>8. run[r].deletes /\ u.value \notin MailValues
    BY <2>1, <2>6, <2>7 DEF SyncsInv, Guarded
  <2>9. ~overlapped => cf[id] = u.value
    BY <2>1, <2>4, <2>6, <2>7 DEF SyncsInv, Current, Sound
  <2> QED
    BY <2>8, <2>9
<1> QED
  BY <1>1, RecordInvariant, PTL DEF RecordSpec, MailNeverDeleted

-----------------------------------------------------------------------------
(* A whole plan, carried out undisturbed                                   *)

LEMMA LeastNumber ==
  ASSUME NEW T \in SUBSET Nat, T # {}
  PROVE  \E x \in T : \A y \in T : x <= y
<1> DEFINE Less == {r \in Nat \X Nat : r[1] < r[2]}
<1>1. IsWellFoundedOn(Less, Nat)
  BY NatLessThanWellFounded DEF OpToRel
<1>2. PICK x \in T : \A y \in T : ~(<<y, x>> \in Less)
  <2> HIDE DEF Less
  <2> QED
    BY <1>1, WFMin
<1>3. ASSUME NEW y \in T PROVE x <= y
  <2>1. x \in Nat /\ y \in Nat
    OBVIOUS
  <2>2. y < x => <<y, x>> \in Less
    BY <2>1
  <2> HIDE DEF Less
  <2> QED
    BY <1>2, <2>1, <2>2
<1> QED
  BY <1>3

\* The zone after each of the first n calls.
Zones(Z, ops, zone, fresh, n) ==
  Z = [i \in 0 .. n |->
         IF i = 0 THEN zone ELSE Applied(ops[i], Z[i - 1], fresh + i - 1)]

\* However many calls: what each answer makes of the zone is defined.
LEMMA ZonesExist ==
  ASSUME NEW ops, NEW zone, NEW fresh, NEW n \in Nat
  PROVE  \E Z : Zones(Z, ops, zone, fresh, n)
<1> DEFINE Undefined == {k \in Nat : ~\E Z : Zones(Z, ops, zone, fresh, k)}
<1> SUFFICES ASSUME Undefined # {} PROVE FALSE
  OBVIOUS
<1>1. PICK k \in Undefined : \A j \in Undefined : k <= j
  <2>1. Undefined \in SUBSET Nat
    OBVIOUS
  <2> HIDE DEF Undefined
  <2> QED
    BY <2>1, LeastNumber
<1>2. CASE k = 0
  <2> DEFINE Z == [i \in 0 .. 0 |-> zone]
  <2>1. Zones(Z, ops, zone, fresh, 0)
    BY DEF Zones
  <2> QED
    BY <1>2, <2>1
<1>3. CASE k # 0
  <2>1. k \in Nat /\ k - 1 \in Nat /\ k - 1 \notin Undefined
    BY <1>1, <1>3
  <2>2. PICK Z : Zones(Z, ops, zone, fresh, k - 1)
    BY <2>1
  <2> DEFINE last == Applied(ops[k], Z[k - 1], fresh + k - 1)
             Y == [i \in 0 .. k |-> IF i = k THEN last ELSE Z[i]]
  <2>3. /\ Z[0] = zone
        /\ \A i \in 1 .. k - 1 : Z[i] = Applied(ops[i], Z[i - 1], fresh + i - 1)
    BY <2>1, <2>2 DEF Zones
  <2> HIDE DEF last
  <2>4. Y[k] = last /\ \A i \in 0 .. k - 1 : Y[i] = Z[i]
    BY <2>1
  <2>5. ASSUME NEW i \in 0 .. k
        PROVE  Y[i] = IF i = 0 THEN zone ELSE Applied(ops[i], Y[i - 1], fresh + i - 1)
    <3> HIDE DEF Y
    <3>1. CASE i = 0
      BY <1>3, <2>1, <2>3, <2>4, <3>1
    <3>2. CASE i = k
      <4>1. Y[k - 1] = Z[k - 1]
        BY <2>1, <2>4
      <4> QED
        BY <1>3, <2>4, <3>2, <4>1 DEF last
    <3>3. CASE i \in 1 .. k - 1
      <4>1. Y[i] = Z[i] /\ Y[i - 1] = Z[i - 1] /\ i # 0
        BY <2>1, <2>4, <3>3
      <4> QED
        BY <2>3, <3>3, <4>1
    <3> QED
      BY <2>1, <3>1, <3>2, <3>3
  <2>6. Zones(Y, ops, zone, fresh, k)
    <3>1. Y = [i \in 0 .. k |-> Y[i]]
      OBVIOUS
    <3> HIDE DEF Y
    <3> QED
      BY <2>5, <3>1 DEF Zones
  <2> QED
    BY <1>1, <2>6
<1> QED
  BY <1>2, <1>3

LEMMA ApplyAllIs ==
  ASSUME NEW ops \in Seq(Ops), NEW zone, NEW fresh
  PROVE  \E Z : /\ Z[0] = zone /\ ApplyAll(ops, zone, fresh) = Z[Len(ops)]
                /\ \A i \in 1 .. Len(ops) :
                     Z[i] = Applied(ops[i], Z[i - 1], fresh + i - 1)
<1> DEFINE Z == CHOOSE Z : Zones(Z, ops, zone, fresh, Len(ops))
<1>1. Len(ops) \in Nat
  BY LenProperties
<1>2. Zones(Z, ops, zone, fresh, Len(ops))
  BY <1>1, ZonesExist
<1>3. ApplyAll(ops, zone, fresh) = Z[Len(ops)]
  BY DEF ApplyAll, Zones
<1> HIDE DEF Z
<1>4. /\ Z[0] = zone
      /\ \A i \in 1 .. Len(ops) : Z[i] = Applied(ops[i], Z[i - 1], fresh + i - 1)
  BY <1>1, <1>2 DEF Zones
<1> QED
  BY <1>3, <1>4

\* The ids of the values listed are distinct, and are all there are when no
\* value is there twice.
LEMMA ListingFacts ==
  ASSUME NEW zone, DOMAIN zone \subseteq Nat,
         \A id \in DOMAIN zone : zone[id] \in Values,
         NEW f \in Listings(zone)
  PROVE  LET V == {zone[id] : id \in DOMAIN zone} IN
         /\ V \subseteq Values /\ f \in [V -> Nat] /\ DOMAIN f = V
         /\ \A v \in V : f[v] \in DOMAIN zone /\ zone[f[v]] = v
         /\ (\A a, b \in DOMAIN zone : zone[a] = zone[b] => a = b)
              => \A id \in DOMAIN zone : id = f[zone[id]]
<1> DEFINE V == {zone[id] : id \in DOMAIN zone}
<1>1. f \in [V -> DOMAIN zone] /\ \A v \in V : zone[f[v]] = v
  BY DEF Listings
<1>2. V \subseteq Values /\ f \in [V -> Nat] /\ DOMAIN f = V
  BY <1>1
<1>3. \A id \in DOMAIN zone : zone[id] \in V
  OBVIOUS
<1> HIDE DEF V
<1>4. \A v \in V : f[v] \in DOMAIN zone /\ zone[f[v]] = v
  BY <1>1
<1>5. (\A a, b \in DOMAIN zone : zone[a] = zone[b] => a = b)
        => \A id \in DOMAIN zone : id = f[zone[id]]
  BY <1>3, <1>4
<1> QED
  BY <1>2, <1>4, <1>5 DEF V

\* A plan carried out with nothing in between, on a zone that has no value
\* twice, leaves the values it was to bring and of the others only some that
\* were there; none but mail records if it was to delete.
LEMMA PlanReaches ==
  ASSUME NEW lv, lv \subseteq Values, NEW zone, NEW fresh \in Nat,
         DOMAIN zone \subseteq 1 .. fresh - 1,
         \A id \in DOMAIN zone : zone[id] \in Values,
         \A a, b \in DOMAIN zone : zone[a] = zone[b] => a = b,
         NEW f \in Listings(zone), NEW deletes \in BOOLEAN
  PROVE  LET after == ApplyAll(Plan(lv, f, deletes), zone, fresh) IN
         /\ DOMAIN after \subseteq Nat
         /\ \A id \in DOMAIN after : after[id] \in Values
         /\ \A v \in lv : InCf(v, after)
         /\ deletes => \A id \in DOMAIN after : after[id] \in lv \cup MailValues
<1> DEFINE V == {zone[id] : id \in DOMAIN zone}
           p == Plan(lv, f, deletes)
           missing == Ascending(lv \ V)
           extra == Ascending(V \ lv)
           m == Cardinality(lv \ V)
           x == Cardinality(V \ lv)
<1>1. /\ V \subseteq Values /\ f \in [V -> Nat]
      /\ \A v \in V : f[v] \in DOMAIN zone /\ zone[f[v]] = v
      /\ \A id \in DOMAIN zone : zone[id] \in V /\ id = f[zone[id]]
  <2>1. DOMAIN zone \subseteq Nat
    OBVIOUS
  <2> QED
    BY <2>1, ListingFacts
<1> HIDE DEF V
<1>d. V \subseteq Values /\ f \in [V -> Nat]
  BY <1>1
<1>a. PICK u, c, d \in Nat : \E dropped : PlanIs(p, lv, V, f, deletes, u, c, d, dropped)
  BY <1>d, PlanShape
<1>b. PICK dropped : PlanIs(p, lv, V, f, deletes, u, c, d, dropped)
  BY <1>a
<1>2.   /\ dropped \in [1 .. d -> V \ lv]
        /\ p \in Seq(Ops) /\ Len(p) = u + c + d
        /\ u + c = m /\ u <= x
        /\ \A i \in 1 .. u : p[i] = Op("update", missing[i], f[extra[i]])
        /\ \A i \in u + 1 .. u + c : p[i] = Op("create", missing[i], 0)
        /\ \A i \in u + c + 1 .. u + c + d :
             p[i] = Op("delete", dropped[i - u - c], f[dropped[i - u - c]])
        /\ \A i \in 1 .. d : \A j \in 1 .. u : dropped[i] # extra[j]
        /\ \A i, j \in 1 .. d : dropped[i] = dropped[j] => i = j
        /\ deletes => \A j \in u + 1 .. x :
             extra[j] \in MailValues \/ \E i \in 1 .. d : dropped[i] = extra[j]
  BY <1>b DEF PlanIs
<1>3. /\ m \in Nat /\ missing \in [1 .. m -> lv \ V]
      /\ \A v \in lv \ V : \E i \in 1 .. m : missing[i] = v
  BY AscendingEnumerates
<1>4. /\ x \in Nat /\ extra \in [1 .. x -> V \ lv]
      /\ \A i, j \in 1 .. x : extra[i] = extra[j] => i = j
      /\ \A v \in V \ lv : \E i \in 1 .. x : extra[i] = v
  BY <1>1, AscendingEnumerates
<1>5. \A v, w \in V : f[v] = f[w] => v = w
  BY <1>1
<1>6. \A v \in V : f[v] \in 1 .. fresh - 1
  BY <1>1
<1> HIDE DEF p, missing, extra, m, x
<1>e. p \in Seq(Ops)
  BY <1>2
<1>7. PICK Z : /\ Z[0] = zone /\ ApplyAll(p, zone, fresh) = Z[Len(p)]
               /\ \A i \in 1 .. Len(p) : Z[i] = Applied(p[i], Z[i - 1], fresh + i - 1)
  BY <1>e, ApplyAllIs
<1> DEFINE Over(i) == {k \in 1 .. u : k <= i}
           New(i) == {k \in u + 1 .. u + c : k <= i}
           Out(i) == {k \in 1 .. d : u + c + k <= i}
           Old(i) == {v \in V : /\ \A k \in Over(i) : v # extra[k]
                                /\ \A k \in Out(i) : v # dropped[k]}
           Ids(i) == {f[v] : v \in Old(i)} \cup {f[extra[k]] : k \in Over(i)}
                       \cup {fresh + k - 1 : k \in New(i)}
           Reached(i) == /\ DOMAIN Z[i] = Ids(i)
                         /\ \A v \in Old(i) : Z[i][f[v]] = v
                         /\ \A k \in Over(i) : Z[i][f[extra[k]]] = missing[k]
                         /\ \A k \in New(i) : Z[i][fresh + k - 1] = missing[k]
<1>8. Reached(0)
  <2>1. Over(0) = {} /\ New(0) = {} /\ Out(0) = {}
    OBVIOUS
  <2> HIDE DEF Over, New, Out
  <2>2. Old(0) = V
    BY <2>1
  <2>3. DOMAIN zone = {f[v] : v \in V}
    <3>1. ASSUME NEW id \in DOMAIN zone PROVE id \in {f[v] : v \in V}
      BY <1>1
    <3>2. ASSUME NEW v \in V PROVE f[v] \in DOMAIN zone
      BY <1>1
    <3> QED
      BY <3>1, <3>2
  <2> QED
    BY <1>1, <1>7, <2>1, <2>2, <2>3
<1>9. \A k \in 1 .. u : extra[k] \in V /\ k \in 1 .. x
  BY <1>2, <1>4
<1>c. \A k \in 1 .. d : dropped[k] \in V
  BY <1>2
<1>10. ASSUME NEW i \in 1 .. u + c + d, Reached(i - 1)
       PROVE  Reached(i)
  <2> DEFINE z == Z[i - 1]
             op == p[i]
             new == fresh + i - 1
  <2>0. i \in 1 .. u \/ i \in u + 1 .. u + c \/ i \in u + c + 1 .. u + c + d
    OBVIOUS
  <2>1. Z[i] = Applied(op, z, new)
    BY <1>2, <1>7
  <2>3. new \notin DOMAIN z
    <3>1. \A v \in Old(i - 1) : f[v] # fresh + i - 1
      BY <1>6
    <3>2. \A k \in Over(i - 1) : f[extra[k]] # fresh + i - 1
      BY <1>6, <1>9
    <3>3. \A k \in New(i - 1) : fresh + k - 1 # fresh + i - 1
      OBVIOUS
    <3> HIDE DEF Old, Over, New
    <3> QED
      BY <1>10, <3>1, <3>2, <3>3
  <2>4. /\ DOMAIN z = Ids(i - 1)
        /\ \A v \in Old(i - 1) : z[f[v]] = v
        /\ \A k \in Over(i - 1) : z[f[extra[k]]] = missing[k]
        /\ \A k \in New(i - 1) : z[fresh + k - 1] = missing[k]
    BY <1>10
  <2>5. CASE i \in 1 .. u
    <3>1. /\ Over(i) = Over(i - 1) \cup {i} /\ i \notin Over(i - 1)
          /\ New(i) = New(i - 1) /\ Out(i) = Out(i - 1) /\ Out(i) = {}
      BY <2>5
    <3>2. extra[i] \in Old(i - 1) /\ Old(i) = Old(i - 1) \ {extra[i]}
      <4>1. \A k \in Over(i - 1) : extra[i] # extra[k]
        BY <1>4, <1>9, <2>5
      <4> HIDE DEF Over, New, Out
      <4> QED
        BY <1>9, <2>5, <3>1, <4>1
    <3>3. op.kind = "update" /\ op.value = missing[i] /\ op.id = f[extra[i]]
      BY <1>2, <2>5, OpFields
    <3>4. \A v \in Old(i) : f[v] # f[extra[i]]
      BY <1>5, <1>9, <2>5, <3>2
    <3>5. \A k \in Over(i - 1) : f[extra[k]] # f[extra[i]]
      BY <1>4, <1>5, <1>9, <2>5
    <3>6. \A k \in New(i - 1) : fresh + k - 1 # f[extra[i]]
      BY <1>6, <1>9, <2>5
    <3> HIDE DEF Over, New, Out, Old
    <3>7. f[extra[i]] \in DOMAIN z
      BY <2>4, <3>2
    <3>9. Z[i] = [z EXCEPT ![f[extra[i]]] = missing[i]]
      BY <2>1, <3>3 DEF Applied
    <3> HIDE DEF z, op, new
    <3>8. /\ DOMAIN Z[i] = DOMAIN z /\ Z[i][f[extra[i]]] = missing[i]
          /\ \A id \in DOMAIN z : id # f[extra[i]] => Z[i][id] = z[id]
      BY <3>7, <3>9
    <3> QED
      BY <2>4, <3>1, <3>2, <3>4, <3>5, <3>6, <3>8
  <2>6. CASE i \in u + 1 .. u + c
    <3>1. /\ New(i) = New(i - 1) \cup {i}
          /\ Over(i) = Over(i - 1) /\ Out(i) = Out(i - 1)
      BY <2>6
    <3>2. op.kind = "create" /\ op.value = missing[i]
      BY <1>2, <2>6, OpFields
    <3> HIDE DEF Over, New, Out
    <3>3. Old(i) = Old(i - 1)
      BY <3>1
    <3> HIDE DEF Old
    <3>4. Z[i] = [id \in DOMAIN z \cup {new} |-> IF id = new THEN missing[i] ELSE z[id]]
      BY <2>1, <3>2 DEF Applied
    <3> HIDE DEF z, op, new
    <3>5. /\ DOMAIN Z[i] = DOMAIN z \cup {new} /\ Z[i][new] = missing[i]
          /\ \A id \in DOMAIN z : Z[i][id] = z[id]
      BY <2>3, <3>4
    <3> QED
      BY <2>4, <3>1, <3>3, <3>5 DEF new
  <2>7. CASE i \in u + c + 1 .. u + c + d
    <3> DEFINE e == i - u - c
               gone == dropped[e]
    <3>1. /\ e \in 1 .. d /\ Out(i) = Out(i - 1) \cup {e} /\ e \notin Out(i - 1)
          /\ Over(i) = Over(i - 1) /\ New(i) = New(i - 1)
      BY <2>7
    <3>2. op.kind = "delete" /\ op.id = f[gone]
      BY <1>2, <2>7, OpFields
    <3> HIDE DEF e
    <3>3. gone \in Old(i - 1) /\ Old(i) = Old(i - 1) \ {gone}
      <4>1. \A k \in Out(i - 1) : gone # dropped[k]
        BY <1>2, <3>1
      <4>2. \A k \in Over(i - 1) : gone # extra[k]
        BY <1>2, <3>1
      <4>3. gone \in V
        BY <1>c, <3>1
      <4> HIDE DEF Over, New, Out
      <4> QED
        BY <3>1, <4>1, <4>2, <4>3
    <3>4. \A v \in Old(i) : f[v] # f[gone]
      BY <1>5, <1>c, <3>1, <3>3
    <3>5. \A k \in Over(i - 1) : f[extra[k]] # f[gone]
      BY <1>2, <1>5, <1>9, <1>c, <3>1
    <3>6. \A k \in New(i - 1) : fresh + k - 1 # f[gone]
      BY <1>6, <1>c, <3>1
    <3> HIDE DEF Over, New, Out, Old
    <3>7. Z[i] = [id \in DOMAIN z \ {f[gone]} |-> z[id]]
      BY <2>1, <3>2 DEF Applied
    <3> HIDE DEF z, op, new
    <3>8. /\ DOMAIN Z[i] = DOMAIN z \ {f[gone]}
          /\ \A id \in DOMAIN z : id # f[gone] => Z[i][id] = z[id]
      BY <3>7
    <3> HIDE DEF gone
    <3> QED
      BY <2>4, <3>1, <3>3, <3>4, <3>5, <3>6, <3>8
  <2> QED
    BY <2>0, <2>5, <2>6, <2>7
<1> HIDE DEF Reached
<1>11. Reached(u + c + d)
  <2> DEFINE T == {i \in 0 .. u + c + d : ~Reached(i)}
  <2> SUFFICES T = {}
    OBVIOUS
  <2>1. ASSUME T # {} PROVE FALSE
    <3>1. PICK i \in T : \A j \in T : i <= j
      <4>1. T \in SUBSET Nat
        OBVIOUS
      <4> HIDE DEF T
      <4> QED
        BY <2>1, <4>1, LeastNumber
    <3>2. i \in 1 .. u + c + d /\ Reached(i - 1)
      BY <1>8, <3>1
    <3> QED
      BY <1>10, <3>1, <3>2
  <2> QED
    BY <2>1
<1> DEFINE n == u + c + d
           after == Z[n]
<1>12. Over(n) = 1 .. u /\ New(n) = u + 1 .. u + c /\ Out(n) = 1 .. d
  OBVIOUS
<1>13. Old(n) = {v \in V : /\ \A k \in 1 .. u : v # extra[k]
                           /\ \A k \in 1 .. d : v # dropped[k]}
  <2> HIDE DEF Over, New, Out
  <2> QED
    BY <1>12
<1>14. /\ DOMAIN after = {f[v] : v \in Old(n)} \cup {f[extra[k]] : k \in 1 .. u}
                           \cup {fresh + k - 1 : k \in u + 1 .. u + c}
       /\ \A v \in Old(n) : after[f[v]] = v
       /\ \A k \in 1 .. u : after[f[extra[k]]] = missing[k]
       /\ \A k \in u + 1 .. u + c : after[fresh + k - 1] = missing[k]
  <2> HIDE DEF Over, New, Out, Old
  <2> QED
    BY <1>11, <1>12 DEF Reached
<1> DEFINE rest == Old(n)
<1> HIDE DEF Old, after, n
<1>15. rest \subseteq V
  BY <1>13
<1>16. DOMAIN after \subseteq Nat
  BY <1>1, <1>9, <1>14, <1>15
<1>17. ASSUME NEW id \in DOMAIN after PROVE after[id] \in rest \/ after[id] \in lv
  <2>1. \A k \in 1 .. u + c : missing[k] \in lv
    BY <1>2, <1>3
  <2> QED
    BY <1>14, <2>1
<1>18. ASSUME NEW v \in lv PROVE InCf(v, after)
  <2>1. CASE v \in V
    <3>1. v \in rest
      BY <1>2, <1>4, <1>9, <1>13, <2>1
    <3> QED
      BY <1>14, <3>1 DEF InCf
  <2>2. CASE v \notin V
    <3>1. PICK k \in 1 .. u + c : missing[k] = v
      BY <1>2, <1>3, <2>2
    <3>2. k \in 1 .. u \/ k \in u + 1 .. u + c
      OBVIOUS
    <3> QED
      BY <1>14, <3>1, <3>2 DEF InCf
  <2> QED
    BY <2>1, <2>2
<1>19. ASSUME deletes, NEW v \in rest PROVE v \in lv \cup MailValues
  <2> SUFFICES ASSUME v \notin lv, v \notin MailValues PROVE FALSE
    OBVIOUS
  <2>1. PICK j \in 1 .. x : extra[j] = v
    BY <1>4, <1>15
  <2>2. j \in u + 1 .. x
    BY <1>13, <2>1
  <2>3. PICK k \in 1 .. d : dropped[k] = v
    BY <1>2, <1>19, <2>1, <2>2
  <2> QED
    BY <1>13, <2>3
<1>20. after = ApplyAll(Plan(lv, f, deletes), zone, fresh)
  BY <1>2, <1>7 DEF after, n, p
<1>21. \A id \in DOMAIN after : after[id] \in Values
  BY <1>1, <1>15, <1>17
<1>22. deletes => \A id \in DOMAIN after : after[id] \in lv \cup MailValues
  BY <1>17, <1>19
<1> HIDE DEF after
<1> QED
  BY <1>16, <1>18, <1>20, <1>21, <1>22

\* Nothing is left to do of a zone that has every value to be brought and, if
\* the sync may delete, no other value but mail records.
LEMMA NothingToDo ==
  ASSUME NEW lv, lv \subseteq Values, NEW zone, DOMAIN zone \subseteq Nat,
         \A id \in DOMAIN zone : zone[id] \in Values,
         \A v \in lv : InCf(v, zone), NEW deletes \in BOOLEAN,
         deletes => \A id \in DOMAIN zone : zone[id] \in lv \cup MailValues,
         NEW g \in Listings(zone)
  PROVE  Plan(lv, g, deletes) = << >>
<1> DEFINE V == {zone[id] : id \in DOMAIN zone}
           p == Plan(lv, g, deletes)
<1>1. /\ V \subseteq Values /\ g \in [V -> Nat] /\ lv \subseteq V
      /\ deletes => V \subseteq lv \cup MailValues
  <2>1. V \subseteq Values /\ g \in [V -> Nat]
    BY ListingFacts
  <2>2. lv \subseteq V
    BY DEF InCf
  <2>3. deletes => V \subseteq lv \cup MailValues
    OBVIOUS
  <2> QED
    BY <2>1, <2>2, <2>3
<1> HIDE DEF V
<1>2. PICK u, c, d \in Nat : \E dropped : PlanIs(p, lv, V, g, deletes, u, c, d, dropped)
  BY <1>1, PlanShape
<1>3. PICK dropped : PlanIs(p, lv, V, g, deletes, u, c, d, dropped)
  BY <1>2
<1>4. /\ p \in Seq(Ops) /\ Len(p) = u + c + d /\ u + c = Cardinality(lv \ V)
      /\ dropped \in [1 .. d -> V \ lv]
      /\ \A i \in 1 .. d : deletes /\ dropped[i] \notin MailValues
  BY <1>3 DEF PlanIs
<1>5. u + c = 0
  <2>1. lv \ V = {}
    BY <1>1
  <2> QED
    BY <1>4, <2>1, FS_EmptySet
<1>6. ~(1 \in 1 .. d)
  BY <1>1, <1>4
<1>7. Len(p) = 0
  BY <1>4, <1>5, <1>6
<1> HIDE DEF p
<1>8. p = << >>
  BY <1>4, <1>7, EmptySeq
<1> QED
  BY <1>8 DEF p

\* Of any zone, any values and however many calls a plan takes: a sync nobody
\* interferes with brings every record of the panel to Cloudflare, leaves
\* nothing else there but mail records if it may delete, and the next sync has
\* nothing to do (the pairing of missing with extra values and the isMailRecord
\* guard of reconcileDomain).
THEOREM SyncAlwaysConverges == RecordSpec => []SyncConverges
<1>1. RecordInv => SyncConverges
  <2> SUFFICES ASSUME RecordInv, \A v, w \in DOMAIN cf : cf[v] = cf[w] => v = w,
                      NEW deletes \in BOOLEAN, NEW f \in Listings(cf)
               PROVE  LET after == ApplyAll(Plan(local, f, deletes), cf, nextId) IN
                      /\ \A v \in local : InCf(v, after)
                      /\ deletes => \A id \in DOMAIN after :
                                      after[id] \in local \cup MailValues
                      /\ \A g \in Listings(after) : Plan(local, g, deletes) = << >>
    BY DEF SyncConverges
  <2> DEFINE after == ApplyAll(Plan(local, f, deletes), cf, nextId)
  <2>1. /\ local \subseteq Values /\ nextId \in Nat /\ DOMAIN cf \subseteq 1 .. nextId - 1
        /\ \A id \in DOMAIN cf : cf[id] \in Values
    BY TypeParts DEF RecordInv
  <2>2. /\ DOMAIN after \subseteq Nat
        /\ \A id \in DOMAIN after : after[id] \in Values
        /\ \A v \in local : InCf(v, after)
        /\ deletes => \A id \in DOMAIN after : after[id] \in local \cup MailValues
    BY <2>1, PlanReaches
  <2> HIDE DEF after
  <2>3. \A g \in Listings(after) : Plan(local, g, deletes) = << >>
    BY <2>1, <2>2, NothingToDo
  <2> QED
    BY <2>2, <2>3 DEF after
<1> QED
  BY <1>1, RecordInvariant, PTL
=============================================================================
