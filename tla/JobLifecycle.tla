---------------------------- MODULE JobLifecycle ----------------------------
(***************************************************************************)
(* What a background job promises to whoever polls its row.  The job       *)
(* engines for bulk domain upload, bulk SSL and Cloudflare sync are shown  *)
(* to implement this module.                                               *)
(*                                                                         *)
(* A job has a row with a status and, while the process that started it    *)
(* lives, a goroutine that reports on it.  Only the goroutine completes or *)
(* cancels a job.  A restart kills every goroutine and a goroutine may     *)
(* give up; the boot-time recovery fails rows that are not terminal.       *)
(***************************************************************************)
EXTENDS Naturals

CONSTANT Jobs

VARIABLES
  status, \* the row's status field
  live    \* whether the job's goroutine is running

vars == <<status, live>>

Terminal == {"completed", "cancelled", "failed"}
Unfinished == {"queued", "running"}
Status == {"absent"} \cup Unfinished \cup Terminal

Init ==
  /\ status = [j \in Jobs |-> "absent"]
  /\ live = [j \in Jobs |-> FALSE]

Submit(j) ==
  /\ status[j] = "absent"
  /\ status' = [status EXCEPT ![j] = "queued"]
  /\ live' = [live EXCEPT ![j] = TRUE]

\* A progress write: it may also overwrite a recovery that failed a live job.
Report(j) ==
  /\ live[j]
  /\ status' = [status EXCEPT ![j] = "running"]
  /\ UNCHANGED live

End(j) ==
  /\ live[j]
  /\ \E s \in Terminal : status' = [status EXCEPT ![j] = s]
  /\ live' = [live EXCEPT ![j] = FALSE]

\* Goroutines die with the process, or give up without a final write.
Die ==
  /\ \E S \in SUBSET Jobs : live' = [j \in Jobs |-> live[j] /\ j \notin S]
  /\ UNCHANGED status

Failable(j) == status[j] \in Unfinished

Recover ==
  /\ \E S \in SUBSET {j \in Jobs : Failable(j)} :
       status' = [j \in Jobs |-> IF j \in S THEN "failed" ELSE status[j]]
  /\ UNCHANGED live

Next ==
  \/ \E j \in Jobs : Submit(j) \/ Report(j) \/ End(j)
  \/ Die
  \/ Recover

SafeSpec == Init /\ [][Next]_vars

-----------------------------------------------------------------------------
Settled(j) == ~live[j] /\ status[j] \in Terminal

\* Every variable has its type.
TypeOK ==
  /\ status \in [Jobs -> Status]
  /\ live \in [Jobs -> BOOLEAN]

\* A poller that sees a terminal status of a job whose goroutine has ended
\* has the final word: no later report, recovery or restart changes it.
SettledForGood ==
  [][\A j \in Jobs : Settled(j) => Settled(j)' /\ status'[j] = status[j]]_vars

\* Every submitted job settles: its page never shows a bar that spins forever.
EverySubmittedSettles ==
  \A j \in Jobs : (status[j] # "absent") ~> Settled(j)
=============================================================================
