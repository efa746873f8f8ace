--------------------------- MODULE Transfers_proofs ---------------------------
(***************************************************************************)
(* Proofs about TransferJob and PanelRecords for any number of transfers,  *)
(* passes, sources, requests and accounts, any options and any number of   *)
(* stops, failures and refusals.                                           *)
(*                                                                         *)
(* The steps of a goroutine come in few shapes: Moves says once what most  *)
(* of them may change, and each invariant is shown to survive a move.      *)
(* The steps of a pass over the panel's records are treated the same way:  *)
(* Runs says what a call makes of its pass, and a lemma for each step      *)
(* states what it changes of what the pass holds.                          *)
(***************************************************************************)
EXTENDS TransferJob, PanelRecords, WellFoundedInduction, TLAPS

-----------------------------------------------------------------------------
(* The order of the steps                                                  *)

LEMMA OrderFacts ==
  /\ Len(Order) = 20 /\ DOMAIN Order = 1 .. 20
  /\ \A i \in 1 .. 20 : Order[i] \in Names
  /\ Order[20] = "finish" /\ Order[17] = "suite"
BY DEF Order, Names

LEMMA IndexFacts ==
  /\ \A s \in Names : Index[s] \in 1 .. 20 /\ Order[Index[s]] = s
  /\ \A s \in Names : s # "finish" => Index[s] \in 1 .. 19
<1>1. \A s \in Names : \E i \in 1 .. 20 : Order[i] = s
  BY OrderFacts DEF Names
<1>2. \A s \in Names : Index[s] \in 1 .. 20 /\ Order[Index[s]] = s
  BY <1>1, OrderFacts DEF Index
<1>3. QED
  BY <1>2, OrderFacts

LEMMA LeastExists ==
  ASSUME NEW T \in SUBSET Nat, T # {}
  PROVE  \E x \in T : \A y \in T : x <= y
<1> DEFINE Less == {r \in Nat \X Nat : r[1] < r[2]}
<1>1. IsWellFoundedOn(Less, Nat)
  BY NatLessThanWellFounded DEF OpToRel
<1>2. PICK x \in T : \A y \in T : ~(<<y, x>> \in Less)
  <2> HIDE DEF Less
  <2> QED
    BY <1>1, WFMin
<1>3. \A y \in T : x <= y
  <2> SUFFICES ASSUME NEW y \in T PROVE x <= y
    OBVIOUS
  <2>1. x \in Nat /\ y \in Nat
    OBVIOUS
  <2>2. y < x => <<y, x>> \in Less
    BY <2>1
  <2> HIDE DEF Less
  <2>3. QED
    BY <1>2, <2>1, <2>2
<1>4. QED
  BY <1>3

\* The least enabled step of those still to come.
IsNext(options, i, k) ==
  /\ k \in i + 1 .. 20
  /\ Order[k] \in Always \cup options
  /\ \A m \in i + 1 .. k - 1 : Order[m] \notin Always \cup options

LEMMA NextStepFacts ==
  ASSUME NEW options \in OptionSets, NEW i \in 1 .. 19
  PROVE  IsNext(options, i, NextStep[options][i])
<1> DEFINE T == {k \in i + 1 .. 20 : Order[k] \in Always \cup options}
<1>1. T \subseteq Nat /\ 20 \in T
  BY OrderFacts DEF Always
<1>2. PICK x \in T : \A y \in T : x <= y
  <2> HIDE DEF T
  <2> QED
    BY <1>1, LeastExists
<1>3. \E k \in i + 1 .. 20 : IsNext(options, i, k)
  BY <1>2 DEF IsNext
<1>4. i \in 1 .. Len(Order) - 1
  BY OrderFacts
<1>5. NextStep[options][i] = CHOOSE k \in i + 1 .. Len(Order) :
        /\ Order[k] \in Always \cup options
        /\ \A m \in i + 1 .. k - 1 : Order[m] \notin Always \cup options
  BY <1>4 DEF NextStep
<1>6. QED
  BY <1>3, <1>5, OrderFacts DEF IsNext

LEMMA FollowingFacts ==
  ASSUME NEW j \in Jobs, job[j].options \in OptionSets, NEW s \in Names, s # "finish"
  PROVE  /\ Following(j, s) \in Names
         /\ s \in {"dns", "firewall", "apps"} => Following(j, s) \in Heard
<1> DEFINE i == Index[s]
           k == NextStep[job[j].options][i]
<1>1. i \in 1 .. 19 /\ Order[i] = s
  BY IndexFacts
<1>2. IsNext(job[j].options, i, k)
  BY <1>1, NextStepFacts
<1>3. Following(j, s) = Order[k] /\ k \in 1 .. 20
  BY <1>1, <1>2 DEF Following, IsNext
<1> HIDE DEF i, k
<1>4. ASSUME s \in {"dns", "firewall", "apps"} PROVE Order[k] \in Heard
  <2>1. i \in 8 .. 15
    BY <1>1, <1>4 DEF Order
  <2>2. "suite" \in Always
    BY DEF Always
  <2>3. k <= 17
    BY <1>2, <2>1, <2>2, OrderFacts DEF IsNext
  <2>4. k \in 9 .. 17
    BY <1>2, <2>1, <2>3 DEF IsNext
  <2>5. Order[k] \in Names \ {"validate", "discover", "verify", "finish"}
    BY <2>4, OrderFacts DEF Order
  <2>6. QED
    BY <2>5 DEF Heard
<1>5. QED
  BY <1>3, <1>4, OrderFacts

-----------------------------------------------------------------------------
(* The shape of a step                                                     *)

ExState == [pc : Pcs, dropped : BOOLEAN, overlooked : BOOLEAN,
            verdict : {"completed", "partial"}]

\* Where a goroutine goes on without looking at the row.
Quiet == {"firewall", "apps", "import"}

OtherRows(j) == \A k \in Jobs \ {j} : job'[k] = job[k] /\ ex'[k] = ex[k]
SameJob(j) == /\ job'[j].status = job[j].status
              /\ job'[j].source = job[j].source /\ job'[j].options = job[j].options
Typed == /\ job' \in [Jobs -> JobRow] /\ ex' \in [Jobs -> ExState]

\* The goroutine of j takes step s and goes on with another.
Moves(j, s) ==
  /\ Typed /\ OtherRows(j) /\ SameJob(j)
  /\ up /\ ex[j].pc = s
  /\ s \in (Names \ {"finish"}) \cup {"wire", "import"}
  /\ s \notin Quiet /\ Stopped(j, s) => ex[j].overlooked
  /\ begun' = IF quit[j] = "heard" /\ s \notin Quiet THEN [begun EXCEPT ![j] = @ \cup {s}]
              ELSE begun
  /\ ex'[j].pc \in Names \cup {"wire", "import"}
  /\ s \in Quiet => ex'[j].pc \in Heard
  /\ ~ex'[j].overlooked
  /\ UNCHANGED <<req, up, faults, quit, raced, refused>>

\* Every transfer that exists has options and a source; so has every request
\* about to create one.
Complete ==
  /\ \A j \in Jobs : /\ Alive(j) => Exists(j)
                     /\ Exists(j) => job[j].options \in OptionSets /\ job[j].source \in Sources
  /\ \A c \in Clients : req[c].pc = "insert" =>
       req[c].options \in OptionSets /\ req[c].source \in Sources
Base == TypeOK /\ Complete

LEMMA GoneTyped ==
  /\ Gone \in ExState
  /\ \A n \in Pcs, d \in BOOLEAN :
       LET x == [Gone EXCEPT !.pc = n, !.dropped = d] IN
       x \in ExState /\ x.pc = n /\ ~x.overlooked
  /\ \A n \in Pcs : LET x == [Gone EXCEPT !.pc = n] IN
                    x \in ExState /\ x.pc = n /\ ~x.overlooked
BY DEF Gone, ExState, Pcs

LEMMA AdvanceFacts ==
  ASSUME Base, NEW j \in Jobs, Exists(j), NEW s \in Names \ {"finish"}, Advance(j, s)
  PROVE  /\ ex' \in [Jobs -> ExState] /\ \A k \in Jobs \ {j} : ex'[k] = ex[k]
         /\ ex'[j].pc \in Names /\ ~ex'[j].overlooked
         /\ s \in {"dns", "firewall", "apps"} => ex'[j].pc \in Heard
<1>1. /\ Following(j, s) \in Names
      /\ s \in {"dns", "firewall", "apps"} => Following(j, s) \in Heard
  BY FollowingFacts DEF Base, Complete
<1>2. ex \in [Jobs -> ExState]
  BY DEF Base, TypeOK, ExState
<1>3. Following(j, s) \in Pcs
  BY <1>1 DEF Pcs
<1>4. QED
  BY <1>1, <1>2, <1>3, GoneTyped DEF Advance

LEMMA PartFacts ==
  ASSUME Base, NEW j \in Jobs, NEW n \in {"wire", "import"}, NEW d \in BOOLEAN,
         Part(j, n, d)
  PROVE  /\ ex' \in [Jobs -> ExState] /\ \A k \in Jobs \ {j} : ex'[k] = ex[k]
         /\ ex'[j].pc = n /\ ~ex'[j].overlooked
<1>1. ex \in [Jobs -> ExState] /\ n \in Pcs
  BY DEF Base, TypeOK, ExState, Pcs
<1>2. QED
  BY <1>1, GoneTyped DEF Part

LEMMA CountFacts ==
  ASSUME Base, NEW j \in Jobs, NEW d \in BOOLEAN, Count(j, d)
  PROVE  /\ job' \in [Jobs -> JobRow] /\ \A k \in Jobs \ {j} : job'[k] = job[k]
         /\ SameJob(j)
<1>1. job \in [Jobs -> JobRow] /\ job[j] \in JobRow
  BY DEF Base, TypeOK
<1>2. (job[j].errors \/ d) \in BOOLEAN
  BY <1>1 DEF JobRow
<1>3. [job[j] EXCEPT !.errors = job[j].errors \/ d] \in JobRow
  BY <1>1, <1>2 DEF JobRow
<1>4. job' = [job EXCEPT ![j] = [job[j] EXCEPT !.errors = job[j].errors \/ d]]
  BY <1>1 DEF Count
<1>5. QED
  BY <1>1, <1>3, <1>4 DEF SameJob, JobRow

LEMMA LoggedMoves ==
  ASSUME Base, NEW j \in Jobs, NEW s \in Names \ {"finish"}, LoggedStep(j, s)
  PROVE  Moves(j, s)
<1>1. up /\ ex[j].pc = s /\ Exists(j) /\ Advance(j, s) /\ Step(j, s)
      /\ UNCHANGED job
  BY DEF LoggedStep, Step, At, Base, Complete, Alive, Order, Names
<1>2. Typed /\ OtherRows(j) /\ SameJob(j)
  BY <1>1, AdvanceFacts DEF Typed, OtherRows, SameJob, Base, TypeOK
<1>3. s \in Quiet => s \in {"firewall", "apps"}
  BY DEF Quiet, Names, Order
<1>4. /\ Stopped(j, s) => ex[j].overlooked
      /\ begun' = IF quit[j] = "heard" /\ s \notin {"firewall", "apps"}
                  THEN [begun EXCEPT ![j] = @ \cup {s}] ELSE begun
      /\ UNCHANGED <<req, up, faults, quit, raced, refused>>
  BY <1>1 DEF Step
<1>5. QED
  BY <1>1, <1>2, <1>3, <1>4, AdvanceFacts DEF Moves, Quiet

LEMMA CountedMoves ==
  ASSUME Base, NEW j \in Jobs, NEW s \in Names \ {"finish"}, CountedStep(j, s)
  PROVE  Moves(j, s)
<1>1. up /\ ex[j].pc = s /\ Exists(j) /\ Advance(j, s) /\ Step(j, s)
  BY DEF CountedStep, Step, At, Base, Complete, Alive, Order, Names
<1>2. /\ job' \in [Jobs -> JobRow] /\ \A k \in Jobs \ {j} : job'[k] = job[k]
      /\ SameJob(j)
  BY CountFacts DEF CountedStep
<1>3. Typed /\ OtherRows(j)
  BY <1>1, <1>2, AdvanceFacts DEF Typed, OtherRows, Base, TypeOK
<1>4. s \in Quiet => s \in {"firewall", "apps"}
  BY DEF Quiet, Names, Order
<1>5. /\ Stopped(j, s) => ex[j].overlooked
      /\ begun' = IF quit[j] = "heard" /\ s \notin {"firewall", "apps"}
                  THEN [begun EXCEPT ![j] = @ \cup {s}] ELSE begun
      /\ UNCHANGED <<req, up, faults, quit, raced, refused>>
  BY <1>1 DEF Step
<1>6. QED
  BY <1>1, <1>2, <1>3, <1>4, <1>5, AdvanceFacts DEF Moves, Quiet

\* The steps that go on with the transfer, all but the last.
GoesOn(j) ==
  \/ (Validate(j) \/ Discover(j)) /\ ~Abort(j)
  \/ SkipHostname(j) \/ TransferPackages(j) \/ CaptureConfig(j) \/ TransferSoftware(j)
  \/ FetchFiles(j) \/ WireDomain(j) \/ RecreateZone(j)
  \/ ImportRecords(j)
  \/ TransferSSL(j) \/ TransferDatabases(j) \/ TransferEmail(j)
  \/ TransferCron(j) \/ TransferFTP(j) \/ TransferFirewall(j)
  \/ TransferApps(j) \/ TransferKeys(j) \/ MigrateMailSuite(j)
  \/ SyncPanelRecords(j) \/ Verify(j)

\* A step taken at s, whatever it does to the row, is a move.
LEMMA MoveOfStep ==
  ASSUME Base, NEW j \in Jobs, NEW s \in (Names \ {"finish"}) \cup {"wire"}, Step(j, s),
         Typed, OtherRows(j), SameJob(j),
         ex'[j].pc \in Names \cup {"wire", "import"}, ~ex'[j].overlooked,
         s \notin Quiet
  PROVE  Moves(j, s)
<1>1. s \notin {"firewall", "apps"}
  BY DEF Quiet
<1>2. QED
  BY <1>1 DEF Moves, Step, At

LEMMA StepMoves ==
  ASSUME Base, NEW j \in Jobs, GoesOn(j)
  PROVE  \E s \in Pcs : Moves(j, s)
<1>1. Names \cup {"wire", "import"} \subseteq Pcs
  BY DEF Pcs
<1>2. {"validate", "discover", "hostname", "packages", "config", "software", "domains", "dns",
       "ssl", "databases", "email", "cron", "ftp", "firewall", "apps", "keys", "suite",
       "records", "verify"} \subseteq Names \ {"finish"}
  BY OrderFacts DEF Order, Names
<1>3. job \in [Jobs -> JobRow] /\ ex \in [Jobs -> ExState]
      /\ (Alive(j) => Exists(j))
  BY DEF Base, TypeOK, ExState, Complete
<1> DEFINE RowKept == job' = job
<1>4. ASSUME NEW s \in Names \ {"finish"}, Step(j, s), Advance(j, s),
             s \notin Quiet, RowKept
      PROVE  Moves(j, s)
  <2>1. Exists(j)
    BY <1>3, <1>4 DEF Step, At, Alive, Names, Order
  <2>2. Typed /\ OtherRows(j) /\ SameJob(j)
    BY <1>3, <1>4, <2>1, AdvanceFacts DEF Typed, OtherRows, SameJob
  <2>3. QED
    BY <1>4, <2>1, <2>2, AdvanceFacts, MoveOfStep
<1>5. ASSUME NEW s \in {"domains", "dns"}, Step(j, s), RowKept,
             NEW n \in {"wire", "import"}, NEW d \in BOOLEAN, Part(j, n, d)
      PROVE  Moves(j, s)
  <2>1. Typed /\ OtherRows(j) /\ SameJob(j)
    BY <1>3, <1>5, PartFacts DEF Typed, OtherRows, SameJob
  <2>2. QED
    BY <1>2, <1>5, <2>1, PartFacts, MoveOfStep DEF Quiet
<1>6. CASE (Validate(j) \/ Discover(j)) /\ ~Abort(j)
  BY <1>1, <1>2, <1>3, <1>4, <1>6 DEF Validate, Discover, Quiet
<1>7. CASE \/ SkipHostname(j) \/ TransferPackages(j) \/ CaptureConfig(j)
           \/ TransferSoftware(j) \/ TransferFTP(j) \/ TransferFirewall(j)
           \/ TransferApps(j) \/ TransferKeys(j) \/ SyncPanelRecords(j) \/ Verify(j)
           \/ TransferCron(j)
  BY <1>1, <1>2, <1>7, LoggedMoves
  DEF SkipHostname, TransferPackages, CaptureConfig, TransferSoftware, TransferFTP,
      TransferFirewall, TransferApps, TransferKeys, SyncPanelRecords, Verify, TransferCron
<1>8. CASE TransferSSL(j) \/ TransferDatabases(j) \/ TransferEmail(j)
  BY <1>1, <1>2, <1>8, CountedMoves DEF TransferSSL, TransferDatabases, TransferEmail
<1>9. CASE FetchFiles(j)
  <2>1. PICK d \in BOOLEAN : Part(j, "wire", d)
    BY <1>9 DEF FetchFiles
  <2>2. Step(j, "domains") /\ RowKept
    BY <1>3, <1>9 DEF FetchFiles
  <2>3. Moves(j, "domains")
    BY <1>5, <2>1, <2>2
  <2>4. QED
    BY <1>1, <1>2, <2>3
<1>10. CASE WireDomain(j)
  <2>1. Exists(j) /\ Step(j, "wire") /\ Advance(j, "domains")
    BY <1>3, <1>10 DEF WireDomain, Step, At, Alive
  <2>2. ex[j].dropped \in BOOLEAN /\ Count(j, ex[j].dropped)
    BY <1>3, <1>10 DEF WireDomain, ExState
  <2>3. /\ job' \in [Jobs -> JobRow] /\ \A k \in Jobs \ {j} : job'[k] = job[k]
        /\ SameJob(j)
    BY <2>2, CountFacts
  <2>4. Typed /\ OtherRows(j)
    BY <1>2, <1>3, <2>1, <2>3, AdvanceFacts DEF Typed, OtherRows
  <2>5. Moves(j, "wire")
    BY <1>2, <2>1, <2>3, <2>4, AdvanceFacts, MoveOfStep DEF Quiet
  <2>6. QED
    BY <1>1, <2>5
<1>11. CASE RecreateZone(j)
  <2>1. Step(j, "dns") /\ RowKept
    BY <1>11 DEF RecreateZone
  <2>2. CASE Advance(j, "dns")
    BY <1>1, <1>2, <1>4, <2>1, <2>2 DEF Quiet
  <2>3. CASE Part(j, "import", FALSE)
    <3>1. Moves(j, "dns")
      BY <1>5, <2>1, <2>3
    <3>2. QED
      BY <1>1, <1>2, <3>1
  <2>4. QED
    BY <1>11, <2>2, <2>3 DEF RecreateZone
<1>12. CASE ImportRecords(j)
  <2>1. Exists(j) /\ ex[j].pc = "import" /\ up /\ Advance(j, "dns")
        /\ UNCHANGED <<job, req, up, faults, history>>
    BY <1>3, <1>12 DEF ImportRecords, At, Alive
  <2>2. Typed /\ OtherRows(j) /\ SameJob(j)
    BY <1>2, <1>3, <2>1, AdvanceFacts DEF Typed, OtherRows, SameJob
  <2>3. Moves(j, "import")
    BY <1>2, <2>1, <2>2, AdvanceFacts DEF Moves, Quiet, history
  <2>4. QED
    BY <1>1, <2>3
<1>13. CASE MigrateMailSuite(j)
  <2>1. PICK fails \in BOOLEAN : job' = [job EXCEPT ![j].failedStep = @ \/ fails]
    BY <1>13 DEF MigrateMailSuite
  <2>2. Exists(j) /\ Step(j, "suite") /\ Advance(j, "suite")
    BY <1>3, <1>13 DEF MigrateMailSuite, Step, At, Alive
  <2>3. (job[j].failedStep \/ fails) \in BOOLEAN
    BY <1>3 DEF JobRow
  <2>4. [job[j] EXCEPT !.failedStep = job[j].failedStep \/ fails] \in JobRow
    BY <1>3, <2>3 DEF JobRow
  <2>5. /\ job' \in [Jobs -> JobRow] /\ \A k \in Jobs \ {j} : job'[k] = job[k]
        /\ SameJob(j)
    BY <1>3, <2>1, <2>4 DEF SameJob, JobRow
  <2>6. Typed /\ OtherRows(j)
    BY <1>2, <1>3, <2>2, <2>5, AdvanceFacts DEF Typed, OtherRows
  <2>7. Moves(j, "suite")
    BY <1>2, <2>2, <2>5, <2>6, AdvanceFacts, MoveOfStep DEF Quiet
  <2>8. QED
    BY <1>1, <1>2, <2>7
<1>14. QED
  BY <1>6, <1>7, <1>8, <1>9, <1>10, <1>11, <1>12, <1>13 DEF GoesOn

-----------------------------------------------------------------------------
(* Type correctness                                                        *)

ClientState == [pc : {"idle", "insert"}, source : Sources \cup {None},
                options : OptionSets \cup {{}}, raced : BOOLEAN]

\* A step that changes the row and the goroutine of one transfer alone.
LEMMA BaseOfOne ==
  ASSUME Base, NEW j \in Jobs, Exists(j),
         Typed, OtherRows(j), job'[j].status # "absent",
         job'[j].source = job[j].source, job'[j].options = job[j].options,
         UNCHANGED <<req, up, raced>>, faults' \in 0 .. MaxFaults,
         quit' \in [Jobs -> {"no", "heard", "late"}],
         begun' \in [Jobs -> SUBSET Pcs], refused' \subseteq Jobs
  PROVE  Base'
<1>1. TypeOK'
  BY DEF Base, TypeOK, Typed, ExState
<1>2. ASSUME NEW k \in Jobs
      PROVE  /\ Alive(k)' => Exists(k)'
             /\ Exists(k)' => job'[k].options \in OptionSets /\ job'[k].source \in Sources
  BY DEF Base, Complete, OtherRows, Alive, Exists
<1>3. Complete'
  BY <1>2 DEF Base, Complete
<1>4. QED
  BY <1>1, <1>3 DEF Base

LEMMA BaseOfMove ==
  ASSUME Base, NEW j \in Jobs, NEW s \in Pcs, Moves(j, s)
  PROVE  Base'
<1>1. Exists(j)
  BY DEF Moves, Base, Complete, Alive, Names, Order
<1>2. begun' \in [Jobs -> SUBSET Pcs]
  BY DEF Moves, Base, TypeOK
<1>3. QED
  BY <1>1, <1>2, BaseOfOne DEF Moves, SameJob, Exists, Base, TypeOK

\* The other steps of a goroutine.
Ends(j) == \/ Begin(j)
           \/ (Validate(j) \/ Discover(j)) /\ Abort(j)
           \/ ReadVerdict(j) \/ WriteVerdict(j)
           \/ \E s \in Names \cup {"wire"} : SeeCancelled(j, s)

LEMMA ExecuteCases == ASSUME NEW j \in Jobs, Execute(j) PROVE GoesOn(j) \/ Ends(j)
<1>1. CASE Validate(j) \/ Discover(j)
  BY <1>1 DEF GoesOn, Ends
<1>2. CASE \E s \in Names \cup {"wire"} : SeeCancelled(j, s)
  BY <1>2 DEF Ends
<1>3. CASE ImportRecords(j)
  BY <1>3 DEF GoesOn
<1>4. CASE Begin(j) \/ ReadVerdict(j) \/ WriteVerdict(j)
  BY <1>4 DEF Ends
<1> DEFINE Rest ==
      \/ SkipHostname(j) \/ TransferPackages(j) \/ CaptureConfig(j) \/ TransferSoftware(j)
      \/ FetchFiles(j) \/ WireDomain(j) \/ RecreateZone(j)
      \/ TransferSSL(j) \/ TransferDatabases(j) \/ TransferEmail(j) \/ TransferCron(j)
      \/ TransferFTP(j) \/ TransferFirewall(j) \/ TransferApps(j) \/ TransferKeys(j)
      \/ MigrateMailSuite(j) \/ SyncPanelRecords(j) \/ Verify(j)
<1>5. CASE Rest
  BY <1>5 DEF GoesOn
<1>6. \/ Validate(j) \/ Discover(j) \/ Begin(j) \/ ReadVerdict(j) \/ WriteVerdict(j) \/ Rest
      \/ (\E s \in Names \cup {"wire"} : SeeCancelled(j, s))
      \/ ImportRecords(j)
  BY Zenon DEF Execute
<1>7. QED
  BY <1>1, <1>2, <1>3, <1>4, <1>5, <1>6, Zenon

LEMMA BaseOfEnds ==
  ASSUME Base, NEW j \in Jobs, Ends(j) PROVE Base'
<1>1. /\ job \in [Jobs -> JobRow] /\ ex \in [Jobs -> ExState] /\ Gone \in ExState
      /\ begun \in [Jobs -> SUBSET Pcs]
      /\ faults \in 0 .. MaxFaults /\ quit \in [Jobs -> {"no", "heard", "late"}]
      /\ refused \subseteq Jobs /\ (Alive(j) => Exists(j))
  BY GoneTyped DEF Base, TypeOK, ExState, Complete
<1>2. CASE Begin(j)
  <2>1. Exists(j) /\ UNCHANGED <<req, up, faults, history>>
    BY <1>1, <1>2 DEF Begin, At, Alive
  <2>2. /\ job' \in [Jobs -> JobRow] /\ job'[j].status = "in_progress"
        /\ job'[j].source = job[j].source /\ job'[j].options = job[j].options
    BY <1>1, <1>2 DEF Begin, JobRow, Running
  <2>3. ex' \in [Jobs -> ExState]
    BY <1>1, <1>2, OrderFacts DEF Begin, ExState, Pcs, Order, Names
  <2>4. OtherRows(j)
    BY <1>1, <1>2 DEF Begin, OtherRows
  <2>5. QED
    BY <1>1, <2>1, <2>2, <2>3, <2>4, BaseOfOne DEF Typed, history
<1>3. CASE (Validate(j) \/ Discover(j)) /\ Abort(j)
  <2>1. /\ Exists(j) /\ UNCHANGED <<req, up, faults, quit, raced, refused>>
        /\ begun' \in [Jobs -> SUBSET Pcs]
    BY <1>1, <1>3, OrderFacts DEF Validate, Discover, Step, At, Alive, Pcs, Order, Names
  <2>2. /\ job' \in [Jobs -> JobRow] /\ job'[j].status = "failed"
        /\ job'[j].source = job[j].source /\ job'[j].options = job[j].options
    BY <1>1, <1>3 DEF Abort, JobRow, Terminal
  <2>3. ex' \in [Jobs -> ExState] /\ OtherRows(j)
    BY <1>1, <1>3 DEF Abort, OtherRows
  <2>4. QED
    BY <1>1, <2>1, <2>2, <2>3, BaseOfOne DEF Typed
<1>4. CASE ReadVerdict(j)
  <2>1. /\ Exists(j) /\ UNCHANGED <<job, req, up, faults, quit, raced, refused>>
        /\ begun' \in [Jobs -> SUBSET Pcs]
    BY <1>1, <1>4, OrderFacts DEF ReadVerdict, Step, At, Alive, Pcs, Order, Names
  <2>2. ex' \in [Jobs -> ExState]
    BY <1>1, <1>4 DEF ReadVerdict, ExState, Pcs, Verdict
  <2>3. OtherRows(j)
    BY <1>1, <1>4 DEF ReadVerdict, OtherRows
  <2>4. QED
    BY <1>1, <2>1, <2>2, <2>3, BaseOfOne DEF Typed, Exists
<1>5. CASE WriteVerdict(j)
  <2>1. Exists(j) /\ UNCHANGED <<req, up, faults, history>>
    BY <1>1, <1>5 DEF WriteVerdict, At, Alive
  <2>2. ex[j].verdict \in {"completed", "partial"}
    BY <1>1 DEF ExState
  <2>3. /\ job' \in [Jobs -> JobRow] /\ job'[j].status # "absent"
        /\ job'[j].source = job[j].source /\ job'[j].options = job[j].options
    BY <1>1, <1>5, <2>2 DEF WriteVerdict, JobRow, Terminal
  <2>4. ex' \in [Jobs -> ExState] /\ OtherRows(j)
    BY <1>1, <1>5 DEF WriteVerdict, OtherRows
  <2>5. QED
    BY <1>1, <2>1, <2>3, <2>4, BaseOfOne DEF Typed, history
<1>6. ASSUME NEW s \in Names \cup {"wire"}, SeeCancelled(j, s) PROVE Base'
  <2>1. Exists(j) /\ UNCHANGED <<job, req, up, faults, history>>
    BY <1>1, <1>6 DEF SeeCancelled, At, Alive, Stopped, Exists
  <2>2. ex' \in [Jobs -> ExState] /\ OtherRows(j)
    BY <1>1, <1>6 DEF SeeCancelled, OtherRows
  <2>3. QED
    BY <1>1, <2>1, <2>2, BaseOfOne DEF Typed, history, Exists
<1>7. QED
  BY <1>2, <1>3, <1>4, <1>5, <1>6 DEF Ends

LEMMA BaseOfRefusal ==
  ASSUME Base, NEW j \in Jobs, Refusal(j) PROVE Base'
<1>1. /\ job \in [Jobs -> JobRow] /\ ex \in [Jobs -> ExState] /\ Gone \in ExState
      /\ begun \in [Jobs -> SUBSET Pcs]
      /\ faults \in 0 .. MaxFaults /\ quit \in [Jobs -> {"no", "heard", "late"}]
      /\ refused \subseteq Jobs /\ (Alive(j) => Exists(j)) /\ MaxFaults \in Nat
  BY GoneTyped, OptionsAssumption DEF Base, TypeOK, ExState, Complete
<1>2. /\ UNCHANGED <<job, req, up, quit, begun, raced>>
      /\ refused' = refused \cup {j} /\ faults' \in 0 .. MaxFaults
  BY <1>1 DEF Refusal, BeginRefused, StatusRefused, VerdictUnread, Overlook, Unanswered, Fault
<1>3. ex[j].pc # "gone"
  BY OrderFacts DEF Refusal, BeginRefused, StatusRefused, VerdictUnread, Overlook, At,
     Names, Order
<1>4. \E x \in ExState : ex' = [ex EXCEPT ![j] = x]
  <2>1. ex[j] \in ExState
    BY <1>1
  <2>2. [ex[j] EXCEPT !.pc = "validate"] \in ExState
    BY <2>1, OrderFacts DEF ExState, Pcs, Names, Order
  <2>3. [ex[j] EXCEPT !.pc = "write", !.verdict = "completed"] \in ExState
    BY <2>1 DEF ExState, Pcs
  <2>4. [ex[j] EXCEPT !.overlooked = TRUE] \in ExState
    BY <2>1 DEF ExState
  <2>5. CASE BeginRefused(j)
    BY <2>2, <2>5 DEF BeginRefused
  <2>6. CASE StatusRefused(j)
    BY <1>1, <2>6 DEF StatusRefused
  <2>7. CASE VerdictUnread(j)
    BY <2>3, <2>7 DEF VerdictUnread
  <2>8. CASE \E s \in Names \cup {"wire"} : Overlook(j, s)
    BY <2>4, <2>8 DEF Overlook
  <2>9. QED
    BY <2>5, <2>6, <2>7, <2>8 DEF Refusal
<1>5. ex' \in [Jobs -> ExState] /\ OtherRows(j)
  BY <1>1, <1>2, <1>4 DEF OtherRows
<1>6. QED
  BY <1>1, <1>2, <1>3, <1>5, BaseOfOne DEF Typed, Alive, Exists

LEMMA BaseOfCancel ==
  ASSUME Base, NEW j \in Jobs, Cancel(j) PROVE Base'
<1>1. /\ job \in [Jobs -> JobRow] /\ ex \in [Jobs -> ExState]
      /\ begun \in [Jobs -> SUBSET Pcs] /\ faults \in 0 .. MaxFaults
      /\ quit \in [Jobs -> {"no", "heard", "late"}] /\ refused \subseteq Jobs
  BY DEF Base, TypeOK, ExState
<1>2. /\ Exists(j) /\ UNCHANGED <<ex, req, up, faults, begun, raced, refused>>
      /\ job' = [job EXCEPT ![j].status = "cancelled"]
      /\ quit' \in [Jobs -> {"no", "heard", "late"}]
  BY <1>1 DEF Cancel
<1>3. /\ job' \in [Jobs -> JobRow] /\ job'[j].status = "cancelled"
      /\ job'[j].source = job[j].source /\ job'[j].options = job[j].options
  BY <1>1, <1>2 DEF JobRow, Terminal
<1>4. OtherRows(j)
  BY <1>1, <1>2 DEF OtherRows
<1>5. QED
  BY <1>1, <1>2, <1>3, <1>4, BaseOfOne DEF Typed

LEMMA BaseOfCreation ==
  ASSUME Base, NEW c \in Clients,
         \/ \E s \in Sources, o \in OptionSets : CountActive(c, s, o) \/ CountFails(c, s, o)
         \/ \E j \in Jobs : InsertJob(c, j)
  PROVE  Base'
<1>1. /\ job \in [Jobs -> JobRow] /\ ex \in [Jobs -> ExState]
      /\ req \in [Clients -> ClientState] /\ IdleClient \in ClientState
  BY DEF Base, TypeOK, ExState, ClientState, IdleClient
<1>2. ASSUME NEW s \in Sources, NEW o \in OptionSets,
             CountActive(c, s, o) \/ CountFails(c, s, o)
      PROVE  Base'
  <2>1. PICK x \in BOOLEAN :
          req' = [req EXCEPT ![c] = [pc |-> "insert", source |-> s, options |-> o, raced |-> x]]
    BY <1>2 DEF CountActive, CountFails
  <2>2. req' \in [Clients -> ClientState]
    BY <1>1, <2>1 DEF ClientState
  <2>3. UNCHANGED <<job, ex, up, history>> /\ faults' \in 0 .. MaxFaults
    BY <1>2, OptionsAssumption DEF CountActive, CountFails, Fault, Base, TypeOK
  <2>4. TypeOK'
    BY <2>2, <2>3 DEF Base, TypeOK, history, ClientState
  <2>5. Complete'
    BY <1>1, <2>1, <2>3 DEF Base, Complete, Alive, Exists
  <2>6. QED
    BY <2>4, <2>5 DEF Base
<1>3. ASSUME NEW j \in Jobs, InsertJob(c, j) PROVE Base'
  <2>1. /\ req[c].pc = "insert" /\ req[c].source \in Sources /\ req[c].options \in OptionSets
        /\ UNCHANGED <<up, faults, quit, begun, refused>>
        /\ raced' \subseteq Jobs
    BY <1>3 DEF InsertJob, Base, Complete, TypeOK
  <2>2. PICK x : /\ x = [NoJob EXCEPT !.status = "pending", !.source = req[c].source,
                                      !.options = req[c].options]
                 /\ job' = [job EXCEPT ![j] = x]
    BY <1>3 DEF InsertJob
  <2>3. /\ x \in JobRow /\ x.source = req[c].source /\ x.options = req[c].options
        /\ x.status = "pending"
    BY <2>1, <2>2 DEF NoJob, JobRow, Running
  <2>4. ex' = [ex EXCEPT ![j] = [Gone EXCEPT !.pc = "begin"]] /\ ex' \in [Jobs -> ExState]
    BY <1>1, <1>3, GoneTyped DEF InsertJob, Pcs
  <2>5. \A d \in Clients :
          /\ req'[d] \in ClientState
          /\ d = c => req'[d] = IdleClient
          /\ d # c => /\ req'[d].pc = req[d].pc /\ req'[d].source = req[d].source
                      /\ req'[d].options = req[d].options
    <3>1. req' = [d \in Clients |-> IF d = c THEN IdleClient
                   ELSE [req[d] EXCEPT !.raced = req[d].raced \/ req[d].source = req[c].source]]
      BY <1>3 DEF InsertJob
    <3>2. ASSUME NEW d \in Clients, d # c
          PROVE  /\ req'[d] \in ClientState
                 /\ req'[d].pc = req[d].pc /\ req'[d].source = req[d].source
                 /\ req'[d].options = req[d].options
      <4>1. req[d] \in ClientState
        BY <1>1
      <4>2. (req[d].raced \/ req[d].source = req[c].source) \in BOOLEAN
        OBVIOUS
      <4>3. QED
        BY <3>1, <3>2, <4>1, <4>2 DEF ClientState
    <3>3. QED
      BY <1>1, <3>1, <3>2
  <2>6. req' \in [Clients -> ClientState]
    BY <1>3, <2>5 DEF InsertJob
  <2>7. job' \in [Jobs -> JobRow]
    BY <1>1, <2>2, <2>3
  <2>8. TypeOK'
    BY <2>1, <2>4, <2>6, <2>7 DEF Base, TypeOK, ExState, ClientState
  <2>9. ASSUME NEW k \in Jobs
        PROVE  /\ Alive(k)' => Exists(k)'
               /\ Exists(k)' => job'[k].options \in OptionSets /\ job'[k].source \in Sources
    BY <1>1, <2>1, <2>2, <2>3, <2>4 DEF Base, Complete, Alive, Exists
  <2>10. Complete'
    BY <2>5, <2>9 DEF Base, Complete, IdleClient
  <2>11. QED
    BY <2>8, <2>10 DEF Base
<1>4. QED
  BY <1>2, <1>3

LEMMA BaseOfPanel ==
  ASSUME Base, Stop \/ Boot \/ BootWithoutResume PROVE Base'
<1>1. /\ job \in [Jobs -> JobRow] /\ ex \in [Jobs -> ExState] /\ Gone \in ExState
      /\ IdleClient \in ClientState
      /\ \A n \in Pcs : [Gone EXCEPT !.pc = n] \in ExState
      /\ "begin" \in Pcs
  BY GoneTyped DEF Base, TypeOK, ExState, ClientState, IdleClient, Pcs
<1>2. CASE Stop
  <2>1. /\ UNCHANGED <<job, history>> /\ ex' = [j \in Jobs |-> Gone]
        /\ req' = [c \in Clients |-> IdleClient]
        /\ up' \in BOOLEAN /\ Fault
    BY <1>2 DEF Stop
  <2>2. faults' \in 0 .. MaxFaults
    BY <2>1, OptionsAssumption DEF Fault, Base, TypeOK
  <2>3. ex' \in [Jobs -> ExState] /\ req' \in [Clients -> ClientState]
    BY <1>1, <2>1
  <2>4. TypeOK'
    BY <2>1, <2>2, <2>3 DEF Base, TypeOK, ExState, ClientState, history
  <2>5. Complete'
    BY <2>1 DEF Base, Complete, Alive, Exists, Gone, IdleClient
  <2>6. QED
    BY <2>4, <2>5 DEF Base
<1>3. CASE Boot
  <2>1. /\ UNCHANGED <<req, faults, history>> /\ up' \in BOOLEAN
        /\ ex' \in [Jobs -> ExState]
    BY <1>1, <1>3 DEF Boot
  <2>2. ASSUME NEW j \in Jobs
        PROVE  /\ job'[j] \in JobRow /\ job'[j].status = job[j].status
               /\ job'[j].options = job[j].options /\ job'[j].source = job[j].source
               /\ ex'[j].pc # "gone" => j \in Resumable
    <3>1. job[j] \in JobRow
      BY <1>1
    <3>2. job'[j] = IF j \in Resumable THEN [job[j] EXCEPT !.failedStep = FALSE] ELSE job[j]
      BY <1>3 DEF Boot
    <3>3. ex'[j] = IF j \in Resumable THEN [Gone EXCEPT !.pc = "begin"] ELSE Gone
      BY <1>3 DEF Boot
    <3>4. /\ job'[j] \in JobRow /\ job'[j].status = job[j].status
          /\ job'[j].options = job[j].options /\ job'[j].source = job[j].source
      BY <3>1, <3>2 DEF JobRow
    <3>5. QED
      BY <3>3, <3>4 DEF Gone
  <2>3. job' \in [Jobs -> JobRow]
    BY <1>3, <2>2 DEF Boot
  <2>4. TypeOK'
    BY <2>1, <2>3 DEF Base, TypeOK, ExState, history
  <2>5. Complete'
    BY <2>1, <2>2 DEF Base, Complete, Alive, Exists, Resumable, Running
  <2>6. QED
    BY <2>4, <2>5 DEF Base
<1>4. CASE BootWithoutResume
  <2>1. /\ UNCHANGED <<job, ex, req, quit, begun, raced>> /\ up' \in BOOLEAN
        /\ faults' \in 0 .. MaxFaults /\ refused' \subseteq Jobs
    BY <1>4, OptionsAssumption DEF BootWithoutResume, Fault, Resumable, Base, TypeOK
  <2>2. QED
    BY <2>1 DEF Base, TypeOK, Complete, Alive, Exists
<1>5. QED
  BY <1>2, <1>3, <1>4

LEMMA BaseStep == Base /\ [Next]_vars => Base'
<1> SUFFICES ASSUME Base, [Next]_vars PROVE Base'
  OBVIOUS
<1>1. CASE UNCHANGED vars
  BY <1>1 DEF vars, history, Base, TypeOK, Complete, Alive, Exists
<1>2. ASSUME NEW j \in Jobs, Execute(j) PROVE Base'
  BY <1>2, ExecuteCases, StepMoves, BaseOfMove, BaseOfEnds
<1>3. ASSUME NEW j \in Jobs, Cancel(j) \/ Refusal(j) PROVE Base'
  BY <1>3, BaseOfCancel, BaseOfRefusal
<1>4. QED
  BY <1>1, <1>2, <1>3, BaseOfCreation, BaseOfPanel DEF Next

LEMMA BaseInit == Init => Base
<1> SUFFICES ASSUME Init PROVE Base
  OBVIOUS
<1>1. NoJob \in JobRow /\ Gone \in ExState /\ IdleClient \in ClientState
  BY GoneTyped DEF NoJob, JobRow, ClientState, IdleClient
<1>2. TypeOK
  <2>1. /\ job \in [Jobs -> JobRow] /\ ex \in [Jobs -> ExState]
        /\ req \in [Clients -> ClientState]
    BY <1>1 DEF Init
  <2>2. /\ up \in BOOLEAN /\ faults \in 0 .. MaxFaults
        /\ quit \in [Jobs -> {"no", "heard", "late"}]
        /\ begun \in [Jobs -> SUBSET Pcs] /\ raced \subseteq Jobs /\ refused \subseteq Jobs
    BY OptionsAssumption DEF Init
  <2>3. QED
    BY <2>1, <2>2 DEF TypeOK, ExState, ClientState
<1>3. Complete
  BY DEF Init, Complete, Alive, Exists, Gone, NoJob, IdleClient
<1>4. QED
  BY <1>2, <1>3 DEF Base

\* Every state of TransferJob is well typed.
THEOREM TypeCorrect == Spec => []TypeOK
<1>1. Spec => []Base
  BY BaseInit, BaseStep, PTL DEF Spec
<1>2. QED
  BY <1>1, PTL DEF Base

-----------------------------------------------------------------------------
(* One transfer: its row, its goroutine and what became of it              *)

NoOrphan(j) == up /\ job[j].status \in Running => j \in refused \/ Alive(j)
Honest(j) ==
  /\ job[j].status \in {"completed", "partial", "failed"} => ~Alive(j)
  /\ j \notin refused => /\ job[j].status = "completed" => ~job[j].failedStep /\ ~job[j].errors
                         /\ ex[j].pc = "write" /\ ex[j].verdict = "completed" =>
                              ~job[j].failedStep /\ ~job[j].errors
Heeds(j) ==
  /\ ex[j].overlooked => j \in refused
  /\ j \notin refused => /\ begun[j] = {}
                         /\ quit[j] = "heard" => /\ job[j].status = "cancelled"
                                                 /\ Alive(j) => ex[j].pc \in Heard
Works(j) ==
  quit[j] = "no" => /\ Alive(j) => job[j].status \in Running
                    /\ job[j].status # "cancelled"
JobInv(j) == NoOrphan(j) /\ Honest(j) /\ Heeds(j) /\ Works(j)

\* What a step does to the transfers it is not about.
LEMMA JobLeftAlone ==
  ASSUME NEW j \in Jobs, JobInv(j), job'[j] = job[j], ex'[j] = ex[j], quit'[j] = quit[j],
         begun'[j] = begun[j], j \in refused => j \in refused', up' => up
  PROVE  JobInv(j)'
BY DEF JobInv, NoOrphan, Honest, Heeds, Works, Alive

LEMMA HeardFacts ==
  /\ Heard \cap {"validate", "discover", "finish", "begin", "write", "gone"} = {}
  /\ Unchecked \cap Heard \subseteq Quiet
  /\ Names \cap {"gone", "begin", "write"} = {}
BY DEF Heard, Unchecked, Quiet, Names, Order

LEMMA JobOfMove ==
  ASSUME Base, NEW j \in Jobs, JobInv(j), NEW k \in Jobs, NEW s \in Pcs, Moves(k, s)
  PROVE  JobInv(j)'
<1>1. begun \in [Jobs -> SUBSET Pcs]
  BY DEF Base, TypeOK
<1>2. CASE j # k
  BY <1>1, <1>2, JobLeftAlone DEF Moves, OtherRows
<1>3. CASE j = k
  <2>1. /\ up /\ ex[j].pc = s /\ s \notin {"gone", "begin", "write", "finish"}
        /\ s \notin Quiet /\ Stopped(j, s) => ex[j].overlooked
        /\ quit[j] # "heard" \/ s \in Quiet => begun' = begun
        /\ ex'[j].pc \notin {"gone", "write"} /\ ~ex'[j].overlooked
        /\ s \in Quiet => ex'[j].pc \in Heard
        /\ refused' = refused /\ quit' = quit
        /\ job'[j].status = job[j].status
    BY <1>3, HeardFacts DEF Moves, SameJob
  <2>2. Alive(j) /\ Alive(j)'
    BY <2>1 DEF Alive
  <2>3. NoOrphan(j)' /\ Honest(j)' /\ Works(j)'
    BY <2>1, <2>2 DEF JobInv, NoOrphan, Honest, Works
  <2>4. ASSUME j \notin refused, quit[j] = "heard" PROVE s \in Quiet
    <3>1. s \in Heard /\ job[j].status = "cancelled" /\ ~ex[j].overlooked
      BY <2>1, <2>2, <2>4 DEF JobInv, Heeds
    <3>2. QED
      BY <2>1, <3>1, HeardFacts DEF Stopped
  <2>5. Heeds(j)'
    BY <2>1, <2>2, <2>4 DEF JobInv, Heeds
  <2>6. QED
    BY <2>3, <2>5 DEF JobInv
<1>4. QED
  BY <1>2, <1>3

\* What the steps that are no moves may do.
Begun(j, s) == begun' = IF quit[j] = "heard" /\ s \notin {"firewall", "apps"}
                        THEN [begun EXCEPT ![j] = @ \cup {s}] ELSE begun
EndShape(j) ==
  \/ /\ ex[j].pc = "begin" /\ job'[j].status = "in_progress" /\ begun' = begun
     /\ ex'[j].pc = "validate" /\ ex'[j].overlooked = ex[j].overlooked
  \/ /\ ex[j].pc \in {"validate", "discover"} /\ job'[j].status = "failed"
     /\ ex'[j] = Gone /\ Begun(j, ex[j].pc)
  \/ /\ ex[j].pc = "finish" /\ job'[j] = job[j] /\ Begun(j, "finish")
     /\ ex'[j].pc = "write" /\ ex'[j].overlooked = ex[j].overlooked
     /\ ex'[j].verdict = Verdict(j)
  \/ /\ ex[j].pc = "write" /\ job'[j].status = ex[j].verdict /\ begun' = begun
     /\ job'[j].failedStep = job[j].failedStep /\ job'[j].errors = job[j].errors
     /\ ex'[j] = Gone
  \/ /\ job[j].status = "cancelled" /\ job'[j] = job[j] /\ begun' = begun
     /\ ex'[j] = Gone /\ ex[j].pc # "gone"

LEMMA EndFacts ==
  ASSUME Base, NEW j \in Jobs, Ends(j)
  PROVE  /\ EndShape(j) /\ OtherRows(j) /\ up /\ job'[j].source = job[j].source
         /\ UNCHANGED <<req, up, quit, raced, refused>>
<1>1. job \in [Jobs -> JobRow] /\ ex \in [Jobs -> ExState]
  BY DEF Base, TypeOK, ExState
<1>2. CASE Begin(j)
  BY <1>1, <1>2 DEF Begin, At, OtherRows, JobRow, ExState, history, EndShape
<1>3. CASE (Validate(j) \/ Discover(j)) /\ Abort(j)
  <2>1. /\ ex[j].pc \in {"validate", "discover"} /\ Step(j, ex[j].pc)
        /\ UNCHANGED <<req, up, quit, raced, refused>> /\ up
    BY <1>3 DEF Validate, Discover, Step, At
  <2>2. Begun(j, ex[j].pc)
    BY <2>1 DEF Step, Begun
  <2>3. ex' = [ex EXCEPT ![j] = Gone]
    BY <1>3 DEF Abort
  <2>4. PICK x : /\ x = [job[j] EXCEPT !.status = "failed", !.failedStep = TRUE]
                 /\ job' = [job EXCEPT ![j] = x]
    BY <1>3 DEF Abort
  <2>5. x.status = "failed" /\ x.source = job[j].source
    BY <1>1, <2>4 DEF JobRow
  <2>6. job'[j] = x /\ ex'[j] = Gone /\ OtherRows(j)
    BY <1>1, <2>3, <2>4 DEF OtherRows
  <2>7. QED
    BY <2>1, <2>2, <2>5, <2>6 DEF EndShape
<1>4. CASE ReadVerdict(j)
  BY <1>1, <1>4 DEF ReadVerdict, Step, At, OtherRows, ExState, EndShape, Begun
<1>5. CASE WriteVerdict(j)
  BY <1>1, <1>5 DEF WriteVerdict, At, OtherRows, JobRow, history, EndShape
<1>6. ASSUME NEW s \in Names \cup {"wire"}, SeeCancelled(j, s)
      PROVE  /\ EndShape(j) /\ OtherRows(j) /\ up /\ job'[j].source = job[j].source
             /\ UNCHANGED <<req, up, quit, raced, refused>>
  BY <1>1, <1>6, HeardFacts DEF SeeCancelled, Stopped, At, OtherRows, history, EndShape
<1>7. QED
  BY <1>2, <1>3, <1>4, <1>5, <1>6 DEF Ends

LEMMA JobOfEnd ==
  ASSUME Base, NEW j \in Jobs, JobInv(j), NEW k \in Jobs, Ends(k)
  PROVE  JobInv(j)'
<1>1. /\ begun \in [Jobs -> SUBSET Pcs] /\ ex[j].verdict \in {"completed", "partial"}
      /\ job[j].failedStep \in BOOLEAN /\ job[j].errors \in BOOLEAN
  BY DEF Base, TypeOK, JobRow
<1>2. /\ EndShape(k) /\ OtherRows(k) /\ up
      /\ UNCHANGED <<req, up, quit, raced, refused>>
  BY EndFacts
<1>3. CASE j # k
  <2>1. begun'[j] = begun[j]
    BY <1>1, <1>2, <1>3 DEF EndShape, Begun
  <2>2. QED
    BY <1>2, <1>3, <2>1, JobLeftAlone DEF OtherRows
<1>4. CASE j = k
  <2>1. ex[j].pc # "gone" /\ Alive(j)
    BY <1>2, <1>4 DEF EndShape, Alive
  <2>2. ASSUME j \notin refused, ex[j].pc \notin Heard PROVE quit[j] # "heard"
    BY <2>1, <2>2 DEF JobInv, Heeds
  <2>3. j \notin refused => begun'[j] = begun[j]
    BY <1>1, <1>2, <1>4, <2>2, HeardFacts DEF EndShape, Begun
  <2>4. ~Gone.overlooked /\ Gone.pc = "gone"
    BY DEF Gone
  <2>5. Heeds(j)'
    BY <1>2, <1>4, <2>1, <2>2, <2>3, <2>4, HeardFacts DEF EndShape, JobInv, Heeds, Alive
  <2>6. Honest(j)'
    BY <1>1, <1>2, <1>4, <2>1, <2>4 DEF EndShape, JobInv, Honest, Alive, Verdict
  <2>7. NoOrphan(j)' /\ Works(j)'
    BY <1>1, <1>2, <1>4, <2>1, <2>4 DEF EndShape, JobInv, NoOrphan, Works, Alive, Running
  <2>8. QED
    BY <2>5, <2>6, <2>7 DEF JobInv
<1>5. QED
  BY <1>3, <1>4

LEMMA JobOfRefusal ==
  ASSUME Base, NEW j \in Jobs, JobInv(j), NEW k \in Jobs, Refusal(k)
  PROVE  JobInv(j)'
<1>1. /\ UNCHANGED <<job, up, quit, begun>> /\ refused' = refused \cup {k}
  BY DEF Refusal, BeginRefused, StatusRefused, VerdictUnread, Overlook, Unanswered
<1>2. ex[k].pc # "gone"
  BY OrderFacts DEF Refusal, BeginRefused, StatusRefused, VerdictUnread, Overlook, At,
     Names, Order
<1>3. \E x : ex' = [ex EXCEPT ![k] = x]
  BY DEF Refusal, BeginRefused, StatusRefused, VerdictUnread, Overlook
<1>4. CASE j # k
  <2>1. ex'[j] = ex[j]
    BY <1>3, <1>4 DEF Base, TypeOK
  <2>2. QED
    BY <1>1, <2>1, JobLeftAlone
<1>5. CASE j = k
  BY <1>1, <1>2, <1>5 DEF JobInv, NoOrphan, Honest, Heeds, Works, Alive
<1>6. QED
  BY <1>4, <1>5

LEMMA JobOfCancel ==
  ASSUME Base, NEW j \in Jobs, JobInv(j), NEW k \in Jobs, Cancel(k)
  PROVE  JobInv(j)'
<1>1. /\ UNCHANGED <<ex, up, begun, refused>> /\ job[k].status # "cancelled"
      /\ quit' = [quit EXCEPT ![k] = IF ex[k].pc \in Heard THEN "heard" ELSE "late"]
      /\ job' = [job EXCEPT ![k] = [job[k] EXCEPT !.status = "cancelled"]]
  BY DEF Cancel
<1>2. /\ job \in [Jobs -> JobRow] /\ quit \in [Jobs -> {"no", "heard", "late"}]
  BY DEF Base, TypeOK
<1>3. CASE j # k
  BY <1>1, <1>2, <1>3, JobLeftAlone
<1>4. CASE j = k
  <2>1. /\ job'[j].status = "cancelled" /\ job'[j].errors = job[j].errors
        /\ job'[j].failedStep = job[j].failedStep
    BY <1>1, <1>2, <1>4 DEF JobRow
  <2>2. quit'[j] # "no" /\ (quit'[j] = "heard" => ex[j].pc \in Heard)
    BY <1>1, <1>2, <1>4
  <2>3. QED
    BY <1>1, <2>1, <2>2 DEF JobInv, NoOrphan, Honest, Heeds, Works, Alive, Running
<1>5. QED
  BY <1>3, <1>4

LEMMA JobOfCreation ==
  ASSUME Base, NEW j \in Jobs, JobInv(j), NEW c \in Clients,
         \/ \E s \in Sources, o \in OptionSets : CountActive(c, s, o) \/ CountFails(c, s, o)
         \/ \E k \in Jobs : InsertJob(c, k)
  PROVE  JobInv(j)'
<1>1. CASE \E s \in Sources, o \in OptionSets : CountActive(c, s, o) \/ CountFails(c, s, o)
  <2>1. UNCHANGED <<job, ex, up, history>>
    BY <1>1 DEF CountActive, CountFails
  <2>2. QED
    BY <2>1, JobLeftAlone DEF history
<1>2. ASSUME NEW k \in Jobs, InsertJob(c, k) PROVE JobInv(j)'
  <2>1. /\ job \in [Jobs -> JobRow] /\ ex \in [Jobs -> ExState]
    BY DEF Base, TypeOK, ExState
  <2>2. PICK x : /\ x = [NoJob EXCEPT !.status = "pending", !.source = req[c].source,
                                      !.options = req[c].options]
                 /\ job' = [job EXCEPT ![k] = x]
    BY <1>2 DEF InsertJob
  <2>3. ex' = [ex EXCEPT ![k] = [Gone EXCEPT !.pc = "begin"]]
        /\ job[k].status = "absent" /\ UNCHANGED <<up, quit, begun, refused>>
    BY <1>2 DEF InsertJob, Exists
  <2>4. CASE j # k
    BY <2>1, <2>2, <2>3, <2>4, JobLeftAlone
  <2>5. CASE j = k
    <3>1. job'[j].status = "pending" /\ ex'[j].pc = "begin" /\ ~ex'[j].overlooked
      BY <2>1, <2>2, <2>3, <2>5 DEF NoJob, Gone
    <3>2. j \notin refused => begun[j] = {} /\ quit[j] # "heard"
      BY <2>3, <2>5 DEF JobInv, Heeds
    <3>3. QED
      BY <2>3, <3>1, <3>2 DEF JobInv, NoOrphan, Honest, Heeds, Works, Alive, Running
  <2>6. QED
    BY <2>4, <2>5
<1>3. QED
  BY <1>1, <1>2

LEMMA JobOfPanel ==
  ASSUME Base, NEW j \in Jobs, JobInv(j), Stop \/ Boot \/ BootWithoutResume
  PROVE  JobInv(j)'
<1>1. job[j] \in JobRow /\ ~Gone.overlooked /\ Gone.pc = "gone"
  BY DEF Base, TypeOK, Gone
<1>2. CASE Stop
  <2>1. UNCHANGED <<job, quit, begun, refused>> /\ up' = FALSE /\ ex'[j] = Gone
    BY <1>2 DEF Stop, history
  <2>2. QED
    BY <1>1, <2>1 DEF JobInv, NoOrphan, Honest, Heeds, Works, Alive
<1>3. CASE Boot
  <2>1. UNCHANGED <<quit, begun, refused>>
    BY <1>3 DEF Boot, history
  <2>2. CASE job[j].status \in Running
    <3>1. /\ job'[j] = [job[j] EXCEPT !.failedStep = FALSE]
          /\ ex'[j] = [Gone EXCEPT !.pc = "begin"]
      BY <1>3, <2>2 DEF Boot, Resumable
    <3>2. job'[j].status = job[j].status /\ ex'[j].pc = "begin" /\ ~ex'[j].overlooked
      BY <1>1, <3>1 DEF JobRow, Gone
    <3>3. QED
      BY <2>1, <2>2, <3>2 DEF JobInv, NoOrphan, Honest, Heeds, Works, Alive, Running
  <2>3. CASE job[j].status \notin Running
    <3>1. job'[j] = job[j] /\ ex'[j] = Gone
      BY <1>3, <2>3 DEF Boot, Resumable
    <3>2. QED
      BY <1>1, <2>1, <2>3, <3>1 DEF JobInv, NoOrphan, Honest, Heeds, Works, Alive
  <2>4. QED
    BY <2>2, <2>3
<1>4. CASE BootWithoutResume
  <2>1. UNCHANGED <<job, ex, quit, begun>> /\ refused' = refused \cup Resumable
    BY <1>4 DEF BootWithoutResume
  <2>2. job[j].status \in Running => j \in refused'
    BY <2>1 DEF Resumable
  <2>3. refused \subseteq refused'
    BY <2>1
  <2>4. QED
    BY <2>1, <2>2, <2>3 DEF JobInv, NoOrphan, Honest, Heeds, Works, Alive
<1>5. QED
  BY <1>2, <1>3, <1>4

JobsOK == \A j \in Jobs : JobInv(j)

LEMMA JobsStep == Base /\ JobsOK /\ [Next]_vars => JobsOK'
<1> SUFFICES ASSUME Base, JobsOK, [Next]_vars, NEW j \in Jobs PROVE JobInv(j)'
  BY DEF JobsOK
<1>1. JobInv(j)
  BY DEF JobsOK
<1>2. CASE UNCHANGED vars
  BY <1>1, <1>2, JobLeftAlone DEF vars, history
<1>3. ASSUME NEW k \in Jobs, Execute(k) PROVE JobInv(j)'
  BY <1>1, <1>3, ExecuteCases, StepMoves, JobOfMove, JobOfEnd
<1>4. ASSUME NEW k \in Jobs, Cancel(k) \/ Refusal(k) PROVE JobInv(j)'
  BY <1>1, <1>4, JobOfCancel, JobOfRefusal
<1>5. QED
  BY <1>1, <1>2, <1>3, <1>4, JobOfCreation, JobOfPanel DEF Next

LEMMA JobsInit == Init => JobsOK
BY DEF Init, JobsOK, JobInv, NoOrphan, Honest, Heeds, Works, Alive, NoJob, Gone, Running

LEMMA BaseAndJobs == Spec => [](Base /\ JobsOK)
BY BaseInit, BaseStep, JobsInit, JobsStep, PTL DEF Spec

\* ResumeRunningTransfers leaves no transfer behind, whatever stops, cancellations
\* and refused writes the panel meets.
THEOREM NoOrphansAlways == Spec => []NoOrphans
<1>1. JobsOK => NoOrphans
  BY DEF JobsOK, JobInv, NoOrphan, NoOrphans
<1>2. QED
  BY <1>1, BaseAndJobs, PTL

\* finalTransferStatus is honest: a transfer that reads completed has no failed
\* step and no counted error, whatever restarts and cancellations it met.
THEOREM GreenMeansCountedAlways == Spec => []GreenMeansCounted
<1>1. JobsOK => GreenMeansCounted
  BY DEF JobsOK, JobInv, Honest, GreenMeansCounted
<1>2. QED
  BY <1>1, BaseAndJobs, PTL

\* A cancellation that is heard is final and stops the copying, at whichever step
\* it comes and whatever stops the panel meets.
THEOREM CancelHoldsAlways == Spec => []CancelHolds
<1>1. JobsOK => CancelHolds
  BY DEF JobsOK, JobInv, Heeds, CancelHolds
<1>2. QED
  BY <1>1, BaseAndJobs, PTL

-----------------------------------------------------------------------------
(* Two transfers of one source                                             *)

\* A transfer that counts as active and was never cancelled.
Live(j) == job[j].status \in Running /\ quit[j] = "no"

Apart ==
  \A j, k \in Jobs : j # k /\ Live(j) /\ Live(k) /\ job[j].source = job[k].source =>
    {j, k} \cap raced # {}
\* A creation that nothing overlapped still finds no active transfer.
Counted ==
  \A c \in Clients : req[c].pc = "insert" /\ ~req[c].raced =>
    \A k \in Jobs : job[k].source = req[c].source => ~Live(k)

\* No transfer comes to life but by its creation.
Survives == \A j \in Jobs : Live(j)' => Live(j) /\ job'[j].source = job[j].source

LEMMA ApartOfSurvival ==
  ASSUME Apart, Counted, Survives, raced' = raced,
         \A c \in Clients : req'[c] = req[c] \/ req'[c] = IdleClient
  PROVE  Apart' /\ Counted'
<1>1. Apart'
  BY DEF Apart, Survives
<1>2. IdleClient.pc # "insert"
  BY DEF IdleClient
<1>3. Counted'
  BY <1>2 DEF Counted, Survives
<1>4. QED
  BY <1>1, <1>3

LEMMA ApartStep == Base /\ JobsOK /\ Apart /\ Counted /\ [Next]_vars => Apart' /\ Counted'
<1> SUFFICES ASSUME Base, JobsOK, Apart, Counted, [Next]_vars PROVE Apart' /\ Counted'
  OBVIOUS
<1>1. CASE UNCHANGED vars
  BY <1>1, ApartOfSurvival DEF vars, history, Survives, Live
<1>2. ASSUME NEW j \in Jobs, NEW s \in Pcs, Moves(j, s) PROVE Apart' /\ Counted'
  <2>1. Survives
    BY <1>2 DEF Moves, OtherRows, SameJob, Survives, Live
  <2>2. QED
    BY <1>2, <2>1, ApartOfSurvival DEF Moves
<1>3. ASSUME NEW j \in Jobs, Ends(j) PROVE Apart' /\ Counted'
  <2>1. /\ EndShape(j) /\ OtherRows(j) /\ job'[j].source = job[j].source
        /\ UNCHANGED <<req, up, quit, raced, refused>>
    BY <1>3, EndFacts
  <2>2. ex[j].verdict \in {"completed", "partial"}
    BY DEF Base, TypeOK
  <2>3. Live(j)' => Live(j)
    BY <2>1, <2>2 DEF EndShape, Live, Running, JobsOK, JobInv, Works, Alive
  <2>4. Survives
    BY <2>1, <2>3 DEF OtherRows, Survives, Live
  <2>5. QED
    BY <2>1, <2>4, ApartOfSurvival
<1>4. ASSUME NEW j \in Jobs, Refusal(j) PROVE Apart' /\ Counted'
  <2>1. UNCHANGED <<job, req, quit, raced>>
    BY <1>4 DEF Refusal, BeginRefused, StatusRefused, VerdictUnread, Overlook, Unanswered
  <2>2. QED
    BY <2>1, ApartOfSurvival DEF Survives, Live
<1>5. ASSUME NEW j \in Jobs, Cancel(j) PROVE Apart' /\ Counted'
  <2>1. /\ job' = [job EXCEPT ![j] = [job[j] EXCEPT !.status = "cancelled"]]
        /\ quit' = [quit EXCEPT ![j] = IF ex[j].pc \in Heard THEN "heard" ELSE "late"]
        /\ UNCHANGED <<req, raced>>
    BY <1>5 DEF Cancel
  <2>2. job \in [Jobs -> JobRow] /\ quit \in [Jobs -> {"no", "heard", "late"}]
    BY DEF Base, TypeOK
  <2>3. quit'[j] # "no" /\ \A k \in Jobs \ {j} : job'[k] = job[k] /\ quit'[k] = quit[k]
    BY <2>1, <2>2
  <2>4. Survives
    BY <2>3 DEF Survives, Live
  <2>5. QED
    BY <2>1, <2>4, ApartOfSurvival
<1>6. ASSUME NEW c \in Clients, NEW s \in Sources, NEW o \in OptionSets,
             CountActive(c, s, o) \/ CountFails(c, s, o)
      PROVE  Apart' /\ Counted'
  <2>1. UNCHANGED <<job, history>> /\ req \in [Clients -> ClientState]
    BY <1>6 DEF CountActive, CountFails, Base, TypeOK, ClientState
  <2>2. Apart'
    BY <2>1 DEF Apart, Live, history
  <2>3. PICK x \in BOOLEAN :
          /\ req' = [req EXCEPT ![c] = [pc |-> "insert", source |-> s, options |-> o, raced |-> x]]
          /\ x \/ Active(s) = {}
    BY <1>6 DEF CountActive, CountFails
  <2>4. ASSUME NEW d \in Clients, NEW k \in Jobs, req'[d].pc = "insert", ~req'[d].raced,
               job[k].source = req'[d].source
        PROVE  ~Live(k)
    <3>1. CASE d # c
      BY <2>1, <2>3, <2>4, <3>1 DEF Counted
    <3>2. CASE d = c
      BY <2>1, <2>3, <2>4, <3>2 DEF Active, Live
    <3>3. QED
      BY <3>1, <3>2
  <2>5. Counted'
    BY <2>1, <2>4 DEF Counted, Live, history
  <2>6. QED
    BY <2>2, <2>5
<1>7. ASSUME NEW c \in Clients, NEW j \in Jobs, InsertJob(c, j) PROVE Apart' /\ Counted'
  <2>1. /\ job \in [Jobs -> JobRow] /\ raced \subseteq Jobs
        /\ req[c].pc = "insert" /\ quit' = quit
    BY <1>7 DEF Base, TypeOK, InsertJob
  <2>2. PICK x : /\ x = [NoJob EXCEPT !.status = "pending", !.source = req[c].source,
                                      !.options = req[c].options]
                 /\ job' = [job EXCEPT ![j] = x]
    BY <1>7 DEF InsertJob
  <2>3. /\ job'[j].source = req[c].source
        /\ \A k \in Jobs \ {j} : job'[k] = job[k]
    BY <2>1, <2>2 DEF NoJob
  <2>4. raced \subseteq raced' /\ (req[c].raced => j \in raced')
    BY <1>7 DEF InsertJob
  <2>5. ~req[c].raced => \A k \in Jobs : job[k].source = req[c].source => ~Live(k)
    BY <2>1 DEF Counted
  <2>6. Apart'
    BY <2>1, <2>3, <2>4, <2>5 DEF Apart, Live
  <2>7. ASSUME NEW d \in Clients, req'[d].pc = "insert", ~req'[d].raced
        PROVE  /\ req'[d].source = req[d].source /\ req[d].pc = "insert" /\ ~req[d].raced
               /\ req[d].source # req[c].source
    <3>1. req' = [e \in Clients |-> IF e = c THEN IdleClient
                   ELSE [req[e] EXCEPT !.raced = req[e].raced \/ req[e].source = req[c].source]]
      BY <1>7 DEF InsertJob
    <3>2. d # c
      BY <2>7, <3>1 DEF IdleClient
    <3>3. req[d] \in ClientState
      BY DEF Base, TypeOK, ClientState
    <3>4. PICK b : /\ b = (req[d].raced \/ req[d].source = req[c].source)
                   /\ req'[d] = [req[d] EXCEPT !.raced = b]
      BY <3>1, <3>2
    <3>5. req'[d].raced = b /\ req'[d].source = req[d].source /\ req'[d].pc = req[d].pc
      BY <3>3, <3>4 DEF ClientState
    <3>6. QED
      BY <2>7, <3>4, <3>5
  <2>8. Counted'
    BY <2>1, <2>3, <2>7 DEF Counted, Live
  <2>9. QED
    BY <2>6, <2>8
<1>8. CASE Stop \/ Boot \/ BootWithoutResume
  <2>1. /\ UNCHANGED <<quit, raced>>
        /\ \A c \in Clients : req'[c] = req[c] \/ req'[c] = IdleClient
    BY <1>8 DEF Stop, Boot, BootWithoutResume, history
  <2>2. ASSUME NEW j \in Jobs
        PROVE  job'[j].status = job[j].status /\ job'[j].source = job[j].source
    <3>1. job[j] \in JobRow
      BY DEF Base, TypeOK
    <3>2. job'[j] = job[j] \/ job'[j] = [job[j] EXCEPT !.failedStep = FALSE]
      BY <1>8 DEF Stop, Boot, BootWithoutResume
    <3>3. QED
      BY <3>1, <3>2 DEF JobRow
  <2>3. Survives
    BY <2>1, <2>2 DEF Survives, Live
  <2>4. QED
    BY <2>1, <2>3, ApartOfSurvival
<1>9. ASSUME NEW j \in Jobs, Execute(j) PROVE Apart' /\ Counted'
  BY <1>2, <1>3, <1>9, ExecuteCases, StepMoves
<1>10. QED
  BY <1>1, <1>4, <1>5, <1>6, <1>7, <1>8, <1>9 DEF Next

LEMMA ApartInit == Init => Apart /\ Counted
BY DEF Init, Apart, Counted, Live, NoJob, IdleClient, Running

\* "One active transfer per source": two goroutines copy from one source only if
\* their creations overlapped, a count failed or one was cancelled.
THEOREM OverlapOnlyByRaceAlways == Spec => []OverlapOnlyByRace
<1>1. JobsOK /\ Apart => OverlapOnlyByRace
  BY DEF JobsOK, JobInv, Works, Apart, Live, OverlapOnlyByRace
<1>2. QED
  BY <1>1, BaseInit, BaseStep, JobsInit, JobsStep, ApartInit, ApartStep, PTL DEF Spec
-----------------------------------------------------------------------------
(* Synchronising the panel's records: what holds between the steps         *)

Tables(keys, values) == UNION {[D -> values] : D \in SUBSET keys}

\* The steps of each kind of pass, those that are not in PassOrder included.
Steps ==
  {"off", "files", "roster", "owner", "snapshot", "mirror", "sweep", "fixup", "users",
   "sync", "domains", "project", "service", "enrich", "materialize", "attach", "stamp",
   "pull", "vhost", "vhosts", "proxy", "read", "roots", "child", "over", "dead"}
StepsOf(kind) ==
  CASE kind = "transfer" -> PartsOf(kind) \cup {"off", "dead", "sweep", "stamp", "pull", "vhost"}
    [] kind = "resync" -> PartsOf(kind) \cup {"off", "dead", "sweep"}
    [] kind = "heal" -> PartsOf(kind) \cup {"off", "dead"}
PassState ==
  [kind : Kinds, step : Steps, clean : BOOLEAN,
   map : Tables(Accounts \cup {Owner}, Accounts \cup {Owner}),
   seen : Tables(Accounts, Ids \cup {NoId}), seenMail : Accounts \cup {Owner, Nil},
   todo : SUBSET Accounts, pending : SUBSET Accounts, filed : BOOLEAN]
RowTypes ==
  /\ mail \in Accounts \cup {Owner} /\ tenant \in Tables(Accounts, Ids \cup {NoId})
  /\ project \in Ids \cup {NoId}
  /\ service \in {Nil, "source", "here"} /\ alias \in BOOLEAN
  /\ link \in Tables(Domains, {Nil, "source", "here", "other"})
  /\ static \in SUBSET Domains /\ proxied \in SUBSET (Domains \ static)
  /\ misfiled \in BOOLEAN /\ lost \in BOOLEAN
PanelTypes ==
  /\ RowTypes
  /\ roster \in SUBSET Accounts /\ failures \in 0 .. MaxFailures
  /\ pass \in [Passes -> PassState]
  /\ \A p \in Passes : pass[p].step \in StepsOf(pass[p].kind)
  /\ met \in SUBSET Passes

\* The steps of a pass under way.
Acts(p) ==
  \/ EndOfList(p) \/ LeaveProject(p) \/ HealVhosts(p) \/ Die(p)
  \/ (\E a \in Accounts : MapToOwner(p, a))
  \/ \E ok \in BOOLEAN : \/ MirrorRoster(p, ok) \/ CopyRows(p, ok)
                         \/ AttachAlias(p, ok) \/ HealTenants(p, ok)

\* Two passes that are under way together are marked.
Marked ==
  \A p, q \in Passes : InFlight(p) /\ InFlight(q) /\ p # q => p \in met /\ q \in met

\* An account is on the list or in the map, and goes to its own row unless the
\* owner had its e-mail.
MapPart(r) ==
  /\ \A x \in DOMAIN r.map : r.map[x] \in {x, Owner}
  /\ r.step \in {"files", "roster", "owner", "snapshot"} =>
       r.todo = {} /\ r.pending = {} /\ r.seenMail = Nil
  /\ r.step = "snapshot" => DOMAIN r.map \subseteq {Owner}
  /\ r.step \in {"mirror", "sweep"} =>
       /\ r.todo \cap (r.pending \cup DOMAIN r.map) = {}
       /\ \A a \in r.pending : a \in DOMAIN r.map /\ r.map[a] = a
  /\ r.step = "fixup" => \A a \in r.todo : a \in DOMAIN r.map /\ r.map[a] = a
  /\ r.step = "roots" => r.todo \subseteq Roots
Rooted(t) == Vendor \in DOMAIN t => t[Vendor] \in {There(Vendor), Here(Vendor)}
Walk(p) ==
  /\ MapPart(pass[p]) /\ Rooted(pass[p].seen)
  /\ AtStep(p, "sweep") => Placeholder \notin roster
WalkInv == Rooted(tenant) /\ \A p \in Passes : Walk(p)

\* A pass that was clean and alone so far.  From its look at the owner on, a pass
\* of the accounts knows that the owner has no account's e-mail.
Sure(p) == pass[p].clean /\ p \notin met /\ pass[p].step \notin {"off", "dead"}
Mirrors(p) == pass[p].kind \in {"transfer", "resync"}
Late == {"users", "sync", "domains", "project", "service", "enrich", "materialize",
         "attach", "stamp", "pull", "vhost", "vhosts", "proxy", "read", "roots", "child"}
Settled == Late \cup {"over"}
PassHonest(p) ==
  InFlight(p) => /\ pass[p].seenMail \in {Owner, Nil}
                 /\ \A x \in DOMAIN pass[p].map : pass[p].map[x] = x
Upgraded(p) ==
  /\ Mirrors(p) /\ Sure(p)
  /\ pass[p].step \in {"snapshot", "mirror", "sweep", "fixup"} \cup Settled
HonestInv ==
  (\E p \in Passes : Upgraded(p)) => mail = Owner /\ \A p \in Passes : PassHonest(p)

\* What such a pass has done for the accounts when it is at a step.
Placed(a) ==
  /\ a \in Present
  /\ TenantOf[a] \in roster \cup {Owner} => tenant[a] = Here(TenantOf[a])
MirroredSoFar(p) ==
  /\ pass[p].seenMail = Owner /\ pass[p].todo \subseteq roster
  /\ pass[p].pending = roster \ pass[p].todo /\ pass[p].pending \subseteq Present
  /\ DOMAIN pass[p].map = {Owner} \cup pass[p].pending
  /\ \A a \in pass[p].todo : a \in Present <=> a \in DOMAIN pass[p].seen
FixedSoFar(p) ==
  /\ pass[p].todo \subseteq roster /\ DOMAIN pass[p].map = {Owner} \cup roster
  /\ roster \subseteq Present /\ \A a \in roster \ pass[p].todo : Placed(a)
RosterPart(p) ==
  /\ AtStep(p, "snapshot") => DOMAIN pass[p].map = {Owner}
  /\ pass[p].step \in {"mirror", "sweep"} => MirroredSoFar(p)
  /\ AtStep(p, "fixup") => FixedSoFar(p)
  /\ pass[p].step \in Settled => \A a \in roster : Placed(a)
RosterInv == \A p \in Passes : Mirrors(p) /\ Sure(p) => RosterPart(p)

\* What a transfer knows of the project and its vendor.
ProjectPart(p) ==
  /\ pass[p].step \in Late \ {"users", "sync", "domains", "project"} => project # NoId
  /\ AtStep(p, "service") => pass[p].filed
  /\ pass[p].step \in {"roots", "child"} /\ Vendor \in roster =>
       Vendor \in DOMAIN pass[p].seen
  /\ AtStep(p, "roots") /\ Vendor \in DOMAIN pass[p].seen /\ Vendor \notin pass[p].todo =>
       pass[p].seen[Vendor] = Here(Vendor)
  /\ AtStep(p, "child") /\ Vendor \in DOMAIN pass[p].seen =>
       pass[p].seen[Vendor] = Here(Vendor)
  /\ AtStep(p, "over") =>
       project # NoId /\ (Vendor \in roster /\ ~misfiled => project = Here(Vendor))
ProjectInv ==
  /\ ~misfiled => project \in {NoId, There(Vendor), Here(Vendor)}
  /\ \A p \in Passes : pass[p].kind = "transfer" /\ Sure(p) => ProjectPart(p)

\* Whoever holds the alias can find it: the service lists it or its link is written.
Linked == Alias \in DOMAIN link /\ link[Alias] = service
LinksPart ==
  /\ Alias \in DOMAIN link =>
       link[Alias] \in {Nil, service} \/ (link[Alias] = "other" /\ lost)
  /\ service # Nil /\ ~alias /\ ~lost => Linked
  /\ \A p \in Passes : pass[p].step \in {"stamp", "pull", "vhost"} =>
       Alias \in DOMAIN link /\ service # Nil
AttachPart(p) ==
  /\ pass[p].step \in Late \ {"users", "sync", "domains"} => Attached \in DOMAIN link
  /\ pass[p].step \in Late \ {"users", "sync", "domains", "project", "service"} =>
       /\ service # Nil
       /\ ~AtStep(p, "enrich") /\ service = "source" => link[Attached] = "source"
  /\ AtStep(p, "attach") /\ alias => Alias \in DOMAIN link
  /\ AtStep(p, "pull") => Linked
  /\ AtStep(p, "vhost") => ~alias /\ Linked
  /\ pass[p].step \in {"vhosts", "proxy", "read", "roots", "child"} /\ ~lost =>
       ~alias /\ Linked
  /\ pass[p].step \in {"read", "roots", "child"} =>
       \A d \in DOMAIN link : link[d] # Nil => d \in proxied
AttachInv ==
  /\ LinksPart
  /\ \A p \in Passes : pass[p].kind = "transfer" /\ Sure(p) => AttachPart(p)
-----------------------------------------------------------------------------
(* The order of the steps                                                  *)

LEMMA PassOrderFacts ==
  /\ DOMAIN PassOrder = 1 .. 20
  /\ PassOrder[1] = "files" /\ PassOrder[2] = "roster" /\ PassOrder[3] = "owner"
  /\ PassOrder[4] = "snapshot" /\ PassOrder[5] = "mirror" /\ PassOrder[6] = "fixup"
  /\ PassOrder[7] = "users" /\ PassOrder[8] = "sync" /\ PassOrder[9] = "domains"
  /\ PassOrder[10] = "project" /\ PassOrder[11] = "service" /\ PassOrder[12] = "enrich"
  /\ PassOrder[13] = "materialize" /\ PassOrder[14] = "attach" /\ PassOrder[15] = "vhosts"
  /\ PassOrder[16] = "proxy" /\ PassOrder[17] = "read" /\ PassOrder[18] = "roots"
  /\ PassOrder[19] = "child" /\ PassOrder[20] = "over"
BY DEF PassOrder

LEMMA PassOrderInjective ==
  \A i, j \in 1 .. 20 : PassOrder[i] = PassOrder[j] => i = j
BY PassOrderFacts

LEMMA PlaceIs ==
  ASSUME NEW i \in 1 .. 20
  PROVE  Place(PassOrder[i]) = i
<1>1. \E j \in DOMAIN PassOrder : PassOrder[j] = PassOrder[i]
  BY PassOrderFacts
<1>2. Place(PassOrder[i]) \in 1 .. 20 /\ PassOrder[Place(PassOrder[i])] = PassOrder[i]
  BY <1>1, PassOrderFacts DEF Place
<1>3. QED
  BY <1>2, PassOrderInjective

\* The places a pass may go on from.
LEMMA PlacesAre == {0} \cup {i \in DOMAIN PassOrder : PassOrder[i] # "over"} = 0 .. 19
<1>1. \A i \in 1 .. 20 : PassOrder[i] = "over" <=> i = 20
  BY PassOrderFacts, PassOrderInjective
<1>2. QED
  BY <1>1, PassOrderFacts

LEMMA NextOfIs ==
  ASSUME NEW kind \in Kinds, NEW place \in 0 .. 19, NEW i \in 1 .. 20,
         i > place, PassOrder[i] \in PartsOf(kind),
         \A j \in 1 .. 20 : j > place /\ PassOrder[j] \in PartsOf(kind) => i <= j
  PROVE  NextOf[kind][place] = PassOrder[i]
<1> DEFINE Least(k) == /\ k > place /\ PassOrder[k] \in PartsOf(kind)
                       /\ \A j \in DOMAIN PassOrder :
                            j > place /\ PassOrder[j] \in PartsOf(kind) => k <= j
           c == CHOOSE k \in DOMAIN PassOrder : Least(k)
<1>1. i \in DOMAIN PassOrder /\ Least(i)
  BY PassOrderFacts
<1>2. c \in DOMAIN PassOrder /\ Least(c)
  <2> HIDE DEF Least
  <2> QED
    BY <1>1
<1>3. c = i
  <2>1. c \in 1 .. 20 /\ c > place /\ PassOrder[c] \in PartsOf(kind)
    BY <1>2, PassOrderFacts
  <2>2. i <= c
    BY <2>1
  <2>3. c <= i
    BY <1>1, <1>2
  <2> HIDE DEF c
  <2>4. QED
    BY <2>1, <2>2, <2>3
<1>4. NextOf[kind][place] = PassOrder[c]
  <2>1. place \in {0} \cup {k \in DOMAIN PassOrder : PassOrder[k] # "over"}
    BY PlacesAre
  <2>2. NextOf[kind] =
          [k \in {0} \cup {j \in DOMAIN PassOrder : PassOrder[j] # "over"} |->
             PassOrder[CHOOSE j \in DOMAIN PassOrder :
               /\ j > k /\ PassOrder[j] \in PartsOf(kind)
               /\ \A m \in DOMAIN PassOrder :
                    m > k /\ PassOrder[m] \in PartsOf(kind) => j <= m]]
    BY DEF NextOf
  <2>3. QED
    BY <2>1, <2>2
<1>5. QED
  BY <1>3, <1>4

LEMMA PartsFacts ==
  /\ \A i \in 1 .. 20 : PassOrder[i] \in PartsOf("transfer")
  /\ PartsOf("resync") = {"roster", "owner", "snapshot", "mirror", "fixup",
                          "read", "roots", "child", "over"}
  /\ PartsOf("heal") = {"read", "roots", "child", "over"}
  /\ PartsOf("transfer") =
       {"files", "roster", "owner", "snapshot", "mirror", "fixup", "users", "sync",
        "domains", "project", "service", "enrich", "materialize", "attach", "vhosts",
        "proxy", "read", "roots", "child", "over"}
<1>1. PartsOf("transfer") = {PassOrder[i] : i \in 1 .. 20}
  BY PassOrderFacts DEF PartsOf
<1>2. QED
  BY <1>1, PassOrderFacts DEF PartsOf

\* What follows a step, by the kind of the pass.
FirstSteps ==
  /\ NextOf["transfer"][0] = "files" /\ NextOf["resync"][0] = "roster"
  /\ NextOf["heal"][0] = "read"
AfterSteps(p) ==
  /\ pass[p].kind = "transfer" =>
       /\ After(p, "files") = "roster" /\ After(p, "roster") = "owner"
       /\ After(p, "mirror") = "fixup" /\ After(p, "fixup") = "users"
       /\ After(p, "sync") = "domains" /\ After(p, "domains") = "project"
       /\ After(p, "project") = "service" /\ After(p, "service") = "enrich"
       /\ After(p, "enrich") = "materialize" /\ After(p, "materialize") = "attach"
       /\ After(p, "attach") = "vhosts" /\ After(p, "vhosts") = "proxy"
       /\ After(p, "proxy") = "read"
       /\ After(p, "roots") = "child"
  /\ pass[p].kind = "resync" =>
       /\ After(p, "roster") = "owner" /\ After(p, "mirror") = "fixup"
       /\ After(p, "fixup") = "read" /\ After(p, "roots") = "child"
  /\ pass[p].kind = "heal" => After(p, "roots") = "child"

LEMMA NextInTransfer ==
  ASSUME NEW i \in 1 .. 20
  PROVE  NextOf["transfer"][i - 1] = PassOrder[i]
<1>1. i - 1 \in 0 .. 19 /\ i > i - 1
  OBVIOUS
<1>2. \A j \in 1 .. 20 : j > i - 1 => i <= j
  OBVIOUS
<1>3. QED
  BY <1>1, <1>2, NextOfIs, PartsFacts DEF Kinds

LEMMA NextInResync ==
  /\ NextOf["resync"][0] = "roster" /\ NextOf["resync"][2] = "owner"
  /\ NextOf["resync"][5] = "fixup" /\ NextOf["resync"][6] = "read"
  /\ NextOf["resync"][18] = "child"
<1>1. NextOf["resync"][0] = PassOrder[2]
  BY NextOfIs, PartsFacts, PassOrderFacts DEF Kinds
<1>2. NextOf["resync"][2] = PassOrder[3]
  BY NextOfIs, PartsFacts, PassOrderFacts DEF Kinds
<1>3. NextOf["resync"][5] = PassOrder[6]
  BY NextOfIs, PartsFacts, PassOrderFacts DEF Kinds
<1>4. NextOf["resync"][6] = PassOrder[17]
  BY NextOfIs, PartsFacts, PassOrderFacts DEF Kinds
<1>5. NextOf["resync"][18] = PassOrder[19]
  BY NextOfIs, PartsFacts, PassOrderFacts DEF Kinds
<1>6. QED
  BY <1>1, <1>2, <1>3, <1>4, <1>5, PassOrderFacts

LEMMA NextInHeal ==
  NextOf["heal"][0] = "read" /\ NextOf["heal"][18] = "child"
<1>1. NextOf["heal"][0] = PassOrder[17]
  BY NextOfIs, PartsFacts, PassOrderFacts DEF Kinds
<1>2. NextOf["heal"][18] = PassOrder[19]
  BY NextOfIs, PartsFacts, PassOrderFacts DEF Kinds
<1>3. QED
  BY <1>1, <1>2, PassOrderFacts

LEMMA PlaceFacts ==
  /\ Place("files") = 1 /\ Place("roster") = 2 /\ Place("mirror") = 5
  /\ Place("fixup") = 6 /\ Place("sync") = 8 /\ Place("domains") = 9
  /\ Place("project") = 10 /\ Place("service") = 11 /\ Place("enrich") = 12
  /\ Place("materialize") = 13 /\ Place("attach") = 14 /\ Place("vhosts") = 15
  /\ Place("proxy") = 16 /\ Place("roots") = 18
BY PlaceIs, PassOrderFacts

LEMMA StepFacts == FirstSteps /\ \A p \in Passes : AfterSteps(p)
<1>1. /\ NextOf["transfer"][0] = "files" /\ NextOf["transfer"][1] = "roster"
      /\ NextOf["transfer"][2] = "owner" /\ NextOf["transfer"][5] = "fixup"
      /\ NextOf["transfer"][6] = "users" /\ NextOf["transfer"][8] = "domains"
      /\ NextOf["transfer"][9] = "project" /\ NextOf["transfer"][10] = "service"
      /\ NextOf["transfer"][11] = "enrich" /\ NextOf["transfer"][12] = "materialize"
      /\ NextOf["transfer"][13] = "attach" /\ NextOf["transfer"][14] = "vhosts"
      /\ NextOf["transfer"][15] = "proxy" /\ NextOf["transfer"][16] = "read"
      /\ NextOf["transfer"][18] = "child"
  <2>1. \A i \in 1 .. 20 : NextOf["transfer"][i - 1] = PassOrder[i]
    BY NextInTransfer
  <2>2. QED
    BY <2>1, PassOrderFacts
<1>2. \A p \in Passes : AfterSteps(p)
  BY <1>1, NextInResync, NextInHeal, PlaceFacts DEF AfterSteps, After
<1>3. QED
  BY <1>1, <1>2, NextInResync, NextInHeal DEF FirstSteps
-----------------------------------------------------------------------------
(* Tables, and what a call of a pass does to it                            *)

LEMMA TableFacts ==
  ASSUME NEW keys, NEW values, NEW f \in Tables(keys, values)
  PROVE  /\ f \in [DOMAIN f -> values] /\ DOMAIN f \subseteq keys
         /\ \A x \in DOMAIN f : f[x] \in values /\ x \in keys
<1>1. PICK D \in SUBSET keys : f \in [D -> values]
  BY DEF Tables
<1>2. QED
  BY <1>1

LEMMA TableIs ==
  ASSUME NEW keys, NEW values, NEW D \in SUBSET keys, NEW f \in [D -> values]
  PROVE  f \in Tables(keys, values)
BY DEF Tables

LEMMA PutFacts ==
  ASSUME NEW f, NEW a, NEW v
  PROVE  /\ DOMAIN Put(f, a, v) = DOMAIN f \cup {a} /\ Put(f, a, v)[a] = v
         /\ \A x \in DOMAIN f : x # a => Put(f, a, v)[x] = f[x]
BY DEF Put

LEMMA PutTyped ==
  ASSUME NEW keys, NEW values, NEW f \in Tables(keys, values),
         NEW a \in keys, NEW v \in values
  PROVE  Put(f, a, v) \in Tables(keys, values)
<1>1. /\ f \in [DOMAIN f -> values] /\ DOMAIN f \subseteq keys
      /\ \A x \in DOMAIN f : f[x] \in values
  BY TableFacts
<1>2. Put(f, a, v) \in [DOMAIN f \cup {a} -> values]
  BY <1>1 DEF Put
<1>3. DOMAIN f \cup {a} \in SUBSET keys
  BY <1>1
<1>4. QED
  BY <1>2, <1>3, TableIs

LEMMA AddFacts ==
  ASSUME NEW f, NEW S, NEW v
  PROVE  /\ DOMAIN Add(f, S, v) = DOMAIN f \cup S
         /\ \A x \in DOMAIN f : Add(f, S, v)[x] = f[x]
         /\ \A x \in S : x \notin DOMAIN f => Add(f, S, v)[x] = v
BY DEF Add

LEMMA AddTyped ==
  ASSUME NEW keys, NEW values, NEW f \in Tables(keys, values),
         NEW S \in SUBSET keys, NEW v \in values
  PROVE  Add(f, S, v) \in Tables(keys, values)
<1>1. /\ f \in [DOMAIN f -> values] /\ DOMAIN f \subseteq keys
      /\ \A x \in DOMAIN f : f[x] \in values
  BY TableFacts
<1>2. Add(f, S, v) \in [DOMAIN f \cup S -> values]
  BY <1>1 DEF Add
<1>3. DOMAIN f \cup S \in SUBSET keys
  BY <1>1
<1>4. QED
  BY <1>2, <1>3, TableIs

LEMMA ExceptTyped ==
  ASSUME NEW keys, NEW values, NEW f \in Tables(keys, values),
         NEW a, NEW v \in values
  PROVE  /\ [f EXCEPT ![a] = v] \in Tables(keys, values)
         /\ DOMAIN [f EXCEPT ![a] = v] = DOMAIN f
         /\ \A x \in DOMAIN f : [f EXCEPT ![a] = v][x] = IF x = a THEN v ELSE f[x]
<1>1. f \in [DOMAIN f -> values] /\ DOMAIN f \in SUBSET keys
  BY TableFacts
<1>2. [f EXCEPT ![a] = v] \in [DOMAIN f -> values]
  BY <1>1
<1>3. [f EXCEPT ![a] = v] \in Tables(keys, values)
  BY <1>1, <1>2, TableIs
<1>4. QED
  BY <1>1, <1>3

LEMMA RestrictTyped ==
  ASSUME NEW keys, NEW values, NEW f \in Tables(keys, values), NEW S
  PROVE  /\ [x \in DOMAIN f \ S |-> f[x]] \in Tables(keys, values)
         /\ DOMAIN [x \in DOMAIN f \ S |-> f[x]] = DOMAIN f \ S
<1>1. f \in [DOMAIN f -> values] /\ DOMAIN f \subseteq keys
  BY TableFacts
<1>2. /\ [x \in DOMAIN f \ S |-> f[x]] \in [DOMAIN f \ S -> values]
      /\ DOMAIN f \ S \in SUBSET keys
  BY <1>1
<1>3. QED
  BY <1>2, TableIs

LEMMA EmptyTyped ==
  ASSUME NEW keys, NEW values
  PROVE  Empty \in Tables(keys, values) /\ DOMAIN Empty = {}
<1>1. Empty \in [{} -> values] /\ DOMAIN Empty = {}
  BY DEF Empty
<1>2. {} \in SUBSET keys
  OBVIOUS
<1>3. QED
  BY <1>1, <1>2, TableIs

\* The pass of p goes on at a step, and is clean only if the call succeeded; what
\* it holds but for that is said apart.
Runs(p, ok, step) ==
  /\ pass' \in [Passes -> PassState] /\ failures' \in 0 .. MaxFailures
  /\ \A q \in Passes : q # p => pass'[q] = pass[q]
  /\ pass'[p].kind = pass[p].kind /\ pass'[p].step = step
  /\ pass'[p].clean => pass[p].clean /\ ok
SameMap(p) == pass'[p].map = pass[p].map
SameSeen(p) == pass'[p].seen = pass[p].seen /\ pass'[p].seenMail = pass[p].seenMail
SameTodo(p) == pass'[p].todo = pass[p].todo
SamePending(p) == pass'[p].pending = pass[p].pending
SameFiled(p) == pass'[p].filed = pass[p].filed
SameHeld(p) == /\ SameMap(p) /\ SameSeen(p) /\ SameTodo(p) /\ SamePending(p)
               /\ SameFiled(p)

LEMMA RunsIf ==
  ASSUME PanelTypes, NEW p \in Passes, NEW ok \in BOOLEAN, NEW r \in PassState,
         Does(p, ok, r), r.kind = pass[p].kind, r.clean => pass[p].clean
  PROVE  /\ Runs(p, ok, r.step)
         /\ pass'[p].map = r.map /\ pass'[p].seen = r.seen
         /\ pass'[p].seenMail = r.seenMail /\ pass'[p].todo = r.todo
         /\ pass'[p].pending = r.pending /\ pass'[p].filed = r.filed
<1> DEFINE k == [r EXCEPT !.clean = @ /\ ok]
<1>1. /\ k.kind = r.kind /\ k.step = r.step /\ k.map = r.map /\ k.seen = r.seen
      /\ k.seenMail = r.seenMail /\ k.todo = r.todo /\ k.pending = r.pending
      /\ k.filed = r.filed /\ (k.clean = (r.clean /\ ok)) /\ k \in PassState
  BY DEF PassState
<1>2. pass' = [pass EXCEPT ![p] = k] /\ pass \in [Passes -> PassState]
  BY DEF Does, PanelTypes
<1>3. failures' \in 0 .. MaxFailures
  <2>1. PICK x : x = failures'
    OBVIOUS
  <2>2. x = (IF ok THEN failures ELSE failures + 1) /\ (ok \/ failures < MaxFailures)
    BY <2>1 DEF Does
  <2>3. failures \in 0 .. MaxFailures /\ MaxFailures \in Nat
    BY NamesAssumption DEF PanelTypes
  <2>4. x \in 0 .. MaxFailures
    BY <2>2, <2>3
  <2>5. QED
    BY <2>1, <2>4
<1> HIDE DEF k
<1>4. pass' \in [Passes -> PassState] /\ pass'[p] = k /\ \A q \in Passes : q # p => pass'[q] = pass[q]
  BY <1>1, <1>2
<1>5. pass'[p].clean => pass[p].clean /\ ok
  BY <1>1, <1>4, Zenon
<1>6. QED
  BY <1>1, <1>3, <1>4, <1>5 DEF Runs

LEMMA GoesFacts ==
  ASSUME PanelTypes, NEW p \in Passes, NEW ok \in BOOLEAN, NEW step \in Steps,
         Goes(p, ok, step)
  PROVE  Runs(p, ok, step) /\ SameHeld(p)
<1> DEFINE r == [pass[p] EXCEPT !.step = step]
<1>1. pass[p] \in PassState
  BY DEF PanelTypes
<1>2. /\ r \in PassState /\ r.step = step /\ r.kind = pass[p].kind
      /\ r.clean = pass[p].clean /\ r.map = pass[p].map /\ r.seen = pass[p].seen
      /\ r.seenMail = pass[p].seenMail /\ r.todo = pass[p].todo
      /\ r.pending = pass[p].pending /\ r.filed = pass[p].filed
  BY <1>1 DEF PassState
<1>3. Does(p, ok, r)
  BY DEF Goes
<1> HIDE DEF r
<1>4. QED
  BY <1>2, <1>3, RunsIf DEF SameHeld, SameMap, SameSeen, SameTodo, SamePending, SameFiled

\* The pass is clean afterwards only if what it goes on as is.
LEMMA CleanIf ==
  ASSUME PanelTypes, NEW p \in Passes, NEW ok \in BOOLEAN, NEW r \in PassState,
         Does(p, ok, r)
  PROVE  pass'[p].clean => r.clean
<1> DEFINE k == [r EXCEPT !.clean = @ /\ ok]
<1>1. k.clean = (r.clean /\ ok)
  BY DEF PassState
<1>2. pass' = [pass EXCEPT ![p] = k] /\ pass \in [Passes -> PassState]
  BY DEF Does, PanelTypes
<1> HIDE DEF k
<1>3. pass'[p] = k
  BY <1>2
<1>4. QED
  BY <1>1, <1>3, Zenon

LEMMA ServesFacts ==
  ASSUME PanelTypes, NEW p \in Passes, NEW ok \in BOOLEAN, NEW all \in BOOLEAN,
         NEW step \in Steps, Serves(p, ok, all, step)
  PROVE  Runs(p, ok, step) /\ SameHeld(p) /\ (pass'[p].clean => all)
<1> DEFINE r == [pass[p] EXCEPT !.step = step, !.clean = @ /\ all]
<1>1. pass[p] \in PassState
  BY DEF PanelTypes
<1>2. /\ r.step = step /\ r.kind = pass[p].kind
      /\ r.clean = (pass[p].clean /\ all) /\ r.map = pass[p].map /\ r.seen = pass[p].seen
      /\ r.seenMail = pass[p].seenMail /\ r.todo = pass[p].todo
      /\ r.pending = pass[p].pending /\ r.filed = pass[p].filed
  BY <1>1 DEF PassState
<1>3. r \in PassState
  BY <1>1 DEF PassState
<1>4. Does(p, ok, r)
  BY DEF Serves
<1> HIDE DEF r
<1>5. (r.clean => pass[p].clean) /\ (r.clean => all)
  BY <1>2, Zenon
<1>6. /\ Runs(p, ok, r.step) /\ pass'[p].map = r.map /\ pass'[p].seen = r.seen
      /\ pass'[p].seenMail = r.seenMail /\ pass'[p].todo = r.todo
      /\ pass'[p].pending = r.pending /\ pass'[p].filed = r.filed
  BY <1>2, <1>3, <1>4, <1>5, RunsIf
<1>7. Runs(p, ok, step) /\ SameHeld(p)
  BY <1>2, <1>6 DEF SameHeld, SameMap, SameSeen, SameTodo, SamePending, SameFiled
<1>8. pass'[p].clean => all
  BY <1>3, <1>4, <1>5, CleanIf
<1>9. QED
  BY <1>7, <1>8

LEMMA FreshTyped ==
  ASSUME NEW kind \in Kinds, NEW step \in Steps, NEW clean \in BOOLEAN
  PROVE  /\ Fresh(kind, step, clean) \in PassState
         /\ LET r == Fresh(kind, step, clean)
            IN  /\ r.kind = kind /\ r.step = step /\ r.clean = clean
                /\ r.map = Empty /\ r.seen = Empty /\ r.seenMail = Nil
                /\ r.todo = {} /\ r.pending = {} /\ r.filed = FALSE
<1>1. /\ Empty \in Tables(Accounts \cup {Owner}, Accounts \cup {Owner})
      /\ Empty \in Tables(Accounts, Ids \cup {NoId})
  BY EmptyTyped
<1>2. QED
  BY <1>1 DEF Fresh, PassState
-----------------------------------------------------------------------------
(* What each step changes of its pass                                      *)

\* The pass ends, or starts again, with nothing in hand.
Emptied(p) ==
  /\ pass'[p].map = Empty /\ pass'[p].seen = Empty /\ pass'[p].seenMail = Nil
  /\ pass'[p].todo = {} /\ pass'[p].pending = {}

LEMMA HeldTyped ==
  ASSUME PanelTypes, NEW p \in Passes
  PROVE  /\ pass[p] \in PassState /\ pass[p].kind \in Kinds
         /\ pass[p].step \in Steps /\ pass[p].clean \in BOOLEAN
         /\ pass[p].map \in Tables(Accounts \cup {Owner}, Accounts \cup {Owner})
         /\ pass[p].seen \in Tables(Accounts, Ids \cup {NoId})
         /\ pass[p].seenMail \in Accounts \cup {Owner, Nil}
         /\ pass[p].todo \in SUBSET Accounts /\ pass[p].pending \in SUBSET Accounts
         /\ pass[p].filed \in BOOLEAN
BY DEF PanelTypes, PassState

LEMMA EndedFacts ==
  ASSUME PanelTypes, NEW p \in Passes, NEW ok \in BOOLEAN, NEW step \in Steps,
         NEW clean \in BOOLEAN, clean => pass[p].clean,
         Does(p, ok, Fresh(pass[p].kind, step, clean))
  PROVE  Runs(p, ok, step) /\ Emptied(p) /\ (pass'[p].clean => clean)
<1> DEFINE r == Fresh(pass[p].kind, step, clean)
<1>1. /\ r \in PassState /\ r.kind = pass[p].kind /\ r.step = step /\ r.clean = clean
      /\ r.map = Empty /\ r.seen = Empty /\ r.seenMail = Nil
      /\ r.todo = {} /\ r.pending = {}
  <2>1. pass[p].kind \in Kinds
    BY HeldTyped
  <2>2. QED
    <3>1. r \in PassState
      BY <2>1, FreshTyped
    <3>2. r.clean = clean
      BY DEF Fresh
    <3>3. QED
      BY <3>1, <3>2 DEF Fresh
<1>2. pass'[p].clean => clean
  <2>1. pass' = [pass EXCEPT ![p] = [r EXCEPT !.clean = @ /\ ok]] /\ pass \in [Passes -> PassState]
    BY DEF Does, PanelTypes
  <2>2. ([r EXCEPT !.clean = @ /\ ok].clean) = (r.clean /\ ok)
    BY <1>1 DEF PassState
  <2> DEFINE k == [r EXCEPT !.clean = @ /\ ok]
  <2>3. pass'[p] = k
    <3> HIDE DEF k, r
    <3> QED BY <2>1 DEF k
  <2>4. k.clean = (r.clean /\ ok)
    BY <2>2
  <2> HIDE DEF k, r
  <2>5. QED
    BY <1>1, <2>3, <2>4, Zenon
<1>3. Does(p, ok, r)
  OBVIOUS
<1> HIDE DEF r
<1>4. Runs(p, ok, r.step) /\ Emptied(p)
  <2>1. r \in PassState /\ r.kind = pass[p].kind /\ (r.clean => pass[p].clean)
    BY <1>1, Zenon
  <2>2. /\ Runs(p, ok, r.step)
        /\ pass'[p].map = r.map /\ pass'[p].seen = r.seen
        /\ pass'[p].seenMail = r.seenMail /\ pass'[p].todo = r.todo
        /\ pass'[p].pending = r.pending
    BY <1>3, <2>1, RunsIf, Zenon
  <2>3. QED
    BY <1>1, <2>2 DEF Emptied
<1>5. QED
  BY <1>1, <1>2, <1>4

LEMMA BeginFacts ==
  ASSUME PanelTypes, NEW p \in Passes, NEW kind \in Kinds, BeginPass(p, kind)
  PROVE  /\ pass' \in [Passes -> PassState]
         /\ \A q \in Passes : q # p => pass'[q] = pass[q]
         /\ pass'[p].kind = kind /\ pass'[p].step \in {"files", "roster", "read"}
         /\ pass'[p].step \in PartsOf(kind)
         /\ pass'[p].step = "read" => kind = "heal"
         /\ Emptied(p)
<1> DEFINE r == Fresh(kind, NextOf[kind][0], TRUE)
<1>1. /\ NextOf[kind][0] \in {"files", "roster", "read"}
      /\ NextOf[kind][0] \in Steps /\ NextOf[kind][0] \in PartsOf(kind)
      /\ NextOf[kind][0] = "read" => kind = "heal"
  <2>1. /\ "files" \in PartsOf("transfer") /\ "roster" \in PartsOf("resync")
        /\ "read" \in PartsOf("heal")
    BY PartsFacts
  <2>2. /\ NextOf["transfer"][0] = "files" /\ NextOf["resync"][0] = "roster"
        /\ NextOf["heal"][0] = "read"
    BY StepFacts DEF FirstSteps
  <2>3. CASE kind = "transfer"
    BY <2>1, <2>2, <2>3 DEF Steps
  <2>4. CASE kind = "resync"
    BY <2>1, <2>2, <2>4 DEF Steps
  <2>5. CASE kind = "heal"
    BY <2>1, <2>2, <2>5 DEF Steps
  <2>6. QED
    BY <2>3, <2>4, <2>5 DEF Kinds
<1>2. /\ r \in PassState /\ r.kind = kind /\ r.step = NextOf[kind][0]
      /\ r.map = Empty /\ r.seen = Empty /\ r.seenMail = Nil
      /\ r.todo = {} /\ r.pending = {}
  <2>1. r \in PassState
    BY <1>1, FreshTyped
  <2>2. QED
    BY <2>1 DEF Fresh
<1>3. pass' = [pass EXCEPT ![p] = r] /\ pass \in [Passes -> PassState]
  BY DEF BeginPass, PanelTypes
<1> HIDE DEF r
<1>4. QED
  BY <1>1, <1>2, <1>3 DEF Emptied

LEMMA EndOfListFacts ==
  ASSUME PanelTypes, NEW p \in Passes, EndOfList(p)
  PROVE  /\ pass[p].todo = {} /\ SameMap(p)
         /\ \/ /\ AtStep(p, "mirror") /\ Runs(p, TRUE, "fixup")
               /\ pass'[p].todo = pass[p].pending /\ pass'[p].pending = {}
               /\ pass'[p].seen = Empty /\ pass'[p].seenMail = Nil
            \/ /\ SameHeld(p)
               /\ \/ AtStep(p, "fixup") /\ pass[p].kind = "transfer" /\ Runs(p, TRUE, "users")
                  \/ AtStep(p, "fixup") /\ pass[p].kind = "resync" /\ Runs(p, TRUE, "read")
                  \/ AtStep(p, "sync") /\ pass[p].kind = "transfer" /\ Runs(p, TRUE, "domains")
                  \/ AtStep(p, "roots") /\ Runs(p, TRUE, "child")
<1> DEFINE next == After(p, pass[p].step)
           r == [pass[p] EXCEPT !.step = next, !.todo = pass[p].pending, !.pending = {},
                                !.seen = Empty, !.seenMail = Nil]
<1>1. /\ pass[p].step \in {"mirror", "fixup", "sync", "roots"} /\ pass[p].todo = {}
      /\ IF next = "fixup" THEN Does(p, TRUE, r) ELSE Goes(p, TRUE, next)
  BY DEF EndOfList, Goes
<1>2. pass[p].kind \in Kinds /\ pass[p].step \in StepsOf(pass[p].kind)
  BY HeldTyped DEF PanelTypes
<1>3. AfterSteps(p)
  BY StepFacts
<1>4. \/ AtStep(p, "mirror") /\ next = "fixup"
      \/ AtStep(p, "fixup") /\ pass[p].kind = "transfer" /\ next = "users"
      \/ AtStep(p, "fixup") /\ pass[p].kind = "resync" /\ next = "read"
      \/ AtStep(p, "sync") /\ pass[p].kind = "transfer" /\ next = "domains"
      \/ AtStep(p, "roots") /\ next = "child"
  BY <1>1, <1>2, <1>3, PartsFacts DEF AfterSteps, StepsOf, Kinds, AtStep
<1> HIDE DEF next
<1>5. next \in Steps /\ TRUE \in BOOLEAN
  BY <1>4 DEF Steps
<1>6. CASE next = "fixup"
  <2>1. Empty \in Tables(Accounts, Ids \cup {NoId})
    BY EmptyTyped
  <2>2. /\ r.step = next /\ r.kind = pass[p].kind
        /\ r.clean = pass[p].clean /\ r.map = pass[p].map /\ r.seen = Empty
        /\ r.seenMail = Nil /\ r.todo = pass[p].pending /\ r.pending = {}
        /\ r.filed = pass[p].filed
    BY HeldTyped DEF PassState
  <2>3. r \in PassState
    BY <1>5, <2>1, <2>2, HeldTyped DEF PassState
  <2>4. Does(p, TRUE, r)
    BY <1>1, <1>6
  <2> HIDE DEF r
  <2>5. r.clean => pass[p].clean
    BY <2>2
  <2>6. /\ Runs(p, TRUE, r.step) /\ pass'[p].map = r.map /\ pass'[p].seen = r.seen
        /\ pass'[p].seenMail = r.seenMail /\ pass'[p].todo = r.todo
        /\ pass'[p].pending = r.pending
    BY <1>5, <2>2, <2>3, <2>4, <2>5, RunsIf, Zenon
  <2>7. AtStep(p, "mirror")
    BY <1>4, <1>6
  <2>8. QED
    BY <1>1, <1>6, <2>2, <2>6, <2>7 DEF SameMap
<1>7. CASE next # "fixup"
  <2>1. Runs(p, TRUE, next) /\ SameHeld(p)
    BY <1>1, <1>5, <1>7, GoesFacts
  <2>2. QED
    BY <1>1, <1>4, <1>7, <2>1 DEF SameHeld
<1>8. QED
  BY <1>6, <1>7

LEMMA UpgradeOwnerFacts ==
  ASSUME PanelTypes, NEW p \in Passes, NEW ok \in BOOLEAN, UpgradeOwner(p, ok)
  PROVE  /\ Runs(p, ok, "snapshot") /\ SameSeen(p) /\ SameTodo(p) /\ SamePending(p)
         /\ DOMAIN pass'[p].map = IF ok THEN {Owner} ELSE {}
         /\ \A x \in DOMAIN pass'[p].map : pass'[p].map[x] = x
<1> DEFINE map == IF ok THEN Put(Empty, Owner, Owner) ELSE Empty
           r == [pass[p] EXCEPT !.step = "snapshot", !.map = map]
<1>1. Empty \in Tables(Accounts \cup {Owner}, Accounts \cup {Owner}) /\ DOMAIN Empty = {}
  BY EmptyTyped
<1>2. Put(Empty, Owner, Owner) \in Tables(Accounts \cup {Owner}, Accounts \cup {Owner})
  BY <1>1, PutTyped
<1>3. /\ map \in Tables(Accounts \cup {Owner}, Accounts \cup {Owner})
      /\ DOMAIN map = IF ok THEN {Owner} ELSE {}
      /\ \A x \in DOMAIN map : map[x] = x
  <2>1. CASE ok
    <3>1. map = Put(Empty, Owner, Owner)
      BY <2>1
    <3>2. /\ DOMAIN Put(Empty, Owner, Owner) = DOMAIN Empty \cup {Owner}
          /\ Put(Empty, Owner, Owner)[Owner] = Owner
      BY DEF Put
    <3> HIDE DEF map
    <3>3. DOMAIN map = {Owner} /\ map[Owner] = Owner
      BY <1>1, <3>1, <3>2
    <3>4. QED
      BY <1>2, <2>1, <3>1, <3>3
  <2>2. CASE ~ok
    BY <1>1, <2>2
  <2>3. QED
    BY <2>1, <2>2
<1>4. Does(p, ok, r)
  BY DEF UpgradeOwner
<1> HIDE DEF map
<1>5. /\ r \in PassState /\ r.step = "snapshot" /\ r.kind = pass[p].kind
      /\ r.clean = pass[p].clean /\ r.map = map /\ r.seen = pass[p].seen
      /\ r.seenMail = pass[p].seenMail /\ r.todo = pass[p].todo
      /\ r.pending = pass[p].pending
  <2>1. pass[p] \in PassState
    BY HeldTyped
  <2>2. /\ r.kind = pass[p].kind /\ r.step = "snapshot" /\ r.clean = pass[p].clean
        /\ r.map = map /\ r.seen = pass[p].seen /\ r.seenMail = pass[p].seenMail
        /\ r.todo = pass[p].todo /\ r.pending = pass[p].pending /\ r.filed = pass[p].filed
    BY <2>1 DEF PassState
  <2>3. r \in PassState
    BY <1>3, <2>1, <2>2 DEF PassState, Steps
  <2>4. QED
    BY <2>2, <2>3
<1> HIDE DEF r
<1>6. /\ Runs(p, ok, "snapshot") /\ SameSeen(p) /\ SameTodo(p) /\ SamePending(p)
      /\ pass'[p].map = map
  BY <1>4, <1>5, RunsIf DEF SameSeen, SameTodo, SamePending
<1>7. QED
  BY <1>3, <1>6

LEMMA SnapshotFacts ==
  ASSUME PanelTypes, NEW p \in Passes, NEW ok \in BOOLEAN, Snapshot(p, ok)
  PROVE  /\ Runs(p, ok, "mirror") /\ SameMap(p) /\ SamePending(p)
         /\ pass'[p].todo = roster
         /\ pass'[p].seen = IF ok THEN tenant ELSE Empty
         /\ pass'[p].seenMail = IF ok THEN mail ELSE Nil
<1> DEFINE seen == IF ok THEN tenant ELSE Empty
           seenMail == IF ok THEN mail ELSE Nil
           r == [pass[p] EXCEPT !.step = "mirror", !.todo = roster, !.seen = seen,
                                !.seenMail = seenMail]
<1>1. /\ seen \in Tables(Accounts, Ids \cup {NoId})
      /\ seenMail \in Accounts \cup {Owner, Nil} /\ roster \in SUBSET Accounts
  BY EmptyTyped DEF PanelTypes, RowTypes
<1>2. Does(p, ok, r)
  BY DEF Snapshot
<1> HIDE DEF seen, seenMail
<1>3. /\ r \in PassState /\ r.step = "mirror" /\ r.kind = pass[p].kind
      /\ r.clean = pass[p].clean /\ r.map = pass[p].map /\ r.seen = seen
      /\ r.seenMail = seenMail /\ r.todo = roster /\ r.pending = pass[p].pending
  <2>1. pass[p] \in PassState
    BY HeldTyped
  <2>2. /\ r.kind = pass[p].kind /\ r.step = "mirror" /\ r.clean = pass[p].clean
        /\ r.map = pass[p].map /\ r.seen = seen /\ r.seenMail = seenMail
        /\ r.todo = roster /\ r.pending = pass[p].pending /\ r.filed = pass[p].filed
    BY <2>1 DEF PassState
  <2>3. r \in PassState
    BY <1>1, <2>1, <2>2 DEF PassState, Steps
  <2>4. QED
    BY <2>2, <2>3
<1> HIDE DEF r
<1>4. /\ Runs(p, ok, "mirror") /\ SameMap(p) /\ SamePending(p)
      /\ pass'[p].todo = roster /\ pass'[p].seen = seen /\ pass'[p].seenMail = seenMail
  BY <1>2, <1>3, RunsIf DEF SameMap, SamePending
<1>5. QED
  BY <1>4 DEF seen, seenMail

LEMMA SkippedFacts ==
  ASSUME PanelTypes, NEW p \in Passes, NEW a \in Accounts
  PROVE  LET r == Skipped(p, a)
         IN  /\ r \in PassState /\ r.step = pass[p].step /\ r.kind = pass[p].kind
             /\ r.clean = pass[p].clean /\ r.map = pass[p].map /\ r.seen = pass[p].seen
             /\ r.seenMail = pass[p].seenMail /\ r.todo = pass[p].todo \ {a}
             /\ r.pending = pass[p].pending /\ r.filed = pass[p].filed
BY HeldTyped DEF Skipped, PassState

LEMMA MirroredFacts ==
  ASSUME PanelTypes, NEW p \in Passes, NEW a \in Accounts
  PROVE  LET r == Mirrored(p, a)
         IN  /\ r \in PassState /\ r.kind = pass[p].kind
             /\ r.step = IF ShouldSweep(a) THEN "sweep" ELSE "mirror"
             /\ r.clean = pass[p].clean /\ r.map = Put(pass[p].map, a, a)
             /\ r.seen = pass[p].seen
             /\ r.seenMail = pass[p].seenMail /\ r.todo = pass[p].todo \ {a}
             /\ r.pending = pass[p].pending \cup {a} /\ r.filed = pass[p].filed
<1> DEFINE s == Skipped(p, a)
           map == Put(s.map, a, a)
           step == IF ShouldSweep(a) THEN "sweep" ELSE "mirror"
           r == [s EXCEPT !.map = map, !.pending = @ \cup {a}, !.step = step]
<1>1. /\ s \in PassState /\ s.kind = pass[p].kind
      /\ s.clean = pass[p].clean /\ s.map = pass[p].map /\ s.seen = pass[p].seen
      /\ s.seenMail = pass[p].seenMail /\ s.todo = pass[p].todo \ {a}
      /\ s.pending = pass[p].pending /\ s.filed = pass[p].filed
  BY SkippedFacts
<1>2. map \in Tables(Accounts \cup {Owner}, Accounts \cup {Owner}) /\ step \in Steps
  <2>1. s.map \in Tables(Accounts \cup {Owner}, Accounts \cup {Owner})
        /\ a \in Accounts \cup {Owner}
    BY <1>1, HeldTyped
  <2> HIDE DEF s
  <2>2. QED
    BY <2>1, PutTyped DEF Steps
<1>3. Mirrored(p, a) = r
  BY DEF Mirrored
<1> HIDE DEF s, step, map
<1>4. /\ r \in PassState /\ r.kind = s.kind /\ r.step = step /\ r.clean = s.clean
      /\ r.map = map /\ r.seen = s.seen /\ r.seenMail = s.seenMail /\ r.todo = s.todo
      /\ r.pending = s.pending \cup {a} /\ r.filed = s.filed
  BY <1>1, <1>2 DEF PassState
<1> HIDE DEF r
<1>5. QED
  BY <1>1, <1>3, <1>4 DEF step, map

\* An account mapped to the owner, left out, or fixed: only the list and the map.
LEMMA MapToOwnerFacts ==
  ASSUME PanelTypes, NEW p \in Passes, NEW a \in Accounts, MapToOwner(p, a)
  PROVE  /\ Runs(p, TRUE, "mirror") /\ SameSeen(p) /\ SamePending(p)
         /\ pass'[p].todo = pass[p].todo \ {a}
         /\ pass'[p].map = Put(pass[p].map, a, Owner)
<1> DEFINE s == Skipped(p, a)
           map == Put(s.map, a, Owner)
           r == [s EXCEPT !.map = map]
<1>1. /\ s \in PassState /\ s.kind = pass[p].kind /\ s.step = "mirror"
      /\ s.clean = pass[p].clean /\ s.map = pass[p].map /\ s.seen = pass[p].seen
      /\ s.seenMail = pass[p].seenMail /\ s.todo = pass[p].todo \ {a}
      /\ s.pending = pass[p].pending
  BY SkippedFacts DEF MapToOwner, AtStep
<1>2. map \in Tables(Accounts \cup {Owner}, Accounts \cup {Owner})
  <2>1. s.map \in Tables(Accounts \cup {Owner}, Accounts \cup {Owner})
        /\ a \in Accounts \cup {Owner} /\ Owner \in Accounts \cup {Owner}
    BY <1>1, HeldTyped
  <2> HIDE DEF s
  <2>2. QED
    BY <2>1, PutTyped
<1>3. Does(p, TRUE, r)
  BY DEF MapToOwner
<1>4. map = Put(pass[p].map, a, Owner)
  BY <1>1
<1> HIDE DEF s, map
<1>5. /\ r \in PassState /\ r.kind = s.kind /\ r.step = s.step /\ r.clean = s.clean
      /\ r.map = map /\ r.seen = s.seen /\ r.seenMail = s.seenMail /\ r.todo = s.todo
      /\ r.pending = s.pending
  BY <1>1, <1>2 DEF PassState
<1> HIDE DEF r
<1>6. TRUE \in BOOLEAN /\ r.kind = pass[p].kind /\ (r.clean => pass[p].clean)
  BY <1>1, <1>5
<1>7. /\ Runs(p, TRUE, r.step) /\ pass'[p].map = r.map /\ pass'[p].seen = r.seen
      /\ pass'[p].seenMail = r.seenMail /\ pass'[p].todo = r.todo
      /\ pass'[p].pending = r.pending
  BY <1>3, <1>5, <1>6, RunsIf
<1>8. QED
  BY <1>1, <1>4, <1>5, <1>7 DEF SameSeen, SamePending

SkipsAccount(p, a, ok) ==
  /\ Runs(p, ok, pass[p].step) /\ SameMap(p) /\ SameSeen(p) /\ SamePending(p)
  /\ pass'[p].todo = pass[p].todo \ {a}
MirrorsAccount(p, a) ==
  /\ Runs(p, TRUE, IF ShouldSweep(a) THEN "sweep" ELSE "mirror") /\ SameSeen(p)
  /\ pass'[p].map = Put(pass[p].map, a, a)
  /\ pass'[p].todo = pass[p].todo \ {a} /\ pass'[p].pending = pass[p].pending \cup {a}

LEMMA SkipsIf ==
  ASSUME PanelTypes, NEW p \in Passes, NEW a \in Accounts, NEW ok \in BOOLEAN,
         Does(p, ok, Skipped(p, a))
  PROVE  SkipsAccount(p, a, ok)
<1> DEFINE r == Skipped(p, a)
<1>1. /\ r \in PassState /\ r.step = pass[p].step /\ r.kind = pass[p].kind
      /\ r.clean = pass[p].clean /\ r.map = pass[p].map /\ r.seen = pass[p].seen
      /\ r.seenMail = pass[p].seenMail /\ r.todo = pass[p].todo \ {a}
      /\ r.pending = pass[p].pending
  BY SkippedFacts
<1>2. Does(p, ok, r)
  OBVIOUS
<1> HIDE DEF r
<1>3. /\ Runs(p, ok, r.step) /\ pass'[p].map = r.map /\ pass'[p].seen = r.seen
      /\ pass'[p].seenMail = r.seenMail /\ pass'[p].todo = r.todo
      /\ pass'[p].pending = r.pending
  BY <1>1, <1>2, RunsIf
<1>4. QED
  BY <1>1, <1>3 DEF SkipsAccount, SameMap, SameSeen, SamePending

LEMMA MirrorsIf ==
  ASSUME PanelTypes, NEW p \in Passes, NEW a \in Accounts, Does(p, TRUE, Mirrored(p, a))
  PROVE  MirrorsAccount(p, a)
<1> DEFINE r == Mirrored(p, a)
           step == IF ShouldSweep(a) THEN "sweep" ELSE "mirror"
<1>1. /\ r \in PassState /\ r.kind = pass[p].kind /\ r.step = step
      /\ r.clean = pass[p].clean /\ r.map = Put(pass[p].map, a, a)
      /\ r.seen = pass[p].seen
      /\ r.seenMail = pass[p].seenMail /\ r.todo = pass[p].todo \ {a}
      /\ r.pending = pass[p].pending \cup {a}
  BY MirroredFacts
<1>2. Does(p, TRUE, r) /\ TRUE \in BOOLEAN
  OBVIOUS
<1> HIDE DEF r, step
<1>3. /\ Runs(p, TRUE, r.step) /\ pass'[p].map = r.map /\ pass'[p].seen = r.seen
      /\ pass'[p].seenMail = r.seenMail /\ pass'[p].todo = r.todo
      /\ pass'[p].pending = r.pending
  <2>1. r \in PassState /\ r.kind = pass[p].kind /\ (r.clean => pass[p].clean)
    BY <1>1
  <2>2. QED
    BY <1>2, <2>1, RunsIf
<1>4. QED
  BY <1>1, <1>3 DEF MirrorsAccount, SameSeen, step

LEMMA UpdateAccountFacts ==
  ASSUME PanelTypes, NEW p \in Passes, NEW a \in Accounts, NEW ok \in BOOLEAN,
         UpdateAccount(p, a, ok)
  PROVE  \/ ok /\ MirrorsAccount(p, a)
         \/ ~ok /\ SkipsAccount(p, a, ok)
<1>1. CASE ok
  BY <1>1, MirrorsIf DEF UpdateAccount
<1>2. CASE ~ok
  <2>1. Does(p, ok, Skipped(p, a))
    BY <1>2 DEF UpdateAccount
  <2>2. QED
    BY <1>2, <2>1, SkipsIf
<1>3. QED
  BY <1>1, <1>2

LEMMA InsertAccountFacts ==
  ASSUME PanelTypes, NEW p \in Passes, NEW a \in Accounts, NEW ok \in BOOLEAN,
         InsertAccount(p, a, ok)
  PROVE  \/ /\ ok /\ ~Taken(a) /\ MirrorsAccount(p, a)
            /\ tenant' = Put(tenant, a, Translate(pass[p].map, TenantOf[a]))
         \/ /\ ~(ok /\ ~Taken(a)) /\ SkipsAccount(p, a, ok) /\ tenant' = tenant
<1>1. CASE ok /\ ~Taken(a)
  BY <1>1, MirrorsIf DEF InsertAccount
<1>2. CASE ~(ok /\ ~Taken(a))
  BY <1>2, SkipsIf DEF InsertAccount
<1>3. QED
  BY <1>1, <1>2

LEMMA ReadUsersFacts ==
  ASSUME PanelTypes, NEW p \in Passes, NEW ok \in BOOLEAN, ReadUsers(p, ok)
  PROVE  Runs(p, ok, "sync") /\ SameMap(p) /\ SameSeen(p) /\ SamePending(p)
<1> DEFINE todo == IF ok THEN Picked \cap roster ELSE {}
           r == [pass[p] EXCEPT !.step = "sync", !.todo = todo]
<1>1. todo \in SUBSET Accounts
  BY NamesAssumption
<1>2. Does(p, ok, r)
  BY DEF ReadUsers
<1>3. pass[p] \in PassState /\ "sync" \in Steps
  BY HeldTyped DEF Steps
<1> HIDE DEF todo
<1>4. /\ r.kind = pass[p].kind /\ r.step = "sync" /\ r.clean = pass[p].clean
      /\ r.map = pass[p].map /\ r.seen = pass[p].seen /\ r.seenMail = pass[p].seenMail
      /\ r.todo = todo /\ r.pending = pass[p].pending /\ r.filed = pass[p].filed
  BY <1>3 DEF PassState
<1>5. r \in PassState
  BY <1>1, <1>3, <1>4 DEF PassState
<1> HIDE DEF r
<1>6. QED
  BY <1>2, <1>4, <1>5, RunsIf DEF SameMap, SameSeen, SamePending

LEMMA SyncUserFacts ==
  ASSUME PanelTypes, NEW p \in Passes, NEW a \in Accounts, NEW ok \in BOOLEAN,
         SyncUser(p, a, ok)
  PROVE  /\ Runs(p, ok, "sync") /\ SameSeen(p) /\ SamePending(p)
         /\ pass'[p].map = IF ok THEN Put(pass[p].map, a, IF mail = a THEN Owner ELSE a)
                           ELSE pass[p].map
<1> DEFINE s == Skipped(p, a)
           found == IF mail = a THEN Owner ELSE a
           map == IF ok THEN Put(s.map, a, found) ELSE s.map
           r == [s EXCEPT !.map = map]
<1>1. /\ s \in PassState /\ s.kind = pass[p].kind /\ s.step = "sync"
      /\ s.clean = pass[p].clean /\ s.map = pass[p].map /\ s.seen = pass[p].seen
      /\ s.seenMail = pass[p].seenMail /\ s.pending = pass[p].pending
  BY SkippedFacts DEF SyncUser, AtStep
<1>2. map \in Tables(Accounts \cup {Owner}, Accounts \cup {Owner})
  <2>1. s.map \in Tables(Accounts \cup {Owner}, Accounts \cup {Owner})
        /\ a \in Accounts \cup {Owner} /\ found \in Accounts \cup {Owner}
    BY <1>1, HeldTyped
  <2> HIDE DEF s, found
  <2>2. QED
    BY <2>1, PutTyped
<1>3. Does(p, ok, r)
  BY DEF SyncUser
<1>4. map = IF ok THEN Put(pass[p].map, a, found) ELSE pass[p].map
  BY <1>1
<1> HIDE DEF s, map
<1>5. /\ r \in PassState /\ r.kind = s.kind /\ r.step = s.step /\ r.clean = s.clean
      /\ r.map = map /\ r.seen = s.seen /\ r.seenMail = s.seenMail
      /\ r.pending = s.pending
  BY <1>1, <1>2 DEF PassState
<1> HIDE DEF r
<1>6. r.kind = pass[p].kind /\ (r.clean => pass[p].clean)
  BY <1>1, <1>5
<1>7. /\ Runs(p, ok, r.step) /\ pass'[p].map = r.map /\ pass'[p].seen = r.seen
      /\ pass'[p].seenMail = r.seenMail /\ pass'[p].pending = r.pending
  BY <1>3, <1>5, <1>6, RunsIf
<1>8. QED
  BY <1>1, <1>4, <1>5, <1>7 DEF SameSeen, SamePending

LEMMA SyncProjectFacts ==
  ASSUME PanelTypes, NEW p \in Passes, NEW ok \in BOOLEAN, SyncProject(p, ok),
         pass[p].kind = "transfer"
  PROVE  /\ Runs(p, ok, "service") /\ SameSeen(p) /\ SameTodo(p) /\ SamePending(p)
         /\ pass'[p].map = Empty /\ pass'[p].filed = ok
<1> DEFINE step == After(p, "project")
           r == [pass[p] EXCEPT !.step = step, !.filed = ok, !.map = Empty]
<1>1. step = "service" /\ step \in Steps
  BY StepFacts DEF AfterSteps, Steps
<1>2. Does(p, ok, r)
  BY DEF SyncProject
<1>3. pass[p] \in PassState /\ Empty \in Tables(Accounts \cup {Owner}, Accounts \cup {Owner})
  BY HeldTyped, EmptyTyped
<1> HIDE DEF step
<1>4. /\ r.kind = pass[p].kind /\ r.step = step /\ r.clean = pass[p].clean
      /\ r.map = Empty /\ r.seen = pass[p].seen /\ r.seenMail = pass[p].seenMail
      /\ r.todo = pass[p].todo /\ r.pending = pass[p].pending /\ r.filed = ok
  BY <1>3 DEF PassState
<1>5. r \in PassState
  BY <1>1, <1>3, <1>4 DEF PassState
<1> HIDE DEF r
<1>6. /\ Runs(p, ok, r.step) /\ pass'[p].map = r.map /\ pass'[p].seen = r.seen
      /\ pass'[p].seenMail = r.seenMail /\ pass'[p].todo = r.todo
      /\ pass'[p].pending = r.pending /\ pass'[p].filed = r.filed
  BY <1>2, <1>4, <1>5, RunsIf
<1>7. QED
  BY <1>1, <1>4, <1>6 DEF SameSeen, SameTodo, SamePending

LEMMA ReadTenantsFacts ==
  ASSUME PanelTypes, NEW p \in Passes, NEW ok \in BOOLEAN, ReadTenants(p, ok)
  PROVE  \/ /\ Runs(p, TRUE, "roots") /\ SameMap(p) /\ SamePending(p) /\ SameFiled(p)
            /\ pass'[p].seen = tenant /\ pass'[p].seenMail = pass[p].seenMail
            /\ pass'[p].todo = {a \in Present \cap Roots : tenant[a] # Here(a)}
         \/ Runs(p, FALSE, "over") /\ Emptied(p)
<1>1. CASE ok
  <2> DEFINE todo == {a \in Present \cap Roots : tenant[a] # Here(a)}
             r == [pass[p] EXCEPT !.step = "roots", !.seen = tenant, !.todo = todo]
  <2>1. todo \in SUBSET Accounts
    BY NamesAssumption
  <2>2. tenant \in Tables(Accounts, Ids \cup {NoId})
    BY DEF PanelTypes, RowTypes
  <2>3. Does(p, TRUE, r)
    BY <1>1 DEF ReadTenants
  <2>4. pass[p] \in PassState /\ "roots" \in Steps
    BY HeldTyped DEF Steps
  <2> HIDE DEF todo
  <2>5. /\ r.kind = pass[p].kind /\ r.step = "roots" /\ r.clean = pass[p].clean
        /\ r.map = pass[p].map /\ r.seen = tenant /\ r.seenMail = pass[p].seenMail
        /\ r.todo = todo /\ r.pending = pass[p].pending /\ r.filed = pass[p].filed
    BY <2>4 DEF PassState
  <2>6. r \in PassState
    BY <2>1, <2>2, <2>4, <2>5 DEF PassState
  <2> HIDE DEF r
  <2>7. TRUE \in BOOLEAN /\ (r.clean => pass[p].clean)
    BY <2>5
  <2>8. /\ Runs(p, TRUE, r.step) /\ pass'[p].map = r.map /\ pass'[p].seen = r.seen
        /\ pass'[p].seenMail = r.seenMail /\ pass'[p].todo = r.todo
        /\ pass'[p].pending = r.pending /\ pass'[p].filed = r.filed
    BY <2>3, <2>5, <2>6, <2>7, RunsIf
  <2>9. QED
    BY <2>5, <2>8 DEF SameMap, SamePending, SameFiled, todo
<1>2. CASE ~ok
  <2>1. Does(p, FALSE, Fresh(pass[p].kind, "over", FALSE)) /\ "over" \in Steps
    BY <1>2 DEF ReadTenants, Steps
  <2>2. QED
    BY <2>1, EndedFacts
<1>3. QED
  BY <1>1, <1>2

LEMMA FixRootFacts ==
  ASSUME PanelTypes, NEW p \in Passes, NEW a \in Accounts, NEW ok \in BOOLEAN,
         FixRoot(p, a, ok)
  PROVE  /\ Runs(p, ok, "roots") /\ SameMap(p) /\ SamePending(p) /\ SameFiled(p)
         /\ pass'[p].seenMail = pass[p].seenMail
         /\ pass'[p].todo = pass[p].todo \ {a}
         /\ pass'[p].seen = IF ok THEN [pass[p].seen EXCEPT ![a] = Here(a)] ELSE pass[p].seen
<1> DEFINE s == Skipped(p, a)
           seen == [s.seen EXCEPT ![a] = IF ok THEN Here(a) ELSE @]
           r == [s EXCEPT !.seen = seen]
<1>1. /\ s \in PassState /\ s.kind = pass[p].kind /\ s.step = "roots"
      /\ s.clean = pass[p].clean /\ s.map = pass[p].map /\ s.seen = pass[p].seen
      /\ s.seenMail = pass[p].seenMail /\ s.todo = pass[p].todo \ {a}
      /\ s.pending = pass[p].pending /\ s.filed = pass[p].filed
  BY SkippedFacts DEF FixRoot, AtStep
<1>2. /\ seen = IF ok THEN [pass[p].seen EXCEPT ![a] = Here(a)] ELSE pass[p].seen
      /\ seen \in Tables(Accounts, Ids \cup {NoId})
  <2>1. pass[p].seen \in Tables(Accounts, Ids \cup {NoId}) /\ Here(a) \in Ids \cup {NoId}
    BY HeldTyped DEF Here, Ids
  <2>2. pass[p].seen \in [DOMAIN pass[p].seen -> Ids \cup {NoId}]
    BY <2>1, TableFacts
  <2>3. CASE ok
    BY <1>1, <2>1, <2>3, ExceptTyped
  <2>4. CASE ~ok
    <3>1. seen = [pass[p].seen EXCEPT ![a] = pass[p].seen[a]]
      BY <1>1, <2>4
    <3>2. seen = pass[p].seen
      <4> HIDE DEF seen
      <4> QED
        BY <2>2, <3>1
    <3>3. QED
      BY <2>1, <2>4, <3>2
  <2>5. QED
    BY <2>3, <2>4
<1>3. Does(p, ok, r)
  BY DEF FixRoot
<1> HIDE DEF s, seen
<1>4. /\ r \in PassState /\ r.kind = s.kind /\ r.step = s.step /\ r.clean = s.clean
      /\ r.map = s.map /\ r.seen = seen /\ r.seenMail = s.seenMail /\ r.todo = s.todo
      /\ r.pending = s.pending /\ r.filed = s.filed
  BY <1>1, <1>2 DEF PassState
<1> HIDE DEF r
<1>5. r.kind = pass[p].kind /\ (r.clean => pass[p].clean)
  BY <1>1, <1>4
<1>6. /\ Runs(p, ok, r.step) /\ pass'[p].map = r.map /\ pass'[p].seen = r.seen
      /\ pass'[p].seenMail = r.seenMail /\ pass'[p].todo = r.todo
      /\ pass'[p].pending = r.pending /\ pass'[p].filed = r.filed
  BY <1>3, <1>4, <1>5, RunsIf
<1>7. QED
  BY <1>1, <1>2, <1>4, <1>6 DEF SameMap, SamePending, SameFiled

LEMMA KindOfStep ==
  ASSUME PanelTypes, NEW p \in Passes
  PROVE  /\ pass[p].step \in {"files", "users", "sync", "domains", "project", "service",
                              "enrich", "materialize", "attach", "stamp", "pull",
                              "vhost", "vhosts", "proxy"} => pass[p].kind = "transfer"
         /\ pass[p].step \in {"roster", "owner", "snapshot", "mirror", "sweep", "fixup"} =>
              pass[p].kind \in {"transfer", "resync"}
<1>1. pass[p].kind \in {"transfer", "resync", "heal"} /\ pass[p].step \in StepsOf(pass[p].kind)
  BY HeldTyped DEF PanelTypes, Kinds
<1>2. CASE pass[p].kind = "transfer"
  BY <1>2
<1>3. CASE pass[p].kind = "resync"
  BY <1>1, <1>3, PartsFacts DEF StepsOf
<1>4. CASE pass[p].kind = "heal"
  BY <1>1, <1>4, PartsFacts DEF StepsOf
<1>5. QED
  BY <1>1, <1>2, <1>3, <1>4

\* Where the steps lead that keep what the pass holds.
LEMMA PlainSteps ==
  ASSUME PanelTypes, NEW p \in Passes, NEW ok \in BOOLEAN
  PROVE  /\ WireDomains(p, ok) => Runs(p, ok, "roster") /\ SameHeld(p)
         /\ SweepPlaceholder(p, ok) => Runs(p, ok, "mirror") /\ SameHeld(p)
         /\ InsertDomains(p, ok) => Runs(p, ok, "project") /\ SameHeld(p)
         /\ SyncService(p, ok) => Runs(p, ok, "enrich") /\ SameHeld(p)
         /\ EnrichDomains(p, ok) => Runs(p, ok, "materialize") /\ SameHeld(p)
         /\ MaterializeDomains(p, ok) => Runs(p, ok, "attach") /\ SameHeld(p)
         /\ StampLink(p, ok) => Runs(p, ok, "pull") /\ SameHeld(p)
         /\ PullAlias(p, ok) => Runs(p, ok, "vhost") /\ SameHeld(p)
         /\ ApplyVhost(p, ok) => Runs(p, ok, "vhosts") /\ SameHeld(p)
<1>1. pass[p].kind = "transfer" =>
        /\ After(p, "files") = "roster" /\ After(p, "domains") = "project"
        /\ After(p, "service") = "enrich" /\ After(p, "enrich") = "materialize"
        /\ After(p, "materialize") = "attach" /\ After(p, "attach") = "vhosts"
  BY StepFacts DEF AfterSteps
<1>2. {"roster", "mirror", "project", "enrich", "materialize", "attach", "pull", "vhost",
       "vhosts"} \subseteq Steps
  BY DEF Steps
<1>3. \A step \in Steps : Goes(p, ok, step) => Runs(p, ok, step) /\ SameHeld(p)
  BY GoesFacts
<1>4. ASSUME WireDomains(p, ok) PROVE Runs(p, ok, "roster") /\ SameHeld(p)
  <2>1. PICK all \in BOOLEAN : Serves(p, ok, all, "roster")
    BY <1>1, <1>4, KindOfStep DEF WireDomains, AtStep
  <2>2. QED
    BY <1>2, <2>1, ServesFacts
<1>5. ASSUME SweepPlaceholder(p, ok) PROVE Runs(p, ok, "mirror") /\ SameHeld(p)
  BY <1>2, <1>3, <1>5 DEF SweepPlaceholder
<1>6. ASSUME InsertDomains(p, ok) PROVE Runs(p, ok, "project") /\ SameHeld(p)
  <2>1. Goes(p, ok, "project")
    BY <1>1, <1>6, KindOfStep DEF InsertDomains, AtStep
  <2>2. QED
    BY <1>2, <1>3, <2>1
<1>7. ASSUME SyncService(p, ok) PROVE Runs(p, ok, "enrich") /\ SameHeld(p)
  <2>1. Goes(p, ok, "enrich")
    BY <1>1, <1>7, KindOfStep DEF SyncService, AtStep
  <2>2. QED
    BY <1>2, <1>3, <2>1
<1>8. ASSUME EnrichDomains(p, ok) PROVE Runs(p, ok, "materialize") /\ SameHeld(p)
  <2>1. Goes(p, ok, "materialize")
    BY <1>1, <1>8, KindOfStep DEF EnrichDomains, AtStep
  <2>2. QED
    BY <1>2, <1>3, <2>1
<1>9. ASSUME MaterializeDomains(p, ok) PROVE Runs(p, ok, "attach") /\ SameHeld(p)
  <2>1. Goes(p, ok, "attach")
    BY <1>1, <1>9, KindOfStep DEF MaterializeDomains, AtStep
  <2>2. QED
    BY <1>2, <1>3, <2>1
<1>10. ASSUME StampLink(p, ok) PROVE Runs(p, ok, "pull") /\ SameHeld(p)
  BY <1>2, <1>3, <1>10 DEF StampLink
<1>11. ASSUME PullAlias(p, ok) PROVE Runs(p, ok, "vhost") /\ SameHeld(p)
  BY <1>2, <1>3, <1>11 DEF PullAlias
<1>12. ASSUME ApplyVhost(p, ok) PROVE Runs(p, ok, "vhosts") /\ SameHeld(p)
  <2>1. PICK all \in BOOLEAN : Serves(p, ok, all, "vhosts")
    BY <1>1, <1>12, KindOfStep DEF ApplyVhost, AtStep
  <2>2. QED
    BY <1>2, <2>1, ServesFacts
<1>13. QED
  BY <1>4, <1>5, <1>6, <1>7, <1>8, <1>9, <1>10, <1>11, <1>12

LEMMA ReadRosterFacts ==
  ASSUME PanelTypes, NEW p \in Passes, NEW ok \in BOOLEAN, ReadRoster(p, ok)
  PROVE  /\ SameHeld(p)
         /\ \/ ok /\ Runs(p, TRUE, "owner")
            \/ ~ok /\ pass[p].kind = "transfer" /\ Runs(p, FALSE, "users")
            \/ ~ok /\ pass[p].kind = "resync" /\ Runs(p, FALSE, "read")
<1>1. pass[p].kind \in {"transfer", "resync"}
  BY KindOfStep DEF ReadRoster, AtStep
<1>2. AfterSteps(p)
  BY StepFacts
<1>3. {"owner", "users", "read"} \subseteq Steps
  BY DEF Steps
<1>4. CASE ok
  <2>1. Goes(p, TRUE, "owner")
    BY <1>1, <1>2, <1>4 DEF ReadRoster, AfterSteps
  <2>2. TRUE \in BOOLEAN /\ "owner" \in Steps
    BY <1>3
  <2>3. QED
    BY <1>4, <2>1, <2>2, GoesFacts
<1>5. CASE ~ok
  <2>1. /\ pass[p].kind = "transfer" => Goes(p, FALSE, "users")
        /\ pass[p].kind = "resync" => Goes(p, FALSE, "read")
    BY <1>1, <1>2, <1>5 DEF ReadRoster, AfterSteps
  <2>2. FALSE \in BOOLEAN /\ "users" \in Steps /\ "read" \in Steps
    BY <1>3
  <2>3. QED
    BY <1>1, <1>5, <2>1, <2>2, GoesFacts
<1>6. QED
  BY <1>4, <1>5

LEMMA FindAliasFacts ==
  ASSUME PanelTypes, NEW p \in Passes, NEW ok \in BOOLEAN, FindAlias(p, ok)
  PROVE  /\ SameHeld(p)
         /\ \/ /\ service # Nil /\ alias /\ Alias \in DOMAIN link
               /\ Runs(p, ok, "stamp")
            \/ /\ ~(/\ ok /\ service # Nil /\ alias
                    /\ Alias \in DOMAIN link /\ link[Alias] \in {Nil, service})
               /\ Runs(p, ok, "vhosts")
<1>1. After(p, "attach") = "vhosts"
  BY StepFacts, KindOfStep DEF AfterSteps, FindAlias, AtStep
<1>2. "stamp" \in Steps /\ "vhosts" \in Steps
  BY DEF Steps
<1> DEFINE attaches == /\ ok /\ service # Nil /\ alias
                       /\ Alias \in DOMAIN link /\ link[Alias] \in {Nil, service}
<1>3. CASE attaches
  <2>1. Goes(p, ok, "stamp")
    BY <1>3 DEF FindAlias
  <2>2. QED
    BY <1>2, <1>3, <2>1, GoesFacts
<1>4. CASE ~attaches
  <2>1. Goes(p, ok, "vhosts")
    BY <1>1, <1>4 DEF FindAlias
  <2>2. Runs(p, ok, "vhosts") /\ SameHeld(p)
    BY <1>2, <2>1, GoesFacts
  <2>3. QED
    BY <1>4, <2>2
<1>5. QED
  BY <1>3, <1>4

LEMMA HealVhostsFacts ==
  ASSUME PanelTypes, NEW p \in Passes, HealVhosts(p)
  PROVE  /\ \E ok \in BOOLEAN : Runs(p, ok, "proxy") /\ SameHeld(p)
         /\ DOMAIN link' = DOMAIN link /\ (lost => lost')
         /\ \A d \in DOMAIN link : link'[d] \in {link[d], service, "other"}
         /\ \A d \in DOMAIN link : pass'[p].clean /\ link[d] \in {Nil, service, "other"} =>
              link'[d] = link[d]
         /\ Alias \in DOMAIN link /\ link[Alias] \in {Nil, service, "other"} =>
              link'[Alias] \in {link[Alias], service} \/ (link'[Alias] = "other" /\ lost')
<1> DEFINE bare == DOMAIN link \ (static \cup proxied)
           linked == {d \in bare : link[d] # Nil}
           Astray(unread) == {d \in linked : d \in unread \/ link[d] \notin {service, "other"}}
<1>1. After(p, "vhosts") = "proxy"
  BY StepFacts, KindOfStep DEF AfterSteps, HealVhosts, AtStep
<1>2. PICK unread \in SUBSET linked, made \in SUBSET bare,
           found \in {service, "other"} \ {Nil} :
        \E relinked \in SUBSET Astray(unread) :
          /\ link' = [d \in DOMAIN link |-> IF d \in relinked THEN found ELSE link[d]]
          /\ lost' = (lost \/ (Alias \in relinked \cap unread /\ found = "other"))
          /\ Serves(p, unread = {}, made = bare, "proxy")
  BY <1>1 DEF HealVhosts
<1>3. PICK relinked \in SUBSET Astray(unread) :
        /\ link' = [d \in DOMAIN link |-> IF d \in relinked THEN found ELSE link[d]]
        /\ lost' = (lost \/ (Alias \in relinked \cap unread /\ found = "other"))
        /\ Serves(p, unread = {}, made = bare, "proxy")
  BY <1>2
<1>4. "proxy" \in Steps
  BY DEF Steps
<1> DEFINE ok == unread = {}
           all == made = bare
<1>5. ok \in BOOLEAN /\ all \in BOOLEAN /\ Serves(p, ok, all, "proxy")
  BY <1>3
<1>6. Runs(p, ok, "proxy") /\ SameHeld(p)
  <2> HIDE DEF ok, all
  <2> QED
    BY <1>4, <1>5, ServesFacts
<1>7. pass'[p].clean => unread = {}
  BY <1>6 DEF Runs
<1>8. \A d \in relinked :
        d \in DOMAIN link /\ link[d] # Nil /\ (d \in unread \/ link[d] \notin {service, "other"})
  BY <1>3
<1>9. \E yes \in BOOLEAN : Runs(p, yes, "proxy") /\ SameHeld(p)
  BY <1>5, <1>6
<1> HIDE DEF bare, linked, Astray, ok, all
<1>10. DOMAIN link' = DOMAIN link /\ (lost => lost')
  BY <1>3
<1>11. \A d \in DOMAIN link : link'[d] = IF d \in relinked THEN found ELSE link[d]
  BY <1>3
<1>12. \A d \in DOMAIN link : link'[d] \in {link[d], service, "other"}
  BY <1>2, <1>11
<1>13. \A d \in DOMAIN link : pass'[p].clean /\ link[d] \in {Nil, service, "other"} =>
         link'[d] = link[d]
  BY <1>7, <1>8, <1>11
<1>14. Alias \in DOMAIN link /\ link[Alias] \in {Nil, service, "other"} =>
         link'[Alias] \in {link[Alias], service} \/ (link'[Alias] = "other" /\ lost')
  BY <1>2, <1>3, <1>8, <1>11
<1>15. QED
  BY <1>9, <1>10, <1>12, <1>13, <1>14

\* The domains it has to do with: linked, and not proxied.
Unproxied == {d \in DOMAIN link : link[d] # Nil} \ proxied

LEMMA HealProxiesFacts ==
  ASSUME PanelTypes, NEW p \in Passes, NEW ok \in BOOLEAN, HealProxies(p, ok)
  PROVE  /\ Runs(p, ok, "read") /\ SameHeld(p)
         /\ pass'[p].clean => proxied' = proxied \cup Unproxied
<1>1. After(p, "proxy") = "read"
  BY StepFacts, KindOfStep DEF AfterSteps, HealProxies, AtStep
<1> DEFINE tried == IF ok THEN Unproxied ELSE {}
<1>2. PICK done \in SUBSET tried :
        proxied' = proxied \cup done /\ Serves(p, ok, done = tried, "read")
  BY <1>1 DEF HealProxies, Unproxied
<1>3. (done = tried) \in BOOLEAN /\ "read" \in Steps
  BY DEF Steps
<1> DEFINE all == done = tried
<1> HIDE DEF all
<1>4. all \in BOOLEAN /\ Serves(p, ok, all, "read")
  BY <1>2, <1>3 DEF all
<1>5. Runs(p, ok, "read") /\ SameHeld(p) /\ (pass'[p].clean => all)
  BY <1>3, <1>4, ServesFacts
<1>6. pass'[p].clean => ok /\ done = tried
  BY <1>5 DEF Runs, all
<1>7. QED
  BY <1>2, <1>5, <1>6

LEMMA FixTenantFacts ==
  ASSUME PanelTypes, NEW p \in Passes, NEW a \in Accounts, NEW ok \in BOOLEAN,
         FixTenant(p, a, ok)
  PROVE  /\ AtStep(p, "fixup") /\ SkipsAccount(p, a, ok)
         /\ \/ /\ ok /\ TenantOf[a] \in DOMAIN pass[p].map
               /\ tenant' = SetTenant(a, Here(pass[p].map[TenantOf[a]]))
            \/ /\ ~(ok /\ TenantOf[a] \in DOMAIN pass[p].map)
               /\ tenant' = tenant
<1>1. AtStep(p, "fixup") /\ Does(p, ok, Skipped(p, a))
  BY DEF FixTenant
<1>2. SkipsAccount(p, a, ok)
  BY <1>1, SkipsIf
<1>3. CASE ok /\ TenantOf[a] \in DOMAIN pass[p].map
  BY <1>1, <1>2, <1>3 DEF FixTenant, Translate
<1>4. CASE ~(ok /\ TenantOf[a] \in DOMAIN pass[p].map)
  BY <1>1, <1>2, <1>4 DEF FixTenant
<1>5. QED
  BY <1>3, <1>4

LEMMA EndSteps ==
  ASSUME PanelTypes, NEW p \in Passes
  PROVE  /\ \A a \in Accounts, ok \in BOOLEAN :
              FileProject(p, a, ok) => Runs(p, ok, "over") /\ Emptied(p)
         /\ LeaveProject(p) => Runs(p, TRUE, "over") /\ Emptied(p)
         /\ Die(p) => Runs(p, FALSE, "dead") /\ Emptied(p) /\ ~pass'[p].clean
<1>1. "over" \in Steps /\ "dead" \in Steps /\ pass[p].clean \in BOOLEAN
      /\ TRUE \in BOOLEAN /\ FALSE \in BOOLEAN
  BY HeldTyped DEF Steps
<1>2. ASSUME NEW a \in Accounts, NEW ok \in BOOLEAN, FileProject(p, a, ok)
      PROVE  Runs(p, ok, "over") /\ Emptied(p)
  <2>1. Does(p, ok, Fresh(pass[p].kind, "over", pass[p].clean))
    BY <1>2 DEF FileProject
  <2>2. QED
    BY <1>1, <2>1, EndedFacts
<1>3. ASSUME LeaveProject(p) PROVE Runs(p, TRUE, "over") /\ Emptied(p)
  <2>1. Does(p, TRUE, Fresh(pass[p].kind, "over", pass[p].clean))
    BY <1>3 DEF LeaveProject
  <2>2. QED
    BY <1>1, <2>1, EndedFacts
<1>4. ASSUME Die(p) PROVE Runs(p, FALSE, "dead") /\ Emptied(p) /\ ~pass'[p].clean
  <2>1. Does(p, FALSE, Fresh(pass[p].kind, "dead", FALSE))
    BY <1>4 DEF Die
  <2>2. QED
    BY <1>1, <2>1, EndedFacts
<1>5. QED
  BY <1>2, <1>3, <1>4

LEMMA FixRootGoes ==
  ASSUME PanelTypes, NEW p \in Passes, NEW a \in Accounts, NEW ok \in BOOLEAN,
         FixRoot(p, a, ok)
  PROVE  pass'[p].step = "roots" /\ (pass'[p].clean => ok)
<1>1. Runs(p, ok, "roots")
  BY FixRootFacts
<1>2. QED
  BY <1>1 DEF Runs

-----------------------------------------------------------------------------
(* Types, and what no step of a pass under way touches                     *)

LEMMA StepsOfFacts ==
  /\ \A step \in Steps : step \in StepsOf("transfer")
  /\ \A step \in {"roster", "owner", "snapshot", "mirror", "sweep", "fixup"} :
       step \in StepsOf("resync")
  /\ \A step \in {"off", "read", "roots", "child", "over", "dead"}, kind \in Kinds :
       step \in StepsOf(kind)
BY PartsFacts DEF StepsOf, Steps, Kinds

\* A step of p alone, which leaves the source, the other passes and the history of
\* meetings as they are.
Ran(p) ==
  /\ InFlight(p) /\ roster' = roster /\ met' = met
  /\ pass' \in [Passes -> PassState] /\ failures' \in 0 .. MaxFailures
  /\ \A q \in Passes : q # p => pass'[q] = pass[q]
  /\ pass'[p].kind = pass[p].kind /\ pass'[p].step \in StepsOf(pass[p].kind) \ {"off"}
  /\ pass'[p].clean => pass[p].clean

LEMMA RanIf ==
  ASSUME PanelTypes, NEW p \in Passes, NEW ok \in BOOLEAN, NEW step \in Steps,
         Runs(p, ok, step), InFlight(p), roster' = roster, met' = met,
         \/ step \in {"read", "roots", "child", "over", "dead"}
         \/ /\ step \in {"owner", "snapshot", "mirror", "sweep", "fixup"}
            /\ pass[p].kind \in {"transfer", "resync"}
         \/ step # "off" /\ pass[p].kind = "transfer"
  PROVE  Ran(p)
<1>1. pass[p].kind \in Kinds
  BY HeldTyped
<1>2. step \in StepsOf(pass[p].kind) \ {"off"}
  BY <1>1, StepsOfFacts
<1>3. QED
  BY <1>2 DEF Runs, Ran

LEMMA MirrorRan ==
  ASSUME PanelTypes, NEW p \in Passes, NEW ok \in BOOLEAN, MirrorRoster(p, ok)
  PROVE  Ran(p)
<1>1. CASE ReadRoster(p, ok)
  <2>1. InFlight(p) /\ roster' = roster /\ met' = met
    BY <1>1 DEF ReadRoster, AtStep, InFlight, past
  <2>2. pass[p].kind \in {"transfer", "resync"}
    BY <1>1, KindOfStep DEF ReadRoster, AtStep
  <2>3. \/ Runs(p, TRUE, "owner")
        \/ pass[p].kind = "transfer" /\ Runs(p, FALSE, "users")
        \/ Runs(p, FALSE, "read")
    BY <1>1, ReadRosterFacts
  <2>4. QED
    BY <2>1, <2>2, <2>3, RanIf DEF Steps
<1>2. CASE UpgradeOwner(p, ok)
  <2>1. InFlight(p) /\ roster' = roster /\ met' = met
    BY <1>2 DEF UpgradeOwner, AtStep, InFlight, past
  <2>2. pass[p].kind \in {"transfer", "resync"}
    BY <1>2, KindOfStep DEF UpgradeOwner, AtStep
  <2>3. QED
    BY <1>2, <2>1, <2>2, UpgradeOwnerFacts, RanIf DEF Steps
<1>3. CASE Snapshot(p, ok)
  <2>1. InFlight(p) /\ roster' = roster /\ met' = met
    BY <1>3 DEF Snapshot, AtStep, InFlight, past
  <2>2. pass[p].kind \in {"transfer", "resync"}
    BY <1>3, KindOfStep DEF Snapshot, AtStep
  <2>3. QED
    BY <1>3, <2>1, <2>2, SnapshotFacts, RanIf DEF Steps
<1>4. CASE SweepPlaceholder(p, ok)
  <2>1. InFlight(p) /\ roster' = roster /\ met' = met
    BY <1>4 DEF SweepPlaceholder, AtStep, InFlight, past
  <2>2. pass[p].kind \in {"transfer", "resync"}
    BY <1>4, KindOfStep DEF SweepPlaceholder, AtStep
  <2>3. QED
    BY <1>4, <2>1, <2>2, PlainSteps, RanIf DEF Steps
<1>5. ASSUME NEW a \in Accounts, UpdateAccount(p, a, ok) \/ InsertAccount(p, a, ok)
      PROVE  Ran(p)
  <2>1. InFlight(p) /\ roster' = roster /\ met' = met /\ AtStep(p, "mirror")
    BY <1>5 DEF UpdateAccount, InsertAccount, AtStep, InFlight, past
  <2>2. pass[p].kind \in {"transfer", "resync"}
    BY <2>1, KindOfStep DEF AtStep
  <2>3. MirrorsAccount(p, a) \/ SkipsAccount(p, a, ok)
    BY <1>5, UpdateAccountFacts, InsertAccountFacts
  <2>4. Runs(p, TRUE, "sweep") \/ Runs(p, TRUE, "mirror") \/ Runs(p, ok, "mirror")
    BY <2>1, <2>3 DEF MirrorsAccount, SkipsAccount, AtStep
  <2>5. QED
    BY <2>1, <2>2, <2>4, RanIf DEF Steps
<1>6. ASSUME NEW a \in Accounts, FixTenant(p, a, ok) PROVE Ran(p)
  <2>1. InFlight(p) /\ roster' = roster /\ met' = met /\ AtStep(p, "fixup")
    BY <1>6 DEF FixTenant, AtStep, InFlight, past
  <2>2. pass[p].kind \in {"transfer", "resync"}
    BY <2>1, KindOfStep DEF AtStep
  <2>3. Runs(p, ok, "fixup")
    BY <1>6, <2>1, FixTenantFacts DEF SkipsAccount, AtStep
  <2>4. QED
    BY <2>1, <2>2, <2>3, RanIf DEF Steps
<1>7. QED
  BY <1>1, <1>2, <1>3, <1>4, <1>5, <1>6 DEF MirrorRoster

LEMMA CopyRan ==
  ASSUME PanelTypes, NEW p \in Passes, NEW ok \in BOOLEAN,
         CopyRows(p, ok) \/ AttachAlias(p, ok)
  PROVE  Ran(p)
<1>1. CASE ReadUsers(p, ok)
  <2>1. InFlight(p) /\ roster' = roster /\ met' = met /\ pass[p].kind = "transfer"
    BY <1>1, KindOfStep DEF ReadUsers, AtStep, InFlight, past
  <2>2. QED
    BY <1>1, <2>1, ReadUsersFacts, RanIf DEF Steps
<1>2. CASE InsertDomains(p, ok)
  <2>1. InFlight(p) /\ roster' = roster /\ met' = met /\ pass[p].kind = "transfer"
    BY <1>2, KindOfStep DEF InsertDomains, AtStep, InFlight, past
  <2>2. QED
    BY <1>2, <2>1, PlainSteps, RanIf DEF Steps
<1>3. CASE SyncProject(p, ok)
  <2>1. InFlight(p) /\ roster' = roster /\ met' = met /\ pass[p].kind = "transfer"
    BY <1>3, KindOfStep DEF SyncProject, AtStep, InFlight, past
  <2>2. QED
    BY <1>3, <2>1, SyncProjectFacts, RanIf DEF Steps
<1>4. CASE SyncService(p, ok)
  <2>1. InFlight(p) /\ roster' = roster /\ met' = met /\ pass[p].kind = "transfer"
    BY <1>4, KindOfStep DEF SyncService, AtStep, InFlight, past
  <2>2. QED
    BY <1>4, <2>1, PlainSteps, RanIf DEF Steps
<1>5. CASE EnrichDomains(p, ok)
  <2>1. InFlight(p) /\ roster' = roster /\ met' = met /\ pass[p].kind = "transfer"
    BY <1>5, KindOfStep DEF EnrichDomains, AtStep, InFlight, past
  <2>2. QED
    BY <1>5, <2>1, PlainSteps, RanIf DEF Steps
<1>6. CASE MaterializeDomains(p, ok)
  <2>1. InFlight(p) /\ roster' = roster /\ met' = met /\ pass[p].kind = "transfer"
    BY <1>6, KindOfStep DEF MaterializeDomains, AtStep, InFlight, past
  <2>2. QED
    BY <1>6, <2>1, PlainSteps, RanIf DEF Steps
<1>7. CASE FindAlias(p, ok)
  <2>1. InFlight(p) /\ roster' = roster /\ met' = met /\ pass[p].kind = "transfer"
    BY <1>7, KindOfStep DEF FindAlias, AtStep, InFlight, past
  <2>2. QED
    BY <1>7, <2>1, FindAliasFacts, RanIf DEF Steps
<1>8. CASE StampLink(p, ok)
  <2>1. InFlight(p) /\ roster' = roster /\ met' = met /\ pass[p].kind = "transfer"
    BY <1>8, KindOfStep DEF StampLink, AtStep, InFlight, past
  <2>2. QED
    BY <1>8, <2>1, PlainSteps, RanIf DEF Steps
<1>9. CASE PullAlias(p, ok)
  <2>1. InFlight(p) /\ roster' = roster /\ met' = met /\ pass[p].kind = "transfer"
    BY <1>9, KindOfStep DEF PullAlias, AtStep, InFlight, past
  <2>2. QED
    BY <1>9, <2>1, PlainSteps, RanIf DEF Steps
<1>10. CASE ApplyVhost(p, ok)
  <2>1. InFlight(p) /\ roster' = roster /\ met' = met /\ pass[p].kind = "transfer"
    BY <1>10, KindOfStep DEF ApplyVhost, AtStep, InFlight, past
  <2>2. QED
    BY <1>10, <2>1, PlainSteps, RanIf DEF Steps
<1>11. ASSUME NEW a \in Accounts, SyncUser(p, a, ok) PROVE Ran(p)
  <2>1. InFlight(p) /\ roster' = roster /\ met' = met /\ pass[p].kind = "transfer"
    BY <1>11, KindOfStep DEF SyncUser, AtStep, InFlight, past
  <2>2. QED
    BY <1>11, <2>1, SyncUserFacts, RanIf DEF Steps
<1>12. CASE WireDomains(p, ok)
  <2>1. InFlight(p) /\ roster' = roster /\ met' = met /\ pass[p].kind = "transfer"
    BY <1>12, KindOfStep DEF WireDomains, AtStep, InFlight, past
  <2>2. QED
    BY <1>12, <2>1, PlainSteps, RanIf DEF Steps
<1>13. CASE HealProxies(p, ok)
  <2>1. InFlight(p) /\ roster' = roster /\ met' = met /\ pass[p].kind = "transfer"
    BY <1>13, KindOfStep DEF HealProxies, AtStep, InFlight, past
  <2>2. QED
    BY <1>13, <2>1, HealProxiesFacts, RanIf DEF Steps
<1>14. QED
  BY <1>1, <1>2, <1>3, <1>4, <1>5, <1>6, <1>7, <1>8, <1>9, <1>10, <1>11, <1>12, <1>13
     DEF CopyRows, AttachAlias

LEMMA ActsRan ==
  ASSUME PanelTypes, NEW p \in Passes, Acts(p)
  PROVE  Ran(p)
<1>1. CASE EndOfList(p)
  <2>1. InFlight(p) /\ roster' = roster /\ met' = met
    BY <1>1 DEF EndOfList, InFlight, past
  <2>2. AtStep(p, "mirror") => pass[p].kind \in {"transfer", "resync"}
    BY KindOfStep DEF AtStep
  <2>3. \/ Runs(p, TRUE, "fixup") /\ pass[p].kind \in {"transfer", "resync"}
        \/ Runs(p, TRUE, "users") /\ pass[p].kind = "transfer"
        \/ Runs(p, TRUE, "read")
        \/ Runs(p, TRUE, "domains") /\ pass[p].kind = "transfer"
        \/ Runs(p, TRUE, "child")
    BY <1>1, <2>2, EndOfListFacts DEF AtStep
  <2>4. QED
    BY <2>1, <2>3, RanIf DEF Steps
<1>2. CASE LeaveProject(p)
  <2>1. InFlight(p) /\ roster' = roster /\ met' = met
    BY <1>2 DEF LeaveProject, AtStep, InFlight, past
  <2>2. QED
    BY <1>2, <2>1, EndSteps, RanIf DEF Steps
<1>3. CASE Die(p)
  <2>1. InFlight(p) /\ roster' = roster /\ met' = met
    BY <1>3 DEF Die, past
  <2>2. QED
    BY <1>3, <2>1, EndSteps, RanIf DEF Steps
<1>4. ASSUME NEW a \in Accounts, MapToOwner(p, a) PROVE Ran(p)
  <2>1. InFlight(p) /\ roster' = roster /\ met' = met /\ AtStep(p, "mirror")
    BY <1>4 DEF MapToOwner, AtStep, InFlight, past
  <2>2. pass[p].kind \in {"transfer", "resync"}
    BY <2>1, KindOfStep DEF AtStep
  <2>3. QED
    BY <1>4, <2>1, <2>2, MapToOwnerFacts, RanIf DEF Steps
<1>5. CASE HealVhosts(p)
  <2>1. InFlight(p) /\ roster' = roster /\ met' = met /\ pass[p].kind = "transfer"
    BY <1>5, KindOfStep DEF HealVhosts, AtStep, InFlight
  <2>2. \E ok \in BOOLEAN : Runs(p, ok, "proxy")
    BY <1>5, HealVhostsFacts
  <2>3. QED
    BY <2>1, <2>2, RanIf DEF Steps
<1>6. ASSUME NEW ok \in BOOLEAN, HealTenants(p, ok) PROVE Ran(p)
  <2>1. CASE ReadTenants(p, ok)
    <3>1. InFlight(p) /\ roster' = roster /\ met' = met
      BY <2>1 DEF ReadTenants, AtStep, InFlight, past
    <3>2. Runs(p, TRUE, "roots") \/ Runs(p, FALSE, "over")
      BY <2>1, ReadTenantsFacts
    <3>3. QED
      BY <3>1, <3>2, RanIf DEF Steps
  <2>2. ASSUME NEW a \in Accounts, FixRoot(p, a, ok) PROVE Ran(p)
    <3>1. InFlight(p) /\ roster' = roster /\ met' = met
      BY <2>2 DEF FixRoot, AtStep, InFlight, past
    <3>2. QED
      BY <2>2, <3>1, FixRootFacts, RanIf DEF Steps
  <2>3. ASSUME NEW a \in Accounts, FileProject(p, a, ok) PROVE Ran(p)
    <3>1. InFlight(p) /\ roster' = roster /\ met' = met
      BY <2>3 DEF FileProject, AtStep, InFlight, past
    <3>2. QED
      BY <2>3, <3>1, EndSteps, RanIf DEF Steps
  <2>4. QED
    BY <1>6, <2>1, <2>2, <2>3 DEF HealTenants
<1>7. QED
  BY <1>1, <1>2, <1>3, <1>4, <1>5, <1>6, MirrorRan, CopyRan DEF Acts

LEMMA IdsFacts ==
  /\ \A a \in Accounts \cup {Owner} : Here(a) \in Ids /\ There(a) \in Ids
  /\ NoId \notin Ids
  /\ \A a, b : Here(a) # There(b) /\ (Here(a) = Here(b) => a = b)
  /\ \A a, b : There(a) = There(b) => a = b
BY NamesAssumption DEF Here, There, Ids, NoId

LEMMA TranslateTyped ==
  ASSUME PanelTypes, NEW p \in Passes, NEW a \in Accounts \cup {Owner}
  PROVE  Translate(pass[p].map, a) \in Ids
<1>1. pass[p].map \in Tables(Accounts \cup {Owner}, Accounts \cup {Owner})
  BY HeldTyped
<1>2. \A x \in DOMAIN pass[p].map : pass[p].map[x] \in Accounts \cup {Owner}
  BY <1>1, TableFacts
<1>3. QED
  BY <1>2, IdsFacts DEF Translate

LEMMA SetTenantTyped ==
  ASSUME PanelTypes, NEW a \in Accounts, NEW id \in Ids
  PROVE  /\ SetTenant(a, id) \in Tables(Accounts, Ids \cup {NoId})
         /\ DOMAIN SetTenant(a, id) = Present
         /\ \A x \in Present : SetTenant(a, id)[x] = IF x = a THEN id ELSE tenant[x]
<1>1. tenant \in Tables(Accounts, Ids \cup {NoId}) /\ id \in Ids \cup {NoId}
  BY DEF PanelTypes, RowTypes
<1>2. CASE a \in Present
  BY <1>1, <1>2, ExceptTyped DEF SetTenant, Present
<1>3. CASE a \notin Present
  BY <1>1, <1>3 DEF SetTenant, Present
<1>4. QED
  BY <1>2, <1>3

LEMMA MirrorRowsTyped ==
  ASSUME PanelTypes, NEW p \in Passes, NEW ok \in BOOLEAN, MirrorRoster(p, ok)
  PROVE  RowTypes'
<1>1. CASE ReadRoster(p, ok) \/ Snapshot(p, ok)
  BY <1>1 DEF ReadRoster, Snapshot, rows, past, PanelTypes, RowTypes
<1>2. CASE UpgradeOwner(p, ok)
  BY <1>2 DEF UpgradeOwner, past, PanelTypes, RowTypes
<1>3. CASE SweepPlaceholder(p, ok)
  <2>1. tenant \in Tables(Accounts, Ids \cup {NoId})
    BY DEF PanelTypes, RowTypes
  <2>2. [a \in Present \ {Placeholder} |-> tenant[a]] \in Tables(Accounts, Ids \cup {NoId})
    BY <2>1, RestrictTyped DEF Present
  <2>3. tenant' \in Tables(Accounts, Ids \cup {NoId})
    BY <1>3, <2>1, <2>2 DEF SweepPlaceholder
  <2>4. QED
    BY <1>3, <2>3 DEF SweepPlaceholder, past, PanelTypes, RowTypes
<1>4. ASSUME NEW a \in Accounts, UpdateAccount(p, a, ok) PROVE RowTypes'
  BY <1>4 DEF UpdateAccount, rows, past, PanelTypes, RowTypes
<1>5. ASSUME NEW a \in Accounts, InsertAccount(p, a, ok) PROVE RowTypes'
  <2>1. tenant \in Tables(Accounts, Ids \cup {NoId})
    BY DEF PanelTypes, RowTypes
  <2>2. TenantOf[a] \in Accounts \cup {Owner}
    BY NamesAssumption
  <2> DEFINE id == Translate(pass[p].map, TenantOf[a])
  <2>3. id \in Ids \cup {NoId}
    BY <2>2, TranslateTyped
  <2>4. tenant' = tenant \/ tenant' = Put(tenant, a, id)
    BY <1>5 DEF InsertAccount
  <2>5. tenant' \in Tables(Accounts, Ids \cup {NoId})
    <3> HIDE DEF id
    <3> QED
      BY <2>1, <2>3, <2>4, PutTyped
  <2>6. QED
    BY <1>5, <2>5 DEF InsertAccount, past, PanelTypes, RowTypes
<1>6. ASSUME NEW a \in Accounts, FixTenant(p, a, ok) PROVE RowTypes'
  <2>1. tenant \in Tables(Accounts, Ids \cup {NoId})
    BY DEF PanelTypes, RowTypes
  <2>2. TenantOf[a] \in Accounts \cup {Owner}
    BY NamesAssumption
  <2> DEFINE id == Translate(pass[p].map, TenantOf[a])
  <2>3. id \in Ids
    BY <2>2, TranslateTyped
  <2>4. tenant' = tenant \/ tenant' = SetTenant(a, id)
    BY <1>6 DEF FixTenant
  <2>5. tenant' \in Tables(Accounts, Ids \cup {NoId})
    <3> HIDE DEF id
    <3> QED
      BY <2>1, <2>3, <2>4, SetTenantTyped
  <2>6. QED
    BY <1>6, <2>5 DEF FixTenant, past, PanelTypes, RowTypes
<1>7. QED
  BY <1>1, <1>2, <1>3, <1>4, <1>5, <1>6 DEF MirrorRoster

LEMMA CopyRowsTyped ==
  ASSUME PanelTypes, NEW p \in Passes, NEW ok \in BOOLEAN, CopyRows(p, ok)
  PROVE  RowTypes'
<1>1. /\ link \in Tables(Domains, {Nil, "source", "here", "other"})
      /\ tenant \in Tables(Accounts, Ids \cup {NoId})
      /\ Attached \in Domains /\ Alias \in Domains
      /\ Nil \in {Nil, "source", "here", "other"}
      /\ "source" \in {Nil, "source", "here", "other"}
      /\ NoId \in Ids \cup {NoId} /\ Vendor \in Accounts /\ Placeholder \in Accounts
  BY NamesAssumption DEF PanelTypes, RowTypes, Domains
<1>2. CASE ReadUsers(p, ok)
  BY <1>2 DEF ReadUsers, rows, past, PanelTypes, RowTypes
<1>3. CASE InsertDomains(p, ok)
  <2>1. Add(link, {Attached}, "source") \in Tables(Domains, {Nil, "source", "here", "other"})
    BY <1>1, AddTyped
  <2>2. link' \in Tables(Domains, {Nil, "source", "here", "other"})
    BY <1>1, <1>3, <2>1 DEF InsertDomains
  <2>3. QED
    BY <1>3, <2>2 DEF InsertDomains, past, PanelTypes, RowTypes
<1>4. CASE SyncProject(p, ok)
  <2>1. Translate(pass[p].map, Vendor) \in Ids
    BY <1>1, TranslateTyped
  <2>2. project' \in Ids \cup {NoId}
    BY <1>4, <2>1 DEF SyncProject, PanelTypes, RowTypes
  <2>3. misfiled' \in BOOLEAN
    BY <1>4 DEF SyncProject
  <2>4. QED
    BY <1>4, <2>2, <2>3 DEF SyncProject, PanelTypes, RowTypes
<1>5. CASE SyncService(p, ok)
  <2>1. service' \in {Nil, "source", "here"}
    BY <1>5 DEF SyncService, PanelTypes, RowTypes
  <2>2. alias' \in BOOLEAN
    BY <1>5 DEF SyncService
  <2>3. QED
    BY <1>5, <2>1, <2>2 DEF SyncService, past, PanelTypes, RowTypes
<1>6. CASE EnrichDomains(p, ok)
  <2>1. [link EXCEPT ![Attached] = "source"] \in Tables(Domains, {Nil, "source", "here", "other"})
    BY <1>1, ExceptTyped
  <2>2. link' \in Tables(Domains, {Nil, "source", "here", "other"})
    BY <1>1, <1>6, <2>1 DEF EnrichDomains
  <2>3. QED
    BY <1>6, <2>2 DEF EnrichDomains, past, PanelTypes, RowTypes
<1>7. CASE MaterializeDomains(p, ok)
  <2>1. Add(link, {Alias}, Nil) \in Tables(Domains, {Nil, "source", "here", "other"})
    BY <1>1, AddTyped
  <2>2. link' \in Tables(Domains, {Nil, "source", "here", "other"})
    BY <1>1, <1>7, <2>1 DEF MaterializeDomains
  <2>3. QED
    BY <1>7, <2>2 DEF MaterializeDomains, past, PanelTypes, RowTypes
<1>8. ASSUME NEW a \in Accounts, SyncUser(p, a, ok) PROVE RowTypes'
  <2>1. Here(a) \in Ids \cup {NoId}
    BY IdsFacts
  <2>2. Put(tenant, a, Here(a)) \in Tables(Accounts, Ids \cup {NoId})
    BY <1>1, <2>1, PutTyped
  <2>3. tenant' \in Tables(Accounts, Ids \cup {NoId})
    BY <1>1, <1>8, <2>2 DEF SyncUser
  <2>4. QED
    BY <1>8, <2>3 DEF SyncUser, past, PanelTypes, RowTypes
<1>9. CASE WireDomains(p, ok)
  <2> PICK wired \in SUBSET Domains, served \in SUBSET Domains :
        /\ served \subseteq wired
        /\ tenant' = IF ok /\ wired # {} /\ Picked \cap Present = {}
                     THEN Put(tenant, Placeholder, NoId) ELSE tenant
        /\ link' = Add(link, wired, Nil)
        /\ static' = (static \ wired) \cup served
        /\ proxied' = proxied \ wired
    BY <1>9 DEF WireDomains
  <2>1. Put(tenant, Placeholder, NoId) \in Tables(Accounts, Ids \cup {NoId})
    BY <1>1, PutTyped
  <2>2. Add(link, wired, Nil) \in Tables(Domains, {Nil, "source", "here", "other"})
    BY <1>1, AddTyped
  <2>3. /\ tenant' \in Tables(Accounts, Ids \cup {NoId})
        /\ link' \in Tables(Domains, {Nil, "source", "here", "other"})
    BY <1>1, <2>1, <2>2
  <2>4. static' \in SUBSET Domains /\ proxied' \in SUBSET (Domains \ static')
    BY DEF PanelTypes, RowTypes
  <2>5. QED
    BY <1>9, <2>3, <2>4 DEF WireDomains, past, PanelTypes, RowTypes
<1>10. QED
  BY <1>2, <1>3, <1>4, <1>5, <1>6, <1>7, <1>8, <1>9 DEF CopyRows

LEMMA AttachRowsTyped ==
  ASSUME PanelTypes, NEW p \in Passes, NEW ok \in BOOLEAN, AttachAlias(p, ok)
  PROVE  RowTypes'
<1>1. /\ link \in Tables(Domains, {Nil, "source", "here", "other"})
      /\ service \in {Nil, "source", "here"} /\ Alias \in Domains
  BY DEF PanelTypes, RowTypes, Domains
<1>2. CASE FindAlias(p, ok)
  BY <1>2 DEF FindAlias, rows, past, PanelTypes, RowTypes
<1>3. CASE StampLink(p, ok)
  <2>1. [link EXCEPT ![Alias] = service] \in Tables(Domains, {Nil, "source", "here", "other"})
    BY <1>1, ExceptTyped
  <2>2. link' \in Tables(Domains, {Nil, "source", "here", "other"})
    BY <1>1, <1>3, <2>1 DEF StampLink
  <2>3. QED
    BY <1>3, <2>2 DEF StampLink, past, PanelTypes, RowTypes
<1>4. CASE PullAlias(p, ok)
  <2>1. alias' \in BOOLEAN /\ lost' \in BOOLEAN
    BY <1>4 DEF PullAlias
  <2>2. QED
    BY <1>4, <2>1 DEF PullAlias, PanelTypes, RowTypes
<1>5. CASE ApplyVhost(p, ok) \/ HealProxies(p, ok)
  <2>1. \E tried \in SUBSET Domains : \E done \in SUBSET tried :
          /\ static' = static \ tried
          /\ proxied' = (proxied \ tried) \cup done \/ proxied' = proxied \cup done
    <3>1. DOMAIN link \subseteq Domains
      BY <1>1, TableFacts
    <3>2. CASE ApplyVhost(p, ok)
      BY <1>1, <3>2 DEF ApplyVhost
    <3>3. CASE HealProxies(p, ok)
      BY <3>1, <3>3 DEF HealProxies
    <3>4. QED
      BY <1>5, <3>2, <3>3
  <2>2. static' \in SUBSET Domains /\ proxied' \in SUBSET (Domains \ static')
    BY <2>1 DEF PanelTypes, RowTypes
  <2>3. QED
    BY <1>5, <2>2 DEF ApplyVhost, HealProxies, past, PanelTypes, RowTypes
<1>6. QED
  BY <1>2, <1>3, <1>4, <1>5 DEF AttachAlias

LEMMA HealVhostsTyped ==
  ASSUME PanelTypes, NEW p \in Passes, HealVhosts(p)
  PROVE  RowTypes'
<1>1. /\ link \in Tables(Domains, {Nil, "source", "here", "other"})
      /\ service \in {Nil, "source", "here"}
  BY DEF PanelTypes, RowTypes
<1>2. /\ DOMAIN link \in SUBSET Domains
      /\ \A d \in DOMAIN link : link[d] \in {Nil, "source", "here", "other"}
  BY <1>1, TableFacts
<1>3. link' \in Tables(Domains, {Nil, "source", "here", "other"})
  <2>1. PICK f : link' = [d \in DOMAIN link |-> f[d]]
    <3>1. PICK relinked, found :
            link' = [d \in DOMAIN link |-> IF d \in relinked THEN found ELSE link[d]]
      BY DEF HealVhosts
    <3>2. WITNESS [d \in DOMAIN link |-> IF d \in relinked THEN found ELSE link[d]]
    <3>3. QED
      BY <3>1
  <2>2. \A d \in DOMAIN link : link'[d] \in {Nil, "source", "here", "other"}
    BY <1>1, <1>2, HealVhostsFacts
  <2>3. link' \in [DOMAIN link -> {Nil, "source", "here", "other"}]
    BY <2>1, <2>2
  <2>4. QED
    BY <1>2, <2>3, TableIs
<1>4. /\ static' \in SUBSET Domains /\ proxied' \in SUBSET (Domains \ static')
      /\ lost' \in BOOLEAN
  <2> DEFINE bare == DOMAIN link \ (static \cup proxied)
             linked == {d \in bare : link[d] # Nil}
  <2>1. PICK made \in SUBSET bare :
          proxied' = proxied \cup (made \cap linked) /\ static' = static \cup (made \ linked)
    BY DEF HealVhosts
  <2>2. lost' \in BOOLEAN
    BY DEF HealVhosts
  <2>3. QED
    BY <1>2, <2>1, <2>2 DEF PanelTypes, RowTypes
<1>5. QED
  BY <1>3, <1>4 DEF HealVhosts, PanelTypes, RowTypes

LEMMA HealRowsTyped ==
  ASSUME PanelTypes, NEW p \in Passes, NEW ok \in BOOLEAN, HealTenants(p, ok)
  PROVE  RowTypes'
<1>1. CASE ReadTenants(p, ok)
  BY <1>1 DEF ReadTenants, rows, past, PanelTypes, RowTypes
<1>2. ASSUME NEW a \in Accounts, FixRoot(p, a, ok) PROVE RowTypes'
  <2>1. Here(a) \in Ids /\ tenant \in Tables(Accounts, Ids \cup {NoId})
    BY IdsFacts DEF PanelTypes, RowTypes
  <2>2. SetTenant(a, Here(a)) \in Tables(Accounts, Ids \cup {NoId})
    BY <2>1, SetTenantTyped
  <2>3. tenant' \in Tables(Accounts, Ids \cup {NoId})
    BY <1>2, <2>1, <2>2 DEF FixRoot
  <2>4. QED
    BY <1>2, <2>3 DEF FixRoot, past, PanelTypes, RowTypes
<1>3. ASSUME NEW a \in Accounts, FileProject(p, a, ok) PROVE RowTypes'
  <2>1. pass[p].seen \in Tables(Accounts, Ids \cup {NoId})
    BY HeldTyped
  <2>2. a \in DOMAIN pass[p].seen
    BY <1>3 DEF FileProject, OwnersSeen
  <2>3. pass[p].seen[a] \in Ids \cup {NoId}
    BY <2>1, <2>2, TableFacts
  <2>4. project' \in Ids \cup {NoId}
    BY <1>3, <2>3 DEF FileProject, PanelTypes, RowTypes
  <2>5. misfiled' \in BOOLEAN
    BY <1>3 DEF FileProject
  <2>6. QED
    BY <1>3, <2>4, <2>5 DEF FileProject, PanelTypes, RowTypes
<1>4. QED
  BY <1>1, <1>2, <1>3 DEF HealTenants

LEMMA ActsTyped ==
  ASSUME PanelTypes, NEW p \in Passes, Acts(p)
  PROVE  PanelTypes'
<1>1. CASE EndOfList(p) \/ LeaveProject(p) \/ Die(p)
  <2>1. RowTypes'
    BY <1>1 DEF EndOfList, LeaveProject, Die, rows, past, PanelTypes, RowTypes
  <2>2. QED
    BY <2>1, ActsRan DEF Ran, PanelTypes
<1>2. ASSUME NEW a \in Accounts, MapToOwner(p, a) PROVE RowTypes'
  BY <1>2 DEF MapToOwner, rows, past, PanelTypes, RowTypes
<1>3. CASE RowTypes'
  BY <1>3, ActsRan DEF Ran, PanelTypes
<1>4. QED
  BY <1>1, <1>2, <1>3, MirrorRowsTyped, CopyRowsTyped, AttachRowsTyped, HealRowsTyped,
     HealVhostsTyped DEF Acts

LEMMA BeginTyped ==
  ASSUME PanelTypes, NEW p \in Passes, NEW kind \in Kinds, BeginPass(p, kind)
  PROVE  PanelTypes'
<1>1. RowTypes' /\ roster' = roster /\ failures' = failures
  BY DEF BeginPass, rows, PanelTypes, RowTypes
<1>2. met' \in SUBSET Passes
  BY DEF BeginPass, PanelTypes
<1>3. /\ pass' \in [Passes -> PassState]
      /\ \A q \in Passes : pass'[q].step \in StepsOf(pass'[q].kind)
  <2>1. PartsOf(kind) \subseteq StepsOf(kind)
    BY DEF StepsOf, Kinds
  <2>2. QED
    BY <2>1, BeginFacts DEF PanelTypes
<1>4. QED
  BY <1>1, <1>2, <1>3 DEF PanelTypes

LEMMA NextIs ==
  ASSUME PanelNext
  PROVE  \E p \in Passes : Acts(p) \/ \E kind \in Kinds : BeginPass(p, kind)
BY DEF PanelNext, Acts

LEMMA PanelInitTyped == ASSUME PanelInit PROVE PanelTypes
<1>1. PICK known \in SUBSET {Vendor, Placeholder} :
        tenant = [a \in known |-> IF a = Vendor THEN There(Vendor) ELSE NoId]
  BY DEF PanelInit
<1>2. known \in SUBSET Accounts /\ There(Vendor) \in Ids
  BY NamesAssumption, IdsFacts
<1>3. tenant \in [known -> Ids \cup {NoId}]
  BY <1>1, <1>2
<1>4. /\ tenant \in Tables(Accounts, Ids \cup {NoId})
      /\ link \in Tables(Domains, {Nil, "source", "here", "other"})
  BY <1>2, <1>3, TableIs, EmptyTyped DEF PanelInit
<1>5. Fresh("heal", "off", TRUE) \in PassState /\ Fresh("heal", "off", TRUE).step = "off"
      /\ Fresh("heal", "off", TRUE).kind = "heal"
  <2>1. "heal" \in Kinds /\ "off" \in Steps /\ TRUE \in BOOLEAN
    BY DEF Kinds, Steps
  <2>2. Fresh("heal", "off", TRUE) \in PassState
    BY <2>1, FreshTyped
  <2>3. QED
    BY <2>2 DEF Fresh
<1>6. /\ pass \in [Passes -> PassState]
      /\ \A p \in Passes : pass[p].step = "off" /\ pass[p].kind = "heal"
  BY <1>5 DEF PanelInit
<1>7. \A p \in Passes : pass[p].step \in StepsOf(pass[p].kind)
  BY <1>6 DEF StepsOf
<1>8. mail \in Accounts \cup {Owner} /\ project \in Ids \cup {NoId}
  BY <1>2, NamesAssumption DEF PanelInit
<1>9. service \in {Nil, "source", "here"} /\ alias \in BOOLEAN
  BY DEF PanelInit
<1>10. failures \in 0 .. MaxFailures
  BY NamesAssumption DEF PanelInit
<1>11. QED
  BY <1>4, <1>6, <1>7, <1>8, <1>9, <1>10 DEF PanelInit, PanelTypes, RowTypes

\* Every variable keeps its type, whatever the passes do beside one another, and a
\* pass is only at steps of its kind.
THEOREM PanelTypesAlways == PanelSpec => []PanelTypes
<1>1. PanelInit => PanelTypes
  BY PanelInitTyped
<1>2. PanelTypes /\ [PanelNext]_panelVars => PanelTypes'
  <2>1. ASSUME PanelTypes, PanelNext PROVE PanelTypes'
    BY <2>1, NextIs, ActsTyped, BeginTyped
  <2>2. ASSUME PanelTypes, UNCHANGED panelVars PROVE PanelTypes'
    BY <2>2 DEF panelVars, rows, past, PanelTypes, RowTypes
  <2>3. QED
    BY <2>1, <2>2
<1>3. QED
  BY <1>1, <1>2, PTL DEF PanelSpec

\* The type invariant of PanelRecords holds for any accounts, tenants and passes.
THEOREM PanelTypeCorrect == PanelSpec => []PanelTypeOK
<1>1. ASSUME PanelTypes PROVE PanelTypeOK
  <2>1. /\ tenant \in Tables(Accounts, Ids \cup {NoId})
        /\ link \in Tables(Domains, {Nil, "source", "here", "other"})
    BY <1>1 DEF PanelTypes, RowTypes
  <2>2. /\ DOMAIN tenant \subseteq Accounts
        /\ \A a \in DOMAIN tenant : tenant[a] \in Ids \cup {NoId}
    BY <2>1, TableFacts
  <2>3. /\ DOMAIN link \subseteq Domains
        /\ \A d \in DOMAIN link : link[d] \in {Nil, "source", "here", "other"}
    BY <2>1, TableFacts
  <2>4. QED
    BY <1>1, <2>2, <2>3 DEF PanelTypes, RowTypes, PanelTypeOK, Present
<1>2. PanelTypes => PanelTypeOK
  BY <1>1
<1>3. QED
  BY <1>2, PanelTypesAlways, PTL

-----------------------------------------------------------------------------
(* The walk over the accounts                                              *)

LEMMA ActsMarked ==
  ASSUME PanelTypes, Marked, NEW p \in Passes, Acts(p)
  PROVE  Marked'
<1>1. Ran(p)
  BY ActsRan
<1>2. \A q \in Passes : InFlight(q)' => InFlight(q)
  BY <1>1 DEF Ran, InFlight
<1>3. QED
  BY <1>1, <1>2 DEF Ran, Marked

LEMMA BeginMarked ==
  ASSUME PanelTypes, Marked, NEW p \in Passes, NEW kind \in Kinds, BeginPass(p, kind)
  PROVE  Marked'
<1> DEFINE others == {q \in Passes : InFlight(q)}
<1>1. met' = IF others = {} THEN met ELSE met \cup others \cup {p}
  BY DEF BeginPass
<1>2. \A q \in Passes : q # p => pass'[q] = pass[q]
  BY BeginFacts
<1>3. SUFFICES ASSUME NEW q \in Passes, NEW o \in Passes, InFlight(q)', InFlight(o)', q # o
               PROVE  q \in met' /\ o \in met'
  BY DEF Marked
<1>4. CASE q # p /\ o # p
  <2>1. InFlight(q) /\ InFlight(o)
    BY <1>2, <1>3, <1>4 DEF InFlight
  <2>2. QED
    BY <1>1, <1>3, <2>1 DEF Marked
<1>5. CASE q = p
  <2>1. o \in others
    BY <1>2, <1>3, <1>5 DEF InFlight
  <2>2. QED
    BY <1>1, <1>5, <2>1
<1>6. CASE o = p
  <2>1. q \in others
    BY <1>2, <1>3, <1>6 DEF InFlight
  <2>2. QED
    BY <1>1, <1>6, <2>1
<1>7. QED
  BY <1>4, <1>5, <1>6

\* At a step with no list of accounts to mirror only what is held matters.
LEMMA WalkElsewhere ==
  ASSUME NEW p \in Passes, Walk(p), SameMap(p), Rooted(pass'[p].seen),
         pass'[p].step \notin {"files", "roster", "owner", "snapshot", "mirror", "sweep",
                               "fixup"},
         pass'[p].step = "roots" => pass'[p].todo \subseteq Roots
  PROVE  Walk(p)'
<1>1. MapPart(pass'[p])
  BY DEF Walk, MapPart, SameMap
<1>2. QED
  BY <1>1 DEF Walk, AtStep, Rooted

LEMMA WalkFresh ==
  ASSUME NEW p \in Passes, Emptied(p), pass'[p].step # "sweep"
  PROVE  Walk(p)'
<1>1. DOMAIN Empty = {}
  BY EmptyTyped
<1>2. MapPart(pass'[p]) /\ Rooted(pass'[p].seen)
  BY <1>1 DEF MapPart, Rooted, Emptied
<1>3. QED
  BY <1>2 DEF Walk, AtStep, Rooted

\* Only a step of the mirror or of the heal gives the vendor a tenant.
LEMMA RootedIf ==
  ASSUME Rooted(tenant), NEW a, NEW id, a = Vendor => id \in {There(Vendor), Here(Vendor)}
  PROVE  Rooted(Put(tenant, a, id)) /\ Rooted(SetTenant(a, id))
<1>1. Rooted(Put(tenant, a, id))
  BY DEF Rooted, Put
<1>2. Rooted(SetTenant(a, id))
  <2>1. CASE a \in Present
    <3>1. /\ DOMAIN SetTenant(a, id) = Present
          /\ \A x \in Present : SetTenant(a, id)[x] = IF x = a THEN id ELSE tenant[x]
      BY <2>1 DEF SetTenant, Present
    <3>2. QED
      BY <3>1 DEF Rooted, Present
  <2>2. CASE a \notin Present
    BY <2>2 DEF SetTenant
  <2>3. QED
    BY <2>1, <2>2
<1>3. QED
  BY <1>1, <1>2

LEMMA MirrorsWalk ==
  ASSUME NEW p \in Passes, Walk(p), NEW a \in pass[p].todo, AtStep(p, "mirror"),
         roster' = roster, MirrorsAccount(p, a)
  PROVE  Walk(p)'
<1> DEFINE map == pass[p].map
           put == Put(map, a, a)
<1>1. /\ DOMAIN put = DOMAIN map \cup {a} /\ put[a] = a
      /\ \A x \in DOMAIN map : x # a => put[x] = map[x]
  BY DEF Put
<1>2. /\ \A x \in DOMAIN map : map[x] \in {x, Owner}
      /\ pass[p].todo \cap (pass[p].pending \cup DOMAIN map) = {}
      /\ \A b \in pass[p].pending : b \in DOMAIN map /\ map[b] = b
  BY DEF Walk, MapPart, AtStep
<1>3. /\ pass'[p].map = put /\ pass'[p].todo = pass[p].todo \ {a}
      /\ pass'[p].pending = pass[p].pending \cup {a}
      /\ pass'[p].step = IF ShouldSweep(a) THEN "sweep" ELSE "mirror"
      /\ SameSeen(p)
  BY DEF MirrorsAccount, Runs
<1> HIDE DEF map, put
<1>4. \A x \in DOMAIN put : put[x] \in {x, Owner}
  BY <1>1, <1>2
<1>5. \A b \in pass[p].pending \cup {a} : b \in DOMAIN put /\ put[b] = b
  BY <1>1, <1>2
<1>6. (pass[p].todo \ {a}) \cap (pass[p].pending \cup {a} \cup DOMAIN put) = {}
  BY <1>1, <1>2
<1>7. MapPart(pass'[p])
  BY <1>3, <1>4, <1>5, <1>6 DEF MapPart
<1>8. Rooted(pass'[p].seen)
  BY <1>3 DEF Walk, SameSeen
<1>9. pass'[p].step = "sweep" => Placeholder \notin roster
  BY <1>3 DEF ShouldSweep
<1>10. QED
  BY <1>7, <1>8, <1>9 DEF Walk, AtStep, Rooted

LEMMA SkipsWalk ==
  ASSUME NEW p \in Passes, Walk(p), NEW a, NEW ok, pass[p].step \in {"mirror", "fixup"},
         SkipsAccount(p, a, ok)
  PROVE  Walk(p)'
<1>1. /\ pass'[p].map = pass[p].map /\ pass'[p].todo \subseteq pass[p].todo
      /\ pass'[p].pending = pass[p].pending /\ pass'[p].step = pass[p].step
      /\ pass'[p].seen = pass[p].seen
  BY DEF SkipsAccount, Runs, SameMap, SamePending, SameSeen
<1>2. MapPart(pass'[p])
  BY <1>1 DEF Walk, MapPart
<1>3. QED
  BY <1>1, <1>2 DEF Walk, AtStep, Rooted

LEMMA MirrorWalk ==
  ASSUME PanelTypes, Rooted(tenant), NEW p \in Passes, Walk(p), NEW ok \in BOOLEAN,
         MirrorRoster(p, ok)
  PROVE  Walk(p)' /\ Rooted(tenant')
<1>1. roster' = roster /\ MapPart(pass[p]) /\ Rooted(pass[p].seen)
  BY MirrorRan DEF Ran, Walk
<1>2. CASE ReadRoster(p, ok)
  <2>1. tenant' = tenant /\ AtStep(p, "roster")
    BY <1>2 DEF ReadRoster, rows
  <2>2. /\ SameHeld(p)
        /\ pass'[p].step = "owner" \/ pass'[p].step \in {"users", "read"}
    BY <1>2, ReadRosterFacts DEF Runs
  <2>3. Walk(p)'
    BY <1>1, <2>1, <2>2
       DEF Walk, MapPart, AtStep, Rooted, SameHeld, SameMap, SameTodo, SamePending, SameSeen
  <2>4. QED
    BY <2>1, <2>3
<1>3. CASE UpgradeOwner(p, ok)
  <2>1. tenant' = tenant /\ AtStep(p, "owner")
    BY <1>3 DEF UpgradeOwner
  <2>2. /\ pass'[p].step = "snapshot" /\ SameSeen(p) /\ SameTodo(p) /\ SamePending(p)
        /\ DOMAIN pass'[p].map \subseteq {Owner}
        /\ \A x \in DOMAIN pass'[p].map : pass'[p].map[x] = x
    BY <1>3, UpgradeOwnerFacts DEF Runs
  <2>3. MapPart(pass'[p])
    BY <1>1, <2>1, <2>2 DEF MapPart, AtStep, SameTodo, SamePending, SameSeen
  <2>4. Walk(p)'
    BY <1>1, <2>2, <2>3 DEF Walk, AtStep, Rooted, SameSeen
  <2>5. QED
    BY <2>1, <2>4
<1>4. CASE Snapshot(p, ok)
  <2>1. tenant' = tenant /\ AtStep(p, "snapshot")
    BY <1>4 DEF Snapshot, rows
  <2>2. /\ pass'[p].step = "mirror" /\ pass'[p].map = pass[p].map
        /\ pass'[p].todo = roster /\ pass'[p].pending = pass[p].pending
        /\ pass'[p].seen = tenant \/ pass'[p].seen = Empty
    BY <1>4, SnapshotFacts DEF Runs, SameMap, SamePending
  <2>3. pass[p].pending = {} /\ DOMAIN pass[p].map \subseteq {Owner}
    BY <1>1, <2>1 DEF MapPart, AtStep
  <2>4. roster \cap DOMAIN pass[p].map = {}
    BY <2>3, NamesAssumption DEF PanelTypes
  <2>5. MapPart(pass'[p])
    BY <1>1, <2>2, <2>3, <2>4 DEF MapPart
  <2>6. Rooted(Empty)
    BY EmptyTyped DEF Rooted
  <2>7. Walk(p)'
    BY <2>2, <2>5, <2>6 DEF Walk, AtStep, Rooted
  <2>8. QED
    BY <2>1, <2>7
<1>5. CASE SweepPlaceholder(p, ok)
  <2>1. AtStep(p, "sweep") /\ Rooted(tenant')
    BY <1>5 DEF SweepPlaceholder, Rooted, Present
  <2>2. pass'[p].step = "mirror" /\ SameHeld(p)
    BY <1>5, PlainSteps DEF Runs
  <2>3. Walk(p)'
    BY <1>1, <2>1, <2>2
       DEF Walk, MapPart, AtStep, Rooted, SameHeld, SameMap, SameTodo, SamePending, SameSeen
  <2>4. QED
    BY <2>1, <2>3
<1>6. ASSUME NEW a \in Accounts, UpdateAccount(p, a, ok)
      PROVE  Walk(p)' /\ Rooted(tenant')
  <2>1. tenant' = tenant /\ AtStep(p, "mirror") /\ a \in pass[p].todo
    BY <1>6 DEF UpdateAccount, rows
  <2>2. MirrorsAccount(p, a) \/ SkipsAccount(p, a, ok)
    BY <1>6, UpdateAccountFacts
  <2>3. Walk(p)'
    BY <1>1, <2>1, <2>2, MirrorsWalk, SkipsWalk DEF AtStep
  <2>4. QED
    BY <2>1, <2>3
<1>7. ASSUME NEW a \in Accounts, InsertAccount(p, a, ok)
      PROVE  Walk(p)' /\ Rooted(tenant')
  <2>1. AtStep(p, "mirror") /\ a \in pass[p].todo
    BY <1>7 DEF InsertAccount
  <2> DEFINE id == Translate(pass[p].map, TenantOf[a])
  <2>2. \/ MirrorsAccount(p, a) /\ tenant' = Put(tenant, a, id)
        \/ SkipsAccount(p, a, ok) /\ tenant' = tenant
    BY <1>7, InsertAccountFacts
  <2>3. a = Vendor => id \in {There(Vendor), Here(Vendor)}
    <3>1. a = Vendor => TenantOf[a] = Vendor
      BY NamesAssumption
    <3>2. a \notin DOMAIN pass[p].map
      BY <1>1, <2>1 DEF MapPart, AtStep
    <3>3. QED
      BY <3>1, <3>2 DEF Translate
  <2> HIDE DEF id
  <2>4. Rooted(tenant')
    BY <2>2, <2>3, RootedIf
  <2>5. Walk(p)'
    BY <1>1, <2>1, <2>2, MirrorsWalk, SkipsWalk DEF AtStep
  <2>6. QED
    BY <2>4, <2>5
<1>8. ASSUME NEW a \in Accounts, FixTenant(p, a, ok)
      PROVE  Walk(p)' /\ Rooted(tenant')
  <2> DEFINE id == Here(pass[p].map[TenantOf[a]])
  <2>1. /\ AtStep(p, "fixup") /\ SkipsAccount(p, a, ok)
        /\ tenant' = SetTenant(a, id) \/ tenant' = tenant
    BY <1>8, FixTenantFacts
  <2>2. a = Vendor => id \in {There(Vendor), Here(Vendor)}
    <3>1. a = Vendor => TenantOf[a] = Vendor
      BY NamesAssumption
    <3>2. a \in pass[p].todo
      BY <1>8 DEF FixTenant
    <3>3. pass[p].map[a] = a
      BY <1>1, <2>1, <3>2 DEF MapPart, AtStep
    <3>4. QED
      BY <3>1, <3>3
  <2> HIDE DEF id
  <2>3. Rooted(tenant')
    BY <2>1, <2>2, RootedIf
  <2>4. QED
    BY <2>1, <2>3, SkipsWalk DEF AtStep
<1>9. QED
  BY <1>2, <1>3, <1>4, <1>5, <1>6, <1>7, <1>8 DEF MirrorRoster

LEMMA CopyWalk ==
  ASSUME PanelTypes, Rooted(tenant), NEW p \in Passes, Walk(p), NEW ok \in BOOLEAN,
         CopyRows(p, ok) \/ AttachAlias(p, ok)
  PROVE  Walk(p)' /\ Rooted(tenant')
<1>1. roster' = roster /\ MapPart(pass[p]) /\ Rooted(pass[p].seen)
  BY CopyRan DEF Ran, Walk
<1>2. ASSUME /\ SameMap(p) /\ SameSeen(p) /\ tenant' = tenant
             /\ pass'[p].step \in {"sync", "project", "service", "enrich", "materialize",
                                   "attach", "stamp", "pull", "vhost", "vhosts", "read"}
      PROVE  Walk(p)' /\ Rooted(tenant')
  BY <1>1, <1>2, WalkElsewhere DEF SameSeen
<1>3. CASE ReadUsers(p, ok)
  BY <1>2, <1>3, ReadUsersFacts DEF Runs, ReadUsers, rows
<1>4. CASE InsertDomains(p, ok)
  BY <1>2, <1>4, PlainSteps DEF Runs, SameHeld, InsertDomains
<1>5. CASE SyncProject(p, ok)
  <2>1. pass[p].kind = "transfer"
    BY <1>5, KindOfStep DEF SyncProject, AtStep
  <2>2. /\ pass'[p].step = "service" /\ pass'[p].map = Empty /\ SameSeen(p)
        /\ tenant' = tenant
    BY <1>5, <2>1, SyncProjectFacts DEF Runs, SyncProject
  <2>3. MapPart(pass'[p])
    BY <2>2, EmptyTyped DEF MapPart
  <2>4. QED
    BY <1>1, <2>2, <2>3 DEF Walk, AtStep, Rooted, SameSeen
<1>6. CASE SyncService(p, ok)
  BY <1>2, <1>6, PlainSteps DEF Runs, SameHeld, SyncService
<1>7. CASE EnrichDomains(p, ok)
  BY <1>2, <1>7, PlainSteps DEF Runs, SameHeld, EnrichDomains
<1>8. CASE MaterializeDomains(p, ok)
  BY <1>2, <1>8, PlainSteps DEF Runs, SameHeld, MaterializeDomains
<1>9. CASE FindAlias(p, ok)
  BY <1>2, <1>9, FindAliasFacts DEF Runs, SameHeld, FindAlias, rows
<1>10. CASE StampLink(p, ok)
  BY <1>2, <1>10, PlainSteps DEF Runs, SameHeld, StampLink
<1>11. CASE PullAlias(p, ok)
  BY <1>2, <1>11, PlainSteps DEF Runs, SameHeld, PullAlias
<1>12. CASE ApplyVhost(p, ok)
  BY <1>2, <1>12, PlainSteps DEF Runs, SameHeld, ApplyVhost
<1>13. ASSUME NEW a \in Accounts, SyncUser(p, a, ok)
       PROVE  Walk(p)' /\ Rooted(tenant')
  <2> DEFINE found == IF mail = a THEN Owner ELSE a
  <2>1. /\ pass'[p].step = "sync" /\ SameSeen(p)
        /\ pass'[p].map = IF ok THEN Put(pass[p].map, a, found) ELSE pass[p].map
    BY <1>13, SyncUserFacts DEF Runs
  <2>2. MapPart(pass'[p])
    <3>1. \A x \in DOMAIN pass[p].map : pass[p].map[x] \in {x, Owner}
      BY <1>1 DEF MapPart
    <3>2. found \in {a, Owner}
      OBVIOUS
    <3> HIDE DEF found
    <3>3. \A x \in DOMAIN Put(pass[p].map, a, found) :
            Put(pass[p].map, a, found)[x] \in {x, Owner}
      BY <3>1, <3>2 DEF Put
    <3>4. \A x \in DOMAIN pass'[p].map : pass'[p].map[x] \in {x, Owner}
      BY <2>1, <3>1, <3>3
    <3>5. QED
      BY <2>1, <3>4 DEF MapPart
  <2>3. Walk(p)'
    BY <1>1, <2>1, <2>2 DEF Walk, AtStep, Rooted, SameSeen
  <2>4. tenant' = tenant \/ tenant' = Put(tenant, a, Here(a))
    BY <1>13 DEF SyncUser
  <2>5. QED
    BY <2>3, <2>4, RootedIf
<1>14. CASE WireDomains(p, ok)
  <2>1. AtStep(p, "files") /\ (tenant' = tenant \/ tenant' = Put(tenant, Placeholder, NoId))
    BY <1>14 DEF WireDomains
  <2>2. Placeholder # Vendor
    BY NamesAssumption
  <2>3. Rooted(tenant')
    BY <2>1, <2>2, RootedIf
  <2>4. pass'[p].step = "roster" /\ SameHeld(p)
    BY <1>14, PlainSteps DEF Runs
  <2>5. Walk(p)'
    BY <1>1, <2>1, <2>4
       DEF Walk, MapPart, AtStep, Rooted, SameHeld, SameMap, SameTodo, SamePending, SameSeen
  <2>6. QED
    BY <2>3, <2>5
<1>15. CASE HealProxies(p, ok)
  BY <1>2, <1>15, HealProxiesFacts DEF Runs, SameHeld, HealProxies
<1>16. QED
  BY <1>3, <1>4, <1>5, <1>6, <1>7, <1>8, <1>9, <1>10, <1>11, <1>12, <1>13, <1>14, <1>15
     DEF CopyRows, AttachAlias

LEMMA HealWalk ==
  ASSUME PanelTypes, Rooted(tenant), NEW p \in Passes, Walk(p), NEW ok \in BOOLEAN,
         HealTenants(p, ok)
  PROVE  Walk(p)' /\ Rooted(tenant')
<1>1. MapPart(pass[p]) /\ Rooted(pass[p].seen)
  BY DEF Walk
<1>2. CASE ReadTenants(p, ok)
  <2>1. tenant' = tenant
    BY <1>2 DEF ReadTenants, rows
  <2>2. \/ /\ pass'[p].step = "roots" /\ SameMap(p) /\ pass'[p].seen = tenant
           /\ pass'[p].todo \subseteq Roots
        \/ pass'[p].step = "over" /\ Emptied(p)
    BY <1>2, ReadTenantsFacts DEF Runs
  <2>3. QED
    BY <2>1, <2>2, WalkElsewhere, WalkFresh
<1>3. ASSUME NEW a \in Accounts, FixRoot(p, a, ok)
      PROVE  Walk(p)' /\ Rooted(tenant')
  <2>1. /\ pass'[p].step = "roots" /\ SameMap(p)
        /\ pass'[p].todo = pass[p].todo \ {a} /\ AtStep(p, "roots")
        /\ pass'[p].seen = IF ok THEN [pass[p].seen EXCEPT ![a] = Here(a)] ELSE pass[p].seen
    BY <1>3, FixRootFacts DEF Runs, FixRoot
  <2>2. Rooted([pass[p].seen EXCEPT ![a] = Here(a)])
    BY <1>1 DEF Rooted
  <2>3. Walk(p)'
    <3>1. pass'[p].todo \subseteq Roots /\ Rooted(pass'[p].seen)
      BY <1>1, <2>1, <2>2 DEF MapPart, AtStep
    <3>2. QED
      BY <2>1, <3>1, WalkElsewhere
  <2>4. tenant' = tenant \/ tenant' = SetTenant(a, Here(a))
    BY <1>3 DEF FixRoot
  <2>5. QED
    BY <2>3, <2>4, RootedIf
<1>4. ASSUME NEW a \in Accounts, FileProject(p, a, ok)
      PROVE  Walk(p)' /\ Rooted(tenant')
  <2>1. tenant' = tenant
    BY <1>4 DEF FileProject
  <2>2. pass'[p].step = "over" /\ Emptied(p)
    BY <1>4, EndSteps DEF Runs
  <2>3. QED
    BY <2>1, <2>2, WalkFresh
<1>5. QED
  BY <1>2, <1>3, <1>4 DEF HealTenants

LEMMA ActsWalk ==
  ASSUME PanelTypes, WalkInv, NEW p \in Passes, Acts(p)
  PROVE  WalkInv'
<1>1. Rooted(tenant) /\ Walk(p) /\ MapPart(pass[p]) /\ Rooted(pass[p].seen)
  BY DEF WalkInv, Walk
<1>2. CASE EndOfList(p)
  <2>1. tenant' = tenant
    BY <1>2 DEF EndOfList, rows
  <2>2. /\ SameMap(p)
        /\ \/ /\ AtStep(p, "mirror") /\ pass'[p].step = "fixup"
              /\ pass'[p].todo = pass[p].pending /\ pass'[p].seen = Empty
           \/ pass'[p].step \in {"users", "read", "domains", "child"} /\ SameSeen(p)
    BY <1>2, EndOfListFacts DEF Runs, SameHeld
  <2>3. ASSUME AtStep(p, "mirror"), pass'[p].step = "fixup",
               pass'[p].todo = pass[p].pending, pass'[p].seen = Empty
        PROVE  Walk(p)'
    <3>1. MapPart(pass'[p])
      BY <1>1, <2>2, <2>3 DEF MapPart, AtStep, SameMap
    <3>2. Rooted(pass'[p].seen)
      BY <2>3, EmptyTyped DEF Rooted
    <3>3. QED
      BY <2>3, <3>1, <3>2 DEF Walk, AtStep, Rooted
  <2>4. ASSUME pass'[p].step \in {"users", "read", "domains", "child"}, SameSeen(p)
        PROVE  Walk(p)'
    BY <1>1, <2>2, <2>4, WalkElsewhere DEF SameSeen
  <2>5. Walk(p)' /\ Rooted(tenant')
    BY <1>1, <2>1, <2>2, <2>3, <2>4
  <2>6. QED
    BY <2>5, ActsRan DEF WalkInv, Walk, Ran, AtStep, Rooted
<1>3. CASE LeaveProject(p) \/ Die(p)
  <2>1. tenant' = tenant
    BY <1>3 DEF LeaveProject, Die, rows
  <2>2. pass'[p].step \in {"over", "dead"} /\ Emptied(p)
    BY <1>3, EndSteps DEF Runs
  <2>3. Walk(p)' /\ Rooted(tenant')
    BY <1>1, <2>1, <2>2, WalkFresh
  <2>4. QED
    BY <2>3, ActsRan DEF WalkInv, Walk, Ran, AtStep, Rooted
<1>4. ASSUME NEW a \in Accounts, MapToOwner(p, a) PROVE Walk(p)' /\ Rooted(tenant')
  <2>1. tenant' = tenant /\ AtStep(p, "mirror") /\ a \in pass[p].todo
    BY <1>4 DEF MapToOwner, rows
  <2> DEFINE put == Put(pass[p].map, a, Owner)
  <2>2. /\ pass'[p].step = "mirror" /\ SameSeen(p) /\ SamePending(p)
        /\ pass'[p].todo = pass[p].todo \ {a} /\ pass'[p].map = put
    BY <1>4, MapToOwnerFacts DEF Runs
  <2>3. /\ DOMAIN put = DOMAIN pass[p].map \cup {a} /\ put[a] = Owner
        /\ \A x \in DOMAIN pass[p].map : x # a => put[x] = pass[p].map[x]
    BY DEF Put
  <2> HIDE DEF put
  <2>4. /\ \A x \in DOMAIN pass[p].map : pass[p].map[x] \in {x, Owner}
        /\ pass[p].todo \cap (pass[p].pending \cup DOMAIN pass[p].map) = {}
        /\ \A b \in pass[p].pending : b \in DOMAIN pass[p].map /\ pass[p].map[b] = b
    BY <1>1, <2>1 DEF MapPart, AtStep
  <2>5. \A x \in DOMAIN put : put[x] \in {x, Owner}
    BY <2>3, <2>4
  <2>6. \A b \in pass[p].pending : b \in DOMAIN put /\ put[b] = b
    BY <2>1, <2>3, <2>4
  <2>7. (pass[p].todo \ {a}) \cap (pass[p].pending \cup DOMAIN put) = {}
    BY <2>3, <2>4
  <2>8. MapPart(pass'[p])
    BY <2>2, <2>5, <2>6, <2>7 DEF MapPart, SamePending
  <2>9. QED
    BY <1>1, <2>1, <2>2, <2>8 DEF Walk, AtStep, Rooted, SameSeen
<1>5. ASSUME HealVhosts(p) PROVE Walk(p)' /\ Rooted(tenant')
  <2>1. tenant' = tenant
    BY <1>5 DEF HealVhosts
  <2>2. pass'[p].step = "proxy" /\ SameMap(p) /\ SameSeen(p)
    BY <1>5, HealVhostsFacts DEF Runs, SameHeld
  <2>3. QED
    BY <1>1, <2>1, <2>2, WalkElsewhere DEF SameSeen
<1>6. CASE Walk(p)' /\ Rooted(tenant')
  BY <1>6, ActsRan DEF WalkInv, Walk, Ran, AtStep, Rooted
<1>7. QED
  BY <1>1, <1>2, <1>3, <1>4, <1>5, <1>6, MirrorWalk, CopyWalk, HealWalk DEF Acts

LEMMA BeginWalk ==
  ASSUME PanelTypes, WalkInv, NEW p \in Passes, NEW kind \in Kinds, BeginPass(p, kind)
  PROVE  WalkInv'
<1>1. tenant' = tenant /\ roster' = roster
  BY DEF BeginPass, rows
<1>2. Walk(p)'
  BY BeginFacts, WalkFresh
<1>3. QED
  BY <1>1, <1>2, BeginFacts DEF WalkInv, Walk, AtStep, Rooted

-----------------------------------------------------------------------------
(* Passes that are clean and alone                                         *)

LEMMA SureBefore ==
  ASSUME PanelTypes, Marked, NEW p \in Passes, Acts(p), NEW q \in Passes, Sure(q)'
  PROVE  /\ Sure(q) /\ pass'[q].kind = pass[q].kind
         /\ q # p => pass'[q] = pass[q] /\ AtStep(q, "over")
<1>1. Ran(p)
  BY ActsRan
<1>2. CASE q = p
  BY <1>1, <1>2 DEF Ran, Sure, InFlight
<1>3. CASE q # p
  <2>1. Sure(q) /\ pass'[q] = pass[q]
    BY <1>1, <1>3 DEF Ran, Sure
  <2>2. ~InFlight(q)
    BY <1>1, <1>3, <2>1 DEF Ran, Sure, Marked
  <2>3. QED
    BY <1>3, <2>1, <2>2 DEF Sure, InFlight, AtStep
<1>4. QED
  BY <1>2, <1>3

LEMMA SureAtBegin ==
  ASSUME PanelTypes, NEW p \in Passes, NEW kind \in Kinds, BeginPass(p, kind),
         NEW q \in Passes, Sure(q)', q # p
  PROVE  Sure(q) /\ pass'[q] = pass[q] /\ AtStep(q, "over")
<1>1. met' = IF {o \in Passes : InFlight(o)} = {} THEN met
             ELSE met \cup {o \in Passes : InFlight(o)} \cup {p}
  BY DEF BeginPass
<1>2. pass'[q] = pass[q]
  BY BeginFacts
<1>3. q \notin met'
  BY DEF Sure
<1>4. q \notin met /\ ~InFlight(q)
  BY <1>1, <1>3
<1>5. QED
  BY <1>2, <1>4 DEF Sure, InFlight, AtStep

\* Once the owner has its own e-mail, no pass maps an account to the owner.
LEMMA HonestMap ==
  ASSUME NEW f, \A x \in DOMAIN f : f[x] = x, NEW a
  PROVE  \A x \in DOMAIN Put(f, a, a) : Put(f, a, a)[x] = x
BY DEF Put

LEMMA MirrorHonest ==
  ASSUME PanelTypes, NEW p \in Passes, mail = Owner, PassHonest(p), NEW ok \in BOOLEAN,
         MirrorRoster(p, ok), Walk(p)
  PROVE  mail' = Owner /\ PassHonest(p)'
<1>1. /\ pass[p].seenMail \in {Owner, Nil}
      /\ \A x \in DOMAIN pass[p].map : pass[p].map[x] = x
  BY MirrorRan DEF PassHonest, Ran
<1>2. mail' = Owner
  BY DEF MirrorRoster, ReadRoster, UpgradeOwner, Snapshot, SweepPlaceholder, UpdateAccount,
         InsertAccount, FixTenant, rows
<1>3. CASE ReadRoster(p, ok) \/ SweepPlaceholder(p, ok)
  BY <1>1, <1>2, <1>3, ReadRosterFacts, PlainSteps DEF PassHonest, SameHeld, SameMap, SameSeen
<1>4. CASE UpgradeOwner(p, ok)
  BY <1>1, <1>2, <1>4, UpgradeOwnerFacts DEF PassHonest, SameSeen
<1>5. CASE Snapshot(p, ok)
  BY <1>1, <1>2, <1>5, SnapshotFacts DEF PassHonest, SameMap
<1>6. ASSUME NEW a \in Accounts, MirrorsAccount(p, a) \/ SkipsAccount(p, a, ok)
      PROVE  PassHonest(p)'
  <2>1. pass'[p].map = pass[p].map \/ pass'[p].map = Put(pass[p].map, a, a)
    BY <1>6 DEF MirrorsAccount, SkipsAccount, SameMap
  <2>2. pass'[p].seenMail = pass[p].seenMail
    BY <1>6 DEF MirrorsAccount, SkipsAccount, SameSeen
  <2>3. \A x \in DOMAIN pass'[p].map : pass'[p].map[x] = x
    BY <1>1, <2>1, HonestMap
  <2>4. QED
    BY <1>1, <2>2, <2>3 DEF PassHonest
<1>7. QED
  BY <1>2, <1>3, <1>4, <1>5, <1>6, UpdateAccountFacts, InsertAccountFacts, FixTenantFacts
     DEF MirrorRoster

LEMMA CopyHonest ==
  ASSUME PanelTypes, NEW p \in Passes, mail = Owner, PassHonest(p), NEW ok \in BOOLEAN,
         CopyRows(p, ok) \/ AttachAlias(p, ok)
  PROVE  mail' = Owner /\ PassHonest(p)'
<1>1. /\ pass[p].seenMail \in {Owner, Nil}
      /\ \A x \in DOMAIN pass[p].map : pass[p].map[x] = x
  BY CopyRan DEF PassHonest, Ran
<1>2. mail' = Owner
  BY DEF CopyRows, AttachAlias, ReadUsers, InsertDomains, SyncProject, SyncService,
         EnrichDomains, MaterializeDomains, SyncUser, WireDomains, FindAlias, StampLink,
         PullAlias, ApplyVhost, HealProxies, rows
<1>3. ASSUME SameMap(p), SameSeen(p) PROVE PassHonest(p)'
  BY <1>1, <1>3 DEF PassHonest, SameMap, SameSeen
<1>4. CASE ReadUsers(p, ok)
  BY <1>2, <1>3, <1>4, ReadUsersFacts
<1>5. CASE SyncProject(p, ok)
  <2>1. pass[p].kind = "transfer"
    BY <1>5, KindOfStep DEF SyncProject, AtStep
  <2>2. pass'[p].map = Empty /\ SameSeen(p) /\ DOMAIN Empty = {}
    BY <1>5, <2>1, SyncProjectFacts, EmptyTyped
  <2>3. PassHonest(p)'
    BY <1>1, <2>2 DEF PassHonest, SameSeen
  <2>4. QED
    BY <1>2, <2>3
<1>6. CASE \/ InsertDomains(p, ok) \/ SyncService(p, ok) \/ EnrichDomains(p, ok)
           \/ MaterializeDomains(p, ok) \/ StampLink(p, ok) \/ PullAlias(p, ok)
           \/ ApplyVhost(p, ok)
  BY <1>2, <1>3, <1>6, PlainSteps DEF SameHeld
<1>7. CASE FindAlias(p, ok)
  BY <1>2, <1>3, <1>7, FindAliasFacts DEF SameHeld
<1>8. CASE WireDomains(p, ok) \/ HealProxies(p, ok)
  BY <1>2, <1>3, <1>8, PlainSteps, HealProxiesFacts DEF SameHeld
<1>9. ASSUME NEW a \in Accounts, SyncUser(p, a, ok) PROVE PassHonest(p)'
  <2>1. mail # a
    BY NamesAssumption
  <2>2. pass'[p].map = Put(pass[p].map, a, a) \/ pass'[p].map = pass[p].map
    BY <1>9, <2>1, SyncUserFacts
  <2>3. \A x \in DOMAIN pass'[p].map : pass'[p].map[x] = x
    BY <1>1, <2>2, HonestMap
  <2>4. pass'[p].seenMail = pass[p].seenMail
    BY <1>9, SyncUserFacts DEF SameSeen
  <2>5. QED
    BY <1>1, <2>3, <2>4 DEF PassHonest
<1>10. QED
  BY <1>2, <1>4, <1>5, <1>6, <1>7, <1>8, <1>9 DEF CopyRows, AttachAlias

LEMMA ActsHonest ==
  ASSUME PanelTypes, WalkInv, NEW p \in Passes, mail = Owner, PassHonest(p), Acts(p)
  PROVE  mail' = Owner /\ PassHonest(p)'
<1>1. Walk(p) /\ InFlight(p)
  BY ActsRan DEF WalkInv, Ran
<1>2. /\ pass[p].seenMail \in {Owner, Nil}
      /\ \A x \in DOMAIN pass[p].map : pass[p].map[x] = x
  BY <1>1 DEF PassHonest
<1>3. ASSUME SameMap(p), pass'[p].seenMail = pass[p].seenMail PROVE PassHonest(p)'
  BY <1>2, <1>3 DEF PassHonest, SameMap
<1>4. CASE EndOfList(p)
  <2>1. SameMap(p) /\ (SameSeen(p) \/ pass'[p].seenMail = Nil)
    BY <1>4, EndOfListFacts DEF SameHeld
  <2>2. mail' = mail
    BY <1>4 DEF EndOfList, rows
  <2>3. PassHonest(p)'
    BY <1>2, <2>1 DEF PassHonest, SameMap, SameSeen
  <2>4. QED
    BY <2>2, <2>3
<1>5. ASSUME Emptied(p) PROVE PassHonest(p)'
  BY <1>5, EmptyTyped DEF PassHonest, Emptied
<1>6. CASE LeaveProject(p) \/ Die(p)
  BY <1>5, <1>6, EndSteps DEF LeaveProject, Die, rows
<1>7. ASSUME NEW a \in Accounts, MapToOwner(p, a) PROVE FALSE
  BY <1>2, <1>7, NamesAssumption DEF MapToOwner
<1>8. CASE HealVhosts(p)
  BY <1>3, <1>8, HealVhostsFacts DEF HealVhosts, SameHeld, SameSeen
<1>9. ASSUME NEW ok \in BOOLEAN, HealTenants(p, ok) PROVE mail' = Owner /\ PassHonest(p)'
  <2>1. mail' = Owner
    BY <1>9 DEF HealTenants, ReadTenants, FixRoot, FileProject, rows
  <2>2. CASE ReadTenants(p, ok)
    BY <1>3, <1>5, <2>1, <2>2, ReadTenantsFacts
  <2>3. ASSUME NEW a \in Accounts, FixRoot(p, a, ok) PROVE PassHonest(p)'
    <3>1. SameMap(p) /\ pass'[p].seenMail = pass[p].seenMail
      BY <2>3, FixRootFacts
    <3>2. QED
      BY <1>3, <3>1
  <2>4. ASSUME NEW a \in Accounts, FileProject(p, a, ok) PROVE PassHonest(p)'
    BY <1>5, <2>4, EndSteps
  <2>5. QED
    BY <1>9, <2>1, <2>2, <2>3, <2>4 DEF HealTenants
<1>10. QED
  BY <1>1, <1>4, <1>6, <1>7, <1>8, <1>9, MirrorHonest, CopyHonest DEF Acts

LEMMA EarlyActs ==
  ASSUME NEW p \in Passes, Acts(p), pass[p].step \notin Late
  PROVE  \/ Die(p) \/ EndOfList(p) \/ (\E a \in Accounts : MapToOwner(p, a))
         \/ \E ok \in BOOLEAN : MirrorRoster(p, ok) \/ WireDomains(p, ok)
<1>1. ~LeaveProject(p)
  BY DEF LeaveProject, AtStep, Late
<1>2. ~HealVhosts(p)
  BY DEF HealVhosts, AtStep, Late
<1>3. ASSUME NEW ok \in BOOLEAN, AttachAlias(p, ok) \/ HealTenants(p, ok) PROVE FALSE
  BY <1>3 DEF AttachAlias, HealTenants, FindAlias, StampLink, PullAlias, ApplyVhost,
              HealProxies, ReadTenants, FixRoot, FileProject, AtStep, Late
<1>4. ASSUME NEW ok \in BOOLEAN, CopyRows(p, ok)
      PROVE  WireDomains(p, ok)
  BY <1>4 DEF CopyRows, ReadUsers, InsertDomains, SyncProject, SyncService, EnrichDomains,
              MaterializeDomains, SyncUser, AtStep, Late
<1>5. QED
  BY <1>1, <1>2, <1>3, <1>4 DEF Acts

LEMMA EarlySteps ==
  ASSUME NEW p \in Passes, Acts(p), pass[p].step \in {"files", "roster", "owner"}
  PROVE  \/ Die(p)
         \/ \E ok \in BOOLEAN : WireDomains(p, ok) \/ ReadRoster(p, ok) \/ UpgradeOwner(p, ok)
<1>1. ~EndOfList(p) /\ \A a \in Accounts : ~MapToOwner(p, a)
  BY DEF EndOfList, MapToOwner, AtStep
<1>2. ASSUME NEW ok \in BOOLEAN, MirrorRoster(p, ok)
      PROVE  ReadRoster(p, ok) \/ UpgradeOwner(p, ok)
  BY <1>2 DEF MirrorRoster, Snapshot, SweepPlaceholder, UpdateAccount, InsertAccount,
              FixTenant, AtStep
<1>3. pass[p].step \notin Late
  BY DEF Late
<1>4. QED
  BY <1>1, <1>2, <1>3, EarlyActs

\* The pass that becomes sure of the owner is alone, and has just begun to look.
LEMMA UpgradesOwner ==
  ASSUME PanelTypes, Marked, WalkInv, NEW p \in Passes, Acts(p), Upgraded(p)', ~Upgraded(p)
  PROVE  mail' = Owner /\ \A q \in Passes : PassHonest(q)'
<1>1. Ran(p) /\ Sure(p) /\ Mirrors(p)
  BY ActsRan, SureBefore DEF Upgraded, Mirrors
<1>2. pass[p].step \in {"files", "roster", "owner"}
  <2>1. pass[p].step \in Steps /\ pass[p].step \notin {"off", "dead", "over"}
    BY <1>1, HeldTyped DEF Ran, InFlight
  <2>2. QED
    BY <1>1, <2>1 DEF Steps, Upgraded, Settled, Late
<1>3. pass'[p].clean /\ pass'[p].step \in {"snapshot", "mirror", "sweep", "fixup"} \cup Settled
  BY DEF Upgraded, Sure
<1>4. ~Die(p)
  BY <1>3, EndSteps
<1>5. ASSUME NEW ok \in BOOLEAN, ReadRoster(p, ok) PROVE FALSE
  <2>1. (ok /\ Runs(p, TRUE, "owner")) \/ \E step : Runs(p, FALSE, step)
    BY <1>5, ReadRosterFacts
  <2>2. pass'[p].step = "owner" \/ ~pass'[p].clean
    BY <2>1 DEF Runs
  <2>3. QED
    BY <1>3, <2>2 DEF Settled, Late
<1>6. ASSUME NEW ok \in BOOLEAN, WireDomains(p, ok) PROVE FALSE
  <2>1. pass'[p].step = "roster"
    BY <1>6, PlainSteps DEF Runs
  <2>2. QED
    BY <1>3, <2>1 DEF Settled, Late
<1>7. PICK ok \in BOOLEAN : UpgradeOwner(p, ok)
  BY <1>2, <1>4, <1>5, <1>6, EarlySteps
<1>8. /\ ok /\ pass'[p].step = "snapshot" /\ SameSeen(p)
      /\ \A x \in DOMAIN pass'[p].map : pass'[p].map[x] = x
  BY <1>3, <1>7, UpgradeOwnerFacts DEF Runs
<1>9. mail' = Owner /\ AtStep(p, "owner")
  BY <1>7, <1>8 DEF UpgradeOwner
<1>10. pass[p].seenMail = Nil
  BY <1>9 DEF WalkInv, Walk, MapPart, AtStep
<1>11. PassHonest(p)'
  BY <1>8, <1>10 DEF PassHonest, SameSeen
<1>12. ASSUME NEW q \in Passes, q # p PROVE PassHonest(q)'
  <2>1. ~InFlight(q) /\ pass'[q] = pass[q]
    BY <1>1, <1>12 DEF Ran, Marked, Sure
  <2>2. QED
    BY <2>1 DEF PassHonest, InFlight
<1>13. QED
  BY <1>9, <1>11, <1>12

LEMMA ActsHonestInv ==
  ASSUME PanelTypes, Marked, WalkInv, HonestInv, NEW p \in Passes, Acts(p)
  PROVE  HonestInv'
<1>1. SUFFICES ASSUME NEW q \in Passes, Upgraded(q)'
               PROVE  mail' = Owner /\ \A o \in Passes : PassHonest(o)'
  BY DEF HonestInv
<1>2. /\ Sure(q) /\ pass'[q].kind = pass[q].kind
      /\ q # p => pass'[q] = pass[q] /\ AtStep(q, "over")
  BY <1>1, SureBefore DEF Upgraded
<1>3. CASE Upgraded(q)
  <2>1. mail = Owner /\ \A o \in Passes : PassHonest(o)
    BY <1>3 DEF HonestInv
  <2>2. mail' = Owner /\ PassHonest(p)'
    BY <2>1, ActsHonest
  <2>3. ASSUME NEW o \in Passes, o # p PROVE PassHonest(o)'
    <3>1. pass'[o] = pass[o]
      BY <2>3, ActsRan DEF Ran
    <3>2. QED
      BY <2>1, <3>1 DEF PassHonest, InFlight
  <2>4. QED
    BY <2>2, <2>3
<1>4. CASE ~Upgraded(q)
  <2>1. Mirrors(q)
    BY <1>1, <1>2 DEF Upgraded, Mirrors
  <2>2. q = p
    BY <1>2, <1>4, <2>1 DEF Upgraded, Settled, AtStep
  <2>3. QED
    BY <1>1, <1>4, <2>2, UpgradesOwner
<1>5. QED
  BY <1>3, <1>4

LEMMA BeginHonestInv ==
  ASSUME PanelTypes, HonestInv, NEW p \in Passes, NEW kind \in Kinds, BeginPass(p, kind)
  PROVE  HonestInv'
<1>1. SUFFICES ASSUME NEW q \in Passes, Upgraded(q)'
               PROVE  mail' = Owner /\ \A o \in Passes : PassHonest(o)'
  BY DEF HonestInv
<1>2. q # p
  <2>1. /\ pass'[p].kind = kind /\ pass'[p].step \in {"files", "roster", "read"}
        /\ pass'[p].step = "read" => kind = "heal"
    BY BeginFacts
  <2>2. QED
    BY <1>1, <2>1 DEF Upgraded, Mirrors, Settled, Late
<1>3. Upgraded(q)
  BY <1>1, <1>2, SureAtBegin DEF Upgraded, Mirrors, AtStep
<1>4. mail' = mail /\ mail = Owner /\ \A o \in Passes : PassHonest(o)
  BY <1>3 DEF HonestInv, BeginPass, rows
<1>5. Emptied(p) /\ DOMAIN Empty = {}
  BY BeginFacts, EmptyTyped
<1>6. PassHonest(p)'
  BY <1>5 DEF PassHonest, Emptied
<1>7. ASSUME NEW o \in Passes, o # p PROVE PassHonest(o)'
  <2>1. pass'[o] = pass[o]
    BY <1>7, BeginFacts
  <2>2. QED
    BY <1>4, <2>1 DEF PassHonest, InFlight
<1>8. QED
  BY <1>4, <1>6, <1>7

-----------------------------------------------------------------------------
(* The accounts                                                            *)

\* Nothing takes an account of the source out of its tenant again.
LEMMA WhoSetsTenants ==
  ASSUME NEW p \in Passes, Acts(p)
  PROVE  \/ tenant' = tenant
         \/ \E ok \in BOOLEAN :
              \/ SweepPlaceholder(p, ok) \/ WireDomains(p, ok)
              \/ \E a \in Accounts : \/ InsertAccount(p, a, ok) \/ FixTenant(p, a, ok)
                                     \/ SyncUser(p, a, ok) \/ FixRoot(p, a, ok)
<1>1. CASE EndOfList(p) \/ LeaveProject(p) \/ Die(p)
  BY <1>1 DEF EndOfList, LeaveProject, Die, rows
<1>2. CASE (\E a \in Accounts : MapToOwner(p, a)) \/ HealVhosts(p)
  BY <1>2 DEF MapToOwner, HealVhosts, rows
<1>3. ASSUME NEW ok \in BOOLEAN, MirrorRoster(p, ok)
      PROVE  \/ tenant' = tenant \/ SweepPlaceholder(p, ok)
             \/ \E a \in Accounts : InsertAccount(p, a, ok) \/ FixTenant(p, a, ok)
  BY <1>3 DEF MirrorRoster, ReadRoster, UpgradeOwner, Snapshot, UpdateAccount, rows
<1>4. ASSUME NEW ok \in BOOLEAN, CopyRows(p, ok) \/ AttachAlias(p, ok)
      PROVE  \/ tenant' = tenant \/ WireDomains(p, ok)
             \/ \E a \in Accounts : SyncUser(p, a, ok)
  BY <1>4 DEF CopyRows, ReadUsers, InsertDomains, SyncProject, SyncService, EnrichDomains,
              MaterializeDomains, AttachAlias, FindAlias, StampLink, PullAlias,
              ApplyVhost, HealProxies, rows
<1>5. ASSUME NEW ok \in BOOLEAN, HealTenants(p, ok)
      PROVE  tenant' = tenant \/ \E a \in Accounts : FixRoot(p, a, ok)
  BY <1>5 DEF HealTenants, ReadTenants, FileProject, rows
<1>6. QED
  BY <1>1, <1>2, <1>3, <1>4, <1>5 DEF Acts

\* The row of an account is still there, with its tenant or with the right one.
Keeps(a) == a \in DOMAIN tenant' /\ tenant'[a] \in {tenant[a], Here(TenantOf[a])}

LEMMA KeepsIf ==
  ASSUME NEW a \in Present
  PROVE  /\ \A b, id : tenant' = Put(tenant, b, id) /\ a # b => Keeps(a)
         /\ \A b, id : tenant' = SetTenant(b, id) /\ (a = b => id = Here(TenantOf[a])) =>
              Keeps(a)
<1>1. ASSUME NEW b, NEW id, tenant' = Put(tenant, b, id), a # b PROVE Keeps(a)
  BY <1>1 DEF Keeps, Put, Present
<1>2. ASSUME NEW b, NEW id, tenant' = SetTenant(b, id), a = b => id = Here(TenantOf[a])
      PROVE  Keeps(a)
  BY <1>2 DEF Keeps, SetTenant, Present
<1>3. QED
  BY <1>1, <1>2

LEMMA PlacedStays ==
  ASSUME PanelTypes, NEW p \in Passes, Walk(p), mail = Owner, PassHonest(p), Acts(p),
         \A a \in roster : Placed(a)
  PROVE  \A a \in roster : Placed(a)'
<1>1. Ran(p) /\ roster' = roster /\ InFlight(p)
  BY ActsRan DEF Ran
<1>2. /\ \A x \in DOMAIN pass[p].map : pass[p].map[x] = x
      /\ AtStep(p, "sweep") => Placeholder \notin roster
      /\ AtStep(p, "roots") => pass[p].todo \subseteq Roots
  BY <1>1 DEF PassHonest, Walk, MapPart, AtStep
<1>3. SUFFICES ASSUME NEW a \in roster PROVE Keeps(a)
  BY <1>1 DEF Keeps, Placed, Present
<1>4. a \in Present /\ a \in Accounts
  BY DEF Placed, PanelTypes
<1>5. CASE tenant' = tenant
  BY <1>4, <1>5 DEF Keeps, Present
<1>6. ASSUME NEW ok \in BOOLEAN, SweepPlaceholder(p, ok) PROVE Keeps(a)
  <2>1. a # Placeholder
    BY <1>2, <1>6 DEF SweepPlaceholder
  <2>2. tenant' = tenant \/ tenant' = [b \in Present \ {Placeholder} |-> tenant[b]]
    BY <1>6 DEF SweepPlaceholder
  <2>3. QED
    BY <1>4, <2>1, <2>2 DEF Keeps, Present
<1>7. ASSUME NEW ok \in BOOLEAN, WireDomains(p, ok) PROVE Keeps(a)
  <2>1. Placeholder \in Picked
    BY NamesAssumption
  <2>2. tenant' = tenant \/ (a # Placeholder /\ tenant' = Put(tenant, Placeholder, NoId))
    BY <1>4, <1>7, <2>1 DEF WireDomains
  <2>3. QED
    BY <1>4, <1>5, <2>2, KeepsIf
<1>8. ASSUME NEW ok \in BOOLEAN, NEW b \in Accounts, InsertAccount(p, b, ok) \/ SyncUser(p, b, ok)
      PROVE  Keeps(a)
  <2>1. tenant' = tenant \/ (a # b /\ \E id : tenant' = Put(tenant, b, id))
    BY <1>4, <1>8 DEF InsertAccount, SyncUser, Taken
  <2>2. QED
    BY <1>4, <1>5, <2>1, KeepsIf
<1>9. ASSUME NEW ok \in BOOLEAN, NEW b \in Accounts, FixTenant(p, b, ok) PROVE Keeps(a)
  <2>1. tenant' = tenant \/ tenant' = SetTenant(b, Here(TenantOf[b]))
    BY <1>2, <1>9, FixTenantFacts
  <2>2. QED
    BY <1>4, <1>5, <2>1, KeepsIf
<1>10. ASSUME NEW ok \in BOOLEAN, NEW b \in Accounts, FixRoot(p, b, ok) PROVE Keeps(a)
  <2>1. TenantOf[b] = b
    BY <1>2, <1>10, NamesAssumption DEF FixRoot
  <2>2. tenant' = tenant \/ tenant' = SetTenant(b, Here(TenantOf[b]))
    BY <1>10, <2>1 DEF FixRoot
  <2>3. QED
    BY <1>4, <1>5, <2>2, KeepsIf
<1>11. QED
  BY <1>5, <1>6, <1>7, <1>8, <1>9, <1>10, WhoSetsTenants

\* From the steps after the mirror a pass goes on to such steps, or ends.
LEMMA LateStays ==
  ASSUME PanelTypes, NEW p \in Passes, Acts(p), pass[p].step \in Late
  PROVE  pass'[p].step \in Settled \cup {"dead"}
<1>1. CASE EndOfList(p)
  <2>1. pass[p].step \in {"sync", "roots"}
    BY <1>1 DEF EndOfList, Late
  <2>2. pass'[p].step \in {"domains", "child"}
    BY <1>1, <2>1, EndOfListFacts DEF Runs, AtStep
  <2>3. QED
    BY <2>2 DEF Settled, Late
<1>2. CASE LeaveProject(p) \/ Die(p)
  BY <1>2, EndSteps DEF Runs, Settled
<1>3. ASSUME NEW a \in Accounts, MapToOwner(p, a) PROVE FALSE
  BY <1>3 DEF MapToOwner, AtStep, Late
<1>4. ASSUME HealVhosts(p) PROVE pass'[p].step = "proxy"
  BY <1>4, HealVhostsFacts DEF Runs
<1>5. ASSUME NEW ok \in BOOLEAN, MirrorRoster(p, ok) PROVE FALSE
  BY <1>5 DEF MirrorRoster, ReadRoster, UpgradeOwner, Snapshot, SweepPlaceholder,
              UpdateAccount, InsertAccount, FixTenant, AtStep, Late
<1>6. ASSUME NEW ok \in BOOLEAN, CopyRows(p, ok) PROVE pass'[p].step \in Late
  <2>1. CASE ReadUsers(p, ok)
    BY <2>1, ReadUsersFacts DEF Runs, Late
  <2>2. CASE SyncProject(p, ok)
    <3>1. pass[p].kind = "transfer"
      BY <2>2, KindOfStep DEF SyncProject, AtStep
    <3>2. QED
      BY <2>2, <3>1, SyncProjectFacts DEF Runs, Late
  <2>3. CASE \/ InsertDomains(p, ok) \/ SyncService(p, ok) \/ EnrichDomains(p, ok)
             \/ MaterializeDomains(p, ok)
    BY <2>3, PlainSteps DEF Runs, Late
  <2>4. ASSUME NEW a \in Accounts, SyncUser(p, a, ok) PROVE pass'[p].step = "sync"
    BY <2>4, SyncUserFacts DEF Runs
  <2>5. ~WireDomains(p, ok)
    BY DEF WireDomains, AtStep, Late
  <2>6. QED
    BY <1>6, <2>1, <2>2, <2>3, <2>4, <2>5 DEF CopyRows, Late
<1>7. ASSUME NEW ok \in BOOLEAN, AttachAlias(p, ok) PROVE pass'[p].step \in Late
  BY <1>7, PlainSteps, FindAliasFacts, HealProxiesFacts DEF AttachAlias, Runs, Late
<1>8. ASSUME NEW ok \in BOOLEAN, HealTenants(p, ok) PROVE pass'[p].step \in Settled
  <2>1. CASE ReadTenants(p, ok)
    BY <2>1, ReadTenantsFacts DEF Runs, Settled, Late
  <2>2. ASSUME NEW a \in Accounts, FixRoot(p, a, ok) PROVE pass'[p].step = "roots"
    BY <2>2, FixRootGoes
  <2>3. ASSUME NEW a \in Accounts, FileProject(p, a, ok) PROVE pass'[p].step = "over"
    BY <2>3, EndSteps DEF Runs
  <2>4. QED
    BY <1>8, <2>1, <2>2, <2>3 DEF HealTenants, Settled, Late
<1>9. QED
  BY <1>1, <1>2, <1>3, <1>4, <1>5, <1>6, <1>7, <1>8 DEF Acts, Settled, Late

\* Before its look at the accounts is taken up, a pass has only to know the owner.
LEMMA RosterBegins ==
  ASSUME PanelTypes, NEW p \in Passes, Walk(p), mail = Owner \/ ~AtStep(p, "snapshot"),
         RosterPart(p), NEW ok \in BOOLEAN, pass'[p].clean,
         \/ ReadRoster(p, ok) \/ UpgradeOwner(p, ok) \/ Snapshot(p, ok)
         \/ WireDomains(p, ok)
  PROVE  RosterPart(p)'
<1>1. CASE ReadRoster(p, ok)
  <2>1. pass'[p].step = "owner"
    BY <1>1, ReadRosterFacts DEF Runs
  <2>2. QED
    BY <2>1 DEF RosterPart, AtStep, Settled, Late
<1>2. CASE UpgradeOwner(p, ok)
  <2>1. pass'[p].step = "snapshot" /\ DOMAIN pass'[p].map = {Owner}
    BY <1>2, UpgradeOwnerFacts DEF Runs
  <2>2. QED
    BY <2>1 DEF RosterPart, AtStep, Settled, Late
<1>3. CASE Snapshot(p, ok)
  <2>1. AtStep(p, "snapshot") /\ tenant' = tenant /\ roster' = roster
    BY <1>3 DEF Snapshot, rows
  <2>2. /\ pass'[p].step = "mirror" /\ pass'[p].map = pass[p].map
        /\ pass'[p].pending = pass[p].pending /\ pass'[p].todo = roster
        /\ pass'[p].seen = tenant /\ pass'[p].seenMail = Owner
    BY <1>3, <2>1, SnapshotFacts DEF Runs, SameMap, SamePending
  <2>3. pass[p].pending = {} /\ DOMAIN pass[p].map = {Owner}
    BY <2>1 DEF Walk, MapPart, RosterPart, AtStep
  <2>4. MirroredSoFar(p)'
    BY <2>1, <2>2, <2>3 DEF MirroredSoFar, Present
  <2>5. QED
    BY <2>2, <2>4 DEF RosterPart, AtStep, Settled, Late
<1>4. CASE WireDomains(p, ok)
  <2>1. pass'[p].step = "roster"
    BY <1>4, PlainSteps DEF Runs
  <2>2. QED
    BY <2>1 DEF RosterPart, AtStep, Settled, Late
<1>5. QED
  BY <1>1, <1>2, <1>3, <1>4

\* An account is mirrored, and has a row from then on.
LEMMA MirroredStep ==
  ASSUME NEW p \in Passes, MirroredSoFar(p), NEW a \in pass[p].todo, MirrorsAccount(p, a),
         roster' = roster, Present' = Present \cup {a}
  PROVE  RosterPart(p)'
<1>1. /\ pass'[p].map = Put(pass[p].map, a, a) /\ pass'[p].todo = pass[p].todo \ {a}
      /\ pass'[p].pending = pass[p].pending \cup {a}
      /\ pass'[p].seen = pass[p].seen /\ pass'[p].seenMail = pass[p].seenMail
      /\ pass'[p].step \in {"mirror", "sweep"}
  BY DEF MirrorsAccount, Runs, SameSeen
<1>2. DOMAIN pass'[p].map = DOMAIN pass[p].map \cup {a}
  BY <1>1 DEF Put
<1>3. MirroredSoFar(p)'
  <2>1. /\ pass[p].seenMail = Owner /\ pass[p].todo \subseteq roster
        /\ pass[p].pending = roster \ pass[p].todo /\ pass[p].pending \subseteq Present
        /\ DOMAIN pass[p].map = {Owner} \cup pass[p].pending
        /\ \A b \in pass[p].todo : b \in Present <=> b \in DOMAIN pass[p].seen
    BY DEF MirroredSoFar
  <2>2. pass'[p].pending = roster \ pass'[p].todo
    BY <1>1, <2>1
  <2>3. \A b \in pass'[p].todo : b \in Present' <=> b \in DOMAIN pass'[p].seen
    BY <1>1, <2>1
  <2>4. DOMAIN pass'[p].map = {Owner} \cup pass'[p].pending
    BY <1>1, <1>2, <2>1
  <2>5. QED
    BY <1>1, <2>1, <2>2, <2>3, <2>4 DEF MirroredSoFar
<1>4. QED
  BY <1>1, <1>3 DEF RosterPart, AtStep, Settled, Late

LEMMA RosterMirrors ==
  ASSUME PanelTypes, NEW p \in Passes, Walk(p), mail = Owner, pass'[p].clean,
         pass[p].step \in {"mirror", "sweep"}, RosterPart(p), NEW ok \in BOOLEAN,
         MirrorRoster(p, ok)
  PROVE  RosterPart(p)'
<1>1. MirroredSoFar(p) /\ roster' = roster
  BY MirrorRan DEF RosterPart, Ran
<1>2. CASE SweepPlaceholder(p, ok)
  <2>1. Placeholder \notin roster
    BY <1>2 DEF Walk, SweepPlaceholder
  <2>2. Present' = Present \/ Present' = Present \ {Placeholder}
    BY <1>2 DEF SweepPlaceholder, Present
  <2>3. pass'[p].step = "mirror" /\ SameHeld(p)
    BY <1>2, PlainSteps DEF Runs
  <2>4. MirroredSoFar(p)'
    BY <1>1, <2>1, <2>2, <2>3
       DEF MirroredSoFar, SameHeld, SameMap, SameSeen, SameTodo, SamePending
  <2>5. QED
    BY <2>3, <2>4 DEF RosterPart, AtStep, Settled, Late
<1>3. ASSUME NEW a \in Accounts, UpdateAccount(p, a, ok) PROVE RosterPart(p)'
  <2>1. MirrorsAccount(p, a)
    BY <1>3, UpdateAccountFacts DEF SkipsAccount, Runs
  <2>2. a \in pass[p].todo /\ a \in DOMAIN pass[p].seen /\ tenant' = tenant
    BY <1>3 DEF UpdateAccount, rows
  <2>3. Present' = Present \cup {a}
    BY <1>1, <2>2 DEF MirroredSoFar, Present
  <2>4. QED
    BY <1>1, <2>1, <2>2, <2>3, MirroredStep
<1>4. ASSUME NEW a \in Accounts, InsertAccount(p, a, ok) PROVE RosterPart(p)'
  <2>1. a \in pass[p].todo /\ a \notin DOMAIN pass[p].seen
    BY <1>4 DEF InsertAccount
  <2>2. ~Taken(a)
    BY <1>1, <2>1, NamesAssumption DEF MirroredSoFar, Taken
  <2>3. MirrorsAccount(p, a) /\ tenant' = Put(tenant, a, Translate(pass[p].map, TenantOf[a]))
    BY <1>4, <2>2, InsertAccountFacts DEF SkipsAccount, Runs
  <2>4. Present' = Present \cup {a}
    BY <2>3 DEF Put, Present
  <2>5. QED
    BY <1>1, <2>1, <2>3, <2>4, MirroredStep
<1>5. QED
  BY <1>2, <1>3, <1>4 DEF MirrorRoster, ReadRoster, UpgradeOwner, Snapshot, FixTenant, AtStep

LEMMA RosterFixes ==
  ASSUME PanelTypes, NEW p \in Passes, pass'[p].clean, PassHonest(p), RosterPart(p),
         NEW a \in Accounts, NEW ok \in BOOLEAN, FixTenant(p, a, ok)
  PROVE  RosterPart(p)'
<1>1. AtStep(p, "fixup") /\ a \in pass[p].todo /\ roster' = roster
  BY DEF FixTenant
<1>2. /\ pass[p].todo \subseteq roster /\ DOMAIN pass[p].map = {Owner} \cup roster
      /\ roster \subseteq Present /\ \A b \in roster \ pass[p].todo : Placed(b)
  BY <1>1 DEF RosterPart, FixedSoFar
<1>3. /\ pass'[p].step = "fixup" /\ ok /\ pass'[p].map = pass[p].map
      /\ pass'[p].todo = pass[p].todo \ {a}
  BY <1>1, FixTenantFacts DEF SkipsAccount, Runs, SameMap, AtStep
<1>4. \/ TenantOf[a] \in DOMAIN pass[p].map /\ tenant' = SetTenant(a, Here(TenantOf[a]))
      \/ TenantOf[a] \notin DOMAIN pass[p].map /\ tenant' = tenant
  <2>1. InFlight(p)
    BY <1>1 DEF InFlight, AtStep
  <2>2. TenantOf[a] \in DOMAIN pass[p].map => pass[p].map[TenantOf[a]] = TenantOf[a]
    BY <2>1 DEF PassHonest
  <2>3. QED
    BY <1>3, <2>2, FixTenantFacts
<1>5. /\ Present' = Present
      /\ \A b \in roster : b # a => tenant'[b] = tenant[b]
      /\ TenantOf[a] \in DOMAIN pass[p].map => tenant'[a] = Here(TenantOf[a])
  BY <1>1, <1>2, <1>4 DEF SetTenant, Present
<1>6. Placed(a)'
  BY <1>1, <1>2, <1>5 DEF Placed
<1>7. \A b \in roster \ pass'[p].todo : Placed(b)'
  <2>1. ASSUME NEW b \in roster \ pass'[p].todo, b # a PROVE Placed(b)'
    BY <1>1, <1>2, <1>3, <1>5, <2>1 DEF Placed
  <2>2. QED
    BY <1>6, <2>1
<1>8. FixedSoFar(p)'
  BY <1>1, <1>2, <1>3, <1>5, <1>7 DEF FixedSoFar
<1>9. QED
  BY <1>3, <1>8 DEF RosterPart, AtStep, Settled, Late

LEMMA RosterEndsList ==
  ASSUME PanelTypes, NEW p \in Passes, RosterPart(p), EndOfList(p), pass[p].step \notin Late
  PROVE  RosterPart(p)'
<1>1. roster' = roster /\ tenant' = tenant /\ pass[p].todo = {} /\ SameMap(p)
  BY EndOfListFacts DEF EndOfList, rows
<1>2. CASE AtStep(p, "mirror")
  <2>1. pass'[p].step = "fixup" /\ pass'[p].todo = pass[p].pending
    BY <1>2, EndOfListFacts DEF Runs, AtStep
  <2>2. MirroredSoFar(p)
    BY <1>2 DEF RosterPart, AtStep
  <2>3. FixedSoFar(p)'
    BY <1>1, <2>1, <2>2 DEF FixedSoFar, MirroredSoFar, SameMap, Present
  <2>4. QED
    BY <2>1, <2>3 DEF RosterPart, AtStep, Settled, Late
<1>3. CASE AtStep(p, "fixup")
  <2>1. \A a \in roster : Placed(a)
    BY <1>1, <1>3 DEF RosterPart, FixedSoFar
  <2>2. \A a \in roster : Placed(a)'
    BY <1>1, <2>1 DEF Placed, Present
  <2>3. pass'[p].step \in {"users", "read"}
    BY <1>3, EndOfListFacts DEF Runs, AtStep
  <2>4. QED
    BY <1>1, <2>2, <2>3 DEF RosterPart, AtStep
<1>4. QED
  BY <1>2, <1>3 DEF EndOfList, AtStep, Late

\* The acting pass.
LEMMA ActsRosterPart ==
  ASSUME PanelTypes, WalkInv, HonestInv, NEW p \in Passes, Acts(p), Mirrors(p), Sure(p),
         RosterPart(p), Sure(p)'
  PROVE  RosterPart(p)'
<1>1. Walk(p) /\ Ran(p) /\ pass'[p].clean /\ pass'[p].step # "dead"
  BY ActsRan DEF WalkInv, Sure
<1>2. pass[p].step \in {"snapshot", "mirror", "sweep", "fixup"} \cup Settled =>
        mail = Owner /\ PassHonest(p)
  BY DEF HonestInv, Upgraded
<1>3. CASE pass[p].step \in Late
  <2>1. \A a \in roster : Placed(a)
    BY <1>3 DEF RosterPart, Settled
  <2>2. mail = Owner /\ PassHonest(p)
    BY <1>2, <1>3 DEF Settled
  <2>3. \A a \in roster : Placed(a)'
    BY <1>1, <2>1, <2>2, PlacedStays
  <2>4. pass'[p].step \in Settled /\ roster' = roster
    BY <1>1, <1>3, LateStays DEF Ran
  <2>5. QED
    BY <2>3, <2>4 DEF RosterPart, AtStep, Settled, Late
<1>4. CASE pass[p].step \notin Late
  <2>1. ~Die(p)
    BY <1>1, EndSteps
  <2>2. ASSUME NEW a \in Accounts, MapToOwner(p, a) PROVE FALSE
    <3>1. AtStep(p, "mirror") /\ a = pass[p].seenMail
      BY <2>2 DEF MapToOwner
    <3>2. pass[p].seenMail = Owner
      BY <3>1 DEF RosterPart, MirroredSoFar, AtStep
    <3>3. QED
      BY <3>1, <3>2, NamesAssumption
  <2>3. ASSUME NEW ok \in BOOLEAN, MirrorRoster(p, ok) PROVE RosterPart(p)'
    <3>1. CASE ReadRoster(p, ok) \/ UpgradeOwner(p, ok) \/ Snapshot(p, ok)
      <4>1. mail = Owner \/ ~AtStep(p, "snapshot")
        BY <1>2 DEF AtStep
      <4>2. QED
        BY <1>1, <3>1, <4>1, RosterBegins
    <3>2. CASE pass[p].step \in {"mirror", "sweep"}
      BY <1>1, <1>2, <2>3, <3>2, RosterMirrors
    <3>3. ASSUME NEW a \in Accounts, FixTenant(p, a, ok) PROVE RosterPart(p)'
      <4>1. PassHonest(p)
        BY <1>2, <3>3 DEF FixTenant, AtStep
      <4>2. QED
        BY <1>1, <3>3, <4>1, RosterFixes
    <3>4. QED
      BY <2>3, <3>1, <3>2, <3>3 DEF MirrorRoster, SweepPlaceholder, UpdateAccount,
                                    InsertAccount, AtStep
  <2>4. ASSUME NEW ok \in BOOLEAN, WireDomains(p, ok) PROVE RosterPart(p)'
    <3>1. ~AtStep(p, "snapshot")
      BY <2>4 DEF WireDomains, AtStep
    <3>2. QED
      BY <1>1, <2>4, <3>1, RosterBegins
  <2>5. QED
    BY <1>4, <2>1, <2>2, <2>3, <2>4, EarlyActs, RosterEndsList
<1>5. QED
  BY <1>3, <1>4

LEMMA ActsRosterInv ==
  ASSUME PanelTypes, Marked, WalkInv, HonestInv, RosterInv, NEW p \in Passes, Acts(p)
  PROVE  RosterInv'
<1>1. SUFFICES ASSUME NEW q \in Passes, Mirrors(q)', Sure(q)'
               PROVE  RosterPart(q)'
  BY DEF RosterInv
<1>2. /\ Sure(q) /\ pass'[q].kind = pass[q].kind
      /\ q # p => pass'[q] = pass[q] /\ AtStep(q, "over")
  BY <1>1, SureBefore
<1>3. Mirrors(q) /\ RosterPart(q)
  BY <1>1, <1>2 DEF Mirrors, RosterInv
<1>4. CASE q = p
  BY <1>1, <1>2, <1>3, <1>4, ActsRosterPart
<1>5. CASE q # p
  <2>1. Upgraded(q) /\ \A a \in roster : Placed(a)
    BY <1>2, <1>3, <1>5 DEF Upgraded, RosterPart, Settled, AtStep
  <2>2. mail = Owner /\ PassHonest(p) /\ Walk(p) /\ roster' = roster
    BY <2>1, ActsRan DEF HonestInv, WalkInv, Ran
  <2>3. \A a \in roster : Placed(a)'
    BY <2>1, <2>2, PlacedStays
  <2>4. QED
    BY <1>2, <1>5, <2>2, <2>3 DEF RosterPart, AtStep, Settled, Late
<1>6. QED
  BY <1>4, <1>5

LEMMA BeginRosterInv ==
  ASSUME PanelTypes, RosterInv, NEW p \in Passes, NEW kind \in Kinds, BeginPass(p, kind)
  PROVE  RosterInv'
<1>1. SUFFICES ASSUME NEW q \in Passes, Mirrors(q)', Sure(q)'
               PROVE  RosterPart(q)'
  BY DEF RosterInv
<1>2. CASE q = p
  <2>1. /\ pass'[p].kind = kind /\ pass'[p].step \in {"files", "roster", "read"}
        /\ pass'[p].step = "read" => kind = "heal"
    BY BeginFacts
  <2>2. pass'[p].step \in {"files", "roster"}
    BY <1>1, <1>2, <2>1 DEF Mirrors
  <2>3. QED
    BY <1>2, <2>2 DEF RosterPart, AtStep, Settled, Late
<1>3. CASE q # p
  <2>1. Sure(q) /\ pass'[q] = pass[q] /\ AtStep(q, "over")
    BY <1>1, <1>3, SureAtBegin
  <2>2. RosterPart(q)
    BY <1>1, <2>1 DEF Mirrors, RosterInv
  <2>3. roster' = roster /\ tenant' = tenant
    BY DEF BeginPass, rows
  <2>4. QED
    BY <2>1, <2>2, <2>3 DEF RosterPart, AtStep, Settled, Late, Placed, Present
<1>4. QED
  BY <1>2, <1>3

-----------------------------------------------------------------------------
(* The project                                                             *)

\* From the mirror a pass goes on with it, a transfer to the copy of the users and a
\* resync to the heal.
LEMMA EarlyNext ==
  ASSUME PanelTypes, NEW p \in Passes, Acts(p), pass[p].step \notin Late
  PROVE  /\ pass'[p].step \in {"roster", "owner", "snapshot", "mirror", "sweep", "fixup",
                               "users", "read", "dead"}
         /\ pass'[p].step = "dead" => ~pass'[p].clean
         /\ pass[p].kind = "transfer" => pass'[p].step # "read"
<1>1. CASE Die(p)
  BY <1>1, EndSteps DEF Runs
<1>2. CASE EndOfList(p)
  BY <1>2, EndOfListFacts DEF Runs, AtStep, Late
<1>3. ASSUME NEW a \in Accounts, MapToOwner(p, a) PROVE pass'[p].step = "mirror"
  BY <1>3, MapToOwnerFacts DEF Runs
<1>4. ASSUME NEW ok \in BOOLEAN, MirrorRoster(p, ok)
      PROVE  /\ pass'[p].step \in {"owner", "snapshot", "mirror", "sweep", "fixup",
                                   "users", "read"}
             /\ pass[p].kind = "transfer" => pass'[p].step # "read"
  <2>1. CASE ReadRoster(p, ok)
    BY <2>1, ReadRosterFacts DEF Runs
  <2>2. CASE UpgradeOwner(p, ok)
    BY <2>2, UpgradeOwnerFacts DEF Runs
  <2>3. CASE Snapshot(p, ok)
    BY <2>3, SnapshotFacts DEF Runs
  <2>4. CASE SweepPlaceholder(p, ok)
    BY <2>4, PlainSteps DEF Runs
  <2>5. ASSUME NEW a \in Accounts, UpdateAccount(p, a, ok) \/ InsertAccount(p, a, ok)
        PROVE  pass'[p].step \in {"mirror", "sweep"}
    <3>1. AtStep(p, "mirror")
      BY <2>5 DEF UpdateAccount, InsertAccount
    <3>2. MirrorsAccount(p, a) \/ SkipsAccount(p, a, ok)
      BY <2>5, UpdateAccountFacts, InsertAccountFacts
    <3>3. QED
      BY <3>1, <3>2 DEF MirrorsAccount, SkipsAccount, Runs, AtStep
  <2>6. ASSUME NEW a \in Accounts, FixTenant(p, a, ok) PROVE pass'[p].step = "fixup"
    BY <2>6, FixTenantFacts DEF SkipsAccount, Runs, AtStep
  <2>7. QED
    BY <1>4, <2>1, <2>2, <2>3, <2>4, <2>5, <2>6 DEF MirrorRoster
<1>5. ASSUME NEW ok \in BOOLEAN, WireDomains(p, ok) PROVE pass'[p].step = "roster"
  BY <1>5, PlainSteps DEF Runs
<1>6. QED
  BY <1>1, <1>2, <1>3, <1>4, <1>5, EarlyActs

\* What the other passes may do after the mirror.
LEMMA LateActs ==
  ASSUME NEW p \in Passes, Acts(p), pass[p].step \in Late
  PROVE  \/ Die(p) \/ EndOfList(p) \/ LeaveProject(p) \/ HealVhosts(p)
         \/ \E ok \in BOOLEAN :
              \/ AttachAlias(p, ok) \/ HealTenants(p, ok)
              \/ ReadUsers(p, ok) \/ InsertDomains(p, ok) \/ SyncProject(p, ok)
              \/ SyncService(p, ok) \/ EnrichDomains(p, ok) \/ MaterializeDomains(p, ok)
              \/ \E a \in Accounts : SyncUser(p, a, ok)
<1>1. ASSUME NEW a \in Accounts, MapToOwner(p, a) PROVE FALSE
  BY <1>1 DEF MapToOwner, AtStep, Late
<1>2. ASSUME NEW ok \in BOOLEAN, MirrorRoster(p, ok) PROVE FALSE
  BY <1>2 DEF MirrorRoster, ReadRoster, UpgradeOwner, Snapshot, SweepPlaceholder,
              UpdateAccount, InsertAccount, FixTenant, AtStep, Late
<1>3. ASSUME NEW ok \in BOOLEAN, WireDomains(p, ok) PROVE FALSE
  BY <1>3 DEF WireDomains, AtStep, Late
<1>4. QED
  BY <1>1, <1>2, <1>3 DEF Acts, CopyRows

LEMMA WhoFilesProjects ==
  ASSUME NEW p \in Passes, Acts(p)
  PROVE  \/ project' = project /\ misfiled' = misfiled
         \/ \E ok \in BOOLEAN : \/ SyncProject(p, ok)
                                \/ \E a \in Accounts : FileProject(p, a, ok)
<1>1. CASE EndOfList(p) \/ LeaveProject(p) \/ Die(p)
  BY <1>1 DEF EndOfList, LeaveProject, Die, rows, past
<1>2. CASE (\E a \in Accounts : MapToOwner(p, a)) \/ HealVhosts(p)
  BY <1>2 DEF MapToOwner, HealVhosts, rows, past
<1>3. ASSUME NEW ok \in BOOLEAN, MirrorRoster(p, ok)
      PROVE  project' = project /\ misfiled' = misfiled
  BY <1>3 DEF MirrorRoster, ReadRoster, UpgradeOwner, Snapshot, UpdateAccount, InsertAccount,
              SweepPlaceholder, FixTenant, rows, past
<1>4. ASSUME NEW ok \in BOOLEAN, CopyRows(p, ok) \/ AttachAlias(p, ok)
      PROVE  (project' = project /\ misfiled' = misfiled) \/ SyncProject(p, ok)
  BY <1>4 DEF CopyRows, WireDomains, ReadUsers, InsertDomains, SyncService, EnrichDomains,
              MaterializeDomains, SyncUser, AttachAlias, FindAlias, StampLink, PullAlias,
              ApplyVhost, HealProxies, rows, past
<1>5. ASSUME NEW ok \in BOOLEAN, HealTenants(p, ok)
      PROVE  \/ project' = project /\ misfiled' = misfiled
             \/ \E a \in Accounts : FileProject(p, a, ok)
  BY <1>5 DEF HealTenants, ReadTenants, FixRoot, rows, past
<1>6. QED
  BY <1>1, <1>2, <1>3, <1>4, <1>5 DEF Acts

VendorsOr == ~misfiled => project \in {NoId, There(Vendor), Here(Vendor)}

LEMMA SyncsProject ==
  ASSUME PanelTypes, VendorsOr, NEW p \in Passes, Walk(p), NEW ok \in BOOLEAN,
         SyncProject(p, ok)
  PROVE  /\ VendorsOr' /\ (ok => project' # NoId) /\ (~misfiled' => ~misfiled)
         /\ project # NoId => project' = project
<1> DEFINE id == Translate(pass[p].map, Vendor)
<1>1. id \in {There(Vendor), Here(Vendor), Here(Owner)}
  <2>1. \A x \in DOMAIN pass[p].map : pass[p].map[x] \in {x, Owner}
    BY DEF Walk, MapPart
  <2>2. QED
    BY <2>1 DEF Translate
<1>2. id # NoId
  BY <1>1, IdsFacts, NamesAssumption
<1>3. /\ project' = IF ok /\ project = NoId THEN id ELSE project
      /\ misfiled' = (misfiled \/ project' = Here(Owner))
  BY DEF SyncProject
<1> HIDE DEF id
<1>4. QED
  BY <1>1, <1>2, <1>3 DEF VendorsOr

LEMMA FilesProject ==
  ASSUME PanelTypes, VendorsOr, NEW p \in Passes, Walk(p), NEW a \in Accounts,
         NEW ok \in BOOLEAN, FileProject(p, a, ok)
  PROVE  /\ VendorsOr' /\ (~misfiled' => ~misfiled)
         /\ project # NoId \/ ok => project' # NoId
         /\ ~misfiled' /\ project = Here(Vendor) => project' = Here(Vendor)
         /\ ok /\ Vendor \in DOMAIN pass[p].seen => project' = pass[p].seen[Vendor]
<1> DEFINE seen == pass[p].seen
<1>1. /\ Strays(seen) /\ a \in OwnersSeen(seen) /\ Resolves(seen[a], DOMAIN seen)
      /\ project' = IF ok THEN seen[a] ELSE project
      /\ misfiled' = (misfiled \/ (ok /\ Vendor \notin DOMAIN seen))
  BY DEF FileProject
<1>2. Rooted(seen) /\ seen \in Tables(Accounts, Ids \cup {NoId})
  BY HeldTyped DEF Walk
<1>3. DOMAIN seen \subseteq Accounts
  BY <1>2, TableFacts
<1>4. seen[a] # NoId
  BY <1>1, <1>3, IdsFacts DEF Resolves
<1>5. Vendor \in DOMAIN seen => a = Vendor /\ seen[a] \in {There(Vendor), Here(Vendor)}
  BY <1>1, <1>2 DEF OwnersSeen, Rooted
<1>6. project = Here(Vendor) => Vendor \notin DOMAIN seen
  BY <1>1 DEF Strays, Resolves
<1> HIDE DEF seen
<1>7. VendorsOr' /\ (~misfiled' => ~misfiled)
  BY <1>1, <1>5 DEF VendorsOr
<1>8. project # NoId \/ ok => project' # NoId
  BY <1>1, <1>4
<1>9. ~misfiled' /\ project = Here(Vendor) => project' = Here(Vendor)
  BY <1>1, <1>6
<1>10. ok /\ Vendor \in DOMAIN seen => project' = seen[Vendor]
  BY <1>1, <1>5
<1>11. QED
  BY <1>7, <1>8, <1>9, <1>10 DEF seen

\* Between the copy of the project and the heal it only has to stay.
LEMMA ProjectPlain ==
  ASSUME NEW p \in Passes, ProjectPart(p), project' = project,
         pass'[p].step \in Late \ {"service", "roots", "child"},
         \/ pass[p].step \in Late \ {"users", "sync", "domains", "project"}
         \/ pass'[p].step \in {"users", "sync", "domains", "project"}
  PROVE  ProjectPart(p)'
BY DEF ProjectPart, AtStep, Late

LEMMA ProjectCopied ==
  ASSUME PanelTypes, VendorsOr, NEW p \in Passes, Walk(p), pass[p].kind = "transfer",
         pass'[p].clean, pass[p].step \in Late, ProjectPart(p), NEW ok \in BOOLEAN,
         \/ ReadUsers(p, ok) \/ InsertDomains(p, ok) \/ SyncProject(p, ok)
         \/ SyncService(p, ok) \/ EnrichDomains(p, ok) \/ MaterializeDomains(p, ok)
         \/ AttachAlias(p, ok) \/ \E a \in Accounts : SyncUser(p, a, ok)
  PROVE  ProjectPart(p)'
<1>1. CASE ReadUsers(p, ok)
  BY <1>1, ReadUsersFacts, ProjectPlain DEF ReadUsers, rows, Runs, Late
<1>2. CASE InsertDomains(p, ok)
  BY <1>2, PlainSteps, ProjectPlain DEF InsertDomains, Runs, Late
<1>3. CASE SyncProject(p, ok)
  <2>1. ok /\ pass'[p].step = "service" /\ pass'[p].filed = ok
    BY <1>3, SyncProjectFacts DEF Runs
  <2>2. project' # NoId
    BY <1>3, <2>1, SyncsProject
  <2>3. QED
    BY <2>1, <2>2 DEF ProjectPart, AtStep
<1>4. CASE SyncService(p, ok) \/ EnrichDomains(p, ok) \/ MaterializeDomains(p, ok)
  <2>1. /\ pass[p].step \in Late \ {"users", "sync", "domains", "project"}
        /\ project' = project
    BY <1>4 DEF SyncService, EnrichDomains, MaterializeDomains, AtStep, Late
  <2>2. pass'[p].step \in {"enrich", "materialize", "attach"}
    BY <1>4, PlainSteps DEF Runs
  <2>3. QED
    BY <2>1, <2>2, ProjectPlain DEF Late
<1>5. CASE AttachAlias(p, ok)
  <2>1. /\ pass[p].step \in Late \ {"users", "sync", "domains", "project"}
        /\ project' = project
    BY <1>5 DEF AttachAlias, FindAlias, StampLink, PullAlias, ApplyVhost, HealProxies, AtStep,
                Late, rows
  <2>2. pass'[p].step \in {"stamp", "pull", "vhost", "vhosts", "read"}
    BY <1>5, PlainSteps, FindAliasFacts, HealProxiesFacts DEF AttachAlias, Runs
  <2>3. QED
    BY <2>1, <2>2, ProjectPlain DEF Late
<1>6. ASSUME NEW a \in Accounts, SyncUser(p, a, ok) PROVE ProjectPart(p)'
  BY <1>6, SyncUserFacts, ProjectPlain DEF SyncUser, Runs, Late
<1>7. QED
  BY <1>1, <1>2, <1>3, <1>4, <1>5, <1>6

\* What the heal makes of the tenants it has read.
LEMMA ProjectHeals ==
  ASSUME PanelTypes, VendorsOr, NEW p \in Passes, Walk(p), pass'[p].clean,
         ProjectPart(p), NEW ok \in BOOLEAN, HealTenants(p, ok),
         \A a \in roster : Placed(a)
  PROVE  ProjectPart(p)'
<1>1. Vendor \in Accounts /\ Vendor \in Roots
  BY NamesAssumption
<1>2. CASE ReadTenants(p, ok)
  <2>1. /\ pass'[p].step = "roots" /\ pass'[p].seen = tenant
        /\ pass'[p].todo = {a \in Present \cap Roots : tenant[a] # Here(a)}
    BY <1>2, ReadTenantsFacts DEF Runs
  <2>2. project' = project /\ AtStep(p, "read") /\ roster' = roster
    BY <1>2 DEF ReadTenants, rows
  <2>3. project # NoId
    BY <2>2 DEF ProjectPart, AtStep, Late
  <2>4. Vendor \in roster => Vendor \in DOMAIN pass'[p].seen
    BY <2>1 DEF Placed, Present
  <2>5. Vendor \in DOMAIN pass'[p].seen /\ Vendor \notin pass'[p].todo =>
          pass'[p].seen[Vendor] = Here(Vendor)
    BY <1>1, <2>1 DEF Present
  <2>6. QED
    BY <2>1, <2>2, <2>3, <2>4, <2>5 DEF ProjectPart, AtStep
<1>3. ASSUME NEW a \in Accounts, FixRoot(p, a, ok) PROVE ProjectPart(p)'
  <2>1. /\ pass'[p].step = "roots" /\ pass'[p].todo = pass[p].todo \ {a} /\ ok
        /\ pass'[p].seen = [pass[p].seen EXCEPT ![a] = Here(a)]
    BY <1>3, FixRootFacts DEF Runs
  <2>2. project' = project /\ AtStep(p, "roots") /\ roster' = roster
    BY <1>3 DEF FixRoot
  <2>3. /\ DOMAIN pass'[p].seen = DOMAIN pass[p].seen
        /\ \A x \in DOMAIN pass[p].seen :
             pass'[p].seen[x] = IF x = a THEN Here(a) ELSE pass[p].seen[x]
    BY <2>1
  <2>4. QED
    BY <2>1, <2>2, <2>3 DEF ProjectPart, AtStep, Late
<1>4. ASSUME NEW a \in Accounts, FileProject(p, a, ok) PROVE ProjectPart(p)'
  <2>1. ok /\ pass'[p].step = "over"
    BY <1>4, EndSteps DEF Runs
  <2>2. AtStep(p, "child") /\ roster' = roster
    BY <1>4 DEF FileProject
  <2>3. /\ Vendor \in roster => Vendor \in DOMAIN pass[p].seen
        /\ Vendor \in DOMAIN pass[p].seen => pass[p].seen[Vendor] = Here(Vendor)
    BY <2>2 DEF ProjectPart, AtStep
  <2>4. project' # NoId /\ (Vendor \in roster => project' = Here(Vendor))
    BY <1>4, <2>1, <2>3, FilesProject
  <2>5. QED
    BY <2>1, <2>2, <2>4 DEF ProjectPart, AtStep, Late
<1>5. QED
  BY <1>2, <1>3, <1>4 DEF HealTenants

LEMMA ProjectLeft ==
  ASSUME PanelTypes, VendorsOr, NEW p \in Passes, ProjectPart(p), LeaveProject(p)
  PROVE  ProjectPart(p)'
<1> DEFINE seen == pass[p].seen
<1>1. /\ pass'[p].step = "over" /\ project' = project /\ roster' = roster
      /\ misfiled' = misfiled /\ AtStep(p, "child")
  BY EndSteps DEF LeaveProject, Runs, rows, past
<1>2. /\ project # NoId
      /\ Vendor \in roster => Vendor \in DOMAIN seen /\ seen[Vendor] = Here(Vendor)
  BY <1>1 DEF ProjectPart, AtStep, Late
<1>3. ASSUME Vendor \in roster, ~misfiled PROVE project = Here(Vendor)
  <2>1. OwnersSeen(seen) = {Vendor} /\ Resolves(seen[Vendor], DOMAIN seen)
    BY <1>2, <1>3 DEF OwnersSeen, Resolves
  <2>2. ~Strays(seen)
    BY <2>1 DEF LeaveProject
  <2>3. Resolves(project, DOMAIN seen)
    BY <1>2, <2>2 DEF Strays
  <2>4. project # There(Vendor)
    BY <2>3, IdsFacts DEF Resolves
  <2>5. QED
    BY <1>2, <1>3, <2>4 DEF VendorsOr
<1>4. QED
  BY <1>1, <1>2, <1>3 DEF ProjectPart, AtStep, Late

LEMMA ActsProjectPart ==
  ASSUME PanelTypes, VendorsOr, NEW p \in Passes, Walk(p), Acts(p),
         pass[p].kind = "transfer", Sure(p)', ProjectPart(p), RosterPart(p)
  PROVE  ProjectPart(p)'
<1>1. pass'[p].clean /\ pass'[p].step # "dead" /\ Ran(p)
  BY ActsRan DEF Sure
<1>2. CASE pass[p].step \notin Late
  <2>1. pass'[p].step \in {"roster", "owner", "snapshot", "mirror", "sweep", "fixup", "users"}
    BY <1>1, <1>2, EarlyNext
  <2>2. QED
    BY <2>1 DEF ProjectPart, AtStep, Late
<1>3. CASE pass[p].step \in Late
  <2>1. ~Die(p)
    BY <1>1, EndSteps
  <2>2. CASE EndOfList(p)
    <3>1. /\ project' = project /\ misfiled' = misfiled /\ roster' = roster
          /\ pass[p].todo = {}
      BY <2>2, EndOfListFacts DEF EndOfList, rows, past
    <3>2. /\ SameSeen(p)
          /\ \/ AtStep(p, "sync") /\ pass'[p].step = "domains"
             \/ AtStep(p, "roots") /\ pass'[p].step = "child"
      BY <1>3, <2>2, EndOfListFacts DEF Runs, AtStep, Late, SameHeld
    <3>3. QED
      BY <3>1, <3>2 DEF ProjectPart, AtStep, Late, SameSeen
  <2>3. CASE HealVhosts(p)
    <3>1. project' = project /\ AtStep(p, "vhosts") /\ pass'[p].step = "proxy"
      BY <2>3, HealVhostsFacts DEF HealVhosts, Runs
    <3>2. QED
      BY <3>1, ProjectPlain DEF AtStep, Late
  <2>4. ASSUME NEW ok \in BOOLEAN, HealTenants(p, ok) PROVE ProjectPart(p)'
    <3>1. \A a \in roster : Placed(a)
      BY <1>3 DEF RosterPart, Settled
    <3>2. QED
      BY <1>1, <2>4, <3>1, ProjectHeals
  <2>5. QED
    BY <1>1, <1>3, <2>1, <2>2, <2>3, <2>4, LateActs, ProjectCopied, ProjectLeft
<1>4. QED
  BY <1>2, <1>3

LEMMA ActsProjectInv ==
  ASSUME PanelTypes, Marked, WalkInv, RosterInv, ProjectInv, NEW p \in Passes, Acts(p)
  PROVE  ProjectInv'
<1>1. VendorsOr /\ Walk(p) /\ Ran(p)
  BY ActsRan DEF ProjectInv, VendorsOr, WalkInv
<1>2. VendorsOr'
  BY <1>1, WhoFilesProjects, SyncsProject, FilesProject DEF VendorsOr
<1>3. ASSUME NEW q \in Passes, pass'[q].kind = "transfer", Sure(q)'
      PROVE  ProjectPart(q)'
  <2>1. /\ Sure(q) /\ pass[q].kind = "transfer"
        /\ q # p => pass'[q] = pass[q] /\ AtStep(q, "over")
    BY <1>3, SureBefore
  <2>2. ProjectPart(q) /\ RosterPart(q)
    BY <2>1 DEF ProjectInv, RosterInv, Mirrors
  <2>3. CASE q = p
    BY <1>1, <1>3, <2>1, <2>2, <2>3, ActsProjectPart
  <2>4. CASE q # p
    <3>1. /\ project # NoId
          /\ Vendor \in roster /\ ~misfiled => project = Here(Vendor)
      BY <2>1, <2>2, <2>4 DEF ProjectPart
    <3>2. \/ project' = project /\ misfiled' = misfiled
          \/ /\ project' # NoId /\ (~misfiled' => ~misfiled)
             /\ ~misfiled' /\ project = Here(Vendor) => project' = Here(Vendor)
      BY <1>1, <3>1, WhoFilesProjects, SyncsProject, FilesProject
    <3>3. roster' = roster /\ pass'[q].step = "over"
      BY <1>1, <2>1, <2>4 DEF Ran, AtStep
    <3>4. QED
      BY <3>1, <3>2, <3>3 DEF ProjectPart, AtStep, Late
  <2>5. QED
    BY <2>3, <2>4
<1>4. QED
  BY <1>2, <1>3 DEF ProjectInv, VendorsOr

LEMMA BeginProjectInv ==
  ASSUME PanelTypes, ProjectInv, NEW p \in Passes, NEW kind \in Kinds, BeginPass(p, kind)
  PROVE  ProjectInv'
<1>1. project' = project /\ misfiled' = misfiled /\ roster' = roster
  BY DEF BeginPass, rows
<1>2. ASSUME NEW q \in Passes, pass'[q].kind = "transfer", Sure(q)'
      PROVE  ProjectPart(q)'
  <2>1. CASE q = p
    <3>1. /\ pass'[p].kind = kind /\ pass'[p].step \in {"files", "roster", "read"}
          /\ pass'[p].step = "read" => kind = "heal"
      BY BeginFacts
    <3>2. pass'[p].step \in {"files", "roster"}
      BY <1>2, <2>1, <3>1
    <3>3. QED
      BY <2>1, <3>2 DEF ProjectPart, AtStep, Late
  <2>2. CASE q # p
    <3>1. Sure(q) /\ pass'[q] = pass[q] /\ AtStep(q, "over")
      BY <1>2, <2>2, SureAtBegin
    <3>2. ProjectPart(q)
      BY <1>2, <3>1 DEF ProjectInv
    <3>3. QED
      BY <1>1, <3>1, <3>2 DEF ProjectPart, AtStep, Late
  <2>3. QED
    BY <2>1, <2>2
<1>3. QED
  BY <1>1, <1>2 DEF ProjectInv

-----------------------------------------------------------------------------
(* The domains and the service                                             *)

Domained == <<service, alias, link, static, proxied, lost>>

LEMMA WhoLinks ==
  ASSUME NEW p \in Passes, Acts(p)
  PROVE  \/ UNCHANGED Domained
         \/ HealVhosts(p)
         \/ \E ok \in BOOLEAN :
              \/ WireDomains(p, ok) \/ InsertDomains(p, ok) \/ SyncService(p, ok)
              \/ EnrichDomains(p, ok) \/ MaterializeDomains(p, ok) \/ StampLink(p, ok)
              \/ PullAlias(p, ok) \/ ApplyVhost(p, ok) \/ HealProxies(p, ok)
<1>1. CASE EndOfList(p) \/ LeaveProject(p) \/ Die(p)
  BY <1>1 DEF EndOfList, LeaveProject, Die, rows, past, Domained
<1>2. ASSUME NEW a \in Accounts, MapToOwner(p, a) PROVE UNCHANGED Domained
  BY <1>2 DEF MapToOwner, rows, past, Domained
<1>3. ASSUME NEW ok \in BOOLEAN, MirrorRoster(p, ok) PROVE UNCHANGED Domained
  BY <1>3 DEF MirrorRoster, ReadRoster, UpgradeOwner, Snapshot, UpdateAccount, InsertAccount,
              SweepPlaceholder, FixTenant, rows, past, Domained
<1>4. ASSUME NEW ok \in BOOLEAN, HealTenants(p, ok) PROVE UNCHANGED Domained
  BY <1>4 DEF HealTenants, ReadTenants, FixRoot, FileProject, rows, past, Domained
<1>5. ASSUME NEW ok \in BOOLEAN,
             \/ ReadUsers(p, ok) \/ SyncProject(p, ok) \/ FindAlias(p, ok)
             \/ \E a \in Accounts : SyncUser(p, a, ok)
      PROVE  UNCHANGED Domained
  BY <1>5 DEF ReadUsers, SyncProject, SyncUser, FindAlias, rows, past, Domained
<1>6. QED
  BY <1>1, <1>2, <1>3, <1>4, <1>5 DEF Acts, CopyRows, AttachAlias

\* The part of LinksPart that is about the rows.
LinkRows ==
  /\ Alias \in DOMAIN link =>
       link[Alias] \in {Nil, service} \/ (link[Alias] = "other" /\ lost)
  /\ service # Nil /\ ~alias /\ ~lost => Linked

\* Rows are added, and a service keeps its id.
Grows ==
  /\ DOMAIN link \subseteq DOMAIN link'
  /\ service # Nil => service' = service

LEMMA AddsLinks ==
  ASSUME PanelTypes, LinkRows, NEW S \in SUBSET Domains, NEW id,
         Alias \in S => id = Nil, link' \in {link, Add(link, S, id)},
         UNCHANGED <<service, alias, lost>>
  PROVE  LinkRows' /\ Grows
<1>1. CASE link' = link
  BY <1>1 DEF LinkRows, Linked, Grows
<1>2. CASE link' = Add(link, S, id)
  <2>1. /\ DOMAIN link' = DOMAIN link \cup S
        /\ \A x \in DOMAIN link : link'[x] = link[x]
        /\ \A x \in S : x \notin DOMAIN link => link'[x] = id
    BY <1>2 DEF Add
  <2>2. QED
    BY <2>1 DEF LinkRows, Linked, Grows
<1>3. QED
  BY <1>1, <1>2

LEMMA LinksStay ==
  ASSUME PanelTypes, LinksPart, NEW p \in Passes, Acts(p)
  PROVE  LinkRows' /\ Grows
<1>1. /\ LinkRows
      /\ pass[p].step \in {"stamp", "pull", "vhost"} => Alias \in DOMAIN link /\ service # Nil
  BY DEF LinksPart, LinkRows
<1>2. Attached # Alias /\ Attached \in Domains /\ Alias \in Domains
  BY NamesAssumption DEF Domains
<1>3. CASE UNCHANGED Domained
  BY <1>1, <1>3 DEF Domained, LinkRows, Linked, Grows
<1>4. CASE HealVhosts(p)
  <2>1. service' = service /\ alias' = alias
    BY <1>4 DEF HealVhosts
  <2>2. /\ DOMAIN link' = DOMAIN link /\ (lost => lost')
        /\ Alias \in DOMAIN link /\ link[Alias] \in {Nil, service, "other"} =>
             link'[Alias] \in {link[Alias], service} \/ (link'[Alias] = "other" /\ lost')
    BY <1>4, HealVhostsFacts
  <2>3. ~lost' /\ Linked => link'[Alias] = service
    BY <2>2 DEF Linked
  <2>4. QED
    BY <1>1, <2>1, <2>2, <2>3 DEF LinkRows, Linked, Grows
<1>5. ASSUME NEW ok \in BOOLEAN, WireDomains(p, ok)
      PROVE  LinkRows' /\ Grows
  <2>1. PICK wired \in SUBSET Domains :
          link' = Add(link, wired, Nil) /\ UNCHANGED <<service, alias, lost>>
    BY <1>5 DEF WireDomains, past
  <2>2. QED
    BY <1>1, <2>1, AddsLinks
<1>6. ASSUME NEW ok \in BOOLEAN, InsertDomains(p, ok) PROVE LinkRows' /\ Grows
  <2>1. /\ link' \in {link, Add(link, {Attached}, "source")}
        /\ UNCHANGED <<service, alias, lost>>
    BY <1>6 DEF InsertDomains, past
  <2>2. {Attached} \in SUBSET Domains /\ Alias \notin {Attached}
    BY <1>2
  <2>3. QED
    BY <1>1, <2>1, <2>2, AddsLinks
<1>7. ASSUME NEW ok \in BOOLEAN, MaterializeDomains(p, ok) PROVE LinkRows' /\ Grows
  <2>1. link' \in {link, Add(link, {Alias}, Nil)} /\ UNCHANGED <<service, alias, lost>>
    BY <1>7 DEF MaterializeDomains, past
  <2>2. {Alias} \in SUBSET Domains
    BY <1>2
  <2>3. QED
    BY <1>1, <2>1, <2>2, AddsLinks
<1>8. ASSUME NEW ok \in BOOLEAN, SyncService(p, ok) PROVE LinkRows' /\ Grows
  <2>1. /\ link' = link /\ lost' = lost
        /\ \/ service' = service /\ alias' = alias
           \/ service = Nil /\ service' = "source" /\ alias' = TRUE
    <3>1. alias \in BOOLEAN
      BY DEF PanelTypes, RowTypes
    <3>2. QED
      BY <1>8, <3>1 DEF SyncService, past
  <2>2. QED
    BY <1>1, <2>1 DEF LinkRows, Linked, Grows
<1>9. ASSUME NEW ok \in BOOLEAN, EnrichDomains(p, ok) PROVE LinkRows' /\ Grows
  <2>1. /\ DOMAIN link' = DOMAIN link
        /\ \A d \in DOMAIN link : d # Attached => link'[d] = link[d]
        /\ UNCHANGED <<service, alias, lost>>
    BY <1>9 DEF EnrichDomains, past
  <2>2. QED
    BY <1>1, <1>2, <2>1 DEF LinkRows, Linked, Grows
<1>10. ASSUME NEW ok \in BOOLEAN, StampLink(p, ok) PROVE LinkRows' /\ Grows
  <2>1. /\ DOMAIN link' = DOMAIN link
        /\ Alias \in DOMAIN link => link'[Alias] \in {link[Alias], service}
        /\ ok /\ Alias \in DOMAIN link => link'[Alias] = service
        /\ ~ok => link' = link
        /\ UNCHANGED <<service, alias, lost>>
    BY <1>10 DEF StampLink, past
  <2>2. QED
    BY <1>1, <2>1 DEF LinkRows, Linked, Grows
<1>11. ASSUME NEW ok \in BOOLEAN, PullAlias(p, ok) PROVE LinkRows' /\ Grows
  <2>1. /\ UNCHANGED <<service, link>> /\ Alias \in DOMAIN link
        /\ alias' = (alias /\ ~ok)
        /\ lost' = (lost \/ (ok /\ link[Alias] # service))
    BY <1>1, <1>11 DEF PullAlias, AtStep
  <2>2. QED
    BY <1>1, <2>1 DEF LinkRows, Linked, Grows
<1>12. ASSUME NEW ok \in BOOLEAN, ApplyVhost(p, ok) \/ HealProxies(p, ok)
       PROVE  LinkRows' /\ Grows
  <2>1. UNCHANGED <<service, alias, link, lost>>
    BY <1>12 DEF ApplyVhost, HealProxies, past
  <2>2. QED
    BY <1>1, <2>1 DEF LinkRows, Linked, Grows
<1>13. QED
  BY <1>3, <1>4, <1>5, <1>6, <1>7, <1>8, <1>9, <1>10, <1>11, <1>12, WhoLinks

LEMMA HealGoes ==
  ASSUME PanelTypes, NEW p \in Passes, NEW ok \in BOOLEAN, HealTenants(p, ok)
  PROVE  /\ pass'[p].step \in {"roots", "over"}
         /\ pass'[p].step = "over" /\ pass'[p].clean => \E a \in Accounts : FileProject(p, a, ok)
<1>1. CASE ReadTenants(p, ok)
  BY <1>1, ReadTenantsFacts DEF Runs
<1>2. ASSUME NEW a \in Accounts, FixRoot(p, a, ok) PROVE pass'[p].step = "roots"
  BY <1>2, FixRootGoes
<1>3. ASSUME NEW a \in Accounts, FileProject(p, a, ok) PROVE pass'[p].step = "over"
  BY <1>3, EndSteps DEF Runs
<1>4. QED
  BY <1>1, <1>2, <1>3 DEF HealTenants

\* A pass comes to the alias by finding it.
LEMMA FoundBefore ==
  ASSUME PanelTypes, NEW p \in Passes, Acts(p), pass'[p].step \in {"stamp", "pull", "vhost"}
  PROVE  \/ pass[p].step \in {"stamp", "pull", "vhost"}
         \/ Alias \in DOMAIN link /\ service # Nil
<1>1. CASE pass[p].step \in Late
  <2>1. ~Die(p) /\ ~LeaveProject(p) /\ ~EndOfList(p)
    BY EndSteps, EndOfListFacts DEF Runs
  <2>2. ASSUME HealVhosts(p) PROVE FALSE
    BY <2>2, HealVhostsFacts DEF Runs
  <2>3. ASSUME NEW ok \in BOOLEAN, HealTenants(p, ok) PROVE FALSE
    BY <2>3, HealGoes
  <2>4. ASSUME NEW ok \in BOOLEAN,
               \/ ReadUsers(p, ok) \/ InsertDomains(p, ok) \/ SyncProject(p, ok)
               \/ SyncService(p, ok) \/ EnrichDomains(p, ok) \/ MaterializeDomains(p, ok)
               \/ \E a \in Accounts : SyncUser(p, a, ok)
        PROVE  FALSE
    <3>1. SyncProject(p, ok) => pass[p].kind = "transfer"
      BY KindOfStep DEF SyncProject, AtStep
    <3>2. QED
      BY <2>4, <3>1, ReadUsersFacts, SyncUserFacts, SyncProjectFacts, PlainSteps DEF Runs
  <2>5. ASSUME NEW ok \in BOOLEAN, AttachAlias(p, ok)
        PROVE  \/ pass[p].step \in {"stamp", "pull", "vhost"}
               \/ Alias \in DOMAIN link /\ service # Nil
    <3>1. CASE FindAlias(p, ok)
      BY <3>1, FindAliasFacts DEF Runs
    <3>2. ASSUME HealProxies(p, ok) PROVE FALSE
      BY <3>2, HealProxiesFacts DEF Runs
    <3>3. QED
      BY <2>5, <3>1, <3>2 DEF AttachAlias, StampLink, PullAlias, ApplyVhost, AtStep
  <2>6. QED
    BY <1>1, <2>1, <2>2, <2>3, <2>4, <2>5, LateActs
<1>2. CASE pass[p].step \notin Late
  BY <1>2, EarlyNext
<1>3. QED
  BY <1>1, <1>2

LEMMA ActsLinks ==
  ASSUME PanelTypes, LinksPart, NEW p \in Passes, Acts(p)
  PROVE  LinksPart'
<1>1. LinkRows' /\ Grows
  BY LinksStay
<1>2. ASSUME NEW q \in Passes, pass'[q].step \in {"stamp", "pull", "vhost"}
      PROVE  Alias \in DOMAIN link' /\ service' # Nil
  <2>1. Alias \in DOMAIN link /\ service # Nil
    <3>1. CASE q = p
      BY <1>2, <3>1, FoundBefore DEF LinksPart
    <3>2. CASE q # p
      BY <1>2, <3>2, ActsRan DEF Ran, LinksPart
    <3>3. QED
      BY <3>1, <3>2
  <2>2. QED
    BY <1>1, <2>1 DEF Grows
<1>3. QED
  BY <1>1, <1>2 DEF LinksPart, LinkRows

\* A clean transfer that copies the rows of the project leaves the service and its
\* domain there, linked to it if it has kept its id.
LEMMA AttachCopies ==
  ASSUME PanelTypes, NEW p \in Passes, AttachPart(p), pass'[p].clean,
         AtStep(p, "service") => pass[p].filed, NEW ok \in BOOLEAN,
         \/ InsertDomains(p, ok) \/ SyncService(p, ok) \/ EnrichDomains(p, ok)
         \/ MaterializeDomains(p, ok)
  PROVE  AttachPart(p)'
<1>1. Attached # Alias
  BY NamesAssumption
<1>2. CASE InsertDomains(p, ok)
  <2>1. ok /\ pass'[p].step = "project"
    BY <1>2, PlainSteps DEF Runs
  <2>2. link' = Add(link, {Attached}, "source")
    BY <1>2, <2>1 DEF InsertDomains
  <2>3. Attached \in DOMAIN link'
    BY <2>2 DEF Add
  <2>4. QED
    BY <2>1, <2>3 DEF AttachPart, AtStep, Late
<1>3. CASE SyncService(p, ok)
  <2>1. ok /\ pass'[p].step = "enrich"
    BY <1>3, PlainSteps DEF Runs
  <2>2. /\ AtStep(p, "service") /\ link' = link
        /\ service' = IF pass[p].filed /\ service = Nil THEN "source" ELSE service
    BY <1>3, <2>1 DEF SyncService
  <2>3. "source" # Nil
    BY NamesAssumption
  <2>4. service' # Nil
    BY <2>2, <2>3
  <2>5. Attached \in DOMAIN link'
    BY <2>2 DEF AttachPart, AtStep, Late
  <2>6. QED
    BY <2>1, <2>4, <2>5 DEF AttachPart, AtStep, Late
<1>4. CASE EnrichDomains(p, ok)
  <2>1. ok /\ pass'[p].step = "materialize"
    BY <1>4, PlainSteps DEF Runs
  <2>2. AtStep(p, "enrich") /\ service' = service
    BY <1>4 DEF EnrichDomains
  <2>3. Attached \in DOMAIN link /\ service # Nil
    BY <2>2 DEF AttachPart, AtStep, Late
  <2>4. /\ DOMAIN link' = DOMAIN link
        /\ service = "source" => link'[Attached] = "source"
    BY <1>4, <2>1, <2>3 DEF EnrichDomains
  <2>5. QED
    BY <2>1, <2>2, <2>3, <2>4 DEF AttachPart, AtStep, Late
<1>5. CASE MaterializeDomains(p, ok)
  <2>1. ok /\ pass'[p].step = "attach"
    BY <1>5, PlainSteps DEF Runs
  <2>2. AtStep(p, "materialize") /\ service' = service /\ alias' = alias
    BY <1>5 DEF MaterializeDomains
  <2>3. /\ Attached \in DOMAIN link /\ service # Nil
        /\ service = "source" => link[Attached] = "source"
    BY <2>2 DEF AttachPart, AtStep, Late
  <2>4. link' = IF alias THEN Add(link, {Alias}, Nil) ELSE link
    BY <1>5, <2>1, <2>3 DEF MaterializeDomains
  <2>5. /\ DOMAIN link \subseteq DOMAIN link' /\ \A d \in DOMAIN link : link'[d] = link[d]
        /\ alias => Alias \in DOMAIN link'
    BY <2>4 DEF Add
  <2>6. QED
    BY <2>1, <2>2, <2>3, <2>5 DEF AttachPart, AtStep, Late
<1>6. QED
  BY <1>2, <1>3, <1>4, <1>5

\* And the alias is taken off the service once its link is written.
LEMMA AttachFinds ==
  ASSUME PanelTypes, LinksPart, NEW p \in Passes, AttachPart(p), pass'[p].clean,
         NEW ok \in BOOLEAN,
         FindAlias(p, ok) \/ StampLink(p, ok) \/ PullAlias(p, ok) \/ ApplyVhost(p, ok)
  PROVE  AttachPart(p)'
<1>1. Attached # Alias
  BY NamesAssumption
<1>2. /\ Attached \in DOMAIN link /\ service # Nil
      /\ service = "source" => link[Attached] = "source"
      /\ pass[p].step \in {"attach", "stamp", "pull", "vhost"}
  <2>1. pass[p].step \in {"attach", "stamp", "pull", "vhost"}
    BY DEF FindAlias, StampLink, PullAlias, ApplyVhost, AtStep
  <2>2. QED
    BY <2>1 DEF AttachPart, AtStep, Late
<1>3. CASE FindAlias(p, ok)
  <2>1. AtStep(p, "attach") /\ UNCHANGED Domained
    BY <1>3 DEF FindAlias, rows, past, Domained
  <2>2. CASE pass'[p].step = "stamp"
    BY <1>2, <2>1, <2>2 DEF AttachPart, AtStep, Late, Domained
  <2>3. CASE pass'[p].step # "stamp"
    <3>1. /\ ok /\ pass'[p].step = "vhosts"
          /\ ~(alias /\ Alias \in DOMAIN link /\ link[Alias] \in {Nil, service})
      BY <1>2, <1>3, <2>3, FindAliasFacts DEF Runs
    <3>2. ~lost => ~alias
      BY <2>1, <3>1 DEF AttachPart, LinksPart
    <3>3. ~lost => Linked
      BY <1>2, <3>2 DEF LinksPart
    <3>4. QED
      BY <1>2, <2>1, <3>1, <3>2, <3>3 DEF AttachPart, AtStep, Late, Domained, Linked
  <2>4. QED
    BY <2>2, <2>3
<1>4. CASE StampLink(p, ok)
  <2>1. ok /\ pass'[p].step = "pull"
    BY <1>4, PlainSteps DEF Runs
  <2>2. AtStep(p, "stamp") /\ service' = service /\ link' = [link EXCEPT ![Alias] = service]
    BY <1>4, <2>1 DEF StampLink
  <2>3. Alias \in DOMAIN link
    BY <2>2 DEF LinksPart, AtStep
  <2>4. /\ DOMAIN link' = DOMAIN link /\ link'[Alias] = service
        /\ link'[Attached] = link[Attached]
    BY <1>1, <1>2, <2>2, <2>3
  <2>5. QED
    BY <1>2, <2>1, <2>2, <2>3, <2>4 DEF AttachPart, AtStep, Late, Linked
<1>5. CASE PullAlias(p, ok)
  <2>1. ok /\ pass'[p].step = "vhost"
    BY <1>5, PlainSteps DEF Runs
  <2>2. AtStep(p, "pull") /\ service' = service /\ link' = link /\ ~alias'
    BY <1>5, <2>1 DEF PullAlias
  <2>3. Linked
    BY <2>2 DEF AttachPart
  <2>4. QED
    BY <1>2, <2>1, <2>2, <2>3 DEF AttachPart, AtStep, Late, Linked
<1>6. CASE ApplyVhost(p, ok)
  <2>1. pass'[p].step = "vhosts"
    BY <1>6, PlainSteps DEF Runs
  <2>2. /\ AtStep(p, "vhost") /\ service' = service /\ link' = link /\ alias' = alias
    BY <1>6 DEF ApplyVhost
  <2>3. ~alias /\ Linked
    BY <2>2 DEF AttachPart
  <2>4. QED
    BY <1>2, <2>1, <2>2, <2>3 DEF AttachPart, AtStep, Late, Linked
<1>7. QED
  BY <1>3, <1>4, <1>5, <1>6

\* From then on the links and vhosts stay.
LEMMA AttachStays ==
  ASSUME NEW p \in Passes, AttachPart(p), UNCHANGED Domained,
         pass[p].step \in {"read", "roots", "child"},
         pass'[p].step \in {"roots", "child", "over"}
  PROVE  AttachPart(p)'
BY DEF AttachPart, AtStep, Late, Domained, Linked

LEMMA AttachEnds ==
  ASSUME PanelTypes, NEW p \in Passes, AttachPart(p), pass'[p].clean,
         \/ HealVhosts(p)
         \/ \E ok \in BOOLEAN : HealProxies(p, ok) \/ HealTenants(p, ok)
  PROVE  AttachPart(p)'
<1>1. CASE HealVhosts(p)
  <2>1. /\ AtStep(p, "vhosts") /\ service' = service /\ alias' = alias
    BY <1>1 DEF HealVhosts
  <2>2. pass'[p].step = "proxy"
    BY <1>1, HealVhostsFacts DEF Runs
  <2>3. /\ DOMAIN link' = DOMAIN link /\ (lost => lost')
        /\ \A d \in DOMAIN link : link[d] \in {Nil, service, "other"} => link'[d] = link[d]
    BY <1>1, HealVhostsFacts
  <2>4. /\ Attached \in DOMAIN link /\ service # Nil
        /\ service = "source" => link[Attached] = "source"
        /\ ~lost => ~alias /\ Linked
    BY <2>1 DEF AttachPart, AtStep, Late
  <2>5. service = "source" => link'[Attached] = "source"
    BY <2>3, <2>4
  <2>6. ~lost' => ~alias /\ Alias \in DOMAIN link /\ link'[Alias] = service
    BY <2>3, <2>4 DEF Linked
  <2>7. QED
    BY <2>1, <2>2, <2>3, <2>4, <2>5, <2>6 DEF AttachPart, AtStep, Late, Linked
<1>2. ASSUME NEW ok \in BOOLEAN, HealProxies(p, ok) PROVE AttachPart(p)'
  <2>1. pass'[p].step = "read" /\ proxied' = proxied \cup Unproxied
    BY <1>2, HealProxiesFacts DEF Runs
  <2>2. /\ AtStep(p, "proxy") /\ link' = link
        /\ service' = service /\ alias' = alias /\ lost' = lost
    BY <1>2 DEF HealProxies, past
  <2>3. \A d \in DOMAIN link' : link'[d] # Nil => d \in proxied'
    BY <2>1, <2>2 DEF Unproxied
  <2>4. /\ Attached \in DOMAIN link /\ service # Nil
        /\ service = "source" => link[Attached] = "source"
        /\ ~lost => ~alias /\ Linked
    BY <2>2 DEF AttachPart, AtStep, Late
  <2>5. QED
    BY <2>1, <2>2, <2>3, <2>4 DEF AttachPart, AtStep, Late, Linked
<1>3. ASSUME NEW ok \in BOOLEAN, HealTenants(p, ok) PROVE AttachPart(p)'
  <2>1. UNCHANGED Domained
    BY <1>3 DEF HealTenants, ReadTenants, FixRoot, FileProject, rows, past, Domained
  <2>2. pass[p].step \in {"read", "roots", "child"}
    BY <1>3 DEF HealTenants, ReadTenants, FixRoot, FileProject, AtStep
  <2>3. pass'[p].step \in {"roots", "child", "over"}
    BY <1>3, HealGoes
  <2>4. QED
    BY <2>1, <2>2, <2>3, AttachStays
<1>4. QED
  BY <1>1, <1>2, <1>3

LEMMA ActsAttachPart ==
  ASSUME PanelTypes, LinksPart, NEW p \in Passes, Acts(p), pass[p].kind = "transfer",
         Sure(p)', AttachPart(p), ProjectPart(p)
  PROVE  AttachPart(p)'
<1>1. pass'[p].clean /\ pass'[p].step # "dead"
  BY DEF Sure
<1>2. CASE pass[p].step \notin Late
  <2>1. pass'[p].step \in {"roster", "owner", "snapshot", "mirror", "sweep", "fixup", "users"}
    BY <1>1, <1>2, EarlyNext
  <2>2. QED
    BY <2>1 DEF AttachPart, AtStep, Late
<1>3. CASE pass[p].step \in Late
  <2>1. ~Die(p)
    BY <1>1, EndSteps
  <2>2. CASE EndOfList(p)
    <3>1. UNCHANGED Domained
      BY <2>2 DEF EndOfList, rows, past, Domained
    <3>2. \/ AtStep(p, "sync") /\ pass'[p].step = "domains"
          \/ AtStep(p, "roots") /\ pass'[p].step = "child"
      BY <1>3, <2>2, EndOfListFacts DEF Runs, AtStep, Late
    <3>3. CASE pass'[p].step = "domains"
      BY <3>3 DEF AttachPart, AtStep, Late
    <3>4. CASE AtStep(p, "roots") /\ pass'[p].step = "child"
      BY <3>1, <3>4, AttachStays DEF AtStep
    <3>5. QED
      BY <3>2, <3>3, <3>4
  <2>3. CASE LeaveProject(p)
    <3>1. pass'[p].step = "over"
      BY <2>3, EndSteps DEF Runs
    <3>2. QED
      BY <3>1 DEF AttachPart, AtStep, Late
  <2>4. ASSUME NEW ok \in BOOLEAN, ReadUsers(p, ok) \/ \E a \in Accounts : SyncUser(p, a, ok)
        PROVE  AttachPart(p)'
    <3>1. pass'[p].step = "sync"
      BY <2>4, ReadUsersFacts, SyncUserFacts DEF Runs
    <3>2. QED
      BY <3>1 DEF AttachPart, AtStep, Late
  <2>5. ASSUME NEW ok \in BOOLEAN, SyncProject(p, ok) PROVE AttachPart(p)'
    <3>1. pass'[p].step = "service" /\ AtStep(p, "project") /\ link' = link
      BY <2>5, SyncProjectFacts DEF SyncProject, Runs
    <3>2. QED
      BY <3>1 DEF AttachPart, AtStep, Late
  <2>6. AtStep(p, "service") => pass[p].filed
    BY DEF ProjectPart
  <2>7. ASSUME NEW ok \in BOOLEAN, AttachAlias(p, ok) PROVE AttachPart(p)'
    <3>1. CASE HealProxies(p, ok)
      BY <1>1, <3>1, AttachEnds
    <3>2. CASE FindAlias(p, ok) \/ StampLink(p, ok) \/ PullAlias(p, ok) \/ ApplyVhost(p, ok)
      BY <1>1, <3>2, AttachFinds
    <3>3. QED
      BY <2>7, <3>1, <3>2 DEF AttachAlias
  <2>8. CASE HealVhosts(p)
    BY <1>1, <2>8, AttachEnds
  <2>9. ASSUME NEW ok \in BOOLEAN, HealTenants(p, ok) PROVE AttachPart(p)'
    BY <1>1, <2>9, AttachEnds
  <2>10. ASSUME NEW ok \in BOOLEAN,
                \/ InsertDomains(p, ok) \/ SyncService(p, ok) \/ EnrichDomains(p, ok)
                \/ MaterializeDomains(p, ok)
         PROVE  AttachPart(p)'
    BY <1>1, <2>6, <2>10, AttachCopies
  <2>11. QED
    BY <1>3, <2>1, <2>2, <2>3, <2>4, <2>5, <2>7, <2>8, <2>9, <2>10, LateActs
<1>4. QED
  BY <1>2, <1>3

LEMMA ActsAttachInv ==
  ASSUME PanelTypes, Marked, ProjectInv, AttachInv, NEW p \in Passes, Acts(p)
  PROVE  AttachInv'
<1>1. LinksPart'
  BY ActsLinks DEF AttachInv
<1>2. ASSUME NEW q \in Passes, pass'[q].kind = "transfer", Sure(q)'
      PROVE  AttachPart(q)'
  <2>1. /\ Sure(q) /\ pass[q].kind = "transfer"
        /\ q # p => pass'[q] = pass[q] /\ AtStep(q, "over")
    BY <1>2, SureBefore
  <2>2. AttachPart(q) /\ ProjectPart(q) /\ LinksPart
    BY <2>1 DEF AttachInv, ProjectInv
  <2>3. CASE q = p
    BY <1>2, <2>1, <2>2, <2>3, ActsAttachPart
  <2>4. CASE q # p
    BY <2>1, <2>4 DEF AttachPart, AtStep, Late
  <2>5. QED
    BY <2>3, <2>4
<1>3. QED
  BY <1>1, <1>2 DEF AttachInv

LEMMA BeginAttachInv ==
  ASSUME PanelTypes, AttachInv, NEW p \in Passes, NEW kind \in Kinds, BeginPass(p, kind)
  PROVE  AttachInv'
<1>1. UNCHANGED <<link, service, alias, lost>>
  BY DEF BeginPass, rows
<1>2. /\ pass'[p].kind = kind /\ pass'[p].step \in {"files", "roster", "read"}
      /\ pass'[p].step = "read" => kind = "heal"
      /\ \A q \in Passes : q # p => pass'[q] = pass[q]
  BY BeginFacts
<1>3. LinksPart'
  BY <1>1, <1>2 DEF AttachInv, LinksPart, Linked
<1>4. ASSUME NEW q \in Passes, pass'[q].kind = "transfer", Sure(q)'
      PROVE  AttachPart(q)'
  <2>1. pass'[q].step \in {"files", "roster", "over"}
    BY <1>2, <1>4, SureAtBegin DEF AtStep
  <2>2. QED
    BY <2>1 DEF AttachPart, AtStep, Late
<1>5. QED
  BY <1>3, <1>4 DEF AttachInv

-----------------------------------------------------------------------------
(* The theorems                                                            *)

PanelInv ==
  /\ PanelTypes /\ Marked /\ WalkInv /\ HonestInv /\ RosterInv /\ ProjectInv /\ AttachInv

LEMMA PanelInvStarts == ASSUME PanelInit PROVE PanelInv
<1>1. PanelTypes
  BY PanelInitTyped
<1>2. \A p \in Passes : pass[p] = Fresh("heal", "off", TRUE)
  BY DEF PanelInit
<1>3. \A p \in Passes : /\ pass[p].step = "off" /\ pass[p].map = Empty /\ pass[p].seen = Empty
                        /\ pass[p].todo = {} /\ pass[p].pending = {}
  BY <1>2 DEF Fresh
<1>4. DOMAIN Empty = {}
  BY EmptyTyped
<1>5. Marked
  BY <1>3 DEF Marked, InFlight
<1>6. WalkInv
  <2>1. Rooted(tenant)
    BY DEF PanelInit, Rooted
  <2>2. ASSUME NEW p \in Passes PROVE Walk(p)
    BY <1>3, <1>4 DEF Walk, MapPart, Rooted, AtStep
  <2>3. QED
    BY <2>1, <2>2 DEF WalkInv
<1>7. \A p \in Passes : ~Sure(p)
  BY <1>3 DEF Sure
<1>8. HonestInv /\ RosterInv
  BY <1>7 DEF HonestInv, RosterInv, Upgraded
<1>9. ProjectInv
  BY <1>7 DEF ProjectInv, PanelInit
<1>10. LinksPart
  <2>1. Alias \notin DOMAIN link
    BY <1>4 DEF PanelInit
  <2>2. service # Nil => alias
    BY DEF PanelInit
  <2>3. QED
    BY <1>3, <2>1, <2>2 DEF LinksPart
<1>11. AttachInv
  BY <1>7, <1>10 DEF AttachInv
<1>12. QED
  BY <1>1, <1>5, <1>6, <1>8, <1>9, <1>11 DEF PanelInv

LEMMA PanelInvStays == ASSUME PanelInv, [PanelNext]_panelVars PROVE PanelInv'
<1>1. /\ PanelTypes /\ Marked /\ WalkInv /\ HonestInv /\ RosterInv /\ ProjectInv /\ AttachInv
  BY DEF PanelInv
<1>2. ASSUME NEW p \in Passes, Acts(p) PROVE PanelInv'
  BY <1>1, <1>2, ActsTyped, ActsMarked, ActsWalk, ActsHonestInv, ActsRosterInv, ActsProjectInv,
     ActsAttachInv DEF PanelInv
<1>3. ASSUME NEW p \in Passes, NEW kind \in Kinds, BeginPass(p, kind) PROVE PanelInv'
  BY <1>1, <1>3, BeginTyped, BeginMarked, BeginWalk, BeginHonestInv, BeginRosterInv,
     BeginProjectInv, BeginAttachInv DEF PanelInv
<1>4. CASE UNCHANGED panelVars
  <2>1. UNCHANGED <<roster, mail, tenant, project, service, alias, link, static, proxied, pass,
                    failures, met, misfiled, lost>>
    BY <1>4 DEF panelVars, rows, past
  <2>2. PanelTypes' /\ Marked'
    BY <1>1, <2>1 DEF PanelTypes, RowTypes, Marked, InFlight
  <2>3. WalkInv' /\ HonestInv'
    BY <1>1, <2>1 DEF WalkInv, Walk, AtStep, HonestInv, Upgraded, Mirrors, Sure, PassHonest, InFlight
  <2>4. RosterInv'
    BY <1>1, <2>1 DEF RosterInv, Mirrors, Sure, RosterPart, MirroredSoFar, FixedSoFar,
                      Placed, Present, AtStep
  <2>5. ProjectInv'
    BY <1>1, <2>1 DEF ProjectInv, Sure, ProjectPart, AtStep
  <2>6. AttachInv'
    BY <1>1, <2>1 DEF AttachInv, Sure, LinksPart, AttachPart, Linked, AtStep
  <2>7. QED
    BY <2>2, <2>3, <2>4, <2>5, <2>6 DEF PanelInv
<1>5. QED
  BY <1>2, <1>3, <1>4, NextIs

\* The inductive invariant of PanelRecords: what the walks hold and what a pass that
\* was clean and alone so far has achieved at each of its steps.
THEOREM PanelInvAlways == PanelSpec => []PanelInv
BY PanelInvStarts, PanelInvStays, PTL DEF PanelSpec

LEMMA SoundIsSure ==
  ASSUME NEW p \in Passes, Sound(p)
  PROVE  Sure(p) /\ AtStep(p, "over")
BY DEF Sound, Sure, AtStep

\* RosterConverges: once a pass over the accounts has come to its end alone and with
\* every call made, every account of the source has a row in its tenant, whatever the
\* other passes do from then on: placeholders are made only for users without a row and
\* swept only where the source has no such account, and what the fix-up and the heal
\* write is the tenant the account has on the source.
THEOREM RosterConvergesAlways == PanelSpec => []RosterConverges
<1>1. ASSUME PanelInv PROVE RosterConverges
  <2>1. SUFFICES ASSUME NEW p \in Passes, Sound(p), pass[p].kind \in {"transfer", "resync"}
                 PROVE  \A a \in roster : Placed(a)
    BY DEF RosterConverges, Placed
  <2>2. QED
    BY <1>1, <2>1, SoundIsSure DEF PanelInv, RosterInv, RosterPart, Mirrors, Settled, AtStep
<1>2. QED
  BY <1>1, PanelInvAlways, PTL

\* ProjectFiled: after a transfer that came to its end alone and with every call made
\* the project has a row, in the vendor's tenant unless it was filed elsewhere while the
\* vendor had no row to be found.
THEOREM ProjectFiledAlways == PanelSpec => []ProjectFiled
<1>1. ASSUME PanelInv PROVE ProjectFiled
  <2>1. SUFFICES ASSUME NEW p \in Passes, Sound(p), pass[p].kind = "transfer"
                 PROVE  project # NoId /\ (Vendor \in roster /\ ~misfiled => project = Here(Vendor))
    BY DEF ProjectFiled
  <2>2. QED
    BY <1>1, <2>1, SoundIsSure DEF PanelInv, ProjectInv, ProjectPart
<1>2. QED
  BY <1>1, PanelInvAlways, PTL

LEMMA OverStays ==
  ASSUME PanelTypes, NEW p \in Passes, NEW q \in Passes,
         Acts(q) \/ \E kind \in Kinds : BeginPass(q, kind),
         ~AtStep(p, "over"), pass'[p].step = "over"
  PROVE  p = q /\ Acts(p)
<1>1. CASE Acts(q)
  BY <1>1, ActsRan DEF Ran, AtStep
<1>2. ASSUME NEW kind \in Kinds, BeginPass(q, kind) PROVE FALSE
  BY <1>2, BeginFacts DEF AtStep
<1>3. QED
  BY <1>1, <1>2

LEMMA EndsFromChild ==
  ASSUME PanelTypes, NEW p \in Passes, Acts(p), pass[p].kind = "transfer", pass'[p].clean,
         pass'[p].step = "over"
  PROVE  AtStep(p, "child") /\ UNCHANGED Domained
<1>1. pass[p].step \in Late
  BY EarlyNext
<1>2. ~Die(p) /\ ~EndOfList(p)
  BY EndSteps, EndOfListFacts DEF Runs
<1>3. ASSUME HealVhosts(p) PROVE FALSE
  BY <1>3, HealVhostsFacts DEF Runs
<1>4. ASSUME NEW ok \in BOOLEAN, AttachAlias(p, ok) PROVE FALSE
  BY <1>4, PlainSteps, FindAliasFacts, HealProxiesFacts DEF AttachAlias, Runs
<1>5. ASSUME NEW ok \in BOOLEAN,
             \/ ReadUsers(p, ok) \/ InsertDomains(p, ok) \/ SyncProject(p, ok)
             \/ SyncService(p, ok) \/ EnrichDomains(p, ok) \/ MaterializeDomains(p, ok)
             \/ \E a \in Accounts : SyncUser(p, a, ok)
      PROVE  FALSE
  BY <1>5, ReadUsersFacts, SyncUserFacts, SyncProjectFacts, PlainSteps DEF Runs
<1>6. CASE LeaveProject(p)
  BY <1>6 DEF LeaveProject, rows, past, Domained
<1>7. ASSUME NEW ok \in BOOLEAN, HealTenants(p, ok)
      PROVE  AtStep(p, "child") /\ UNCHANGED Domained
  <2>1. PICK a \in Accounts : FileProject(p, a, ok)
    BY <1>7, HealGoes
  <2>2. QED
    BY <2>1 DEF FileProject, Domained
<1>8. QED
  BY <1>1, <1>2, <1>3, <1>4, <1>5, <1>6, <1>7, LateActs

\* AttachmentsArrive: the step that ends a transfer which was alone and made every
\* call finds the service there and both of its domains linked to it and proxied,
\* unless an alias was taken off the service without its link, or linked to another
\* service of its port while its own could not be read, or the service kept an id of
\* its own.
THEOREM AttachmentsArriveAlways == PanelSpec => AttachmentsArrive
<1> DEFINE Arrived(p) ==
             /\ service' # Nil
             /\ service' = "source" => link'[Attached] = "source" /\ Attached \in proxied'
             /\ ~lost => ~alias' /\ link'[Alias] = service' /\ Alias \in proxied'
           Finishes(p) == pass[p].kind = "transfer" /\ pass[p].step # "over" /\ Sound(p)'
<1>1. ASSUME PanelInv, PanelNext, NEW p \in Passes, Finishes(p) PROVE Arrived(p)
  <2>1. pass'[p].step = "over" /\ pass'[p].clean /\ Sure(p)'
    BY <1>1 DEF Sound, Sure
  <2>2. Acts(p)
    BY <1>1, <2>1, NextIs, OverStays DEF PanelInv, AtStep
  <2>3. AtStep(p, "child") /\ UNCHANGED Domained
    BY <1>1, <2>1, <2>2, EndsFromChild DEF PanelInv
  <2>4. Sure(p)
    BY <1>1, <2>1, <2>2, SureBefore DEF PanelInv
  <2>5. AttachPart(p)
    BY <1>1, <2>4 DEF PanelInv, AttachInv
  <2>6. /\ Attached \in DOMAIN link /\ service # Nil
        /\ service = "source" => link[Attached] = "source"
        /\ ~lost => ~alias /\ Linked
        /\ \A d \in DOMAIN link : link[d] # Nil => d \in proxied
    BY <2>3, <2>5 DEF AttachPart, AtStep, Late
  <2>7. "source" # Nil
    BY NamesAssumption
  <2>8. QED
    BY <2>3, <2>6, <2>7 DEF Domained, Linked
<1>2. ASSUME UNCHANGED panelVars, NEW p \in Passes, Finishes(p) PROVE FALSE
  BY <1>2 DEF panelVars, Sound
<1>3. PanelInv /\ [PanelNext]_panelVars =>
        [\A p \in Passes : Finishes(p) => Arrived(p)]_panelVars
  BY <1>1, <1>2
<1>4. QED
  BY <1>3, PanelInvAlways, PTL DEF AttachmentsArrive, PanelSpec
=============================================================================
