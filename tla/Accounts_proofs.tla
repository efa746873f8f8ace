---------------------------- MODULE Accounts_proofs ----------------------------
(***************************************************************************)
(* Proofs about an account: signing in to it (SignIn), then switching it   *)
(* off while it is in use (AccountStatus).  For any number of requests,    *)
(* browsers, codes and admins, and any threshold, TTL and retention.       *)
(*                                                                         *)
(* None of the three properties of SignIn is inductive.  CodeInv adds who  *)
(* may hold a code, FailuresInv the failed logins that are still to be     *)
(* counted, and ReadInv what a request that was not overtaken still knows  *)
(* to be true.  Of AccountStatus, StalenessInv adds what a request in      *)
(* flight has read and when, SitesInv what an operation under way has      *)
(* already done to the sites.                                              *)
(***************************************************************************)
EXTENDS SignIn, AccountStatus, FiniteSetTheorems, TLAPS

-----------------------------------------------------------------------------
(* Signing in: what holds between the steps of a request                   *)

\* The steps at which a request has a code in hand, and those at which it has
\* used it up and may still sign in with it.
WithCode == {"claim", "approve", "lookup", "mint"}
Holds(r, c) == req[r].code = c /\ req[r].pc \in {"lookup", "mint"}

InHand(r) ==
  /\ req[r].pc \in {"claim", "approve", "lookup"} => req[r].code # NoCode
  /\ req[r].code # NoCode =>
       /\ req[r].pc \in WithCode
       /\ Exists(req[r].code)
       /\ req[r].pc # "approve" => req[r].browser = codes[req[r].code].browser
UsedOnce(c) ==
  /\ \A r \in Requests : Holds(r, c) => codes[c].used /\ opened[c] = <<>>
  /\ \A r, q \in Requests : Holds(r, c) /\ Holds(q, c) => r = q
  /\ opened[c] # <<>> => Exists(c) /\ codes[c].used /\ opened[c] = <<codes[c].browser>>
CodeInv ==
  /\ \A r \in Requests : InHand(r)
  /\ \A c \in CodeIds : UsedOnce(c)

\* The requests that will count a failure without locking the account.
Counting == {r \in Requests : AtPc(r, "fail") /\ ~Locks(req[r].seen)}
FailuresInv ==
  ~lockedSince => failed + Cardinality(Counting) + 2 <= Threshold + Cardinality(Requests)

Knows(r) ==
  /\ AtPc(r, "mint") => Admits
  /\ AtPc(r, "mint") /\ req[r].code = NoCode => req[r].seen = password
  /\ req[r].pc \in {"claim", "lookup", "mint"} /\ req[r].code # NoCode =>
       codes[req[r].code].age # "expired"
  /\ AtPc(r, "rotate") => token /\ Admits
  /\ AtPc(r, "clear") => token /\ tokenExpired
ReadInv == \A r \in Requests \ overtaken : Knows(r)

-----------------------------------------------------------------------------
\* A row that is not there has the type of a row.
LEMMA AbsentTyped == Absent \in CodeRow
BY DEF Absent, CodeRow, Ages

\* Every way a request's state is written keeps its type.
LEMMA RequestTypes ==
  ASSUME TypeOK, NEW r \in Requests
  PROVE  /\ \A pc \in Pcs : Go(r, pc) => req' \in [Requests -> RequestState]
         /\ \A pc \in Pcs, b \in Browsers \cup {None}, c \in CodeIds \cup {NoCode},
               n \in Nat :
              Begin(r, pc, b, c, n) => req' \in [Requests -> RequestState]
         /\ Reply(r) \/ ReplyOvertaking(r) =>
              req' \in [Requests -> RequestState] /\ overtaken' \subseteq Requests
<1>1. req \in [Requests -> RequestState]
  BY DEF TypeOK
<1>2. \A pc \in Pcs : Go(r, pc) => req' \in [Requests -> RequestState]
  BY <1>1 DEF Go, RequestState
<1>3. \A pc \in Pcs, b \in Browsers \cup {None}, c \in CodeIds \cup {NoCode}, n \in Nat :
        [pc |-> pc, browser |-> b, code |-> c, seen |-> n] \in RequestState
  BY DEF RequestState
<1>4. \A pc \in Pcs, b \in Browsers \cup {None}, c \in CodeIds \cup {NoCode}, n \in Nat :
        Begin(r, pc, b, c, n) => req' \in [Requests -> RequestState]
  BY <1>1, <1>3 DEF Begin
<1>5. Idle \in RequestState
  BY <1>3 DEF Idle, Pcs
<1>6. Reply(r) \/ ReplyOvertaking(r) =>
        req' \in [Requests -> RequestState] /\ overtaken' \subseteq Requests
  BY <1>1, <1>5 DEF TypeOK, Reply, ReplyOvertaking, InFlight
<1>7. QED
  BY <1>2, <1>4, <1>6

\* Marking a code approved or used keeps its row, and the table, well typed.
LEMMA UpdatedRowTyped ==
  ASSUME TypeOK
  PROVE  /\ codes \in [CodeIds -> CodeRow]
         /\ \A r \in CodeRow : /\ [r EXCEPT !.approved = TRUE] \in CodeRow
                               /\ [r EXCEPT !.used = TRUE] \in CodeRow
<1>1. codes \in [CodeIds -> CodeRow]
  BY DEF TypeOK
<1>2. \A r \in CodeRow : /\ [r EXCEPT !.approved = TRUE] \in CodeRow
                         /\ [r EXCEPT !.used = TRUE] \in CodeRow
  BY DEF CodeRow
<1>3. QED
  BY <1>1, <1>2

\* The steps of a request keep every variable well typed.
LEMMA TypeOfStep == ASSUME TypeOK, NEW r \in Requests, Step(r) PROVE TypeOK'
<1>1. /\ Reply(r) \/ ReplyOvertaking(r) =>
           req' \in [Requests -> RequestState] /\ overtaken' \subseteq Requests
      /\ \A pc \in Pcs : Go(r, pc) => req' \in [Requests -> RequestState]
  BY RequestTypes
<1>2. /\ req[r].code \in CodeIds \cup {NoCode} /\ req[r].browser \in Browsers \cup {None}
      /\ failed + 1 \in Nat
  BY DEF TypeOK, RequestState
<1>3. CASE FailLogin(r)
  <2>1. locked' \in BOOLEAN /\ lockedSince' \in BOOLEAN /\ (Reply(r) \/ ReplyOvertaking(r))
    BY <1>3 DEF FailLogin, TypeOK
  <2>2. QED
    BY <1>1, <1>2, <1>3, <2>1 DEF FailLogin, TypeOK
<1>4. CASE MintByPassword(r)
  BY <1>1, <1>4 DEF MintByPassword, MintSession, TypeOK
<1>5. CASE ClearExpired(r)
  BY <1>1, <1>5 DEF ClearExpired, TypeOK
<1>6. CASE Rotate(r)
  BY <1>1, <1>6 DEF Rotate, TypeOK
<1>7. CASE MintByCode(r)
  <2>1. req[r].code \in CodeIds
    BY <1>2, <1>7 DEF MintByCode
  <2>2. opened' \in [CodeIds -> Seq(Browsers \cup {None})]
    <3> DEFINE s == opened[req[r].code]
    <3>1. opened \in [CodeIds -> Seq(Browsers \cup {None})] /\ s \in Seq(Browsers \cup {None})
      BY <2>1 DEF TypeOK
    <3>2. Append(s, req[r].browser) \in Seq(Browsers \cup {None})
      BY <1>2, <3>1
    <3>3. opened' = [opened EXCEPT ![req[r].code] = Append(s, req[r].browser)]
      BY <1>7 DEF MintByCode
    <3> HIDE DEF s
    <3>4. QED
      BY <2>1, <3>1, <3>2, <3>3
  <2>3. QED
    BY <1>1, <1>7, <2>2 DEF MintByCode, MintSession, TypeOK
<1>8. CASE WritePassword(r)
  <2>1. password' \in Passwords
    BY <1>8 DEF WritePassword, TypeOK, Passwords
  <2>2. QED
    BY <1>1, <1>8, <2>1 DEF WritePassword, TypeOK
<1>9. CASE InsertCode(r)
  <2>1. codes' \in [CodeIds -> CodeRow]
    <3>1. [Absent EXCEPT !.browser = req[r].browser] \in CodeRow
      BY <1>2, AbsentTyped DEF CodeRow
    <3>2. QED
      BY <1>9, <3>1 DEF InsertCode, TypeOK
  <2>2. QED
    BY <1>1, <1>9, <2>1 DEF InsertCode, TypeOK, account
<1>10. CASE Approve(r)
  <2>1. codes' \in [CodeIds -> CodeRow]
    <3> DEFINE c == req[r].code
               new == [codes[c] EXCEPT !.approved = TRUE]
    <3>1. codes' = codes \/ codes' = [codes EXCEPT ![c] = new]
      BY <1>10 DEF Approve
    <3>2. codes \in [CodeIds -> CodeRow] /\ (c \in CodeIds => new \in CodeRow)
      BY UpdatedRowTyped
    <3> HIDE DEF c, new
    <3>3. QED
      BY <3>1, <3>2
  <2>2. QED
    BY <1>1, <1>10, <2>1 DEF Approve, TypeOK, account
<1>11. CASE ClaimCode(r)
  <2>1. codes' \in [CodeIds -> CodeRow]
    <3> DEFINE c == req[r].code
               new == [codes[c] EXCEPT !.used = TRUE]
    <3>1. codes' = codes \/ codes' = [codes EXCEPT ![c] = new]
      BY <1>11 DEF ClaimCode
    <3>2. codes \in [CodeIds -> CodeRow] /\ (c \in CodeIds => new \in CodeRow)
      BY UpdatedRowTyped
    <3> HIDE DEF c, new
    <3>3. QED
      BY <3>1, <3>2
  <2>2. req' \in [Requests -> RequestState] /\ overtaken' \subseteq Requests
    BY <1>1, <1>11 DEF ClaimCode, TypeOK, Pcs
  <2>3. QED
    BY <1>11, <2>1, <2>2 DEF ClaimCode, TypeOK, account
<1>12. CASE LookUpAccount(r)
  <2>1. req' \in [Requests -> RequestState] /\ overtaken' \subseteq Requests
    BY <1>1, <1>12 DEF LookUpAccount, TypeOK, Pcs
  <2>2. QED
    BY <1>12, <2>1 DEF LookUpAccount, TypeOK, account
<1>13. CASE CancelCodes(r)
  <2>1. codes' \in [CodeIds -> CodeRow]
    BY <1>13 DEF CancelCodes, TypeOK, CodeRow
  <2>2. QED
    BY <1>1, <1>13, <2>1 DEF CancelCodes, TypeOK, account
<1>14. CASE Cut(r)
  BY <1>1, <1>14 DEF Cut, TypeOK, account
<1>15. QED
  BY <1>3, <1>4, <1>5, <1>6, <1>7, <1>8, <1>9, <1>10, <1>11, <1>12, <1>13, <1>14 DEF Step

\* A request that arrives keeps every variable well typed.
LEMMA TypeOfArrival == ASSUME TypeOK, NEW r \in Requests, Arrive(r) PROVE TypeOK'
<1> USE DEF TypeOK, account
<1> DEFINE Typed(pc, b, c, n) ==
      /\ pc \in Pcs /\ b \in Browsers \cup {None} /\ c \in CodeIds \cup {NoCode}
      /\ n \in Nat /\ Begin(r, pc, b, c, n)
<1>1. ASSUME NEW pc, NEW b, NEW c, NEW n, Typed(pc, b, c, n),
             UNCHANGED <<account, history>>, codes' \in [CodeIds -> CodeRow]
      PROVE  TypeOK'
  <2>1. req' \in [Requests -> RequestState]
    BY <1>1, RequestTypes
  <2>2. QED
    BY <1>1, <2>1 DEF history
<1> HIDE DEF TypeOK
<1>2. ASSUME NEW pw \in Passwords, ReadForLogin(r, pw) PROVE TypeOK'
  <2>1. pw \in Nat /\ failed \in Nat
    BY DEF Passwords, TypeOK
  <2>2. codes' \in [CodeIds -> CodeRow] /\ UNCHANGED <<account, history>>
    BY <1>2 DEF ReadForLogin, TypeOK
  <2>3. \/ Typed("mint", None, NoCode, pw) \/ Typed("fail", None, NoCode, failed)
    BY <1>2, <2>1 DEF ReadForLogin, Pcs
  <2>4. QED
    BY <1>1, <2>2, <2>3
<1>3. CASE ReadForRefresh(r)
  <2>1. codes' \in [CodeIds -> CodeRow] /\ UNCHANGED <<account, history>>
    BY <1>3 DEF ReadForRefresh, TypeOK
  <2>2. \/ Typed("clear", None, NoCode, 0) \/ Typed("rotate", None, NoCode, 0)
    BY <1>3 DEF ReadForRefresh, Pcs
  <2>3. QED
    BY <1>1, <2>1, <2>2
<1>4. CASE ReadForPassword(r)
  <2>1. codes' \in [CodeIds -> CodeRow] /\ UNCHANGED <<account, history>>
    BY <1>4 DEF ReadForPassword, TypeOK
  <2>2. Typed("password", None, NoCode, 0)
    BY <1>4 DEF ReadForPassword, Pcs
  <2>3. QED
    BY <1>1, <2>1, <2>2
<1>5. ASSUME NEW b \in Browsers, RequestCode(r, b) PROVE TypeOK'
  <2>1. codes' \in [CodeIds -> CodeRow] /\ UNCHANGED <<account, history>>
    BY <1>5 DEF RequestCode, TypeOK
  <2>2. Typed("insert", b, NoCode, 0)
    BY <1>5 DEF RequestCode, Pcs
  <2>3. QED
    BY <1>1, <2>1, <2>2
<1>6. ASSUME NEW b \in Browsers, NEW c \in CodeIds,
             VerifyCode(r, b, c) \/ CompleteCode(r, b, c) \/ ReadForCancel(r, b, c)
      PROVE  TypeOK'
  <2>1. codes' \in [CodeIds -> CodeRow] /\ UNCHANGED <<account, history>>
    BY <1>6 DEF VerifyCode, CompleteCode, ReadForCancel, TypeOK, CodeRow
  <2>2. \/ Typed("claim", b, c, 0) \/ Typed("approve", b, c, 0)
        \/ Typed("lookup", b, c, 0) \/ Typed("cancel", b, NoCode, 0)
    BY <1>6 DEF VerifyCode, CompleteCode, ReadForCancel, Pcs
  <2>3. QED
    BY <1>1, <2>1, <2>2
<1>7. QED
  BY <1>2, <1>3, <1>4, <1>5, <1>6 DEF Arrive

\* Every state of SignIn is well typed.
THEOREM TypeCorrect == Spec => []TypeOK
<1>1. Init => TypeOK
  <2>1. 0 \in Passwords /\ Idle.pc \in Pcs /\ Idle \in RequestState
    BY DEF RequestState, Idle, Passwords, Pcs
  <2>2. [c \in CodeIds |-> <<>>] \in [CodeIds -> Seq(Browsers \cup {None})]
    OBVIOUS
  <2>3. Init => /\ codes \in [CodeIds -> CodeRow] /\ req \in [Requests -> RequestState]
                /\ opened \in [CodeIds -> Seq(Browsers \cup {None})]
    BY <2>1, <2>2, AbsentTyped, Zenon DEF Init
  <2>4. Init => /\ active \in BOOLEAN /\ locked \in BOOLEAN /\ lockedSince \in BOOLEAN
                /\ token \in BOOLEAN /\ tokenExpired \in BOOLEAN
                /\ failed = 0 /\ password = 0 /\ overtaken = {}
    BY Zenon DEF Init
  <2>5. 0 \in Nat /\ {} \subseteq Requests
    OBVIOUS
  <2>6. QED
    BY <2>1, <2>3, <2>4, <2>5, Zenon DEF TypeOK
<1>2. TypeOK /\ [Next]_vars => TypeOK'
  <2> SUFFICES ASSUME TypeOK, [Next]_vars PROVE TypeOK'
    OBVIOUS
  <2>1. CASE UNCHANGED vars
    BY <2>1 DEF vars, account, history, TypeOK
  <2>2. ASSUME NEW r \in Requests, Arrive(r) \/ Step(r) PROVE TypeOK'
    BY <2>2, TypeOfArrival, TypeOfStep
  <2>3. ASSUME NEW c \in CodeIds, MissCode(c) \/ Age(c) PROVE TypeOK'
    <3>1. codes \in [CodeIds -> CodeRow] /\ codes[c] \in CodeRow
      BY <2>3 DEF TypeOK
    <3>2. \A n \in Nat : [codes[c] EXCEPT !.attempts = n] \in CodeRow
      BY <3>1 DEF CodeRow
    <3>3. \A a \in Ages : [codes[c] EXCEPT !.age = a] \in CodeRow
      BY <3>1 DEF CodeRow
    <3>4. codes[c].attempts + 1 \in Nat
      BY <3>1 DEF CodeRow
    <3>5. codes' \in [CodeIds -> CodeRow]
      BY <2>3, <3>1, <3>2, <3>3, <3>4 DEF MissCode, Age, Ages
    <3>6. QED
      BY <2>3, <3>5 DEF MissCode, Age, OvertakesHolders, InFlight, account, TypeOK
  <2>4. CASE Logout \/ Suspend \/ Activate \/ LockEnds \/ TokenExpires
    BY <2>4 DEF Logout, Suspend, Activate, LockEnds, TokenExpires, Overtakes, InFlight,
                history, TypeOK
  <2>5. QED
    BY <2>1, <2>2, <2>3, <2>4 DEF Next
<1>3. QED
  BY <1>1, <1>2, PTL DEF Spec

-----------------------------------------------------------------------------
\* Steps after which no request holds a code that it did not hold before, and
\* no code is asked for anew or comes back into use.
LEMMA CodeKept ==
  ASSUME TypeOK, CodeInv, opened' = opened,
         \A c \in CodeIds : /\ codes'[c].browser = codes[c].browser
                            /\ codes[c].used => codes'[c].used,
         \A q \in Requests : \/ req'[q] = req[q]
                             \/ /\ req'[q].code = NoCode
                                /\ req'[q].pc \notin {"claim", "approve", "lookup"}
  PROVE  CodeInv'
<1>1. \A q \in Requests : req[q].code # NoCode => req[q].code \in CodeIds
  BY DEF TypeOK, RequestState
<1>2. \A q \in Requests, c \in CodeIds : Holds(q, c)' => Holds(q, c)
  BY DEF Holds, NoCode, CodeIds
<1>3. \A c \in CodeIds : Exists(c) <=> Exists(c)'
  BY DEF Exists
<1>4. ASSUME NEW q \in Requests PROVE InHand(q)'
  <2>1. InHand(q)
    BY DEF CodeInv
  <2>2. QED
    BY <1>1, <2>1 DEF InHand, Exists
<1>5. ASSUME NEW c \in CodeIds PROVE UsedOnce(c)'
  <2>1. UsedOnce(c)
    BY DEF CodeInv
  <2>2. QED
    BY <1>2, <1>3, <2>1 DEF UsedOnce
<1>6. QED
  BY <1>4, <1>5 DEF CodeInv

\* A request that replies leaves the codes to the others.
LEMMA CodeOfReplies ==
  ASSUME TypeOK, CodeInv, NEW r \in Requests,
         \/ FailLogin(r) \/ MintByPassword(r) \/ ClearExpired(r) \/ Rotate(r)
         \/ WritePassword(r) \/ Approve(r) \/ CancelCodes(r) \/ Cut(r)
  PROVE  CodeInv'
<1>1. \A q \in Requests : req'[q] = req[q] \/ req'[q] = Idle
  BY DEF FailLogin, MintByPassword, ClearExpired, Rotate, WritePassword, Approve,
         CancelCodes, Cut, MintSession, Reply, ReplyOvertaking, TypeOK
<1>2. opened' = opened
  BY DEF FailLogin, MintByPassword, ClearExpired, Rotate, WritePassword, Approve,
         CancelCodes, Cut
<1>3. codes' = codes \/ Approve(r) \/ CancelCodes(r)
  BY DEF FailLogin, MintByPassword, MintSession, ClearExpired, Rotate, WritePassword, Cut,
         account
<1>4. ASSUME NEW c \in CodeIds
      PROVE  codes'[c].browser = codes[c].browser /\ (codes[c].used => codes'[c].used)
  <2>1. codes \in [CodeIds -> CodeRow] /\ codes[c] \in CodeRow
    BY DEF TypeOK
  <2>2. CASE Approve(r)
    BY <2>1, <2>2 DEF Approve, CodeRow
  <2>3. CASE CancelCodes(r)
    BY <2>1, <2>3 DEF CancelCodes, CodeRow
  <2>4. QED
    BY <1>3, <2>2, <2>3
<1>5. QED
  BY <1>1, <1>2, <1>4, CodeKept DEF Idle

\* One step of a request.
LEMMA CodeOfStep == ASSUME TypeOK, CodeInv, NEW r \in Requests, Step(r) PROVE CodeInv'
<1>1. /\ req \in [Requests -> RequestState] /\ codes \in [CodeIds -> CodeRow]
      /\ \A q \in Requests : req[q].code \in CodeIds \cup {NoCode}
  BY DEF TypeOK, RequestState
<1>2. CASE InsertCode(r)
  <2>1. PICK c \in CodeIds :
          /\ ~Exists(c)
          /\ codes' = [codes EXCEPT ![c] = [Absent EXCEPT !.browser = req[r].browser]]
    BY <1>2 DEF InsertCode
  <2>2. req' = [req EXCEPT ![r] = Idle] /\ opened' = opened
    BY <1>2 DEF InsertCode, Reply
  <2>3. \A q \in Requests : req'[q] = req[q] \/ req'[q] = Idle
    BY <1>1, <2>2
  <2>4. \A q \in Requests : req[q].code # c
    BY <2>1 DEF CodeInv, InHand, CodeIds, NoCode
  <2>5. \A d \in CodeIds \ {c} : codes'[d] = codes[d]
    BY <1>1, <2>1
  <2>6. opened[c] = <<>> /\ opened'[c] = <<>>
    BY <2>1, <2>2 DEF CodeInv, UsedOnce
  <2>7. \A q \in Requests, d \in CodeIds : Holds(q, d)' => Holds(q, d) /\ d # c
    BY <2>3, <2>4 DEF Holds, Idle, NoCode, CodeIds
  <2>8. ASSUME NEW q \in Requests PROVE InHand(q)'
    <3>1. InHand(q)
      BY DEF CodeInv
    <3>2. CASE req'[q] = Idle
      BY <3>2 DEF InHand, Idle
    <3>3. CASE req'[q] = req[q]
      BY <1>1, <2>4, <2>5, <3>1, <3>3 DEF InHand, Exists
    <3>4. QED
      BY <2>3, <3>2, <3>3
  <2>9. ASSUME NEW d \in CodeIds PROVE UsedOnce(d)'
    <3>1. UsedOnce(d)
      BY DEF CodeInv
    <3>2. CASE d = c
      BY <2>6, <2>7, <3>2 DEF UsedOnce
    <3>3. CASE d # c
      BY <2>2, <2>5, <2>7, <3>1, <3>3 DEF UsedOnce, Exists
    <3>4. QED
      BY <3>2, <3>3
  <2>10. QED
    BY <2>8, <2>9 DEF CodeInv
<1>3. CASE ClaimCode(r) \/ LookUpAccount(r)
  <2> DEFINE c == req[r].code
  <2>1. CASE req' = [req EXCEPT ![r] = Idle]
    <3>1. \A q \in Requests : req'[q] = req[q] \/ req'[q] = Idle
      BY <1>1, <2>1
    <3>2. opened' = opened /\ \A d \in CodeIds :
            codes'[d].browser = codes[d].browser /\ (codes[d].used => codes'[d].used)
      BY <1>1, <1>3 DEF ClaimCode, LookUpAccount, CodeRow
    <3>3. QED
      BY <3>1, <3>2, CodeKept DEF Idle
  <2>2. CASE ClaimCode(r) /\ Go(r, "lookup")
    <3>1. AtPc(r, "claim") /\ c # NoCode /\ c \in CodeIds /\ Exists(c) /\ opened' = opened
      BY <1>1, <2>2 DEF ClaimCode, CodeInv, InHand, AtPc
    <3>2. ~codes[c].used /\ codes' = [codes EXCEPT ![c].used = TRUE]
      BY <1>1, <2>2, <3>1 DEF ClaimCode, Claimable, Unused, Go, Reply, AtPc, Idle, RequestState
    <3>3. \A d \in CodeIds : /\ codes'[d].browser = codes[d].browser
                             /\ d = c => codes'[d].used
                             /\ d # c => codes'[d] = codes[d]
      BY <1>1, <3>1, <3>2 DEF CodeRow
    <3>4. \A q \in Requests : /\ q # r => req'[q] = req[q]
                              /\ req'[q].code = req[q].code /\ req'[q].browser = req[q].browser
      BY <1>1, <2>2 DEF Go, RequestState
    <3>5. req'[r].pc = "lookup" /\ req[r].pc = "claim"
      BY <1>1, <2>2, <3>1 DEF Go, AtPc, RequestState
    <3>6. opened[c] = <<>> /\ \A q \in Requests : ~Holds(q, c)
      BY <3>1, <3>2 DEF CodeInv, UsedOnce
    <3>7. \A q \in Requests, d \in CodeIds :
            Holds(q, d)' => Holds(q, d) \/ (q = r /\ d = c)
      BY <3>4, <3>5 DEF Holds
    <3>8. ASSUME NEW q \in Requests PROVE InHand(q)'
      <4>1. InHand(q)
        BY DEF CodeInv
      <4>2. QED
        BY <1>1, <3>1, <3>3, <3>4, <3>5, <4>1 DEF InHand, Exists, WithCode
    <3>9. ASSUME NEW d \in CodeIds PROVE UsedOnce(d)'
      <4>1. UsedOnce(d)
        BY DEF CodeInv
      <4>2. CASE d = c
        BY <3>1, <3>3, <3>6, <3>7, <4>2 DEF UsedOnce
      <4>3. CASE d # c
        BY <3>1, <3>3, <3>7, <4>1, <4>3 DEF UsedOnce, Exists
      <4>4. QED
        BY <4>2, <4>3
    <3>10. QED
      BY <3>8, <3>9 DEF CodeInv
  <2>3. CASE LookUpAccount(r) /\ Go(r, "mint")
    <3>1. req[r].pc = "lookup" /\ codes' = codes /\ opened' = opened
      BY <2>3 DEF LookUpAccount, AtPc
    <3>2. \A q \in Requests : /\ q # r => req'[q] = req[q]
                              /\ req'[q].code = req[q].code /\ req'[q].browser = req[q].browser
      BY <1>1, <2>3 DEF Go, RequestState
    <3>3. req'[r].pc = "mint"
      BY <1>1, <2>3 DEF Go, RequestState
    <3>4. \A q \in Requests, d \in CodeIds : Holds(q, d)' <=> Holds(q, d)
      BY <3>1, <3>2, <3>3 DEF Holds
    <3>5. ASSUME NEW q \in Requests PROVE InHand(q)'
      <4>1. InHand(q)
        BY DEF CodeInv
      <4>2. QED
        BY <3>1, <3>2, <3>3, <4>1 DEF InHand, Exists, WithCode
    <3>6. ASSUME NEW d \in CodeIds PROVE UsedOnce(d)'
      <4>1. UsedOnce(d)
        BY DEF CodeInv
      <4>2. QED
        BY <3>1, <3>4, <4>1 DEF UsedOnce, Exists
    <3>7. QED
      BY <3>5, <3>6 DEF CodeInv
  <2>4. QED
    BY <1>3, <2>1, <2>2, <2>3 DEF ClaimCode, LookUpAccount, Reply
<1>4. CASE MintByCode(r)
  <2>0. PICK c \in CodeIds : c = req[r].code
    BY <1>1, <1>4 DEF MintByCode
  <2>1. req' = [req EXCEPT ![r] = Idle] /\ codes' = codes /\ Holds(r, c)
    BY <1>1, <1>4, <2>0 DEF MintByCode, MintSession, ReplyOvertaking, Holds, AtPc
  <2>2. /\ codes[c].used /\ opened[c] = <<>> /\ Exists(c)
        /\ req[r].browser = codes[c].browser
    BY <2>0, <2>1 DEF CodeInv, InHand, UsedOnce, Holds, NoCode, CodeIds
  <2>3. opened' = [opened EXCEPT ![c] = Append(opened[c], req[r].browser)]
    BY <1>4, <2>0 DEF MintByCode
  <2>4. opened'[c] = <<codes[c].browser>> /\ \A d \in CodeIds \ {c} : opened'[d] = opened[d]
    BY <2>1, <2>2, <2>3 DEF TypeOK
  <2>5. \A q \in Requests : req'[q] = req[q] \/ req'[q] = Idle
    BY <1>1, <2>1
  <2>6. \A q \in Requests, d \in CodeIds : Holds(q, d)' => Holds(q, d) /\ q # r
    BY <1>1, <2>1, <2>5 DEF Holds, Idle
  <2>7. \A q \in Requests : ~Holds(q, c)'
    <3>1. UsedOnce(c)
      BY <2>1 DEF CodeInv
    <3>2. QED
      BY <2>1, <2>6, <3>1 DEF UsedOnce
  <2>8. ASSUME NEW q \in Requests PROVE InHand(q)'
    <3>1. InHand(q)
      BY DEF CodeInv
    <3>2. CASE req'[q] = Idle
      BY <3>2 DEF InHand, Idle
    <3>3. CASE req'[q] = req[q]
      BY <2>1, <3>1, <3>3 DEF InHand, Exists
    <3>4. QED
      BY <2>5, <3>2, <3>3
  <2>9. ASSUME NEW d \in CodeIds PROVE UsedOnce(d)'
    <3>1. UsedOnce(d)
      BY DEF CodeInv
    <3>2. CASE d = c
      BY <2>1, <2>2, <2>4, <2>7, <3>2 DEF UsedOnce, Exists
    <3>3. CASE d # c
      BY <2>1, <2>4, <2>6, <3>1, <3>3 DEF UsedOnce, Exists
    <3>4. QED
      BY <3>2, <3>3
  <2>10. QED
    BY <2>8, <2>9 DEF CodeInv
<1>5. QED
  BY <1>2, <1>3, <1>4, CodeOfReplies DEF Step

\* A request that arrives.
LEMMA CodeOfArrival == ASSUME TypeOK, CodeInv, NEW r \in Requests, Arrive(r) PROVE CodeInv'
<1>1. /\ req \in [Requests -> RequestState] /\ codes \in [CodeIds -> CodeRow]
      /\ opened' = opened
  BY DEF TypeOK, Arrive, ReadForLogin, ReadForRefresh, ReadForPassword, RequestCode,
         VerifyCode, CompleteCode, ReadForCancel, history
<1>2. ASSUME NEW pc, NEW b, NEW n, Begin(r, pc, b, NoCode, n), codes' = codes,
             pc \notin {"claim", "approve", "lookup"}
      PROVE  CodeInv'
  <2>1. \A q \in Requests : \/ req'[q] = req[q]
                            \/ req'[q].code = NoCode /\ req'[q].pc = pc
    BY <1>1, <1>2 DEF Begin
  <2>2. QED
    BY <1>1, <1>2, <2>1, CodeKept
<1>3. ASSUME NEW pw \in Passwords, ReadForLogin(r, pw) PROVE CodeInv'
  <2>1. codes' = codes
    BY <1>3 DEF ReadForLogin
  <2>2. Begin(r, "mint", None, NoCode, pw) \/ Begin(r, "fail", None, NoCode, failed)
    BY <1>3 DEF ReadForLogin
  <2>3. QED
    BY <1>2, <2>1, <2>2
<1>4. CASE ReadForRefresh(r)
  <2>1. codes' = codes
    BY <1>4 DEF ReadForRefresh
  <2>2. Begin(r, "clear", None, NoCode, 0) \/ Begin(r, "rotate", None, NoCode, 0)
    BY <1>4 DEF ReadForRefresh
  <2>3. QED
    BY <1>2, <2>1, <2>2
<1>5. CASE ReadForPassword(r)
  BY <1>2, <1>5 DEF ReadForPassword
<1>6. ASSUME NEW b \in Browsers, RequestCode(r, b) PROVE CodeInv'
  BY <1>2, <1>6 DEF RequestCode
<1>7. ASSUME NEW b \in Browsers, NEW c \in CodeIds, VerifyCode(r, b, c) PROVE CodeInv'
  <2>1. /\ Exists(c) /\ ~codes[c].used /\ codes' = codes
        /\ \/ b = codes[c].browser /\ Begin(r, "claim", b, c, 0)
           \/ Begin(r, "approve", b, c, 0)
    BY <1>7 DEF VerifyCode, Verifiable, Pending, Unused
  <2>2. /\ \A q \in Requests \ {r} : req'[q] = req[q]
        /\ req'[r].pc \in {"claim", "approve"} /\ req'[r].code = c /\ req'[r].browser = b
        /\ req'[r].pc = "claim" => b = codes[c].browser
    BY <1>1, <2>1 DEF Begin
  <2>3. \A q \in Requests, d \in CodeIds : Holds(q, d)' => Holds(q, d)
    BY <2>2 DEF Holds
  <2>4. ASSUME NEW q \in Requests PROVE InHand(q)'
    <3>1. InHand(q)
      BY DEF CodeInv
    <3>2. QED
      BY <2>1, <2>2, <3>1 DEF InHand, Exists, WithCode, NoCode, CodeIds
  <2>5. ASSUME NEW d \in CodeIds PROVE UsedOnce(d)'
    <3>1. UsedOnce(d)
      BY DEF CodeInv
    <3>2. QED
      BY <1>1, <2>1, <2>3, <3>1 DEF UsedOnce, Exists
  <2>6. QED
    BY <2>4, <2>5 DEF CodeInv
<1>8. ASSUME NEW b \in Browsers, NEW c \in CodeIds, CompleteCode(r, b, c) PROVE CodeInv'
  <2>1. /\ Exists(c) /\ ~codes[c].used /\ b = codes[c].browser
        /\ codes' = [codes EXCEPT ![c].used = TRUE]
        /\ Begin(r, "lookup", b, c, 0)
    BY <1>8 DEF CompleteCode, Pending, Unused
  <2>2. /\ \A q \in Requests \ {r} : req'[q] = req[q]
        /\ req'[r].pc = "lookup" /\ req'[r].code = c /\ req'[r].browser = b
    BY <1>1, <2>1 DEF Begin
  <2>3. \A d \in CodeIds : /\ codes'[d].browser = codes[d].browser
                           /\ d = c => codes'[d].used
                           /\ d # c => codes'[d] = codes[d]
    BY <1>1, <2>1 DEF CodeRow
  <2>4. opened[c] = <<>> /\ \A q \in Requests : ~Holds(q, c)
    BY <2>1 DEF CodeInv, UsedOnce
  <2>5. \A q \in Requests, d \in CodeIds : Holds(q, d)' => Holds(q, d) \/ (q = r /\ d = c)
    BY <2>2 DEF Holds
  <2>6. ASSUME NEW q \in Requests PROVE InHand(q)'
    <3>1. InHand(q)
      BY DEF CodeInv
    <3>2. req[q].code \in CodeIds \cup {NoCode}
      BY <1>1 DEF RequestState
    <3>3. QED
      BY <2>1, <2>2, <2>3, <3>1, <3>2 DEF InHand, Exists, WithCode, NoCode, CodeIds
  <2>7. ASSUME NEW d \in CodeIds PROVE UsedOnce(d)'
    <3>1. UsedOnce(d)
      BY DEF CodeInv
    <3>2. CASE d = c
      BY <1>1, <2>3, <2>4, <2>5, <3>2 DEF UsedOnce
    <3>3. CASE d # c
      BY <1>1, <2>3, <2>5, <3>1, <3>3 DEF UsedOnce, Exists
    <3>4. QED
      BY <3>2, <3>3
  <2>8. QED
    BY <2>6, <2>7 DEF CodeInv
<1>9. ASSUME NEW b \in Browsers, NEW c \in CodeIds, ReadForCancel(r, b, c) PROVE CodeInv'
  BY <1>2, <1>9 DEF ReadForCancel
<1>10. QED
  BY <1>3, <1>4, <1>5, <1>6, <1>7, <1>8, <1>9 DEF Arrive

LEMMA CodeStep == TypeOK /\ CodeInv /\ [Next]_vars => CodeInv'
<1> SUFFICES ASSUME TypeOK, CodeInv, [Next]_vars PROVE CodeInv'
  OBVIOUS
<1>1. CASE UNCHANGED vars
  BY <1>1, CodeKept DEF vars, history
<1>2. ASSUME NEW r \in Requests, Arrive(r) \/ Step(r) PROVE CodeInv'
  BY <1>2, CodeOfArrival, CodeOfStep
<1>3. ASSUME NEW c \in CodeIds, MissCode(c) \/ Age(c) PROVE CodeInv'
  <2>1. req' = req /\ opened' = opened
    BY <1>3 DEF MissCode, Age
  <2>2. \A d \in CodeIds : codes'[d].browser = codes[d].browser /\ codes'[d].used = codes[d].used
    <3>1. codes \in [CodeIds -> CodeRow]
      BY DEF TypeOK
    <3>2. CASE MissCode(c)
      BY <3>1, <3>2 DEF MissCode, CodeRow
    <3>3. CASE Age(c)
      BY <3>1, <3>3 DEF Age, CodeRow
    <3>4. QED
      BY <1>3, <3>2, <3>3
  <2>3. QED
    BY <2>1, <2>2, CodeKept
<1>4. CASE Logout \/ Suspend \/ Activate \/ LockEnds \/ TokenExpires
  <2>1. req' = req /\ opened' = opened /\ codes' = codes
    BY <1>4 DEF Logout, Suspend, Activate, LockEnds, TokenExpires, history
  <2>2. QED
    BY <2>1, CodeKept
<1>5. QED
  BY <1>1, <1>2, <1>3, <1>4 DEF Next

LEMMA CodeInit == Init => CodeInv
<1> SUFFICES ASSUME Init PROVE CodeInv
  OBVIOUS
<1>1. ASSUME NEW r \in Requests PROVE InHand(r)
  BY DEF Init, InHand, Idle
<1>2. ASSUME NEW c \in CodeIds PROVE UsedOnce(c)
  BY DEF Init, UsedOnce, Holds, Idle
<1>3. QED
  BY <1>1, <1>2 DEF CodeInv

\* A one-time code signs in at most once, in the browser that asked for it,
\* however verifies, approvals, polls and cancels race for it.
THEOREM CodeOpensOneSessionAlways == Spec => []CodeOpensOneSession
<1>1. Spec => []CodeInv
  BY CodeInit, CodeStep, TypeCorrect, PTL DEF Spec
<1>2. CodeInv => CodeOpensOneSession
  <2> SUFFICES ASSUME CodeInv, NEW c \in CodeIds
               PROVE  /\ Len(opened[c]) <= 1
                      /\ opened[c] # <<>> => opened[c] = <<codes[c].browser>>
    BY DEF CodeOpensOneSession
  <2>1. opened[c] = <<>> \/ opened[c] = <<codes[c].browser>>
    BY DEF CodeInv, UsedOnce
  <2>2. Len(<<>>) = 0 /\ Len(<<codes[c].browser>>) = 1
    OBVIOUS
  <2>3. 0 <= 1 /\ 1 <= 1
    OBVIOUS
  <2>4. Len(opened[c]) <= 1
    BY <2>1, <2>2, <2>3, Zenon
  <2>5. QED
    BY <2>1, <2>4, Zenon
<1>3. QED
  BY <1>1, <1>2, PTL

-----------------------------------------------------------------------------
\* What the account's counter leaves uncounted.
LEMMA CountingBounded ==
  /\ IsFiniteSet(Counting) /\ Cardinality(Counting) \in Nat
  /\ Cardinality(Counting) <= Cardinality(Requests)
  /\ \A r \in Requests \ Counting : Cardinality(Counting) + 1 <= Cardinality(Requests)
<1>1. Counting \in SUBSET Requests /\ IsFiniteSet(Requests)
  BY BoundsAssumption DEF Counting
<1>2. IsFiniteSet(Counting) /\ Cardinality(Counting) <= Cardinality(Requests)
  BY <1>1, FS_Subset
<1>3. Cardinality(Counting) \in Nat /\ Cardinality(Requests) \in Nat
  BY <1>1, <1>2, FS_CardinalityType
<1>4. ASSUME NEW r \in Requests \ Counting
      PROVE  Cardinality(Counting) + 1 <= Cardinality(Requests)
  <2>1. Counting \in SUBSET (Requests \ {r})
    BY <1>1
  <2>2. IsFiniteSet(Requests \ {r}) /\ Cardinality(Requests \ {r}) = Cardinality(Requests) - 1
    BY <1>1, FS_RemoveElement
  <2>3. Cardinality(Counting) <= Cardinality(Requests) - 1
    BY <2>1, <2>2, FS_Subset
  <2>4. QED
    BY <1>3, <2>3
<1>5. QED
  BY <1>2, <1>3, <1>4

\* What is counted stays within the bound as long as no request starts counting
\* and the counter does not move.
LEMMA CountingShrinks ==
  ASSUME Counting' \subseteq Counting
  PROVE  Cardinality(Counting') \in Nat /\ Cardinality(Counting') <= Cardinality(Counting)
<1>1. IsFiniteSet(Counting) /\ Counting' \in SUBSET Counting
  BY CountingBounded
<1>2. IsFiniteSet(Counting') /\ Cardinality(Counting') <= Cardinality(Counting)
  BY <1>1, FS_Subset
<1>3. QED
  BY <1>2, FS_CardinalityType

LEMMA FailuresOfLogin ==
  ASSUME TypeOK, FailuresInv, NEW r \in Requests, NEW pw \in Passwords, ReadForLogin(r, pw)
  PROVE  FailuresInv'
<1>1. /\ lockedSince' = lockedSince /\ failed' = failed /\ failed \in Nat
      /\ r \notin Counting /\ req \in [Requests -> RequestState]
      /\ Cardinality(Requests) \in Nat /\ Threshold \in Nat
  BY BoundsAssumption, FS_CardinalityType
  DEF ReadForLogin, Begin, AtPc, Counting, account, history, TypeOK
<1>2. CASE Begin(r, "mint", None, NoCode, pw)
  <2>1. Counting' \subseteq Counting
    BY <1>1, <1>2 DEF Begin, Counting, AtPc
  <2>2. QED
    BY <1>1, <2>1, CountingShrinks, CountingBounded DEF FailuresInv
<1>3. CASE Begin(r, "fail", None, NoCode, failed)
  <2>1. /\ req'[r].seen = failed /\ \A q \in Requests \ {r} : req'[q] = req[q]
    BY <1>1, <1>3 DEF Begin
  <2>2. CASE Locks(failed)
    <3>1. Counting' \subseteq Counting
      BY <2>1, <2>2 DEF Counting, AtPc, Locks
    <3>2. QED
      BY <1>1, <3>1, CountingShrinks, CountingBounded DEF FailuresInv
  <2>3. CASE ~Locks(failed)
    <3>1. Counting' \subseteq Counting \cup {r}
      BY <2>1 DEF Counting, AtPc
    <3>2. IsFiniteSet(Counting \cup {r}) /\ Cardinality(Counting \cup {r}) = Cardinality(Counting) + 1
      BY <1>1, CountingBounded, FS_AddElement
    <3>3. Cardinality(Counting') <= Cardinality(Counting) + 1 /\ Cardinality(Counting') \in Nat
      BY <3>1, <3>2, FS_Subset, FS_CardinalityType
    <3>4. Cardinality(Counting) + 1 <= Cardinality(Requests) /\ Cardinality(Counting) \in Nat
      BY <1>1, CountingBounded
    <3>5. failed + 1 < Threshold /\ Threshold \in Nat
      BY <1>1, <2>3, BoundsAssumption DEF Locks
    <3>6. QED
      BY <1>1, <3>3, <3>4, <3>5 DEF FailuresInv
  <2>4. QED
    BY <2>2, <2>3
<1>4. QED
  BY <1>2, <1>3 DEF ReadForLogin

LEMMA FailuresOfFail ==
  ASSUME TypeOK, FailuresInv, NEW r \in Requests, FailLogin(r)
  PROVE  FailuresInv'
<1>1. /\ failed' = failed + 1 /\ failed \in Nat /\ req[r].pc = "fail"
      /\ req' = [req EXCEPT ![r] = Idle] /\ req \in [Requests -> RequestState]
  BY DEF FailLogin, Reply, ReplyOvertaking, AtPc, TypeOK
<1>2. CASE Locks(req[r].seen)
  BY <1>2 DEF FailLogin, FailuresInv
<1>3. CASE ~Locks(req[r].seen)
  <2>1. lockedSince' = lockedSince /\ r \in Counting
    BY <1>1, <1>3 DEF FailLogin, Counting, AtPc
  <2>2. Counting' \subseteq Counting \ {r}
    BY <1>1 DEF Counting, AtPc, Idle
  <2>3. /\ IsFiniteSet(Counting \ {r})
        /\ Cardinality(Counting \ {r}) = Cardinality(Counting) - 1
    BY <2>1, CountingBounded, FS_RemoveElement
  <2>4. Cardinality(Counting') <= Cardinality(Counting) - 1 /\ Cardinality(Counting') \in Nat
    BY <2>2, <2>3, FS_Subset, FS_CardinalityType
  <2>5. Cardinality(Requests) \in Nat /\ Threshold \in Nat /\ Cardinality(Counting) \in Nat
    BY BoundsAssumption, FS_CardinalityType, CountingBounded
  <2>6. QED
    BY <1>1, <2>1, <2>4, <2>5 DEF FailuresInv
<1>4. QED
  BY <1>2, <1>3

LEMMA FailuresOfMint ==
  ASSUME TypeOK, NEW r \in Requests, AtPc(r, "mint"), MintSession(r)
  PROVE  FailuresInv'
<1>1. failed' = 0 /\ req' = [req EXCEPT ![r] = Idle] /\ req \in [Requests -> RequestState]
  BY DEF MintSession, ReplyOvertaking, TypeOK
<1>2. r \notin Counting /\ Counting' \subseteq Counting
  BY <1>1 DEF Counting, AtPc, Idle
<1>3. Cardinality(Counting) + 1 <= Cardinality(Requests)
  BY <1>2, CountingBounded
<1>4. /\ Cardinality(Counting') <= Cardinality(Counting) /\ Cardinality(Counting') \in Nat
      /\ Cardinality(Counting) \in Nat /\ Cardinality(Requests) \in Nat
      /\ Threshold \in Nat \ {0}
  BY <1>2, CountingShrinks, CountingBounded, BoundsAssumption, FS_CardinalityType
<1>5. QED
  BY <1>1, <1>3, <1>4 DEF FailuresInv

\* A step that neither counts a failure nor starts to, nor resets the counter.
LEMMA FailuresOfOthers ==
  ASSUME TypeOK, FailuresInv, UNCHANGED <<failed, lockedSince>>,
         \A q \in Requests : req'[q] = req[q] \/ req'[q].pc # "fail"
  PROVE  FailuresInv'
<1>1. Counting' \subseteq Counting
  BY DEF Counting, AtPc
<1>2. failed \in Nat /\ Cardinality(Requests) \in Nat /\ Threshold \in Nat
  BY BoundsAssumption, FS_CardinalityType DEF TypeOK
<1>3. QED
  BY <1>1, <1>2, CountingShrinks, CountingBounded DEF FailuresInv

LEMMA FailuresStep == TypeOK /\ FailuresInv /\ [Next]_vars => FailuresInv'
<1> SUFFICES ASSUME TypeOK, FailuresInv, [Next]_vars PROVE FailuresInv'
  OBVIOUS
<1>1. CASE UNCHANGED vars
  BY <1>1, FailuresOfOthers DEF vars, account, history
<1>2. ASSUME NEW r \in Requests, Arrive(r) PROVE FailuresInv'
  <2>1. req \in [Requests -> RequestState]
    BY DEF TypeOK
  <2>2. ASSUME NEW pc, NEW b, NEW c, NEW n, pc # "fail", Begin(r, pc, b, c, n),
               UNCHANGED <<account, history>>
        PROVE  FailuresInv'
    <3>1. \A q \in Requests : req'[q] = req[q] \/ req'[q].pc # "fail"
      BY <2>1, <2>2 DEF Begin
    <3>2. QED
      BY <2>2, <3>1, FailuresOfOthers DEF account, history
  <2>3. CASE \E pw \in Passwords : ReadForLogin(r, pw)
    BY <2>3, FailuresOfLogin
  <2>4. CASE ReadForRefresh(r)
    <3>1. Begin(r, "clear", None, NoCode, 0) \/ Begin(r, "rotate", None, NoCode, 0)
      BY <2>4 DEF ReadForRefresh
    <3>2. QED
      BY <2>2, <2>4, <3>1 DEF ReadForRefresh
  <2>5. CASE ReadForPassword(r)
    BY <2>2, <2>5 DEF ReadForPassword
  <2>6. ASSUME NEW b \in Browsers, RequestCode(r, b) PROVE FailuresInv'
    BY <2>2, <2>6 DEF RequestCode
  <2>7. ASSUME NEW b \in Browsers, NEW c \in CodeIds,
               VerifyCode(r, b, c) \/ CompleteCode(r, b, c) \/ ReadForCancel(r, b, c)
        PROVE  FailuresInv'
    <3>1. /\ UNCHANGED <<account, history>>
          /\ \/ Begin(r, "claim", b, c, 0) \/ Begin(r, "approve", b, c, 0)
             \/ Begin(r, "lookup", b, c, 0) \/ Begin(r, "cancel", b, NoCode, 0)
      BY <2>7 DEF VerifyCode, CompleteCode, ReadForCancel
    <3>2. QED
      BY <2>2, <3>1
  <2>8. QED
    BY <1>2, <2>3, <2>4, <2>5, <2>6, <2>7 DEF Arrive
<1>3. ASSUME NEW r \in Requests, Step(r) PROVE FailuresInv'
  <2>1. CASE FailLogin(r)
    BY <2>1, FailuresOfFail
  <2>2. CASE MintByPassword(r) \/ MintByCode(r)
    BY <2>2, FailuresOfMint DEF MintByPassword, MintByCode
  <2>3. CASE \/ ClearExpired(r) \/ Rotate(r) \/ WritePassword(r) \/ InsertCode(r)
             \/ Approve(r) \/ ClaimCode(r) \/ LookUpAccount(r) \/ CancelCodes(r) \/ Cut(r)
    <3>1. failed' = failed /\ lockedSince' = lockedSince
      BY <2>3 DEF ClearExpired, Rotate, WritePassword, InsertCode, Approve, ClaimCode,
                  LookUpAccount, CancelCodes, Cut, account
    <3>2. \/ req' = [req EXCEPT ![r] = Idle] \/ req' = [req EXCEPT ![r].pc = "lookup"]
          \/ req' = [req EXCEPT ![r].pc = "mint"]
      BY <2>3 DEF ClearExpired, Rotate, WritePassword, InsertCode, Approve, ClaimCode,
                  LookUpAccount, CancelCodes, Cut, Reply, ReplyOvertaking, Go
    <3>3. \A q \in Requests : req'[q] = req[q] \/ req'[q].pc # "fail"
      BY <3>2 DEF TypeOK, RequestState, Idle
    <3>4. QED
      BY <3>1, <3>3, FailuresOfOthers
  <2>4. QED
    BY <1>3, <2>1, <2>2, <2>3 DEF Step
<1>4. ASSUME NEW c \in CodeIds, MissCode(c) \/ Age(c) PROVE FailuresInv'
  BY <1>4, FailuresOfOthers DEF MissCode, Age, account
<1>5. CASE Logout \/ Suspend \/ Activate \/ LockEnds \/ TokenExpires
  BY <1>5, FailuresOfOthers DEF Logout, Suspend, Activate, LockEnds, TokenExpires, history
<1>6. QED
  BY <1>1, <1>2, <1>3, <1>4, <1>5 DEF Next

LEMMA FailuresInit == Init => FailuresInv
<1> SUFFICES ASSUME Init PROVE FailuresInv
  OBVIOUS
<1>1. Counting = {} /\ failed = 0
  BY Zenon DEF Init, Counting, AtPc, Idle
<1>2. Cardinality(Counting) = 0
  BY <1>1, FS_EmptySet
<1>3. Cardinality(Requests) \in Nat /\ Cardinality(Requests) # 0 /\ Threshold \in Nat \ {0}
  BY BoundsAssumption, FS_CardinalityType, FS_EmptySet
<1>4. QED
  BY <1>1, <1>2, <1>3 DEF FailuresInv

\* However many failed logins race with each other and with the sign-ins that
\* reset the counter, the account locks before the counter passes the threshold
\* by more than the requests in flight explain.
THEOREM LockoutAlwaysBounded == Spec => []LockoutBounded
<1>1. Spec => []FailuresInv
  BY FailuresInit, FailuresStep, TypeCorrect, PTL DEF Spec
<1>2. TypeOK /\ FailuresInv => LockoutBounded
  <2> SUFFICES ASSUME TypeOK, FailuresInv, ~lockedSince
               PROVE  failed + 2 <= Threshold + Cardinality(Requests)
    BY DEF LockoutBounded
  <2>1. /\ Cardinality(Counting) \in Nat /\ Cardinality(Requests) \in Nat
        /\ failed \in Nat /\ Threshold \in Nat
    BY CountingBounded, BoundsAssumption, FS_CardinalityType DEF TypeOK
  <2>2. QED
    BY <2>1 DEF FailuresInv
<1>3. QED
  BY <1>1, <1>2, TypeCorrect, PTL

-----------------------------------------------------------------------------
\* A request in whose time nothing it read went out of date still knows it.
LEMMA KnowsKept ==
  ASSUME TypeOK, NEW q \in Requests, Knows(q), req'[q] = req[q],
         Admits => Admits', token => token', tokenExpired => tokenExpired',
         password' = password,
         \A c \in CodeIds : codes[c].age # "expired" /\ req[q].code = c =>
                              codes'[c].age # "expired"
  PROVE  Knows(q)'
<1>1. req[q].code # NoCode => req[q].code \in CodeIds
  BY DEF TypeOK, RequestState
<1>2. QED
  BY <1>1 DEF Knows, AtPc

\* A step after which nobody in flight counts on what it read.
LEMMA ReadAfterOvertaking ==
  ASSUME TypeOK, InFlight' \subseteq overtaken'
  PROVE  ReadInv'
<1>1. \A q \in Requests \ overtaken' : req'[q].pc = "idle"
  BY DEF InFlight, AtPc
<1>2. QED
  BY <1>1 DEF ReadInv, Knows, AtPc

LEMMA ReplyOvertakes ==
  ASSUME TypeOK, NEW r \in Requests, ReplyOvertaking(r)
  PROVE  ReadInv'
<1>1. InFlight' \subseteq overtaken'
  BY DEF TypeOK, ReplyOvertaking, InFlight, AtPc, Idle
<1>2. QED
  BY <1>1, ReadAfterOvertaking

\* A step of r, or of no request, that takes nothing back that others read.
LEMMA ReadOfHarmless ==
  ASSUME TypeOK, ReadInv, NEW r \in Requests,
         \A q \in Requests \ {r} : req'[q] = req[q] /\ (q \in overtaken => q \in overtaken'),
         r \notin overtaken' => Knows(r)',
         Admits => Admits', token => token', tokenExpired => tokenExpired',
         password' = password,
         \A c \in CodeIds : codes[c].age # "expired" => codes'[c].age # "expired"
  PROVE  ReadInv'
<1>1. ASSUME NEW q \in Requests \ overtaken', q # r PROVE Knows(q)'
  <2>1. q \in Requests \ overtaken /\ req'[q] = req[q]
    BY <1>1
  <2>2. Knows(q)
    BY <2>1 DEF ReadInv
  <2>3. QED
    BY <2>1, <2>2, KnowsKept
<1>2. QED
  BY <1>1 DEF ReadInv

\* A request that replies knows nothing and takes nothing back.
LEMMA ReadOfReply ==
  ASSUME TypeOK, ReadInv, NEW r \in Requests, Reply(r),
         Admits => Admits', token => token', tokenExpired => tokenExpired',
         password' = password,
         \A c \in CodeIds : codes[c].age # "expired" => codes'[c].age # "expired"
  PROVE  ReadInv'
<1>1. req' = [req EXCEPT ![r] = Idle] /\ overtaken' = overtaken \ {r}
  BY DEF Reply
<1>2. req'[r] = Idle /\ \A q \in Requests \ {r} : req'[q] = req[q]
  BY <1>1 DEF TypeOK
<1>3. Knows(r)'
  BY <1>2 DEF Knows, AtPc, Idle
<1>4. QED
  BY <1>1, <1>2, <1>3, ReadOfHarmless

LEMMA ReadOfArrival == ASSUME TypeOK, ReadInv, NEW r \in Requests, Arrive(r) PROVE ReadInv'
<1>1. req \in [Requests -> RequestState] /\ codes \in [CodeIds -> CodeRow]
  BY DEF TypeOK
<1>2. UNCHANGED <<account, history>>
  BY DEF Arrive, ReadForLogin, ReadForRefresh, ReadForPassword, RequestCode, VerifyCode,
         CompleteCode, ReadForCancel
<1>3. \A c \in CodeIds : codes'[c].age = codes[c].age
  BY <1>1 DEF Arrive, ReadForLogin, ReadForRefresh, ReadForPassword, RequestCode, VerifyCode,
              CompleteCode, ReadForCancel, CodeRow
<1>4. Admits' <=> Admits
  BY <1>2 DEF Admits, account
<1>5. ASSUME NEW pc, NEW b, NEW c, NEW n, Begin(r, pc, b, c, n),
             pc = "mint" => Admits /\ c = NoCode /\ n = password,
             pc \in {"claim", "lookup"} => c \in CodeIds /\ codes[c].age # "expired",
             pc = "rotate" => token /\ Admits,
             pc = "clear" => token /\ tokenExpired
      PROVE  ReadInv'
  <2>1. req'[r] = [pc |-> pc, browser |-> b, code |-> c, seen |-> n]
        /\ \A q \in Requests \ {r} : req'[q] = req[q]
    BY <1>1, <1>5 DEF Begin
  <2>2. Knows(r)'
    BY <1>2, <1>3, <1>4, <1>5, <2>1 DEF Knows, AtPc, account
  <2>3. QED
    BY <1>2, <1>3, <1>4, <2>1, <2>2, ReadOfHarmless DEF account, history
<1>6. ASSUME NEW pw \in Passwords, ReadForLogin(r, pw) PROVE ReadInv'
  <2>1. Admits /\ (\/ pw = password /\ Begin(r, "mint", None, NoCode, pw)
                   \/ Begin(r, "fail", None, NoCode, failed))
    BY <1>6 DEF ReadForLogin
  <2>2. QED
    BY <1>5, <2>1
<1>7. CASE ReadForRefresh(r)
  <2>1. token /\ Admits /\ (\/ tokenExpired /\ Begin(r, "clear", None, NoCode, 0)
                            \/ Begin(r, "rotate", None, NoCode, 0))
    BY <1>7 DEF ReadForRefresh, Refreshable
  <2>2. QED
    BY <1>5, <2>1
<1>8. CASE ReadForPassword(r)
  BY <1>5, <1>8 DEF ReadForPassword
<1>9. ASSUME NEW b \in Browsers, RequestCode(r, b) PROVE ReadInv'
  BY <1>5, <1>9 DEF RequestCode
<1>10. ASSUME NEW b \in Browsers, NEW c \in CodeIds,
              VerifyCode(r, b, c) \/ CompleteCode(r, b, c) \/ ReadForCancel(r, b, c)
       PROVE  ReadInv'
  <2>1. /\ codes[c].age # "expired"
        /\ \/ Begin(r, "claim", b, c, 0) \/ Begin(r, "approve", b, c, 0)
           \/ Begin(r, "lookup", b, c, 0) \/ Begin(r, "cancel", b, NoCode, 0)
    BY <1>10 DEF VerifyCode, Verifiable, CompleteCode, ReadForCancel, Pending
  <2>2. QED
    BY <1>5, <2>1
<1>11. QED
  BY <1>6, <1>7, <1>8, <1>9, <1>10 DEF Arrive

LEMMA ReadOfStep ==
  ASSUME TypeOK, CodeInv, ReadInv, NEW r \in Requests, Step(r) PROVE ReadInv'
<1>1. /\ req \in [Requests -> RequestState] /\ codes \in [CodeIds -> CodeRow]
      /\ req[r].code \in CodeIds \cup {NoCode}
  BY DEF TypeOK, RequestState
<1>2. CASE MintByPassword(r) \/ MintByCode(r) \/ ClearExpired(r) \/ WritePassword(r)
           \/ CancelCodes(r)
  BY <1>2, ReplyOvertakes
  DEF MintByPassword, MintByCode, MintSession, ClearExpired, WritePassword, CancelCodes
<1>3. CASE FailLogin(r)
  <2>1. CASE ReplyOvertaking(r)
    BY <2>1, ReplyOvertakes
  <2>2. CASE Reply(r) /\ UNCHANGED <<locked, lockedSince>>
    BY <1>3, <2>2, ReadOfReply DEF FailLogin, Admits
  <2>3. QED
    BY <1>3, <2>1, <2>2 DEF FailLogin
<1>4. CASE Rotate(r)
  BY <1>4, ReadOfReply DEF Rotate, Admits
<1>5. CASE InsertCode(r)
  <2>1. \A c \in CodeIds : codes[c].age # "expired" => codes'[c].age # "expired"
    <3>1. PICK d \in CodeIds :
            codes' = [codes EXCEPT ![d] = [Absent EXCEPT !.browser = req[r].browser]]
      BY <1>5 DEF InsertCode
    <3>2. [Absent EXCEPT !.browser = req[r].browser].age = "new"
      BY DEF Absent
    <3>3. QED
      BY <1>1, <3>1, <3>2
  <2>2. QED
    BY <1>5, <2>1, ReadOfReply DEF InsertCode, account, Admits
<1>6. CASE Approve(r)
  <2>1. \A c \in CodeIds : codes'[c].age = codes[c].age
    BY <1>1, <1>6 DEF Approve, CodeRow
  <2>2. QED
    BY <1>6, <2>1, ReadOfReply DEF Approve, account, Admits
<1>7. CASE Cut(r)
  BY <1>7, ReadOfReply DEF Cut, account, Admits
<1>8. CASE ClaimCode(r) \/ LookUpAccount(r)
  <2>1. /\ UNCHANGED account /\ (Admits' <=> Admits)
        /\ \A c \in CodeIds : codes'[c].age = codes[c].age
    BY <1>1, <1>8 DEF ClaimCode, LookUpAccount, account, Admits, CodeRow
  <2>2. CASE Reply(r)
    BY <2>1, <2>2, ReadOfReply DEF account
  <2>3. CASE ~Reply(r)
    <3>1. /\ overtaken' = overtaken
          /\ \/ req[r].pc = "claim" /\ req' = [req EXCEPT ![r].pc = "lookup"]
             \/ req[r].pc = "lookup" /\ Admits /\ req' = [req EXCEPT ![r].pc = "mint"]
      BY <1>8, <2>3 DEF ClaimCode, LookUpAccount, Go, AtPc
    <3>2. \A q \in Requests \ {r} : req'[q] = req[q]
      BY <1>1, <3>1
    <3>3. req'[r].code = req[r].code /\ req[r].code \in CodeIds
          /\ (req'[r].pc = "lookup" \/ (req'[r].pc = "mint" /\ Admits))
      <4>1. InHand(r)
        BY DEF CodeInv
      <4>2. QED
        BY <1>1, <3>1, <4>1 DEF InHand, RequestState
    <3>4. r \notin overtaken => Knows(r)'
      <4>1. r \notin overtaken => Knows(r)
        BY DEF ReadInv
      <4>2. r \notin overtaken => codes[req[r].code].age # "expired"
        BY <3>1, <3>3, <4>1 DEF Knows, NoCode, CodeIds
      <4>3. QED
        BY <2>1, <3>3, <4>2 DEF Knows, AtPc, NoCode, CodeIds
    <3>5. QED
      BY <2>1, <3>1, <3>2, <3>4, ReadOfHarmless DEF account
  <2>4. QED
    BY <2>2, <2>3
<1>9. QED
  BY <1>2, <1>3, <1>4, <1>5, <1>6, <1>7, <1>8 DEF Step

LEMMA ReadStep == TypeOK /\ CodeInv /\ ReadInv /\ [Next]_vars => ReadInv'
<1> SUFFICES ASSUME TypeOK, CodeInv, ReadInv, [Next]_vars PROVE ReadInv'
  OBVIOUS
<1> USE DEF Admits
<1>1. CASE UNCHANGED vars
  BY <1>1 DEF vars, account, history, ReadInv, Knows, AtPc
<1>2. ASSUME NEW r \in Requests, Arrive(r) \/ Step(r) PROVE ReadInv'
  BY <1>2, ReadOfArrival, ReadOfStep
<1>3. ASSUME NEW c \in CodeIds, MissCode(c) \/ Age(c) PROVE ReadInv'
  <2>1. /\ codes \in [CodeIds -> CodeRow] /\ req' = req /\ UNCHANGED account
        /\ overtaken' = overtaken \cup {q \in InFlight : req[q].code = c}
    BY <1>3 DEF MissCode, Age, OvertakesHolders, TypeOK
  <2>2. \A d \in CodeIds \ {c} : codes'[d] = codes[d]
    BY <1>3, <2>1 DEF MissCode, Age
  <2>3. ASSUME NEW q \in Requests \ overtaken' PROVE Knows(q)'
    <3>1. Knows(q) /\ (req[q].code # c \/ req[q].pc = "idle")
      BY <2>1, <2>3 DEF ReadInv, InFlight, AtPc
    <3>2. CASE req[q].pc = "idle"
      BY <2>1, <3>2 DEF Knows, AtPc
    <3>3. CASE req[q].code # c
      <4>1. Admits' <=> Admits
        BY <2>1 DEF account
      <4>2. \A d \in CodeIds : codes[d].age # "expired" /\ req[q].code = d =>
                                 codes'[d].age # "expired"
        BY <2>2, <3>3
      <4>3. QED
        BY <2>1, <3>1, <4>1, <4>2, KnowsKept DEF account
    <3>4. QED
      BY <3>1, <3>2, <3>3
  <2>4. QED
    BY <2>3 DEF ReadInv
<1>4. CASE Logout \/ Suspend
  BY <1>4, ReadAfterOvertaking DEF Logout, Suspend, Overtakes, InFlight, AtPc
<1>5. CASE Activate \/ LockEnds \/ TokenExpires
  <2>1. /\ req' = req /\ codes' = codes /\ overtaken' = overtaken /\ password' = password
        /\ token' = token
    BY <1>5 DEF Activate, LockEnds, TokenExpires, history
  <2>2. (Admits => Admits') /\ (tokenExpired => tokenExpired')
    BY <1>5 DEF Activate, LockEnds, TokenExpires
  <2>3. ASSUME NEW q \in Requests \ overtaken' PROVE Knows(q)'
    <3>1. Knows(q)
      BY <2>1 DEF ReadInv
    <3>2. QED
      BY <2>1, <2>2, <3>1, KnowsKept
  <2>4. QED
    BY <2>3 DEF ReadInv
<1>6. QED
  BY <1>1, <1>2, <1>3, <1>4, <1>5 DEF Next

LEMMA ReadInit == Init => ReadInv
BY DEF Init, ReadInv, Knows, AtPc, Idle

\* A sign-in, refresh or clearing goes against the row as it is only if the row
\* was changed while that request was in flight.
THEOREM StaleOnlyIfOvertakenAlways == Spec => StaleOnlyIfOvertaken
<1>1. Spec => []ReadInv
  BY CodeInit, CodeStep, ReadInit, ReadStep, TypeCorrect, PTL DEF Spec
<1> DEFINE AllFresh == \A r \in Requests \ overtaken :
      /\ MintByPassword(r) => Admits /\ req[r].seen = password
      /\ MintByCode(r) => Admits /\ codes[req[r].code].age # "expired"
      /\ Rotate(r) => token /\ Admits
      /\ ClearExpired(r) => token /\ tokenExpired
<1>2. ReadInv => AllFresh
  BY DEF ReadInv, Knows, MintByPassword, MintByCode, Rotate, ClearExpired, AtPc
<1>3. QED
  BY <1>1, <1>2, PTL DEF StaleOnlyIfOvertaken

-----------------------------------------------------------------------------
(* The status of an account: type correctness                              *)

LEMMA RowTyped ==
  ASSUME AccountTypeOK, NEW w \in Workers
  PROVE  /\ RowAfter(op[w]) \in [exists : BOOLEAN, active : BOOLEAN,
                                 trashed : BOOLEAN, expires : Nat]
         /\ ~RowAfter(op[w]).trashed => RowAfter(op[w]).expires = 0
<1>1. op[w].kind \in Kinds /\ op[w].expires \in Nat
  BY DEF AccountTypeOK
<1>2. CASE op[w].kind \in {"suspend", "update_off", "activate", "update_on"}
  BY <1>2 DEF AccountTypeOK, RowAfter
<1>3. CASE op[w].kind = "trash"
  BY <1>1, <1>3 DEF AccountTypeOK, RowAfter
<1>4. CASE op[w].kind = "restore"
  BY <1>4 DEF AccountTypeOK, RowAfter, Restored
<1>5. CASE op[w].kind \in {"delete", "purge"}
  BY <1>5 DEF AccountTypeOK, RowAfter, Deleted
<1> QED
  BY <1>1, <1>2, <1>3, <1>4, <1>5 DEF Kinds, AdminKinds

Operation == [kind : Kinds, expires : Nat, doms : SUBSET Sites,
              pc : {"idle", "list", "server", "write", "invalidate"}]

LEMMA NoOperationTyped == NoOperation \in Operation
BY DEF NoOperation, Operation, Kinds, AdminKinds

LEMMA InitTyped == AccountInit => AccountTypeOK
<1> SUFFICES ASSUME AccountInit PROVE AccountTypeOK
  OBVIOUS
<1>1. NoOperation \in Operation
  BY NoOperationTyped
<1>2. NoCall \in [pc : {"idle", "query", "put", "served"}, since : Nat,
                     allowed : BOOLEAN]
  BY DEF NoCall
<1> QED
  BY <1>1, <1>2 DEF AccountInit, AccountTypeOK, NoEntry, Operation

LEMMA StartTyped ==
  ASSUME AccountTypeOK, NEW w \in Workers, NEW kind \in Kinds,
         Start(w, kind) \/ (kind = "activate" /\ ActivateUnread(w))
  PROVE  AccountTypeOK'
<1>1. PICK step \in {"list", "write"} : Launch(w, kind, step)
  BY DEF Start, ActivateUnread, FirstStep
<1>2. (IF kind = "trash" THEN now + Retention ELSE 0) \in Nat
  BY ClockAssumption DEF AccountTypeOK
<1>3. op' \in [Workers -> Operation]
  <2>1. op \in [Workers -> Operation]
    BY DEF AccountTypeOK, Operation
  <2>2. [kind |-> kind, pc |-> step, doms |-> {},
         expires |-> IF kind = "trash" THEN now + Retention ELSE 0] \in Operation
    BY <1>2 DEF Operation
  <2> QED
    BY <1>1, <2>1, <2>2 DEF Launch
<1>4. trust' \in {"settled", "mending", "astray"}
  BY <1>1 DEF Launch
<1>5. faults' \in Nat
  BY DEF AccountTypeOK, Start, ActivateUnread
<1> QED
  BY <1>1, <1>3, <1>4, <1>5 DEF AccountTypeOK, Launch, Operation

\* Changing the server, whatever fails, keeps the types.
LEMMA ServerTyped ==
  ASSUME AccountTypeOK, NEW w \in Workers, NEW kept, NEW left,
         ServerCalls(w, kept, left)
  PROVE  /\ op' \in [Workers -> Operation]
         /\ site' \in [Sites -> {"live", "suspended", "gone"}]
         /\ listed' \subseteq Sites
<1>1. op' \in [Workers -> Operation]
  <2>1. op \in [Workers -> Operation]
    BY DEF AccountTypeOK, Operation
  <2>2. [op[w] EXCEPT !.pc = "write", !.doms = {}] \in Operation
    BY <2>1 DEF Operation
  <2> QED
    BY <2>1, <2>2 DEF ServerCalls
<1>2. \A kind \in Kinds : SiteAfter(kind) \in {"live", "suspended", "gone"}
  BY DEF SiteAfter
<1>3. site' \in [Sites -> {"live", "suspended", "gone"}]
  BY <1>2 DEF AccountTypeOK, ServerCalls
<1>4. listed' \subseteq Sites
  BY DEF AccountTypeOK, ServerCalls
<1> QED
  BY <1>1, <1>3, <1>4

LEMMA OperationTyped ==
  ASSUME AccountTypeOK, NEW w \in Workers, StepOf(w) \/ FailureOf(w)
  PROVE  AccountTypeOK'
<1> DEFINE Ops == [Workers -> Operation]
<1>0. NoOperation \in Operation /\ op \in Ops
  BY NoOperationTyped DEF AccountTypeOK, Operation
<1>5. CASE List(w) \/ ListFails(w)
  <2>1. op' \in Ops
    BY <1>0, <1>5 DEF AccountTypeOK, List, ListFails, Operation
  <2> QED
    BY <1>5, <2>1 DEF AccountTypeOK, List, ListFails, accountHistory, Operation
<1>1. CASE ChangeServer(w) \/ ServerCallsFail(w)
  <2>1. PICK kept, left : ServerCalls(w, kept, left)
    BY <1>1 DEF ChangeServer, ServerCallsFail
  <2>2. op' \in Ops /\ site' \in [Sites -> {"live", "suspended", "gone"}]
        /\ listed' \subseteq Sites
    BY <2>1, ServerTyped
  <2>3. faults' \in Nat /\ trust' \in {"settled", "mending", "astray"}
    BY <1>1 DEF AccountTypeOK, ChangeServer, ServerCallsFail
  <2> QED
    BY <2>1, <2>2, <2>3 DEF AccountTypeOK, ServerCalls, Operation
<1>2. CASE WriteRow(w)
  <2>1. op' \in Ops
    BY <1>0, <1>2 DEF WriteRow, Operation
  <2>2. /\ user' \in [exists : BOOLEAN, active : BOOLEAN, trashed : BOOLEAN,
                      expires : Nat]
        /\ ~user'.trashed => user'.expires = 0
    BY <1>2, RowTyped DEF AccountTypeOK, WriteRow
  <2>3. offSince' \in Nat /\ spoiled' \in BOOLEAN
    BY <1>2 DEF AccountTypeOK, WriteRow
  <2> QED
    BY <1>2, <2>1, <2>2, <2>3 DEF AccountTypeOK, WriteRow, Operation
<1>3. CASE Invalidate(w)
  <2>1. op' \in Ops
    BY <1>0, <1>3 DEF Invalidate
  <2> QED
    BY <1>3, <2>1 DEF AccountTypeOK, Invalidate, NoEntry, Operation
<1>4. CASE WriteFails(w)
  <2>1. op' \in Ops
    BY <1>0, <1>4 DEF WriteFails
  <2> QED
    BY <1>4, <2>1 DEF AccountTypeOK, WriteFails, Operation
<1> QED
  BY <1>1, <1>2, <1>3, <1>4, <1>5 DEF StepOf, FailureOf

LEMMA RequestTyped ==
  ASSUME AccountTypeOK, NEW r \in Calls,
         AskCache(r) \/ Query(r) \/ QueryFails(r) \/ Put(r)
  PROVE  AccountTypeOK'
<1> DEFINE Req == [pc : {"idle", "query", "put", "served"}, since : Nat,
                   allowed : BOOLEAN]
<1>0. \A a \in BOOLEAN, t \in Nat : Answer(a, t) \in Req
  BY DEF Answer, NoCall
<1>1. CASE AskCache(r)
  <2>1. call' \in [Calls -> Req]
    BY <1>0, <1>1 DEF AccountTypeOK, AskCache
  <2> QED
    BY <1>1, <2>1 DEF AccountTypeOK, AskCache, row, accountHistory
<1>2. CASE Query(r)
  <2>1. Active(user) \in BOOLEAN
    BY DEF AccountTypeOK, Active
  <2>2. call' = [call EXCEPT ![r] = [@ EXCEPT !.pc = "put",
                                            !.allowed = Active(user)]]
    BY <1>2 DEF Query, AccountTypeOK
  <2>3. call' \in [Calls -> Req]
    BY <2>1, <2>2 DEF AccountTypeOK
  <2> QED
    BY <1>2, <2>3 DEF AccountTypeOK, Query, row, accountHistory
<1>3. CASE QueryFails(r)
  BY <1>3 DEF AccountTypeOK, QueryFails, NoCall, row, accountHistory
<1>4. CASE Put(r)
  <2>1. call' \in [Calls -> Req]
    BY <1>0, <1>4 DEF AccountTypeOK, Put
  <2>2. Until(r) \in Nat
    BY ClockAssumption DEF AccountTypeOK, Until
  <2>3. entry' \in [cached : BOOLEAN, allowed : BOOLEAN, until : Nat]
    BY <1>4, <2>2 DEF AccountTypeOK, Put
  <2>4. spoiled' \in BOOLEAN
    BY <1>4 DEF AccountTypeOK, Put, Active
  <2> QED
    BY <1>4, <2>1, <2>3, <2>4 DEF AccountTypeOK, Put, row
<1> QED
  BY <1>1, <1>2, <1>3, <1>4

LEMMA RestOfTheWorldTyped == AccountTypeOK /\ (Tick \/ Restart) => AccountTypeOK'
<1>1. AccountTypeOK /\ Tick => AccountTypeOK'
  BY DEF AccountTypeOK, Tick, row, accountHistory
<1>2. AccountTypeOK /\ Restart => AccountTypeOK'
  <2> SUFFICES ASSUME AccountTypeOK, Restart PROVE AccountTypeOK'
    OBVIOUS
  <2>1. NoOperation \in Operation
    BY NoOperationTyped
  <2>2. NoCall \in [pc : {"idle", "query", "put", "served"}, since : Nat,
                       allowed : BOOLEAN]
    BY DEF NoCall
  <2>3. trust' \in {"settled", "mending", "astray"}
    BY DEF AccountTypeOK, Restart
  <2>4. op' \in [Workers -> Operation]
    BY <2>1 DEF Restart
  <2>5. call' \in [Calls -> [pc : {"idle", "query", "put", "served"},
                               since : Nat, allowed : BOOLEAN]]
    BY <2>2 DEF Restart
  <2>6. entry' \in [cached : BOOLEAN, allowed : BOOLEAN, until : Nat]
    BY DEF Restart, NoEntry
  <2>7. spoiled' \in BOOLEAN
    BY DEF Restart
  <2>8. /\ faults' \in Nat
        /\ user' = user /\ site' = site /\ now' = now /\ offSince' = offSince
        /\ listed' = listed
    BY DEF AccountTypeOK, Restart
  <2> QED
    BY <2>3, <2>4, <2>5, <2>6, <2>7, <2>8 DEF AccountTypeOK, Operation
<1> QED
  BY <1>1, <1>2

LEMMA StepTyped == AccountTypeOK /\ [AccountNext]_accountVars => AccountTypeOK'
<1> SUFFICES ASSUME AccountTypeOK, [AccountNext]_accountVars PROVE AccountTypeOK'
  OBVIOUS
<1>1. ASSUME NEW w \in Admins, NEW kind \in AdminKinds, Start(w, kind)
      PROVE  AccountTypeOK'
  BY <1>1, StartTyped DEF Workers, Kinds
<1>2. CASE Start(Purger, "purge")
  BY <1>2, StartTyped DEF Workers, Kinds
<1>7. ASSUME NEW w \in Admins, ActivateUnread(w) PROVE AccountTypeOK'
  BY <1>7, StartTyped DEF Workers, Kinds, AdminKinds
<1>3. ASSUME NEW w \in Workers, StepOf(w) \/ FailureOf(w) PROVE AccountTypeOK'
  BY <1>3, OperationTyped
<1>4. ASSUME NEW r \in Calls,
             AskCache(r) \/ Query(r) \/ QueryFails(r) \/ Put(r)
      PROVE  AccountTypeOK'
  BY <1>4, RequestTyped
<1>5. CASE Tick \/ Restart
  BY <1>5, RestOfTheWorldTyped
<1>6. CASE UNCHANGED accountVars
  BY <1>6 DEF AccountTypeOK, accountVars, row, accountHistory
<1> QED
  BY <1>1, <1>2, <1>3, <1>4, <1>5, <1>6, <1>7 DEF AccountNext

\* Every state is well typed, and only a row in the trash carries an expiry
\* (what Restore's $unset is for).
THEOREM AccountTypeCorrect == AccountSpec => []AccountTypeOK
BY InitTyped, StepTyped, PTL DEF AccountSpec
-----------------------------------------------------------------------------
(* How old an answer of the cache can be                                   *)

\* The bound on the answer, carried through the query and the cache entry.
StalenessInv ==
  /\ offSince <= now
  /\ \A r \in Calls : call[r].pc \in {"query", "put"} => call[r].since <= now
  /\ \A r \in Calls : call[r].pc = "put" /\ call[r].allowed
                           => call[r].since <= LastActive
  /\ entry.cached /\ entry.allowed => entry.until <= LastActive + TTL
  /\ BoundedStaleness

LEMMA LastActiveType ==
  AccountTypeOK /\ StalenessInv => LastActive \in Nat /\ LastActive <= now
BY DEF AccountTypeOK, StalenessInv, LastActive

\* The last moment of activity never moves back.
LEMMA LastActiveGrows ==
  ASSUME AccountTypeOK, AccountTypeOK', StalenessInv,
         \/ user' = user /\ offSince' = offSince /\ now' >= now
         \/ \E w \in Workers : WriteRow(w)
  PROVE  LastActive <= LastActive' /\ offSince' <= now'
<1>1. CASE user' = user /\ offSince' = offSince /\ now' >= now
  BY <1>1 DEF AccountTypeOK, StalenessInv, LastActive, Active
<1>2. CASE \E w \in Workers : WriteRow(w)
  <2>1. /\ now' = now
        /\ offSince' = IF Active(user') THEN 0
                       ELSE IF Active(user) THEN now ELSE offSince
    BY <1>2 DEF WriteRow
  <2>2. Active(user)' <=> Active(user')
    BY DEF Active
  <2> QED
    BY <2>1, <2>2 DEF AccountTypeOK, StalenessInv, LastActive
<1> QED
  BY <1>1, <1>2

\* A step that leaves the requests and the cache entry alone keeps the bound.
LEMMA BoundCarriedOver ==
  ASSUME AccountTypeOK, AccountTypeOK', StalenessInv,
         LastActive <= LastActive', offSince' <= now', now <= now',
         call' = call, entry' = entry \/ entry' = NoEntry
  PROVE  StalenessInv'
<1>1. LastActive \in Nat /\ LastActive' \in Nat /\ TTL \in Nat
  BY ClockAssumption DEF AccountTypeOK, LastActive
<1>2. ASSUME NEW r \in Calls
      PROVE  call[r].since \in Nat /\ now \in Nat /\ now' \in Nat
  BY DEF AccountTypeOK
<1>3. \A r \in Calls : call'[r].pc \in {"query", "put"}
                            => call'[r].since <= now'
  BY <1>2 DEF StalenessInv
<1>4. \A r \in Calls : call'[r].pc = "put" /\ call'[r].allowed
                            => call'[r].since <= LastActive'
  BY <1>1, <1>2 DEF StalenessInv
<1>5. entry'.cached /\ entry'.allowed => entry'.until <= LastActive' + TTL
  BY <1>1 DEF StalenessInv, NoEntry, AccountTypeOK
<1>6. BoundedStaleness'
  BY <1>1, <1>2 DEF StalenessInv, BoundedStaleness
<1> QED
  BY <1>3, <1>4, <1>5, <1>6 DEF StalenessInv

LEMMA RequestStaleness ==
  ASSUME AccountTypeOK, AccountTypeOK', StalenessInv, NEW r \in Calls,
         AskCache(r) \/ Query(r) \/ QueryFails(r) \/ Put(r)
  PROVE  StalenessInv'
<1>1. user' = user /\ now' = now /\ offSince' = offSince
  BY DEF AskCache, Query, QueryFails, Put, row, accountHistory
<1>2. LastActive' = LastActive
  BY <1>1 DEF LastActive, Active
<1>3. LastActive \in Nat /\ LastActive <= now /\ TTL \in Nat \ {0} /\ now \in Nat
  BY LastActiveType, ClockAssumption DEF AccountTypeOK
<1>4. \A q \in Calls : q # r => call'[q] = call[q]
  BY DEF AskCache, Query, QueryFails, Put, AccountTypeOK
<1>5. call[r].since \in Nat /\ call[r].allowed \in BOOLEAN
  BY DEF AccountTypeOK
<1> DEFINE
      Safe(q) == /\ q.pc \in {"query", "put"} => q.since <= now
                 /\ q.pc = "put" /\ q.allowed => q.since <= LastActive
                 /\ q.pc = "served" => q.since < LastActive + TTL
<1>6. \A q \in Calls : Safe(call[q])
  BY DEF StalenessInv, BoundedStaleness
<1>7. Safe(NoCall)
  BY DEF NoCall
<1>8. Safe(call'[r]) /\ (entry'.cached /\ entry'.allowed
                          => entry'.until <= LastActive + TTL)
  <2>1. CASE AskCache(r)
    <3>1. CASE ~Fresh
      <4>1. call'[r] = [pc |-> "query", since |-> now, allowed |-> FALSE]
        BY <2>1, <3>1 DEF AskCache, AccountTypeOK
      <4> QED
        BY <1>3, <2>1, <4>1 DEF AskCache, StalenessInv
    <3>2. CASE Fresh
      <4>1. call'[r] = Answer(entry.allowed, now)
        BY <2>1, <3>2 DEF AskCache, AccountTypeOK
      <4>2. entry.allowed => now < LastActive + TTL
        BY <1>3, <3>2 DEF Fresh, StalenessInv, AccountTypeOK
      <4>3. Safe(call'[r])
        BY <1>7, <4>1, <4>2 DEF Answer
      <4> QED
        BY <2>1, <4>3 DEF AskCache, StalenessInv
    <3> QED
      BY <3>1, <3>2
  <2>2. CASE Query(r)
    <3>1. call'[r].pc = "put" /\ call'[r].since = call[r].since
          /\ call'[r].allowed = Active(user) /\ call[r].pc = "query"
      BY <2>2 DEF Query, AccountTypeOK
    <3>2. Active(user) => LastActive = now
      BY DEF LastActive
    <3> QED
      BY <1>6, <2>2, <3>1, <3>2 DEF Query, StalenessInv
  <2>3. CASE QueryFails(r)
    <3>1. call'[r] = NoCall
      BY <2>3 DEF QueryFails, AccountTypeOK
    <3> QED
      BY <1>7, <2>3, <3>1 DEF QueryFails, StalenessInv
  <2>4. CASE Put(r)
    <3>1. /\ call'[r] = Answer(call[r].allowed, call[r].since)
          /\ entry' = [cached |-> TRUE, allowed |-> call[r].allowed,
                       until |-> Until(r)]
          /\ call[r].pc = "put"
      BY <2>4 DEF Put, AccountTypeOK
    <3>2. call[r].allowed => call[r].since <= LastActive
      BY <1>6, <3>1
    <3>3. Safe(call'[r])
      BY <1>3, <1>5, <1>7, <3>1, <3>2 DEF Answer
    <3>4. entry'.allowed => entry'.until <= LastActive + TTL
      BY <1>3, <1>5, <3>1, <3>2 DEF Until
    <3> QED
      BY <3>3, <3>4
  <2> QED
    BY <2>1, <2>2, <2>3, <2>4
<1>9. \A q \in Calls : Safe(call'[q])
  BY <1>4, <1>6, <1>8
<1> HIDE DEF Safe
<1>10. \A q \in Calls :
         /\ call'[q].pc \in {"query", "put"} => call'[q].since <= now'
         /\ call'[q].pc = "put" /\ call'[q].allowed => call'[q].since <= LastActive'
         /\ call'[q].pc = "served" => call'[q].since < LastActive' + TTL
  BY <1>1, <1>2, <1>9 DEF Safe
<1> QED
  BY <1>1, <1>2, <1>8, <1>10 DEF StalenessInv, BoundedStaleness

LEMMA StepStaleness == AccountTypeOK /\ StalenessInv /\ [AccountNext]_accountVars => StalenessInv'
<1> SUFFICES ASSUME AccountTypeOK, StalenessInv, [AccountNext]_accountVars PROVE StalenessInv'
  OBVIOUS
<1>0. AccountTypeOK'
  BY StepTyped
<1>1. ASSUME NEW w \in Workers, NEW kind \in Kinds,
             Start(w, kind) \/ ActivateUnread(w)
      PROVE  StalenessInv'
  <2>1. /\ user' = user /\ offSince' = offSince /\ now' = now
        /\ call' = call /\ entry' = entry
    BY <1>1 DEF Start, ActivateUnread, Launch
  <2> QED
    BY <1>0, <2>1, LastActiveGrows, BoundCarriedOver DEF AccountTypeOK
<1>2. ASSUME NEW w \in Workers, StepOf(w) \/ FailureOf(w)
      PROVE  StalenessInv'
  <2>1. /\ now' = now /\ call' = call /\ (entry' = entry \/ entry' = NoEntry)
        /\ \/ user' = user /\ offSince' = offSince
           \/ WriteRow(w)
    BY <1>2 DEF StepOf, FailureOf, List, ListFails, ChangeServer, ServerCallsFail,
               ServerCalls, WriteRow, Invalidate, WriteFails, accountHistory
  <2> QED
    BY <1>0, <2>1, LastActiveGrows, BoundCarriedOver DEF AccountTypeOK
<1>3. ASSUME NEW r \in Calls,
             AskCache(r) \/ Query(r) \/ QueryFails(r) \/ Put(r)
      PROVE  StalenessInv'
  BY <1>0, <1>3, RequestStaleness
<1>4. CASE Tick
  <2>1. /\ user' = user /\ offSince' = offSince /\ now' >= now /\ now <= now'
        /\ call' = call /\ entry' = entry
    BY <1>4 DEF Tick, AccountTypeOK, row, accountHistory
  <2> QED
    BY <1>0, <2>1, LastActiveGrows, BoundCarriedOver
<1>5. CASE Restart
  <2>1. /\ offSince' = offSince /\ now' = now
        /\ entry' = NoEntry /\ call' = [r \in Calls |-> NoCall]
    BY <1>5 DEF Restart
  <2>2. \A r \in Calls : call'[r].pc = "idle"
    BY <2>1 DEF NoCall
  <2>3. ~entry'.cached
    BY <2>1 DEF NoEntry
  <2>4. BoundedStaleness'
    BY <2>2 DEF BoundedStaleness
  <2> QED
    BY <2>1, <2>2, <2>3, <2>4 DEF StalenessInv
<1>6. CASE UNCHANGED accountVars
  <2>1. /\ user' = user /\ offSince' = offSince /\ now' = now
        /\ call' = call /\ entry' = entry
    BY <1>6 DEF accountVars, row, accountHistory
  <2> QED
    BY <1>0, <2>1, LastActiveGrows, BoundCarriedOver DEF AccountTypeOK
<1> QED
  BY <1>1, <1>2, <1>3, <1>4, <1>5, <1>6
     DEF AccountNext, Workers, Kinds, AdminKinds

LEMMA InitStaleness == AccountInit => StalenessInv
<1> SUFFICES ASSUME AccountInit PROVE StalenessInv
  OBVIOUS
<1>1. \A r \in Calls : call[r].pc = "idle"
  BY DEF AccountInit, NoCall
<1> QED
  BY <1>1 DEF AccountInit, StalenessInv, BoundedStaleness, NoEntry

\* A request is never let in on an answer as old as the cache's TTL, however
\* operations, requests, the clock, refused writes and restarts interleave.
THEOREM StalenessBounded == AccountSpec => []BoundedStaleness
<1>1. AccountInit => AccountTypeOK /\ StalenessInv
  BY InitTyped, InitStaleness
<1>2. AccountTypeOK /\ StalenessInv /\ [AccountNext]_accountVars => AccountTypeOK' /\ StalenessInv'
  BY StepTyped, StepStaleness
<1>3. StalenessInv => BoundedStaleness
  BY DEF StalenessInv
<1> QED
  BY <1>1, <1>2, <1>3, PTL DEF AccountSpec

-----------------------------------------------------------------------------
(* When the cache may contradict the row                                   *)

LEMMA StepStaleOnlyByRace ==
  AccountTypeOK /\ StaleOnlyByRace /\ [AccountNext]_accountVars => StaleOnlyByRace'
<1> SUFFICES ASSUME AccountTypeOK, StaleOnlyByRace, [AccountNext]_accountVars PROVE StaleOnlyByRace'
  OBVIOUS
<1>1. ASSUME NEW w \in Workers, NEW kind \in Kinds,
             Start(w, kind) \/ ActivateUnread(w)
      PROVE  StaleOnlyByRace'
  <2>1. \A v \in Workers : op[v].pc = "invalidate" => op'[v].pc = "invalidate"
    BY <1>1 DEF Start, ActivateUnread, Launch, AccountTypeOK
  <2>2. user' = user /\ entry' = entry /\ spoiled' = spoiled
    BY <1>1 DEF Start, ActivateUnread, Launch
  <2> QED
    BY <2>1, <2>2 DEF StaleOnlyByRace, Active
<1>2. ASSUME NEW w \in Workers, List(w) \/ ChangeServer(w) \/ FailureOf(w)
      PROVE  StaleOnlyByRace'
  <2>1. \A v \in Workers : op[v].pc = "invalidate" => op'[v].pc = "invalidate"
    BY <1>2 DEF List, ChangeServer, ServerCalls, FailureOf, ListFails,
               ServerCallsFail, WriteFails, AccountTypeOK
  <2>2. user' = user /\ entry' = entry /\ spoiled' = spoiled
    BY <1>2 DEF List, ChangeServer, ServerCalls, FailureOf, ListFails,
               ServerCallsFail, WriteFails, accountHistory
  <2> QED
    BY <2>1, <2>2 DEF StaleOnlyByRace, Active
<1>3. ASSUME NEW w \in Workers, WriteRow(w)
      PROVE  StaleOnlyByRace'
  <2>1. \A v \in Workers : op[v].pc = "invalidate" => op'[v].pc = "invalidate"
    BY <1>3 DEF WriteRow, AccountTypeOK
  <2>2. entry' = entry /\ spoiled' = (spoiled \/ op[w].kind = "update_off")
    BY <1>3 DEF WriteRow
  <2>3. CASE ~Active(user)
    BY <2>1, <2>2, <2>3 DEF StaleOnlyByRace
  <2>4. CASE Active(user) /\ ~Invalidates(op[w].kind)
    <3>1. op[w].kind \in {"update_on", "update_off"}
      BY <2>4 DEF Invalidates
    <3>2. CASE op[w].kind = "update_off"
      BY <2>2, <3>2 DEF StaleOnlyByRace
    <3>3. CASE op[w].kind = "update_on"
      <4>1. user' = [user EXCEPT !.active = TRUE]
        BY <1>3, <2>4, <3>3 DEF WriteRow, RowAfter, Active
      <4>2. Active(user)'
        BY <2>4, <4>1 DEF Active, AccountTypeOK
      <4> QED
        BY <4>2 DEF StaleOnlyByRace
    <3> QED
      BY <3>1, <3>2, <3>3
  <2>5. CASE Active(user) /\ Invalidates(op[w].kind)
    <3>1. op'[w].pc = "invalidate"
      BY <1>3, <2>5 DEF WriteRow, AccountTypeOK, Active
    <3> QED
      BY <3>1 DEF StaleOnlyByRace
  <2> QED
    BY <2>3, <2>4, <2>5
<1>4. ASSUME NEW w \in Workers, Invalidate(w)
      PROVE  StaleOnlyByRace'
  BY <1>4 DEF Invalidate, StaleOnlyByRace, NoEntry
<1>5. ASSUME NEW r \in Calls, AskCache(r) \/ Query(r) \/ QueryFails(r)
      PROVE  StaleOnlyByRace'
  BY <1>5 DEF AskCache, Query, QueryFails, row, accountHistory, StaleOnlyByRace, Active
<1>6. ASSUME NEW r \in Calls, Put(r)
      PROVE  StaleOnlyByRace'
  BY <1>6 DEF Put, row, StaleOnlyByRace, Active
<1>7. CASE Tick
  BY <1>7 DEF Tick, row, accountHistory, StaleOnlyByRace, Active
<1>8. CASE Restart
  BY <1>8 DEF Restart, NoEntry, StaleOnlyByRace
<1>9. CASE UNCHANGED accountVars
  BY <1>9 DEF accountVars, row, accountHistory, StaleOnlyByRace, Active
<1> QED
  BY <1>1, <1>2, <1>3, <1>4, <1>5, <1>6, <1>7, <1>8, <1>9
     DEF AccountNext, StepOf, Workers, Kinds, AdminKinds

\* The cache contradicts the row only in the three named windows.
THEOREM StaleOnlyByRaceAlways == AccountSpec => []StaleOnlyByRace
<1>1. AccountInit => AccountTypeOK /\ StaleOnlyByRace
  BY InitTyped DEF AccountInit, StaleOnlyByRace, NoEntry
<1> QED
  BY <1>1, StepTyped, StepStaleOnlyByRace, PTL DEF AccountSpec

-----------------------------------------------------------------------------
(* Sites and row after an operation that ran alone and whole               *)

Agree ==
  /\ \A s \in listed : site[s] = IF Active(user) THEN "live" ELSE "suspended"
  /\ ~user.exists => listed = {}

\* How far an operation that runs alone has brought the sites and the row.
Stage(w) ==
  /\ op[w].kind \notin {"update_on", "update_off"}
  /\ op[w].pc \in {"list", "server", "write", "invalidate"}
  /\ op[w].pc # "invalidate" => user.exists
  /\ op[w].pc = "server" => op[w].doms = listed
  /\ op[w].pc = "write" =>
       IF TearsDown(op[w].kind) THEN listed = {}
       ELSE \A s \in listed : site[s] = SiteAfter(op[w].kind)
  /\ op[w].pc = "invalidate" => Agree

\* The operation in flight is the only one.
Alone(w) == Stage(w) /\ \A v \in Workers : v # w => op[v].pc = "idle"

SitesInv ==
  /\ trust = "settled" => Agree /\ \A w \in Workers : op[w].pc = "idle"
  /\ trust = "mending" => \E w \in Workers : Alone(w)

LEMMA StartKeepsSites ==
  ASSUME AccountTypeOK, SitesInv, NEW w \in Workers, NEW kind \in Kinds,
         Start(w, kind)
  PROVE  SitesInv'
<1>1. CASE trust' = "astray"
  BY <1>1 DEF SitesInv
<1>2. CASE trust' # "astray"
  <2>1. /\ trust' = "mending" /\ \A v \in Workers : op[v].pc = "idle"
        /\ FirstStep(kind) = "list" /\ user' = user
    BY <1>2 DEF Start, Launch
  <2>2. user.exists /\ kind \notin {"update_on", "update_off"}
    BY <2>1 DEF FirstStep
  <2>3. /\ op'[w].kind = kind /\ op'[w].pc = "list"
        /\ \A v \in Workers : v # w => op'[v].pc = "idle"
    BY <2>1 DEF Start, Launch, AccountTypeOK
  <2>4. Alone(w)'
    BY <2>1, <2>2, <2>3 DEF Alone, Stage
  <2> QED
    BY <2>1, <2>4 DEF SitesInv
<1> QED
  BY <1>1, <1>2

\* A site of a row that was written agrees with it.
LEMMA WriteAgrees ==
  ASSUME AccountTypeOK, NEW w \in Workers, Stage(w), WriteRow(w)
  PROVE  Agree'
<1>1. /\ op[w].pc = "write" /\ user.exists /\ user' = RowAfter(op[w])
      /\ site' = site /\ listed' = listed
  BY DEF Stage, WriteRow
<1>2. CASE TearsDown(op[w].kind)
  BY <1>1, <1>2 DEF Stage, Agree, TearsDown
<1>3. CASE ~TearsDown(op[w].kind)
  <2>1. \A s \in listed : site[s] = SiteAfter(op[w].kind)
    BY <1>1, <1>3 DEF Stage
  <2>2. op[w].kind \in {"suspend", "trash", "activate", "restore"}
    BY <1>3 DEF Stage, TearsDown, AccountTypeOK, Kinds, AdminKinds
  <2>3. CASE op[w].kind \in {"suspend", "trash"}
    <3>1. user'.exists /\ ~user'.active
      BY <1>1, <2>3 DEF RowAfter, AccountTypeOK
    <3>2. SiteAfter(op[w].kind) = "suspended"
      BY <1>3, <2>3 DEF SiteAfter, Suspends
    <3> QED
      BY <1>1, <2>1, <3>1, <3>2 DEF Agree, Active
  <2>4. CASE op[w].kind \in {"activate", "restore"}
    <3>1. user'.exists /\ user'.active
      BY <1>1, <2>4 DEF RowAfter, Restored, AccountTypeOK
    <3>2. SiteAfter(op[w].kind) = "live"
      BY <1>3, <2>4 DEF SiteAfter, Suspends
    <3> QED
      BY <1>1, <2>1, <3>1, <3>2 DEF Agree, Active
  <2> QED
    BY <2>2, <2>3, <2>4
<1> QED
  BY <1>2, <1>3

LEMMA StageMoves ==
  ASSUME AccountTypeOK, NEW w \in Workers, Stage(w),
         List(w) \/ ChangeServer(w) \/ WriteRow(w)
  PROVE  Stage(w)'
<1>1. CASE List(w)
  <2>1. /\ op'[w].pc = "server" /\ op'[w].kind = op[w].kind
        /\ op'[w].doms = listed /\ listed' = listed /\ user' = user
        /\ op[w].pc = "list"
    BY <1>1 DEF List, AccountTypeOK
  <2> QED
    BY <2>1 DEF Stage
<1>2. CASE ChangeServer(w)
  <2>1. /\ op'[w].pc = "write" /\ op'[w].kind = op[w].kind /\ user' = user
        /\ op[w].pc = "server"
    BY <1>2 DEF ChangeServer, ServerCalls, AccountTypeOK
  <2>2. /\ listed' = IF TearsDown(op[w].kind)
                     THEN listed \ op[w].doms ELSE listed
        /\ \A s \in op[w].doms : site'[s] = SiteAfter(op[w].kind)
    BY <1>2 DEF ChangeServer, ServerCalls, AccountTypeOK
  <2>3. op[w].doms = listed /\ user.exists
    BY <2>1 DEF Stage
  <2>4. IF TearsDown(op[w].kind) THEN listed' = {}
        ELSE \A s \in listed' : site'[s] = SiteAfter(op[w].kind)
    BY <2>2, <2>3
  <2> QED
    BY <2>1, <2>3, <2>4 DEF Stage, SiteAfter, TearsDown, Suspends
<1>3. CASE WriteRow(w)
  <2>1. op[w].pc = "write" /\ user.exists /\ Invalidates(op[w].kind)
    BY <1>3 DEF WriteRow, Stage, Invalidates
  <2>2. op'[w].pc = "invalidate" /\ op'[w].kind = op[w].kind
    BY <1>3, <2>1 DEF WriteRow, AccountTypeOK
  <2>3. Agree'
    BY <1>3, WriteAgrees
  <2> QED
    BY <2>2, <2>3 DEF Stage
<1> QED
  BY <1>1, <1>2, <1>3

LEMMA OperationKeepsSites ==
  ASSUME AccountTypeOK, SitesInv, NEW w \in Workers, StepOf(w)
  PROVE  SitesInv'
<1>1. /\ op[w].pc # "idle" /\ trust \in {"settled", "mending", "astray"}
      /\ \A v \in Workers : v # w => op'[v] = op[v]
  BY DEF StepOf, List, ChangeServer, ServerCalls, WriteRow, Invalidate, AccountTypeOK
<1>2. CASE trust = "astray"
  BY <1>2 DEF StepOf, List, ChangeServer, WriteRow, Invalidate, accountHistory, SitesInv
<1>3. trust # "settled"
  BY <1>1 DEF SitesInv
<1>4. CASE trust = "mending"
  <2>1. Stage(w) /\ \A v \in Workers : v # w => op'[v].pc = "idle"
    BY <1>1, <1>4 DEF SitesInv, Alone
  <2>2. CASE List(w) \/ ChangeServer(w) \/ WriteRow(w)
    <3>1. Stage(w)'
      BY <2>1, <2>2, StageMoves
    <3>2. trust' = trust
      BY <2>2 DEF List, ChangeServer, WriteRow, accountHistory
    <3>3. Alone(w)'
      BY <2>1, <3>1 DEF Alone
    <3> QED
      BY <1>4, <3>2, <3>3 DEF SitesInv
  <2>3. CASE Invalidate(w)
    <3>1. /\ op[w].pc = "invalidate" /\ user' = user /\ site' = site
          /\ listed' = listed /\ op'[w].pc = "idle" /\ trust' = "settled"
      BY <1>4, <2>3 DEF Invalidate, AccountTypeOK, NoOperation
    <3>2. Agree
      BY <2>1, <3>1 DEF Stage
    <3>3. Agree'
      BY <3>1, <3>2 DEF Agree, Active
    <3> QED
      BY <2>1, <3>1, <3>3 DEF SitesInv
  <2> QED
    BY <2>2, <2>3 DEF StepOf
<1> QED
  BY <1>1, <1>2, <1>3, <1>4

LEMMA StepKeepsSites == AccountTypeOK /\ SitesInv /\ [AccountNext]_accountVars => SitesInv'
<1> SUFFICES ASSUME AccountTypeOK, SitesInv, [AccountNext]_accountVars PROVE SitesInv'
  OBVIOUS
<1>1. ASSUME NEW w \in Workers, NEW kind \in Kinds, Start(w, kind)
      PROVE  SitesInv'
  BY <1>1, StartKeepsSites
<1>2. ASSUME NEW w \in Workers, StepOf(w) PROVE SitesInv'
  BY <1>2, OperationKeepsSites
<1>3. ASSUME NEW w \in Workers, FailureOf(w) \/ ActivateUnread(w) PROVE SitesInv'
  <2>1. trust' = "astray"
    BY <1>3 DEF FailureOf, ListFails, ServerCallsFail, WriteFails, ActivateUnread, Launch
  <2> QED
    BY <2>1 DEF SitesInv
<1>4. CASE (\E r \in Calls : AskCache(r) \/ Query(r) \/ QueryFails(r) \/ Put(r))
           \/ Tick \/ UNCHANGED accountVars
  <2>1. /\ user' = user /\ site' = site /\ listed' = listed /\ op' = op
        /\ trust' = trust
    BY <1>4 DEF AskCache, Query, QueryFails, Put, Tick, row, accountHistory, accountVars
  <2>2. Agree' <=> Agree
    BY <2>1 DEF Agree, Active
  <2>3. ASSUME NEW w \in Workers, Alone(w) PROVE Alone(w)'
    BY <2>1, <2>2, <2>3 DEF Alone, Stage, SiteAfter, TearsDown, Suspends
  <2> QED
    BY <2>1, <2>2, <2>3 DEF SitesInv
<1>5. CASE Restart
  <2>1. /\ user' = user /\ site' = site /\ listed' = listed
        /\ op' = [w \in Workers |-> NoOperation]
        /\ trust' = IF \E w \in Workers : op[w].pc # "idle" THEN "astray" ELSE trust
    BY <1>5 DEF Restart
  <2>2. \A w \in Workers : op'[w].pc = "idle"
    BY <2>1 DEF NoOperation
  <2>3. trust' # "mending"
    BY <2>1 DEF SitesInv, Alone, Stage
  <2>4. trust' = "settled" => Agree'
    BY <2>1 DEF SitesInv, Agree, Active
  <2> QED
    BY <2>2, <2>3, <2>4 DEF SitesInv
<1> QED
  BY <1>1, <1>2, <1>3, <1>4, <1>5 DEF AccountNext, Workers, Kinds

LEMMA InitSites == AccountInit => SitesInv
<1> SUFFICES ASSUME AccountInit PROVE SitesInv
  OBVIOUS
<1>1. \A w \in Workers : op[w].pc = "idle"
  BY DEF AccountInit, NoOperation
<1>2. Agree
  BY DEF AccountInit, Agree, Active
<1> QED
  BY <1>1, <1>2 DEF AccountInit, SitesInv

\* Whatever calls failed and whatever was cut or overlapped before: an
\* operation that runs alone and whole leaves every domain the account still
\* has served exactly while the account is active.
THEOREM SitesFollowRowAlways == AccountSpec => []SitesFollowRow
<1>1. AccountInit => AccountTypeOK /\ SitesInv
  BY InitTyped, InitSites
<1>2. SitesInv => SitesFollowRow
  BY DEF SitesInv, SitesFollowRow, Agree
<1> QED
  BY <1>1, <1>2, StepTyped, StepKeepsSites, PTL DEF AccountSpec

\* A vhost is left without a row only by a failing call or by an operation
\* that had read the row before it was torn down.
THEOREM StrandedOnlyByRaceAlways == AccountSpec => StrandedOnlyByRace
<1> DEFINE Strands == \/ Stranded' \subseteq Stranded
                      \/ faults' > faults
                      \/ \E w \in Workers :
                           /\ op[w].pc = "server" /\ op'[w].pc = "write"
                           /\ ~TearsDown(op[w].kind)
                           /\ Stranded' \ Stranded \subseteq op[w].doms \ listed
<1>1. AccountTypeOK /\ [AccountNext]_accountVars => Strands
  <2> SUFFICES ASSUME AccountTypeOK, [AccountNext]_accountVars PROVE Strands
    OBVIOUS
  <2>1. ASSUME NEW w \in Workers, ChangeServer(w) PROVE Strands
    <3>1. /\ op[w].pc = "server" /\ op'[w].pc = "write"
          /\ site' = [s \in Sites |-> IF s \in op[w].doms
                                      THEN SiteAfter(op[w].kind) ELSE site[s]]
          /\ listed' = IF TearsDown(op[w].kind) THEN listed \ op[w].doms
                       ELSE listed
      BY <2>1 DEF ChangeServer, ServerCalls, AccountTypeOK
    <3>2. CASE TearsDown(op[w].kind)
      BY <3>1, <3>2 DEF Stranded, SiteAfter
    <3>3. CASE ~TearsDown(op[w].kind)
      <4>1. Stranded' \ Stranded \subseteq op[w].doms \ listed
        BY <3>1, <3>3 DEF Stranded
      <4> QED
        BY <3>1, <3>3, <4>1
    <3> QED
      BY <3>2, <3>3
  <2>2. ASSUME faults' = faults + 1 PROVE Strands
    BY <2>2 DEF AccountTypeOK
  <2>3. ASSUME site' = site, listed' = listed PROVE Strands
    BY <2>3 DEF Stranded
  <2>4. \/ \E w \in Workers : ChangeServer(w)
        \/ faults' = faults + 1
        \/ site' = site /\ listed' = listed
    BY DEF AccountNext, Workers, Start, ActivateUnread, Launch, StepOf, FailureOf,
           List, ListFails, ServerCallsFail, WriteRow, WriteFails, Invalidate,
           AskCache, Query, QueryFails, Put, Tick, Restart, row, accountVars
  <2> QED
    BY <2>1, <2>2, <2>3, <2>4
<1> HIDE DEF Strands
<1>2. AccountSpec => [][Strands]_accountVars
  BY <1>1, AccountTypeCorrect, PTL DEF AccountSpec
<1> QED
  BY <1>2, PTL DEF Strands, StrandedOnlyByRace
=============================================================================
