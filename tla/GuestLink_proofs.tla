--------------------------- MODULE GuestLink_proofs ---------------------------
(***************************************************************************)
(* Proofs about GuestLink for any number of links, browsers and requests   *)
(* and any lengths of the window and the deadline.                         *)
(*                                                                         *)
(* OneBrowser is not inductive: that a served browser is the opener rests  *)
(* on bind tokens never travelling from one browser to another, through    *)
(* the row, a request in flight or a cookie.  TokensStayHome says so.      *)
(***************************************************************************)
EXTENDS GuestLink, TLAPS

TokensStayHome ==
  /\ \A b \in Browsers : cookie[b].bind # None => cookie[b].bind[2] = b
  /\ \A r \in Requests : req[r].pc # "idle" /\ req[r].bind # None
                           => req[r].bind[2] = req[r].browser
  /\ \A l \in Links : \A b \in served[l] :
       binding[l] # None /\ binding[l][2] = b

WindowFixed ==
  \A l \in Links : Redeemed(l) =>
    /\ status[l] # "absent"
    /\ windowAt[l] = firstOpen[l] + Window
    /\ firstOpen[l] <= now
    /\ firstOpen[l] <= expiresAt[l]
    /\ served[l] # {} => firstOpen[l] <= lastServed[l] /\ lastServed[l] <= windowAt[l]

\* A redeem that passed its test goes to the claim with the clock it read.
TestedInTime ==
  \A r \in Requests : req[r].pc # "idle" =>
    /\ status[req[r].link] # "absent"
    /\ req[r].pc = "bind" =>
         req[r].at <= now /\ req[r].at <= expiresAt[req[r].link]

IInv == TypeOK /\ TokensStayHome /\ WindowFixed /\ TestedInTime

-----------------------------------------------------------------------------
\* None is not a token, so a cookie or a binding is either absent or a token.
LEMMA NoneIsNoToken == None \notin Token
BY NoneAssumption DEF Token

\* Every state of GuestLink is well typed: in particular the mailbox count
\* never drops below zero.
THEOREM TypeCorrect == Spec => []TypeOK
<1> USE ClockAssumption, NoneIsNoToken DEF TypeOK, Times
<1>1. Init => TypeOK
  BY DEF Init, RequestState, NoCookie, Idle, Status
<1>2. TypeOK /\ [Next]_vars => TypeOK'
  <2> SUFFICES ASSUME TypeOK, [Next]_vars PROVE TypeOK'
    OBVIOUS
  <2>1. CASE UNCHANGED vars
    BY <2>1 DEF vars, rowVars, history
  <2>2. CASE Tick
    BY <2>2 DEF Tick, rowVars, history
  <2>3. CASE SweepExpired
    BY <2>3 DEF SweepExpired, Status, history
  <2>4. ASSUME NEW l \in Links, Mint(l) PROVE TypeOK'
    BY <2>4 DEF Mint, Status, history
  <2>5. ASSUME NEW r \in Requests, NEW b \in Browsers, NEW l \in Links,
               Verify(r, b, l)
        PROVE  TypeOK'
    BY <2>5 DEF Verify, RequestState, rowVars, history
  <2>6. ASSUME NEW r \in Requests, Redeem(r) PROVE TypeOK'
    <3>1. CASE RedeemTooLate(r)
      BY <3>1 DEF RedeemTooLate, Reply, Idle, RequestState, rowVars, history
    <3>2. CASE RedeemFirst(r)
      <4>1. /\ req[r].link \in Links /\ req[r].browser \in Browsers
            /\ req[r] \in RequestState
        BY <3>2 DEF RedeemFirst, AtPc, RequestState
      <4>2. Bind(r) \in Token
        BY <4>1 DEF Bind, Token
      <4>3. req' \in [Requests -> RequestState]
        BY <3>2, <4>1, <4>2 DEF RedeemFirst, AtPc, RequestState
      <4>4. windowAt' \in [Links -> Times] /\ firstOpen' \in [Links -> Times]
        <5>1. req[r].at \in 0 .. MaxNow /\ WindowFor(r) \in Times
          BY <3>2 DEF RedeemFirst, AtPc, RequestState, WindowFor
        <5>2. QED
          BY <3>2, <4>1, <5>1 DEF RedeemFirst
      <4>5. QED
        BY <3>2, <4>1, <4>2, <4>3, <4>4 DEF RedeemFirst, Status
    <3>3. CASE RedeemInTime(r)
      <4>1. now \in 0 .. MaxNow
        OBVIOUS
      <4>2. [req[r] EXCEPT !.pc = "bind", !.at = now] \in RequestState
        <5> DEFINE q == [req[r] EXCEPT !.pc = "bind"]
        <5>1. q \in RequestState /\ q.pc = "bind"
          BY <3>3 DEF RedeemInTime, AtPc, RequestState
        <5> HIDE DEF q
        <5>2. [q EXCEPT !.at = now] \in RequestState
          BY <4>1, <5>1 DEF RequestState
        <5>3. QED
          BY <5>2 DEF q
      <4>3. req' \in [Requests -> RequestState]
        BY <3>3, <4>2 DEF RedeemInTime
      <4>4. QED
        BY <3>3, <4>3 DEF RedeemInTime, rowVars, history
    <3>8. CASE RedeemTaken(r)
      <4>1. [req[r] EXCEPT !.pc = "reopen"] \in RequestState
        BY <3>8 DEF RedeemTaken, AtPc, RequestState
      <4>2. req' \in [Requests -> RequestState]
        BY <3>8, <4>1 DEF RedeemTaken
      <4>3. QED
        BY <3>8, <4>2 DEF RedeemTaken, rowVars, history
    <3>4. CASE Reopen(r)
      <4>1. Idle \in RequestState
        BY DEF Idle, RequestState
      <4>2. [req[r] EXCEPT !.pc = "issue"] \in RequestState
        BY <3>4 DEF Reopen, AtPc, RequestState
      <4>3. req' \in [Requests -> RequestState]
        BY <3>4, <4>1, <4>2 DEF Reopen, Reply
      <4>4. QED
        BY <3>4, <4>3 DEF Reopen, rowVars, history
    <3>5. CASE IssueSession(r)
      BY <3>5 DEF IssueSession, AtPc, Reply, Idle, RequestState, rowVars, history
    <3>6. CASE NoSession(r)
      BY <3>6 DEF NoSession, Reply, Idle, RequestState, rowVars, history
    <3>7. QED
      BY <2>6, <3>1, <3>2, <3>3, <3>4, <3>5, <3>6, <3>8 DEF Redeem
  <2>7. ASSUME NEW r \in Requests, NEW b \in Browsers, NEW op \in Operation,
               Authorize(r, b, op)
        PROVE  TypeOK'
    BY <2>7 DEF Authorize, RequestState, Operation, rowVars
  <2>8. ASSUME NEW r \in Requests, NEW b \in Browsers, Deny(r, b)
        PROVE  TypeOK'
    BY <2>8 DEF Deny, NoCookie, rowVars, history
  <2>9. ASSUME NEW r \in Requests, Handle(r) PROVE TypeOK'
    <3>1. CASE Logout(r)
      BY <3>1 DEF Logout, AtPc, NoCookie, Reply, Idle, RequestState, rowVars,
                  history
    <3>2. CASE CountMailboxes(r)
      BY <3>2 DEF CountMailboxes, AtPc, Reply, Idle, RequestState, rowVars,
                  history
    <3>3. CASE CreateMailbox(r)
      BY <3>3 DEF CreateMailbox, AtPc, Reply, Idle, RequestState, rowVars,
                  history
    <3>4. CASE DeleteMailbox(r)
      BY <3>4 DEF DeleteMailbox, MailboxExists, AtPc, Reply, Idle,
                  RequestState, rowVars, history
    <3>5. QED
      BY <2>9, <3>1, <3>2, <3>3, <3>4 DEF Handle
  <2>10. QED
    BY <2>1, <2>2, <2>3, <2>4, <2>5, <2>6, <2>7, <2>8, <2>9 DEF Next
<1>3. QED
  BY <1>1, <1>2, PTL DEF Spec

-----------------------------------------------------------------------------
\* Bind tokens never travel between browsers: one step.
LEMMA TokensStep == TypeOK /\ TokensStayHome /\ [Next]_vars => TokensStayHome'
<1> SUFFICES ASSUME TypeOK, TokensStayHome, [Next]_vars
             PROVE  TokensStayHome'
  OBVIOUS
<1> USE NoneIsNoToken DEF TypeOK, TokensStayHome
<1>1. CASE UNCHANGED vars
  BY <1>1 DEF vars, rowVars, history
<1>2. CASE Tick
  BY <1>2 DEF Tick, rowVars, history
<1>3. CASE SweepExpired
  BY <1>3 DEF SweepExpired, history
<1>4. ASSUME NEW l \in Links, Mint(l) PROVE TokensStayHome'
  BY <1>4 DEF Mint, history
<1>5. ASSUME NEW r \in Requests, NEW b \in Browsers, NEW l \in Links,
             Verify(r, b, l)
      PROVE  TokensStayHome'
  BY <1>5 DEF Verify, AtPc, rowVars, history
<1>6. ASSUME NEW r \in Requests, Redeem(r) PROVE TokensStayHome'
  <2>1. CASE RedeemTooLate(r)
    BY <2>1 DEF RedeemTooLate, Reply, Idle, rowVars, history
  <2>2. CASE RedeemFirst(r)
    <3>1. /\ req[r].link \in Links /\ req[r].browser \in Browsers
          /\ binding[req[r].link] = None
      BY <2>2 DEF RedeemFirst, AtPc, RequestState, Claimable, Redeemed
    <3>2. Bind(r)[2] = req[r].browser /\ Bind(r) # None
      BY <3>1 DEF Bind, Token
    <3>3. \A q \in Requests : req'[q].pc # "idle" /\ req'[q].bind # None
                                => req'[q].bind[2] = req'[q].browser
      BY <2>2, <3>1, <3>2 DEF RedeemFirst, AtPc, RequestState
    <3>4. \A l \in Links : \A b \in served'[l] :
            binding'[l] # None /\ binding'[l][2] = b
      BY <2>2, <3>1 DEF RedeemFirst
    <3>5. QED
      BY <2>2, <3>3, <3>4 DEF RedeemFirst
  <2>3. CASE RedeemTaken(r) \/ RedeemInTime(r)
    BY <2>3 DEF RedeemTaken, RedeemInTime, AtPc, RequestState, rowVars, history
  <2>4. CASE Reopen(r)
    BY <2>4 DEF Reopen, AtPc, Reply, Idle, RequestState, rowVars, history
  <2>5. CASE IssueSession(r)
    BY <2>5 DEF IssueSession, AtPc, Reply, Idle, RequestState, rowVars, history
  <2>6. CASE NoSession(r)
    BY <2>6 DEF NoSession, Reply, Idle, rowVars, history
  <2>7. QED
    BY <1>6, <2>1, <2>2, <2>3, <2>4, <2>5, <2>6 DEF Redeem
<1>7. ASSUME NEW r \in Requests, NEW b \in Browsers, NEW op \in Operation,
             Authorize(r, b, op)
      PROVE  TokensStayHome'
  <2>1. /\ cookie[b].bind # None
        /\ binding[cookie[b].sess] = cookie[b].bind
        /\ cookie[b].bind[2] = b
    BY <1>7 DEF Authorize, LiveFor
  <2>2. QED
    BY <1>7, <2>1 DEF Authorize, AtPc, rowVars
<1>8. ASSUME NEW r \in Requests, NEW b \in Browsers, Deny(r, b)
      PROVE  TokensStayHome'
  BY <1>8 DEF Deny, NoCookie, rowVars, history
<1>9. ASSUME NEW r \in Requests, Handle(r) PROVE TokensStayHome'
  <2>1. CASE Logout(r)
    BY <2>1 DEF Logout, AtPc, NoCookie, Reply, Idle, rowVars, history
  <2>2. CASE CountMailboxes(r)
    BY <2>2 DEF CountMailboxes, AtPc, Reply, Idle, RequestState, rowVars,
                history
  <2>3. CASE CreateMailbox(r)
    BY <2>3 DEF CreateMailbox, Reply, Idle, rowVars, history
  <2>4. CASE DeleteMailbox(r)
    BY <2>4 DEF DeleteMailbox, Reply, Idle, rowVars, history
  <2>5. QED
    BY <1>9, <2>1, <2>2, <2>3, <2>4 DEF Handle
<1>10. QED
  BY <1>1, <1>2, <1>3, <1>4, <1>5, <1>6, <1>7, <1>8, <1>9 DEF Next

\* The window is fixed by the first open and bounds every use: one step.
LEMMA WindowStep == IInv /\ [Next]_vars => WindowFixed'
<1> SUFFICES ASSUME IInv, [Next]_vars PROVE WindowFixed'
  OBVIOUS
<1> USE ClockAssumption, NoneIsNoToken
    DEF IInv, TypeOK, Times, TokensStayHome, WindowFixed, Redeemed
<1>1. CASE UNCHANGED vars
  BY <1>1 DEF vars, rowVars, history
<1>2. CASE Tick
  BY <1>2 DEF Tick, rowVars, history
<1>3. CASE SweepExpired
  BY <1>3 DEF SweepExpired, Sweepable, history
<1>4. ASSUME NEW l \in Links, Mint(l) PROVE WindowFixed'
  BY <1>4 DEF Mint, history
<1>5. ASSUME NEW r \in Requests, RedeemFirst(r) PROVE WindowFixed'
  <2> DEFINE l == req[r].link
             at == req[r].at
  <2>1. l \in Links /\ binding[l] = None /\ at \in 0 .. MaxNow
    BY <1>5 DEF RedeemFirst, AtPc, RequestState, Claimable
  <2>2. at <= now /\ at <= expiresAt[l]
    BY <1>5 DEF RedeemFirst, AtPc, TestedInTime
  <2>3. served[l] = {}
    BY <2>1
  <2>4. /\ binding' = [binding EXCEPT ![l] = Bind(r)]
        /\ windowAt' = [windowAt EXCEPT ![l] = at + Window]
        /\ firstOpen' = [firstOpen EXCEPT ![l] = at]
        /\ status' = [status EXCEPT ![l] = "active"]
        /\ UNCHANGED <<now, expiresAt, served, lastServed>>
    BY <1>5, <2>1 DEF RedeemFirst, WindowFor
  <2> HIDE DEF l, at
  <2>5. QED
    BY <2>1, <2>2, <2>3, <2>4
<1>6. ASSUME NEW r \in Requests, NEW b \in Browsers, NEW op \in Operation,
             Authorize(r, b, op)
      PROVE  WindowFixed'
  BY <1>6 DEF Authorize, LiveFor, rowVars
<1>7. ASSUME UNCHANGED <<now, rowVars, history>> PROVE WindowFixed'
  BY <1>7 DEF rowVars, history
<1>8. ASSUME NEW r \in Requests, Redeem(r), ~RedeemFirst(r)
      PROVE  UNCHANGED <<now, rowVars, history>>
  BY <1>8 DEF Redeem, RedeemTooLate, RedeemInTime, RedeemTaken, Reopen, IssueSession,
              NoSession
<1>9. ASSUME NEW r \in Requests,
             \/ Handle(r)
             \/ \E b \in Browsers : Deny(r, b) \/ \E l \in Links : Verify(r, b, l)
      PROVE  UNCHANGED <<now, rowVars, history>>
  BY <1>9 DEF Handle, Logout, CountMailboxes, CreateMailbox, DeleteMailbox,
              Deny, Verify
<1>10. QED
  BY <1>1, <1>2, <1>3, <1>4, <1>5, <1>6, <1>7, <1>8, <1>9 DEF Next

\* A tested redeem keeps its clock until the claim: one step.
LEMMA TestedStep == TypeOK /\ TestedInTime /\ [Next]_vars => TestedInTime'
<1> SUFFICES ASSUME TypeOK, TestedInTime, [Next]_vars PROVE TestedInTime'
  OBVIOUS
<1> USE DEF TypeOK, Times, TestedInTime
<1>0. \A q \in Requests : req[q].pc # "idle" => req[q].link \in Links
  BY DEF RequestState
<1>1. CASE UNCHANGED vars
  BY <1>1 DEF vars, rowVars, history
<1>2. CASE Tick
  BY <1>0, <1>2, ClockAssumption DEF Tick, rowVars, RequestState
<1>3. CASE SweepExpired
  BY <1>0, <1>3 DEF SweepExpired
<1>4. ASSUME NEW l \in Links, Mint(l) PROVE TestedInTime'
  BY <1>0, <1>4 DEF Mint
<1>5. ASSUME NEW r \in Requests, NEW b \in Browsers, NEW l \in Links,
             Verify(r, b, l)
      PROVE  TestedInTime'
  BY <1>5 DEF Verify, AtPc, rowVars
<1>6. ASSUME NEW r \in Requests, Redeem(r) PROVE TestedInTime'
  <2>1. CASE RedeemInTime(r)
    <3>1. req[r].link \in Links /\ expiresAt[req[r].link] >= now
      BY <1>0, <2>1 DEF RedeemInTime, AtPc, InTime
    <3>2. req'[r].pc = "bind" /\ req'[r].at = now /\ req'[r].link = req[r].link
      BY <2>1, <3>1 DEF RedeemInTime, AtPc, RequestState
    <3>3. QED
      BY <2>1, <3>1, <3>2 DEF RedeemInTime, AtPc, rowVars
  <2>2. CASE RedeemFirst(r)
    <3>1. req[r].link \in Links /\ req'[r].pc = "issue"
      BY <1>0, <2>2 DEF RedeemFirst, AtPc, RequestState
    <3>2. req'[r].link = req[r].link
      BY <2>2 DEF RedeemFirst, AtPc, RequestState
    <3>3. status' = [status EXCEPT ![req[r].link] = "active"]
      BY <2>2 DEF RedeemFirst
    <3>4. QED
      BY <1>0, <2>2, <3>1, <3>2, <3>3 DEF RedeemFirst, AtPc
  <2>3. CASE RedeemTaken(r)
    BY <2>3 DEF RedeemTaken, AtPc, RequestState, rowVars
  <2>4. CASE RedeemTooLate(r) \/ Reopen(r) \/ IssueSession(r) \/ NoSession(r)
    BY <2>4 DEF RedeemTooLate, Reopen, IssueSession, NoSession, AtPc, Reply, Idle,
                RequestState, rowVars
  <2>5. QED
    BY <1>6, <2>1, <2>2, <2>3, <2>4 DEF Redeem
<1>7. ASSUME NEW r \in Requests, NEW b \in Browsers, NEW op \in Operation,
             Authorize(r, b, op)
      PROVE  TestedInTime'
  <2>1. status[cookie[b].sess] = "active" /\ op \notin {"idle", "bind"}
    BY <1>7 DEF Authorize, LiveFor, Operation
  <2>2. req'[r].link = cookie[b].sess /\ req'[r].pc = op
    BY <1>7 DEF Authorize
  <2>3. \A q \in Requests : q # r => req'[q] = req[q]
    BY <1>7 DEF Authorize
  <2>4. QED
    BY <1>7, <2>1, <2>2, <2>3 DEF Authorize, rowVars
<1>8. ASSUME NEW r \in Requests, NEW b \in Browsers, Deny(r, b)
      PROVE  TestedInTime'
  BY <1>8 DEF Deny, rowVars
<1>9. ASSUME NEW r \in Requests, Handle(r) PROVE TestedInTime'
  BY <1>9 DEF Handle, Logout, CountMailboxes, CreateMailbox, DeleteMailbox, AtPc,
              Reply, Idle, RequestState, rowVars
<1>10. QED
  BY <1>1, <1>2, <1>3, <1>4, <1>5, <1>6, <1>7, <1>8, <1>9 DEF Next

\* The inductive invariant holds in every state.
LEMMA Inductive == Spec => []IInv
<1>1. Init => TokensStayHome /\ WindowFixed /\ TestedInTime
  BY DEF Init, NoCookie, Idle, TokensStayHome, WindowFixed, TestedInTime, Redeemed
<1>2. TypeOK /\ TypeOK' /\ TokensStayHome /\ WindowFixed /\ TestedInTime /\ [Next]_vars
        => TokensStayHome' /\ WindowFixed' /\ TestedInTime'
  BY TokensStep, WindowStep, TestedStep DEF IInv
<1>3. QED
  BY <1>1, <1>2, TypeCorrect, PTL DEF Spec, IInv

\* No link ever serves two browsers, whatever interleaving of opens,
\* re-opens, logouts, sweeps and lost answers.
THEOREM OneBrowserAlways == Spec => []OneBrowser
<1>1. IInv => OneBrowser
  BY DEF IInv, TokensStayHome, OneBrowser
<1>2. QED
  BY <1>1, Inductive, PTL

\* No session request is authorised later than Window after the first open.
THEOREM WindowEnforced == Spec => []WindowFromFirstOpen
<1>1. IInv => WindowFromFirstOpen
  BY ClockAssumption DEF IInv, TypeOK, Times, TokensStayHome, WindowFixed,
                         WindowFromFirstOpen, Redeemed
<1>2. QED
  BY <1>1, Inductive, PTL

\* The claim may land after the redeem deadline, but no session outlives the
\* deadline by more than the window.
THEOREM DeadlineEnforced == Spec => []LateOpenIsBounded
<1>1. IInv => LateOpenIsBounded
  <2> SUFFICES ASSUME IInv, NEW l \in Links, served[l] # {}
               PROVE  lastServed[l] <= expiresAt[l] + Window
    BY DEF LateOpenIsBounded
  <2>1. Redeemed(l)
    BY DEF IInv, TokensStayHome, Redeemed
  <2>2. /\ windowAt[l] = firstOpen[l] + Window /\ firstOpen[l] <= expiresAt[l]
        /\ lastServed[l] <= windowAt[l]
    BY <2>1 DEF IInv, WindowFixed
  <2>3. /\ windowAt[l] \in Nat /\ firstOpen[l] \in Nat /\ expiresAt[l] \in Nat
        /\ lastServed[l] \in Nat /\ Window \in Nat
    BY ClockAssumption DEF IInv, TypeOK, Times
  <2>4. QED
    BY <2>2, <2>3
<1>2. QED
  BY <1>1, Inductive, PTL

\* Both limits of a link hold together.
THEOREM LimitsEnforced == Spec => []LimitsHold
<1>1. WindowFromFirstOpen /\ LateOpenIsBounded => LimitsHold
  BY DEF LimitsHold
<1>2. QED
  BY <1>1, WindowEnforced, DeadlineEnforced, PTL

\* A retired link never becomes usable again.
THEOREM RetiredStaysRetired == Spec => RetiredForGood
<1> DEFINE Stays == \A l \in Links : status[l] = "used_expired"
                                       => status'[l] = "used_expired"
<1>1. TypeOK /\ [Next]_vars => Stays
  <2> SUFFICES ASSUME TypeOK, [Next]_vars PROVE Stays
    OBVIOUS
  <2> USE DEF TypeOK
  <2>1. ASSUME NEW l \in Links, Mint(l) PROVE Stays
    BY <2>1 DEF Mint
  <2>2. ASSUME NEW r \in Requests, RedeemFirst(r) PROVE Stays
    BY <2>2 DEF RedeemFirst, Claimable, AtPc, RequestState
  <2>3. CASE SweepExpired
    BY <2>3 DEF SweepExpired
  <2>4. CASE UNCHANGED status
    BY <2>4
  <2>5. QED
    BY <2>1, <2>2, <2>3, <2>4
       DEF Next, vars, rowVars, Tick, Verify, Redeem, RedeemTooLate,
           RedeemInTime, RedeemTaken, Reopen, IssueSession, NoSession, Authorize, Deny,
           Handle, Logout, CountMailboxes, CreateMailbox, DeleteMailbox
<1>2. QED
  BY <1>1, TypeCorrect, PTL DEF Spec, RetiredForGood
=============================================================================
