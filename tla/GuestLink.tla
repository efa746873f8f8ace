------------------------------ MODULE GuestLink ------------------------------
(***************************************************************************)
(* One-time guest links: internal/services/guest_link_service.go, the      *)
(* cookie middleware internal/middleware/guest_auth.go and the redeem,     *)
(* logout and mailbox handlers of internal/handlers/guest_handler.go.      *)
(*                                                                         *)
(* A link is minted pending, bound to the first browser that opens it and  *)
(* usable from that browser for a window; a periodic sweep retires it.     *)
(* Every database access of a request is a step of its own, so requests,   *)
(* the sweep and the clock interleave between them.  Secrets and their     *)
(* hashes are abstracted: a request for link l carries l's valid token.    *)
(* The JWT and cookie lifetimes equal the window the server re-reads on    *)
(* each request, so they are not kept a second time.                       *)
(***************************************************************************)
EXTENDS Integers, FiniteSets

CONSTANTS
  Links,        \* rows of guest_links
  Browsers,     \* browsers that may hold a link's URL
  Requests,     \* HTTP requests in flight at once
  Window,       \* guestWindow
  Deadline,     \* guestRedeemDeadline
  MaxMailboxes, \* link.MaxMailboxes
  MaxNow,       \* bound on the logical clock
  LastMint,     \* bound: no link is minted later than this
  None          \* absent cookie or binding

ASSUME ClockAssumption ==
  /\ Window \in Nat \ {0} /\ Deadline \in Nat \ {0} /\ MaxNow \in Nat
  /\ LastMint \in Nat /\ LastMint + Deadline + Window < MaxNow
ASSUME MailboxAssumption == MaxMailboxes \in Nat
ASSUME NoneAssumption ==
  None \notin Links /\ None \notin Browsers /\ None \notin Links \X Browsers

VARIABLES
  now,        \* time.Now()
  status,     \* link row: status
  expiresAt,  \* link row: expires_at
  windowAt,   \* link row: window_expires_at, meaningful once bound
  binding,    \* link row: binding_hash, the bind token it was made from
  cookie,     \* per browser: the bind and session cookies
  req,        \* per request: where its handler is
  mailboxes,  \* number of mailboxes of the link's domain
  firstOpen,  \* history: redeemed_at, the clock as the redeem that bound the
              \* link had read it
  served,     \* history: browsers a session request was authorised for
  lastServed  \* history: when a session request was last authorised

rowVars == <<status, expiresAt, windowAt, binding>>
history == <<firstOpen, served, lastServed>>
vars == <<now, rowVars, cookie, req, mailboxes, history>>

Token == Links \X Browsers   \* one fresh bind token per (link, opener)
Status == {"absent", "pending", "active", "used_expired"}
Operation == {"create", "delete", "logout"}
NoCookie == [bind |-> None, sess |-> None]
Idle == [pc |-> "idle"]

Redeemed(l) == binding[l] # None
Bind(r) == <<req[r].link, req[r].browser>>   \* newBind of this request
AtPc(r, pc) == req[r].pc = pc
Reply(r) == req' = [req EXCEPT ![r] = Idle]

Init ==
  /\ now = 0
  /\ status = [l \in Links |-> "absent"]
  /\ expiresAt = [l \in Links |-> 0]
  /\ windowAt = [l \in Links |-> 0]
  /\ binding = [l \in Links |-> None]
  /\ cookie = [b \in Browsers |-> NoCookie]
  /\ req = [r \in Requests |-> Idle]
  /\ mailboxes = [l \in Links |-> 0]
  /\ firstOpen = [l \in Links |-> 0]
  /\ served = [l \in Links |-> {}]
  /\ lastServed = [l \in Links |-> 0]

-----------------------------------------------------------------------------
(* Minting and opening a link                                              *)

Mint(l) ==
  /\ status[l] = "absent"
  /\ now <= LastMint
  /\ status' = [status EXCEPT ![l] = "pending"]
  /\ expiresAt' = [expiresAt EXCEPT ![l] = now + Deadline]
  /\ UNCHANGED <<now, windowAt, binding, cookie, req, mailboxes, history>>

\* A refused Verify answers 401 and changes nothing.
Verify(r, b, l) ==
  /\ AtPc(r, "idle")
  /\ status[l] \in {"pending", "active"}
  /\ expiresAt[l] >= now
  /\ req' = [req EXCEPT ![r] = [pc |-> "claim", link |-> l, browser |-> b,
                                bind |-> cookie[b].bind, at |-> 0]]
  /\ UNCHANGED <<now, rowVars, cookie, mailboxes, history>>

\* The first thing Redeem does, on the copy of the row Verify returned: it
\* reads the clock, once, and tests the deadline.
InTime(r) == expiresAt[req[r].link] >= now

RedeemTooLate(r) ==
  /\ AtPc(r, "claim")
  /\ ~InTime(r)
  /\ Reply(r)
  /\ UNCHANGED <<now, rowVars, cookie, mailboxes, history>>

RedeemInTime(r) ==
  /\ AtPc(r, "claim")
  /\ InTime(r)
  /\ req' = [req EXCEPT ![r].pc = "bind", ![r].at = now]
  /\ UNCHANGED <<now, rowVars, cookie, mailboxes, history>>

\* The filter of the atomic FindOneAndUpdate: it does not name the deadline,
\* which may have passed since the test.
ClaimableById(l) == TRUE
Claimable(l) == ~Redeemed(l) /\ status[l] = "pending"

\* The window is counted from the clock that was read for the test.
WindowFromClaim(r) == now + Window
WindowFor(r) == req[r].at + Window

RedeemFirst(r) ==
  LET l == req[r].link IN
  /\ AtPc(r, "bind")
  /\ Claimable(l)
  /\ status' = [status EXCEPT ![l] = "active"]
  /\ binding' = [binding EXCEPT ![l] = Bind(r)]
  /\ windowAt' = [windowAt EXCEPT ![l] = WindowFor(r)]
  /\ req' = [req EXCEPT ![r].pc = "issue", ![r].bind = Bind(r)]
  /\ firstOpen' = [firstOpen EXCEPT ![l] = IF Redeemed(l) THEN @ ELSE req[r].at]
  /\ UNCHANGED <<now, expiresAt, cookie, mailboxes, served, lastServed>>

\* The update matched no row, or failed: any error is taken for a link that is
\* already open.
RedeemTaken(r) ==
  /\ AtPc(r, "bind")
  /\ req' = [req EXCEPT ![r].pc = "reopen"]
  /\ UNCHANGED <<now, rowVars, cookie, mailboxes, history>>

\* The tests shared by a re-open and by LoadForSession, at time t.
LiveForAnyBrowser(l, bind, t) ==
  status[l] = "active" /\ Redeemed(l) /\ windowAt[l] >= t
LiveFor(l, bind, t) ==
  /\ status[l] = "active"
  /\ Redeemed(l) /\ windowAt[l] >= t
  /\ bind # None /\ bind = binding[l]

Reopen(r) ==
  /\ AtPc(r, "reopen")
  /\ \/ /\ LiveFor(req[r].link, req[r].bind, req[r].at)
        /\ req' = [req EXCEPT ![r].pc = "issue"]
     \/ /\ ~LiveFor(req[r].link, req[r].bind, req[r].at)
        /\ Reply(r)
  /\ UNCHANGED <<now, rowVars, cookie, mailboxes, history>>

\* IssueSessionToken and the answer that sets both cookies.
IssueSession(r) ==
  LET l == req[r].link IN
  /\ AtPc(r, "issue")
  /\ windowAt[l] > now
  /\ cookie' = [cookie EXCEPT ![req[r].browser] =
                  [bind |-> req[r].bind, sess |-> l]]
  /\ Reply(r)
  /\ UNCHANGED <<now, rowVars, mailboxes, history>>

\* Past the window IssueSessionToken refuses; or the answer never arrives.
NoSession(r) ==
  /\ AtPc(r, "issue")
  /\ Reply(r)
  /\ UNCHANGED <<now, rowVars, cookie, mailboxes, history>>

-----------------------------------------------------------------------------
(* Using a session                                                         *)

Authorize(r, b, op) ==
  LET l == cookie[b].sess IN
  /\ AtPc(r, "idle")
  /\ l # None
  /\ LiveFor(l, cookie[b].bind, now)
  /\ req' = [req EXCEPT ![r] = [pc |-> op, link |-> l, browser |-> b,
                                bind |-> cookie[b].bind, at |-> now]]
  /\ served' = [served EXCEPT ![l] = @ \cup {b}]
  /\ lastServed' = [lastServed EXCEPT ![l] = now]
  /\ UNCHANGED <<now, rowVars, cookie, mailboxes, firstOpen>>

\* guestDenied answers 401 and clears both cookies.
Deny(r, b) ==
  LET l == cookie[b].sess IN
  /\ AtPc(r, "idle")
  /\ l # None
  /\ ~LiveFor(l, cookie[b].bind, now)
  /\ cookie' = [cookie EXCEPT ![b] = NoCookie]
  /\ UNCHANGED <<now, rowVars, req, mailboxes, history>>

Logout(r) ==
  /\ AtPc(r, "logout")
  /\ cookie' = [cookie EXCEPT ![req[r].browser] = NoCookie]
  /\ Reply(r)
  /\ UNCHANGED <<now, rowVars, mailboxes, history>>

\* CreateMailbox counts the domain's mailboxes first ...
CountMailboxes(r) ==
  /\ AtPc(r, "create")
  /\ \/ /\ mailboxes[req[r].link] >= MaxMailboxes
        /\ Reply(r)
     \/ /\ mailboxes[req[r].link] < MaxMailboxes
        /\ req' = [req EXCEPT ![r].pc = "insert"]
  /\ UNCHANGED <<now, rowVars, cookie, mailboxes, history>>

\* ... and creates one in a later database call.
CreateMailbox(r) ==
  /\ AtPc(r, "insert")
  /\ mailboxes' = [mailboxes EXCEPT ![req[r].link] = @ + 1]
  /\ Reply(r)
  /\ UNCHANGED <<now, rowVars, cookie, history>>

\* resolveMailbox answers 404 unless the mailbox exists.
MailboxExists(r) == mailboxes[req[r].link] > 0

DeleteMailbox(r) ==
  /\ AtPc(r, "delete")
  /\ \/ /\ MailboxExists(r)
        /\ mailboxes' = [mailboxes EXCEPT ![req[r].link] = @ - 1]
     \/ UNCHANGED mailboxes
  /\ Reply(r)
  /\ UNCHANGED <<now, rowVars, cookie, history>>

-----------------------------------------------------------------------------
(* The clock and the sweep of cmd/server/main.go                           *)

SweepableByWindow(l) ==
  status[l] \in {"pending", "active"} /\ Redeemed(l) /\ windowAt[l] < now
Sweepable(l) ==
  /\ status[l] \in {"pending", "active"}
  /\ expiresAt[l] < now \/ (Redeemed(l) /\ windowAt[l] < now)

SweepExpired ==
  /\ \E l \in Links : Sweepable(l)
  /\ status' = [l \in Links |-> IF Sweepable(l) THEN "used_expired"
                                                ELSE status[l]]
  /\ UNCHANGED <<now, expiresAt, windowAt, binding, cookie, req, mailboxes,
                 history>>

Tick ==
  /\ now < MaxNow
  /\ now' = now + 1
  /\ UNCHANGED <<rowVars, cookie, req, mailboxes, history>>

-----------------------------------------------------------------------------
Redeem(r) == RedeemTooLate(r) \/ RedeemInTime(r) \/ RedeemFirst(r)
             \/ RedeemTaken(r) \/ Reopen(r) \/ IssueSession(r) \/ NoSession(r)

Handle(r) == Logout(r) \/ CountMailboxes(r) \/ CreateMailbox(r)
             \/ DeleteMailbox(r)

Next ==
  \/ Tick
  \/ SweepExpired
  \/ \E l \in Links : Mint(l)
  \/ \E r \in Requests :
       \/ Redeem(r)
       \/ Handle(r)
       \/ \E b \in Browsers : \/ \E l \in Links : Verify(r, b, l)
                              \/ \E op \in Operation : Authorize(r, b, op)
                              \/ Deny(r, b)

\* Time passes and the 30 minute ticker keeps firing.
Fairness == WF_vars(Tick) /\ WF_vars(SweepExpired)

Spec == Init /\ [][Next]_vars /\ Fairness

-----------------------------------------------------------------------------
Times == 0 .. (MaxNow + Window + Deadline)

RequestState ==
  [pc : {"idle"}]
  \cup [pc : {"claim", "bind", "reopen", "issue", "insert"} \cup Operation,
        link : Links, browser : Browsers, bind : Token \cup {None},
        at : 0 .. MaxNow]

\* Every variable has its type; the count may pass the cap, never below zero.
TypeOK ==
  /\ now \in 0 .. MaxNow
  /\ status \in [Links -> Status]
  /\ expiresAt \in [Links -> Times]
  /\ windowAt \in [Links -> Times]
  /\ binding \in [Links -> Token \cup {None}]
  /\ cookie \in [Browsers -> [bind : Token \cup {None}, sess : Links \cup {None}]]
  /\ req \in [Requests -> RequestState]
  /\ mailboxes \in [Links -> Nat]
  /\ firstOpen \in [Links -> Times]
  /\ served \in [Links -> SUBSET Browsers]
  /\ lastServed \in [Links -> Times]

\* "a revoked/expired link or a second browser is rejected immediately"
\* (guest_auth.go): whatever the interleaving of opens, re-opens, logouts and
\* lost answers, no link ever serves two browsers.
OneBrowser == \A l \in Links : \A b, c \in served[l] : b = c

\* No session request is authorised later than Window after the first open:
\* neither a re-open, nor a second redeem in flight, nor a claim that lands
\* long after its clock was read moves the cutoff.
WindowFromFirstOpen ==
  \A l \in Links : served[l] # {} =>
    /\ firstOpen[l] <= lastServed[l]
    /\ lastServed[l] <= firstOpen[l] + Window

\* The claim itself may land after the redeem deadline.  Even so no session
\* outlives the deadline by more than Window.
LateOpenIsBounded ==
  \A l \in Links : served[l] # {} => lastServed[l] <= expiresAt[l] + Window

\* Both limits of a link: its window, and the deadline of its first open.
LimitsHold == WindowFromFirstOpen /\ LateOpenIsBounded

\* A retired link stays retired: no redeem that verified it earlier brings
\* it back to active.
RetiredForGood ==
  [][\A l \in Links : status[l] = "used_expired"
                        => status'[l] = "used_expired"]_vars

\* Every minted link is eventually retired, opened or not, by the sweep.
EventuallyRetired ==
  \A l \in Links : (status[l] # "absent") ~> (status[l] = "used_expired")
=============================================================================
