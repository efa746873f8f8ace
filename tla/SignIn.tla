------------------------------- MODULE SignIn -------------------------------
(***************************************************************************)
(* Signing in to the panel: internal/services/auth_service.go.  One        *)
(* account with its password, lockout counter and refresh token, and the   *)
(* rows of otp_requests that the one-time codes of its sign-ins live in.   *)
(*                                                                         *)
(* Each database call of a request is a step, so password sign-ins, token  *)
(* refreshes, one-time codes, password changes, logouts and suspensions    *)
(* interleave between a request's read and its unconditional write.  The   *)
(* refresh token is abstracted to whether there is one: a request that     *)
(* presents any other is refused and changes nothing.  Suspension is the   *)
(* one write it makes to the row (AccountStatus models the rest).          *)
(***************************************************************************)
EXTENDS Naturals, FiniteSets, Sequences

CONSTANTS
  Requests,    \* HTTP requests in flight at once
  Browsers,    \* browsers that ask for or open one-time codes
  Threshold,   \* failed logins that lock the account, 20 in the code
  MaxAttempts, \* otpMaxAttempts
  MaxCodes,    \* bound: rows of otp_requests
  MaxFailed,   \* bound: no wrong password is tried past this count
  None         \* no browser

ASSUME BoundsAssumption ==
  /\ IsFiniteSet(Requests) /\ Requests # {}
  /\ Threshold \in Nat \ {0} /\ MaxAttempts \in Nat
  /\ MaxCodes \in Nat /\ MaxFailed \in Nat
ASSUME NoneAssumption == None \notin Browsers

VARIABLES
  active,       \* users row: is_active, false in the trash too
  locked,       \* users row: locked_until is in the future
  failed,       \* users row: failed_logins
  token,        \* users row: refresh_token is not empty
  tokenExpired, \* users row: refresh_expires_at has passed
  password,     \* users row: which of two passwords it hashes
  codes,        \* rows of otp_requests, numbered as they are inserted
  req,          \* per request: its next step, and the counter or password read
  lockedSince,  \* history: locked since the counter was last reset
  overtaken,    \* history: requests in flight when access was last cut
  opened        \* history: per code, the sign-ins it completed

account == <<active, locked, failed, token, tokenExpired, password>>
history == <<lockedSince, overtaken, opened>>
vars == <<account, codes, req, history>>

CodeIds == 1 .. MaxCodes
NoCode == 0
Passwords == {0, 1}
Ages == {"new", "old", "expired"}   \* younger than otpMinGap, than otpTTL, older
Absent == [browser |-> None, used |-> FALSE, attempts |-> 0,
           approved |-> FALSE, age |-> "new"]
Idle == [pc |-> "idle", browser |-> None, code |-> NoCode, seen |-> 0]

Exists(c) == codes[c].browser # None
AtPc(r, pc) == req[r].pc = pc
InFlight == {r \in Requests : ~AtPc(r, "idle")}
Go(r, pc) == req' = [req EXCEPT ![r].pc = pc]
Begin(r, pc, b, c, n) ==
  /\ AtPc(r, "idle")
  /\ req' = [req EXCEPT ![r] = [pc |-> pc, browser |-> b, code |-> c, seen |-> n]]

\* The answer to r; it no longer counts as overtaken.
Reply(r) ==
  /\ req' = [req EXCEPT ![r] = Idle]
  /\ overtaken' = overtaken \ {r}

\* As Reply, for a step after which what the others read is out of date.
ReplyOvertaking(r) ==
  /\ req' = [req EXCEPT ![r] = Idle]
  /\ overtaken' = InFlight \ {r}

Overtakes == overtaken' = InFlight
OvertakesHolders(c) == overtaken' = overtaken \cup {r \in InFlight : req[r].code = c}

Init ==
  /\ active = TRUE /\ locked = FALSE /\ failed = 0
  /\ token = FALSE /\ tokenExpired = FALSE /\ password = 0
  /\ codes = [c \in CodeIds |-> Absent]
  /\ req = [r \in Requests |-> Idle]
  /\ lockedSince = FALSE /\ overtaken = {}
  /\ opened = [c \in CodeIds |-> <<>>]

-----------------------------------------------------------------------------
(* Password sign-in                                                        *)

Admits == active /\ ~locked

\* Login reads the row, tests it and compares the password with its hash.
ReadForLogin(r, pw) ==
  /\ Admits
  /\ IF pw = password THEN Begin(r, "mint", None, NoCode, pw)
     ELSE failed < MaxFailed /\ Begin(r, "fail", None, NoCode, failed)
  /\ UNCHANGED <<account, codes, history>>

\* The counter is incremented in the database, tested as it was read.
LocksLate(seen) == seen + 1 > Threshold
Locks(seen) == seen + 1 >= Threshold

FailLogin(r) ==
  /\ AtPc(r, "fail")
  /\ failed' = failed + 1
  /\ IF Locks(req[r].seen)
     THEN locked' = TRUE /\ lockedSince' = TRUE /\ ReplyOvertaking(r)
     ELSE UNCHANGED <<locked, lockedSince>> /\ Reply(r)
  /\ UNCHANGED <<active, token, tokenExpired, password, codes, opened>>

\* The write that ends every sign-in, by password or by code.
MintSession(r) ==
  /\ token' = TRUE /\ tokenExpired' = FALSE
  /\ failed' = 0 /\ locked' = FALSE /\ lockedSince' = FALSE
  /\ ReplyOvertaking(r)
  /\ UNCHANGED <<active, password, codes>>

MintByPassword(r) ==
  /\ AtPc(r, "mint") /\ req[r].code = NoCode
  /\ MintSession(r)
  /\ UNCHANGED opened

-----------------------------------------------------------------------------
(* Refresh, logout and change of password                                  *)

RefreshableWhileActive == token /\ active
Refreshable == token /\ Admits

ReadForRefresh(r) ==
  /\ Refreshable
  /\ Begin(r, IF tokenExpired THEN "clear" ELSE "rotate", None, NoCode, 0)
  /\ UNCHANGED <<account, codes, history>>

\* Neither write asks whether the token that was read is still the row's.
ClearExpired(r) ==
  /\ AtPc(r, "clear")
  /\ token' = FALSE /\ tokenExpired' = FALSE
  /\ ReplyOvertaking(r)
  /\ UNCHANGED <<active, locked, failed, password, codes, lockedSince, opened>>

Rotate(r) ==
  /\ AtPc(r, "rotate")
  /\ token' = TRUE
  /\ Reply(r)
  /\ UNCHANGED <<active, locked, failed, tokenExpired, password, codes,
                 lockedSince, opened>>

\* One update, filtered on the token the browser presents.
Logout ==
  /\ token
  /\ token' = FALSE
  /\ Overtakes
  /\ UNCHANGED <<active, locked, failed, tokenExpired, password, codes, req,
                 lockedSince, opened>>

\* ResetPassword, whose link this request holds, or ChangePassword.
ReadForPassword(r) ==
  /\ Begin(r, "password", None, NoCode, 0)
  /\ UNCHANGED <<account, codes, history>>

WritePassword(r) ==
  /\ AtPc(r, "password")
  /\ password' = 1 - password
  /\ token' = FALSE /\ tokenExpired' = FALSE
  /\ ReplyOvertaking(r)
  /\ UNCHANGED <<active, locked, failed, codes, lockedSince, opened>>

-----------------------------------------------------------------------------
(* One-time codes                                                          *)

Unused(c) == Exists(c) /\ ~codes[c].used
Pending(c) == Unused(c) /\ codes[c].age # "expired"
Newest(c) == \A d \in CodeIds : d > c => ~Exists(d)

\* RequestOTP answers alike, with no code, when the account may not have one
\* or when the last unused code is younger than otpMinGap.
RequestCode(r, b) ==
  /\ active
  /\ ~\E c \in CodeIds : Unused(c) /\ codes[c].age = "new"
  /\ Begin(r, "insert", b, NoCode, 0)
  /\ UNCHANGED <<account, codes, history>>

InsertCode(r) ==
  /\ AtPc(r, "insert")
  /\ \E c \in CodeIds :
       /\ ~Exists(c) /\ \A d \in 1 .. c - 1 : Exists(d)
       /\ codes' = [codes EXCEPT ![c] = [Absent EXCEPT !.browser = req[r].browser]]
  /\ Reply(r)
  /\ UNCHANGED <<account, lockedSince, opened>>

\* The filter of VerifyOTP's lookup, given a code that is right.
Verifiable(c) == Pending(c) /\ codes[c].attempts < MaxAttempts

\* From another browser the code only approves the one that asked for it.
VerifyCode(r, b, c) ==
  /\ Verifiable(c)
  /\ \/ b = codes[c].browser /\ Begin(r, "claim", b, c, 0)
     \/ b # codes[c].browser /\ ~codes[c].approved /\ Begin(r, "approve", b, c, 0)
  /\ UNCHANGED <<account, codes, history>>

\* A code the lookup does not find counts against some pending row.
MissCode(c) ==
  /\ Pending(c)
  /\ codes[c].attempts <= MaxAttempts
  /\ codes' = [codes EXCEPT ![c].attempts = @ + 1]
  /\ OvertakesHolders(c)
  /\ UNCHANGED <<account, req, lockedSince, opened>>

Approve(r) ==
  LET c == req[r].code IN
  /\ AtPc(r, "approve")
  /\ codes' = IF Unused(c) THEN [codes EXCEPT ![c].approved = TRUE] ELSE codes
  /\ Reply(r)
  /\ UNCHANGED <<account, lockedSince, opened>>

\* The filter of the atomic FindOneAndUpdate that consumes a code.
ClaimableById(c) == TRUE
Claimable(c) == Unused(c)

ClaimCode(r) ==
  LET c == req[r].code IN
  /\ AtPc(r, "claim")
  /\ \/ /\ Claimable(c)
        /\ codes' = [codes EXCEPT ![c].used = TRUE]
        /\ Go(r, "lookup")
        /\ UNCHANGED overtaken
     \/ /\ ~Claimable(c)
        /\ Reply(r)
        /\ UNCHANGED codes
  /\ UNCHANGED <<account, lockedSince, opened>>

\* The browser that asked polls for the approval and completes the sign-in.
CompleteCode(r, b, c) ==
  /\ b = codes[c].browser
  /\ Pending(c) /\ codes[c].approved
  /\ codes' = [codes EXCEPT ![c].used = TRUE]
  /\ Begin(r, "lookup", b, c, 0)
  /\ UNCHANGED <<account, history>>

\* Only now is the account looked at.
LookUpAccount(r) ==
  /\ AtPc(r, "lookup")
  /\ IF Admits THEN Go(r, "mint") /\ UNCHANGED overtaken ELSE Reply(r)
  /\ UNCHANGED <<account, codes, lockedSince, opened>>

MintByCode(r) ==
  LET c == req[r].code IN
  /\ AtPc(r, "mint") /\ c # NoCode
  /\ MintSession(r)
  /\ opened' = [opened EXCEPT ![c] = Append(@, req[r].browser)]

\* CancelOTP looks at the binding of the newest pending code ...
ReadForCancel(r, b, c) ==
  /\ Pending(c) /\ b = codes[c].browser
  /\ \A d \in CodeIds : d > c => ~Pending(d)
  /\ Begin(r, "cancel", b, NoCode, 0)
  /\ UNCHANGED <<account, codes, history>>

\* ... and then uses up every pending code of the account.
CancelCodes(r) ==
  /\ AtPc(r, "cancel")
  /\ codes' = [c \in CodeIds |-> IF Pending(c) THEN [codes[c] EXCEPT !.used = TRUE]
                                               ELSE codes[c]]
  /\ ReplyOvertaking(r)
  /\ UNCHANGED <<account, lockedSince, opened>>

-----------------------------------------------------------------------------
(* What happens to the account and its codes from outside                  *)

Suspend ==
  /\ active
  /\ active' = FALSE /\ token' = FALSE /\ tokenExpired' = FALSE
  /\ Overtakes
  /\ UNCHANGED <<locked, failed, password, codes, req, lockedSince, opened>>

Activate ==
  /\ ~active
  /\ active' = TRUE
  /\ UNCHANGED <<locked, failed, token, tokenExpired, password, codes, req,
                 history>>

\* The 15 minutes of locked_until pass; the counter stays as it is.
LockEnds ==
  /\ locked
  /\ locked' = FALSE
  /\ UNCHANGED <<active, failed, token, tokenExpired, password, codes, req,
                 history>>

TokenExpires ==
  /\ token /\ ~tokenExpired
  /\ tokenExpired' = TRUE
  /\ UNCHANGED <<active, locked, failed, token, password, codes, req, history>>

\* The age of a used row is never looked at again.
Age(c) ==
  /\ Unused(c) /\ codes[c].age # "expired"
  /\ codes' = [codes EXCEPT ![c].age = IF @ = "new" THEN "old" ELSE "expired"]
  /\ OvertakesHolders(c)
  /\ UNCHANGED <<account, req, lockedSince, opened>>

\* A restart, or a refused write, ends a request where it stands.
Cut(r) ==
  /\ r \in InFlight
  /\ Reply(r)
  /\ UNCHANGED <<account, codes, lockedSince, opened>>

-----------------------------------------------------------------------------
Step(r) == FailLogin(r) \/ MintByPassword(r) \/ ClearExpired(r) \/ Rotate(r)
           \/ MintByCode(r) \/ WritePassword(r) \/ InsertCode(r) \/ Approve(r) \/ ClaimCode(r)
           \/ LookUpAccount(r) \/ CancelCodes(r) \/ Cut(r)

Arrive(r) ==
  \/ \E pw \in Passwords : ReadForLogin(r, pw)
  \/ ReadForRefresh(r)
  \/ ReadForPassword(r)
  \/ \E b \in Browsers :
       \/ RequestCode(r, b)
       \/ \E c \in CodeIds : \/ VerifyCode(r, b, c)
                             \/ CompleteCode(r, b, c)
                             \/ ReadForCancel(r, b, c)

Next ==
  \/ \E r \in Requests : Arrive(r) \/ Step(r)
  \/ \E c \in CodeIds : MissCode(c) \/ Age(c)
  \/ Logout \/ Suspend \/ Activate \/ LockEnds \/ TokenExpires

Spec == Init /\ [][Next]_vars

-----------------------------------------------------------------------------
Pcs == {"idle", "mint", "fail", "clear", "rotate", "password", "insert",
        "approve", "claim", "lookup", "cancel"}
CodeRow == [browser : Browsers \cup {None}, used : BOOLEAN, attempts : Nat,
            approved : BOOLEAN, age : Ages]
RequestState == [pc : Pcs, browser : Browsers \cup {None},
                 code : CodeIds \cup {NoCode}, seen : Nat]

\* Every variable has its type.
TypeOK ==
  /\ active \in BOOLEAN /\ locked \in BOOLEAN /\ failed \in Nat
  /\ token \in BOOLEAN /\ tokenExpired \in BOOLEAN /\ password \in Passwords
  /\ codes \in [CodeIds -> CodeRow]
  /\ req \in [Requests -> RequestState]
  /\ lockedSince \in BOOLEAN
  /\ overtaken \subseteq Requests
  /\ opened \in [CodeIds -> Seq(Browsers \cup {None})]

\* VerifyOTP: "a parallel verification can't double-spend the OTP", and the
\* clicking browser "is only the signal, not the key": of all the verifies,
\* handoffs, polls and cancels that race for a code at most one signs in, and
\* it signs in the browser that asked for the code.
CodeOpensOneSession ==
  \A c \in CodeIds :
    /\ Len(opened[c]) <= 1
    /\ opened[c] # <<>> => opened[c] = <<codes[c].browser>>

\* The lockout counter is incremented in the database but tested on the value
\* read before the password was compared.  The account is still locked before
\* more failures pass than the threshold and the requests in flight explain,
\* whatever sign-ins reset the counter in between.
LockoutBounded == ~lockedSince => failed + 2 <= Threshold + Cardinality(Requests)

\* Every sign-in, refresh and clearing of a token acts on the row it read some
\* calls earlier.  It goes against the row as it is - a session for an account
\* suspended or locked, for an old password or an expired code, a token that
\* comes back after a logout, a fresh token cleared as expired - only if the
\* row was changed while that very request was in flight.
StaleOnlyIfOvertaken ==
  [][\A r \in Requests \ overtaken :
       /\ MintByPassword(r) => Admits /\ req[r].seen = password
       /\ MintByCode(r) => Admits /\ codes[req[r].code].age # "expired"
       /\ Rotate(r) => token /\ Admits
       /\ ClearExpired(r) => token /\ tokenExpired]_vars
=============================================================================
