---------------------------- MODULE AccountStatus ----------------------------
(***************************************************************************)
(* Suspending, trashing and deleting an account while it is in use:        *)
(* internal/services/user_service.go, the trash purger of                  *)
(* cmd/server/main.go, and the check that middleware/auth.go makes of      *)
(* every request through the cache of pkg/authcache.                       *)
(*                                                                         *)
(* One account that owns sites.  An operation reads the row, reads which   *)
(* domains the account has, changes the server site by site, writes the    *)
(* row and drops the cache entry, one step each, so operations and         *)
(* requests interleave between the steps.  What fails on the server is     *)
(* only logged, and the row is written all the same.  The lock of the      *)
(* Linux login and who may call an operation are left out.                 *)
(***************************************************************************)
EXTENDS Naturals

CONSTANTS
  Sites,      \* the account's domains
  Admins,     \* operations in flight at once, the purger's apart
  Purger,     \* the background trash purger
  Calls,      \* authenticated requests in flight at once
  TTL,        \* activeUserCacheTTL
  Retention,  \* trashRetention
  LastTrash,  \* bound: no account is trashed later than this
  MaxNow,     \* bound on the logical clock
  MaxFaults   \* bound on failing calls and restarts together

ASSUME AdminsAssumption == Purger \notin Admins
ASSUME ClockAssumption ==
  /\ TTL \in Nat \ {0} /\ Retention \in Nat \ {0}
  /\ LastTrash \in Nat /\ MaxNow \in Nat /\ LastTrash + Retention < MaxNow
ASSUME FaultsAssumption == MaxFaults \in Nat

Workers == Admins \cup {Purger}
AdminKinds == {"suspend", "activate", "update_on", "update_off", "trash",
               "restore", "delete"}
Kinds == AdminKinds \cup {"purge"}

VARIABLES
  user,     \* the row: exists, is_active, in the trash, trash_expires_at
  site,     \* what nginx serves for each domain
  listed,   \* the domain rows of the account
  op,       \* the operations: kind, next step, the expiry computed at the
            \* start and the domains read
  entry,    \* the account's entry in authcache
  call,     \* requests: next step, time of arrival, answer
  now, faults,
  offSince, \* history: when the account stopped being active
  spoiled,  \* history: the cache entry outlived what it was read from
  trust     \* history: "settled" once an operation has run alone and whole,
            \* "mending" while one does, "astray" when operations overlap, one
            \* is cut, is an Update, or a call of it fails

row == <<user, site, listed, op>>
accountHistory == <<offSince, spoiled, trust>>
accountVars == <<row, entry, call, now, faults, accountHistory>>

Active(u) == u.exists /\ u.active
Deleted ==
  [exists |-> FALSE, active |-> FALSE, trashed |-> FALSE, expires |-> 0]
NoEntry == [cached |-> FALSE, allowed |-> FALSE, until |-> 0]
NoOperation == [kind |-> "suspend", pc |-> "idle", expires |-> 0, doms |-> {}]

NoCall == [pc |-> "idle", since |-> 0, allowed |-> FALSE]

AccountInit ==
  /\ user = [exists |-> TRUE, active |-> TRUE, trashed |-> FALSE, expires |-> 0]
  /\ site = [s \in Sites |-> "live"] /\ listed = Sites
  /\ op = [w \in Workers |-> NoOperation]
  /\ entry = NoEntry
  /\ call = [r \in Calls |-> NoCall]
  /\ now = 0 /\ faults = 0
  /\ offSince = 0 /\ spoiled = FALSE /\ trust = "settled"

-----------------------------------------------------------------------------
(* Operations on the account                                               *)

ExpiredInactive(u) == u.exists /\ u.trashed /\ ~u.active /\ u.expires <= now
Expired(u) == u.exists /\ u.trashed /\ u.expires <= now

\* What an operation reads before it acts; it returns an error otherwise.
MayStart(kind) ==
  CASE kind \in {"suspend", "delete"} -> user.exists
    [] kind = "trash" -> user.exists /\ now <= LastTrash
    [] kind = "restore" -> user.exists /\ user.trashed
    [] kind = "purge" -> Expired(user)
    [] OTHER -> TRUE

\* Update touches the row only; Activate skips the server without a row.
FirstStep(kind) ==
  IF kind \in {"update_on", "update_off"} \/ ~user.exists
  THEN "write" ELSE "list"

Launch(w, kind, step) ==
  /\ op[w].pc = "idle"
  /\ MayStart(kind)
  /\ op' = [op EXCEPT ![w] = [kind |-> kind, pc |-> step, doms |-> {},
                              expires |-> IF kind = "trash"
                                          THEN now + Retention ELSE 0]]
  /\ trust' = IF step = "list" /\ \A v \in Workers : op[v].pc = "idle"
              THEN "mending" ELSE "astray"
  /\ UNCHANGED <<user, site, listed, entry, call, now, offSince, spoiled>>

Start(w, kind) == Launch(w, kind, FirstStep(kind)) /\ UNCHANGED faults

\* Activate takes any error of its read for an account with no server side.
ActivateUnread(w) ==
  /\ faults < MaxFaults /\ faults' = faults + 1
  /\ Launch(w, "activate", "write")

List(w) ==
  /\ op[w].pc = "list"
  /\ op' = [op EXCEPT ![w].pc = "server", ![w].doms = listed]
  /\ UNCHANGED <<user, site, listed, entry, call, now, faults, accountHistory>>

\* The operation goes on as if the account had no domains.
ListFails(w) ==
  /\ op[w].pc = "list"
  /\ faults < MaxFaults /\ faults' = faults + 1
  /\ op' = [op EXCEPT ![w].pc = "server", ![w].doms = {}]
  /\ trust' = "astray"
  /\ UNCHANGED <<user, site, listed, entry, call, now, offSince, spoiled>>

TearsDown(kind) == kind \in {"delete", "purge"}

SuspendsButTrash(kind) == kind = "suspend"
Suspends(kind) == kind \in {"suspend", "trash"}

SiteAfter(kind) ==
  IF TearsDown(kind) THEN "gone"
  ELSE IF Suspends(kind) THEN "suspended" ELSE "live"

TearsDownRowsOnly(w, kept, left) ==
  /\ op[w].pc = "server"
  /\ site' = [s \in Sites |-> IF s \in op[w].doms \ kept
                                  /\ ~TearsDown(op[w].kind)
                              THEN SiteAfter(op[w].kind) ELSE site[s]]
  /\ listed' = IF TearsDown(op[w].kind)
               THEN listed \ (op[w].doms \ left) ELSE listed
  /\ op' = [op EXCEPT ![w].pc = "write", ![w].doms = {}]
  /\ UNCHANGED <<user, entry, call, now, offSince, spoiled>>

\* The calls fail for the vhosts in kept and for the domain rows in left.
ServerCalls(w, kept, left) ==
  /\ op[w].pc = "server"
  /\ site' = [s \in Sites |-> IF s \in op[w].doms \ kept
                              THEN SiteAfter(op[w].kind) ELSE site[s]]
  /\ listed' = IF TearsDown(op[w].kind)
               THEN listed \ (op[w].doms \ left) ELSE listed
  /\ op' = [op EXCEPT ![w].pc = "write", ![w].doms = {}]
  /\ UNCHANGED <<user, entry, call, now, offSince, spoiled>>

ChangeServer(w) == ServerCalls(w, {}, {}) /\ UNCHANGED <<faults, trust>>

ServerCallsFail(w) ==
  /\ faults < MaxFaults /\ faults' = faults + 1
  /\ \E kept, left \in SUBSET op[w].doms :
       kept \cup left # {} /\ ServerCalls(w, kept, left)
  /\ trust' = "astray"

Restored == [user EXCEPT !.active = TRUE, !.trashed = FALSE, !.expires = 0]

RowAfter(o) ==
  CASE o.kind \in {"suspend", "update_off"} -> [user EXCEPT !.active = FALSE]
    [] o.kind \in {"activate", "update_on"} -> [user EXCEPT !.active = TRUE]
    [] o.kind = "trash" -> [user EXCEPT !.active = FALSE, !.trashed = TRUE,
                                        !.expires = o.expires]
    [] o.kind = "restore" -> Restored
    [] o.kind \in {"delete", "purge"} -> Deleted

Invalidates(kind) == kind \notin {"update_on", "update_off"}

\* Trash, Restore and the purger do not look at the number of rows matched.
WriteRow(w) ==
  /\ op[w].pc = "write"
  /\ user' = IF user.exists THEN RowAfter(op[w]) ELSE user
  /\ op' = [op EXCEPT ![w] =
              IF /\ Invalidates(@.kind)
                 /\ user.exists \/ @.kind \in {"trash", "restore", "purge"}
              THEN [@ EXCEPT !.pc = "invalidate"] ELSE NoOperation]
  /\ offSince' = IF Active(user') THEN 0
                 ELSE IF Active(user) THEN now ELSE offSince
  /\ spoiled' = (spoiled \/ op[w].kind = "update_off")
  /\ UNCHANGED <<site, listed, entry, call, now, faults, trust>>

\* The database refuses the write and the operation returns its error.
WriteFails(w) ==
  /\ op[w].pc = "write"
  /\ faults < MaxFaults
  /\ faults' = faults + 1
  /\ op' = [op EXCEPT ![w] = NoOperation]
  /\ trust' = "astray"
  /\ UNCHANGED <<user, site, listed, entry, call, now, offSince, spoiled>>

Invalidate(w) ==
  /\ op[w].pc = "invalidate"
  /\ entry' = NoEntry
  /\ op' = [op EXCEPT ![w] = NoOperation]
  /\ spoiled' = FALSE
  /\ trust' = IF trust = "mending" THEN "settled" ELSE trust
  /\ UNCHANGED <<user, site, listed, call, now, faults, offSince>>

-----------------------------------------------------------------------------
(* isUserAllowed                                                           *)

Fresh == entry.cached /\ entry.until > now

\* A request is served or turned away.
Answer(allowed, since) ==
  IF allowed THEN [pc |-> "served", since |-> since, allowed |-> TRUE]
  ELSE NoCall

\* The clock is read once, before the cache.
AskCache(r) ==
  /\ call[r].pc \in {"idle", "served"}
  /\ call' = [call EXCEPT ![r] =
               IF ~Fresh
               THEN [pc |-> "query", since |-> now, allowed |-> FALSE]
               ELSE Answer(entry.allowed, now)]
  /\ UNCHANGED <<row, entry, now, faults, accountHistory>>

\* A failed query denies this request and caches nothing.
Query(r) ==
  /\ call[r].pc = "query"
  /\ call' = [call EXCEPT ![r].pc = "put", ![r].allowed = Active(user)]
  /\ UNCHANGED <<row, entry, now, faults, accountHistory>>

QueryFails(r) ==
  /\ call[r].pc = "query"
  /\ call' = [call EXCEPT ![r] = NoCall]
  /\ UNCHANGED <<row, entry, now, faults, accountHistory>>

UntilFromPut(r) == now + TTL
Until(r) == call[r].since + TTL

Put(r) ==
  /\ call[r].pc = "put"
  /\ entry' = [cached |-> TRUE, allowed |-> call[r].allowed, until |-> Until(r)]
  /\ call' = [call EXCEPT ![r] = Answer(@.allowed, @.since)]
  /\ spoiled' = ~Active(user)
  /\ UNCHANGED <<row, now, faults, offSince, trust>>

-----------------------------------------------------------------------------
Tick ==
  /\ now < MaxNow
  /\ now' = now + 1
  /\ UNCHANGED <<row, entry, call, faults, accountHistory>>

\* The cache and whatever is in flight are lost.
Restart ==
  /\ faults < MaxFaults
  /\ faults' = faults + 1
  /\ op' = [w \in Workers |-> NoOperation]
  /\ entry' = NoEntry
  /\ call' = [r \in Calls |-> NoCall]
  /\ spoiled' = FALSE
  /\ trust' = IF \E w \in Workers : op[w].pc # "idle" THEN "astray" ELSE trust
  /\ UNCHANGED <<user, site, listed, now, offSince>>

StepOf(w) == List(w) \/ ChangeServer(w) \/ WriteRow(w) \/ Invalidate(w)
FailureOf(w) == ListFails(w) \/ ServerCallsFail(w) \/ WriteFails(w)

AccountNext ==
  \/ \E w \in Admins, kind \in AdminKinds : Start(w, kind)
  \/ Start(Purger, "purge")
  \/ \E w \in Admins : ActivateUnread(w)
  \/ \E w \in Workers : StepOf(w) \/ FailureOf(w)
  \/ \E r \in Calls : AskCache(r) \/ Query(r) \/ QueryFails(r) \/ Put(r)
  \/ Tick
  \/ Restart

\* The purger's ticker keeps running and what it started goes on.
Fairness ==
  /\ WF_accountVars(Start(Purger, "purge"))
  /\ WF_accountVars(StepOf(Purger))
  /\ WF_accountVars(Tick)

AccountSpec == AccountInit /\ [][AccountNext]_accountVars /\ Fairness

-----------------------------------------------------------------------------
\* Every variable has its type, and only a row in the trash has an expiry.
AccountTypeOK ==
  /\ user \in [exists : BOOLEAN, active : BOOLEAN, trashed : BOOLEAN,
               expires : Nat]
  /\ ~user.trashed => user.expires = 0
  /\ site \in [Sites -> {"live", "suspended", "gone"}]
  /\ listed \subseteq Sites
  /\ op \in [Workers -> [kind : Kinds, expires : Nat, doms : SUBSET Sites,
                         pc : {"idle", "list", "server", "write", "invalidate"}]]
  /\ entry \in [cached : BOOLEAN, allowed : BOOLEAN, until : Nat]
  /\ call \in [Calls -> [pc : {"idle", "query", "put", "served"},
                          since : Nat, allowed : BOOLEAN]]
  /\ now \in Nat /\ faults \in Nat /\ offSince \in Nat
  /\ spoiled \in BOOLEAN /\ trust \in {"settled", "mending", "astray"}

LastActive == IF Active(user) THEN now ELSE offSince

\* Whatever the interleaving, a request is let in only if the account was
\* active less than the cache's TTL before the request came.
BoundedStaleness ==
  \A r \in Calls : call[r].pc = "served"
                      => call[r].since < LastActive + TTL

\* The cache lets in an account that is off only while the operation that
\* turned it off has not reached its invalidation, after an Update, or when
\* a request read the row before and filled the cache after it.
StaleOnlyByRace ==
  entry.cached /\ entry.allowed /\ ~Active(user)
    => spoiled \/ \E w \in Workers : op[w].pc = "invalidate"

\* Whatever failed, was cut or overlapped before, one operation that runs
\* alone and whole brings the domains the account still has back in line with
\* its row: they are served exactly while it is active, and a deleted account
\* has none.
SitesFollowRow ==
  trust = "settled" =>
    /\ \A s \in listed : site[s] = IF Active(user) THEN "live" ELSE "suspended"
    /\ ~user.exists => listed = {}

\* Domains that are still served although no row lists them.
Stranded == {s \in Sites \ listed : site[s] # "gone"}

\* No operation can reach a stranded site again.  One comes about only by a
\* failing call, or by an operation that read the domain's row before it was
\* torn down and writes its vhost afterwards.
StrandedOnlyByRace ==
  [][Stranded' \subseteq Stranded
       \/ faults' > faults
       \/ \E w \in Workers : /\ op[w].pc = "server" /\ op'[w].pc = "write"
                             /\ ~TearsDown(op[w].kind)
                             /\ Stranded' \ Stranded \subseteq op[w].doms \ listed
    ]_accountVars

\* A trashed account does not stay in the trash for ever.
TrashIsEmptied ==
  user.exists /\ user.trashed ~> ~user.exists \/ ~user.trashed
=============================================================================
