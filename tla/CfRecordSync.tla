---------------------------- MODULE CfRecordSync ----------------------------
(***************************************************************************)
(* How an edit of a DNS record reaches Cloudflare: the editors of          *)
(* internal/services/dns_service.go, the per-domain debounce wired in      *)
(* cmd/server/main.go and reconcileDomain of                               *)
(* internal/services/cloudflare_sync_job_service.go.                       *)
(*                                                                         *)
(* One name and type of one connected, enabled domain; a record is its     *)
(* value, and values are compared in the order the code sorts them.  Every *)
(* call of a sync is a step, and an edit writes its row some time before   *)
(* PowerDNS answers: syncs interleave with edits and with each other.  The *)
(* id stamped back on the local row and the proxied flag are left out: no  *)
(* later sync reads the one, the other moves no record.                    *)
(***************************************************************************)
EXTENDS Integers, FiniteSets, Sequences, SequencesExt

CONSTANTS
  Values,      \* record values, as integers in their sorted order
  MailValues,  \* those isMailRecord recognises
  MaxEdits,    \* bound on edits in the panel
  MaxEvents    \* bound on operator syncs, failing calls and restarts together

ASSUME ValuesAssumption ==
  Values \subseteq Int /\ IsFiniteSet(Values) /\ MailValues \subseteq Values
ASSUME BoundsAssumption == MaxEdits \in Nat /\ MaxEvents \in Nat

Runs == 1 .. (MaxEdits + MaxEvents)

VARIABLES
  local,      \* dns_records: values of this name and type
  cf,         \* Cloudflare's records: id to value
  nextId,     \* Cloudflare's next record id
  following,  \* edits whose row is written and PowerDNS has not answered
  hooks,      \* hook goroutines not run yet
  entry,      \* the domain has a timer in cfSyncTimers
  armed,      \* that timer is running
  orphans,    \* running timers no longer in the map
  firing,     \* fired callbacks waiting for cfSyncMu
  run,        \* the sync goroutines
  edits, operator, faults, reboots,
  dirty,      \* history: an edit no sync has read
  overlapped  \* history: two syncs ran at once

timer == <<entry, armed, orphans, firing>>
counters == <<operator, reboots>>
recordVars == <<local, cf, nextId, following, hooks, timer, run, edits, counters,
                faults, dirty, overlapped>>

\* sort.Strings of the keys of a map.
Ascending(S) ==
  CHOOSE s \in SetToSeqs(S) : \A i, j \in DOMAIN s : i < j => s[i] < s[j]

NoRun == [pc |-> "none", deletes |-> FALSE, listed |-> << >>, todo |-> << >>]
EventAllowed == operator + faults + reboots < MaxEvents
Active(r) == run[r].pc \in {"list", "load", "apply"}

\* The sync that connected the domain is over; Cloudflare may hold records
\* of its own.
RecordInit ==
  /\ local \in SUBSET Values
  /\ \E S \in SUBSET Values : local \subseteq S /\ cf = Ascending(S)
  /\ nextId = Cardinality(Values) + 1
  /\ following = {} /\ hooks = 0
  /\ entry = FALSE /\ armed = FALSE /\ orphans = 0 /\ firing = 0
  /\ run = [r \in Runs |-> NoRun]
  /\ edits = 0 /\ operator = 0 /\ faults = 0 /\ reboots = 0
  /\ dirty = FALSE /\ overlapped = FALSE

-----------------------------------------------------------------------------
(* Edits and the debounce                                                  *)

\* The row is written; PowerDNS follows.
Edit(kind, value, after) ==
  /\ edits < MaxEdits
  /\ edits' = edits + 1
  /\ local' = after
  /\ dirty' = TRUE
  /\ following' = following \cup {[kind |-> kind, value |-> value, edit |-> edits]}
  /\ UNCHANGED <<cf, nextId, hooks, timer, run, counters, faults, overlapped>>

AddRecord == \E v \in Values \ local : Edit("add", v, local \cup {v})
DeleteRecord == \E v \in local : Edit("delete", v, local \ {v})
UpdateRecord ==
  \E v \in local, w \in Values \ local :
    Edit("update", w, (local \ {v}) \cup {w})

FireHookUnlessDelete(kind) == IF kind = "delete" THEN hooks ELSE hooks + 1
FireHook(kind) == hooks + 1

PdnsFollows(e) ==
  /\ following' = following \ {e}
  /\ hooks' = FireHook(e.kind)
  /\ UNCHANGED <<local, cf, nextId, timer, run, edits, counters, faults,
                 dirty, overlapped>>

\* PowerDNS refuses: an added row is taken back, an update or a delete stays
\* written; no hook is fired.
PdnsFails(e) ==
  /\ EventAllowed /\ faults' = faults + 1
  /\ following' = following \ {e}
  /\ local' = IF e.kind = "add" THEN local \ {e.value} ELSE local
  /\ UNCHANGED <<cf, nextId, hooks, timer, run, edits, counters, dirty,
                 overlapped>>

Hook ==
  /\ hooks > 0
  /\ hooks' = hooks - 1
  /\ entry' = TRUE
  /\ armed' = TRUE
  /\ UNCHANGED <<local, cf, nextId, following, orphans, firing, run, edits,
                 counters, faults, dirty, overlapped>>

Fire ==
  /\ \/ armed /\ armed' = FALSE /\ UNCHANGED orphans
     \/ orphans > 0 /\ orphans' = orphans - 1 /\ UNCHANGED armed
  /\ firing' = firing + 1
  /\ UNCHANGED <<local, cf, nextId, following, hooks, entry, run, edits, counters,
                 faults, dirty, overlapped>>

\* insertAndRun: the goroutines are numbered in the order they start.
StartSync(deletes) ==
  LET r == CHOOSE s \in Runs : run[s].pc = "none"
                    /\ \A t \in Runs : t < s => run[t].pc # "none"
  IN  /\ run' = [run EXCEPT ![r] = [NoRun EXCEPT !.pc = "list",
                                                 !.deletes = deletes]]
      /\ overlapped' = (overlapped \/ \E s \in Runs : Active(s))

\* The callback takes its domain out of the map, even when the timer in the
\* map was re-armed meanwhile; its gate reads fail closed.
Callback ==
  /\ firing > 0
  /\ firing' = firing - 1
  /\ entry' = FALSE
  /\ armed' = FALSE
  /\ orphans' = IF armed THEN orphans + 1 ELSE orphans
  /\ \/ StartSync(FALSE) /\ UNCHANGED faults
     \/ /\ EventAllowed /\ faults' = faults + 1
        /\ UNCHANGED <<run, overlapped>>
  /\ UNCHANGED <<local, cf, nextId, following, hooks, edits, counters, dirty>>

OperatorSync ==
  /\ EventAllowed
  /\ operator' = operator + 1
  /\ \E deletes \in BOOLEAN : StartSync(deletes)
  /\ UNCHANGED <<local, cf, nextId, following, hooks, timer, edits, faults, reboots,
                 dirty>>

-----------------------------------------------------------------------------
(* reconcileDomain                                                         *)

Ops == [kind : {"update", "create", "delete"}, value : Values, id : Nat]
Op(kind, v, id) == [kind |-> kind, value |-> v, id |-> id]

LeftoverAny(v) == TRUE
Leftover(v) == v \notin MailValues

FirstCreateOffByOne(pair) == pair + 2
FirstCreate(pair) == pair + 1

\* What a sync does to local values lv when Cloudflare's values, with the id
\* listed for each, are cv: the i-th missing value overwrites the i-th extra.
Plan(lv, cv, deletes) ==
  LET missing == Ascending(lv \ DOMAIN cv)
      extra == Ascending(DOMAIN cv \ lv)
      pair == IF Len(missing) < Len(extra) THEN Len(missing) ELSE Len(extra)
      created == SubSeq(missing, FirstCreate(pair), Len(missing))
      rest == {extra[i] : i \in pair + 1 .. Len(extra)}
      dropped == Ascending({v \in rest : deletes /\ Leftover(v)})
  IN  [i \in 1 .. pair |-> Op("update", missing[i], cv[extra[i]])]
      \o [i \in DOMAIN created |-> Op("create", created[i], 0)]
      \o [i \in DOMAIN dropped |-> Op("delete", dropped[i], cv[dropped[i]])]

\* What ListRecords leaves of a zone: one id for each value.
Listings(zone) ==
  LET values == {zone[id] : id \in DOMAIN zone} IN
  {f \in [values -> DOMAIN zone] : \A v \in values : zone[f[v]] = v}

ListRecords(r) ==
  /\ run[r].pc = "list"
  /\ \E f \in Listings(cf) :
       run' = [run EXCEPT ![r] = [@ EXCEPT !.pc = "load", !.listed = f]]
  /\ UNCHANGED <<local, cf, nextId, following, hooks, timer, edits, counters, faults,
                 dirty, overlapped>>

LoadLocal(r) ==
  /\ run[r].pc = "load"
  /\ run' = [run EXCEPT
       ![r] = [NoRun EXCEPT
                 !.pc = "apply", !.deletes = run[r].deletes,
                 !.todo = Plan(local, run[r].listed, run[r].deletes)]]
  /\ dirty' = FALSE
  /\ UNCHANGED <<local, cf, nextId, following, hooks, timer, edits, counters, faults,
                 overlapped>>

InCf(v, zone) == \E id \in DOMAIN zone : zone[id] = v

\* Cloudflare knows no other id; it may take a second equal record or not.
Accepts(op, zone) == op.kind = "create" \/ op.id \in DOMAIN zone
Refuses(op, zone) ==
  IF op.kind = "create" THEN InCf(op.value, zone) ELSE op.id \notin DOMAIN zone
Applied(op, zone, fresh) ==
  CASE op.kind = "update" -> [zone EXCEPT ![op.id] = op.value]
    [] op.kind = "create" ->
         [id \in DOMAIN zone \cup {fresh} |->
            IF id = fresh THEN op.value ELSE zone[id]]
    [] op.kind = "delete" -> [id \in DOMAIN zone \ {op.id} |-> zone[id]]

ApplyNext(r) ==
  LET op == Head(run[r].todo) IN
  /\ run[r].pc = "apply" /\ run[r].todo # << >>
  /\ \/ /\ Accepts(op, cf)
        /\ cf' = Applied(op, cf, nextId)
        /\ nextId' = IF op.kind = "create" THEN nextId + 1 ELSE nextId
        /\ run' = [run EXCEPT ![r] = [@ EXCEPT !.todo = Tail(run[r].todo)]]
     \/ /\ Refuses(op, cf)
        /\ run' = [run EXCEPT ![r] = [NoRun EXCEPT !.pc = "ended"]]
        /\ UNCHANGED <<cf, nextId>>
  /\ UNCHANGED <<local, following, hooks, timer, edits, counters, faults, dirty,
                 overlapped>>

Synced(r) ==
  /\ run[r].pc = "apply" /\ run[r].todo = << >>
  /\ run' = [run EXCEPT ![r] = [NoRun EXCEPT !.pc = "ended"]]
  /\ UNCHANGED <<local, cf, nextId, following, hooks, timer, edits, counters, faults,
                 dirty, overlapped>>

\* Any call may fail; the domain is given up where it stands.
CallFails(r) ==
  /\ Active(r)
  /\ EventAllowed /\ faults' = faults + 1
  /\ run' = [run EXCEPT ![r] = [NoRun EXCEPT !.pc = "ended"]]
  /\ UNCHANGED <<local, cf, nextId, following, hooks, timer, edits, counters, dirty,
                 overlapped>>

ProcessRestarts ==
  /\ EventAllowed
  /\ reboots' = reboots + 1
  /\ following' = {} /\ hooks' = 0 /\ entry' = FALSE /\ armed' = FALSE /\ orphans' = 0
  /\ firing' = 0
  /\ run' = [r \in Runs |-> IF Active(r) THEN [NoRun EXCEPT !.pc = "ended"]
                                         ELSE run[r]]
  /\ UNCHANGED <<local, cf, nextId, edits, operator, faults, dirty,
                 overlapped>>

-----------------------------------------------------------------------------
Sync(r) == ListRecords(r) \/ LoadLocal(r) \/ ApplyNext(r) \/ Synced(r)

RecordNext ==
  \/ AddRecord \/ DeleteRecord \/ UpdateRecord
  \/ \E e \in following : PdnsFollows(e) \/ PdnsFails(e)
  \/ Hook \/ Fire \/ Callback \/ OperatorSync
  \/ \E r \in Runs : Sync(r) \/ CallFails(r)
  \/ ProcessRestarts

\* Calls return, goroutines run and timers fire.
RecordFairness ==
  /\ WF_recordVars(\E e \in following : PdnsFollows(e))
  /\ WF_recordVars(Hook) /\ WF_recordVars(Fire) /\ WF_recordVars(Callback)
  /\ \A r \in Runs : WF_recordVars(Sync(r))

RecordSpec == RecordInit /\ [][RecordNext]_recordVars /\ RecordFairness

-----------------------------------------------------------------------------
\* Every variable has its type.
RecordTypeOK ==
  /\ local \in SUBSET Values
  /\ DOMAIN cf \subseteq 1 .. (nextId - 1)
  /\ \A id \in DOMAIN cf : cf[id] \in Values
  /\ nextId \in Nat \ {0}
  /\ following \subseteq [kind : {"add", "update", "delete"}, value : Values, edit : Nat]
  /\ IsFiniteSet(following)
  /\ {hooks, orphans, firing, edits, operator, faults, reboots} \subseteq Nat
  /\ {entry, armed, dirty, overlapped} \subseteq BOOLEAN
  /\ armed => entry
  /\ Cardinality(following) + hooks + orphans + firing + (IF armed THEN 1 ELSE 0)
       <= edits
  /\ run = [r \in Runs |-> run[r]]
  /\ \A r \in Runs : \E V \in SUBSET Values :
       run[r] \in [pc : {"none", "list", "load", "apply", "ended"},
                  deletes : BOOLEAN, listed : [V -> Nat], todo : Seq(Ops)]

Quiet == following = {} /\ hooks = 0 /\ ~armed /\ orphans = 0 /\ firing = 0
         /\ \A r \in Runs : ~Active(r)

\* When everything has settled, every local record is in Cloudflare: a burst
\* of edits is never coalesced into a sync that misses the last of them --
\* unless two syncs of the domain overlapped, a call failed or the process
\* was restarted.
NothingMissed ==
  Quiet /\ edits > 0 /\ ~overlapped /\ faults = 0 /\ reboots = 0
    => \A v \in local : InCf(v, cf)

\* Every edit is eventually read by a sync that starts after it.
EditReachesSync ==
  dirty ~> (~dirty \/ faults > 0 \/ reboots > 0)

\* The zone once the calls ops have been answered in turn, each with an id of
\* its own for what it creates.
ApplyAll(ops, zone, fresh) ==
  LET Zone[i \in 0 .. Len(ops)] ==
        IF i = 0 THEN zone ELSE Applied(ops[i], Zone[i - 1], fresh + i - 1)
  IN  Zone[Len(ops)]

\* A sync left alone converges: it brings every local value to Cloudflare,
\* with deletes leaves nothing else but mail records, and has nothing to do a
\* second time.
SyncConverges ==
  (\A v, w \in DOMAIN cf : cf[v] = cf[w] => v = w) =>
  \A deletes \in BOOLEAN : \A f \in Listings(cf) :
    LET after == ApplyAll(Plan(local, f, deletes), cf, nextId) IN
    /\ \A v \in local : InCf(v, after)
    /\ deletes => \A id \in DOMAIN after : after[id] \in local \cup MailValues
    /\ \A g \in Listings(after) : Plan(local, g, deletes) = << >>

\* Only a sync asked to delete removes a record, and never a mail record,
\* unless another sync changed the record since it was listed.
MailNeverDeleted ==
  [][\A id \in DOMAIN cf \ DOMAIN cf' :
       /\ \E r \in Runs : run[r].deletes
       /\ cf[id] \in MailValues => overlapped]_recordVars
=============================================================================
