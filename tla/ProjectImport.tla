---------------------------- MODULE ProjectImport ----------------------------
(***************************************************************************)
(* Project imports: internal/services/project_import_job.go, and of        *)
(* project_service.go Provision, AddService, RemoveService and Delete.     *)
(*                                                                         *)
(* An import is a row of project_import_jobs and a goroutine that creates  *)
(* a project, clones its repository and sets up its services one by one: a *)
(* build, a port, a systemd unit, a vhost, a row.  If any step fails it    *)
(* rolls back: the project is deleted with the services that have a row.   *)
(* An operator may remove a service or delete a project meanwhile, and the *)
(* panel may stop; units outlive it.  A call to the database or to systemd *)
(* may fail anywhere; where a step turns back, failing is one of its       *)
(* outcomes, and where the code goes on regardless, the call is refused.   *)
(* All imports are of one manifest of back-end services, so they compete   *)
(* for the slug and for the ports.  Builds, clones and vhosts are          *)
(* outcomes; attached domains are in AttachedDomains.                      *)
(***************************************************************************)
EXTENDS Naturals, FiniteSets

CONSTANTS
  Jobs,      \* imports
  N,         \* services of the manifest
  OwnPort,   \* the port a service listens on whatever it is told, or 0
  MaxTroubles \* bound on stops, deletions by the operator and refused calls

Manifest == 1 .. N
Slugs == 1 .. Cardinality(Jobs)
PortRange == 1 .. 2 * N * Cardinality(Jobs)

ASSUME ImportAssumption ==
  IsFiniteSet(Jobs) /\ N \in Nat \ {0} /\ MaxTroubles \in Nat
ASSUME OwnPortAssumption == OwnPort \in [Manifest -> PortRange \cup {0}]

VARIABLES
  job,       \* rows of project_import_jobs: their status
  ex,        \* per import, its goroutine: next step, service, port, the
             \* slug of its project, the services a rollback has left
  slugOf,    \* projects, named by the import that made them: their slug, or 0
  row,       \* services with a row: port and slug of the unit, per project
  unit,      \* systemd units, per slug and service: the port its process
             \* listens on, and state
  op,        \* the operator's deletion: project, what is left, whole project
  recovery,  \* the recovery at boot is still to come
  up,        \* the panel serves
  troubles,  \* stops, deletions and refused calls so far
  together,  \* history: imports that held one port at a time
  adrift,    \* history: services whose port was not looked up in the rows
  spilled,   \* history: an import failed after it made a unit, or a removal
             \* missed or kept a unit
  kept,      \* history: what the deletion of a project failed to delete
  unrecorded,\* history: imports whose outcome was never written
  disturbed  \* history: projects a stop or the operator interfered with

importHistory == <<together, adrift, spilled, kept, unrecorded, disturbed>>
env == <<recovery, up>>
importVars == <<job, ex, slugOf, row, unit, op, env, troubles, importHistory>>

NoRow == [port |-> 0, slug |-> 0]
NoUnit == [port |-> 0, run |-> "none"]
Gone == [pc |-> "gone", k |-> 1, port |-> 0, slug |-> 0, left |-> {}]
NoOp == [project |-> {}, left |-> {}, whole |-> FALSE]

Importing(j) == ex[j].pc \notin {"gone", "asked"}
AtPc(j, pc) == up /\ ex[j].pc = pc
Trouble == troubles < MaxTroubles /\ troubles' = troubles + 1

\* The calls that fail in this step.
Refuse(calls) ==
  troubles' = troubles + Cardinality(calls) /\ troubles' <= MaxTroubles

Rows(j) == {k \in Manifest : row[j][k] # NoRow}
\* The services of a project as a list of them is read: rows name their unit.
Listed(j) == {[k |-> k, slug |-> row[j][k].slug] : k \in Rows(j)}
Bound(p) == \E s \in Slugs, k \in Manifest : unit[s][k] = [port |-> p, run |-> "bound"]
Recorded(p) == \E j \in Jobs, k \in Manifest : row[j][k].port = p

ImportInit ==
  /\ job = [j \in Jobs |-> "absent"] /\ ex = [j \in Jobs |-> Gone]
  /\ slugOf = [j \in Jobs |-> 0]
  /\ row = [j \in Jobs |-> [k \in Manifest |-> NoRow]]
  /\ unit = [s \in Slugs |-> [k \in Manifest |-> NoUnit]]
  /\ op = NoOp /\ recovery = FALSE /\ up = TRUE /\ troubles = 0
  /\ together = {} /\ adrift = {} /\ spilled = FALSE
  /\ kept = [j \in Jobs |-> {}] /\ unrecorded = {} /\ disturbed = {}

-----------------------------------------------------------------------------
(* Asking for an import                                                    *)

\* StartImportJob counts the running imports of this project; none may run.
CountRunning(j) ==
  /\ up /\ job[j] = "absent" /\ ex[j].pc = "gone"
  /\ \A k \in Jobs : job[k] # "running"
  /\ ex' = [ex EXCEPT ![j].pc = "asked"]
  /\ UNCHANGED <<job, slugOf, row, unit, op, env, troubles, importHistory>>

\* A count that fails is taken for none.
CountFails(j) ==
  /\ up /\ job[j] = "absent" /\ ex[j].pc = "gone"
  /\ ex' = [ex EXCEPT ![j].pc = "asked"]
  /\ UNCHANGED <<job, slugOf, row, unit, op, env, troubles, importHistory>>

\* The row is inserted and the import goes on, detached from the request.
InsertJob(j) ==
  /\ AtPc(j, "asked")
  /\ job' = [job EXCEPT ![j] = "running"]
  /\ ex' = [ex EXCEPT ![j].pc = "create"]
  /\ UNCHANGED <<slugOf, row, unit, op, env, troubles, importHistory>>

-----------------------------------------------------------------------------
(* Provision and AddService                                                *)

Goto(j, pc) == ex' = [ex EXCEPT ![j].pc = pc]

\* The first free slug; the insert may be refused, as when the caller's
\* tenant has a project of this name.
FreeSlug == CHOOSE s \in Slugs :
  /\ \A j \in Jobs : slugOf[j] # s
  /\ \A t \in 1 .. s - 1 : \E j \in Jobs : slugOf[j] = t
CreateProject(j) ==
  /\ AtPc(j, "create")
  /\ \/ slugOf' = [slugOf EXCEPT ![j] = FreeSlug]
        /\ ex' = [ex EXCEPT ![j].pc = "clone", ![j].slug = FreeSlug]
     \/ UNCHANGED slugOf /\ Goto(j, "failed")
  /\ UNCHANGED <<job, row, unit, op, env, troubles, importHistory>>

CloneRepoGivesUp(j) ==
  /\ AtPc(j, "clone")
  /\ Goto(j, "build") \/ Goto(j, "failed")
  /\ UNCHANGED <<job, slugOf, row, unit, op, env, troubles, importHistory>>
CloneRepo(j) ==
  /\ AtPc(j, "clone")
  /\ Goto(j, "build") \/ Goto(j, "rollback")
  /\ UNCHANGED <<job, slugOf, row, unit, op, env, troubles, importHistory>>

\* The project is read, the service checked, installed and built.
Build(j) ==
  /\ AtPc(j, "build")
  /\ \/ slugOf[j] # 0 /\ Goto(j, "port")
     \/ Goto(j, "rollback")
  /\ UNCHANGED <<job, slugOf, row, unit, op, env, troubles, importHistory>>

\* A port in a row, if the rows can be read, or on which somebody listens.
TakenIfBound(p, seen) == Bound(p)
Taken(p, seen) == (seen /\ Recorded(p)) \/ Bound(p)
Holds(j, p) == ex[j].pc \in {"unit", "detect", "insert"} /\ ex[j].port = p
AllocatePort(j) ==
  /\ AtPc(j, "port")
  /\ \E refused \in SUBSET {"rows"} :
       LET seen == refused = {}
           p == CHOOSE q \in PortRange :
                  ~Taken(q, seen) /\ \A r \in 1 .. q - 1 : Taken(r, seen) IN
       /\ Refuse(refused)
       /\ ex' = [ex EXCEPT ![j].pc = "unit", ![j].port = p]
       /\ together' = together \cup
            (IF \E k \in Jobs \ {j} : Holds(k, p)
             THEN {k \in Jobs : k = j \/ Holds(k, p)} ELSE {})
       /\ adrift' = IF seen THEN adrift ELSE adrift \cup {<<j, ex[j].k>>}
  /\ UNCHANGED <<job, slugOf, row, unit, op, env, spilled, kept, unrecorded, disturbed>>

\* The unit is written and started; it is stopped again if variables of the
\* environment are missing, and an error of that is dropped; or the start is
\* refused; or the command to start names no file and there is no unit.
CreateUnit(j) ==
  LET e == ex[j]
      p == IF OwnPort[e.k] = 0 THEN e.port ELSE OwnPort[e.k]
      Put(run) == unit' = [unit EXCEPT ![e.slug][e.k] = [port |-> p, run |-> run]] IN
  /\ AtPc(j, "unit")
  /\ \/ Put("starting") /\ Goto(j, "detect") /\ UNCHANGED <<troubles, spilled>>
     \/ Put("stopped") /\ Goto(j, "insert") /\ UNCHANGED <<troubles, spilled>>
     \/ Put("starting") /\ Goto(j, "insert") /\ Refuse({"stop"}) /\ UNCHANGED spilled
     \/ Put("stopped") /\ Goto(j, "rollback") /\ spilled' = TRUE /\ UNCHANGED troubles
     \/ Goto(j, "rollback") /\ UNCHANGED <<unit, troubles, spilled>>
  /\ UNCHANGED <<job, slugOf, row, op, env, together, adrift, kept, unrecorded, disturbed>>

\* External: systemd restarts a unit until its process listens.
Listen(s, k) ==
  /\ unit[s][k].run = "starting" /\ ~Bound(unit[s][k].port)
  /\ unit' = [unit EXCEPT ![s][k].run = "bound"]
  /\ UNCHANGED <<job, ex, slugOf, row, op, env, troubles, importHistory>>

\* Whoever listens on the port it was given, the service is taken to be up.
DetectPort(j) ==
  /\ AtPc(j, "detect") /\ Bound(ex[j].port)
  /\ Goto(j, "insert")
  /\ UNCHANGED <<job, slugOf, row, unit, op, env, troubles, importHistory>>

\* Else it is up if a process of its unit listens, on whatever port: that one
\* is the service's from now on.
Own(j) == unit[ex[j].slug][ex[j].k]
DetectOwnPort(j) ==
  /\ AtPc(j, "detect") /\ ~Bound(ex[j].port) /\ Own(j).run = "bound"
  /\ ex' = [ex EXCEPT ![j].pc = "insert", ![j].port = Own(j).port]
  /\ adrift' = adrift \cup {<<j, ex[j].k>>}
  /\ UNCHANGED <<job, slugOf, row, unit, op, env, troubles,
                 together, spilled, kept, unrecorded, disturbed>>

\* The unit of a service is removed; an error of that is dropped.
KeepUnit(x, refused) ==
  /\ UNCHANGED unit
  /\ spilled' = (spilled \/ "unit" \in refused)
StopUnit(x, refused) ==
  /\ unit' = IF "unit" \in refused THEN unit
             ELSE [unit EXCEPT ![x.slug][x.k] = NoUnit]
  /\ spilled' = (spilled \/ "unit" \in refused)

\* Nothing listens in time, or the commands that look for it fail.
DetectTimesOut(j) ==
  /\ AtPc(j, "detect")
  /\ \E refused \in SUBSET {"look", "unit"} :
       /\ Refuse(refused)
       /\ (~Bound(ex[j].port) /\ Own(j).run # "bound") \/ "look" \in refused
       /\ StopUnit([k |-> ex[j].k, slug |-> ex[j].slug], refused)
  /\ Goto(j, "rollback")
  /\ UNCHANGED <<job, slugOf, row, op, env, together, adrift, kept, unrecorded, disturbed>>

\* The vhost is reconciled and the row inserted; the next service follows.
InsertService(j) ==
  LET e == ex[j] IN
  /\ AtPc(j, "insert")
  /\ row' = [row EXCEPT ![j][e.k] = [port |-> e.port, slug |-> e.slug]]
  /\ ex' = [ex EXCEPT ![j].pc = IF e.k < N THEN "build" ELSE "completed",
                      ![j].k = IF e.k < N THEN e.k + 1 ELSE e.k, ![j].port = 0]
  /\ UNCHANGED <<job, slugOf, unit, op, env, troubles, importHistory>>

\* nginx refuses the vhost, or the database the row: the unit is not removed.
InsertRefused(j) ==
  /\ AtPc(j, "insert")
  /\ Goto(j, "rollback") /\ spilled' = TRUE
  /\ UNCHANGED <<job, slugOf, row, unit, op, env, troubles,
                 together, adrift, kept, unrecorded, disturbed>>

-----------------------------------------------------------------------------
(* Removing services and projects                                          *)

\* removeServiceInternal, on a row x read before: the unit goes, then the row.
DropRow(j, k) == row' = [row EXCEPT ![j][k] = NoRow]
RemoveListed(j, x) ==
  \E refused \in SUBSET {"unit", "row"} :
    /\ Refuse(refused)
    /\ StopUnit(x, refused)
    /\ IF "row" \in refused THEN UNCHANGED row ELSE DropRow(j, x.k)

\* Delete ends by dropping every row of the project, and the project.
DropProject(j) ==
  \E refused \in SUBSET {"services", "project"} :
    /\ Refuse(refused)
    /\ row' = IF "services" \in refused THEN row
              ELSE [row EXCEPT ![j] = [k \in Manifest |-> NoRow]]
    /\ slugOf' = IF "project" \in refused THEN slugOf ELSE [slugOf EXCEPT ![j] = 0]
    /\ kept' = [kept EXCEPT ![j] = @ \cup refused]

\* The rollback of an import lists the services of its project, and finds none
\* if it cannot ...
StartRollback(j) ==
  /\ AtPc(j, "rollback")
  /\ \/ /\ ex' = [ex EXCEPT ![j].pc = "removing", ![j].left = Listed(j)]
        /\ UNCHANGED <<troubles, spilled>>
     \/ /\ ex' = [ex EXCEPT ![j].pc = "removing", ![j].left = {}]
        /\ Refuse({"list"}) /\ spilled' = TRUE
  /\ UNCHANGED <<job, slugOf, row, unit, op, env, together, adrift, kept,
                 unrecorded, disturbed>>

RollbackService(j, x) ==
  /\ AtPc(j, "removing") /\ x \in ex[j].left
  /\ RemoveListed(j, x)
  /\ ex' = [ex EXCEPT ![j].left = @ \ {x}]
  /\ UNCHANGED <<job, slugOf, op, env, together, adrift, kept, unrecorded, disturbed>>

\* ... and when they are gone, drops the project.
EndRollback(j) ==
  /\ AtPc(j, "removing") /\ ex[j].left = {}
  /\ DropProject(j)
  /\ Goto(j, "failed")
  /\ UNCHANGED <<job, unit, op, env, together, adrift, spilled, unrecorded, disturbed>>

\* The operator deletes a project, whose services may not be listed, or one
\* service of it.
StartDelete(j) ==
  /\ up /\ op = NoOp /\ Trouble /\ slugOf[j] # 0
  /\ \E left \in {Listed(j), {}} :
       op' = [project |-> {j}, whole |-> TRUE, left |-> left]
  /\ disturbed' = disturbed \cup {j}
  /\ UNCHANGED <<job, ex, slugOf, row, unit, recovery, up,
                 together, adrift, spilled, kept, unrecorded>>

StartRemoval(j, x) ==
  /\ up /\ op = NoOp /\ Trouble /\ x \in Listed(j)
  /\ op' = [project |-> {j}, whole |-> FALSE, left |-> {x}]
  /\ disturbed' = disturbed \cup {j}
  /\ UNCHANGED <<job, ex, slugOf, row, unit, recovery, up,
                 together, adrift, spilled, kept, unrecorded>>

RemoveService(j, x) ==
  /\ up /\ op.project = {j} /\ x \in op.left
  /\ RemoveListed(j, x)
  /\ op' = IF op.whole THEN [op EXCEPT !.left = @ \ {x}] ELSE NoOp
  /\ UNCHANGED <<job, ex, slugOf, env, together, adrift, kept, unrecorded, disturbed>>

EndRemoval(j) ==
  /\ up /\ op.project = {j} /\ op.left = {} /\ op.whole
  /\ DropProject(j)
  /\ op' = NoOp
  /\ UNCHANGED <<job, ex, unit, env, together, adrift, spilled, unrecorded, disturbed>>

-----------------------------------------------------------------------------
(* The end of an import, stops and boots                                   *)

\* The terminal write, under a context of its own.
Finish(j) ==
  /\ up /\ ex[j].pc \in {"completed", "failed"}
  /\ job' = [job EXCEPT ![j] = ex[j].pc]
  /\ ex' = [ex EXCEPT ![j] = Gone]
  /\ UNCHANGED <<slugOf, row, unit, op, env, troubles, importHistory>>

FinishRefused(j) ==
  /\ up /\ ex[j].pc \in {"completed", "failed"}
  /\ ex' = [ex EXCEPT ![j] = Gone]
  /\ unrecorded' = unrecorded \cup {j}
  /\ UNCHANGED <<job, slugOf, row, unit, op, env, troubles,
                 together, adrift, spilled, kept, disturbed>>

PanelStops ==
  /\ up /\ Trouble
  /\ up' = FALSE /\ recovery' = FALSE
  /\ ex' = [j \in Jobs |-> Gone] /\ op' = NoOp
  /\ disturbed' = disturbed \cup {j \in Jobs : Importing(j)} \cup op.project
  /\ UNCHANGED <<job, slugOf, row, unit, together, adrift, spilled, kept, unrecorded>>

Boot ==
  /\ ~up
  /\ up' = TRUE /\ recovery' = TRUE
  /\ UNCHANGED <<job, ex, slugOf, row, unit, op, troubles, importHistory>>

\* The recovery runs beside the server: it fails whatever runs by then, unless
\* its write is refused.
Recover ==
  /\ up /\ recovery
  /\ recovery' = FALSE
  /\ \/ /\ job' = [j \in Jobs |-> IF job[j] = "running" THEN "failed" ELSE job[j]]
        /\ disturbed' = disturbed \cup {j \in Jobs : job[j] = "running" /\ Importing(j)}
     \/ UNCHANGED <<job, disturbed>>
  /\ UNCHANGED <<ex, slugOf, row, unit, op, up, troubles,
                 together, adrift, spilled, kept, unrecorded>>

-----------------------------------------------------------------------------
Import(j) ==
  \/ CountRunning(j) \/ CountFails(j) \/ InsertJob(j)
  \/ CreateProject(j) \/ CloneRepo(j) \/ Build(j) \/ AllocatePort(j)
  \/ CreateUnit(j) \/ DetectPort(j) \/ DetectOwnPort(j) \/ DetectTimesOut(j)
  \/ InsertService(j) \/ InsertRefused(j)
  \/ StartRollback(j) \/ EndRollback(j) \/ Finish(j) \/ FinishRefused(j)
  \/ \E x \in ex[j].left : RollbackService(j, x)

Operate(j) ==
  \/ StartDelete(j) \/ EndRemoval(j)
  \/ \E x \in Listed(j) : StartRemoval(j, x)
  \/ \E x \in op.left : RemoveService(j, x)

ImportNext ==
  \/ \E j \in Jobs : Import(j) \/ Operate(j)
  \/ \E s \in Slugs, k \in Manifest : Listen(s, k)
  \/ PanelStops \/ Boot \/ Recover

ImportSpec == ImportInit /\ [][ImportNext]_importVars

-----------------------------------------------------------------------------
Pcs == {"gone", "asked", "create", "clone", "build", "port", "unit", "detect",
        "insert", "rollback", "removing", "completed", "failed"}
ServiceLists == SUBSET [k : Manifest, slug : Slugs \cup {0}]

\* Every variable has its type.
ImportTypeOK ==
  /\ job \in [Jobs -> {"absent", "running", "completed", "failed"}]
  /\ ex \in [Jobs -> [pc : Pcs, k : Manifest, port : PortRange \cup {0},
                      slug : Slugs \cup {0}, left : ServiceLists]]
  /\ slugOf \in [Jobs -> Slugs \cup {0}]
  /\ row \in [Jobs -> [Manifest -> [port : PortRange \cup {0}, slug : Slugs \cup {0}]]]
  /\ unit \in [Slugs -> [Manifest -> [port : PortRange \cup {0},
                                      run : {"none", "stopped", "starting", "bound"}]]]
  /\ op \in [project : SUBSET Jobs, left : ServiceLists, whole : BOOLEAN]
  /\ recovery \in BOOLEAN /\ up \in BOOLEAN
  /\ troubles \in 0 .. MaxTroubles
  /\ together \subseteq Jobs /\ adrift \subseteq Jobs \X Manifest
  /\ spilled \in BOOLEAN /\ kept \in [Jobs -> SUBSET {"services", "project"}]
  /\ unrecorded \subseteq Jobs /\ disturbed \subseteq Jobs

\* "Provision is atomic": an import that reads completed has its project and
\* all its services, and one that failed left none of them but what the last
\* deletes of its rollback failed to delete, unless the panel stopped in it or
\* the operator removed something of it.  One whose outcome could not be written
\* reads failed after the next boot, and may have all.
Everything(j) == slugOf[j] # 0 /\ Rows(j) = Manifest
Nothing(j) == slugOf[j] = 0 /\ Rows(j) = {}
RolledBack(j) ==
  /\ slugOf[j] # 0 => "project" \in kept[j]
  /\ Rows(j) # {} => "services" \in kept[j]
AllOrNothing ==
  \A j \in Jobs \ disturbed :
    /\ job[j] = "completed" => Everything(j)
    /\ job[j] = "failed" => RolledBack(j) \/ (j \in unrecorded /\ Everything(j))

\* Two services have one port in their rows, so that the site of one is served
\* by the process of the other, only if neither import could see it in the rows
\* of the other: they held it at the same time, before either listened
\* (allocatePort, detectListeningPort), or one of the services took it without
\* looking, its rows unread or its process listening where it likes.
PortSharedOnlyUnseen ==
  \A i, j \in Jobs : \A k, l \in Manifest :
    <<i, k>> # <<j, l>> /\ row[i][k] # NoRow /\ row[i][k].port = row[j][l].port =>
      {i, j} \subseteq together \/ <<i, k>> \in adrift \/ <<j, l>> \in adrift

\* A unit with no row and no import at work on it, which nothing in the panel
\* will ever stop, was left by an import that failed after it made the unit, by
\* a removal that missed it or whose command failed, or by a stop or the operator.
Owned(s, k) ==
  \E j \in Jobs : \/ row[j][k].slug = s
                  \/ Importing(j) /\ ex[j].slug = s /\ ex[j].k = k
StrayOnlyByFailure ==
  ~spilled /\ disturbed = {} =>
    \A s \in Slugs, k \in Manifest : unit[s][k] # NoUnit => Owned(s, k)
=============================================================================
