----------------------------- MODULE PanelRecords -----------------------------
(***************************************************************************)
(* The synchronisation of the panel's records from a source server:        *)
(* internal/services/transfer_panel_records.go and                         *)
(* transfer_tenant_heal.go, with the rows that the files step of           *)
(* transfer_service.go makes before it.                                    *)
(*                                                                         *)
(* A transfer mirrors the source's accounts by e-mail, then copies the     *)
(* project, service and domains of one Linux user, attaches the domains    *)
(* and heals what belongs to nobody; `bzpanel resync-users` does the first *)
(* and the last, `bzpanel heal-tenants` the last.  Rows get new ids here,  *)
(* so a reference to an account goes through a map which the pass builds   *)
(* as it walks; what a pass could not read or write, or did not live to    *)
(* do, is left to the next one.  Passes of several processes may run at    *)
(* once, but one transfer at a time (module TransferJob).                  *)
(*                                                                         *)
(* The other collections are copied as the project is; files, mail maps    *)
(* and DNS are rebuilt from the rows and left out.                         *)
(***************************************************************************)
EXTENDS Naturals, FiniteSets, Sequences

CONSTANTS
  Passes,      \* runs of the synchronisation
  Owner,       \* the platform owner, on either server
  Accounts,    \* e-mail addresses of the other accounts
  Roots,       \* accounts that are the root of a tenant
  TenantOf,    \* on the source: the root of each account's tenant
  Picked,      \* accounts of the Linux user whose sites are transferred
  Vendor,      \* the one of them whose tenant the project is in
  Placeholder, \* <user>@localhost of that Linux user
  Attached,    \* domain attached to the service on the source
  Alias,       \* domain the source's service has as an alias only
  Nil,         \* no id, no service
  MaxFailures  \* bound on failed reads, refused writes and stops together

Domains == {Attached, Alias}
Kinds == {"transfer", "resync", "heal"}

ASSUME NamesAssumption ==
  /\ Owner \notin Accounts /\ IsFiniteSet(Accounts)
  /\ Roots \subseteq Accounts /\ Picked \subseteq Accounts
  /\ TenantOf \in [Accounts -> Roots \cup {Owner}]
  /\ \A a \in Roots : TenantOf[a] = a
  /\ Vendor \in Picked \cap Roots /\ Placeholder \in Picked \ Roots
  /\ Attached # Alias /\ Nil \notin Accounts \cup {Owner, "source", "here", "other"}
  /\ MaxFailures \in Nat

VARIABLES
  roster,    \* the source's accounts
  mail,      \* whose e-mail the owner's row has
  tenant,    \* rows of accounts, by e-mail: the id of their tenant
  project,   \* the project's row: the id of its tenant; NoId if there is none
  service,   \* the service's row: its id is the source's or one given here
  alias,     \* the service's row lists the alias
  link,      \* rows of domains: the service attached to, if any; "other" is one
             \* of another project here that has the same port
  static,    \* domains whose vhost serves files
  proxied,   \* domains whose vhost is a reverse proxy
  pass,      \* per pass: its kind, next step and what it holds
  failures,
  met,       \* history: passes that ran beside another
  misfiled,  \* history: the project was filed in a tenant that was not the
             \* vendor's while the vendor had no row to be found
  lost       \* history: the alias was taken off its service and its link not
             \* written, or it was linked to another service when its own could
             \* not be read

rows == <<mail, tenant, project, service, alias, link, static, proxied>>
past == <<met, misfiled, lost>>
panelVars == <<roster, rows, pass, failures, past>>

\* An id tells the account and the server that gave it.
There(a) == <<a, "source">>
Here(a) == <<a, "here">>
NoId == <<Nil, Nil>>
Ids == (Accounts \cup {Owner}) \X {"source", "here"}

Present == DOMAIN tenant

\* Does the id belong to one of these accounts of this server?
Resolves(id, users) == id \in {Here(a) : a \in users \cup {Owner}}

\* normaliseDoc: a tenant of the source becomes the one the map has for it, and
\* keeps its id of the source where the map has none.
Translate(map, a) == IF a \in DOMAIN map THEN Here(map[a]) ELSE There(a)

-----------------------------------------------------------------------------
\* Steps, and the runs that take them.

\* The domains enriched before the services are here.
PassOrderEnrichFirst ==
  <<"files", "roster", "owner", "snapshot", "mirror", "fixup", "users", "sync",
    "domains", "enrich", "project", "service", "materialize", "attach", "vhosts",
    "proxy", "read", "roots", "child", "over">>

PassOrder == <<"files", "roster", "owner", "snapshot", "mirror", "fixup", "users",
               "sync", "domains", "project", "service", "enrich", "materialize",
               "attach", "vhosts", "proxy", "read", "roots", "child", "over">>
PartsOf(kind) ==
  CASE kind = "transfer" -> {PassOrder[i] : i \in DOMAIN PassOrder}
    [] kind = "resync" -> {"roster", "owner", "snapshot", "mirror", "fixup",
                           "read", "roots", "child", "over"}
    [] kind = "heal" -> {"read", "roots", "child", "over"}

\* The first step of the kind after the given place in PassOrder.
NextOf ==
  [kind \in Kinds |-> [place \in {0} \cup {i \in DOMAIN PassOrder : PassOrder[i] # "over"} |->
     PassOrder[CHOOSE i \in DOMAIN PassOrder :
                 /\ i > place /\ PassOrder[i] \in PartsOf(kind)
                 /\ \A j \in DOMAIN PassOrder :
                      j > place /\ PassOrder[j] \in PartsOf(kind) => i <= j]]]
Place(step) == CHOOSE i \in DOMAIN PassOrder : PassOrder[i] = step
After(p, step) == NextOf[pass[p].kind][Place(step)]

\* A table with the entry of a written, and with entries for the keys it lacks.
Put(f, a, v) == [x \in DOMAIN f \cup {a} |-> IF x = a THEN v ELSE f[x]]
Add(f, S, v) == [x \in DOMAIN f \cup S |-> IF x \in DOMAIN f THEN f[x] ELSE v]

Empty == [a \in {} |-> NoId]
Fresh(kind, step, clean) ==
  [kind |-> kind, step |-> step, clean |-> clean, map |-> Empty, seen |-> Empty,
   seenMail |-> Nil, todo |-> {}, pending |-> {}, filed |-> FALSE]

AtStep(p, step) == pass[p].step = step
InFlight(p) == pass[p].step \notin {"off", "over", "dead"}

\* A call of the pass succeeds, or fails and the pass is no longer clean; either
\* way the pass goes on as r says.
Does(p, ok, r) ==
  /\ ok \/ failures < MaxFailures
  /\ failures' = IF ok THEN failures ELSE failures + 1
  /\ pass' = [pass EXCEPT ![p] = [r EXCEPT !.clean = @ /\ ok]]
Goes(p, ok, step) == Does(p, ok, [pass[p] EXCEPT !.step = step])

\* The same for a step that writes vhosts: that of nginx is not among the failures
\* that are counted.
Serves(p, ok, all, step) ==
  Does(p, ok, [pass[p] EXCEPT !.step = step, !.clean = @ /\ all])

PanelInit ==
  /\ roster \in SUBSET Accounts
  /\ mail \in {Owner} \cup Roots
  /\ \E known \in SUBSET {Vendor, Placeholder} :
       tenant = [a \in known |-> IF a = Vendor THEN There(Vendor) ELSE NoId]
  /\ mail \notin Present
  /\ project \in {NoId, There(Vendor)}
  /\ service \in {Nil, "here"} /\ (service = "here" => project # NoId)
  /\ alias = (service = "here")
  /\ link = Empty /\ static = {} /\ proxied = {}
  /\ pass = [p \in Passes |-> Fresh("heal", "off", TRUE)]
  /\ failures = 0
  /\ met = {} /\ misfiled = FALSE /\ lost = FALSE

\* A job of module TransferJob reaches the files, or an operator runs one of the
\* two commands.
BeginPass(p, kind) ==
  LET others == {q \in Passes : InFlight(q)}
  IN  /\ AtStep(p, "off")
      /\ kind = "transfer" => \A q \in others : pass[q].kind # "transfer"
      /\ pass' = [pass EXCEPT ![p] = Fresh(kind, NextOf[kind][0], TRUE)]
      /\ met' = IF others = {} THEN met ELSE met \cup others \cup {p}
      /\ UNCHANGED <<roster, rows, failures, misfiled, lost>>

\* The process ends: the panel stops, or the operator interrupts the command.
Die(p) ==
  /\ InFlight(p)
  /\ Does(p, FALSE, Fresh(pass[p].kind, "dead", FALSE))
  /\ UNCHANGED <<roster, rows, past>>

\* The accounts mirrored are the ones whose tenants are fixed next; the look at the
\* accounts, and later the map, are dropped when nothing reads them any more.
EndOfList(p) ==
  LET r == pass[p]
      next == After(p, r.step)
  IN  /\ r.step \in {"mirror", "fixup", "sync", "roots"} /\ r.todo = {}
      /\ Does(p, TRUE, IF next = "fixup"
                       THEN [r EXCEPT !.step = next, !.todo = r.pending,
                                      !.pending = {}, !.seen = Empty, !.seenMail = Nil]
                       ELSE [r EXCEPT !.step = next])
      /\ UNCHANGED <<roster, rows, past>>

-----------------------------------------------------------------------------
\* The files step: a row and a static vhost for every domain with files, and an
\* account for a Linux user that has none.  To write a vhost is to remove the old
\* one first: a write that fails leaves none.
WireDomains(p, ok) ==
  /\ AtStep(p, "files")
  /\ \E wired \in SUBSET Domains, served \in SUBSET Domains :
       /\ served \subseteq wired
       /\ tenant' = IF ok /\ wired # {} /\ Picked \cap Present = {}
                    THEN Put(tenant, Placeholder, NoId) ELSE tenant
       /\ link' = Add(link, wired, Nil)
       /\ static' = (static \ wired) \cup served
       /\ proxied' = proxied \ wired
       /\ Serves(p, ok, served = wired, After(p, "files"))
  /\ UNCHANGED <<roster, mail, project, service, alias, past>>

\* mirrorPanelUsers.
ReadRoster(p, ok) ==
  /\ AtStep(p, "roster")
  /\ Goes(p, ok, After(p, IF ok THEN "roster" ELSE "fixup"))
  /\ UNCHANGED <<roster, rows, past>>

UpgradeOwner(p, ok) ==
  /\ AtStep(p, "owner")
  /\ mail' = IF ok THEN Owner ELSE mail
  /\ Does(p, ok, [pass[p] EXCEPT !.step = "snapshot",
                                 !.map = IF ok THEN Put(Empty, Owner, Owner) ELSE Empty])
  /\ UNCHANGED <<roster, tenant, project, service, alias, link, static, proxied, past>>

Snapshot(p, ok) ==
  /\ AtStep(p, "snapshot")
  /\ Does(p, ok, [pass[p] EXCEPT !.step = "mirror", !.todo = roster,
                                 !.seen = IF ok THEN tenant ELSE Empty,
                                 !.seenMail = IF ok THEN mail ELSE Nil])
  /\ UNCHANGED <<roster, rows, past>>

\* Swept although the source has a real account of that e-mail.
SweepAnyway(a) == a \in Picked

\* The user of an account that was just written may have a placeholder, unless
\* the source has a real account of that e-mail.
ShouldSweep(a) == a \in Picked /\ Placeholder \notin roster

\* The pass with account a left out, and with a mirrored.
Skipped(p, a) == [pass[p] EXCEPT !.todo = @ \ {a}]
Mirrored(p, a) ==
  [Skipped(p, a) EXCEPT !.map = Put(@, a, a), !.pending = @ \cup {a},
                        !.step = IF ShouldSweep(a) THEN "sweep" ELSE "mirror"]

MapToOwner(p, a) ==
  /\ AtStep(p, "mirror") /\ a \in pass[p].todo /\ a = pass[p].seenMail
  /\ Does(p, TRUE, [Skipped(p, a) EXCEPT !.map = Put(@, a, Owner)])
  /\ UNCHANGED <<roster, rows, past>>

\* The tenant is not among what is written: what Translate makes of it is no id
\* that the map knows.
UpdateAccount(p, a, ok) ==
  /\ AtStep(p, "mirror") /\ a \in pass[p].todo /\ a \in DOMAIN pass[p].seen
  /\ Does(p, ok, IF ok THEN Mirrored(p, a) ELSE Skipped(p, a))
  /\ UNCHANGED <<roster, rows, past>>

\* E-mail addresses are unique.
Taken(a) == a \in Present \/ mail = a

InsertAccount(p, a, ok) ==
  /\ AtStep(p, "mirror")
  /\ a \in pass[p].todo \ (DOMAIN pass[p].seen \cup {pass[p].seenMail})
  /\ IF ok /\ ~Taken(a)
     THEN /\ tenant' = Put(tenant, a, Translate(pass[p].map, TenantOf[a]))
          /\ Does(p, TRUE, Mirrored(p, a))
     ELSE /\ tenant' = tenant
          /\ Does(p, ok, Skipped(p, a))
  /\ UNCHANGED <<roster, mail, project, service, alias, link, static, proxied, past>>

SweepPlaceholder(p, ok) ==
  /\ AtStep(p, "sweep")
  /\ tenant' = IF ok THEN [a \in Present \ {Placeholder} |-> tenant[a]] ELSE tenant
  /\ Goes(p, ok, "mirror")
  /\ UNCHANGED <<roster, mail, project, service, alias, link, static, proxied, past>>

SetTenant(a, id) == IF a \in Present THEN [tenant EXCEPT ![a] = id] ELSE tenant

\* An account whose tenant the map has not is left as it is.
FixTenant(p, a, ok) ==
  LET known == TenantOf[a] \in DOMAIN pass[p].map
  IN  /\ AtStep(p, "fixup") /\ a \in pass[p].todo /\ (ok \/ known)
      /\ tenant' = IF ok /\ known
                   THEN SetTenant(a, Translate(pass[p].map, TenantOf[a])) ELSE tenant
      /\ Does(p, ok, Skipped(p, a))
      /\ UNCHANGED <<roster, mail, project, service, alias, link, static, proxied, past>>

-----------------------------------------------------------------------------
\* syncUsersForTransfer.
ReadUsers(p, ok) ==
  /\ AtStep(p, "users")
  /\ Does(p, ok, [pass[p] EXCEPT !.step = "sync",
                                 !.todo = IF ok THEN Picked \cap roster ELSE {}])
  /\ UNCHANGED <<roster, rows, past>>

SyncUser(p, a, ok) ==
  LET found == IF mail = a THEN Owner ELSE a
  IN  /\ AtStep(p, "sync") /\ a \in pass[p].todo
      /\ tenant' = IF ok /\ ~Taken(a) THEN Put(tenant, a, Here(a)) ELSE tenant
      /\ Does(p, ok, [Skipped(p, a) EXCEPT !.map = IF ok THEN Put(@, a, found) ELSE @])
      /\ UNCHANGED <<roster, mail, project, service, alias, link, static, proxied, past>>

\* Rows of domains that are here already keep their link.
InsertDomains(p, ok) ==
  /\ AtStep(p, "domains")
  /\ link' = IF ok THEN Add(link, {Attached}, "source") ELSE link
  /\ Goes(p, ok, After(p, "domains"))
  /\ UNCHANGED <<roster, mail, tenant, project, service, alias, static, proxied, past>>

SyncProject(p, ok) ==
  /\ AtStep(p, "project")
  /\ project' = IF ok /\ project = NoId THEN Translate(pass[p].map, Vendor) ELSE project
  /\ misfiled' = (misfiled \/ project' = Here(Owner))
  /\ Does(p, ok, [pass[p] EXCEPT !.step = After(p, "project"), !.filed = ok,
                                 !.map = Empty])
  /\ UNCHANGED <<roster, mail, tenant, service, alias, link, static, proxied, met, lost>>

\* Services of projects that were not synchronised are not read.  A new row keeps
\* the id and the aliases of the source.
SyncService(p, ok) ==
  LET inserts == ok /\ pass[p].filed /\ service = Nil
  IN  /\ AtStep(p, "service") /\ (ok \/ pass[p].filed)
      /\ service' = IF inserts THEN "source" ELSE service
      /\ alias' = (alias \/ inserts)
      /\ Goes(p, ok, After(p, "service"))
      /\ UNCHANGED <<roster, mail, tenant, project, link, static, proxied, past>>

\* enrichDomainRegistration: the link of the source, if its service is here.
EnrichDomains(p, ok) ==
  /\ AtStep(p, "enrich")
  /\ link' = IF ok /\ service = "source" /\ Attached \in DOMAIN link
             THEN [link EXCEPT ![Attached] = "source"] ELSE link
  /\ Goes(p, ok, After(p, "enrich"))
  /\ UNCHANGED <<roster, mail, tenant, project, service, alias, static, proxied, past>>

MaterializeDomains(p, ok) ==
  /\ AtStep(p, "materialize")
  /\ link' = IF ok /\ service # Nil /\ alias THEN Add(link, {Alias}, Nil) ELSE link
  /\ Goes(p, ok, After(p, "materialize"))
  /\ UNCHANGED <<roster, mail, tenant, project, service, alias, static, proxied, past>>

-----------------------------------------------------------------------------
\* durablyAttachAliasDomains: the alias gets a link and a vhost of its own.
FindAlias(p, ok) ==
  LET attaches == /\ ok /\ service # Nil /\ alias
                  /\ Alias \in DOMAIN link /\ link[Alias] \in {Nil, service}
  IN  /\ AtStep(p, "attach")
      /\ Goes(p, ok, IF attaches THEN "stamp" ELSE After(p, "attach"))
      /\ UNCHANGED <<roster, rows, past>>

StampLink(p, ok) ==
  /\ AtStep(p, "stamp")
  /\ link' = IF ok THEN [link EXCEPT ![Alias] = service] ELSE link
  /\ Goes(p, ok, "pull")
  /\ UNCHANGED <<roster, mail, tenant, project, service, alias, static, proxied, past>>

\* Nobody looks whether the link was written.
PullAlias(p, ok) ==
  /\ AtStep(p, "pull")
  /\ alias' = (alias /\ ~ok)
  /\ lost' = (lost \/ (ok /\ link[Alias] # service))
  /\ Goes(p, ok, "vhost")
  /\ UNCHANGED <<roster, mail, tenant, project, service, link, static, proxied, met,
                 misfiled>>

\* Without a link, or the row, there is nothing to write.
ApplyVhost(p, ok) ==
  LET tried == IF ok /\ link[Alias] # Nil THEN {Alias} ELSE {}
  IN  /\ AtStep(p, "vhost")
      /\ \E done \in SUBSET tried :
           /\ static' = static \ tried
           /\ proxied' = (proxied \ tried) \cup done
           /\ Serves(p, ok, done = tried, After(p, "attach"))
      /\ UNCHANGED <<roster, mail, tenant, project, service, alias, link, past>>

\* healMissingVhosts: a vhost for every domain that has none.  A linked one whose
\* service is not here, or could not be read, is linked to the first service found
\* that has its port, if there is one and the row is written.
HealVhosts(p) ==
  LET bare == DOMAIN link \ (static \cup proxied)
      linked == {d \in bare : link[d] # Nil}
      Astray(unread) == {d \in linked : d \in unread \/ link[d] \notin {service, "other"}}
  IN  /\ AtStep(p, "vhosts")
      /\ \E unread \in SUBSET linked, made \in SUBSET bare,
            found \in {service, "other"} \ {Nil} :
           \E relinked \in SUBSET Astray(unread) :
             /\ link' = [d \in DOMAIN link |-> IF d \in relinked THEN found ELSE link[d]]
             /\ proxied' = proxied \cup (made \cap linked)
             /\ static' = static \cup (made \ linked)
             /\ lost' = (lost \/ (Alias \in relinked \cap unread /\ found = "other"))
             /\ Serves(p, unread = {}, made = bare, After(p, "vhosts"))
      /\ UNCHANGED <<roster, mail, tenant, project, service, alias, met, misfiled>>

\* healAttachedProxyVhosts: every linked domain that is not proxied, if they can be
\* read.
HealProxies(p, ok) ==
  LET tried == IF ok THEN {d \in DOMAIN link : link[d] # Nil} \ proxied ELSE {}
  IN  /\ AtStep(p, "proxy")
      /\ \E done \in SUBSET tried :
           /\ static' = static \ tried
           /\ proxied' = proxied \cup done
           /\ Serves(p, ok, done = tried, After(p, "proxy"))
      /\ UNCHANGED <<roster, mail, tenant, project, service, alias, link, past>>

-----------------------------------------------------------------------------
\* HealTenantIntegrity works from one look at the accounts.
ReadTenants(p, ok) ==
  /\ AtStep(p, "read")
  /\ IF ok
     THEN Does(p, TRUE, [pass[p] EXCEPT
            !.step = "roots", !.seen = tenant,
            !.todo = {a \in Present \cap Roots : tenant[a] # Here(a)}])
     ELSE Does(p, FALSE, Fresh(pass[p].kind, "over", FALSE))
  /\ UNCHANGED <<roster, rows, past>>

FixRoot(p, a, ok) ==
  /\ AtStep(p, "roots") /\ a \in pass[p].todo
  /\ tenant' = IF ok THEN SetTenant(a, Here(a)) ELSE tenant
  /\ Does(p, ok, [Skipped(p, a) EXCEPT !.seen[a] = IF ok THEN Here(a) ELSE @])
  /\ UNCHANGED <<roster, mail, project, service, alias, link, static, proxied, past>>

\* The accounts a row of the Linux user may be filed under: its tenant root if it
\* has one.  The reference to the owner itself is an id of the source.
OwnersSeen(seen) ==
  IF Vendor \in DOMAIN seen THEN {Vendor} ELSE Picked \cap DOMAIN seen

\* A row with an id of the source is taken for one that has its tenant.
StraysUnset(seen) == project = NoId

Strays(seen) == project # NoId /\ ~Resolves(project, DOMAIN seen)

FileProject(p, a, ok) ==
  LET seen == pass[p].seen
  IN  /\ AtStep(p, "child") /\ Strays(seen)
      /\ a \in OwnersSeen(seen) /\ Resolves(seen[a], DOMAIN seen)
      /\ project' = IF ok THEN seen[a] ELSE project
      /\ misfiled' = (misfiled \/ (ok /\ Vendor \notin DOMAIN seen))
      /\ Does(p, ok, Fresh(pass[p].kind, "over", pass[p].clean))
      /\ UNCHANGED <<roster, mail, tenant, service, alias, link, static, proxied,
                     met, lost>>

LeaveProject(p) ==
  LET seen == pass[p].seen
  IN  /\ AtStep(p, "child")
      /\ Strays(seen) /\ OwnersSeen(seen) # {} =>
           \E a \in OwnersSeen(seen) : ~Resolves(seen[a], DOMAIN seen)
      /\ Does(p, TRUE, Fresh(pass[p].kind, "over", pass[p].clean))
      /\ UNCHANGED <<roster, rows, past>>

-----------------------------------------------------------------------------
MirrorRoster(p, ok) ==
  \/ ReadRoster(p, ok) \/ UpgradeOwner(p, ok) \/ Snapshot(p, ok)
  \/ SweepPlaceholder(p, ok)
  \/ \E a \in Accounts : \/ UpdateAccount(p, a, ok) \/ InsertAccount(p, a, ok)
                         \/ FixTenant(p, a, ok)

CopyRows(p, ok) ==
  \/ WireDomains(p, ok) \/ ReadUsers(p, ok) \/ InsertDomains(p, ok)
  \/ SyncProject(p, ok) \/ SyncService(p, ok) \/ EnrichDomains(p, ok)
  \/ MaterializeDomains(p, ok) \/ \E a \in Accounts : SyncUser(p, a, ok)

AttachAlias(p, ok) ==
  \/ FindAlias(p, ok) \/ StampLink(p, ok) \/ PullAlias(p, ok) \/ ApplyVhost(p, ok)
  \/ HealProxies(p, ok)

HealTenants(p, ok) ==
  \/ ReadTenants(p, ok)
  \/ \E a \in Accounts : FixRoot(p, a, ok) \/ FileProject(p, a, ok)

PanelNext ==
  \E p \in Passes :
    \/ \E kind \in Kinds : BeginPass(p, kind)
    \/ EndOfList(p) \/ LeaveProject(p) \/ HealVhosts(p) \/ Die(p)
    \/ (\E a \in Accounts : MapToOwner(p, a))
    \/ \E ok \in BOOLEAN : \/ MirrorRoster(p, ok) \/ CopyRows(p, ok)
                           \/ AttachAlias(p, ok) \/ HealTenants(p, ok)

PanelSpec == PanelInit /\ [][PanelNext]_panelVars

-----------------------------------------------------------------------------
\* Every variable has its type.
PanelTypeOK ==
  /\ roster \subseteq Accounts /\ mail \in Accounts \cup {Owner}
  /\ Present \subseteq Accounts /\ \A a \in Present : tenant[a] \in Ids \cup {NoId}
  /\ project \in Ids \cup {NoId}
  /\ service \in {Nil, "source", "here"} /\ alias \in BOOLEAN
  /\ DOMAIN link \subseteq Domains
  /\ \A d \in DOMAIN link : link[d] \in {Nil, "source", "here", "other"}
  /\ static \subseteq Domains /\ proxied \subseteq Domains \ static
  /\ failures \in 0 .. MaxFailures
  /\ met \subseteq Passes /\ {misfiled, lost} \subseteq BOOLEAN

\* A pass that came to its end alone, with every call made.
Sound(p) == pass[p].step = "over" /\ pass[p].clean /\ p \notin met

\* One sound pass over the accounts, whatever failed, stopped or met another
\* before, gives every account of the source a row in its tenant, and nothing a
\* later pass does, fails to do or leaves half done takes that away
\* (transfer_panel_records.go:911 calls the mirror idempotent and resumable).
RosterConverges ==
  (\E p \in Passes : Sound(p) /\ pass[p].kind \in {"transfer", "resync"}) =>
    \A a \in roster :
      /\ a \in Present
      /\ TenantOf[a] \in roster \cup {Owner} => tenant[a] = Here(TenantOf[a])

\* After a sound transfer the project is in the tenant it had on the source,
\* unless the pass that filed it had no row of the vendor's to file it under; a
\* tenant that resolves is never mended (transfer_tenant_heal.go:88).
ProjectFiled ==
  (\E p \in Passes : Sound(p) /\ pass[p].kind = "transfer") =>
    /\ project # NoId
    /\ Vendor \in roster /\ ~misfiled => project = Here(Vendor)

\* A sound transfer ends with both domains of the service linked to it and
\* served by it, wherever an earlier one stopped, unless one lost the alias
\* (took it off the service without writing its link, or linked it to another
\* service of the same port), or the service has an id of its own here
\* (transfer_panel_records.go:161, :3341, :3695).
AttachmentsArrive ==
  [][\A p \in Passes :
       pass[p].kind = "transfer" /\ pass[p].step # "over" /\ Sound(p)' =>
         /\ service' # Nil
         /\ service' = "source" => link'[Attached] = "source" /\ Attached \in proxied'
         /\ ~lost => ~alias' /\ link'[Alias] = service' /\ Alias \in proxied']_panelVars
=============================================================================
