--------------------------- MODULE AttachedDomains ---------------------------
(***************************************************************************)
(* Domains attached to a deployed service: AttachDomain, DetachDomain,     *)
(* UpdateService and removeServiceInternal of                              *)
(* internal/services/project_service.go, domain_proxy.go,                  *)
(* restoreDomainBaseVhost of app_helpers.go and the vhost of an issued     *)
(* certificate in ssl_service.go.                                          *)
(*                                                                         *)
(* The row of a domain names the service it is attached to and caches its  *)
(* port; the vhost on disk proxies to a port, or serves the domain's own   *)
(* files.  Every request reads the rows, changes some and writes vhosts,   *)
(* with only a lock on certbot between them, and any of them may run       *)
(* beside another or be cut off by a stop of the panel.  Past its checks a *)
(* request drops the error of every call it makes and goes on.  Services   *)
(* listen on a port that no other has (ProjectImport); one that serves     *)
(* static files instead is left out.                                       *)
(***************************************************************************)
EXTENDS Naturals, FiniteSets

CONSTANTS
  Calls,     \* requests that may be served at one time
  Services,
  Domains,   \* registered, and nobody's primary domain
  None,      \* no service, no domain
  MaxCalls,  \* bound on requests
  MaxPorts,  \* how many ports a service may be given
  MaxStops,  \* bound on stops of the panel
  MaxErrors  \* bound on failing calls

ASSUME BoundsAssumption ==
  /\ None \notin Services \cup Domains
  /\ MaxCalls \in Nat /\ MaxPorts \in Nat \ {0} /\ MaxStops \in Nat /\ MaxErrors \in Nat

\* A port: the service that listens on it, and which of its ports it is.
NoPort == <<None, 0>>
Ports == {NoPort} \cup (Services \X (1 .. MaxPorts))
\* In place of the port a vhost proxies to: there is no vhost.
NoVhost == <<None, 1>>

VARIABLES
  port,      \* rows of services: the port, or NoPort if there is no row
  link,      \* rows of domains: the service attached to (proxy_service_id)
  cached,    \* rows of domains: the cached port (proxy_port)
  vhost,     \* vhosts on disk: the port proxied to, NoPort for the base vhost
  call,      \* per request: its next step, the domain in hand, those left, and
             \* the port it has read
  calls, stops, errors,
  crossed,   \* history: domains on which requests met, a stop cut one off, or
             \* a call of one failed
  missed     \* history: the links (domain and service) a removal did not see or
             \* could not clear

disk == <<link, cached, vhost>>
bounds == <<calls, stops>>
vars == <<port, disk, call, bounds, errors, crossed, missed>>

Asked(op, pc, s, d, p) ==
  [op |-> op, pc |-> pc, svc |-> s, dom |-> d, left |-> {}, up |-> p, to |-> p]
Idle == Asked("none", "idle", None, None, NoPort)
Live(s) == port[s] # NoPort

Init ==
  /\ port = [s \in Services |-> <<s, 1>>]
  /\ link = [d \in Domains |-> None]
  /\ cached = [d \in Domains |-> NoPort] /\ vhost = [d \in Domains |-> NoPort]
  /\ call = [c \in Calls |-> Idle]
  /\ calls = 0 /\ stops = 0 /\ errors = 0 /\ crossed = {} /\ missed = {}

\* The domains a request is about: the one in hand, those left, and whatever is
\* attached to its service.
About(k) ==
  {d \in Domains : d = k.dom \/ d \in k.left \/ (k.svc # None /\ link[d] = k.svc)}
\* The domains on which two requests meet.
Meeting(k, m) ==
  IF k.svc = m.svc /\ k.svc # None THEN About(k) \cup About(m) ELSE About(k) \cap About(m)

\* A request arrives.  One that attaches or detaches a domain and meets no
\* other on it starts that domain afresh.
Arrive(c, k) ==
  LET met == UNION {Meeting(k, call[b]) : b \in Calls \ {c}}
      afresh == IF k.op \in {"attach", "detach"} THEN {k.dom} ELSE {} IN
  /\ call[c] = Idle /\ calls < MaxCalls
  /\ call' = [call EXCEPT ![c] = k]
  /\ calls' = calls + 1
  /\ crossed' = (crossed \ afresh) \cup met
  /\ UNCHANGED <<port, disk, stops, errors, missed>>

At(c, pc) == call[c].pc = pc
To(c, pc) == call' = [call EXCEPT ![c].pc = pc]
\* The request takes the next of its domains in hand, or ends.
NextDomain(c, left, pc, to) ==
  IF left = {} THEN call' = [call EXCEPT ![c] = Idle]
  ELSE \E d \in left :
    call' = [call EXCEPT ![c].pc = pc, ![c].dom = d, ![c].left = left \ {d},
                         ![c].up = NoPort, ![c].to = to]

\* A call answers; or it fails, which nobody is told, over some domains.
Answers == UNCHANGED <<errors, crossed>>
Fails(ds) ==
  /\ errors < MaxErrors /\ errors' = errors + 1
  /\ crossed' = crossed \cup ds

\* A vhost is written.  The old one is deleted first, and the new one if nginx
\* does not take it.
WriteVhost(d, p) ==
  \/ Answers /\ vhost' = [vhost EXCEPT ![d] = p]
  \/ Fails({d}) /\ vhost' \in {vhost, [vhost EXCEPT ![d] = NoVhost]}

-----------------------------------------------------------------------------
(* AttachDomain                                                            *)

\* The service must exist and the domain not be another's.  The port is the
\* one of this moment.
CheckAttach(c, s, d) ==
  /\ Live(s) /\ link[d] \in {None, s}
  /\ Arrive(c, Asked("attach", "stamp", s, d, port[s]))

\* The link is written over whatever is there by now.
StampDomainProxy(c) ==
  LET k == call[c] IN
  /\ At(c, "stamp")
  /\ \/ /\ Answers
        /\ link' = [link EXCEPT ![k.dom] = k.svc]
        /\ cached' = [cached EXCEPT ![k.dom] = k.up]
     \/ Fails({k.dom}) /\ UNCHANGED <<link, cached>>
  /\ To(c, "proxy")
  /\ UNCHANGED <<port, vhost, bounds, missed>>

\* Under the certbot lock of the domain the vhost is written, a certificate
\* asked for ...
ReconcileAttachedDomain(c) ==
  LET k == call[c] IN
  /\ At(c, "proxy") /\ \A b \in Calls : ~(At(b, "certbot") /\ call[b].dom = k.dom)
  /\ WriteVhost(k.dom, k.up)
  /\ To(c, "certbot")
  /\ UNCHANGED <<port, link, cached, bounds, missed>>

\* ... and with it the vhost is written again.
Certbot(c) ==
  LET k == call[c] IN
  /\ At(c, "certbot")
  /\ (Answers /\ UNCHANGED vhost) \/ WriteVhost(k.dom, k.up)
  /\ call' = [call EXCEPT ![c] = Idle]
  /\ UNCHANGED <<port, link, cached, bounds, missed>>

-----------------------------------------------------------------------------
(* Rebuilding a vhost from the rows                                        *)

\* The port of the linked service; if that is gone, or no service is linked,
\* the cached port; a domain with neither gets its base vhost.
Upstream(d) ==
  IF link[d] # None /\ Live(link[d]) THEN port[link[d]]
  ELSE cached[d]

\* The cached port serves when the row of the service cannot be read, too; when
\* the row of the domain cannot be, it passes for one that is not attached.
ReadUpstream(c) ==
  LET d == call[c].dom IN
  /\ At(c, "read")
  /\ \E up \in {Upstream(d), cached[d], NoPort} :
       /\ \/ Answers /\ up = Upstream(d)
          \/ Fails({}) /\ link[d] # None /\ up = cached[d]
          \/ Fails({d}) /\ up = NoPort
       /\ call' = [call EXCEPT ![c].pc = "write", ![c].up = up]
  /\ UNCHANGED <<port, disk, bounds, missed>>

\* The vhost is written, but an update writes no base vhost; a removal or an
\* update goes on with its next domain.
ApplyAttachedProxyVhost(c) ==
  LET k == call[c] IN
  /\ At(c, "write")
  /\ IF k.op = "update" /\ k.up = NoPort THEN Answers /\ UNCHANGED vhost
     ELSE WriteVhost(k.dom, k.up)
  /\ NextDomain(c, k.left, IF k.op = "remove" THEN "clear" ELSE "cache", k.to)
  /\ UNCHANGED <<port, link, cached, bounds, missed>>

\* Issuing a certificate for a domain rebuilds its vhost.
IssueCertificate(c, d) ==
  Arrive(c, Asked("issue", "read", None, d, NoPort))

-----------------------------------------------------------------------------
(* DetachDomain, removeServiceInternal, UpdateService                      *)

\* The service must exist; it need not be the one the domain is attached to.
CheckDetach(c, s, d) ==
  /\ Live(s)
  /\ Arrive(c, Asked("detach", "clear", s, d, NoPort))

\* A removal misses the links of some domains.
Misses(k, ds) ==
  missed' = IF k.op = "remove" THEN missed \cup (ds \X {k.svc}) ELSE missed

\* clearDomainProxy, of a detach or a removal; the vhost is rebuilt after it,
\* whether the row was changed or not.
ClearLinkOnly(c) ==
  /\ At(c, "clear")
  /\ Answers /\ link' = [link EXCEPT ![call[c].dom] = None]
  /\ To(c, "read")
  /\ UNCHANGED <<port, cached, vhost, bounds, missed>>
ClearDomainProxy(c) ==
  LET k == call[c] IN
  /\ At(c, "clear")
  /\ \/ /\ Answers
        /\ link' = [link EXCEPT ![k.dom] = None]
        /\ cached' = [cached EXCEPT ![k.dom] = NoPort]
        /\ UNCHANGED missed
     \/ /\ Fails({k.dom}) /\ UNCHANGED <<link, cached>>
        /\ Misses(k, {k.dom})
  /\ To(c, "read")
  /\ UNCHANGED <<port, vhost, bounds>>

CheckRemove(c, s) ==
  /\ Live(s)
  /\ Arrive(c, Asked("remove", "delete", s, None, NoPort))

\* The row goes first.  An attach that has checked it will not be seen.
DeleteRow(c) ==
  LET s == call[c].svc
      late == {b \in Calls : At(b, "stamp") /\ call[b].svc = s} IN
  /\ At(c, "delete") /\ Answers
  /\ port' = [port EXCEPT ![s] = NoPort]
  /\ missed' = missed \cup {<<call[b].dom, s>> : b \in late}
  /\ To(c, "list")
  /\ UNCHANGED <<disk, bounds>>
\* A row that cannot be deleted is kept, and the request fails.
RowStays(c) ==
  /\ At(c, "delete") /\ Fails({})
  /\ call' = [call EXCEPT ![c] = Idle]
  /\ UNCHANGED <<port, disk, bounds, missed>>

CheckUpdate(c, s) ==
  /\ Live(s)
  /\ Arrive(c, Asked("update", "save", s, None, port[s]))

\* A port is saved, unless the service is gone; the domains follow if it is not
\* the one that was read.
SavePort(c, p) ==
  LET k == call[c] IN
  /\ At(c, "save") /\ p[1] = k.svc
  /\ port' = IF Live(k.svc) THEN [port EXCEPT ![k.svc] = p] ELSE port
  /\ call' = IF Live(k.svc) /\ p # k.up THEN [call EXCEPT ![c].pc = "list"]
             ELSE [call EXCEPT ![c] = Idle]
  /\ UNCHANGED <<disk, bounds, errors, crossed, missed>>

\* The domains attached to the service are listed, and done one by one; an
\* update reads the service again for that.
DomainsProxiedTo(s) == {d \in Domains : vhost[d][1] = s}
AttachedDomainNames(s) == {d \in Domains : link[d] = s}
ListDomains(c) ==
  LET s == call[c].svc IN
  /\ At(c, "list") /\ Answers
  /\ \/ /\ call[c].op = "remove"
        /\ NextDomain(c, AttachedDomainNames(s), "clear", NoPort)
     \/ /\ call[c].op = "update"
        /\ NextDomain(c, IF Live(s) THEN AttachedDomainNames(s) ELSE {}, "cache", port[s])
  /\ UNCHANGED <<port, disk, bounds, missed>>
\* A list that cannot be read is an empty one.
ListNothing(c) ==
  LET k == call[c] IN
  /\ At(c, "list") /\ Fails(AttachedDomainNames(k.svc))
  /\ Misses(k, AttachedDomainNames(k.svc))
  /\ call' = [call EXCEPT ![c] = Idle]
  /\ UNCHANGED <<port, disk, bounds>>

\* An update caches the new port in the row of the domain, linked or not.
CachePort(c) ==
  LET k == call[c] IN
  /\ At(c, "cache")
  /\ \/ Answers /\ cached' = [cached EXCEPT ![k.dom] = k.to]
     \/ Fails({k.dom}) /\ UNCHANGED cached
  /\ To(c, "read")
  /\ UNCHANGED <<port, link, vhost, bounds, missed>>

-----------------------------------------------------------------------------
\* A removal of s is under way.
Removes(c, s) == call[c].op = "remove" /\ call[c].svc = s

\* The panel stops, and every request with it; nothing resumes them.
Stop ==
  /\ stops < MaxStops
  /\ stops' = stops + 1
  /\ crossed' = crossed \cup UNION {About(call[c]) : c \in Calls}
  /\ missed' = missed \cup {<<d, link[d]>> : d \in {e \in Domains :
                                \E c \in Calls : Removes(c, link[e])}}
  /\ call' = [c \in Calls |-> Idle]
  /\ UNCHANGED <<port, disk, calls, errors>>

Next ==
  \/ \E c \in Calls :
       \/ \E s \in Services, d \in Domains : CheckAttach(c, s, d) \/ CheckDetach(c, s, d)
       \/ \E s \in Services : CheckRemove(c, s) \/ CheckUpdate(c, s)
       \/ \E d \in Domains : IssueCertificate(c, d)
       \/ StampDomainProxy(c) \/ ReconcileAttachedDomain(c) \/ Certbot(c)
       \/ ReadUpstream(c) \/ ApplyAttachedProxyVhost(c) \/ ClearDomainProxy(c)
       \/ DeleteRow(c) \/ RowStays(c) \/ ListDomains(c) \/ ListNothing(c) \/ CachePort(c)
       \/ \E p \in Ports : SavePort(c, p)
  \/ Stop

Spec == Init /\ [][Next]_vars

-----------------------------------------------------------------------------
\* Every variable has its type.
TypeOK ==
  /\ port \in [Services -> Ports]
  /\ link \in [Domains -> Services \cup {None}]
  /\ cached \in [Domains -> Ports] /\ vhost \in [Domains -> Ports \cup {NoVhost}]
  /\ call \in [Calls ->
       [op : {"none", "attach", "detach", "remove", "update", "issue"},
        pc : {"idle", "stamp", "proxy", "certbot", "read", "write", "clear", "delete",
              "list", "save", "cache"},
        svc : Services \cup {None}, dom : Domains \cup {None}, left : SUBSET Domains,
        up : Ports, to : Ports]]
  /\ calls \in 0 .. MaxCalls /\ stops \in 0 .. MaxStops /\ errors \in 0 .. MaxErrors
  /\ crossed \subseteq Domains /\ missed \subseteq Domains \X Services

\* A domain that no request is about has the vhost its row calls for: attached,
\* it is proxied to the port its service has now, and so says the cached port;
\* not attached, it has its base vhost and no cached port.  Only requests that
\* met on the domain, a stop, or a failing call over that domain may leave it
\* otherwise, and only until it is attached or detached by a request that meets
\* no other.  That a service's row cannot be read leaves nothing wrong: the
\* cached port is the same.
VhostFollowsLink ==
  \A d \in Domains \ crossed :
    (\A c \in Calls : d \notin About(call[c])) =>
      LET want == IF link[d] = None THEN NoPort ELSE port[link[d]] IN
      /\ vhost[d] = want /\ cached[d] = want
      /\ link[d] # None => Live(link[d])

\* The domains of a removed service are listed "after the service row is gone
\* so the set is final": a domain is attached to a removed service only while
\* the removal is under way, or if the removal missed that very link: the row
\* went between the check and the stamp of its attach, the link could not be
\* listed or cleared, or a stop cut the removal off.
DeadLinkOnlyIfMissed ==
  \A d \in Domains : link[d] # None /\ ~Live(link[d]) =>
    <<d, link[d]>> \in missed \/ \E c \in Calls : Removes(c, link[d])
=============================================================================
