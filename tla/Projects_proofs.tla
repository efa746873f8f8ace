---------------------------- MODULE Projects_proofs ----------------------------
(***************************************************************************)
(* Proofs about projects: the domains attached to their services           *)
(* (AttachedDomains) and importing a project whole (ProjectImport).  For   *)
(* any number of requests, imports, services, domains and ports, and any   *)
(* number of calls that fail.                                              *)
(*                                                                         *)
(* Neither component's properties are inductive.  AttachedInv adds what a  *)
(* request in flight knows: which domains it still has to write, that the  *)
(* port it read is still the service's as long as no other request and no  *)
(* failed call met it on that domain, and which removal will still clear a *)
(* link to a removed service.  ImportInv adds what an import's goroutine   *)
(* and row say of each other (Lives), how much of the project exists at    *)
(* each of its steps (Progress), who else may have a port in hand          *)
(* (PortsApart), that a process listens on a port (UnitsPorted) and who    *)
(* will give a unit its row or still has to remove it (UnitsOwned).  That  *)
(* a free slug and a free port are found whenever they are asked for is    *)
(* counting: as many slugs as imports, and as many ports as rows and units.*)
(***************************************************************************)
EXTENDS AttachedDomains, ProjectImport, FiniteSetTheorems, WellFoundedInduction, TLAPS

-----------------------------------------------------------------------------
(* Attached domains: what a request has in hand                            *)

\* What a request has in hand fits its operation and its next step.
CallShaped(k) ==
  \/ k = Idle
  \/ /\ k.op = "attach" /\ k.pc \in {"stamp", "proxy", "certbot"}
     /\ k.svc \in Services /\ k.dom \in Domains /\ k.left = {}
  \/ /\ k.op = "detach" /\ k.pc \in {"clear", "read", "write"}
     /\ k.svc \in Services /\ k.dom \in Domains /\ k.left = {}
  \/ /\ k.op = "issue" /\ k.pc \in {"read", "write"}
     /\ k.svc = None /\ k.dom \in Domains /\ k.left = {}
  \/ /\ \/ k.op = "remove" /\ k.pc \in {"delete", "list"}
        \/ k.op = "update" /\ k.pc \in {"save", "list"}
     /\ k.svc \in Services /\ k.dom = None /\ k.left = {}
  \/ /\ \/ k.op = "remove" /\ k.pc = "clear"
        \/ k.op = "update" /\ k.pc = "cache"
        \/ k.op \in {"remove", "update"} /\ k.pc \in {"read", "write"}
     /\ k.svc \in Services /\ k.dom \in Domains

Shaped == \A c \in Calls : CallShaped(call[c])

\* A removal will still clear the link of d.
WillClear(c, d) ==
  /\ Removes(c, link[d])
  /\ \/ call[c].pc = "list"
     \/ d \in call[c].left
     \/ call[c].pc = "clear" /\ call[c].dom = d

DeadLinkCovered ==
  /\ \A c \in Calls : At(c, "stamp") =>
       Live(call[c].svc) \/ <<call[c].dom, call[c].svc>> \in missed
  /\ \A d \in Domains : link[d] # None /\ ~Live(link[d]) =>
       <<d, link[d]>> \in missed \/ \E c \in Calls : WillClear(c, d)

\* Two requests that are about one domain, or about one service, have met on
\* what they are about.
Share(k, m, d) ==
  \/ d \in About(k) /\ d \in About(m)
  \/ k.svc = m.svc /\ k.svc # None /\ (d \in About(k) \/ d \in About(m))
Apart ==
  \A b, c \in Calls : \A d \in Domains :
    b # c /\ Share(call[b], call[c], d) => d \in crossed

Want(d) == IF link[d] = None THEN NoPort ELSE port[link[d]]
Good(d) ==
  /\ vhost[d] = Want(d) /\ cached[d] = Want(d)
  /\ link[d] # None => Live(link[d])

\* What a request that has d to itself knows of it: how far it is with a domain
\* in its hands, and that the port it has read is still the service's.
InHand(k, d) ==
  /\ k.op \in {"attach", "detach", "remove", "update"}
  /\ k.dom = d \/ d \in k.left \/ (k.pc = "list" /\ link[d] = k.svc)
KnowsAttach(k, d) ==
  k.op = "attach" /\ k.dom = d =>
    /\ k.up = port[k.svc] /\ Live(k.svc)
    /\ k.pc \in {"proxy", "certbot"} => link[d] = k.svc /\ cached[d] = k.up
    /\ k.pc = "certbot" => vhost[d] = k.up
KnowsClear(k, d) ==
  k.op \in {"detach", "remove"} /\ k.dom = d /\ k.pc \in {"read", "write"} =>
    /\ link[d] = None /\ cached[d] = NoPort
    /\ k.pc = "write" => k.up = NoPort
KnowsUpdate(k, d) ==
  k.op = "update" /\ InHand(k, d) =>
    /\ link[d] = k.svc /\ Live(k.svc)
    /\ k.pc # "list" => k.to = port[k.svc]
    /\ k.dom = d /\ k.pc \in {"read", "write"} => cached[d] = port[k.svc]
    /\ k.dom = d /\ k.pc = "write" => k.up = port[k.svc]
KnowsRead(k, d) ==
  /\ k.pc = "save" /\ link[d] = k.svc => k.up = port[k.svc]
  /\ k.op = "issue" /\ k.pc = "write" /\ k.dom = d => k.up = Want(d)
Knows(k, d) == KnowsAttach(k, d) /\ KnowsClear(k, d) /\ KnowsUpdate(k, d) /\ KnowsRead(k, d)

\* A domain on which no requests met is as its row says, or in a request's hands.
Fine(d) ==
  /\ \A c \in Calls : Knows(call[c], d)
  /\ Good(d) \/ \E c \in Calls : InHand(call[c], d)

Followed == \A d \in Domains \ crossed : Fine(d)

-----------------------------------------------------------------------------
(* Types                                                                   *)

CallRow ==
  [op : {"none", "attach", "detach", "remove", "update", "issue"},
   pc : {"idle", "stamp", "proxy", "certbot", "read", "write", "clear", "delete",
         "list", "save", "cache"},
   svc : Services \cup {None}, dom : Domains \cup {None}, left : SUBSET Domains,
   up : Ports, to : Ports]

LEMMA IdleTyped == Idle \in CallRow /\ NoPort \in Ports
BY DEF Idle, Asked, CallRow, Ports

LEMMA TypeInit == Init => TypeOK
<1> SUFFICES ASSUME Init PROVE TypeOK
  OBVIOUS
<1>1. call \in [Calls -> CallRow]
  BY IdleTyped DEF Init
<1>2. \A s \in Services : <<s, 1>> \in Ports
  BY BoundsAssumption DEF Ports
<1>3. QED
  BY <1>1, <1>2, IdleTyped, BoundsAssumption DEF Init, TypeOK, CallRow

\* A call answers or fails.
LEMMA TypeCalls ==
  ASSUME TypeOK, NEW ds \in SUBSET Domains, Answers \/ Fails(ds)
  PROVE  errors' \in 0 .. MaxErrors /\ crossed' \subseteq Domains /\ crossed \subseteq crossed'
<1>1. CASE Answers
  BY <1>1 DEF Answers, TypeOK
<1>2. CASE Fails(ds)
  BY <1>2, BoundsAssumption DEF Fails, TypeOK
<1>3. QED
  BY <1>1, <1>2

\* A vhost that is written: the others stay, and so does nothing of it unless
\* the domain is marked.
LEMMA WriteAfter ==
  ASSUME TypeOK, NEW d \in Domains, NEW p \in Ports, WriteVhost(d, p)
  PROVE  /\ vhost' \in [Domains -> Ports \cup {NoVhost}]
         /\ Answers \/ Fails({d})
         /\ \A e \in Domains \ {d} : vhost'[e] = vhost[e]
         /\ d \notin crossed' => vhost'[d] = p
<1>1. CASE Answers /\ vhost' = [vhost EXCEPT ![d] = p]
  BY <1>1 DEF TypeOK
<1>2. CASE Fails({d}) /\ vhost' \in {vhost, [vhost EXCEPT ![d] = NoVhost]}
  BY <1>2 DEF TypeOK, Fails
<1>3. QED
  BY <1>1, <1>2 DEF WriteVhost

\* A request that arrives, and one that takes its next domain, is well typed.
LEMMA TypeArrive ==
  ASSUME TypeOK, NEW c \in Calls, NEW k \in CallRow, Arrive(c, k)
  PROVE  TypeOK'
<1>1. call' \in [Calls -> CallRow]
  BY DEF Arrive, TypeOK, CallRow
<1>2. crossed' \subseteq Domains
  <2>1. \A b \in Calls : Meeting(k, call[b]) \subseteq Domains
    BY DEF Meeting, About
  <2>2. QED
    BY <2>1 DEF Arrive, TypeOK
<1>3. calls' \in 0 .. MaxCalls
  BY BoundsAssumption DEF Arrive, TypeOK
<1>4. UNCHANGED <<port, link, cached, vhost, stops, errors, missed>>
  BY DEF Arrive, disk
<1>5. QED
  BY <1>1, <1>2, <1>3, <1>4 DEF TypeOK, CallRow

LEMMA TypeNextDomain ==
  ASSUME TypeOK, NEW c \in Calls, NEW left \in SUBSET Domains, NEW to \in Ports,
         NEW pc \in {"clear", "cache"}, NextDomain(c, left, pc, to)
  PROVE  call' \in [Calls -> CallRow]
<1>1. call \in [Calls -> CallRow]
  BY DEF TypeOK, CallRow
<1>2. CASE left = {}
  BY <1>1, <1>2, IdleTyped DEF NextDomain
<1>3. CASE left # {}
  <2>1. PICK d \in left :
          call' = [call EXCEPT ![c].pc = pc, ![c].dom = d, ![c].left = left \ {d},
                               ![c].up = NoPort, ![c].to = to]
    BY <1>3 DEF NextDomain
  <2> DEFINE k == [call[c] EXCEPT !.pc = pc, !.dom = d, !.left = left \ {d},
                                  !.up = NoPort, !.to = to]
  <2>2. k \in CallRow
    BY <1>1, IdleTyped DEF CallRow
  <2>3. call' = [call EXCEPT ![c] = k]
    BY <1>1, <2>1
  <2> HIDE DEF k
  <2>4. QED
    BY <1>1, <2>2, <2>3
<1>4. QED
  BY <1>2, <1>3

\* A request at its next step is well typed.
LEMMA TypeTo ==
  ASSUME TypeOK, NEW c \in Calls,
         NEW pc \in {"proxy", "certbot", "read", "write", "list"}, NEW u \in Ports,
         \/ To(c, pc)
         \/ call' = [call EXCEPT ![c].pc = pc, ![c].up = u]
         \/ call' = [call EXCEPT ![c] = Idle]
  PROVE  call' \in [Calls -> CallRow]
<1> DEFINE k == [call[c] EXCEPT !.pc = pc]
           m == [call[c] EXCEPT !.pc = pc, !.up = u]
<1>1. call \in [Calls -> CallRow] /\ k \in CallRow /\ m \in CallRow
  <2>1. call \in [Calls -> CallRow]
    BY DEF TypeOK, CallRow
  <2>2. \A r \in CallRow : /\ [r EXCEPT !.pc = pc] \in CallRow
                          /\ [r EXCEPT !.pc = pc, !.up = u] \in CallRow
    BY DEF CallRow
  <2>3. QED
    BY <2>1, <2>2
<1>2. \/ call' = [call EXCEPT ![c] = k] \/ call' = [call EXCEPT ![c] = m]
      \/ call' = [call EXCEPT ![c] = Idle]
  BY <1>1 DEF To
<1> HIDE DEF k, m
<1>3. QED
  BY <1>1, <1>2, IdleTyped

LEMMA UpstreamTyped == ASSUME TypeOK, NEW d \in Domains PROVE Upstream(d) \in Ports
BY DEF TypeOK, Upstream

\* A domain in hand is one of the domains.
LEMMA DomTyped ==
  ASSUME TypeOK, Shaped, NEW c \in Calls,
         call[c].pc \notin {"idle", "delete", "save", "list"}
  PROVE  call[c].dom \in Domains
<1>1. CallShaped(call[c])
  BY DEF Shaped
<1>2. call[c] # Idle
  BY DEF Idle, Asked
<1>3. QED
  BY <1>1, <1>2 DEF CallShaped

LEMMA TypeStep ==
  ASSUME TypeOK, Shaped, NEW c \in Calls,
         \/ StampDomainProxy(c) \/ ReconcileAttachedDomain(c) \/ Certbot(c)
         \/ ReadUpstream(c) \/ ApplyAttachedProxyVhost(c) \/ ClearDomainProxy(c)
         \/ DeleteRow(c) \/ RowStays(c) \/ ListDomains(c) \/ ListNothing(c) \/ CachePort(c)
         \/ \E p \in Ports : SavePort(c, p)
  PROVE  TypeOK'
<1> DEFINE k == call[c]
<1>0. /\ k.svc \in Services \cup {None} /\ k.up \in Ports /\ k.to \in Ports
      /\ k.left \subseteq Domains
      /\ call \in [Calls -> CallRow]
  BY DEF TypeOK, CallRow
<1> DEFINE Tallied == errors' \in 0 .. MaxErrors /\ crossed' \subseteq Domains
<1>1. CASE StampDomainProxy(c)
  <2>1. call' \in [Calls -> CallRow] /\ k.dom \in Domains
    BY <1>0, <1>1, TypeTo, DomTyped DEF StampDomainProxy, At
  <2>2. link' \in [Domains -> Services \cup {None}] /\ cached' \in [Domains -> Ports]
    BY <1>0, <1>1 DEF StampDomainProxy, TypeOK
  <2>3. Tallied
    BY <1>1, <2>1, TypeCalls DEF StampDomainProxy
  <2>4. QED
    BY <1>1, <2>1, <2>2, <2>3 DEF StampDomainProxy, TypeOK, CallRow, bounds
<1>2. CASE ReconcileAttachedDomain(c)
  <2>1. call' \in [Calls -> CallRow] /\ k.dom \in Domains
    BY <1>0, <1>2, TypeTo, DomTyped DEF ReconcileAttachedDomain, At
  <2>2. vhost' \in [Domains -> Ports \cup {NoVhost}] /\ Tallied
    BY <1>0, <1>2, <2>1, WriteAfter, TypeCalls DEF ReconcileAttachedDomain
  <2>3. QED
    BY <1>2, <2>1, <2>2 DEF ReconcileAttachedDomain, TypeOK, CallRow, bounds
<1>3. CASE Certbot(c)
  <2>1. call' \in [Calls -> CallRow] /\ k.dom \in Domains
    BY <1>0, <1>3, TypeTo, DomTyped DEF Certbot, At
  <2>2. CASE Answers /\ UNCHANGED vhost
    <3>1. Tallied
      BY <2>2, TypeCalls
    <3>2. QED
      BY <1>3, <2>1, <2>2, <3>1 DEF Certbot, TypeOK, CallRow, bounds
  <2>3. CASE WriteVhost(k.dom, k.up)
    <3>1. vhost' \in [Domains -> Ports \cup {NoVhost}] /\ Tallied
      BY <1>0, <2>1, <2>3, WriteAfter, TypeCalls
    <3>2. QED
      BY <1>3, <2>1, <3>1 DEF Certbot, TypeOK, CallRow, bounds
  <2>4. QED
    BY <1>3, <2>2, <2>3 DEF Certbot
<1>4. CASE ReadUpstream(c)
  <2>1. call[c].dom \in Domains
    BY <1>4, DomTyped DEF ReadUpstream, At
  <2>2. PICK upstream \in {Upstream(k.dom), cached[k.dom], NoPort} :
          call' = [call EXCEPT ![c].pc = "write", ![c].up = upstream]
    BY <1>4 DEF ReadUpstream
  <2>3. upstream \in Ports
    BY <2>1, UpstreamTyped, IdleTyped DEF TypeOK
  <2>4. call' \in [Calls -> CallRow]
    BY <2>2, <2>3, TypeTo
  <2>5. Tallied
    BY <1>4, <2>1, TypeCalls DEF ReadUpstream
  <2>6. QED
    BY <1>4, <2>4, <2>5 DEF ReadUpstream, TypeOK, CallRow, disk, bounds
<1>5. CASE ApplyAttachedProxyVhost(c)
  <2>1. call' \in [Calls -> CallRow] /\ k.dom \in Domains
    BY <1>0, <1>5, TypeNextDomain, DomTyped DEF ApplyAttachedProxyVhost, At
  <2>2. CASE Answers /\ UNCHANGED vhost
    <3>1. Tallied
      BY <2>2, TypeCalls
    <3>2. QED
      BY <1>5, <2>1, <2>2, <3>1 DEF ApplyAttachedProxyVhost, TypeOK, CallRow, bounds
  <2>3. CASE WriteVhost(k.dom, k.up)
    <3>1. vhost' \in [Domains -> Ports \cup {NoVhost}] /\ Tallied
      BY <1>0, <2>1, <2>3, WriteAfter, TypeCalls
    <3>2. QED
      BY <1>5, <2>1, <3>1 DEF ApplyAttachedProxyVhost, TypeOK, CallRow, bounds
  <2>4. QED
    BY <1>5, <2>2, <2>3 DEF ApplyAttachedProxyVhost
<1>6. CASE ClearDomainProxy(c)
  <2>1. call' \in [Calls -> CallRow] /\ k.dom \in Domains
    BY <1>0, <1>6, TypeTo, DomTyped DEF ClearDomainProxy, At
  <2>2. link' \in [Domains -> Services \cup {None}] /\ cached' \in [Domains -> Ports]
    BY <1>6, IdleTyped DEF ClearDomainProxy, TypeOK
  <2>3. Tallied
    BY <1>6, <2>1, TypeCalls DEF ClearDomainProxy
  <2>4. missed' \subseteq Domains \X Services
    <3>1. k # Idle /\ k.pc = "clear"
      BY <1>6 DEF ClearDomainProxy, At, Idle, Asked
    <3>2. k.svc \in Services
      BY <3>1 DEF Shaped, CallShaped
    <3>3. QED
      BY <1>6, <2>1, <3>2 DEF ClearDomainProxy, Misses, TypeOK
  <2>5. QED
    BY <1>6, <2>1, <2>2, <2>3, <2>4 DEF ClearDomainProxy, TypeOK, CallRow, bounds
<1>7. CASE DeleteRow(c)
  <2>1. call' \in [Calls -> CallRow]
    BY <1>0, <1>7, TypeTo DEF DeleteRow
  <2>2. port' \in [Services -> Ports]
    BY <1>7, IdleTyped DEF DeleteRow, TypeOK
  <2>3. missed' \subseteq Domains \X Services
    <3>1. call[c] # Idle /\ call[c].pc = "delete"
      BY <1>7 DEF DeleteRow, At, Idle, Asked
    <3>2. call[c].svc \in Services
      BY <3>1 DEF Shaped, CallShaped
    <3>3. \A b \in Calls : At(b, "stamp") => call[b].dom \in Domains
      BY DomTyped DEF At
    <3>4. QED
      BY <1>7, <3>2, <3>3 DEF DeleteRow, TypeOK
  <2>4. Tallied
    BY <1>7, TypeCalls DEF DeleteRow
  <2>5. QED
    BY <1>7, <2>1, <2>2, <2>3, <2>4 DEF DeleteRow, TypeOK, CallRow, disk, bounds
<1>8. CASE ListDomains(c)
  <2>1. AttachedDomainNames(k.svc) \in SUBSET Domains /\ {} \in SUBSET Domains
    BY DEF AttachedDomainNames
  <2>2. ASSUME call[c].op = "update" PROVE port[k.svc] \in Ports
    <3>1. call[c] # Idle /\ call[c].pc = "list"
      BY <1>8 DEF ListDomains, At, Idle, Asked
    <3>2. QED
      BY <3>1 DEF Shaped, CallShaped, TypeOK
  <2>3. call' \in [Calls -> CallRow]
    <3>1. CASE NextDomain(c, AttachedDomainNames(k.svc), "clear", NoPort)
      BY <3>1, <2>1, IdleTyped, TypeNextDomain
    <3>2. CASE /\ call[c].op = "update"
               /\ NextDomain(c, IF Live(k.svc) THEN AttachedDomainNames(k.svc) ELSE {},
                             "cache", port[k.svc])
      BY <3>2, <2>1, <2>2, TypeNextDomain
    <3>3. QED
      BY <1>8, <3>1, <3>2 DEF ListDomains
  <2>4. Tallied
    BY <1>8, TypeCalls DEF ListDomains
  <2>5. QED
    BY <1>8, <2>3, <2>4 DEF ListDomains, TypeOK, CallRow, disk, bounds
<1>9. CASE CachePort(c)
  <2>1. call' \in [Calls -> CallRow] /\ k.dom \in Domains
    BY <1>0, <1>9, TypeTo, DomTyped DEF CachePort, At
  <2>2. cached' \in [Domains -> Ports]
    BY <1>0, <1>9 DEF CachePort, TypeOK
  <2>3. Tallied
    BY <1>9, <2>1, TypeCalls DEF CachePort
  <2>4. QED
    BY <1>9, <2>1, <2>2, <2>3 DEF CachePort, TypeOK, CallRow, bounds
<1>10. ASSUME NEW p \in Ports, SavePort(c, p) PROVE TypeOK'
  <2>1. call' \in [Calls -> CallRow]
    BY <1>0, <1>10, TypeTo DEF SavePort, To
  <2>2. port' \in [Services -> Ports]
    BY <1>10 DEF SavePort, TypeOK
  <2>3. QED
    BY <1>10, <2>1, <2>2 DEF SavePort, TypeOK, CallRow, disk, bounds
<1>11. CASE RowStays(c)
  <2>1. call' \in [Calls -> CallRow] /\ Tallied
    BY <1>0, <1>11, TypeTo, TypeCalls DEF RowStays
  <2>2. QED
    BY <1>11, <2>1 DEF RowStays, TypeOK, CallRow, disk, bounds
<1>12. CASE ListNothing(c)
  <2>1. AttachedDomainNames(k.svc) \in SUBSET Domains
    BY DEF AttachedDomainNames
  <2>2. call' \in [Calls -> CallRow] /\ Tallied
    BY <1>0, <1>12, <2>1, TypeTo, TypeCalls DEF ListNothing
  <2>3. missed' \subseteq Domains \X Services
    <3>1. k # Idle /\ k.pc = "list"
      BY <1>12 DEF ListNothing, At, Idle, Asked
    <3>2. k.svc \in Services
      BY <3>1 DEF Shaped, CallShaped
    <3>3. QED
      BY <1>12, <2>1, <3>2 DEF ListNothing, Misses, TypeOK
  <2>4. QED
    BY <1>12, <2>2, <2>3 DEF ListNothing, TypeOK, CallRow, disk, bounds
<1>13. QED
  BY <1>1, <1>2, <1>3, <1>4, <1>5, <1>6, <1>7, <1>8, <1>9, <1>10, <1>11, <1>12

\* What arrives: a request that fits its operation and has done nothing yet.
Fresh(k) ==
  \/ \E s \in Services, d \in Domains :
       /\ Live(s)
       /\ \/ k = Asked("attach", "stamp", s, d, port[s])
          \/ k = Asked("detach", "clear", s, d, NoPort)
  \/ \E s \in Services :
       /\ Live(s)
       /\ \/ k = Asked("remove", "delete", s, None, NoPort)
          \/ k = Asked("update", "save", s, None, port[s])
  \/ \E d \in Domains : k = Asked("issue", "read", None, d, NoPort)

LEMMA FreshTyped ==
  ASSUME TypeOK, NEW k, Fresh(k)
  PROVE  k \in CallRow /\ CallShaped(k)
<1> USE DEF Asked, CallRow
<1>1. NoPort \in Ports /\ \A s \in Services : port[s] \in Ports
  BY IdleTyped DEF TypeOK
<1>2. ASSUME NEW s \in Services, NEW d \in Domains,
             \/ k = Asked("attach", "stamp", s, d, port[s])
             \/ k = Asked("detach", "clear", s, d, NoPort)
      PROVE  k \in CallRow /\ CallShaped(k)
  BY <1>1, <1>2 DEF CallShaped
<1>3. ASSUME NEW s \in Services,
             \/ k = Asked("remove", "delete", s, None, NoPort)
             \/ k = Asked("update", "save", s, None, port[s])
      PROVE  k \in CallRow /\ CallShaped(k)
  BY <1>1, <1>3 DEF CallShaped
<1>4. ASSUME NEW d \in Domains, k = Asked("issue", "read", None, d, NoPort)
      PROVE  k \in CallRow /\ CallShaped(k)
  BY <1>1, <1>4 DEF CallShaped
<1>5. QED
  BY <1>2, <1>3, <1>4 DEF Fresh

\* Every step is an arrival, a step of a request or a stop.
Work(c) ==
  \/ StampDomainProxy(c) \/ ReconcileAttachedDomain(c) \/ Certbot(c)
  \/ ReadUpstream(c) \/ ApplyAttachedProxyVhost(c) \/ ClearDomainProxy(c)
  \/ DeleteRow(c) \/ RowStays(c) \/ ListDomains(c) \/ ListNothing(c) \/ CachePort(c)
  \/ \E p \in Ports : SavePort(c, p)

LEMMA NextSplit ==
  ASSUME Next
  PROVE  \/ \E c \in Calls : \E k : Fresh(k) /\ Arrive(c, k)
         \/ \E c \in Calls : Work(c)
         \/ Stop
<1>1. ASSUME NEW c \in Calls, NEW s \in Services, NEW d \in Domains,
             CheckAttach(c, s, d) \/ CheckDetach(c, s, d)
      PROVE  \E k : Fresh(k) /\ Arrive(c, k)
  BY <1>1 DEF CheckAttach, CheckDetach, Fresh
<1>2. ASSUME NEW c \in Calls, NEW s \in Services, CheckRemove(c, s) \/ CheckUpdate(c, s)
      PROVE  \E k : Fresh(k) /\ Arrive(c, k)
  BY <1>2 DEF CheckRemove, CheckUpdate, Fresh
<1>3. ASSUME NEW c \in Calls, NEW d \in Domains, IssueCertificate(c, d)
      PROVE  \E k : Fresh(k) /\ Arrive(c, k)
  BY <1>3 DEF IssueCertificate, Fresh
<1>4. QED
  BY <1>1, <1>2, <1>3 DEF Next, Work

LEMMA TypeStop == ASSUME TypeOK, Shaped, Stop PROVE TypeOK'
<1>1. call' \in [Calls -> CallRow]
  BY IdleTyped DEF Stop
<1>2. crossed' \subseteq Domains
  <2>1. \A c \in Calls : About(call[c]) \subseteq Domains
    BY DEF About
  <2>2. QED
    BY <2>1 DEF Stop, TypeOK
<1>3. stops' \in 0 .. MaxStops
  BY BoundsAssumption DEF Stop, TypeOK
<1>4. missed' \subseteq Domains \X Services
  <2>1. \A d \in Domains : (\E c \in Calls : Removes(c, link[d])) => link[d] \in Services
    <3> SUFFICES ASSUME NEW d \in Domains, NEW c \in Calls, Removes(c, link[d])
                 PROVE  link[d] \in Services
      OBVIOUS
    <3>1. call[c] # Idle /\ call[c].op = "remove"
      BY DEF Removes, Idle, Asked
    <3>2. QED
      BY <3>1 DEF Shaped, CallShaped, Removes
  <2>2. QED
    BY <2>1 DEF Stop, TypeOK
<1>5. QED
  BY <1>1, <1>2, <1>3, <1>4 DEF Stop, TypeOK, CallRow, disk

\* A step of a request leaves the others alone, and its own shape is kept.
LEMMA ShapedWork ==
  ASSUME TypeOK, Shaped, NEW c \in Calls, Work(c)
  PROVE  Shaped' /\ \A b \in Calls \ {c} : call'[b] = call[b]
<1> DEFINE k == call[c]
<1>0. CallShaped(k) /\ call \in [Calls -> CallRow]
  BY DEF Shaped, TypeOK, CallRow
<1>1. ASSUME NEW j, call' = [call EXCEPT ![c] = j], CallShaped(j)
      PROVE  Shaped' /\ \A b \in Calls \ {c} : call'[b] = call[b]
  <2>1. \A b \in Calls : call'[b] = IF b = c THEN j ELSE call[b]
    BY <1>0, <1>1
  <2>2. \A b \in Calls : CallShaped(call'[b])
    BY <1>1, <2>1 DEF Shaped
  <2>3. \A b \in Calls : CallShaped(call'[b]) <=> CallShaped(call[b])'
    BY DEF CallShaped, Idle, Asked
  <2>4. QED
    BY <2>1, <2>2, <2>3 DEF Shaped
<1> DEFINE to(pc) == [k EXCEPT !.pc = pc]
<1>2. \A pc : To(c, pc) => call' = [call EXCEPT ![c] = to(pc)]
  BY <1>0 DEF To
<1>3. CallShaped(Idle)
  BY DEF CallShaped
<1>4. ASSUME NEW left \in SUBSET Domains, NEW pc, NEW p,
             NextDomain(c, left, pc, p), k.svc \in Services,
             \/ k.op = "remove" /\ pc = "clear"
             \/ k.op = "update" /\ pc = "cache"
      PROVE  Shaped' /\ \A b \in Calls \ {c} : call'[b] = call[b]
  <2>1. CASE left = {}
    BY <1>1, <1>3, <1>4, <2>1 DEF NextDomain
  <2>2. CASE left # {}
    <3>1. PICK d \in left :
            call' = [call EXCEPT ![c].pc = pc, ![c].dom = d, ![c].left = left \ {d},
                                 ![c].up = NoPort, ![c].to = p]
      BY <1>4, <2>2 DEF NextDomain
    <3> DEFINE j == [k EXCEPT !.pc = pc, !.dom = d, !.left = left \ {d},
                              !.up = NoPort, !.to = p]
    <3>2. k \in CallRow
      BY <1>0
    <3>3. j.op = k.op /\ j.pc = pc /\ j.svc = k.svc /\ j.dom = d
      BY <3>2 DEF CallRow
    <3>4. CallShaped(j)
      <4> HIDE DEF j, k
      <4> QED BY <1>4, <3>3 DEF CallShaped
    <3>5. call' = [call EXCEPT ![c] = j]
      BY <1>0, <3>1
    <3> HIDE DEF j
    <3>6. QED
      BY <1>1, <3>4, <3>5
  <2>3. QED
    BY <2>1, <2>2
<1>5. CASE StampDomainProxy(c) \/ ReconcileAttachedDomain(c)
  <2>1. k.pc \in {"stamp", "proxy"} /\ k # Idle
    BY <1>5 DEF StampDomainProxy, ReconcileAttachedDomain, At, Idle, Asked
  <2>2. CallShaped(to("proxy")) /\ CallShaped(to("certbot"))
    BY <1>0, <2>1 DEF CallShaped, CallRow
  <2>3. QED
    BY <1>1, <1>2, <1>5, <2>2 DEF StampDomainProxy, ReconcileAttachedDomain
<1>6. CASE Certbot(c) \/ RowStays(c) \/ ListNothing(c)
  BY <1>1, <1>3, <1>6 DEF Certbot, RowStays, ListNothing
<1>7. CASE ReadUpstream(c)
  <2>0. PICK upstream : call' = [call EXCEPT ![c].pc = "write", ![c].up = upstream]
    BY <1>7 DEF ReadUpstream
  <2> DEFINE j == [k EXCEPT !.pc = "write", !.up = upstream]
  <2>1. k.pc = "read" /\ k # Idle
    BY <1>7 DEF ReadUpstream, At, Idle, Asked
  <2>2. call' = [call EXCEPT ![c] = j]
    BY <1>0, <2>0
  <2>3. CallShaped(j)
    BY <1>0, <2>1 DEF CallShaped, CallRow
  <2>4. QED
    BY <1>1, <2>2, <2>3
<1>8. CASE ApplyAttachedProxyVhost(c)
  <2>1. k.pc = "write" /\ k # Idle
    BY <1>8 DEF ApplyAttachedProxyVhost, At, Idle, Asked
  <2>2. CASE k.op \in {"remove", "update"}
    <3>1. k.svc \in Services /\ k.left \in SUBSET Domains
      BY <1>0, <2>1, <2>2 DEF CallShaped, CallRow
    <3>2. NextDomain(c, k.left, IF k.op = "remove" THEN "clear" ELSE "cache", k.to)
      BY <1>8 DEF ApplyAttachedProxyVhost
    <3>3. QED
      BY <1>4, <2>2, <3>1, <3>2
  <2>3. CASE k.op \notin {"remove", "update"}
    <3>1. k.left = {} \/ k.op = "issue"
      BY <1>0, <2>1, <2>3 DEF CallShaped
    <3>2. k.left = {}
      BY <1>0, <2>1, <2>3 DEF CallShaped
    <3>3. call' = [call EXCEPT ![c] = Idle]
      BY <1>8, <3>2 DEF ApplyAttachedProxyVhost, NextDomain
    <3>4. QED
      BY <1>1, <1>3, <3>3
  <2>4. QED
    BY <2>2, <2>3
<1>9. CASE ClearDomainProxy(c) \/ CachePort(c)
  <2>1. k.pc \in {"clear", "cache"} /\ k # Idle
    BY <1>9 DEF ClearDomainProxy, CachePort, At, Idle, Asked
  <2>2. CallShaped(to("read"))
    BY <1>0, <2>1 DEF CallShaped, CallRow
  <2>3. QED
    BY <1>1, <1>2, <1>9, <2>2 DEF ClearDomainProxy, CachePort
<1>10. CASE DeleteRow(c)
  <2>1. k.pc = "delete" /\ k # Idle
    BY <1>10 DEF DeleteRow, At, Idle, Asked
  <2>2. CallShaped(to("list"))
    BY <1>0, <2>1 DEF CallShaped, CallRow
  <2>3. QED
    BY <1>1, <1>2, <1>10, <2>2 DEF DeleteRow
<1>11. CASE ListDomains(c)
  <2>1. k.pc = "list" /\ k # Idle
    BY <1>11 DEF ListDomains, At, Idle, Asked
  <2>2. k.svc \in Services
    BY <1>0, <2>1 DEF CallShaped
  <2>3. AttachedDomainNames(k.svc) \in SUBSET Domains /\ {} \in SUBSET Domains
    BY DEF AttachedDomainNames
  <2>4. QED
    BY <1>4, <1>11, <2>2, <2>3 DEF ListDomains
<1>12. ASSUME NEW p \in Ports, SavePort(c, p)
       PROVE  Shaped' /\ \A b \in Calls \ {c} : call'[b] = call[b]
  <2>1. k.pc = "save" /\ k # Idle
    BY <1>12 DEF SavePort, At, Idle, Asked
  <2>2. CallShaped(to("list"))
    BY <1>0, <2>1 DEF CallShaped, CallRow
  <2>3. \/ To(c, "list") \/ call' = [call EXCEPT ![c] = Idle]
    BY <1>12 DEF SavePort, To
  <2>4. QED
    BY <1>1, <1>2, <1>3, <2>2, <2>3
<1>13. QED
  BY <1>5, <1>6, <1>7, <1>8, <1>9, <1>10, <1>11, <1>12 DEF Work

LEMMA ShapedArrive ==
  ASSUME TypeOK, Shaped, NEW c \in Calls, NEW k, Fresh(k), Arrive(c, k)
  PROVE  Shaped'
<1>1. \A b \in Calls : call'[b] = IF b = c THEN k ELSE call[b]
  BY DEF Arrive, TypeOK
<1>2. \A b \in Calls : CallShaped(call'[b])
  BY <1>1, FreshTyped DEF Shaped
<1>3. \A b \in Calls : CallShaped(call'[b]) <=> CallShaped(call[b])'
  BY DEF CallShaped, Idle, Asked
<1>4. QED
  BY <1>2, <1>3 DEF Shaped

LEMMA ShapedStop == ASSUME Stop PROVE Shaped'
BY DEF Stop, Shaped, CallShaped, Idle, Asked

LEMMA ShapedInit == ASSUME Init PROVE Shaped
BY DEF Init, Shaped, CallShaped

Typed == TypeOK /\ Shaped

\* One step keeps what the requests have in hand well formed.
LEMMA TypedStep == ASSUME Typed, [Next]_vars PROVE Typed'
<1> USE DEF Typed
<1>1. ASSUME NEW c \in Calls, NEW k, Fresh(k), Arrive(c, k) PROVE Typed'
  BY <1>1, FreshTyped, TypeArrive, ShapedArrive
<1>2. ASSUME NEW c \in Calls, Work(c) PROVE Typed'
  BY <1>2, TypeStep, ShapedWork DEF Work
<1>3. CASE Stop
  BY <1>3, TypeStop, ShapedStop
<1>4. CASE UNCHANGED vars
  BY <1>4 DEF vars, disk, bounds, TypeOK, Shaped, CallShaped, Idle, Asked
<1>5. QED
  BY <1>1, <1>2, <1>3, <1>4, NextSplit

\* Every state is well typed, and what a request has in hand fits the operation
\* and the step that it is at.
THEOREM TypeCorrect == Spec => []Typed
<1>1. Init => Typed
  BY TypeInit, ShapedInit DEF Typed
<1>2. Typed /\ [Next]_vars => Typed'
  BY TypedStep
<1>3. QED
  BY <1>1, <1>2, PTL DEF Spec

-----------------------------------------------------------------------------
(* What a step of a request can change                                     *)

\* It changes rows and vhosts of domains it is about only, ports of its service
\* only, and is about no further domain afterwards.
Moved(c) ==
  /\ crossed \subseteq crossed'
  /\ \A b \in Calls \ {c} : call'[b] = call[b]
  /\ call'[c].svc \in {call[c].svc, None}
  /\ call'[c].dom # None => call'[c].dom \in About(call[c])
  /\ call'[c].left \subseteq About(call[c])
  /\ \A d \in Domains :
       \/ link'[d] \in {link[d], None}
       \/ d \in About(call[c]) /\ link'[d] = call[c].svc
  /\ \A d \in Domains \ About(call[c]) :
       link'[d] = link[d] /\ cached'[d] = cached[d] /\ vhost'[d] = vhost[d]
  /\ \A s \in Services : s # call[c].svc => port'[s] = port[s]

LEMMA MovedTo ==
  ASSUME Typed, NEW c \in Calls, NEW j, NEW d \in Domains \cup {None},
         call' = [call EXCEPT ![c] = j], crossed \subseteq crossed',
         j.svc \in {call[c].svc, None}, j.dom \in About(call[c]) \cup {None},
         j.left \subseteq About(call[c]),
         d \in Domains => d \in About(call[c]) /\ link'[d] \in {link[d], None, call[c].svc},
         \A e \in Domains \ {d} :
           link'[e] = link[e] /\ cached'[e] = cached[e] /\ vhost'[e] = vhost[e],
         \A s \in Services : s # call[c].svc => port'[s] = port[s]
  PROVE  Moved(c)
<1>1. call'[c] = j /\ \A b \in Calls \ {c} : call'[b] = call[b]
  BY DEF Typed, TypeOK
<1>2. \A e \in Domains : \/ link'[e] \in {link[e], None}
                         \/ e \in About(call[c]) /\ link'[e] = call[c].svc
  OBVIOUS
<1>3. \A e \in Domains \ About(call[c]) :
        link'[e] = link[e] /\ cached'[e] = cached[e] /\ vhost'[e] = vhost[e]
  OBVIOUS
<1>4. QED
  BY <1>1, <1>2, <1>3 DEF Moved

\* A call marks domains, and lets none go.
LEMMA Marked == ASSUME NEW ds, Answers \/ Fails(ds) PROVE crossed \subseteq crossed'
BY DEF Answers, Fails

\* The records a request can become, by a step to pc or by its next domain.
LEMMA NextRecord ==
  ASSUME Typed, NEW c \in Calls, NEW left \in SUBSET About(call[c]), NEW pc, NEW to,
         NextDomain(c, left, pc, to)
  PROVE  \E j : /\ call' = [call EXCEPT ![c] = j]
                /\ j.svc \in {call[c].svc, None} /\ j.left \subseteq left
                /\ j.dom \in About(call[c]) \cup {None}
                /\ j # Idle => /\ j.op = call[c].op /\ j.svc = call[c].svc
                               /\ j.pc = pc /\ j.to = to /\ j.dom \in left
                               /\ left = j.left \cup {j.dom}
                /\ j = Idle => left = {}
<1> DEFINE k == call[c]
<1>1. k \in CallRow /\ call \in [Calls -> CallRow]
  BY DEF Typed, TypeOK, CallRow
<1>2. CASE left = {}
  <2>1. call' = [call EXCEPT ![c] = Idle]
    BY <1>2 DEF NextDomain
  <2>2. Idle.svc = None /\ Idle.left = {} /\ Idle.dom = None
    BY DEF Idle, Asked
  <2>3. QED
    BY <1>2, <2>1, <2>2
<1>3. CASE left # {}
  <2>1. PICK d \in left :
          call' = [call EXCEPT ![c].pc = pc, ![c].dom = d, ![c].left = left \ {d},
                               ![c].up = NoPort, ![c].to = to]
    BY <1>3 DEF NextDomain
  <2> DEFINE j == [k EXCEPT !.pc = pc, !.dom = d, !.left = left \ {d},
                            !.up = NoPort, !.to = to]
  <2>2. call' = [call EXCEPT ![c] = j]
    BY <1>1, <2>1
  <2>3. /\ j.svc = k.svc /\ j.left = left \ {d} /\ j.dom = d
        /\ j.op = k.op /\ j.pc = pc /\ j.to = to
    BY <1>1 DEF CallRow
  <2>4. j # Idle
    <3>1. d \in Domains
      BY DEF About
    <3>2. QED
      BY <2>3, <3>1, BoundsAssumption DEF Idle, Asked
  <2> HIDE DEF j
  <2>5. QED
    BY <2>2, <2>3, <2>4
<1>4. QED
  BY <1>2, <1>3

LEMMA ToRecord ==
  ASSUME Typed, NEW c \in Calls, NEW pc, To(c, pc)
  PROVE  \E j : /\ call' = [call EXCEPT ![c] = j]
                /\ j.svc = call[c].svc /\ j.left = call[c].left /\ j.dom = call[c].dom
                /\ j.op = call[c].op /\ j.pc = pc
                /\ j.up = call[c].up /\ j.to = call[c].to
<1> DEFINE k == call[c]
           j == [k EXCEPT !.pc = pc]
<1>1. k \in CallRow /\ call \in [Calls -> CallRow]
  BY DEF Typed, TypeOK, CallRow
<1>2. call' = [call EXCEPT ![c] = j]
  BY <1>1 DEF To
<1>3. /\ j.svc = k.svc /\ j.left = k.left /\ j.dom = k.dom /\ j.op = k.op /\ j.pc = pc
      /\ j.up = k.up /\ j.to = k.to
  BY <1>1 DEF CallRow
<1> HIDE DEF j
<1>4. QED
  BY <1>2, <1>3

\* The domain in hand is one of those the request is about, and so are those left.
LEMMA AboutHand ==
  ASSUME Typed, NEW c \in Calls
  PROVE  /\ call[c].left \subseteq About(call[c])
         /\ call[c].dom \in About(call[c]) \cup {None}
         /\ call[c].dom \in Domains => call[c].dom \in About(call[c])
         /\ call[c].pc \notin {"idle", "delete", "save", "list"} =>
              call[c].dom \in Domains
<1>1. call[c].left \subseteq Domains /\ call[c].dom \in Domains \cup {None}
  BY DEF Typed, TypeOK
<1>2. QED
  BY <1>1, DomTyped DEF About, Typed

LEMMA WorkMoves == ASSUME Typed, NEW c \in Calls, Work(c) PROVE Moved(c)
<1> DEFINE k == call[c]
           Same == \A e \in Domains :
             link'[e] = link[e] /\ cached'[e] = cached[e] /\ vhost'[e] = vhost[e]
<1>0. /\ k.left \subseteq About(k) /\ k.dom \in About(k) \cup {None}
      /\ k.pc \notin {"idle", "delete", "save", "list"} =>
              k.dom \in Domains /\ k.dom \in About(k)
  BY AboutHand
<1>1. /\ Idle.svc = None /\ Idle.dom = None /\ Idle.left = {}
      /\ None \notin Domains
  BY BoundsAssumption DEF Idle, Asked
<1>2. CASE StampDomainProxy(c)
  <2>1. k.dom \in Domains /\ k.dom \in About(k) /\ To(c, "proxy") /\ crossed \subseteq crossed'
    BY <1>0, <1>2, Marked DEF StampDomainProxy, At, WriteVhost
  <2>2. /\ link'[k.dom] \in {link[k.dom], k.svc} /\ port' = port
        /\ \A e \in Domains \ {k.dom} :
             link'[e] = link[e] /\ cached'[e] = cached[e] /\ vhost'[e] = vhost[e]
    BY <1>2, <2>1 DEF StampDomainProxy, Typed, TypeOK
  <2>3. QED
    BY <1>0, <2>1, <2>2, ToRecord, MovedTo
<1>3. CASE ReconcileAttachedDomain(c)
  <2>1. k.dom \in Domains /\ k.dom \in About(k) /\ To(c, "certbot") /\ crossed \subseteq crossed'
    BY <1>0, <1>3, Marked DEF ReconcileAttachedDomain, At, WriteVhost
  <2>2. /\ link'[k.dom] = link[k.dom] /\ port' = port
        /\ \A e \in Domains \ {k.dom} :
             link'[e] = link[e] /\ cached'[e] = cached[e] /\ vhost'[e] = vhost[e]
    BY <1>3, <2>1 DEF ReconcileAttachedDomain, WriteVhost, Typed, TypeOK
  <2>3. QED
    BY <1>0, <2>1, <2>2, ToRecord, MovedTo
<1>4. CASE Certbot(c)
  <2>1. /\ k.dom \in Domains /\ k.dom \in About(k) /\ crossed \subseteq crossed'
        /\ call' = [call EXCEPT ![c] = Idle]
    BY <1>0, <1>4, Marked DEF Certbot, At, WriteVhost
  <2>2. /\ link'[k.dom] = link[k.dom] /\ port' = port
        /\ \A e \in Domains \ {k.dom} :
             link'[e] = link[e] /\ cached'[e] = cached[e] /\ vhost'[e] = vhost[e]
    BY <1>4, <2>1 DEF Certbot, WriteVhost, Typed, TypeOK
  <2>3. QED
    BY <1>1, <2>1, <2>2, MovedTo
<1>5. CASE ReadUpstream(c)
  <2>0. PICK upstream : call' = [call EXCEPT ![c].pc = "write", ![c].up = upstream]
    BY <1>5 DEF ReadUpstream
  <2> DEFINE j == [k EXCEPT !.pc = "write", !.up = upstream]
  <2>1. k \in CallRow /\ call \in [Calls -> CallRow]
    BY DEF Typed, TypeOK, CallRow
  <2>2. call' = [call EXCEPT ![c] = j]
    BY <2>0, <2>1
  <2>3. j.svc = k.svc /\ j.dom = k.dom /\ j.left = k.left
    BY <2>1 DEF CallRow
  <2>4. Same /\ port' = port /\ crossed \subseteq crossed'
    BY <1>5, Marked DEF ReadUpstream, disk
  <2> HIDE DEF j
  <2>5. QED
    BY <1>0, <1>1, <2>2, <2>3, <2>4, MovedTo
<1>6. CASE ApplyAttachedProxyVhost(c)
  <2>1. k.dom \in Domains /\ k.dom \in About(k) /\ crossed \subseteq crossed'
    BY <1>0, <1>6, Marked DEF ApplyAttachedProxyVhost, At, WriteVhost
  <2>2. /\ link'[k.dom] = link[k.dom] /\ port' = port
        /\ \A e \in Domains \ {k.dom} :
             link'[e] = link[e] /\ cached'[e] = cached[e] /\ vhost'[e] = vhost[e]
    BY <1>6, <2>1 DEF ApplyAttachedProxyVhost, WriteVhost, Typed, TypeOK
  <2>3. PICK j : /\ call' = [call EXCEPT ![c] = j]
                 /\ j.svc \in {k.svc, None} /\ j.left \subseteq k.left
                 /\ j.dom \in About(k) \cup {None}
    BY <1>0, <1>6, NextRecord DEF ApplyAttachedProxyVhost
  <2>4. QED
    BY <1>0, <2>1, <2>2, <2>3, MovedTo
<1>7. CASE ClearDomainProxy(c)
  <2>1. k.dom \in Domains /\ k.dom \in About(k) /\ To(c, "read") /\ crossed \subseteq crossed'
    BY <1>0, <1>7, Marked DEF ClearDomainProxy, At, WriteVhost
  <2>2. /\ link'[k.dom] \in {link[k.dom], None} /\ port' = port
        /\ \A e \in Domains \ {k.dom} :
             link'[e] = link[e] /\ cached'[e] = cached[e] /\ vhost'[e] = vhost[e]
    BY <1>7, <2>1 DEF ClearDomainProxy, Typed, TypeOK
  <2>3. QED
    BY <1>0, <2>1, <2>2, ToRecord, MovedTo
<1>8. CASE DeleteRow(c)
  <2>1. Same /\ To(c, "list") /\ crossed \subseteq crossed'
    BY <1>8, Marked DEF DeleteRow, disk
  <2>2. \A s \in Services : s # k.svc => port'[s] = port[s]
    BY <1>8 DEF DeleteRow, Typed, TypeOK
  <2>3. QED
    BY <1>0, <1>1, <2>1, <2>2, ToRecord, MovedTo
<1>9. CASE ListDomains(c)
  <2>1. k.svc \in Services /\ crossed \subseteq crossed' /\ port' = port /\ Same
    <3>1. k.pc = "list" /\ k # Idle
      BY <1>9 DEF ListDomains, At, Idle, Asked
    <3>2. QED
      BY <1>9, <3>1, Marked DEF Typed, Shaped, CallShaped, ListDomains, disk
  <2>2. AttachedDomainNames(k.svc) \subseteq About(k)
    BY <2>1, BoundsAssumption DEF AttachedDomainNames, About
  <2>3. PICK j : /\ call' = [call EXCEPT ![c] = j]
                 /\ j.svc \in {k.svc, None} /\ j.left \subseteq About(k)
                 /\ j.dom \in About(k) \cup {None}
    BY <1>9, <2>2, NextRecord DEF ListDomains
  <2>4. QED
    BY <1>1, <2>1, <2>3, MovedTo
<1>10. CASE CachePort(c)
  <2>1. k.dom \in Domains /\ k.dom \in About(k) /\ To(c, "read") /\ crossed \subseteq crossed'
    BY <1>0, <1>10, Marked DEF CachePort, At, WriteVhost
  <2>2. /\ link'[k.dom] = link[k.dom] /\ port' = port
        /\ \A e \in Domains \ {k.dom} :
             link'[e] = link[e] /\ cached'[e] = cached[e] /\ vhost'[e] = vhost[e]
    BY <1>10, <2>1 DEF CachePort, Typed, TypeOK
  <2>3. QED
    BY <1>0, <2>1, <2>2, ToRecord, MovedTo
<1>11. ASSUME NEW p \in Ports, SavePort(c, p) PROVE Moved(c)
  <2>1. /\ Same /\ crossed' = crossed
        /\ \A s \in Services : s # k.svc => port'[s] = port[s]
    BY <1>11 DEF SavePort, disk, Typed, TypeOK
  <2>2. To(c, "list") \/ call' = [call EXCEPT ![c] = Idle]
    BY <1>11 DEF SavePort, To
  <2>3. QED
    BY <1>0, <1>1, <2>1, <2>2, ToRecord, MovedTo
<1>12. CASE RowStays(c) \/ ListNothing(c)
  <2>1. Same /\ port' = port /\ crossed \subseteq crossed' /\ call' = [call EXCEPT ![c] = Idle]
    BY <1>12, Marked DEF RowStays, ListNothing, disk
  <2>2. QED
    BY <1>1, <2>1, MovedTo
<1>13. QED
  BY <1>2, <1>3, <1>4, <1>5, <1>6, <1>7, <1>8, <1>9, <1>10, <1>11, <1>12 DEF Work

-----------------------------------------------------------------------------
(* Requests stay apart                                                     *)

LEMMA ApartMoved == ASSUME Typed, Apart, NEW c \in Calls, Moved(c) PROVE Apart'
<1>1. \A x \in Calls, d \in Domains :
        d \in About(call[x])' <=>
          d = call'[x].dom \/ d \in call'[x].left
            \/ (call'[x].svc # None /\ link'[d] = call'[x].svc)
  BY DEF About
<1>2. \A x \in Calls, d \in Domains :
        d \in About(call[x]) <=>
          d = call[x].dom \/ d \in call[x].left
            \/ (call[x].svc # None /\ link[d] = call[x].svc)
  BY DEF About
<1>3. None \notin Domains
  BY BoundsAssumption
<1>4. \A d \in Domains : d \in About(call[c])' => d \in About(call[c])
  BY <1>1, <1>2, <1>3 DEF Moved
<1>5. ASSUME NEW b \in Calls \ {c}, NEW d \in Domains, d \in About(call[b])'
      PROVE  d \in About(call[b]) \/ d \in crossed
  <2>1. call'[b] = call[b]
    BY DEF Moved
  <2>2. CASE link'[d] \in {link[d], None}
    BY <1>1, <1>2, <1>5, <2>1, <2>2
  <2>3. CASE d \in About(call[c]) /\ link'[d] = call[c].svc
    <3>1. CASE call[b].svc = call[c].svc /\ call[b].svc # None
      BY <2>3, <3>1 DEF Apart, Share
    <3>2. CASE ~(call[b].svc = call[c].svc /\ call[b].svc # None)
      BY <1>1, <1>2, <1>5, <2>1, <2>3, <3>2
    <3>3. QED
      BY <3>1, <3>2
  <2>4. QED
    BY <2>2, <2>3 DEF Moved
<1>6. ASSUME NEW a \in Calls, NEW b \in Calls, NEW d \in Domains,
             a # b, Share(call[a], call[b], d)'
      PROVE  d \in crossed'
  <2>1. /\ call'[a].svc = call'[b].svc /\ call'[a].svc # None =>
             call[a].svc = call[b].svc /\ call[a].svc # None
    BY <1>6 DEF Moved
  <2>2. Share(call[a], call[b], d) \/ d \in crossed
    BY <1>4, <1>5, <1>6, <2>1 DEF Share
  <2>3. QED
    BY <1>6, <2>2 DEF Apart, Moved
<1>7. QED
  BY <1>6 DEF Apart

\* Whoever a request that arrives meets is noted.
LEMMA ArriveMeets ==
  ASSUME Typed, NEW c \in Calls, NEW k, Arrive(c, k)
  PROVE  /\ \A b \in Calls \ {c}, d \in Domains :
              Share(k, call[b], d) => d \in crossed'
         /\ \A d \in crossed \ crossed' : d \in About(k)
         /\ \A b \in Calls : call'[b] = IF b = c THEN k ELSE call[b]
         /\ UNCHANGED <<port, link, cached, vhost, stops, missed>>
<1>1. \A b \in Calls \ {c} : Meeting(k, call[b]) \subseteq crossed'
  BY DEF Arrive
<1>2. \A b \in Calls, d \in Domains : Share(k, call[b], d) => d \in Meeting(k, call[b])
  BY DEF Share, Meeting
<1>3. \A d \in crossed \ crossed' : d = k.dom
  BY DEF Arrive
<1>4. crossed \subseteq Domains
  BY DEF Typed, TypeOK
<1>5. \A b \in Calls : call'[b] = IF b = c THEN k ELSE call[b]
  BY DEF Arrive, Typed, TypeOK
<1>6. UNCHANGED <<port, link, cached, vhost, stops, missed>>
  BY DEF Arrive, disk
<1>7. QED
  BY <1>1, <1>2, <1>3, <1>4, <1>5, <1>6 DEF About

LEMMA ApartArrive ==
  ASSUME Typed, Apart, NEW c \in Calls, NEW k, Arrive(c, k)
  PROVE  Apart'
<1>1. /\ \A b \in Calls \ {c}, d \in Domains : Share(k, call[b], d) => d \in crossed'
      /\ \A d \in crossed \ crossed' : d \in About(k)
      /\ \A b \in Calls : call'[b] = IF b = c THEN k ELSE call[b]
      /\ link' = link
  BY ArriveMeets
<1> SUFFICES ASSUME NEW a \in Calls, NEW b \in Calls, NEW d \in Domains,
                    a # b, Share(call[a], call[b], d)'
             PROVE  d \in crossed'
  BY DEF Apart
<1>2. Share(call'[a], call'[b], d)
  BY <1>1 DEF Share, About
<1>3. CASE a = c
  BY <1>1, <1>2, <1>3
<1>4. CASE b = c
  <2>1. Share(k, call[a], d)
    BY <1>1, <1>2, <1>4 DEF Share
  <2>2. QED
    BY <1>1, <1>4, <2>1
<1>5. CASE a # c /\ b # c
  <2>1. Share(call[a], call[b], d)
    BY <1>1, <1>2, <1>5
  <2>2. d \in crossed
    BY <2>1 DEF Apart
  <2>3. CASE d \in About(k)
    <3>1. d \in About(call[a]) \/ d \in About(call[b])
      BY <2>1 DEF Share
    <3>2. Share(k, call[a], d) \/ Share(k, call[b], d)
      BY <2>3, <3>1 DEF Share
    <3>3. QED
      BY <1>1, <1>5, <3>2
  <2>4. QED
    BY <1>1, <2>2, <2>3
<1>6. QED
  BY <1>3, <1>4, <1>5

LEMMA AboutIdle == About(Idle) = {}
BY BoundsAssumption DEF About, Idle, Asked

LEMMA ApartStop == ASSUME Typed, Stop PROVE Apart'
<1>1. \A c \in Calls : call'[c] = Idle
  BY DEF Stop
<1>2. \A d \in Domains : d \notin About(Idle)' /\ Idle.svc = None
  BY BoundsAssumption DEF About, Idle, Asked
<1>3. \A b, c \in Calls, d \in Domains : ~Share(call[b], call[c], d)'
  BY <1>1, <1>2 DEF Share, About, Idle, Asked
<1>4. QED
  BY <1>3 DEF Apart

LEMMA ApartInit == ASSUME Init PROVE Apart
<1>1. \A c \in Calls : call[c] = Idle
  BY DEF Init
<1>2. Idle.svc = None
  BY DEF Idle, Asked
<1>3. QED
  BY <1>1, <1>2, AboutIdle DEF Apart, Share

-----------------------------------------------------------------------------
(* No dead link but one the removal missed                                 *)

\* A removal does not forget a domain before its link is cleared, or missed.
LEMMA WillClearKept ==
  ASSUME Typed, NEW c \in Calls, Work(c), NEW d \in Domains, WillClear(c, d),
         link'[d] # None, link'[d] = link[d], <<d, link[d]>> \notin missed'
  PROVE  WillClear(c, d)'
<1> DEFINE k == call[c]
<1>0. /\ CallShaped(k) /\ k # Idle /\ k.op = "remove" /\ None \notin Domains
      /\ k.svc = link[d]
  BY BoundsAssumption DEF Typed, Shaped, WillClear, Removes, Idle, Asked
<1>1. \A j : call' = [call EXCEPT ![c] = j] => call'[c] = j
  BY DEF Typed, TypeOK
<1>10. CASE RowStays(c) \/ ListNothing(c)
  <2>1. k.pc = "list" /\ ListNothing(c)
    BY <1>0, <1>10 DEF RowStays, ListNothing, At, WillClear, CallShaped
  <2>2. <<d, link[d]>> \in missed'
    BY <1>0, <2>1 DEF ListNothing, Misses, AttachedDomainNames
  <2>3. QED
    BY <2>2
<1>2. CASE StampDomainProxy(c) \/ ReconcileAttachedDomain(c) \/ Certbot(c) \/ CachePort(c)
  <2>1. k.pc \in {"stamp", "proxy", "certbot", "cache"}
    BY <1>2 DEF StampDomainProxy, ReconcileAttachedDomain, Certbot, CachePort, At
  <2>2. QED
    BY <1>0, <2>1 DEF CallShaped
<1>3. CASE DeleteRow(c) \/ \E p \in Ports : SavePort(c, p)
  <2>1. k.pc \in {"delete", "save"}
    BY <1>3 DEF DeleteRow, SavePort, At
  <2>2. k.left = {}
    BY <1>0, <2>1 DEF CallShaped
  <2>3. QED
    BY <2>1, <2>2 DEF WillClear
<1>4. CASE ReadUpstream(c)
  <2>1. k.pc = "read"
    BY <1>4 DEF ReadUpstream, At
  <2>2. d \in k.left
    BY <2>1 DEF WillClear
  <2>3. call'[c].op = k.op /\ call'[c].left = k.left /\ call'[c].svc = k.svc
    <3>1. PICK upstream : call' = [call EXCEPT ![c].pc = "write", ![c].up = upstream]
      BY <1>4 DEF ReadUpstream
    <3>2. QED
      BY <3>1 DEF Typed, TypeOK
  <2>4. QED
    BY <1>0, <2>2, <2>3 DEF WillClear, Removes
<1>5. CASE ClearDomainProxy(c)
  <2>1. k.pc = "clear" /\ To(c, "read")
    BY <1>5 DEF ClearDomainProxy, At
  <2>2. d # k.dom
    <3>1. SUFFICES ASSUME d = k.dom PROVE FALSE
      OBVIOUS
    <3>2. CASE Answers /\ link' = [link EXCEPT ![k.dom] = None]
      BY <3>1, <3>2 DEF Typed, TypeOK
    <3>3. CASE Misses(k, {k.dom})
      BY <1>0, <3>1, <3>3 DEF Misses
    <3>4. QED
      BY <1>5, <3>2, <3>3 DEF ClearDomainProxy
  <2>3. d \in k.left
    BY <2>1, <2>2 DEF WillClear
  <2>4. call'[c].op = k.op /\ call'[c].left = k.left /\ call'[c].svc = k.svc
    BY <1>1, <2>1, ToRecord
  <2>5. QED
    BY <1>0, <2>3, <2>4 DEF WillClear, Removes
<1>6. ASSUME NEW left \in SUBSET About(k), NEW to, d \in left, NextDomain(c, left, "clear", to)
      PROVE  WillClear(c, d)'
  <2>0. \E j : /\ call' = [call EXCEPT ![c] = j]
               /\ j.svc \in {call[c].svc, None} /\ j.left \subseteq left
               /\ j.dom \in About(call[c]) \cup {None}
               /\ j # Idle => /\ j.op = call[c].op /\ j.svc = call[c].svc
                              /\ j.pc = "clear" /\ j.to = to /\ j.dom \in left
                              /\ left = j.left \cup {j.dom}
               /\ j = Idle => left = {}
    <3> HIDE DEF k
    <3>1. NextDomain(c, left, "clear", to) /\ left \in SUBSET About(call[c])
      BY <1>6 DEF k
    <3>2. QED
      BY <3>1, NextRecord
  <2>1. PICK j : /\ call' = [call EXCEPT ![c] = j]
                 /\ j # Idle => /\ j.op = k.op /\ j.svc = k.svc /\ j.pc = "clear"
                                /\ left = j.left \cup {j.dom}
                 /\ j = Idle => left = {}
    BY <2>0
  <2>2. j # Idle /\ call'[c] = j
    BY <1>1, <1>6, <2>1
  <2>3. QED
    BY <1>0, <1>6, <2>1, <2>2 DEF WillClear, Removes
<1>7. CASE ApplyAttachedProxyVhost(c)
  <2>1. k.pc = "write" /\ NextDomain(c, k.left, "clear", k.to)
    BY <1>0, <1>7 DEF ApplyAttachedProxyVhost, At
  <2>2. d \in k.left /\ k.left \subseteq About(k)
    BY <2>1, AboutHand DEF WillClear
  <2>3. QED
    BY <1>6, <2>1, <2>2
<1>8. CASE ListDomains(c)
  <2>1. k.pc = "list" /\ NextDomain(c, AttachedDomainNames(k.svc), "clear", NoPort)
    BY <1>0, <1>8 DEF ListDomains, At
  <2>2. k.left = {} /\ k.svc \in Services /\ link[d] = k.svc
    BY <1>0, <2>1 DEF CallShaped, WillClear
  <2>3. d \in AttachedDomainNames(k.svc) /\ AttachedDomainNames(k.svc) \subseteq About(k)
    BY <2>2, BoundsAssumption DEF AttachedDomainNames, About
  <2>4. QED
    BY <1>6, <2>1, <2>3
<1>9. QED
  BY <1>2, <1>3, <1>4, <1>5, <1>7, <1>8, <1>10 DEF Work

\* Which services are alive changes with a removal of the row only.
LEMMA LiveKept ==
  ASSUME Typed, NEW c \in Calls, Work(c), ~DeleteRow(c), NEW s \in Services
  PROVE  Live(s)' <=> Live(s)
<1>1. ASSUME NEW p \in Ports, SavePort(c, p) PROVE Live(s)' <=> Live(s)
  <2>1. call[c].svc \in Services
    <3>1. call[c] # Idle /\ call[c].pc = "save"
      BY <1>1 DEF SavePort, At, Idle, Asked
    <3>2. QED
      BY <3>1 DEF Typed, Shaped, CallShaped
  <2>2. p # NoPort
    BY <1>1, <2>1, BoundsAssumption DEF SavePort, NoPort
  <2>3. QED
    BY <1>1, <2>2 DEF SavePort, Live, Typed, TypeOK
<1>2. CASE port' = port
  BY <1>2 DEF Live
<1>3. QED
  BY <1>1, <1>2 DEF Work, StampDomainProxy, ReconcileAttachedDomain, Certbot,
                    ReadUpstream, ApplyAttachedProxyVhost, ClearDomainProxy,
                    RowStays, ListDomains, ListNothing, CachePort

LEMMA DeadLinkWork ==
  ASSUME Typed, DeadLinkCovered, NEW c \in Calls, Work(c)
  PROVE  DeadLinkCovered'
<1>0. Moved(c) /\ missed \subseteq missed'
  BY WorkMoves DEF Work, StampDomainProxy, ReconcileAttachedDomain, Certbot, ReadUpstream,
       ApplyAttachedProxyVhost, ClearDomainProxy, DeleteRow, RowStays, ListDomains,
       ListNothing, CachePort, SavePort, Misses
<1>1. \A b \in Calls \ {c} : call'[b] = call[b]
  BY <1>0 DEF Moved
<1>2. ASSUME NEW b \in Calls, At(b, "stamp")'
      PROVE  b # c /\ call'[b] = call[b] /\ call[b].svc \in Services /\ At(b, "stamp")
  <2>1. b # c
    <3>1. \A pc : To(c, pc) => call'[c].pc = pc
      BY DEF To, Typed, TypeOK
    <3>2. Idle.pc # "stamp"
      BY DEF Idle, Asked
    <3>3. call' = [call EXCEPT ![c] = Idle] => call'[c].pc # "stamp"
      BY <3>2 DEF Typed, TypeOK
    <3>4. ASSUME NEW left \in SUBSET About(call[c]), NEW pc \in {"clear", "cache"}, NEW to,
                 NextDomain(c, left, pc, to)
          PROVE  call'[c].pc # "stamp"
      <4>1. PICK j : /\ call' = [call EXCEPT ![c] = j]
                     /\ j # Idle => j.pc = pc
        BY <3>4, NextRecord
      <4>2. QED
        BY <3>2, <4>1 DEF Typed, TypeOK
    <3>5. CASE ReadUpstream(c)
      <4>1. PICK upstream : call' = [call EXCEPT ![c].pc = "write", ![c].up = upstream]
        BY <3>5 DEF ReadUpstream
      <4>2. call'[c].pc = "write"
        BY <4>1 DEF Typed, TypeOK
      <4>3. QED
        BY <1>2, <4>2 DEF At
    <3>6. CASE ApplyAttachedProxyVhost(c)
      <4>1. call[c].left \subseteq About(call[c])
        BY AboutHand
      <4>2. PICK pc \in {"clear", "cache"} : NextDomain(c, call[c].left, pc, call[c].to)
        BY <3>6 DEF ApplyAttachedProxyVhost
      <4>3. QED
        BY <1>2, <3>4, <4>1, <4>2 DEF At
    <3>7. CASE ListDomains(c)
      <4>1. call[c].svc \in Services
        <5>1. call[c] # Idle /\ call[c].pc = "list"
          BY <3>7 DEF ListDomains, At, Idle, Asked
        <5>2. QED
          BY <5>1 DEF Typed, Shaped, CallShaped
      <4>2. AttachedDomainNames(call[c].svc) \subseteq About(call[c])
        BY <4>1, BoundsAssumption DEF AttachedDomainNames, About
      <4>3. PICK left \in SUBSET About(call[c]), pc \in {"clear", "cache"},
                 to \in {NoPort, port[call[c].svc]} : NextDomain(c, left, pc, to)
        BY <3>7, <4>2 DEF ListDomains
      <4>4. QED
        BY <1>2, <3>4, <4>3 DEF At
    <3>8. QED
      BY <1>2, <3>1, <3>3, <3>5, <3>6, <3>7
         DEF At, Work, StampDomainProxy, ReconcileAttachedDomain, Certbot,
             ClearDomainProxy, DeleteRow, RowStays, ListNothing, CachePort, SavePort, To
  <2>2. call'[b] = call[b] /\ call[b].pc = "stamp"
    BY <1>1, <1>2, <2>1 DEF At
  <2>3. call[b] # Idle
    BY <2>2 DEF Idle, Asked
  <2>4. QED
    BY <2>1, <2>2, <2>3 DEF Typed, Shaped, CallShaped, At
<1>3. ASSUME NEW b \in Calls, At(b, "stamp")'
      PROVE  (Live(call[b].svc) \/ <<call[b].dom, call[b].svc>> \in missed)'
  <2> DEFINE s == call[b].svc
  <2>1. s \in Services /\ call'[b] = call[b] /\ At(b, "stamp")
    BY <1>2, <1>3
  <2>2. Live(s) \/ <<call[b].dom, s>> \in missed
    BY <2>1 DEF DeadLinkCovered
  <2>3. CASE DeleteRow(c) /\ s = call[c].svc
    <3>1. <<call[b].dom, s>> \in missed'
      BY <2>1, <2>3 DEF DeleteRow
    <3>2. QED
      BY <2>1, <3>1
  <2>4. CASE DeleteRow(c) /\ s # call[c].svc
    <3>1. port'[s] = port[s]
      BY <2>1, <2>4 DEF DeleteRow, Typed, TypeOK
    <3>2. QED
      BY <1>0, <2>1, <2>2, <3>1 DEF Live
  <2>5. CASE ~DeleteRow(c)
    <3>1. port'[s] # NoPort <=> port[s] # NoPort
      BY <2>1, <2>5, LiveKept DEF Live
    <3>2. QED
      BY <1>0, <2>1, <2>2, <3>1 DEF Live
  <2>6. QED
    BY <2>3, <2>4, <2>5
<1>4. ASSUME NEW d \in Domains, (link[d] # None /\ ~Live(link[d]))'
      PROVE  (<<d, link[d]>> \in missed \/ \E b \in Calls : WillClear(b, d))'
  <2>1. CASE link'[d] # link[d]
    <3>1. StampDomainProxy(c) /\ link'[d] = call[c].svc /\ d = call[c].dom
      BY <1>0, <1>4, <2>1 DEF Work, StampDomainProxy, ReconcileAttachedDomain, Certbot,
           ReadUpstream, ApplyAttachedProxyVhost, ClearDomainProxy, DeleteRow, RowStays,
           ListDomains, ListNothing, CachePort, SavePort, disk, Typed, TypeOK
    <3>2. ~Live(call[c].svc) /\ At(c, "stamp") /\ missed' = missed
      BY <1>4, <3>1 DEF StampDomainProxy, Live
    <3>3. QED
      BY <3>1, <3>2 DEF DeadLinkCovered
  <2>2. CASE link'[d] = link[d] /\ ~Live(link[d])
    <3>1. <<d, link[d]>> \in missed \/ \E b \in Calls : WillClear(b, d)
      BY <1>0, <1>4, <2>2 DEF DeadLinkCovered
    <3>2. ASSUME NEW b \in Calls, WillClear(b, d), <<d, link[d]>> \notin missed'
          PROVE  WillClear(b, d)'
      <4>1. CASE b = c
        BY <1>4, <2>2, <3>2, <4>1, WillClearKept
      <4>2. CASE b # c
        BY <1>1, <2>2, <3>2, <4>2 DEF WillClear, Removes
      <4>3. QED
        BY <4>1, <4>2
    <3>3. QED
      BY <1>0, <2>2, <3>1, <3>2
  <2>3. CASE link'[d] = link[d] /\ Live(link[d])
    <3>1. link[d] \in Services
      BY <1>4, <2>3 DEF Typed, TypeOK
    <3>2. port[link[d]] # NoPort /\ port'[link[d]] = NoPort
      BY <1>4, <2>3 DEF Live
    <3>9. DeleteRow(c)
      BY <3>1, <3>2, LiveKept DEF Live
    <3>3. link[d] = call[c].svc
      BY <3>1, <3>2, <3>9 DEF DeleteRow, Typed, TypeOK
    <3>4. call[c].op = "remove"
      <4>1. call[c] # Idle /\ call[c].pc = "delete"
        BY <3>9 DEF DeleteRow, At, Idle, Asked
      <4>2. QED
        BY <4>1 DEF Typed, Shaped, CallShaped
    <3>5. PICK j : /\ call' = [call EXCEPT ![c] = j]
                   /\ j.svc = call[c].svc /\ j.op = call[c].op /\ j.pc = "list"
      BY <3>9, ToRecord DEF DeleteRow
    <3>6. call'[c] = j
      BY <3>5 DEF Typed, TypeOK
    <3>7. WillClear(c, d)'
      BY <2>3, <3>3, <3>4, <3>5, <3>6 DEF WillClear, Removes
    <3>8. QED
      BY <3>7
  <2>4. QED
    BY <2>1, <2>2, <2>3
<1>5. QED
  BY <1>3, <1>4 DEF DeadLinkCovered

LEMMA DeadLinkArrive ==
  ASSUME Typed, DeadLinkCovered, NEW c \in Calls, NEW k, Fresh(k), Arrive(c, k)
  PROVE  DeadLinkCovered'
<1>1. /\ \A b \in Calls : call'[b] = IF b = c THEN k ELSE call[b]
      /\ UNCHANGED <<port, link, missed>>
  BY ArriveMeets
<1>2. k.pc = "stamp" => Live(k.svc)
  BY DEF Fresh, Asked
<1>3. ASSUME NEW b \in Calls, At(b, "stamp")'
      PROVE  (Live(call[b].svc) \/ <<call[b].dom, call[b].svc>> \in missed)'
  <2>1. CASE b = c
    BY <1>1, <1>2, <1>3, <2>1 DEF At, Live
  <2>2. CASE b # c
    BY <1>1, <1>3, <2>2 DEF At, Live, DeadLinkCovered
  <2>3. QED
    BY <2>1, <2>2
<1>4. \A d \in Domains : ~WillClear(c, d)
  <2>1. call[c] = Idle
    BY DEF Arrive
  <2>2. QED
    BY <2>1 DEF WillClear, Removes, Idle, Asked
<1>5. \A b \in Calls, d \in Domains : WillClear(b, d) => WillClear(b, d)'
  BY <1>1, <1>4 DEF WillClear, Removes
<1>6. QED
  BY <1>1, <1>3, <1>5 DEF DeadLinkCovered, Live

LEMMA DeadLinkStop == ASSUME Typed, DeadLinkCovered, Stop PROVE DeadLinkCovered'
<1>1. \A c \in Calls : call'[c].pc # "stamp"
  BY DEF Stop, Idle, Asked
<1>2. UNCHANGED <<port, link>>
  BY DEF Stop, disk
<1>3. ASSUME NEW d \in Domains, link[d] # None, ~Live(link[d])
      PROVE  <<d, link[d]>> \in missed'
  <2>1. CASE <<d, link[d]>> \in missed
    BY <2>1 DEF Stop
  <2>2. ASSUME NEW c \in Calls, WillClear(c, d) PROVE <<d, link[d]>> \in missed'
    BY <2>2 DEF Stop, WillClear
  <2>3. QED
    BY <1>3, <2>1, <2>2 DEF DeadLinkCovered
<1>4. QED
  BY <1>1, <1>2, <1>3 DEF DeadLinkCovered, At, Live

LEMMA DeadLinkInit == ASSUME Init PROVE DeadLinkCovered
BY DEF Init, DeadLinkCovered, At, Idle, Asked

-----------------------------------------------------------------------------
(* The vhost follows the link                                              *)

\* A request knows something only of the domains it is about.
LEMMA KnowsElse ==
  ASSUME Typed, NEW c \in Calls, NEW d \in Domains, d \notin About(call[c])
  PROVE  Knows(call[c], d) /\ ~InHand(call[c], d)
<1> DEFINE k == call[c]
<1>1. k.dom # d /\ d \notin k.left /\ ~(k.svc # None /\ link[d] = k.svc)
  BY DEF About
<1>2. k.pc \in {"list", "save"} => k.svc # None
  <2>1. k.pc \in {"list", "save"} => k # Idle
    BY DEF Idle, Asked
  <2>2. QED
    BY <2>1, BoundsAssumption DEF Typed, Shaped, CallShaped
<1>3. ~InHand(k, d)
  BY <1>1, <1>2 DEF InHand
<1>4. QED
  BY <1>1, <1>2, <1>3 DEF Knows, KnowsAttach, KnowsClear, KnowsUpdate, KnowsRead

LEMMA KnowsElseAfter ==
  ASSUME Typed', NEW c \in Calls, NEW d \in Domains, (d \notin About(call[c]))'
  PROVE  (Knows(call[c], d) /\ ~InHand(call[c], d))'
<1>1. /\ call'[c].dom # d /\ d \notin call'[c].left
      /\ ~(call'[c].svc # None /\ link'[d] = call'[c].svc)
  BY DEF About
<1>2. call'[c].pc \in {"list", "save"} => call'[c].svc # None
  <2>1. call'[c].pc \in {"list", "save"} => (call[c] # Idle)'
    BY DEF Idle, Asked
  <2>2. (CallShaped(call[c]))'
    BY DEF Typed, Shaped
  <2>3. QED
    BY <2>1, <2>2, BoundsAssumption DEF CallShaped
<1>3. (~InHand(call[c], d))'
  BY <1>1, <1>2 DEF InHand
<1>4. QED
  BY <1>1, <1>2, <1>3 DEF Knows, KnowsAttach, KnowsClear, KnowsUpdate, KnowsRead

\* What a request knows of a domain that nobody touches, it still knows.
LEMMA KnowsKept ==
  ASSUME NEW b \in Calls, NEW d \in Domains, Knows(call[b], d), call'[b] = call[b],
         link'[d] = link[d], cached'[d] = cached[d], vhost'[d] = vhost[d],
         port'[call[b].svc] = port[call[b].svc],
         link[d] # None => port'[link[d]] = port[link[d]]
  PROVE  Knows(call[b], d)' /\ (InHand(call[b], d)' <=> InHand(call[b], d))
<1>1. InHand(call[b], d)' <=> InHand(call[b], d)
  BY DEF InHand
<1>2. KnowsAttach(call[b], d)' /\ KnowsClear(call[b], d)'
  BY DEF Knows, KnowsAttach, KnowsClear, Live
<1>3. KnowsUpdate(call[b], d)'
  BY <1>1 DEF Knows, KnowsUpdate, Live
<1>4. KnowsRead(call[b], d)'
  BY DEF Knows, KnowsRead, Want
<1>5. QED
  BY <1>1, <1>2, <1>3, <1>4 DEF Knows

\* A step does no harm to a domain the request is not about.
LEMMA FineElse ==
  ASSUME Typed, Typed', Apart, NEW c \in Calls, Moved(c),
         NEW d \in Domains \ crossed, d \notin About(call[c]), Fine(d)
  PROVE  Fine(d)'
<1>0. None \notin Domains /\ d \in Domains
  BY BoundsAssumption
<1>1. link'[d] = link[d] /\ cached'[d] = cached[d] /\ vhost'[d] = vhost[d]
  BY DEF Moved
<1>2. (d \notin About(call[c]))'
  BY <1>0, <1>1 DEF Moved, About
<1>3. link[d] # None => port'[link[d]] = port[link[d]]
  <2>1. ASSUME link[d] # None PROVE link[d] \in Services /\ link[d] # call[c].svc
    BY <2>1 DEF About, Typed, TypeOK
  <2>2. QED
    BY <2>1 DEF Moved
<1>4. Good(d)' <=> Good(d)
  BY <1>1, <1>3 DEF Good, Want, Live
<1>5. ASSUME NEW b \in Calls
      PROVE  Knows(call[b], d)' /\ (InHand(call[b], d) => InHand(call[b], d)')
  <2>1. CASE b = c
    BY <1>2, <2>1, KnowsElse, KnowsElseAfter
  <2>2. CASE b # c /\ d \notin About(call[b])
    <3>1. (d \notin About(call[b]))'
      BY <1>1, <2>2 DEF Moved, About
    <3>2. QED
      BY <2>2, <3>1, KnowsElse, KnowsElseAfter
  <2>3. CASE b # c /\ d \in About(call[b]) /\ call[b].svc # None
    <3>1. call[b].svc # call[c].svc
      BY <2>3 DEF Apart, Share
    <3>2. call[b].svc \in Services
      BY <2>3 DEF Typed, TypeOK
    <3>3. port'[call[b].svc] = port[call[b].svc] /\ call'[b] = call[b]
      BY <2>3, <3>1, <3>2 DEF Moved
    <3>4. QED
      BY <1>1, <1>3, <3>3, KnowsKept DEF Fine
  <2>4. CASE b # c /\ d \in About(call[b]) /\ call[b].svc = None
    <3>1. call[b].op = "issue" /\ call[b].pc \in {"read", "write"} /\ call'[b] = call[b]
      <4>1. call[b] # Idle
        BY <1>0, <2>4, AboutIdle
      <4>2. QED
        BY <2>4, <4>1, BoundsAssumption DEF Typed, Shaped, CallShaped, Moved
    <3>2. Want(d)' = Want(d)
      BY <1>1, <1>3 DEF Want
    <3>3. QED
      BY <3>1, <3>2 DEF Fine, Knows, KnowsAttach, KnowsClear, KnowsUpdate, KnowsRead, InHand
  <2>5. QED
    BY <2>1, <2>2, <2>3, <2>4
<1>6. QED
  BY <1>4, <1>5 DEF Fine

\* No other request knows anything of a domain that the one at work is about.
LEMMA OthersElse ==
  ASSUME Typed, Typed', Apart, NEW c \in Calls, Moved(c),
         NEW d \in Domains \ crossed, d \in About(call[c]), NEW b \in Calls \ {c}
  PROVE  Knows(call[b], d)' /\ ~InHand(call[b], d)
<1>1. d \notin About(call[b]) /\ ~(call[b].svc = call[c].svc /\ call[b].svc # None)
  BY DEF Apart, Share
<1>2. (d \notin About(call[b]))'
  BY <1>1 DEF Moved, About
<1>3. QED
  BY <1>1, <1>2, KnowsElse, KnowsElseAfter

\* A domain with one request about it: what the request knows is so, and the
\* domain is as its row says unless it is in the request's hands.
Sole(c, d) == Knows(call[c], d) /\ (Good(d) \/ InHand(call[c], d))

LEMMA SoleAttach ==
  ASSUME Typed, NEW c \in Calls, NEW d \in Domains \ crossed', Sole(c, d),
         StampDomainProxy(c) \/ ReconcileAttachedDomain(c) \/ Certbot(c)
  PROVE  Sole(c, d)'
<1> DEFINE k == call[c]
<1> USE DEF Knows, KnowsAttach, KnowsClear, KnowsUpdate, KnowsRead, InHand
<1>0. k.op = "attach" /\ k.left = {} /\ k.dom \in Domains /\ port' = port
  <2>1. k.pc \in {"stamp", "proxy", "certbot"} /\ k # Idle
    BY DEF StampDomainProxy, ReconcileAttachedDomain, Certbot, At, Idle, Asked
  <2>2. QED
    BY <2>1 DEF Typed, Shaped, CallShaped, StampDomainProxy, ReconcileAttachedDomain,
                Certbot
<1>1. \A j : call' = [call EXCEPT ![c] = j] => call'[c] = j
  BY DEF Typed, TypeOK
<1>2. CASE d # k.dom
  <2>1. link'[d] = link[d] /\ cached'[d] = cached[d] /\ vhost'[d] = vhost[d]
    BY <1>2 DEF StampDomainProxy, ReconcileAttachedDomain, Certbot, WriteVhost, Typed, TypeOK
  <2>2. k.pc \in {"stamp", "proxy", "certbot"} /\ ~InHand(k, d)
    BY <1>0, <1>2 DEF StampDomainProxy, ReconcileAttachedDomain, Certbot, At
  <2>3. Good(d)'
    BY <1>0, <2>1, <2>2 DEF Sole, Good, Want, Live
  <2>4. CASE call' = [call EXCEPT ![c] = Idle]
    BY <1>1, <2>3, <2>4 DEF Sole, Idle, Asked
  <2>5. ASSUME NEW pc \in {"proxy", "certbot"}, To(c, pc) PROVE Sole(c, d)'
    <3>1. PICK j : /\ call' = [call EXCEPT ![c] = j] /\ j.op = k.op /\ j.pc = pc
                   /\ j.dom = k.dom
      BY <2>5, ToRecord
    <3>2. /\ call'[c].op = "attach" /\ call'[c].dom # d
          /\ call'[c].pc \in {"proxy", "certbot"}
      BY <1>0, <1>1, <1>2, <3>1
    <3>3. QED
      BY <2>3, <3>2 DEF Sole
  <2>6. QED
    BY <2>4, <2>5 DEF StampDomainProxy, ReconcileAttachedDomain, Certbot
<1>3. CASE d = k.dom /\ ~Certbot(c)
  <2>1. PICK pc \in {"proxy", "certbot"} :
          /\ To(c, pc)
          /\ pc = "proxy" => StampDomainProxy(c)
          /\ pc = "certbot" => ReconcileAttachedDomain(c)
    BY <1>3 DEF StampDomainProxy, ReconcileAttachedDomain
  <2>2. PICK j : /\ call' = [call EXCEPT ![c] = j] /\ j.op = k.op /\ j.pc = pc
                 /\ j.svc = k.svc /\ j.dom = k.dom /\ j.up = k.up
    BY <2>1, ToRecord
  <2>3. link'[d] = k.svc /\ cached'[d] = k.up
    <3>1. CASE pc = "proxy"
      BY <1>0, <1>3, <2>1, <3>1 DEF StampDomainProxy, Fails, Typed, TypeOK
    <3>2. CASE pc = "certbot"
      BY <1>0, <1>3, <2>1, <3>2 DEF ReconcileAttachedDomain, At, Sole
    <3>3. QED
      BY <3>1, <3>2
  <2>4. pc = "certbot" => vhost'[d] = k.up
    BY <1>0, <1>3, <2>1 DEF ReconcileAttachedDomain, WriteVhost, Fails, Typed, TypeOK
  <2>5. k.up = port[k.svc] /\ Live(k.svc)
    BY <1>0, <1>3 DEF Sole
  <2>6. QED
    BY <1>0, <1>1, <1>3, <2>2, <2>3, <2>4, <2>5 DEF Sole, Live
<1>4. CASE d = k.dom /\ Certbot(c)
  <2>1. /\ k.pc = "certbot" /\ call' = [call EXCEPT ![c] = Idle]
        /\ link' = link /\ cached' = cached
    BY <1>4 DEF Certbot, At
  <2>2. k.up = port[k.svc] /\ Live(k.svc) /\ link[d] = k.svc /\ cached[d] = k.up
        /\ vhost[d] = k.up
    BY <1>0, <1>4, <2>1 DEF Sole
  <2>3. vhost'[d] = k.up
    BY <1>0, <1>4, <2>2 DEF Certbot, WriteVhost, Fails, Typed, TypeOK
  <2>4. k.svc # None
    <3>1. k # Idle
      BY <2>1 DEF Idle, Asked
    <3>2. QED
      BY <1>0, <3>1, BoundsAssumption DEF Typed, Shaped, CallShaped
  <2>5. Good(d)'
    BY <1>0, <2>1, <2>2, <2>3, <2>4 DEF Good, Want, Live
  <2>6. QED
    BY <1>1, <2>1, <2>5 DEF Sole, Idle, Asked
<1>5. QED
  BY <1>2, <1>3, <1>4

LEMMA SoleRead ==
  ASSUME Typed, NEW c \in Calls, NEW d \in Domains \ crossed', Sole(c, d), ReadUpstream(c)
  PROVE  Sole(c, d)'
<1> DEFINE k == call[c]
<1>0. PICK upstream :
        /\ call' = [call EXCEPT ![c].pc = "write", ![c].up = upstream]
        /\ d = k.dom => upstream = Upstream(d) \/ (link[d] # None /\ upstream = cached[d])
  BY DEF ReadUpstream, Fails
<1> DEFINE j == [k EXCEPT !.pc = "write", !.up = upstream]
<1>1. k \in CallRow /\ call \in [Calls -> CallRow]
  BY DEF Typed, TypeOK, CallRow
<1>2. call'[c] = j
  BY <1>0, <1>1
<1>3. /\ j.op = k.op /\ j.svc = k.svc /\ j.dom = k.dom /\ j.left = k.left /\ j.to = k.to
      /\ j.pc = "write" /\ j.up = upstream
  BY <1>1 DEF CallRow
<1>4. /\ port' = port /\ link' = link /\ cached' = cached /\ vhost' = vhost
      /\ k.pc = "read"
  BY DEF ReadUpstream, disk, At
<1>5. k.op \in {"detach", "issue", "remove", "update"} /\ (k.op # "issue" => k.svc \in Services)
  <2>1. k # Idle
    BY <1>4 DEF Idle, Asked
  <2>2. QED
    BY <1>4, <2>1 DEF Typed, Shaped, CallShaped
<1> HIDE DEF j
<1> USE DEF InHand
<1>6. Good(d)' <=> Good(d)
  BY <1>4 DEF Good, Want, Live
<1>7. InHand(call[c], d)' <=> InHand(k, d)
  BY <1>2, <1>3, <1>4
<1>8. KnowsAttach(call[c], d)'
  BY <1>2, <1>3, <1>5 DEF KnowsAttach
<1>9. KnowsClear(call[c], d)'
  BY <1>0, <1>2, <1>3, <1>4 DEF KnowsClear, Sole, Knows, Upstream
<1>10. KnowsUpdate(call[c], d)'
  <2>1. ASSUME k.op = "update", InHand(k, d)
        PROVE  /\ link[d] = k.svc /\ Live(k.svc) /\ k.to = port[k.svc]
               /\ k.dom = d => cached[d] = port[k.svc]
    BY <1>4, <2>1 DEF Sole, Knows, KnowsUpdate
  <2>2. ASSUME k.op = "update", InHand(k, d), k.dom = d PROVE upstream = port[k.svc]
    BY <1>0, <1>5, <2>1, <2>2, BoundsAssumption DEF Upstream
  <2>3. QED
    BY <1>2, <1>3, <1>4, <1>7, <2>1, <2>2 DEF KnowsUpdate, Live
<1>11. KnowsRead(call[c], d)'
  <2>1. ASSUME k.op = "issue", k.dom = d PROVE upstream = Want(d)
    <3>1. Good(d)
      BY <2>1 DEF Sole
    <3>2. QED
      BY <1>0, <2>1, <3>1 DEF Good, Want, Upstream
  <2>2. Want(d)' = Want(d)
    BY <1>4 DEF Want
  <2>3. QED
    BY <1>2, <1>3, <2>1, <2>2 DEF KnowsRead
<1>12. QED
  BY <1>6, <1>7, <1>8, <1>9, <1>10, <1>11 DEF Sole, Knows

LEMMA SoleApply ==
  ASSUME Typed, NEW c \in Calls, NEW d \in Domains \ crossed', Sole(c, d),
         ApplyAttachedProxyVhost(c)
  PROVE  Sole(c, d)'
<1> DEFINE k == call[c]
<1>1. /\ k.pc = "write" /\ port' = port /\ link' = link /\ cached' = cached
      /\ NextDomain(c, k.left, IF k.op = "remove" THEN "clear" ELSE "cache", k.to)
  BY DEF ApplyAttachedProxyVhost, At
<1>2. /\ k.op \in {"detach", "issue", "remove", "update"}
      /\ k.op \in {"detach", "issue"} => k.left = {}
      /\ k.op # "issue" => k.svc \in Services
      /\ k.dom \in Domains
  <2>1. k # Idle
    BY <1>1 DEF Idle, Asked
  <2>2. QED
    BY <1>1, <2>1 DEF Typed, Shaped, CallShaped
<1>3. vhost'[d] = IF d = k.dom THEN k.up ELSE vhost[d]
  <2>1. CASE k.op = "update" /\ k.up = NoPort
    <3>1. vhost' = vhost
      BY <2>1 DEF ApplyAttachedProxyVhost
    <3>2. ASSUME d = k.dom PROVE FALSE
      <4>1. k.up = port[k.svc] /\ Live(k.svc)
        BY <1>1, <2>1, <3>2 DEF Sole, Knows, KnowsUpdate, InHand
      <4>2. QED
        BY <2>1, <4>1 DEF Live
    <3>3. QED
      BY <3>1, <3>2
  <2>2. CASE WriteVhost(k.dom, k.up)
    BY <2>2 DEF WriteVhost, Fails, Typed, TypeOK
  <2>3. QED
    BY <2>1, <2>2 DEF ApplyAttachedProxyVhost
<1>4. PICK j : /\ call' = [call EXCEPT ![c] = j]
               /\ j # Idle => /\ j.op = k.op /\ j.svc = k.svc
                              /\ j.pc = (IF k.op = "remove" THEN "clear" ELSE "cache")
                              /\ j.to = k.to /\ j.dom \in k.left
                              /\ k.left = j.left \cup {j.dom}
               /\ j = Idle => k.left = {}
  BY <1>1, AboutHand, NextRecord
<1>5. call'[c] = j
  BY <1>4 DEF Typed, TypeOK
<1>6. Good(d)' \/ d \in k.left
  <2>1. CASE d = k.dom
    <3>1. CASE k.op \in {"detach", "remove"}
      <4>1. link[d] = None /\ cached[d] = NoPort /\ k.up = NoPort
        BY <1>1, <2>1, <3>1 DEF Sole, Knows, KnowsClear
      <4>2. QED
        BY <1>1, <1>3, <2>1, <4>1 DEF Good, Want
    <3>2. CASE k.op = "update"
      <4>1. /\ link[d] = k.svc /\ Live(k.svc) /\ cached[d] = port[k.svc]
            /\ k.up = port[k.svc]
        BY <1>1, <2>1, <3>2 DEF Sole, Knows, KnowsUpdate, InHand
      <4>2. k.svc # None
        BY <1>2, <3>2, BoundsAssumption
      <4>3. QED
        BY <1>1, <1>3, <2>1, <4>1, <4>2 DEF Good, Want, Live
    <3>3. CASE k.op = "issue"
      <4>1. k.up = Want(d) /\ Good(d)
        BY <1>1, <2>1, <3>3 DEF Sole, Knows, KnowsRead, InHand
      <4>2. QED
        BY <1>1, <1>3, <2>1, <4>1 DEF Good, Want, Live
    <3>4. QED
      BY <1>2, <3>1, <3>2, <3>3
  <2>2. CASE d # k.dom /\ d \notin k.left
    <3>1. Good(d)
      BY <1>1, <2>2 DEF Sole, InHand
    <3>2. QED
      BY <1>1, <1>3, <2>2, <3>1 DEF Good, Want, Live
  <2>3. QED
    BY <2>1, <2>2
<1>7. CASE j = Idle
  <2>1. Good(d)'
    BY <1>4, <1>6, <1>7
  <2>2. (Knows(call[c], d))'
    BY <1>5, <1>7 DEF Knows, KnowsAttach, KnowsClear, KnowsUpdate, KnowsRead, InHand,
                      Idle, Asked
  <2>3. QED
    BY <2>1, <2>2 DEF Sole
<1>8. CASE j # Idle
  <2>1. k.op \in {"remove", "update"} /\ j.pc \in {"clear", "cache"}
    BY <1>2, <1>4, <1>8
  <2>2. d \in k.left <=> InHand(call[c], d)'
    BY <1>4, <1>5, <1>8, <2>1 DEF InHand
  <2>3. (KnowsAttach(call[c], d) /\ KnowsClear(call[c], d) /\ KnowsRead(call[c], d))'
    BY <1>4, <1>5, <1>8, <2>1 DEF KnowsAttach, KnowsClear, KnowsRead
  <2>4. KnowsUpdate(call[c], d)'
    <3>1. ASSUME k.op = "update", d \in k.left
          PROVE  link[d] = k.svc /\ Live(k.svc) /\ k.to = port[k.svc]
      BY <1>1, <3>1 DEF Sole, Knows, KnowsUpdate, InHand
    <3>2. QED
      BY <1>1, <1>4, <1>5, <1>8, <2>1, <2>2, <3>1 DEF KnowsUpdate, Live
  <2>5. QED
    BY <1>6, <2>2, <2>3, <2>4 DEF Sole, Knows
<1>9. QED
  BY <1>7, <1>8

LEMMA SoleClearOrCache ==
  ASSUME Typed, NEW c \in Calls, NEW d \in Domains \ crossed', Sole(c, d),
         ClearDomainProxy(c) \/ CachePort(c)
  PROVE  Sole(c, d)'
<1> DEFINE k == call[c]
<1>1. k.pc \in {"clear", "cache"} /\ To(c, "read") /\ port' = port /\ vhost' = vhost
  BY DEF ClearDomainProxy, CachePort, At
<1>2. /\ k.op \in {"detach", "remove", "update"} /\ k.dom \in Domains
      /\ k.op = "update" <=> CachePort(c)
      /\ k.svc \in Services
  <2>1. k # Idle
    BY <1>1 DEF Idle, Asked
  <2>2. QED
    BY <1>1, <2>1 DEF Typed, Shaped, CallShaped, ClearDomainProxy, CachePort, At
<1>3. PICK j : /\ call' = [call EXCEPT ![c] = j]
               /\ j.svc = k.svc /\ j.left = k.left /\ j.dom = k.dom
               /\ j.op = k.op /\ j.pc = "read" /\ j.to = k.to
  BY <1>1, ToRecord
<1>4. call'[c] = j
  BY <1>3 DEF Typed, TypeOK
<1>5. d # k.dom => link'[d] = link[d] /\ cached'[d] = cached[d]
  BY DEF ClearDomainProxy, CachePort, Typed, TypeOK
<1>6. d = k.dom /\ k.op # "update" => link'[d] = None /\ cached'[d] = NoPort
  BY <1>2 DEF ClearDomainProxy, Fails, Typed, TypeOK
<1>7. d = k.dom /\ k.op = "update" => link'[d] = link[d] /\ cached'[d] = k.to
  BY <1>2 DEF CachePort, Fails, Typed, TypeOK
<1>8. InHand(call[c], d)' <=> InHand(k, d)
  BY <1>1, <1>2, <1>3, <1>4 DEF InHand
<1>9. Good(d)' \/ InHand(call[c], d)'
  <2>1. CASE d = k.dom
    BY <1>2, <1>8, <2>1 DEF InHand
  <2>2. CASE d # k.dom
    BY <1>1, <1>5, <1>8, <2>2 DEF Sole, Good, Want, Live
  <2>3. QED
    BY <2>1, <2>2
<1>10. (KnowsAttach(call[c], d) /\ KnowsRead(call[c], d))'
  BY <1>2, <1>3, <1>4 DEF KnowsAttach, KnowsRead
<1>11. KnowsClear(call[c], d)'
  BY <1>3, <1>4, <1>6 DEF KnowsClear
<1>12. KnowsUpdate(call[c], d)'
  <2>1. ASSUME k.op = "update", InHand(k, d)
        PROVE  link[d] = k.svc /\ Live(k.svc) /\ k.to = port[k.svc]
    BY <1>1, <2>1 DEF Sole, Knows, KnowsUpdate
  <2>2. QED
    BY <1>1, <1>3, <1>4, <1>5, <1>7, <1>8, <2>1 DEF KnowsUpdate, Live
<1>13. QED
  BY <1>9, <1>10, <1>11, <1>12 DEF Sole, Knows

LEMMA SoleDelete ==
  ASSUME Typed, NEW c \in Calls, NEW d \in Domains, d \in About(call[c]), DeleteRow(c)
  PROVE  Sole(c, d)'
<1> DEFINE k == call[c]
<1>1. k.op = "remove" /\ k.dom = None /\ k.left = {} /\ link' = link
  <2>1. k # Idle /\ k.pc = "delete"
    BY DEF DeleteRow, At, Idle, Asked
  <2>2. QED
    BY <2>1 DEF Typed, Shaped, CallShaped, DeleteRow, disk
<1>2. link[d] = k.svc /\ d # k.dom
  BY <1>1, BoundsAssumption DEF About
<1>3. PICK j : /\ call' = [call EXCEPT ![c] = j]
               /\ j.svc = k.svc /\ j.dom = k.dom /\ j.op = k.op /\ j.pc = "list"
  BY ToRecord DEF DeleteRow
<1>4. call'[c] = j
  BY <1>3 DEF Typed, TypeOK
<1>5. InHand(call[c], d)'
  BY <1>1, <1>2, <1>3, <1>4 DEF InHand
<1>6. Knows(call[c], d)'
  BY <1>1, <1>3, <1>4 DEF Knows, KnowsAttach, KnowsClear, KnowsUpdate, KnowsRead
<1>7. QED
  BY <1>5, <1>6 DEF Sole

LEMMA SoleList ==
  ASSUME Typed, NEW c \in Calls, NEW d \in Domains, d \in About(call[c]), Sole(c, d),
         ListDomains(c)
  PROVE  Sole(c, d)'
<1> DEFINE k == call[c]
           names == AttachedDomainNames(k.svc)
<1>1. /\ k.pc = "list" /\ k.op \in {"remove", "update"} /\ k.dom = None /\ k.left = {}
      /\ k.svc \in Services /\ link' = link /\ port' = port
  <2>1. k # Idle /\ k.pc = "list"
    BY DEF ListDomains, At, Idle, Asked
  <2>2. QED
    BY <2>1 DEF Typed, Shaped, CallShaped, ListDomains, disk
<1>2. link[d] = k.svc /\ d # k.dom
  BY <1>1, BoundsAssumption DEF About
<1>3. d \in names /\ names \subseteq About(k)
  BY <1>1, <1>2, BoundsAssumption DEF AttachedDomainNames, About
<1>4. k.op = "update" => Live(k.svc)
  BY <1>1, <1>2 DEF Sole, Knows, KnowsUpdate, InHand
<1>5. PICK pc, to : /\ NextDomain(c, names, pc, to)
                    /\ k.op = "remove" => pc = "clear"
                    /\ k.op = "update" => pc = "cache" /\ to = port[k.svc]
  BY <1>1, <1>4 DEF ListDomains
<1>6. PICK j : /\ call' = [call EXCEPT ![c] = j]
               /\ j # Idle => /\ j.op = k.op /\ j.svc = k.svc /\ j.pc = pc /\ j.to = to
                              /\ names = j.left \cup {j.dom}
               /\ j = Idle => names = {}
  BY <1>3, <1>5, NextRecord
<1>7. call'[c] = j /\ j # Idle
  BY <1>3, <1>6 DEF Typed, TypeOK
<1>8. InHand(call[c], d)'
  BY <1>1, <1>3, <1>6, <1>7 DEF InHand
<1>9. Knows(call[c], d)'
  BY <1>1, <1>2, <1>4, <1>5, <1>6, <1>7
     DEF Knows, KnowsAttach, KnowsClear, KnowsUpdate, KnowsRead, Live
<1>10. QED
  BY <1>8, <1>9 DEF Sole

LEMMA SoleSave ==
  ASSUME Typed, NEW c \in Calls, NEW d \in Domains, d \in About(call[c]), Sole(c, d),
         NEW p \in Ports, SavePort(c, p)
  PROVE  Sole(c, d)'
<1> DEFINE k == call[c]
<1>1. /\ k.pc = "save" /\ k.op = "update" /\ k.dom = None /\ k.left = {}
      /\ k.svc \in Services /\ link' = link /\ cached' = cached /\ vhost' = vhost
  <2>1. k # Idle /\ k.pc = "save"
    BY DEF SavePort, At, Idle, Asked
  <2>2. QED
    BY <2>1 DEF Typed, Shaped, CallShaped, SavePort, disk
<1>2. link[d] = k.svc /\ d # k.dom /\ k.svc # None /\ p # NoPort
  BY <1>1, BoundsAssumption DEF About, SavePort, NoPort
<1>3. Good(d) /\ k.up = port[k.svc]
  BY <1>1, <1>2 DEF Sole, Knows, KnowsRead, InHand
<1>4. Live(k.svc)
  BY <1>2, <1>3 DEF Good
<1>5. port'[k.svc] = p
  BY <1>1, <1>4 DEF SavePort, Typed, TypeOK
<1>6. CASE p # k.up
  <2>0. To(c, "list")
    BY <1>4, <1>6 DEF SavePort, To
  <2>1. PICK j : /\ call' = [call EXCEPT ![c] = j]
                 /\ j.svc = k.svc /\ j.dom = k.dom /\ j.op = k.op /\ j.pc = "list"
                 /\ j.left = k.left
    BY <2>0, ToRecord
  <2>2. call'[c] = j
    BY <2>1 DEF Typed, TypeOK
  <2>3. InHand(call[c], d)'
    BY <1>1, <1>2, <2>1, <2>2 DEF InHand
  <2>4. Knows(call[c], d)'
    BY <1>1, <1>2, <1>5, <2>1, <2>2
       DEF Knows, KnowsAttach, KnowsClear, KnowsUpdate, KnowsRead, Live
  <2>5. QED
    BY <2>3, <2>4 DEF Sole
<1>7. CASE p = k.up
  <2>1. Good(d)'
    BY <1>1, <1>2, <1>3, <1>5, <1>7 DEF Good, Want, Live
  <2>2. call'[c] = Idle
    BY <1>7 DEF SavePort, Typed, TypeOK
  <2>3. Knows(call[c], d)'
    BY <2>2 DEF Knows, KnowsAttach, KnowsClear, KnowsUpdate, KnowsRead, InHand,
                Idle, Asked
  <2>4. QED
    BY <2>1, <2>3 DEF Sole
<1>8. QED
  BY <1>6, <1>7

\* A step of a request keeps what it is about as its row says, or in hand.
LEMMA FollowedWork ==
  ASSUME Typed, Typed', Apart, Followed, NEW c \in Calls, Work(c)
  PROVE  Followed'
<1>1. Moved(c)
  BY WorkMoves
<1> SUFFICES ASSUME NEW d \in Domains \ crossed' PROVE Fine(d)'
  BY DEF Followed
<1>2. d \notin crossed /\ Fine(d)
  BY <1>1 DEF Followed, Moved
<1>3. CASE d \notin About(call[c])
  BY <1>1, <1>2, <1>3, FineElse
<1>4. CASE d \in About(call[c])
  <2>1. \A b \in Calls \ {c} : Knows(call[b], d)' /\ ~InHand(call[b], d)
    BY <1>1, <1>2, <1>4, OthersElse
  <2>2. Sole(c, d)
    BY <1>2, <2>1 DEF Fine, Sole
  <2>3. CASE RowStays(c)
    <3>1. call[c].pc = "delete" /\ call[c] # Idle
      BY <2>3 DEF RowStays, At, Idle, Asked
    <3>2. ~InHand(call[c], d)
      <4>1. call[c].dom = None /\ call[c].left = {}
        BY <3>1 DEF Typed, Shaped, CallShaped
      <4>2. QED
        BY <3>1, <4>1, BoundsAssumption DEF InHand
    <3>3. Good(d)'
      BY <2>2, <2>3, <3>2 DEF Sole, Good, Want, Live, RowStays, disk
    <3>4. call'[c] = Idle
      BY <2>3 DEF RowStays, Typed, TypeOK
    <3>5. Knows(call[c], d)'
      BY <3>4 DEF Knows, KnowsAttach, KnowsClear, KnowsUpdate, KnowsRead, InHand,
                  Idle, Asked
    <3>6. QED
      BY <2>1, <3>3, <3>5 DEF Fine
  <2>4. CASE ListNothing(c)
    <3>1. call[c].pc = "list" /\ call[c] # Idle
      BY <2>4 DEF ListNothing, At, Idle, Asked
    <3>2. call[c].dom = None /\ call[c].left = {}
      BY <3>1 DEF Typed, Shaped, CallShaped
    <3>3. d \in AttachedDomainNames(call[c].svc)
      BY <1>4, <3>2, BoundsAssumption DEF About, AttachedDomainNames
    <3>4. QED
      BY <2>4, <3>3 DEF ListNothing, Fails
  <2>5. CASE ~RowStays(c) /\ ~ListNothing(c)
    <3>1. Sole(c, d)'
      BY <1>4, <2>2, <2>5, SoleAttach, SoleRead, SoleApply, SoleClearOrCache, SoleDelete,
         SoleList, SoleSave DEF Work
    <3>2. QED
      BY <2>1, <3>1 DEF Fine, Sole
  <2>6. QED
    BY <2>3, <2>4, <2>5
<1>5. QED
  BY <1>3, <1>4

LEMMA FollowedArrive ==
  ASSUME Typed, Typed', Followed, NEW c \in Calls, NEW k, Fresh(k), Arrive(c, k)
  PROVE  Followed'
<1>1. /\ \A b \in Calls \ {c}, d \in Domains : Share(k, call[b], d) => d \in crossed'
      /\ \A b \in Calls : call'[b] = IF b = c THEN k ELSE call[b]
      /\ UNCHANGED <<port, link, cached, vhost>>
  BY ArriveMeets
<1>2. call[c] = Idle /\ \A d \in Domains : ~InHand(call[c], d)
  BY DEF Arrive, InHand, Idle, Asked
<1>3. \A d \in Domains : Good(d)' <=> Good(d)
  BY <1>1 DEF Good, Want, Live
<1>4. \A d \in Domains : Knows(k, d)
  <2>1. ASSUME NEW s \in Services, NEW d \in Domains, Live(s),
               k = Asked("attach", "stamp", s, d, port[s])
        PROVE  \A e \in Domains : Knows(k, e)
    BY <2>1 DEF Asked, Knows, KnowsAttach, KnowsClear, KnowsUpdate, KnowsRead
  <2>2. ASSUME NEW s \in Services, NEW d,
               \/ k = Asked("detach", "clear", s, d, NoPort)
               \/ k = Asked("remove", "delete", s, d, NoPort)
        PROVE  \A e \in Domains : Knows(k, e)
    BY <2>2 DEF Asked, Knows, KnowsAttach, KnowsClear, KnowsUpdate, KnowsRead
  <2>3. ASSUME NEW s \in Services, k = Asked("update", "save", s, None, port[s])
        PROVE  \A e \in Domains : Knows(k, e)
    BY <2>3, BoundsAssumption
       DEF Asked, Knows, KnowsAttach, KnowsClear, KnowsUpdate, KnowsRead, InHand
  <2>4. ASSUME NEW d \in Domains, k = Asked("issue", "read", None, d, NoPort)
        PROVE  \A e \in Domains : Knows(k, e)
    BY <2>4 DEF Asked, Knows, KnowsAttach, KnowsClear, KnowsUpdate, KnowsRead
  <2>5. QED
    BY <2>1, <2>2, <2>3, <2>4 DEF Fresh
<1>5. \A d \in Domains : Knows(k, d) => Knows(call[c], d)'
  BY <1>1 DEF Knows, KnowsAttach, KnowsClear, KnowsUpdate, KnowsRead, InHand, Want, Live
<1>6. \A b \in Calls \ {c}, d \in Domains :
        Knows(call[b], d) => Knows(call[b], d)'
  BY <1>1 DEF Knows, KnowsAttach, KnowsClear, KnowsUpdate, KnowsRead, InHand, Want, Live
<1>7. \A b \in Calls \ {c}, d \in Domains : InHand(call[b], d) => InHand(call[b], d)'
  BY <1>1 DEF InHand
<1> SUFFICES ASSUME NEW d \in Domains \ crossed' PROVE Fine(d)'
  BY DEF Followed
<1>8. CASE d \notin crossed
  <2>1. Fine(d)
    BY <1>8 DEF Followed
  <2>2. \A b \in Calls : Knows(call[b], d)'
    BY <1>4, <1>5, <1>6, <2>1 DEF Fine
  <2>3. (Good(d) \/ \E b \in Calls : InHand(call[b], d))'
    BY <1>2, <1>3, <1>7, <2>1 DEF Fine
  <2>4. QED
    BY <2>2, <2>3 DEF Fine
<1>9. CASE d \in crossed
  <2>1. d = k.dom /\ k.op \in {"attach", "detach"}
    BY <1>9 DEF Arrive
  <2>2. d \in About(k)
    BY <2>1 DEF About
  <2>3. \A b \in Calls \ {c} : d \notin About(call[b])
    BY <1>1, <2>2 DEF Share
  <2>4. \A b \in Calls : Knows(call[b], d)'
    BY <1>4, <1>5, <1>6, <2>3, KnowsElse
  <2>5. InHand(call[c], d)'
    BY <1>1, <2>1 DEF InHand
  <2>6. QED
    BY <2>4, <2>5 DEF Fine
<1>10. QED
  BY <1>8, <1>9

LEMMA FollowedStop == ASSUME Typed, Followed, Stop PROVE Followed'
<1>1. \A c \in Calls : call'[c] = Idle
  BY DEF Stop
<1>2. UNCHANGED <<port, link, cached, vhost>>
  BY DEF Stop, disk
<1> SUFFICES ASSUME NEW d \in Domains \ crossed' PROVE Fine(d)'
  BY DEF Followed
<1>3. d \notin crossed /\ \A c \in Calls : d \notin About(call[c])
  BY DEF Stop
<1>4. Good(d)
  BY <1>3, KnowsElse DEF Followed, Fine
<1>5. Good(d)'
  BY <1>2, <1>4 DEF Good, Want, Live
<1>6. \A c \in Calls : Knows(call[c], d)'
  BY <1>1 DEF Knows, KnowsAttach, KnowsClear, KnowsUpdate, KnowsRead, InHand, Idle, Asked
<1>7. QED
  BY <1>5, <1>6 DEF Fine

LEMMA FollowedInit == ASSUME Init PROVE Followed
<1>1. \A d \in Domains : Good(d)
  BY DEF Init, Good, Want
<1>2. \A c \in Calls, d \in Domains : Knows(call[c], d)
  BY DEF Init, Knows, KnowsAttach, KnowsClear, KnowsUpdate, KnowsRead, InHand, Idle, Asked
<1>3. QED
  BY <1>1, <1>2 DEF Followed, Fine

-----------------------------------------------------------------------------
(* The theorems                                                            *)

AttachedInv == Typed /\ DeadLinkCovered /\ Apart /\ Followed

LEMMA Inductive == ASSUME AttachedInv, [Next]_vars PROVE AttachedInv'
<1>1. Typed'
  BY TypedStep DEF AttachedInv
<1>2. ASSUME NEW c \in Calls, NEW k, Fresh(k), Arrive(c, k) PROVE AttachedInv'
  BY <1>1, <1>2, DeadLinkArrive, ApartArrive, FollowedArrive DEF AttachedInv
<1>3. ASSUME NEW c \in Calls, Work(c) PROVE AttachedInv'
  BY <1>1, <1>3, DeadLinkWork, ApartMoved, WorkMoves, FollowedWork DEF AttachedInv
<1>4. CASE Stop
  BY <1>1, <1>4, DeadLinkStop, ApartStop, FollowedStop DEF AttachedInv
<1>5. CASE UNCHANGED vars
  <2>1. UNCHANGED <<port, link, cached, vhost, call, calls, stops, crossed, missed>>
    BY <1>5 DEF vars, disk, bounds
  <2>2. DeadLinkCovered'
    BY <2>1 DEF AttachedInv, DeadLinkCovered, At, Live, WillClear, Removes
  <2>3. Apart'
    BY <2>1 DEF AttachedInv, Apart, Share, About
  <2>4. \A d \in Domains : Fine(d) => Fine(d)'
    BY <2>1 DEF Fine, Good, Want, Live, Knows, KnowsAttach, KnowsClear, KnowsUpdate,
                KnowsRead, InHand
  <2>5. Followed'
    BY <2>1, <2>4 DEF AttachedInv, Followed
  <2>6. QED
    BY <1>1, <2>2, <2>3, <2>5 DEF AttachedInv
<1>6. QED
  BY <1>2, <1>3, <1>4, <1>5, NextSplit

LEMMA Invariant == Spec => []AttachedInv
<1>1. Init => AttachedInv
  BY TypeInit, ShapedInit, DeadLinkInit, ApartInit, FollowedInit DEF AttachedInv, Typed
<1>2. AttachedInv /\ [Next]_vars => AttachedInv'
  BY Inductive
<1>3. QED
  BY <1>1, <1>2, PTL DEF Spec

\* However many requests attach, detach, remove, update and issue at once, and
\* whatever of their calls fails: a domain on which no two met, over which no
\* call failed and that none is about has the vhost and the cached port its row
\* calls for, and its service is there.
THEOREM VhostAlwaysFollowsLink == Spec => []VhostFollowsLink
<1>1. AttachedInv => VhostFollowsLink
  <2> SUFFICES ASSUME AttachedInv, NEW d \in Domains \ crossed,
                      \A c \in Calls : d \notin About(call[c])
               PROVE  Good(d)
    BY DEF VhostFollowsLink, Good, Want
  <2>1. Fine(d)
    BY DEF AttachedInv, Followed
  <2>2. \A c \in Calls : ~InHand(call[c], d)
    BY KnowsElse DEF AttachedInv
  <2>3. QED
    BY <2>1, <2>2 DEF Fine
<1>2. QED
  BY <1>1, Invariant, PTL

\* A domain is attached to a removed service only while the removal is under
\* way, or by a link that the removal missed: stamped after the row went, not
\* listed, not cleared, or cut off by a stop.
THEOREM DeadLinksOnlyIfMissed == Spec => []DeadLinkOnlyIfMissed
<1>1. AttachedInv => DeadLinkOnlyIfMissed
  <2> SUFFICES ASSUME AttachedInv, NEW d \in Domains, link[d] # None, ~Live(link[d])
               PROVE  <<d, link[d]>> \in missed \/ \E c \in Calls : Removes(c, link[d])
    BY DEF DeadLinkOnlyIfMissed
  <2>1. <<d, link[d]>> \in missed \/ \E c \in Calls : WillClear(c, d)
    BY DEF AttachedInv, DeadLinkCovered
  <2>2. QED
    BY <2>1 DEF WillClear
<1>2. QED
  BY <1>1, Invariant, PTL
-----------------------------------------------------------------------------
(* Imports: what holds between their steps                                 *)

Steps == {"create", "clone", "build", "port", "unit", "detect", "insert"}
Holding(j) == ex[j].pc \in {"unit", "detect", "insert"}

\* An import's row, goroutine and rows of services, disturbed or not.
Lives(j) ==
  /\ ex[j].pc = "asked" => job[j] = "absent"
  /\ Importing(j) => job[j] \in {"running", "failed"}
  /\ Importing(j) /\ job[j] = "failed" => j \in disturbed
  /\ job[j] = "absent" \/ ex[j].pc = "create" => Nothing(j)
  /\ ex[j].pc \in {"gone", "asked", "create", "clone"} => ex[j].k = 1
  /\ ex[j].pc \in Steps => \A k \in Manifest : k >= ex[j].k => row[j][k] = NoRow
  /\ ex[j].pc \in Steps \ {"create"} => ex[j].slug \in Slugs
  /\ Holding(j) => ex[j].port \in PortRange
  /\ \A k \in Manifest : row[j][k] # NoRow => row[j][k].port \in PortRange

\* What an import leaves that nobody knows to have completed.
LeavesAllOrNothing(j) == RolledBack(j) \/ (j \in unrecorded /\ Everything(j))

\* How far an undisturbed import is.
Progress(j) ==
  /\ ex[j].pc \in Steps \ {"create"} => slugOf[j] # 0 /\ Rows(j) = 1 .. ex[j].k - 1
  /\ ex[j].pc = "removing" => \A x \in ex[j].left : row[j][x.k].slug = x.slug
  /\ ex[j].pc = "failed" => RolledBack(j)
  /\ ex[j].pc = "completed" => Everything(j)
  /\ ex[j].pc = "gone" =>
       /\ job[j] = "completed" => Everything(j)
       /\ job[j] \in {"failed", "running"} => LeavesAllOrNothing(j)

\* Whoever has a port, in a row or in hand, has it alone, or held it together
\* with whoever else has it, or one of the two took it without looking.
PortsApart ==
  /\ PortSharedOnlyUnseen
  /\ \A i, j \in Jobs : \A k \in Manifest :
       Holding(j) /\ row[i][k].port = ex[j].port =>
         {i, j} \subseteq together \/ <<i, k>> \in adrift \/ <<j, ex[j].k>> \in adrift
  /\ \A i, j \in Jobs :
       i # j /\ Holding(i) /\ Holding(j) /\ ex[i].port = ex[j].port =>
         {i, j} \subseteq together \/ <<i, ex[i].k>> \in adrift \/ <<j, ex[j].k>> \in adrift

\* A process listens, or will, on a port.
UnitsPorted ==
  \A s \in Slugs, k \in Manifest : unit[s][k].run # "none" => unit[s][k].port \in PortRange

\* Import j has unit k of slug s: in a row, which a rollback has still to visit,
\* or at hand.
Keeps(j, s, k) ==
  \/ /\ row[j][k].slug = s
     /\ ex[j].pc = "removing" => [k |-> k, slug |-> s] \in ex[j].left
  \/ ex[j].pc \in {"detect", "insert"} /\ ex[j].slug = s /\ ex[j].k = k

\* While nothing interferes, a unit has a row or an import that will give it
\* one.
Quiet == ~spilled /\ disturbed = {}
UnitsOwned ==
  Quiet =>
    \A s \in Slugs, k \in Manifest :
      unit[s][k] # NoUnit => \E j \in Jobs : Keeps(j, s, k)

ImportInv ==
  /\ ImportTypeOK
  /\ op.project \subseteq disturbed
  /\ \A j \in Jobs : Lives(j)
  /\ \A j \in Jobs \ disturbed : Progress(j)
  /\ PortsApart
  /\ UnitsPorted
  /\ UnitsOwned
-----------------------------------------------------------------------------
(* A free slug and a free port                                             *)

LEMMA ImportSizes ==
  /\ Cardinality(Jobs) \in Nat /\ IsFiniteSet(Jobs)
  /\ IsFiniteSet(Slugs) /\ Cardinality(Slugs) = Cardinality(Jobs)
  /\ IsFiniteSet(Manifest) /\ Cardinality(Manifest) = N
  /\ IsFiniteSet(PortRange) /\ Cardinality(PortRange) = 2 * N * Cardinality(Jobs)
  /\ Slugs \subseteq Nat \ {0} /\ Manifest \subseteq Nat \ {0}
  /\ PortRange \subseteq Nat \ {0}
<1>1. Cardinality(Jobs) \in Nat /\ IsFiniteSet(Jobs) /\ N \in Nat \ {0}
  BY ImportAssumption, FS_CardinalityType
<1>2. 2 * N * Cardinality(Jobs) \in Nat
  BY <1>1
<1>3. \A n \in Nat : /\ IsFiniteSet(1 .. n) /\ Cardinality(1 .. n) = n
                    /\ 1 .. n \subseteq Nat \ {0}
  <2> SUFFICES ASSUME NEW n \in Nat
               PROVE  /\ IsFiniteSet(1 .. n) /\ Cardinality(1 .. n) = n
                      /\ 1 .. n \subseteq Nat \ {0}
    OBVIOUS
  <2>1. IsFiniteSet(1 .. n) /\ Cardinality(1 .. n) = IF 1 > n THEN 0 ELSE n - 1 + 1
    BY FS_Interval
  <2>2. QED
    BY <2>1
<1>4. QED
  BY <1>1, <1>2, <1>3 DEF Slugs, Manifest, PortRange

LEMMA LeastNumber ==
  ASSUME NEW T \in SUBSET Nat, T # {}
  PROVE  \E x \in T : \A y \in T : x <= y
<1> DEFINE Less == {r \in Nat \X Nat : r[1] < r[2]}
<1>1. IsWellFoundedOn(Less, Nat)
  BY NatLessThanWellFounded DEF OpToRel
<1>2. PICK x \in T : \A y \in T : ~(<<y, x>> \in Less)
  <2> HIDE DEF Less
  <2> QED
    BY <1>1, WFMin
<1>3. ASSUME NEW y \in T PROVE x <= y
  <2>1. x \in Nat /\ y \in Nat
    OBVIOUS
  <2>2. y < x => <<y, x>> \in Less
    BY <2>1
  <2>3. QED
    BY <1>2, <2>1, <2>2
<1>4. QED
  BY <1>3

\* As many slugs as imports: one that has no project will find one.
LEMMA FreeSlugTyped ==
  ASSUME ImportTypeOK, NEW j \in Jobs, slugOf[j] = 0
  PROVE  FreeSlug \in Slugs
<1> DEFINE Free == {s \in Slugs : \A i \in Jobs : slugOf[i] # s}
<1>1. Free # {}
  <2> SUFFICES ASSUME Free = {} PROVE FALSE
    OBVIOUS
  <2> DEFINE P == {i \in Jobs \ {j} : slugOf[i] # 0}
             f == [i \in P |-> slugOf[i]]
  <2>1. slugOf \in [Jobs -> Slugs \cup {0}]
    BY DEF ImportTypeOK
  <2>2. f \in Surjection(P, Slugs)
    <3>1. \A s \in Slugs : \E i \in P : f[i] = s
      <4> SUFFICES ASSUME NEW s \in Slugs PROVE \E i \in P : f[i] = s
        OBVIOUS
      <4>1. PICK i \in Jobs : slugOf[i] = s
        OBVIOUS
      <4>2. i # j /\ slugOf[i] # 0
        BY <4>1, ImportSizes
      <4>3. QED
        BY <4>1, <4>2
    <3>2. f \in [P -> Slugs]
      BY <2>1
    <3>3. QED
      BY <3>1, <3>2 DEF Surjection
  <2>3. IsFiniteSet(P) /\ Cardinality(P) <= Cardinality(Jobs) - 1
    <3>1. IsFiniteSet(Jobs \ {j}) /\ Cardinality(Jobs \ {j}) = Cardinality(Jobs) - 1
      BY ImportSizes, FS_RemoveElement
    <3>2. P \in SUBSET (Jobs \ {j})
      OBVIOUS
    <3> HIDE DEF P
    <3>3. QED
      BY <3>1, <3>2, FS_Subset
  <2>4. Cardinality(P) \in Nat
    BY <2>3, FS_CardinalityType
  <2> HIDE DEF P, f
  <2>5. Cardinality(Slugs) <= Cardinality(P)
    BY <2>2, <2>3, FS_Surjection
  <2>6. QED
    BY <2>3, <2>4, <2>5, ImportSizes
<1>2. PICK s \in Free : \A t \in Free : s <= t
  BY <1>1, LeastNumber, ImportSizes
<1>3. ASSUME NEW t \in 1 .. s - 1 PROVE \E i \in Jobs : slugOf[i] = t
  <2>1. t \in Slugs /\ ~(s <= t)
    BY ImportSizes DEF Slugs
  <2>2. QED
    BY <1>2, <2>1
<1>4. QED
  BY <1>2, <1>3 DEF FreeSlug

\* As many ports as rows and units, and a service still without its row.
LEMMA FreePort ==
  ASSUME ImportTypeOK, NEW j \in Jobs, NEW k \in Manifest, row[j][k] = NoRow
  PROVE  \E p \in PortRange : ~Taken(p, TRUE)
<1> SUFFICES ASSUME \A p \in PortRange : Taken(p, TRUE) PROVE FALSE
  OBVIOUS
<1> DEFINE C == Cardinality(Jobs)
           Q == (Jobs \X Manifest) \ {<<j, k>>}
           Rec == {p \in PortRange : Recorded(p)}
           Bnd == {p \in PortRange : Bound(p)}
<1>1. /\ IsFiniteSet(Jobs \X Manifest) /\ Cardinality(Jobs \X Manifest) = C * N
      /\ IsFiniteSet(Slugs \X Manifest) /\ Cardinality(Slugs \X Manifest) = C * N
  BY ImportSizes, FS_Product
<1>2. IsFiniteSet(Rec) /\ Cardinality(Rec) \in Nat /\ Cardinality(Rec) <= C * N - 1
  <2> DEFINE P == {x \in Q : row[x[1]][x[2]].port \in Rec}
             f == [x \in P |-> row[x[1]][x[2]].port]
  <2>1. IsFiniteSet(Q) /\ Cardinality(Q) = C * N - 1
    <3>1. <<j, k>> \in Jobs \X Manifest
      OBVIOUS
    <3>2. QED
      BY <1>1, <3>1, FS_RemoveElement
  <2>2. IsFiniteSet(P) /\ Cardinality(P) \in Nat /\ Cardinality(P) <= Cardinality(Q)
    <3>1. P \in SUBSET Q
      OBVIOUS
    <3> HIDE DEF P, Q
    <3>2. QED
      BY <2>1, <3>1, FS_Subset, FS_CardinalityType
  <2>3. f \in Surjection(P, Rec)
    <3>1. ASSUME NEW p \in Rec PROVE \E x \in P : f[x] = p
      <4>1. PICK i \in Jobs, l \in Manifest : row[i][l].port = p
        BY DEF Recorded
      <4>2. <<i, l>> # <<j, k>>
        BY <4>1, ImportSizes DEF NoRow
      <4>3. <<i, l>> \in P
        BY <4>1, <4>2
      <4>4. QED
        BY <4>1, <4>3
    <3>2. f \in [P -> Rec]
      OBVIOUS
    <3>3. QED
      BY <3>1, <3>2 DEF Surjection
  <2>4. IsFiniteSet(Rec) /\ Cardinality(Rec) <= Cardinality(P)
    <3> HIDE DEF P, f, Rec
    <3> QED
      BY <2>2, <2>3, FS_Surjection
  <2>5. Cardinality(Rec) \in Nat
    BY <2>4, FS_CardinalityType
  <2>6. C * N \in Nat
    BY ImportSizes, ImportAssumption
  <2> HIDE DEF P, Q, Rec, f, C
  <2>7. QED
    BY <2>1, <2>2, <2>4, <2>5, <2>6
<1>3. IsFiniteSet(Bnd) /\ Cardinality(Bnd) \in Nat /\ Cardinality(Bnd) <= C * N
  <2> DEFINE P == {x \in Slugs \X Manifest : unit[x[1]][x[2]].port \in Bnd}
             f == [x \in P |-> unit[x[1]][x[2]].port]
  <2>1. IsFiniteSet(P) /\ Cardinality(P) \in Nat /\ Cardinality(P) <= C * N
    <3>1. P \in SUBSET (Slugs \X Manifest)
      OBVIOUS
    <3> HIDE DEF P
    <3>2. QED
      BY <1>1, <3>1, FS_Subset, FS_CardinalityType
  <2>2. f \in Surjection(P, Bnd)
    <3>1. ASSUME NEW p \in Bnd PROVE \E x \in P : f[x] = p
      <4>1. PICK s \in Slugs, l \in Manifest : unit[s][l] = [port |-> p, run |-> "bound"]
        BY DEF Bound
      <4>2. <<s, l>> \in P /\ f[<<s, l>>] = p
        BY <4>1
      <4>3. QED
        BY <4>2
    <3>2. f \in [P -> Bnd]
      OBVIOUS
    <3>3. QED
      BY <3>1, <3>2 DEF Surjection
  <2>3. IsFiniteSet(Bnd) /\ Cardinality(Bnd) <= Cardinality(P)
    <3> HIDE DEF P, f, Bnd
    <3> QED
      BY <2>1, <2>2, FS_Surjection
  <2>4. Cardinality(Bnd) \in Nat
    BY <2>3, FS_CardinalityType
  <2>5. C * N \in Nat
    BY ImportSizes, ImportAssumption
  <2> HIDE DEF P, Bnd, f, C
  <2>6. QED
    BY <2>1, <2>3, <2>4, <2>5
<1>4. PortRange = Rec \cup Bnd
  BY DEF Taken
<1> HIDE DEF Rec, Bnd
<1>5. /\ Cardinality(PortRange) = Cardinality(Rec) + Cardinality(Bnd)
                                 - Cardinality(Rec \cap Bnd)
      /\ Cardinality(Rec \cap Bnd) \in Nat
  <2>1. IsFiniteSet(Rec \cap Bnd)
    BY <1>2, FS_Intersection
  <2>2. QED
    BY <1>2, <1>3, <1>4, <2>1, FS_Union, FS_CardinalityType
<1>6. 2 * N * C = C * N + C * N /\ C * N \in Nat
  BY ImportSizes, ImportAssumption
<1>7. Cardinality(PortRange) = 2 * N * C
  BY ImportSizes
<1> HIDE DEF C
<1>8. QED
  BY <1>2, <1>3, <1>5, <1>6, <1>7

LEMMA LeastFreePort ==
  ASSUME ImportTypeOK, NEW j \in Jobs, NEW k \in Manifest, row[j][k] = NoRow,
         NEW seen \in BOOLEAN, NEW p,
         p = CHOOSE q \in PortRange :
               ~Taken(q, seen) /\ \A r \in 1 .. q - 1 : Taken(r, seen)
  PROVE  p \in PortRange /\ ~Taken(p, seen)
<1> DEFINE Free == {q \in PortRange : ~Taken(q, seen)}
<1>1. Free # {}
  BY FreePort DEF Taken
<1>2. PICK q \in Free : \A r \in Free : q <= r
  BY <1>1, LeastNumber, ImportSizes
<1>3. ASSUME NEW r \in 1 .. q - 1 PROVE Taken(r, seen)
  <2>1. 2 * N * Cardinality(Jobs) \in Nat
    BY ImportSizes, ImportAssumption
  <2>2. r \in PortRange /\ ~(q <= r)
    BY <2>1 DEF PortRange
  <2>3. QED
    BY <1>2, <2>2
<1>4. QED
  BY <1>2, <1>3
-----------------------------------------------------------------------------
(* Types                                                                   *)

ExRow == [pc : Pcs, k : Manifest, port : PortRange \cup {0}, slug : Slugs \cup {0},
          left : ServiceLists]
Listing == [k : Manifest, slug : Slugs \cup {0}]
OpRow == [project : SUBSET Jobs, left : ServiceLists, whole : BOOLEAN]
Cell == [port : PortRange \cup {0}, slug : Slugs \cup {0}]
UnitCell == [port : PortRange \cup {0}, run : {"none", "stopped", "starting", "bound"}]

LEMMA RestTyped ==
  /\ Gone \in ExRow /\ NoRow \in Cell /\ NoUnit \in UnitCell /\ 1 \in Manifest
  /\ NoOp \in OpRow
<1>1. 1 \in Manifest
  BY ImportAssumption DEF Manifest
<1>2. QED
  BY <1>1 DEF Gone, NoRow, NoUnit, NoOp, ExRow, OpRow, Cell, UnitCell, Pcs, ServiceLists

LEMMA ImportTypeInit == ImportInit => ImportTypeOK
<1> SUFFICES ASSUME ImportInit PROVE ImportTypeOK
  OBVIOUS
<1>1. ex \in [Jobs -> ExRow] /\ row \in [Jobs -> [Manifest -> Cell]]
      /\ unit \in [Slugs -> [Manifest -> UnitCell]]
  BY RestTyped DEF ImportInit
<1>2. op \in OpRow
  BY RestTyped DEF ImportInit
<1>3. slugOf \in [Jobs -> Slugs \cup {0}] /\ troubles \in 0 .. MaxTroubles
  BY ImportAssumption DEF ImportInit
<1>4. job \in [Jobs -> {"absent", "running", "completed", "failed"}]
  BY DEF ImportInit
<1>5. QED
  BY <1>1, <1>2, <1>3, <1>4 DEF ImportInit, ImportTypeOK, ExRow, OpRow, Cell, UnitCell

\* An import's goroutine after a step, and those of the others.
LEMMA ExAfter ==
  ASSUME ImportTypeOK, NEW j \in Jobs, NEW e \in ExRow, ex' = [ex EXCEPT ![j] = e]
  PROVE  /\ ex' \in [Jobs -> ExRow] /\ ex'[j] = e
         /\ \A i \in Jobs \ {j} : ex'[i] = ex[i]
BY DEF ImportTypeOK, ExRow

LEMMA GotoAfter ==
  ASSUME ImportTypeOK, NEW j \in Jobs, NEW pc \in Pcs, Goto(j, pc)
  PROVE  /\ ex' \in [Jobs -> ExRow]
         /\ ex'[j].pc = pc /\ ex'[j].k = ex[j].k /\ ex'[j].port = ex[j].port
         /\ ex'[j].slug = ex[j].slug /\ ex'[j].left = ex[j].left
         /\ \A i \in Jobs \ {j} : ex'[i] = ex[i]
<1>1. ex \in [Jobs -> ExRow]
  BY DEF ImportTypeOK, ExRow
<1> DEFINE e == [ex[j] EXCEPT !.pc = pc]
<1>2. /\ e \in ExRow /\ e.pc = pc /\ e.k = ex[j].k /\ e.port = ex[j].port
      /\ e.slug = ex[j].slug /\ e.left = ex[j].left
  BY <1>1 DEF ExRow
<1>3. ex' = [ex EXCEPT ![j] = e]
  BY <1>1 DEF Goto
<1> HIDE DEF e
<1>4. QED
  BY <1>2, <1>3, ExAfter

\* A row of a service, and a unit, after a step.
LEMMA RowAfter ==
  ASSUME ImportTypeOK, NEW j \in Jobs, NEW k \in Manifest, NEW c \in Cell,
         row' = [row EXCEPT ![j][k] = c]
  PROVE  /\ row' \in [Jobs -> [Manifest -> Cell]] /\ row'[j][k] = c
         /\ \A i \in Jobs, l \in Manifest :
              <<i, l>> # <<j, k>> => row'[i][l] = row[i][l]
BY DEF ImportTypeOK, Cell

LEMMA UnitAfter ==
  ASSUME ImportTypeOK, NEW s, NEW k \in Manifest, NEW c \in UnitCell,
         unit' = [unit EXCEPT ![s][k] = c]
  PROVE  /\ unit' \in [Slugs -> [Manifest -> UnitCell]]
         /\ s \in Slugs => unit'[s][k] = c
         /\ \A t \in Slugs, l \in Manifest :
              <<t, l>> # <<s, k>> => unit'[t][l] = unit[t][l]
<1>1. unit \in [Slugs -> [Manifest -> UnitCell]]
  BY DEF ImportTypeOK, UnitCell
<1>2. QED
  BY <1>1

\* A call that is refused is one of the bounded troubles.
LEMMA RefuseTyped ==
  ASSUME ImportTypeOK, NEW a, NEW b, NEW failing \in SUBSET {a, b}, Refuse(failing)
  PROVE  troubles' \in 0 .. MaxTroubles
<1>1. IsFiniteSet({a} \cup {b})
  BY FS_Singleton, FS_AddElement
<1>2. {a, b} = {a} \cup {b}
  OBVIOUS
<1>3. Cardinality(failing) \in Nat
  BY <1>1, <1>2, FS_Subset, FS_CardinalityType
<1>4. PICK n : n = Cardinality(failing)
  OBVIOUS
<1>5. PICK t : t = troubles'
  OBVIOUS
<1>6. t = troubles + n /\ t <= MaxTroubles /\ n \in Nat /\ troubles \in 0 .. MaxTroubles
  BY <1>3, <1>4, <1>5 DEF Refuse, ImportTypeOK
<1>7. t \in 0 .. MaxTroubles
  BY <1>6, ImportAssumption
<1>8. QED
  BY <1>5, <1>7

\* A listed service: what it names, and the list of them.
LEMMA ListedTyped ==
  ASSUME ImportTypeOK, NEW j \in Jobs
  PROVE  Listed(j) \in ServiceLists
BY DEF ImportTypeOK, Listed, Rows, ServiceLists

\* The end of a deletion: what is left of the project failed to be dropped.
LEMMA DropProjectAfter ==
  ASSUME ImportTypeOK, NEW j \in Jobs, DropProject(j)
  PROVE  /\ row' \in [Jobs -> [Manifest -> Cell]]
         /\ slugOf' \in [Jobs -> Slugs \cup {0}]
         /\ kept' \in [Jobs -> SUBSET {"services", "project"}]
         /\ troubles' \in 0 .. MaxTroubles
         /\ slugOf'[j] \in {slugOf[j], 0}
         /\ \A k \in Manifest : row'[j][k] \in {row[j][k], NoRow}
         /\ RolledBack(j)'
         /\ \A i \in Jobs \ {j} :
              slugOf'[i] = slugOf[i] /\ row'[i] = row[i] /\ kept'[i] = kept[i]
<1> DEFINE Cleared == [k \in Manifest |-> NoRow]
<1>1. Cleared \in [Manifest -> Cell]
  BY RestTyped
<1>2. /\ row \in [Jobs -> [Manifest -> Cell]] /\ slugOf \in [Jobs -> Slugs \cup {0}]
      /\ kept \in [Jobs -> SUBSET {"services", "project"}]
  BY DEF ImportTypeOK, Cell
<1>3. PICK refused \in SUBSET {"services", "project"} :
        /\ Refuse(refused)
        /\ row' = IF "services" \in refused THEN row ELSE [row EXCEPT ![j] = Cleared]
        /\ slugOf' = IF "project" \in refused THEN slugOf ELSE [slugOf EXCEPT ![j] = 0]
        /\ kept' = [kept EXCEPT ![j] = @ \cup refused]
  BY DEF DropProject
<1>4. troubles' \in 0 .. MaxTroubles
  BY <1>3, RefuseTyped
<1>5. /\ kept' \in [Jobs -> SUBSET {"services", "project"}] /\ refused \subseteq kept'[j]
      /\ \A i \in Jobs \ {j} : kept'[i] = kept[i]
  BY <1>2, <1>3
<1>6. /\ slugOf' \in [Jobs -> Slugs \cup {0}] /\ slugOf'[j] \in {slugOf[j], 0}
      /\ "project" \notin refused => slugOf'[j] = 0
      /\ \A i \in Jobs \ {j} : slugOf'[i] = slugOf[i]
  BY <1>2, <1>3
<1>7. CASE "services" \in refused
  <2>1. row' = row
    BY <1>3, <1>7
  <2>2. RolledBack(j)'
    BY <1>5, <1>6, <1>7 DEF RolledBack
  <2>3. QED
    BY <1>2, <1>4, <1>5, <1>6, <2>1, <2>2
<1>8. CASE "services" \notin refused
  <2>1. /\ row' \in [Jobs -> [Manifest -> Cell]] /\ row'[j] = Cleared
        /\ \A i \in Jobs \ {j} : row'[i] = row[i]
    BY <1>1, <1>2, <1>3, <1>8
  <2>2. \A k \in Manifest : row'[j][k] = NoRow
    BY <2>1
  <2>3. Rows(j)' = {}
    BY <2>2 DEF Rows
  <2>4. RolledBack(j)'
    BY <1>5, <1>6, <2>3 DEF RolledBack
  <2>5. QED
    BY <1>4, <1>5, <1>6, <2>1, <2>2, <2>4
<1>9. QED
  BY <1>7, <1>8

\* A unit is removed, or the history has it that it was not.
LEMMA StopUnitAfter ==
  ASSUME ImportTypeOK, NEW x \in Listing, NEW refused, StopUnit(x, refused)
  PROVE  /\ unit' \in [Slugs -> [Manifest -> UnitCell]]
         /\ spilled' \in BOOLEAN /\ (spilled => spilled')
         /\ \A t \in Slugs, l \in Manifest : unit'[t][l] \in {unit[t][l], NoUnit}
         /\ \A t \in Slugs, l \in Manifest :
              t = x.slug /\ l = x.k => unit'[t][l] = NoUnit \/ spilled'
<1> DEFINE s == x.slug
           k == x.k
<1>1. k \in Manifest /\ NoUnit \in UnitCell /\ unit \in [Slugs -> [Manifest -> UnitCell]]
  BY RestTyped DEF ImportTypeOK, Listing, UnitCell
<1>2. spilled' = (spilled \/ "unit" \in refused)
  BY DEF StopUnit
<1>3. spilled \in BOOLEAN
  BY DEF ImportTypeOK
<1>4. spilled' \in BOOLEAN /\ (spilled => spilled') /\ ("unit" \in refused => spilled')
  BY <1>2, <1>3
<1>5. CASE "unit" \in refused
  <2>1. unit' = unit
    BY <1>5 DEF StopUnit
  <2>2. QED
    BY <1>1, <1>4, <1>5, <2>1
<1>6. CASE "unit" \notin refused
  <2>1. unit' = [unit EXCEPT ![s][k] = NoUnit]
    BY <1>6 DEF StopUnit
  <2> HIDE DEF s, k
  <2>2. /\ unit' \in [Slugs -> [Manifest -> UnitCell]]
        /\ \A t \in Slugs, l \in Manifest : unit'[t][l] \in {unit[t][l], NoUnit}
        /\ \A t \in Slugs, l \in Manifest : t = s /\ l = k => unit'[t][l] = NoUnit
    BY <1>1, <2>1
  <2>3. QED
    BY <1>4, <2>2 DEF s, k
<1>7. QED
  BY <1>5, <1>6

\* A listed service is removed, as far as no call is refused.
LEMMA RemoveListedAfter ==
  ASSUME ImportTypeOK, NEW j \in Jobs, NEW x \in Listing, RemoveListed(j, x)
  PROVE  /\ unit' \in [Slugs -> [Manifest -> UnitCell]]
         /\ row' \in [Jobs -> [Manifest -> Cell]]
         /\ troubles' \in 0 .. MaxTroubles
         /\ spilled' \in BOOLEAN /\ (spilled => spilled')
         /\ \A t \in Slugs, l \in Manifest : unit'[t][l] \in {unit[t][l], NoUnit}
         /\ \A t \in Slugs, l \in Manifest :
              t = x.slug /\ l = x.k => unit'[t][l] = NoUnit \/ spilled'
         /\ row'[j][x.k] \in {row[j][x.k], NoRow}
         /\ \A i \in Jobs, l \in Manifest :
              <<i, l>> # <<j, x.k>> => row'[i][l] = row[i][l]
<1>1. PICK refused \in SUBSET {"unit", "row"} :
        /\ Refuse(refused) /\ StopUnit(x, refused)
        /\ IF "row" \in refused THEN UNCHANGED row ELSE DropRow(j, x.k)
  BY DEF RemoveListed
<1>2. troubles' \in 0 .. MaxTroubles
  BY <1>1, RefuseTyped
<1>3. x.k \in Manifest /\ row \in [Jobs -> [Manifest -> Cell]] /\ NoRow \in Cell
  BY RestTyped DEF Listing, ImportTypeOK, Cell
<1>4. /\ row' \in [Jobs -> [Manifest -> Cell]]
      /\ row'[j][x.k] \in {row[j][x.k], NoRow}
      /\ \A i \in Jobs, l \in Manifest :
              <<i, l>> # <<j, x.k>> => row'[i][l] = row[i][l]
  <2> DEFINE k == x.k
  <2>1. row' = row \/ row' = [row EXCEPT ![j][k] = NoRow]
    BY <1>1 DEF DropRow
  <2> HIDE DEF k
  <2>2. k \in Manifest
    BY <1>3 DEF k
  <2>3. /\ row' \in [Jobs -> [Manifest -> Cell]]
        /\ row'[j][k] \in {row[j][k], NoRow}
        /\ \A i \in Jobs, l \in Manifest : <<i, l>> # <<j, k>> => row'[i][l] = row[i][l]
    BY <1>3, <2>1, <2>2
  <2>4. QED
    BY <2>3 DEF k
<1>5. /\ unit' \in [Slugs -> [Manifest -> UnitCell]]
      /\ spilled' \in BOOLEAN /\ (spilled => spilled')
      /\ \A t \in Slugs, l \in Manifest : unit'[t][l] \in {unit[t][l], NoUnit}
      /\ \A t \in Slugs, l \in Manifest :
           t = x.slug /\ l = x.k => unit'[t][l] = NoUnit \/ spilled'
  BY <1>1, StopUnitAfter
<1>6. QED
  BY <1>2, <1>4, <1>5

\* A unit is made at a port of its own or the one it was given, and the import
\* goes on to record it, or rolls back.
LEMMA CreateUnitAfter ==
  ASSUME ImportTypeOK, NEW j \in Jobs, ex[j].port \in PortRange, CreateUnit(j)
  PROVE  /\ ex' \in [Jobs -> ExRow] /\ \A i \in Jobs \ {j} : ex'[i] = ex[i]
         /\ ex'[j].k = ex[j].k /\ ex'[j].port = ex[j].port /\ ex'[j].slug = ex[j].slug
         /\ \/ ex'[j].pc \in {"detect", "insert"}
            \/ ex'[j].pc = "rollback" /\ (spilled' \/ unit' = unit)
         /\ unit' \in [Slugs -> [Manifest -> UnitCell]]
         /\ \A t \in Slugs, l \in Manifest :
              unit'[t][l] = unit[t][l] \/ unit'[t][l].port \in PortRange
         /\ \A t \in Slugs, l \in Manifest :
              <<t, l>> # <<ex[j].slug, ex[j].k>> => unit'[t][l] = unit[t][l]
         /\ spilled' \in BOOLEAN /\ (spilled => spilled')
         /\ troubles' \in 0 .. MaxTroubles
<1> DEFINE s == ex[j].slug
           k == ex[j].k
           p == IF OwnPort[k] = 0 THEN ex[j].port ELSE OwnPort[k]
           Put(run) == unit' = [unit EXCEPT ![s][k] = [port |-> p, run |-> run]]
           Made == Put("starting") \/ Put("stopped")
<1>1. ex \in [Jobs -> ExRow] /\ unit \in [Slugs -> [Manifest -> UnitCell]]
      /\ spilled \in BOOLEAN /\ troubles \in 0 .. MaxTroubles
  BY DEF ImportTypeOK, ExRow, UnitCell
<1>2. k \in Manifest
  BY <1>1 DEF ExRow
<1>3. p \in PortRange
  BY <1>2, OwnPortAssumption
<1>4. /\ \/ Goto(j, "detect") \/ Goto(j, "insert")
         \/ Goto(j, "rollback") /\ (spilled' = TRUE \/ unit' = unit)
      /\ Made \/ unit' = unit
      /\ spilled' = spilled \/ spilled' = TRUE
      /\ troubles' = troubles \/ Refuse({"stop"})
  BY DEF CreateUnit
<1>5. /\ ex' \in [Jobs -> ExRow] /\ \A i \in Jobs \ {j} : ex'[i] = ex[i]
      /\ ex'[j].k = ex[j].k /\ ex'[j].port = ex[j].port /\ ex'[j].slug = ex[j].slug
      /\ \/ ex'[j].pc \in {"detect", "insert"}
         \/ ex'[j].pc = "rollback" /\ (spilled' \/ unit' = unit)
  <2>1. CASE Goto(j, "detect")
    BY <2>1, GotoAfter DEF Pcs
  <2>2. CASE Goto(j, "insert")
    BY <2>2, GotoAfter DEF Pcs
  <2>3. CASE Goto(j, "rollback") /\ (spilled' = TRUE \/ unit' = unit)
    BY <2>3, GotoAfter DEF Pcs
  <2>4. QED
    BY <1>4, <2>1, <2>2, <2>3
<1>6. troubles' \in 0 .. MaxTroubles
  <2>1. {"stop"} \in SUBSET {"stop", "stop"}
    OBVIOUS
  <2>2. QED
    BY <1>1, <1>4, <2>1, RefuseTyped
<1>7. /\ unit' \in [Slugs -> [Manifest -> UnitCell]]
      /\ \A t \in Slugs, l \in Manifest :
           unit'[t][l] = unit[t][l] \/ unit'[t][l].port \in PortRange
      /\ \A t \in Slugs, l \in Manifest :
           <<t, l>> # <<s, k>> => unit'[t][l] = unit[t][l]
  <2>1. CASE unit' = unit
    BY <1>1, <2>1
  <2>2. ASSUME NEW run \in {"starting", "stopped"}, Put(run)
        PROVE  /\ unit' \in [Slugs -> [Manifest -> UnitCell]]
               /\ \A t \in Slugs, l \in Manifest :
                    unit'[t][l] = unit[t][l] \/ unit'[t][l].port \in PortRange
               /\ \A t \in Slugs, l \in Manifest :
                    <<t, l>> # <<s, k>> => unit'[t][l] = unit[t][l]
    <3> DEFINE c == [port |-> p, run |-> run]
    <3>1. c \in UnitCell /\ c.port \in PortRange
      BY <1>3 DEF UnitCell
    <3>2. unit' = [unit EXCEPT ![s][k] = c]
      BY <2>2
    <3> HIDE DEF s, k, p, c
    <3>3. QED
      BY <1>1, <1>2, <3>1, <3>2
  <2>3. QED
    BY <1>4, <2>1, <2>2
<1>8. spilled' \in BOOLEAN /\ (spilled => spilled')
  <2>1. spilled \in BOOLEAN
    BY <1>1
  <2>2. spilled' = spilled \/ spilled' = TRUE
    BY <1>4
  <2>3. QED
    BY <2>1, <2>2
<1>9. QED
  BY <1>5, <1>6, <1>7, <1>8

\* The goroutine after a step that changes more of it than where it is.
LEMMA CreateAfter ==
  ASSUME ImportTypeOK, NEW j \in Jobs, NEW s \in Slugs,
         ex' = [ex EXCEPT ![j].pc = "clone", ![j].slug = s]
  PROVE  /\ ex' \in [Jobs -> ExRow]
         /\ ex'[j].pc = "clone" /\ ex'[j].k = ex[j].k /\ ex'[j].slug = s
         /\ \A i \in Jobs \ {j} : ex'[i] = ex[i]
<1>1. ex \in [Jobs -> ExRow]
  BY DEF ImportTypeOK, ExRow
<1> DEFINE e == [ex[j] EXCEPT !.pc = "clone", !.slug = s]
<1>2. e \in ExRow /\ e.pc = "clone" /\ e.k = ex[j].k /\ e.slug = s
  BY <1>1 DEF ExRow, Pcs
<1>3. ex' = [ex EXCEPT ![j] = e]
  BY <1>1
<1> HIDE DEF e
<1>4. QED
  BY <1>2, <1>3, ExAfter

LEMMA AllocateAfter ==
  ASSUME ImportTypeOK, NEW j \in Jobs, NEW p \in PortRange,
         ex' = [ex EXCEPT ![j].pc = "unit", ![j].port = p]
  PROVE  /\ ex' \in [Jobs -> ExRow]
         /\ ex'[j].pc = "unit" /\ ex'[j].k = ex[j].k /\ ex'[j].port = p
         /\ ex'[j].slug = ex[j].slug
         /\ \A i \in Jobs \ {j} : ex'[i] = ex[i]
<1>1. ex \in [Jobs -> ExRow]
  BY DEF ImportTypeOK, ExRow
<1> DEFINE e == [ex[j] EXCEPT !.pc = "unit", !.port = p]
<1>2. e \in ExRow /\ e.pc = "unit" /\ e.k = ex[j].k /\ e.port = p /\ e.slug = ex[j].slug
  BY <1>1 DEF ExRow, Pcs
<1>3. ex' = [ex EXCEPT ![j] = e]
  BY <1>1
<1> HIDE DEF e
<1>4. QED
  BY <1>2, <1>3, ExAfter

LEMMA DetectOwnAfter ==
  ASSUME ImportTypeOK, NEW j \in Jobs, NEW p \in PortRange,
         ex' = [ex EXCEPT ![j].pc = "insert", ![j].port = p]
  PROVE  /\ ex' \in [Jobs -> ExRow]
         /\ ex'[j].pc = "insert" /\ ex'[j].k = ex[j].k /\ ex'[j].port = p
         /\ ex'[j].slug = ex[j].slug
         /\ \A i \in Jobs \ {j} : ex'[i] = ex[i]
<1>1. ex \in [Jobs -> ExRow]
  BY DEF ImportTypeOK, ExRow
<1> DEFINE e == [ex[j] EXCEPT !.pc = "insert", !.port = p]
<1>2. e \in ExRow /\ e.pc = "insert" /\ e.k = ex[j].k /\ e.port = p /\ e.slug = ex[j].slug
  BY <1>1 DEF ExRow, Pcs
<1>3. ex' = [ex EXCEPT ![j] = e]
  BY <1>1
<1> HIDE DEF e
<1>4. QED
  BY <1>2, <1>3, ExAfter

LEMMA InsertAfter ==
  ASSUME ImportTypeOK, NEW j \in Jobs, InsertService(j)
  PROVE  /\ ex' \in [Jobs -> ExRow]
         /\ ex'[j].slug = ex[j].slug
         /\ \/ ex[j].k < N /\ ex'[j].pc = "build" /\ ex'[j].k = ex[j].k + 1
            \/ ex[j].k = N /\ ex'[j].pc = "completed"
         /\ \A i \in Jobs \ {j} : ex'[i] = ex[i]
         /\ row' \in [Jobs -> [Manifest -> Cell]]
         /\ row'[j][ex[j].k] = [port |-> ex[j].port, slug |-> ex[j].slug]
         /\ \A i \in Jobs, l \in Manifest :
              <<i, l>> # <<j, ex[j].k>> => row'[i][l] = row[i][l]
<1> DEFINE pc == IF ex[j].k < N THEN "build" ELSE "completed"
           k == IF ex[j].k < N THEN ex[j].k + 1 ELSE ex[j].k
           e == [ex[j] EXCEPT !.pc = pc, !.k = k, !.port = 0]
<1>1. ex \in [Jobs -> ExRow]
  BY DEF ImportTypeOK, ExRow
<1>2. pc \in Pcs /\ k \in Manifest
  BY <1>1, ImportAssumption DEF Pcs, Manifest, ExRow
<1>3. e \in ExRow /\ e.pc = pc /\ e.k = k /\ e.slug = ex[j].slug
  <2> HIDE DEF pc, k
  <2> QED
    BY <1>1, <1>2 DEF ExRow
<1>4. ex' = [ex EXCEPT ![j] = e]
  BY <1>1 DEF InsertService
<1>5. ex[j].k \in Manifest /\ [port |-> ex[j].port, slug |-> ex[j].slug] \in Cell
  BY <1>1 DEF ExRow, Cell
<1>6. /\ row' \in [Jobs -> [Manifest -> Cell]]
      /\ row'[j][ex[j].k] = [port |-> ex[j].port, slug |-> ex[j].slug]
      /\ \A i \in Jobs, l \in Manifest :
              <<i, l>> # <<j, ex[j].k>> => row'[i][l] = row[i][l]
  <2> DEFINE l == ex[j].k
             c == [port |-> ex[j].port, slug |-> ex[j].slug]
  <2>1. row' = [row EXCEPT ![j][l] = c] /\ l \in Manifest /\ c \in Cell
    BY <1>5 DEF InsertService
  <2> HIDE DEF l, c
  <2>2. /\ row' \in [Jobs -> [Manifest -> Cell]] /\ row'[j][l] = c
        /\ \A i \in Jobs, m \in Manifest :
              <<i, m>> # <<j, l>> => row'[i][m] = row[i][m]
    BY <2>1 DEF ImportTypeOK, Cell
  <2>3. QED
    BY <2>2 DEF l, c
<1>7. ex' \in [Jobs -> ExRow] /\ ex'[j] = e /\ \A i \in Jobs \ {j} : ex'[i] = ex[i]
  <2> HIDE DEF e
  <2> QED
    BY <1>3, <1>4, ExAfter
<1>8. \/ ex[j].k < N /\ ex'[j].pc = "build" /\ ex'[j].k = ex[j].k + 1
      \/ ex[j].k = N /\ ex'[j].pc = "completed"
  <2>1. ex'[j].pc = pc /\ ex'[j].k = k
    BY <1>3, <1>7
  <2>2. ex[j].k < N \/ ex[j].k = N
    BY <1>5, ImportAssumption DEF Manifest
  <2>3. QED
    BY <2>1, <2>2, ImportAssumption
<1>9. ex'[j].slug = ex[j].slug
  BY <1>3, <1>7
<1>10. QED
  BY <1>6, <1>7, <1>8, <1>9

\* The services a rollback has left.
LEMMA RemovingAfter ==
  ASSUME ImportTypeOK, NEW j \in Jobs, NEW left \in ServiceLists,
         ex' = [ex EXCEPT ![j].pc = "removing", ![j].left = left]
  PROVE  /\ ex' \in [Jobs -> ExRow]
         /\ ex'[j].pc = "removing" /\ ex'[j].left = left
         /\ \A i \in Jobs \ {j} : ex'[i] = ex[i]
<1>1. ex \in [Jobs -> ExRow]
  BY DEF ImportTypeOK, ExRow
<1> DEFINE e == [ex[j] EXCEPT !.pc = "removing", !.left = left]
<1>2. e \in ExRow /\ e.pc = "removing" /\ e.left = left
  BY <1>1 DEF ExRow, Pcs
<1>3. ex' = [ex EXCEPT ![j] = e]
  BY <1>1
<1> HIDE DEF e
<1>4. QED
  BY <1>2, <1>3, ExAfter

LEMMA LeftAfter ==
  ASSUME ImportTypeOK, NEW j \in Jobs, NEW left \in ServiceLists,
         ex' = [ex EXCEPT ![j].left = left]
  PROVE  /\ ex' \in [Jobs -> ExRow]
         /\ ex'[j].pc = ex[j].pc /\ ex'[j].left = left
         /\ \A i \in Jobs \ {j} : ex'[i] = ex[i]
<1>1. ex \in [Jobs -> ExRow]
  BY DEF ImportTypeOK, ExRow
<1> DEFINE e == [ex[j] EXCEPT !.left = left]
<1>2. e \in ExRow /\ e.pc = ex[j].pc /\ e.left = left
  BY <1>1 DEF ExRow
<1>3. ex' = [ex EXCEPT ![j] = e]
  BY <1>1
<1> HIDE DEF e
<1>4. QED
  BY <1>2, <1>3, ExAfter
-----------------------------------------------------------------------------
(* One step of an import                                                   *)

\* What a step of j leaves as it is.
Alone(j) ==
  /\ UNCHANGED <<op, env, disturbed>> /\ (spilled => spilled')
  /\ together \subseteq together' /\ adrift \subseteq adrift'
  /\ unrecorded \subseteq unrecorded'
  /\ \A i \in Jobs \ {j} :
       /\ ex'[i] = ex[i] /\ job'[i] = job[i] /\ slugOf'[i] = slugOf[i] /\ kept'[i] = kept[i]
       /\ \A k \in Manifest : row'[i][k] = row[i][k]

Sound(j) == Lives(j) /\ (j \notin disturbed => Progress(j))

LEMMA Unpacked ==
  ASSUME ImportTypeOK
  PROVE  /\ ex \in [Jobs -> ExRow] /\ row \in [Jobs -> [Manifest -> Cell]]
         /\ unit \in [Slugs -> [Manifest -> UnitCell]]
         /\ job \in [Jobs -> {"absent", "running", "completed", "failed"}]
         /\ slugOf \in [Jobs -> Slugs \cup {0}]
         /\ kept \in [Jobs -> SUBSET {"services", "project"}] /\ spilled \in BOOLEAN
BY DEF ImportTypeOK, ExRow, Cell, UnitCell

LEMMA OneStep ==
  ASSUME ImportTypeOK, UnitsPorted, NEW j \in Jobs, Sound(j), Import(j)
  PROVE  ImportTypeOK' /\ Alone(j) /\ Sound(j)'
<1> DEFINE E == [Jobs -> ExRow]
           R == [Jobs -> [Manifest -> Cell]]
           U == [Slugs -> [Manifest -> UnitCell]]
           J == [Jobs -> {"absent", "running", "completed", "failed"}]
           S == [Jobs -> Slugs \cup {0}]
           K == [Jobs -> SUBSET {"services", "project"}]
<1>0. /\ ex \in E /\ row \in R /\ unit \in U /\ job \in J /\ slugOf \in S
      /\ kept \in K /\ spilled \in BOOLEAN /\ 1 \in Manifest
  BY Unpacked, RestTyped
<1>1. CASE CountRunning(j)
  <2>1. /\ ex' \in E /\ (ex'[j].pc = "asked") /\ ex'[j].k = ex[j].k
       /\ ex'[j].port = ex[j].port /\ ex'[j].slug = ex[j].slug
       /\ \A i \in Jobs \ {j} : ex'[i] = ex[i]
    BY <1>1, GotoAfter DEF CountRunning, Goto, Pcs
  <2>2. Alone(j)
    BY <1>1, <2>1 DEF Alone, env, importHistory, CountRunning
  <2>3. ImportTypeOK'
    BY <1>0, <1>1, <2>1
    DEF ImportTypeOK, ExRow, Cell, UnitCell, env, importHistory, CountRunning
  <2>4. Sound(j)'
    BY <1>0, <1>1, <2>1
    DEF CountRunning, AtPc, importHistory, Sound, Lives, Progress, Steps, Importing,
        Holding, Rows, Nothing, RolledBack,
        LeavesAllOrNothing, Everything
  <2>5. QED
    BY <2>2, <2>3, <2>4
<1>2. CASE CountFails(j)
  <2>1. /\ ex' \in E /\ (ex'[j].pc = "asked") /\ ex'[j].k = ex[j].k
       /\ ex'[j].port = ex[j].port /\ ex'[j].slug = ex[j].slug
       /\ \A i \in Jobs \ {j} : ex'[i] = ex[i]
    BY <1>2, GotoAfter DEF CountFails, Goto, Pcs
  <2>2. Alone(j)
    BY <1>2, <2>1 DEF Alone, env, importHistory, CountFails
  <2>3. ImportTypeOK'
    BY <1>0, <1>2, <2>1 DEF ImportTypeOK, ExRow, Cell, UnitCell, env, importHistory, CountFails
  <2>4. Sound(j)'
    BY <1>0, <1>2, <2>1
    DEF CountFails, AtPc, importHistory, Sound, Lives, Progress, Steps, Importing,
        Holding, Rows, Nothing, RolledBack,
        LeavesAllOrNothing, Everything
  <2>5. QED
    BY <2>2, <2>3, <2>4
<1>3. CASE InsertJob(j)
  <2>1. /\ ex' \in E /\ (ex'[j].pc = "create") /\ ex'[j].k = ex[j].k
       /\ ex'[j].port = ex[j].port /\ ex'[j].slug = ex[j].slug
       /\ \A i \in Jobs \ {j} : ex'[i] = ex[i]
    BY <1>3, GotoAfter DEF InsertJob, Goto, Pcs
  <2>2. job' \in J /\ job'[j] = "running" /\ \A i \in Jobs \ {j} : job'[i] = job[i]
    BY <1>0, <1>3 DEF InsertJob
  <2>3. Alone(j)
    BY <1>3, <2>1, <2>2 DEF Alone, env, importHistory, InsertJob
  <2>4. ImportTypeOK'
    BY <1>0, <1>3, <2>1, <2>2
    DEF ImportTypeOK, ExRow, Cell, UnitCell, env, importHistory, InsertJob
  <2>5. Sound(j)'
    BY <1>0, <1>3, <2>1, <2>2
    DEF InsertJob, AtPc, importHistory, Sound, Lives, Progress, Steps, Importing, Holding,
        Rows, Nothing, RolledBack,
        LeavesAllOrNothing, Everything
  <2>6. QED
    BY <2>3, <2>4, <2>5
<1>4. CASE CreateProject(j)
  <2>1. slugOf[j] = 0
    BY <1>4 DEF CreateProject, AtPc, Sound, Lives, Nothing
  <2>2. FreeSlug \in Slugs
    BY <2>1, FreeSlugTyped
  <2>3. /\ ex' \in E /\ ex'[j].k = ex[j].k
        /\ \A i \in Jobs \ {j} : ex'[i] = ex[i] /\ slugOf'[i] = slugOf[i]
        /\ slugOf' \in S
        /\ \/ ex'[j].pc = "clone" /\ slugOf'[j] \in Slugs /\ ex'[j].slug \in Slugs
           \/ ex'[j].pc = "failed" /\ slugOf'[j] = slugOf[j]
    <3>1. CASE /\ slugOf' = [slugOf EXCEPT ![j] = FreeSlug]
               /\ ex' = [ex EXCEPT ![j].pc = "clone", ![j].slug = FreeSlug]
      BY <1>0, <2>2, <3>1, CreateAfter
    <3>2. CASE UNCHANGED slugOf /\ Goto(j, "failed")
      BY <1>0, <3>2, GotoAfter DEF Pcs
    <3>3. QED
      BY <1>4, <3>1, <3>2 DEF CreateProject
  <2>4. Alone(j)
    BY <1>4, <2>3 DEF Alone, env, importHistory, CreateProject
  <2>5. ImportTypeOK'
    BY <1>0, <1>4, <2>3
    DEF ImportTypeOK, ExRow, Cell, UnitCell, env, importHistory, CreateProject
  <2>6. Sound(j)'
    <3>1. 0 \notin Slugs
      BY ImportSizes
    <3>2. QED
      BY <1>0, <1>4, <2>1, <2>3, <3>1
      DEF CreateProject, AtPc, importHistory, Sound, Lives, Progress, Steps, Importing,
          Holding, Rows, Nothing, RolledBack,
        LeavesAllOrNothing, Everything, Manifest
  <2>7. QED
    BY <2>4, <2>5, <2>6
<1>5. CASE CloneRepo(j)
  <2>1. /\ ex' \in E /\ (ex'[j].pc = "build" \/ ex'[j].pc = "rollback") /\ ex'[j].k = ex[j].k
       /\ ex'[j].port = ex[j].port /\ ex'[j].slug = ex[j].slug
       /\ \A i \in Jobs \ {j} : ex'[i] = ex[i]
    BY <1>5, GotoAfter DEF CloneRepo, Goto, Pcs
  <2>2. Alone(j)
    BY <1>5, <2>1 DEF Alone, env, importHistory, CloneRepo
  <2>3. ImportTypeOK'
    BY <1>0, <1>5, <2>1 DEF ImportTypeOK, ExRow, Cell, UnitCell, env, importHistory, CloneRepo
  <2>4. Sound(j)'
    BY <1>0, <1>5, <2>1
    DEF CloneRepo, AtPc, importHistory, Sound, Lives, Progress, Steps, Importing, Holding,
        Rows, Nothing, RolledBack,
        LeavesAllOrNothing, Everything
  <2>5. QED
    BY <2>2, <2>3, <2>4
<1>6. CASE Build(j)
  <2>1. /\ ex' \in E /\ (ex'[j].pc = "port" \/ ex'[j].pc = "rollback") /\ ex'[j].k = ex[j].k
       /\ ex'[j].port = ex[j].port /\ ex'[j].slug = ex[j].slug
       /\ \A i \in Jobs \ {j} : ex'[i] = ex[i]
    BY <1>6, GotoAfter DEF Build, Goto, Pcs
  <2>2. Alone(j)
    BY <1>6, <2>1 DEF Alone, env, importHistory, Build
  <2>3. ImportTypeOK'
    BY <1>0, <1>6, <2>1 DEF ImportTypeOK, ExRow, Cell, UnitCell, env, importHistory, Build
  <2>4. Sound(j)'
    BY <1>0, <1>6, <2>1
    DEF Build, AtPc, importHistory, Sound, Lives, Progress, Steps, Importing, Holding,
        Rows, Nothing, RolledBack,
        LeavesAllOrNothing, Everything
  <2>5. QED
    BY <2>2, <2>3, <2>4
<1>7. CASE AllocatePort(j)
  <2>1. PICK refused \in SUBSET {"rows"} :
          LET seen == refused = {}
              p == CHOOSE q \in PortRange :
                     ~Taken(q, seen) /\ \A r \in 1 .. q - 1 : Taken(r, seen) IN
          /\ Refuse(refused)
          /\ ex' = [ex EXCEPT ![j].pc = "unit", ![j].port = p]
          /\ together' = together \cup
               (IF \E k \in Jobs \ {j} : Holds(k, p)
                THEN {k \in Jobs : k = j \/ Holds(k, p)} ELSE {})
          /\ adrift' = IF seen THEN adrift ELSE adrift \cup {<<j, ex[j].k>>}
    BY <1>7 DEF AllocatePort
  <2> DEFINE seen == refused = {}
             p == CHOOSE q \in PortRange :
                    ~Taken(q, seen) /\ \A r \in 1 .. q - 1 : Taken(r, seen)
  <2>2. ex[j].k \in Manifest /\ row[j][ex[j].k] = NoRow
    BY <1>0, <1>7 DEF AllocatePort, AtPc, Sound, Lives, Steps, ExRow, Manifest
  <2>3. p \in PortRange
    <3> HIDE DEF seen
    <3>1. seen \in BOOLEAN
      BY DEF seen
    <3>2. QED
      BY <2>2, <3>1, LeastFreePort
  <2>4. ex' = [ex EXCEPT ![j].pc = "unit", ![j].port = p]
    BY <2>1
  <2>5. /\ together \subseteq together' /\ together' \subseteq together \cup Jobs
        /\ adrift \subseteq adrift' /\ adrift' \subseteq adrift \cup {<<j, ex[j].k>>}
    BY <2>1
  <2>6. troubles' \in 0 .. MaxTroubles
    <3>1. refused \in SUBSET {"rows", "rows"} /\ Refuse(refused)
      BY <2>1
    <3>2. QED
      BY <3>1, RefuseTyped
  <2> HIDE DEF p, seen
  <2>7. /\ ex' \in E /\ ex'[j].pc = "unit" /\ ex'[j].k = ex[j].k /\ ex'[j].port \in PortRange
        /\ ex'[j].slug = ex[j].slug /\ \A i \in Jobs \ {j} : ex'[i] = ex[i]
    BY <2>3, <2>4, AllocateAfter
  <2>8. UNCHANGED <<job, slugOf, row, unit, op, env, spilled, kept, unrecorded, disturbed>>
    BY <1>7 DEF AllocatePort
  <2>9. Alone(j)
    BY <2>5, <2>7, <2>8 DEF Alone, env
  <2>10. ImportTypeOK'
    BY <1>0, <2>2, <2>5, <2>6, <2>7, <2>8 DEF ImportTypeOK, ExRow, Cell, UnitCell, env
  <2>11. Sound(j)'
    <3>1. ex[j].pc = "port"
      BY <1>7 DEF AllocatePort, AtPc
    <3>2. QED
      BY <1>0, <2>7, <2>8, <3>1
      DEF Sound, Lives, Progress, Steps, Importing, Holding, Rows, Nothing, RolledBack,
          LeavesAllOrNothing, Everything
  <2>12. QED
    BY <2>9, <2>10, <2>11
<1>8. CASE CreateUnit(j)
  <2>1. ex[j].pc = "unit" /\ ex[j].port \in PortRange
    BY <1>8 DEF CreateUnit, AtPc, Sound, Lives, Holding
  <2>2. /\ ex' \in E /\ \A i \in Jobs \ {j} : ex'[i] = ex[i]
        /\ ex'[j].k = ex[j].k /\ ex'[j].port = ex[j].port /\ ex'[j].slug = ex[j].slug
        /\ ex'[j].pc \in {"detect", "insert", "rollback"}
        /\ unit' \in U /\ spilled' \in BOOLEAN /\ (spilled => spilled')
        /\ troubles' \in 0 .. MaxTroubles
    BY <1>8, <2>1, CreateUnitAfter
  <2>3. UNCHANGED <<job, slugOf, row, op, env, together, adrift, kept, unrecorded, disturbed>>
    BY <1>8 DEF CreateUnit
  <2>4. Alone(j)
    BY <2>2, <2>3 DEF Alone, env
  <2>5. ImportTypeOK'
    BY <1>0, <2>2, <2>3 DEF ImportTypeOK, ExRow, Cell, UnitCell, env
  <2>6. Sound(j)'
    BY <1>0, <2>1, <2>2, <2>3
    DEF Sound, Lives, Progress, Steps, Importing, Holding, Rows, Nothing, RolledBack,
          LeavesAllOrNothing, Everything
  <2>7. QED
    BY <2>4, <2>5, <2>6
<1>9. CASE DetectPort(j)
  <2>1. /\ ex' \in E /\ (ex'[j].pc = "insert") /\ ex'[j].k = ex[j].k
       /\ ex'[j].port = ex[j].port /\ ex'[j].slug = ex[j].slug
       /\ \A i \in Jobs \ {j} : ex'[i] = ex[i]
    BY <1>9, GotoAfter DEF DetectPort, Goto, Pcs
  <2>2. Alone(j)
    BY <1>9, <2>1 DEF Alone, env, importHistory, DetectPort
  <2>3. ImportTypeOK'
    BY <1>0, <1>9, <2>1 DEF ImportTypeOK, ExRow, Cell, UnitCell, env, importHistory, DetectPort
  <2>4. Sound(j)'
    BY <1>0, <1>9, <2>1
    DEF DetectPort, AtPc, importHistory, Sound, Lives, Progress, Steps, Importing,
        Holding, Rows, Nothing, RolledBack,
        LeavesAllOrNothing, Everything
  <2>5. QED
    BY <2>2, <2>3, <2>4
<1>10. CASE DetectTimesOut(j)
  <2>1. /\ ex' \in E /\ ex'[j].pc = "rollback" /\ ex'[j].k = ex[j].k
        /\ ex'[j].port = ex[j].port /\ ex'[j].slug = ex[j].slug
        /\ \A i \in Jobs \ {j} : ex'[i] = ex[i]
    BY <1>10, GotoAfter DEF DetectTimesOut, Pcs
  <2>2. PICK refused \in SUBSET {"look", "unit"} :
          Refuse(refused) /\ StopUnit([k |-> ex[j].k, slug |-> ex[j].slug], refused)
    BY <1>10 DEF DetectTimesOut
  <2>3. [k |-> ex[j].k, slug |-> ex[j].slug] \in Listing
    BY <1>0 DEF ExRow, Listing
  <2>4. unit' \in U /\ spilled' \in BOOLEAN /\ (spilled => spilled')
    BY <2>2, <2>3, StopUnitAfter
  <2>5. troubles' \in 0 .. MaxTroubles
    BY <2>2, RefuseTyped
  <2>6. /\ UNCHANGED <<job, slugOf, row, op, env, together, adrift, kept, unrecorded, disturbed>>
        /\ ex[j].pc = "detect"
    BY <1>10 DEF DetectTimesOut, AtPc
  <2>7. Alone(j)
    BY <2>1, <2>4, <2>6 DEF Alone, env
  <2>8. ImportTypeOK'
    BY <1>0, <2>1, <2>4, <2>5, <2>6 DEF ImportTypeOK, ExRow, Cell, UnitCell, env
  <2>9. Sound(j)'
    BY <1>0, <2>1, <2>6
    DEF Sound, Lives, Progress, Steps, Importing, Holding, Rows, Nothing, RolledBack,
          LeavesAllOrNothing, Everything
  <2>10. QED
    BY <2>7, <2>8, <2>9
<1>11. CASE InsertService(j)
  <2> DEFINE k == ex[j].k
  <2>1. /\ ex' \in E /\ ex'[j].slug = ex[j].slug /\ \A i \in Jobs \ {j} : ex'[i] = ex[i]
        /\ \/ k < N /\ ex'[j].pc = "build" /\ ex'[j].k = k + 1
           \/ k = N /\ ex'[j].pc = "completed"
    BY <1>11, InsertAfter
  <2>2. /\ row' \in R /\ row'[j][k] = [port |-> ex[j].port, slug |-> ex[j].slug]
        /\ \A i \in Jobs, l \in Manifest : <<i, l>> # <<j, k>> => row'[i][l] = row[i][l]
    BY <1>11, InsertAfter
  <2>3. UNCHANGED <<job, slugOf, unit, op, env, troubles, importHistory>>
    BY <1>11 DEF InsertService
  <2>4. k \in Manifest /\ ex[j].pc = "insert"
    BY <1>0, <1>11 DEF InsertService, AtPc, ExRow
  <2> HIDE DEF k
  <2>5. Alone(j)
    BY <2>1, <2>2, <2>3 DEF Alone, env, importHistory
  <2>6. ImportTypeOK'
    BY <1>0, <2>1, <2>2, <2>3 DEF ImportTypeOK, ExRow, Cell, UnitCell, env, importHistory
  <2>7. /\ \A l \in Manifest : l # k => row'[j][l] = row[j][l]
        /\ row'[j][k] # NoRow /\ row'[j][k].port \in PortRange
    <3>1. ex[j].port \in PortRange
      BY <2>4 DEF Sound, Lives, Holding
    <3>2. QED
      BY <2>2, <2>4, <3>1, ImportSizes DEF NoRow
  <2>8. Lives(j)'
    <3>1. ASSUME NEW l \in Manifest, ex'[j].pc = "build", l >= ex'[j].k
          PROVE  row'[j][l] = NoRow
      <4>1. l # k /\ l >= k
        BY <2>1, <2>4, <3>1 DEF Manifest
      <4>2. QED
        BY <2>4, <2>7, <4>1 DEF Sound, Lives, Steps, k
    <3>2. QED
      BY <1>0, <2>1, <2>3, <2>4, <2>7, <3>1
      DEF Sound, Lives, Steps, Importing, Holding, Nothing, importHistory
  <2>9. j \notin disturbed => Progress(j)'
    <3> SUFFICES ASSUME j \notin disturbed PROVE Progress(j)'
      OBVIOUS
    <3>1. slugOf[j] # 0 /\ Rows(j) = 1 .. k - 1
      BY <2>4 DEF Sound, Progress, Steps, k
    <3>2. Rows(j)' = Rows(j) \cup {k}
      BY <2>4, <2>7 DEF Rows
    <3>3. Rows(j)' = 1 .. k
      BY <2>4, <3>1, <3>2 DEF Manifest
    <3>4. CASE k < N /\ ex'[j].pc = "build" /\ ex'[j].k = k + 1
      <4>1. Rows(j)' = 1 .. ex'[j].k - 1
        BY <2>4, <3>3, <3>4 DEF Manifest
      <4>2. QED
        BY <2>3, <3>1, <3>4, <4>1 DEF Progress, Steps
    <3>5. CASE k = N /\ ex'[j].pc = "completed"
      BY <2>3, <3>1, <3>3, <3>5 DEF Progress, Steps, Everything, Manifest
    <3>6. QED
      BY <2>1, <3>4, <3>5
  <2>10. QED
    BY <2>3, <2>5, <2>6, <2>8, <2>9 DEF Sound, importHistory
<1>12. CASE InsertRefused(j)
  <2>1. /\ ex' \in E /\ ex'[j].pc = "rollback" /\ ex'[j].k = ex[j].k
        /\ ex'[j].port = ex[j].port /\ ex'[j].slug = ex[j].slug
        /\ \A i \in Jobs \ {j} : ex'[i] = ex[i]
    BY <1>12, GotoAfter DEF InsertRefused, Goto, Pcs
  <2>2. /\ UNCHANGED <<job, slugOf, row, unit, op, env, troubles,
                       together, adrift, kept, unrecorded, disturbed>>
        /\ spilled' = TRUE /\ ex[j].pc = "insert"
    BY <1>12 DEF InsertRefused, AtPc
  <2>3. Alone(j)
    BY <2>1, <2>2 DEF Alone, env
  <2>4. ImportTypeOK'
    BY <1>0, <2>1, <2>2 DEF ImportTypeOK, ExRow, Cell, UnitCell, env
  <2>5. Sound(j)'
    BY <1>0, <2>1, <2>2
    DEF Sound, Lives, Progress, Steps, Importing, Holding, Rows, Nothing, RolledBack,
          LeavesAllOrNothing, Everything
  <2>6. QED
    BY <2>3, <2>4, <2>5
<1>13. CASE StartRollback(j)
  <2>1. PICK left \in {Listed(j), {}} :
          /\ ex' = [ex EXCEPT ![j].pc = "removing", ![j].left = left]
          /\ \/ UNCHANGED <<troubles, spilled>>
             \/ Refuse({"list"}) /\ spilled' = TRUE
    BY <1>13 DEF StartRollback
  <2>2. left \in ServiceLists
    BY ListedTyped DEF ServiceLists
  <2>3. /\ ex' \in E /\ ex'[j].pc = "removing" /\ ex'[j].left = left
        /\ \A i \in Jobs \ {j} : ex'[i] = ex[i]
    BY <2>1, <2>2, RemovingAfter
  <2>4. /\ UNCHANGED <<job, slugOf, row, unit, op, env, together, adrift, kept,
                       unrecorded, disturbed>>
        /\ ex[j].pc = "rollback"
    BY <1>13 DEF StartRollback, AtPc
  <2>5. spilled' \in BOOLEAN /\ (spilled => spilled')
    <3>1. spilled \in BOOLEAN
      BY <1>0
    <3>2. spilled' = spilled \/ spilled' = TRUE
      BY <2>1
    <3>3. QED
      BY <3>1, <3>2
  <2>6. troubles' \in 0 .. MaxTroubles
    <3>1. {"list"} \in SUBSET {"list", "list"}
      OBVIOUS
    <3>2. CASE troubles' = troubles
      BY <3>2 DEF ImportTypeOK
    <3>3. CASE Refuse({"list"})
      BY <3>1, <3>3, RefuseTyped
    <3>4. QED
      BY <2>1, <3>2, <3>3
  <2>7. Alone(j)
    BY <2>3, <2>4, <2>5 DEF Alone, env
  <2>8. ImportTypeOK'
    BY <1>0, <2>3, <2>4, <2>5, <2>6 DEF ImportTypeOK, ExRow, Cell, UnitCell, env
  <2>9. \A x \in left : row[j][x.k].slug = x.slug
    BY DEF Listed
  <2>10. Sound(j)'
    BY <1>0, <2>3, <2>4, <2>9
    DEF Sound, Lives, Progress, Steps, Importing, Holding, Rows, Nothing, Everything
  <2>11. QED
    BY <2>7, <2>8, <2>10
<1>14. ASSUME NEW x \in ex[j].left, RollbackService(j, x)
      PROVE  ImportTypeOK' /\ Alone(j) /\ Sound(j)'
  <2>1. x \in Listing /\ ex[j].left \ {x} \in ServiceLists
    BY <1>0 DEF ExRow, ServiceLists, Listing
  <2>2. /\ ex' \in E /\ ex'[j].pc = "removing" /\ ex'[j].left = ex[j].left \ {x}
        /\ \A i \in Jobs \ {j} : ex'[i] = ex[i]
    <3>1. ex' = [ex EXCEPT ![j].left = ex[j].left \ {x}] /\ ex[j].pc = "removing"
      BY <1>0, <1>14 DEF RollbackService, AtPc
    <3>2. QED
      BY <2>1, <3>1, LeftAfter
  <2>3. RemoveListed(j, x)
    BY <1>14 DEF RollbackService
  <2>4. /\ unit' \in U /\ row' \in R /\ troubles' \in 0 .. MaxTroubles
        /\ spilled' \in BOOLEAN /\ (spilled => spilled')
        /\ row'[j][x.k] \in {row[j][x.k], NoRow}
        /\ \A i \in Jobs, l \in Manifest : <<i, l>> # <<j, x.k>> => row'[i][l] = row[i][l]
    BY <2>1, <2>3, RemoveListedAfter
  <2>5. /\ ex[j].pc = "removing"
        /\ UNCHANGED <<job, slugOf, op, env, together, adrift, kept, unrecorded, disturbed>>
    BY <1>14 DEF RollbackService, AtPc
  <2>6. Alone(j)
    BY <2>2, <2>4, <2>5 DEF Alone, env
  <2>7. ImportTypeOK'
    BY <1>0, <2>2, <2>4, <2>5 DEF ImportTypeOK, ExRow, Cell, UnitCell, env
  <2>8. /\ \A l \in Manifest : row'[j][l] \in {row[j][l], NoRow}
        /\ \A l \in Manifest : l # x.k => row'[j][l] = row[j][l]
        /\ Rows(j)' \subseteq Rows(j)
    <3>1. \A l \in Manifest : l # x.k => row'[j][l] = row[j][l]
      BY <2>4
    <3>2. \A l \in Manifest : row'[j][l] \in {row[j][l], NoRow}
      BY <2>4, <3>1
    <3>3. QED
      BY <3>1, <3>2 DEF Rows
  <2>9. j \notin disturbed => \A y \in ex[j].left \ {x} : row'[j][y.k].slug = y.slug
    <3> SUFFICES ASSUME j \notin disturbed, NEW y \in ex[j].left \ {x}
                 PROVE  row'[j][y.k].slug = y.slug
      OBVIOUS
    <3>1. row[j][y.k].slug = y.slug /\ row[j][x.k].slug = x.slug
      BY <2>5 DEF Sound, Progress
    <3>2. y \in [k : Manifest, slug : Slugs \cup {0}] /\ x \in [k : Manifest, slug : Slugs \cup {0}]
      BY <1>0 DEF ExRow, ServiceLists
    <3>3. y.k # x.k /\ y.k \in Manifest
      BY <3>1, <3>2
    <3>4. QED
      BY <2>8, <3>1, <3>3
  <2>10. Sound(j)'
    BY <2>2, <2>5, <2>8, <2>9
    DEF Sound, Lives, Progress, Steps, Importing, Holding, Nothing
  <2>11. QED
    BY <2>6, <2>7, <2>10
<1>15. CASE EndRollback(j)
  <2>1. /\ ex' \in E /\ ex'[j].pc = "failed" /\ \A i \in Jobs \ {j} : ex'[i] = ex[i]
    BY <1>15, GotoAfter DEF EndRollback, Pcs
  <2>2. /\ row' \in R /\ slugOf' \in S /\ kept' \in K /\ troubles' \in 0 .. MaxTroubles
        /\ \A k \in Manifest : row'[j][k] \in {row[j][k], NoRow}
        /\ RolledBack(j)'
        /\ \A i \in Jobs \ {j} :
             slugOf'[i] = slugOf[i] /\ row'[i] = row[i] /\ kept'[i] = kept[i]
    BY <1>15, DropProjectAfter DEF EndRollback
  <2>3. /\ ex[j].pc = "removing"
        /\ UNCHANGED <<job, unit, op, env, together, adrift, spilled, unrecorded, disturbed>>
    BY <1>15 DEF EndRollback, AtPc
  <2>4. Alone(j)
    BY <2>1, <2>2, <2>3 DEF Alone, env
  <2>5. ImportTypeOK'
    BY <1>0, <2>1, <2>2, <2>3 DEF ImportTypeOK, ExRow, Cell, UnitCell, env
  <2>6. Lives(j)'
    BY <2>1, <2>2, <2>3 DEF Sound, Lives, Steps, Importing, Holding
  <2>7. Progress(j)'
    BY <2>1, <2>2 DEF Progress, Steps
  <2>8. QED
    BY <2>4, <2>5, <2>6, <2>7 DEF Sound
<1>16. CASE Finish(j)
  <2>1. /\ ex' \in E /\ ex'[j].pc = "gone" /\ ex'[j].k = 1
        /\ \A i \in Jobs \ {j} : ex'[i] = ex[i]
    BY <1>16, ExAfter, RestTyped DEF Finish, Gone
  <2>2. ex[j].pc \in {"completed", "failed"}
    BY <1>16 DEF Finish
  <2>3. /\ job' \in J /\ job'[j] = ex[j].pc
        /\ \A i \in Jobs \ {j} : job'[i] = job[i]
        /\ UNCHANGED <<slugOf, row, unit, op, env, troubles, importHistory>>
    BY <1>0, <1>16, <2>2 DEF Finish
  <2>4. Alone(j)
    BY <2>1, <2>3 DEF Alone, env, importHistory
  <2>5. ImportTypeOK'
    BY <1>0, <2>1, <2>3 DEF ImportTypeOK, ExRow, Cell, UnitCell, env, importHistory
  <2>6. Sound(j)'
    BY <1>0, <2>1, <2>2, <2>3
    DEF Sound, Lives, Progress, Steps, Importing, Holding, Rows, Nothing, RolledBack,
        LeavesAllOrNothing, Everything,
        importHistory
  <2>7. QED
    BY <2>4, <2>5, <2>6
<1>17. CASE FinishRefused(j)
  <2>1. /\ ex' \in E /\ ex'[j].pc = "gone" /\ ex'[j].k = 1
        /\ \A i \in Jobs \ {j} : ex'[i] = ex[i]
    BY <1>17, ExAfter, RestTyped DEF FinishRefused, Gone
  <2>2. ex[j].pc \in {"completed", "failed"}
    BY <1>17 DEF FinishRefused
  <2>3. /\ UNCHANGED <<job, slugOf, row, unit, op, env, troubles,
                       together, adrift, spilled, kept, disturbed>>
        /\ unrecorded' = unrecorded \cup {j}
    BY <1>0, <1>17, <2>2 DEF FinishRefused
  <2>4. Alone(j)
    BY <2>1, <2>3 DEF Alone, env, importHistory
  <2>5. ImportTypeOK'
    BY <1>0, <2>1, <2>3 DEF ImportTypeOK, ExRow, Cell, UnitCell, env, importHistory
  <2>6. Sound(j)'
    BY <1>0, <2>1, <2>2, <2>3
    DEF Sound, Lives, Progress, Steps, Importing, Holding, Rows, Nothing, RolledBack,
        LeavesAllOrNothing, Everything,
        importHistory
  <2>7. QED
    BY <2>4, <2>5, <2>6
<1>18. CASE DetectOwnPort(j)
  <2>1. ex[j].pc = "detect" /\ Own(j).run = "bound"
    BY <1>18 DEF DetectOwnPort, AtPc
  <2>2. ex[j].slug \in Slugs /\ ex[j].k \in Manifest
    BY <1>0, <2>1 DEF Sound, Lives, Steps, ExRow
  <2> DEFINE p == Own(j).port
  <2>3. p \in PortRange
    BY <2>1, <2>2 DEF Own, UnitsPorted
  <2>4. ex' = [ex EXCEPT ![j].pc = "insert", ![j].port = p]
    BY <1>18 DEF DetectOwnPort
  <2> HIDE DEF p
  <2>5. /\ ex' \in E /\ ex'[j].pc = "insert" /\ ex'[j].k = ex[j].k /\ ex'[j].port \in PortRange
        /\ ex'[j].slug = ex[j].slug /\ \A i \in Jobs \ {j} : ex'[i] = ex[i]
    BY <2>3, <2>4, DetectOwnAfter
  <2>6. /\ UNCHANGED <<job, slugOf, row, unit, op, env, troubles,
                       together, spilled, kept, unrecorded, disturbed>>
        /\ adrift' = adrift \cup {<<j, ex[j].k>>}
    BY <1>18 DEF DetectOwnPort
  <2>7. Alone(j)
    BY <2>5, <2>6 DEF Alone, env
  <2>8. ImportTypeOK'
    BY <1>0, <2>2, <2>5, <2>6 DEF ImportTypeOK, ExRow, Cell, UnitCell, env
  <2>9. Sound(j)'
    BY <1>0, <2>1, <2>5, <2>6
    DEF Sound, Lives, Progress, Steps, Importing, Holding, Rows, Nothing, RolledBack,
          LeavesAllOrNothing, Everything
  <2>10. QED
    BY <2>7, <2>8, <2>9
<1>19. QED
  BY <1>1, <1>2, <1>3, <1>4, <1>5, <1>6, <1>7, <1>8, <1>9, <1>10, <1>11, <1>12, <1>13,
     <1>14, <1>15, <1>16, <1>17, <1>18
  DEF Import
-----------------------------------------------------------------------------
(* Steps of the operator, of systemd and of the panel                      *)

LEMMA ElseGood ==
  ASSUME NEW i \in Jobs, Sound(i),
         ex'[i] = ex[i], job'[i] = job[i], slugOf'[i] = slugOf[i],
         \A k \in Manifest : row'[i][k] = row[i][k], kept'[i] = kept[i],
         disturbed \subseteq disturbed', unrecorded \subseteq unrecorded', ImportTypeOK
  PROVE  Sound(i)'
<1>1. Rows(i)' = Rows(i)
  BY DEF Rows
<1>2. Nothing(i)' = Nothing(i) /\ Everything(i)' = Everything(i) /\ RolledBack(i)' = RolledBack(i)
  BY <1>1 DEF Nothing, Everything, RolledBack
<1>3. Lives(i)'
  BY <1>2 DEF Sound, Lives, Steps, Importing, Holding
<1>4. ASSUME i \notin disturbed' PROVE Progress(i)'
  <2>1. Progress(i) /\ (LeavesAllOrNothing(i) => LeavesAllOrNothing(i)')
    BY <1>2, <1>4 DEF Sound, LeavesAllOrNothing
  <2>2. \A x \in ex[i].left : row'[i][x.k].slug = row[i][x.k].slug
    BY DEF ImportTypeOK, ServiceLists
  <2>3. QED
    BY <1>1, <1>2, <2>1, <2>2 DEF Progress, Steps
<1>5. QED
  BY <1>3, <1>4 DEF Sound

\* What the operator takes from a disturbed project.
LEMMA LessGood ==
  ASSUME NEW i \in Jobs, Sound(i), i \in disturbed,
         ex'[i] = ex[i], job'[i] = job[i], slugOf'[i] \in {slugOf[i], 0},
         \A k \in Manifest : row'[i][k] \in {row[i][k], NoRow},
         UNCHANGED disturbed
  PROVE  Sound(i)'
BY DEF Sound, Lives, Steps, Importing, Holding, Rows, Nothing

Basic ==
  ImportTypeOK /\ op.project \subseteq disturbed /\ UnitsPorted /\ \A i \in Jobs : Sound(i)

\* A unit that changes is removed or has a port.
LEMMA PortedKept ==
  ASSUME UnitsPorted,
         \A t \in Slugs, l \in Manifest :
           unit'[t][l] \in {unit[t][l], NoUnit} \/ unit'[t][l].port \in PortRange
  PROVE  UnitsPorted'
BY DEF UnitsPorted, NoUnit

LEMMA PortedImport ==
  ASSUME ImportTypeOK, UnitsPorted, NEW j \in Jobs, Sound(j), Import(j)
  PROVE  UnitsPorted'
<1>0. ex[j] \in ExRow
  BY Unpacked
<1>1. CASE unit' = unit
  BY <1>1, PortedKept
<1>2. CASE CreateUnit(j)
  <2>1. ex[j].port \in PortRange
    BY <1>2 DEF CreateUnit, AtPc, Sound, Lives, Holding
  <2>2. \A t \in Slugs, l \in Manifest :
          unit'[t][l] = unit[t][l] \/ unit'[t][l].port \in PortRange
    BY <1>2, <2>1, CreateUnitAfter
  <2>3. QED
    BY <2>2, PortedKept
<1>3. CASE DetectTimesOut(j)
  <2>1. PICK refused \in SUBSET {"look", "unit"} :
          StopUnit([k |-> ex[j].k, slug |-> ex[j].slug], refused)
    BY <1>3 DEF DetectTimesOut
  <2>2. [k |-> ex[j].k, slug |-> ex[j].slug] \in Listing
    BY <1>0 DEF ExRow, Listing
  <2>3. \A t \in Slugs, l \in Manifest : unit'[t][l] \in {unit[t][l], NoUnit}
    BY <2>1, <2>2, StopUnitAfter
  <2>4. QED
    BY <2>3, PortedKept
<1>4. ASSUME NEW x \in ex[j].left, RollbackService(j, x) PROVE UnitsPorted'
  <2>1. x \in Listing /\ RemoveListed(j, x)
    BY <1>0, <1>4 DEF ExRow, ServiceLists, Listing, RollbackService
  <2>2. \A t \in Slugs, l \in Manifest : unit'[t][l] \in {unit[t][l], NoUnit}
    BY <2>1, RemoveListedAfter
  <2>3. QED
    BY <2>2, PortedKept
<1>5. QED
  BY <1>1, <1>2, <1>3, <1>4
  DEF Import, CountRunning, CountFails, InsertJob, CreateProject, CloneRepo, Build, AllocatePort,
      DetectPort, DetectOwnPort, InsertService, InsertRefused, StartRollback, EndRollback,
      Finish, FinishRefused

LEMMA BasicImport ==
  ASSUME Basic, NEW j \in Jobs, Import(j)
  PROVE  Basic'
<1>1. ImportTypeOK' /\ Alone(j) /\ Sound(j)'
  BY OneStep DEF Basic
<1>2. ASSUME NEW i \in Jobs \ {j} PROVE Sound(i)'
  BY <1>1, ElseGood DEF Alone, Basic
<1>3. (op.project \subseteq disturbed)'
  BY <1>1 DEF Alone, Basic
<1>4. UnitsPorted'
  BY PortedImport DEF Basic
<1>5. QED
  BY <1>1, <1>2, <1>3, <1>4 DEF Basic

LEMMA TroubleTyped ==
  ASSUME ImportTypeOK, Trouble PROVE troubles' \in 0 .. MaxTroubles
BY ImportAssumption DEF ImportTypeOK, Trouble

LEMMA BasicStart ==
  ASSUME Basic, NEW j \in Jobs, op' \in OpRow, op'.project = {j},
         disturbed' = disturbed \cup {j}, Trouble,
         UNCHANGED <<job, ex, slugOf, row, unit, recovery, up,
                     together, adrift, spilled, kept, unrecorded>>
  PROVE  Basic'
<1> USE DEF Basic
<1>1. ImportTypeOK'
  BY TroubleTyped DEF ImportTypeOK, OpRow
<1>2. ASSUME NEW i \in Jobs PROVE Sound(i)'
  BY ElseGood
<1>3. UnitsPorted'
  BY PortedKept
<1>4. QED
  BY <1>1, <1>2, <1>3

LEMMA BasicRemoved ==
  ASSUME Basic, NEW j \in Jobs, NEW x \in op.left, RemoveService(j, x)
  PROVE  Basic'
<1> USE DEF Basic
<1>0. NoOp \in OpRow /\ NoOp.project = {} /\ op \in OpRow
  BY RestTyped DEF NoOp, ImportTypeOK, OpRow
<1>1. x \in Listing /\ RemoveListed(j, x)
  BY <1>0 DEF OpRow, ServiceLists, Listing, RemoveService
<1>2. /\ unit' \in [Slugs -> [Manifest -> UnitCell]]
      /\ row' \in [Jobs -> [Manifest -> Cell]]
      /\ troubles' \in 0 .. MaxTroubles
      /\ spilled' \in BOOLEAN
      /\ \A t \in Slugs, l \in Manifest : unit'[t][l] \in {unit[t][l], NoUnit}
      /\ row'[j][x.k] \in {row[j][x.k], NoRow}
      /\ \A i \in Jobs, l \in Manifest : <<i, l>> # <<j, x.k>> => row'[i][l] = row[i][l]
  BY <1>1, RemoveListedAfter
<1>3. op' \in OpRow /\ op'.project \subseteq op.project
  <2> DEFINE less == [op EXCEPT !.left = @ \ {x}]
  <2>1. less \in OpRow /\ less.project = op.project
    BY <1>0 DEF OpRow, ServiceLists
  <2>2. op' = less \/ op' = NoOp
    BY DEF RemoveService
  <2> HIDE DEF less
  <2>3. QED
    BY <1>0, <2>1, <2>2
<1>4. /\ UNCHANGED <<job, ex, slugOf, env, together, adrift, kept, unrecorded, disturbed>>
      /\ j \in disturbed
  BY DEF RemoveService
<1>5. ImportTypeOK'
  BY <1>2, <1>3, <1>4 DEF ImportTypeOK, Cell, UnitCell, OpRow, env
<1>6. Sound(j)'
  <2>1. \A l \in Manifest : row'[j][l] \in {row[j][l], NoRow}
    BY <1>2
  <2>2. QED
    BY <1>4, <2>1, LessGood
<1>7. ASSUME NEW i \in Jobs \ {j} PROVE Sound(i)'
  <2>1. \A l \in Manifest : row'[i][l] = row[i][l]
    BY <1>2
  <2>2. QED
    BY <1>4, <2>1, ElseGood
<1>8. UnitsPorted'
  BY <1>2, PortedKept
<1>9. QED
  BY <1>3, <1>4, <1>5, <1>6, <1>7, <1>8

LEMMA BasicOperate ==
  ASSUME Basic, NEW j \in Jobs, Operate(j)
  PROVE  Basic'
<1> USE DEF Basic
<1>1. CASE StartDelete(j)
  <2>1. PICK left \in {Listed(j), {}} : op' = [project |-> {j}, whole |-> TRUE, left |-> left]
    BY <1>1 DEF StartDelete
  <2>2. left \in ServiceLists
    BY ListedTyped DEF ServiceLists
  <2>3. op' \in OpRow /\ op'.project = {j}
    BY <2>1, <2>2 DEF OpRow
  <2>4. QED
    BY <1>1, <2>3, BasicStart DEF StartDelete
<1>2. ASSUME NEW x \in Listed(j), StartRemoval(j, x) PROVE Basic'
  <2>1. {x} \in ServiceLists
    BY ListedTyped DEF ServiceLists
  <2>2. op' \in OpRow /\ op'.project = {j}
    BY <1>2, <2>1 DEF OpRow, StartRemoval
  <2>3. QED
    BY <1>2, <2>2, BasicStart DEF StartRemoval
<1>3. CASE EndRemoval(j)
  <2>1. /\ row' \in [Jobs -> [Manifest -> Cell]]
        /\ slugOf' \in [Jobs -> Slugs \cup {0}]
        /\ kept' \in [Jobs -> SUBSET {"services", "project"}]
        /\ troubles' \in 0 .. MaxTroubles
        /\ slugOf'[j] \in {slugOf[j], 0}
        /\ \A k \in Manifest : row'[j][k] \in {row[j][k], NoRow}
        /\ \A i \in Jobs \ {j} :
             slugOf'[i] = slugOf[i] /\ row'[i] = row[i] /\ kept'[i] = kept[i]
    BY <1>3, DropProjectAfter DEF EndRemoval
  <2>2. /\ UNCHANGED <<job, ex, unit, env, together, adrift, spilled, unrecorded, disturbed>>
        /\ op' = NoOp /\ j \in disturbed
    BY <1>3 DEF EndRemoval
  <2>3. NoOp \in OpRow /\ NoOp.project = {}
    BY RestTyped DEF NoOp
  <2>4. ImportTypeOK'
    BY <2>1, <2>2, <2>3 DEF ImportTypeOK, Cell, OpRow, env
  <2>5. Sound(j)'
    BY <2>1, <2>2, LessGood
  <2>6. ASSUME NEW i \in Jobs \ {j} PROVE Sound(i)'
    BY <2>1, <2>2, ElseGood
  <2>7. UnitsPorted'
    BY <2>2, PortedKept
  <2>8. QED
    BY <2>2, <2>3, <2>4, <2>5, <2>6, <2>7
<1>4. QED
  BY <1>1, <1>2, <1>3, BasicRemoved DEF Operate

LEMMA BasicListen ==
  ASSUME Basic, NEW s \in Slugs, NEW k \in Manifest, Listen(s, k)
  PROVE  Basic'
<1> USE DEF Basic
<1>1. /\ unit' \in [Slugs -> [Manifest -> UnitCell]]
      /\ \A t \in Slugs, l \in Manifest :
           unit'[t][l] = unit[t][l] \/ unit'[t][l].port \in PortRange
  <2> DEFINE c == [unit[s][k] EXCEPT !.run = "bound"]
  <2>0. unit[s][k] \in UnitCell
    BY Unpacked
  <2>1. c \in UnitCell /\ c.port = unit[s][k].port
    BY <2>0 DEF UnitCell
  <2>2. unit' = [unit EXCEPT ![s][k] = c] /\ unit[s][k].run = "starting"
    BY Unpacked DEF Listen
  <2>3. unit[s][k].port \in PortRange
    BY <2>2 DEF UnitsPorted
  <2> HIDE DEF c
  <2>4. /\ unit' \in [Slugs -> [Manifest -> UnitCell]] /\ unit'[s][k] = c
        /\ \A t \in Slugs, l \in Manifest : <<t, l>> # <<s, k>> => unit'[t][l] = unit[t][l]
    <3>1. unit \in [Slugs -> [Manifest -> UnitCell]]
      BY Unpacked
    <3>2. QED
      BY <2>1, <2>2, <3>1
  <2>5. QED
    BY <2>1, <2>3, <2>4
<1>2. UNCHANGED <<job, ex, slugOf, row, op, env, troubles, importHistory>>
  BY DEF Listen
<1>3. ImportTypeOK'
  BY <1>1, <1>2 DEF ImportTypeOK, UnitCell, env, importHistory
<1>4. ASSUME NEW i \in Jobs PROVE Sound(i)'
  BY <1>2, ElseGood DEF importHistory
<1>5. UnitsPorted'
  BY <1>1, PortedKept
<1>6. QED
  BY <1>2, <1>3, <1>4, <1>5 DEF importHistory

LEMMA BasicStops ==
  ASSUME Basic, PanelStops
  PROVE  Basic'
<1> USE DEF Basic
<1>1. /\ ex' \in [Jobs -> ExRow] /\ \A i \in Jobs : ex'[i] = Gone
      /\ disturbed \subseteq disturbed' /\ disturbed' \subseteq Jobs
      /\ \A i \in Jobs : Importing(i) => i \in disturbed'
  BY RestTyped DEF PanelStops, ImportTypeOK
<1>2. /\ UNCHANGED <<job, slugOf, row, unit, together, adrift, spilled, kept, unrecorded>>
      /\ Trouble
      /\ up' \in BOOLEAN /\ recovery' \in BOOLEAN /\ op' = NoOp
  BY DEF PanelStops
<1>3. ImportTypeOK'
  BY <1>1, <1>2, RestTyped, TroubleTyped DEF ImportTypeOK, ExRow, OpRow
<1>4. ASSUME NEW i \in Jobs PROVE Sound(i)'
  <2>1. ex'[i].pc = "gone" /\ ex'[i].k = 1
    BY <1>1 DEF Gone
  <2>2. Lives(i)'
    BY <1>2, <2>1 DEF Sound, Lives, Steps, Importing, Holding, Nothing, Rows
  <2>3. i \notin disturbed' => ex[i].pc \in {"gone", "asked"} /\ i \notin disturbed
    BY <1>1 DEF Importing
  <2>4. QED
    BY <1>2, <2>1, <2>2, <2>3
    DEF Sound, Lives, Progress, Steps, Nothing, Everything, RolledBack, LeavesAllOrNothing, Rows
<1>5. UnitsPorted'
  BY <1>2, PortedKept
<1>6. QED
  BY <1>2, <1>3, <1>4, <1>5 DEF NoOp

LEMMA BasicBoot ==
  ASSUME Basic, Boot \/ UNCHANGED importVars
  PROVE  Basic'
<1> USE DEF Basic
<1>1. /\ UNCHANGED <<job, ex, slugOf, row, unit, op, troubles, importHistory>>
      /\ up' \in BOOLEAN /\ recovery' \in BOOLEAN
  BY DEF Boot, importVars, env, ImportTypeOK
<1>2. ImportTypeOK'
  BY <1>1 DEF ImportTypeOK, importHistory
<1>3. ASSUME NEW i \in Jobs PROVE Sound(i)'
  BY <1>1, ElseGood DEF importHistory
<1>4. UnitsPorted'
  BY <1>1, PortedKept
<1>5. QED
  BY <1>1, <1>2, <1>3, <1>4 DEF importHistory

LEMMA BasicRecover ==
  ASSUME Basic, Recover
  PROVE  Basic'
<1> USE DEF Basic
<1> DEFINE J == [Jobs -> {"absent", "running", "completed", "failed"}]
<1>0. job \in J
  BY DEF ImportTypeOK
<1>1. /\ UNCHANGED <<ex, slugOf, row, unit, op, up, troubles,
                     together, adrift, spilled, kept, unrecorded>>
      /\ recovery' \in BOOLEAN
  BY DEF Recover
<1>2. UnitsPorted'
  BY <1>1, PortedKept
<1>3. CASE UNCHANGED <<job, disturbed>>
  <2>1. ImportTypeOK'
    BY <1>1, <1>3 DEF ImportTypeOK
  <2>2. ASSUME NEW i \in Jobs PROVE Sound(i)'
    BY <1>1, <1>3, ElseGood
  <2>3. QED
    BY <1>1, <1>2, <1>3, <2>1, <2>2
<1>4. CASE /\ job' = [j \in Jobs |-> IF job[j] = "running" THEN "failed" ELSE job[j]]
           /\ disturbed' = disturbed \cup {j \in Jobs : job[j] = "running" /\ Importing(j)}
  <2>1. /\ job' \in J
        /\ \A i \in Jobs : job'[i] = IF job[i] = "running" THEN "failed" ELSE job[i]
    BY <1>0, <1>4
  <2>2. /\ disturbed \subseteq disturbed' /\ disturbed' \subseteq Jobs
        /\ \A i \in Jobs : job[i] = "running" /\ Importing(i) => i \in disturbed'
    BY <1>4 DEF ImportTypeOK
  <2>3. ImportTypeOK'
    BY <1>1, <2>1, <2>2 DEF ImportTypeOK
  <2>4. ASSUME NEW i \in Jobs PROVE Sound(i)'
    <3>1. Lives(i)'
      BY <1>1, <2>1, <2>2 DEF Sound, Lives, Steps, Importing, Holding, Nothing, Rows
    <3>2. ASSUME i \notin disturbed' PROVE Progress(i)'
      <4>1. i \notin disturbed /\ (job[i] = "running" => ~Importing(i))
        BY <2>2, <3>2
      <4>2. job'[i] = job[i] \/ ex[i].pc \in {"gone", "asked"}
        BY <2>1, <4>1 DEF Importing
      <4>3. QED
        BY <1>0, <1>1, <2>1, <4>1, <4>2
        DEF Sound, Lives, Progress, Steps, Nothing, Everything, RolledBack,
            LeavesAllOrNothing, Rows
    <3>3. QED
      BY <3>1, <3>2 DEF Sound
  <2>5. QED
    BY <1>1, <1>2, <2>2, <2>3, <2>4
<1>5. QED
  BY <1>3, <1>4 DEF Recover

LEMMA BasicInductive ==
  ASSUME Basic, [ImportNext]_importVars
  PROVE  Basic'
BY BasicImport, BasicOperate, BasicListen, BasicStops, BasicBoot, BasicRecover DEF ImportNext
-----------------------------------------------------------------------------
(* Ports                                                                   *)

\* A port leaves a row or a goroutine's hand, and none is taken up.
LEMMA PortsDropped ==
  ASSUME Basic, PortsApart, together \subseteq together', adrift \subseteq adrift',
         \A i \in Jobs, k \in Manifest : row'[i][k] \in {row[i][k], NoRow},
         \A i \in Jobs :
           Holding(i)' => Holding(i) /\ ex'[i].port = ex[i].port /\ ex'[i].k = ex[i].k
  PROVE  PortsApart'
<1>1. /\ \A i \in Jobs, k \in Manifest : row[i][k] # NoRow => row[i][k].port \in PortRange
      /\ \A i \in Jobs : Holding(i) => ex[i].port \in PortRange
      /\ NoRow.port \notin PortRange
  BY ImportSizes DEF Basic, Sound, Lives, NoRow
<1>2. PortSharedOnlyUnseen'
  BY <1>1 DEF PortsApart, PortSharedOnlyUnseen
<1>3. QED
  BY <1>1, <1>2 DEF PortsApart

\* Whoever holds a port is apart from the others who hold it, or have it in a row.
HandsApart(i, j) ==
  {i, j} \subseteq together \/ <<i, ex[i].k>> \in adrift \/ <<j, ex[j].k>> \in adrift
RowApart(i, k, j) ==
  {i, j} \subseteq together \/ <<i, k>> \in adrift \/ <<j, ex[j].k>> \in adrift

\* An import takes a port in hand: one that nobody has in a row, or unseen.
LEMMA PortsTaken ==
  ASSUME Basic, PortsApart, NEW j \in Jobs, NEW p,
         ex'[j].port = p, ex'[j].k = ex[j].k, \A i \in Jobs \ {j} : ex'[i] = ex[i],
         row' = row, together \subseteq together', adrift \subseteq adrift',
         \/ <<j, ex[j].k>> \in adrift'
         \/ /\ \A i \in Jobs, k \in Manifest : row[i][k].port # p
            /\ \A m \in Jobs \ {j} : Holding(m) /\ ex[m].port = p => {m, j} \subseteq together'
  PROVE  PortsApart'
<1>1. PortSharedOnlyUnseen'
  BY DEF PortsApart, PortSharedOnlyUnseen
<1>2. ASSUME NEW h \in Jobs, NEW i \in Jobs, NEW k \in Manifest,
             Holding(i)', row'[h][k].port = ex'[i].port
      PROVE  RowApart(h, k, i)'
  <2>1. CASE i = j
    BY <1>2, <2>1 DEF RowApart
  <2>2. CASE i # j
    <3>1. Holding(i) /\ row[h][k].port = ex[i].port /\ ex'[i] = ex[i]
      BY <1>2, <2>2 DEF Holding
    <3>2. QED
      BY <3>1 DEF PortsApart, RowApart
  <2>3. QED
    BY <2>1, <2>2
<1>3. ASSUME NEW h \in Jobs, NEW i \in Jobs,
             h # i, Holding(h)', Holding(i)', ex'[h].port = ex'[i].port
      PROVE  HandsApart(h, i)'
  <2>1. CASE h # j /\ i # j
    <3>1. Holding(h) /\ Holding(i) /\ ex[h].port = ex[i].port /\ ex'[h] = ex[h] /\ ex'[i] = ex[i]
      BY <1>3, <2>1 DEF Holding
    <3>2. QED
      BY <1>3, <3>1 DEF PortsApart, HandsApart
  <2>2. CASE h = j
    <3>1. Holding(i) /\ ex[i].port = p /\ i \in Jobs \ {j}
      BY <1>3, <2>2 DEF Holding
    <3>2. QED
      BY <2>2, <3>1 DEF HandsApart
  <2>3. CASE i = j
    <3>1. Holding(h) /\ ex[h].port = p /\ h \in Jobs \ {j}
      BY <1>3, <2>3 DEF Holding
    <3>2. QED
      BY <2>3, <3>1 DEF HandsApart
  <2>4. QED
    BY <2>1, <2>2, <2>3
<1>4. QED
  BY <1>1, <1>2, <1>3 DEF PortsApart, RowApart, HandsApart

LEMMA PortsAllocated ==
  ASSUME Basic, PortsApart, NEW j \in Jobs, AllocatePort(j)
  PROVE  PortsApart'
<1>1. PICK refused \in SUBSET {"rows"} :
        LET seen == refused = {}
            p == CHOOSE q \in PortRange :
                   ~Taken(q, seen) /\ \A r \in 1 .. q - 1 : Taken(r, seen) IN
        /\ Refuse(refused)
        /\ ex' = [ex EXCEPT ![j].pc = "unit", ![j].port = p]
        /\ together' = together \cup
             (IF \E k \in Jobs \ {j} : Holds(k, p)
              THEN {k \in Jobs : k = j \/ Holds(k, p)} ELSE {})
        /\ adrift' = IF seen THEN adrift ELSE adrift \cup {<<j, ex[j].k>>}
  BY DEF AllocatePort
<1> DEFINE seen == refused = {}
           p == CHOOSE q \in PortRange :
                  ~Taken(q, seen) /\ \A r \in 1 .. q - 1 : Taken(r, seen)
<1>2. ex[j].k \in Manifest /\ row[j][ex[j].k] = NoRow
  <2>1. ex[j].k \in Manifest /\ ex[j].pc = "port"
    BY Unpacked DEF AllocatePort, AtPc, Basic, ExRow
  <2>2. QED
    BY <2>1 DEF Basic, Sound, Lives, Steps, Manifest
<1>3. /\ ex' = [ex EXCEPT ![j].pc = "unit", ![j].port = p]
      /\ together' = together \cup
           (IF \E k \in Jobs \ {j} : Holds(k, p)
            THEN {k \in Jobs : k = j \/ Holds(k, p)} ELSE {})
      /\ adrift' = IF seen THEN adrift ELSE adrift \cup {<<j, ex[j].k>>}
  BY <1>1
<1>4. row' = row
  BY DEF AllocatePort
<1>5. seen \in BOOLEAN
  OBVIOUS
<1>6. p \in PortRange /\ ~Taken(p, seen)
  <2> HIDE DEF seen
  <2>1. QED
    BY <1>2, <1>5, LeastFreePort DEF Basic
<1> HIDE DEF p, seen
<1>7. ex'[j].port = p /\ ex'[j].k = ex[j].k /\ \A i \in Jobs \ {j} : ex'[i] = ex[i]
  BY <1>3, <1>6, AllocateAfter DEF Basic
<1>8. CASE seen
  <2>1. \A i \in Jobs, k \in Manifest : row[i][k].port # p
    BY <1>6, <1>8 DEF Taken, Recorded
  <2>2. ASSUME NEW m \in Jobs \ {j}, Holding(m), ex[m].port = p PROVE {m, j} \subseteq together'
    BY <1>3, <2>2 DEF Holds, Holding
  <2>3. together \subseteq together' /\ adrift \subseteq adrift'
    BY <1>3
  <2>4. \A m \in Jobs \ {j} : Holding(m) /\ ex[m].port = p => {m, j} \subseteq together'
    BY <2>2
  <2>5. \/ <<j, ex[j].k>> \in adrift'
        \/ /\ \A i \in Jobs, k \in Manifest : row[i][k].port # p
           /\ \A m \in Jobs \ {j} : Holding(m) /\ ex[m].port = p => {m, j} \subseteq together'
    BY <2>1, <2>4
  <2>6. QED
    BY <1>4, <1>7, <2>3, <2>5, PortsTaken
<1>9. CASE ~seen
  <2>1. together \subseteq together' /\ adrift \subseteq adrift' /\ <<j, ex[j].k>> \in adrift'
    BY <1>3, <1>9
  <2>2. QED
    BY <1>4, <1>7, <2>1, PortsTaken
<1>10. QED
  BY <1>8, <1>9

LEMMA PortsInserted ==
  ASSUME Basic, PortsApart, NEW j \in Jobs, InsertService(j)
  PROVE  PortsApart'
<1> DEFINE k == ex[j].k
           p == ex[j].port
<1>1. /\ ~Holding(j)' /\ \A i \in Jobs \ {j} : ex'[i] = ex[i]
      /\ row'[j][k].port = p
      /\ \A i \in Jobs, l \in Manifest : <<i, l>> # <<j, k>> => row'[i][l] = row[i][l]
  <2>1. /\ \A i \in Jobs \ {j} : ex'[i] = ex[i]
        /\ row'[j][k] = [port |-> p, slug |-> ex[j].slug]
        /\ \A i \in Jobs, l \in Manifest : <<i, l>> # <<j, k>> => row'[i][l] = row[i][l]
        /\ ex'[j].pc \in {"build", "completed"}
    BY InsertAfter DEF Basic
  <2>2. row'[j][k].port = p
    BY <2>1
  <2>3. QED
    BY <2>1, <2>2 DEF Holding
<1>2. /\ Holding(j) /\ p \in PortRange /\ k \in Manifest
      /\ together' = together /\ adrift' = adrift
  <2>1. ex[j].pc = "insert" /\ k \in Manifest /\ together' = together /\ adrift' = adrift
    BY Unpacked DEF InsertService, AtPc, importHistory, Basic, ExRow
  <2>2. QED
    BY <2>1 DEF Basic, Sound, Lives, Holding
<1>3. ASSUME NEW i \in Jobs, NEW l \in Manifest, row[i][l].port = p
      PROVE  {i, j} \subseteq together \/ <<i, l>> \in adrift \/ <<j, k>> \in adrift
  BY <1>2, <1>3 DEF PortsApart
<1>4. ASSUME NEW i \in Jobs, i # j, Holding(i), ex[i].port = p
      PROVE  {i, j} \subseteq together \/ <<j, k>> \in adrift \/ <<i, ex[i].k>> \in adrift
  BY <1>2, <1>4 DEF PortsApart
<1> HIDE DEF k
<1>5. PortSharedOnlyUnseen'
  <2> SUFFICES ASSUME NEW h \in Jobs, NEW i \in Jobs, NEW l \in Manifest, NEW m \in Manifest,
                      <<h, l>> # <<i, m>>, row'[h][l] # NoRow,
                      row'[h][l].port = row'[i][m].port
               PROVE  {h, i} \subseteq together \/ <<h, l>> \in adrift \/ <<i, m>> \in adrift
    BY <1>2 DEF PortSharedOnlyUnseen
  <2>1. CASE <<h, l>> = <<j, k>>
    BY <1>1, <1>3, <2>1
  <2>2. CASE <<i, m>> = <<j, k>>
    BY <1>1, <1>3, <2>2
  <2>3. CASE <<h, l>> # <<j, k>> /\ <<i, m>> # <<j, k>>
    BY <1>1, <2>3 DEF PortsApart, PortSharedOnlyUnseen
  <2>4. QED
    BY <2>1, <2>2, <2>3
<1>6. ASSUME NEW h \in Jobs, NEW i \in Jobs, NEW l \in Manifest,
             Holding(i)', row'[h][l].port = ex'[i].port
      PROVE  {h, i} \subseteq together \/ <<h, l>> \in adrift \/ <<i, ex'[i].k>> \in adrift
  <2>1. i # j /\ Holding(i) /\ ex'[i] = ex[i]
    BY <1>1, <1>6 DEF Holding
  <2>2. CASE <<h, l>> = <<j, k>>
    BY <1>1, <1>6, <1>4, <2>1, <2>2
  <2>3. CASE <<h, l>> # <<j, k>>
    BY <1>1, <1>6, <2>1, <2>3 DEF PortsApart
  <2>4. QED
    BY <2>2, <2>3
<1>7. ASSUME NEW h \in Jobs, NEW i \in Jobs,
             h # i, Holding(h)', Holding(i)', ex'[h].port = ex'[i].port
      PROVE  {h, i} \subseteq together \/ <<h, ex'[h].k>> \in adrift \/ <<i, ex'[i].k>> \in adrift
  <2>1. h # j /\ i # j
    BY <1>1, <1>7
  <2>2. QED
    BY <1>1, <1>7, <2>1 DEF PortsApart, Holding
<1>8. QED
  BY <1>2, <1>5, <1>6, <1>7 DEF PortsApart

LEMMA PortsImport ==
  ASSUME Basic, PortsApart, NEW j \in Jobs, Import(j)
  PROVE  PortsApart'
<1>0. Alone(j)
  BY OneStep DEF Basic
<1>1. CASE AllocatePort(j)
  BY <1>1, PortsAllocated
<1>2. CASE InsertService(j)
  BY <1>2, PortsInserted
<1>3. ASSUME \A k \in Manifest : row'[j][k] \in {row[j][k], NoRow},
             Holding(j)' => Holding(j) /\ ex'[j].port = ex[j].port /\ ex'[j].k = ex[j].k
      PROVE  PortsApart'
  <2>1. \A i \in Jobs, k \in Manifest : row'[i][k] \in {row[i][k], NoRow}
    BY <1>0, <1>3 DEF Alone
  <2>2. \A i \in Jobs :
          Holding(i)' => Holding(i) /\ ex'[i].port = ex[i].port /\ ex'[i].k = ex[i].k
    BY <1>0, <1>3 DEF Alone, Holding
  <2>3. QED
    BY <1>0, <2>1, <2>2, PortsDropped DEF Alone
<1>4. CASE \/ CountRunning(j) \/ CountFails(j) \/ InsertJob(j) \/ CloneRepo(j) \/ Build(j)
           \/ InsertRefused(j) \/ DetectPort(j) \/ DetectTimesOut(j) \/ CreateUnit(j)
           \/ StartRollback(j)
  <2>1. row' = row
    BY <1>4
    DEF CountRunning, CountFails, InsertJob, CloneRepo, Build, InsertRefused, DetectPort,
                DetectTimesOut, CreateUnit, StartRollback
  <2>2. CASE CountRunning(j) \/ CountFails(j) \/ InsertJob(j) \/ CloneRepo(j) \/ Build(j)
             \/ InsertRefused(j) \/ DetectTimesOut(j) \/ StartRollback(j)
    <3>1. ex'[j].pc \in {"asked", "create", "build", "port", "rollback", "removing"}
      BY <2>2, Unpacked DEF Basic, CountRunning, CountFails, InsertJob, CloneRepo, Build,
         InsertRefused, DetectTimesOut, StartRollback, Goto, ExRow
    <3>2. QED
      BY <1>3, <2>1, <3>1 DEF Holding
  <2>3. CASE DetectPort(j) \/ CreateUnit(j)
    <3>1. ex[j].pc \in {"unit", "detect"}
      BY <2>3 DEF DetectPort, CreateUnit, AtPc
    <3>2. ex'[j].port = ex[j].port /\ ex'[j].k = ex[j].k
      BY <2>3, GotoAfter DEF Basic, DetectPort, CreateUnit, Pcs
    <3>3. QED
      BY <1>3, <2>1, <3>1, <3>2 DEF Holding
  <2>4. QED
    BY <1>4, <2>2, <2>3
<1>5. CASE CreateProject(j)
  <2>1. row' = row /\ ex'[j].pc \in {"clone", "failed"}
    BY <1>5, Unpacked DEF Basic, CreateProject, Goto, ExRow
  <2>2. QED
    BY <1>3, <2>1 DEF Holding
<1>6. ASSUME NEW x \in ex[j].left, RollbackService(j, x) PROVE PortsApart'
  <2>1. x \in Listing /\ ex[j] \in ExRow
    BY Unpacked DEF Basic, ExRow, ServiceLists, Listing
  <2>2. RemoveListed(j, x)
    BY <1>6 DEF RollbackService
  <2>3. /\ row'[j][x.k] \in {row[j][x.k], NoRow}
        /\ \A i \in Jobs, l \in Manifest : <<i, l>> # <<j, x.k>> => row'[i][l] = row[i][l]
    BY <2>1, <2>2, RemoveListedAfter DEF Basic
  <2>4. \A l \in Manifest : row'[j][l] \in {row[j][l], NoRow}
    BY <2>3
  <2>5. ex'[j].pc = "removing"
    BY <1>6, Unpacked DEF Basic, RollbackService, AtPc, ExRow
  <2>6. QED
    BY <1>3, <2>4, <2>5 DEF Holding
<1>7. CASE EndRollback(j)
  <2>1. \A l \in Manifest : row'[j][l] \in {row[j][l], NoRow}
    BY <1>7, DropProjectAfter DEF Basic, EndRollback
  <2>2. ex'[j].pc = "failed"
    BY <1>7, GotoAfter DEF Basic, EndRollback, Pcs
  <2>3. QED
    BY <1>3, <2>1, <2>2 DEF Holding
<1>8. CASE Finish(j) \/ FinishRefused(j)
  <2>1. row' = row /\ ex'[j] = Gone
    BY <1>8, Unpacked DEF Basic, Finish, FinishRefused
  <2>2. QED
    BY <1>3, <2>1 DEF Holding, Gone
<1>9. CASE DetectOwnPort(j)
  <2>1. ex[j].pc = "detect" /\ Own(j).run = "bound"
    BY <1>9 DEF DetectOwnPort, AtPc
  <2>2. ex[j].slug \in Slugs /\ ex[j].k \in Manifest
    BY <2>1, Unpacked DEF Basic, Sound, Lives, Steps, ExRow
  <2> DEFINE p == Own(j).port
  <2>3. p \in PortRange
    BY <2>1, <2>2 DEF Own, UnitsPorted, Basic
  <2>4. ex' = [ex EXCEPT ![j].pc = "insert", ![j].port = p]
    BY <1>9 DEF DetectOwnPort
  <2> HIDE DEF p
  <2>5. ex'[j].port = p /\ ex'[j].k = ex[j].k /\ \A i \in Jobs \ {j} : ex'[i] = ex[i]
    BY <2>3, <2>4, DetectOwnAfter DEF Basic
  <2>6. row' = row /\ together' = together /\ adrift' = adrift \cup {<<j, ex[j].k>>}
    BY <1>9 DEF DetectOwnPort
  <2>7. QED
    BY <2>5, <2>6, PortsTaken
<1>10. QED
  BY <1>1, <1>2, <1>4, <1>5, <1>6, <1>7, <1>8, <1>9 DEF Import

LEMMA PortsElse ==
  ASSUME Basic, PortsApart,
         \/ \E j \in Jobs : Operate(j)
         \/ \E s \in Slugs, k \in Manifest : Listen(s, k)
         \/ PanelStops \/ Boot \/ Recover \/ UNCHANGED importVars
  PROVE  PortsApart'
<1>1. together' = together /\ adrift' = adrift
  BY DEF Operate, StartDelete, StartRemoval, RemoveService, EndRemoval, Listen, PanelStops, Boot, Recover,
         importVars, importHistory
<1>2. \A i \in Jobs :
        Holding(i)' => Holding(i) /\ ex'[i].port = ex[i].port /\ ex'[i].k = ex[i].k
  <2>1. ex' = ex \/ PanelStops
    BY DEF Operate, StartDelete, StartRemoval, RemoveService, EndRemoval, Listen, Boot, Recover, importVars
  <2>2. CASE PanelStops
    <3>1. \A i \in Jobs : ex'[i] = Gone
      BY <2>2 DEF PanelStops
    <3>2. QED
      BY <3>1 DEF Holding, Gone
  <2>3. QED
    BY <2>1, <2>2 DEF Holding
<1>3. \A i \in Jobs, k \in Manifest : row'[i][k] \in {row[i][k], NoRow}
  <2>1. ASSUME NEW j \in Jobs, NEW x \in op.left, RemoveListed(j, x)
        PROVE  \A i \in Jobs, k \in Manifest : row'[i][k] \in {row[i][k], NoRow}
    <3>1. x \in Listing
      BY DEF Basic, ImportTypeOK, ServiceLists, Listing
    <3>2. /\ row'[j][x.k] \in {row[j][x.k], NoRow}
          /\ \A i \in Jobs, l \in Manifest : <<i, l>> # <<j, x.k>> => row'[i][l] = row[i][l]
      BY <2>1, <3>1, RemoveListedAfter DEF Basic
    <3>3. QED
      BY <3>2
  <2>2. ASSUME NEW j \in Jobs, DropProject(j)
        PROVE  \A i \in Jobs, k \in Manifest : row'[i][k] \in {row[i][k], NoRow}
    BY <2>2, DropProjectAfter DEF Basic
  <2>3. \/ row' = row
        \/ \E j \in Jobs : (\E x \in op.left : RemoveListed(j, x)) \/ DropProject(j)
    BY DEF Operate, StartDelete, StartRemoval, RemoveService, EndRemoval, Listen, PanelStops,
           Boot, Recover, importVars
  <2>4. QED
    BY <2>1, <2>2, <2>3
<1>4. QED
  BY <1>1, <1>2, <1>3, PortsDropped
-----------------------------------------------------------------------------
(* Units                                                                   *)

\* No unit comes, and one that stays keeps who had it.
LEMMA UnitsKept ==
  ASSUME UnitsOwned, Quiet' => Quiet,
         \A s \in Slugs, k \in Manifest : unit'[s][k] # NoUnit =>
            /\ unit[s][k] # NoUnit
            /\ \A i \in Jobs : Keeps(i, s, k) => Keeps(i, s, k)'
  PROVE  UnitsOwned'
BY DEF UnitsOwned

\* A step of an import that leaves the others as they are.
LEMMA UnitsAlone ==
  ASSUME UnitsOwned, NEW j \in Jobs, Alone(j), spilled' \in BOOLEAN, spilled \in BOOLEAN,
         \A s \in Slugs, k \in Manifest : unit'[s][k] # NoUnit =>
            /\ unit[s][k] # NoUnit
            /\ Quiet' /\ Keeps(j, s, k) => Keeps(j, s, k)'
  PROVE  UnitsOwned'
<1>1. Quiet' => Quiet
  BY DEF Quiet, Alone
<1>2. \A i \in Jobs \ {j} : \A s \in Slugs, k \in Manifest : Keeps(i, s, k) => Keeps(i, s, k)'
  BY DEF Alone, Keeps
<1>3. SUFFICES ASSUME Quiet', NEW s \in Slugs, NEW k \in Manifest, unit'[s][k] # NoUnit
               PROVE  \E i \in Jobs : Keeps(i, s, k)'
  BY DEF UnitsOwned
<1>4. PICK i \in Jobs : Keeps(i, s, k)
  BY <1>1, <1>3 DEF UnitsOwned
<1>5. QED
  BY <1>2, <1>3, <1>4

LEMMA UnitsImport ==
  ASSUME Basic, UnitsOwned, NEW j \in Jobs, Import(j)
  PROVE  UnitsOwned'
<1> DEFINE e == ex[j]
<1>0. /\ Alone(j) /\ spilled \in BOOLEAN /\ spilled' \in BOOLEAN
      /\ e \in ExRow /\ e.k \in Manifest /\ e.slug \in Slugs \cup {0}
      /\ ex \in [Jobs -> ExRow] /\ 0 \notin Slugs
      /\ unit \in [Slugs -> [Manifest -> UnitCell]]
  <2>1. Alone(j) /\ ImportTypeOK' /\ ImportTypeOK
    BY OneStep DEF Basic
  <2>2. e \in ExRow /\ e.k \in Manifest /\ e.slug \in Slugs \cup {0}
    BY <2>1, Unpacked DEF ExRow
  <2>3. spilled \in BOOLEAN /\ spilled' \in BOOLEAN
    BY <2>1 DEF ImportTypeOK
  <2>4. QED
    BY <2>1, <2>2, <2>3, Unpacked, ImportSizes
<1>1. ASSUME unit' = unit, row' = row, e.pc \notin {"detect", "insert", "removing"},
             ex'[j].pc # "removing"
      PROVE  UnitsOwned'
  BY <1>0, <1>1, UnitsAlone DEF Keeps
<1>2. CASE \/ CountRunning(j) \/ CountFails(j) \/ InsertJob(j) \/ CreateProject(j)
           \/ CloneRepo(j) \/ Build(j) \/ AllocatePort(j)
           \/ Finish(j) \/ FinishRefused(j)
  <2>1. unit' = unit /\ row' = row /\ e.pc \notin {"detect", "insert", "removing"}
    BY <1>2 DEF CountRunning, CountFails, InsertJob, CreateProject, CloneRepo, Build,
       AllocatePort, Finish, FinishRefused, AtPc
  <2>2. ex'[j].pc # "removing"
    BY <1>0, <1>2 DEF CountRunning, CountFails, InsertJob, CreateProject, CloneRepo, Build,
       AllocatePort, Finish, FinishRefused, Goto, Gone, ExRow
  <2>3. QED
    BY <1>1, <2>1, <2>2
<1>3. CASE CreateUnit(j)
  <2> DEFINE s == e.slug
             k == e.k
  <2>1. e.pc = "unit" /\ row' = row
    BY <1>3 DEF CreateUnit, AtPc
  <2>2. e.port \in PortRange
    BY <2>1 DEF Basic, Sound, Lives, Holding
  <2>3. /\ ex'[j].k = k /\ ex'[j].slug = s
        /\ \/ ex'[j].pc \in {"detect", "insert"}
           \/ ex'[j].pc = "rollback" /\ (spilled' \/ unit' = unit)
        /\ \A t \in Slugs, l \in Manifest : <<t, l>> # <<s, k>> => unit'[t][l] = unit[t][l]
    BY <1>3, <2>2, CreateUnitAfter DEF Basic
  <2>4. \A t \in Slugs, l \in Manifest : Keeps(j, t, l) => Keeps(j, t, l)'
    BY <2>1, <2>3 DEF Keeps
  <2>5. \A i \in Jobs : \A t \in Slugs, l \in Manifest : Keeps(i, t, l) => Keeps(i, t, l)'
    BY <1>0, <2>4 DEF Alone, Keeps
  <2>6. Quiet' => Quiet
    BY <1>0 DEF Quiet, Alone
  <2>7. SUFFICES ASSUME Quiet', NEW t \in Slugs, NEW l \in Manifest, unit'[t][l] # NoUnit
                 PROVE  \E i \in Jobs : Keeps(i, t, l)'
    BY DEF UnitsOwned
  <2>8. ASSUME unit'[t][l] = unit[t][l] PROVE \E i \in Jobs : Keeps(i, t, l)'
    <3>1. PICK i \in Jobs : Keeps(i, t, l)
      BY <2>6, <2>7, <2>8 DEF UnitsOwned
    <3>2. QED
      BY <2>5, <3>1
  <2>9. CASE ex'[j].pc \in {"detect", "insert"} /\ <<t, l>> = <<s, k>>
    <3>1. Keeps(j, t, l)'
      BY <2>3, <2>9 DEF Keeps
    <3>2. QED
      BY <3>1
  <2>10. CASE unit' = unit
    BY <2>8, <2>10
  <2>11. ~spilled'
    BY <2>7 DEF Quiet
  <2> HIDE DEF s, k
  <2>12. QED
    BY <2>3, <2>8, <2>9, <2>10, <2>11
<1>4. CASE DetectPort(j)
  <2>1. e.pc = "detect" /\ row' = row /\ unit' = unit
    BY <1>4 DEF DetectPort, AtPc
  <2>2. ex'[j].pc = "insert" /\ ex'[j].slug = e.slug /\ ex'[j].k = e.k
    BY <1>4, GotoAfter DEF Basic, DetectPort, Pcs
  <2>3. \A s \in Slugs, k \in Manifest : Keeps(j, s, k) => Keeps(j, s, k)'
    BY <2>1, <2>2 DEF Keeps
  <2>4. QED
    BY <1>0, <2>1, <2>3, UnitsAlone
<1>5. CASE DetectTimesOut(j)
  <2> DEFINE x == [k |-> e.k, slug |-> e.slug]
  <2>1. row' = row /\ e.pc = "detect" /\ x \in Listing
    BY <1>0, <1>5 DEF DetectTimesOut, AtPc, Listing
  <2>2. PICK refused \in SUBSET {"look", "unit"} : StopUnit(x, refused)
    BY <1>5 DEF DetectTimesOut
  <2>3. ex'[j].pc = "rollback"
    BY <1>5, GotoAfter DEF Basic, DetectTimesOut, Pcs
  <2>4. \A t \in Slugs, l \in Manifest :
          Keeps(j, t, l) => Keeps(j, t, l)' \/ (t = x.slug /\ l = x.k)
    BY <2>1, <2>3 DEF Keeps
  <2> HIDE DEF x
  <2>5. /\ \A t \in Slugs, l \in Manifest : unit'[t][l] \in {unit[t][l], NoUnit}
        /\ \A t \in Slugs, l \in Manifest :
             t = x.slug /\ l = x.k => unit'[t][l] = NoUnit \/ spilled'
    BY <2>1, <2>2, StopUnitAfter DEF Basic
  <2>6. ASSUME NEW t \in Slugs, NEW l \in Manifest, unit'[t][l] # NoUnit
        PROVE  unit[t][l] # NoUnit /\ (Quiet' /\ Keeps(j, t, l) => Keeps(j, t, l)')
    BY <2>4, <2>5, <2>6 DEF Quiet
  <2>7. QED
    BY <1>0, <2>6, UnitsAlone
<1>6. CASE InsertService(j)
  <2> DEFINE s == e.slug
             k == e.k
  <2>1. /\ row'[j][k].slug = s /\ unit' = unit
        /\ \A l \in Manifest : l # k => row'[j][l] = row[j][l]
    <3>1. /\ row'[j][k] = [port |-> e.port, slug |-> s]
          /\ \A i \in Jobs, l \in Manifest : <<i, l>> # <<j, k>> => row'[i][l] = row[i][l]
      BY <1>6, InsertAfter DEF Basic
    <3>2. unit' = unit
      BY <1>6 DEF InsertService
    <3>3. QED
      BY <3>1, <3>2
  <2>2. row[j][k] = NoRow
    <3>1. e.pc = "insert"
      BY <1>6 DEF InsertService, AtPc
    <3>2. QED
      BY <1>0, <3>1 DEF Basic, Sound, Lives, Steps, Manifest
  <2>3. \A t \in Slugs, l \in Manifest : Keeps(j, t, l) => Keeps(j, t, l)'
    <3>1. ex'[j].pc # "removing"
      BY <1>6, InsertAfter DEF Basic
    <3>2. QED
      BY <1>0, <2>1, <2>2, <3>1 DEF Keeps, NoRow
  <2>4. QED
    BY <1>0, <2>1, <2>3, UnitsAlone
<1>7. CASE InsertRefused(j)
  BY <1>7 DEF InsertRefused, UnitsOwned, Quiet
<1>8. CASE StartRollback(j)
  <2>1. e.pc = "rollback" /\ row' = row /\ unit' = unit
    BY <1>8 DEF StartRollback, AtPc
  <2>2. CASE spilled' = TRUE
    BY <2>2 DEF UnitsOwned, Quiet
  <2>3. CASE ex' = [ex EXCEPT ![j].pc = "removing", ![j].left = Listed(j)]
    <3>1. ex'[j].left = Listed(j)
      BY <2>3, ListedTyped, RemovingAfter DEF Basic
    <3>2. ASSUME NEW s \in Slugs, NEW k \in Manifest, row[j][k].slug = s
          PROVE  [k |-> k, slug |-> s] \in Listed(j)
      BY <1>0, <3>2 DEF Listed, Rows, NoRow
    <3>3. \A s \in Slugs, k \in Manifest : Keeps(j, s, k) => Keeps(j, s, k)'
      BY <2>1, <3>1, <3>2 DEF Keeps
    <3>4. QED
      BY <1>0, <2>1, <3>3, UnitsAlone
  <2>4. QED
    BY <1>8, <2>2, <2>3 DEF StartRollback
<1>9. ASSUME NEW x \in e.left, RollbackService(j, x) PROVE UnitsOwned'
  <2>1. x \in Listing /\ RemoveListed(j, x) /\ e.pc = "removing"
    BY <1>0, <1>9 DEF ExRow, ServiceLists, Listing, RollbackService, AtPc
  <2>2. ex'[j].pc = "removing" /\ ex'[j].left = e.left \ {x}
    <3>1. e.left \ {x} \in ServiceLists
      BY <1>0 DEF ExRow, ServiceLists
    <3>2. ex' = [ex EXCEPT ![j].left = e.left \ {x}]
      BY <1>0, <1>9 DEF RollbackService
    <3>3. QED
      BY <2>1, <3>1, <3>2, LeftAfter DEF Basic
  <2>3. /\ \A t \in Slugs, l \in Manifest : unit'[t][l] \in {unit[t][l], NoUnit}
        /\ \A t \in Slugs, l \in Manifest :
             t = x.slug /\ l = x.k => unit'[t][l] = NoUnit \/ spilled'
        /\ \A l \in Manifest : l # x.k => row'[j][l] = row[j][l]
    <3>1. \A i \in Jobs, l \in Manifest : <<i, l>> # <<j, x.k>> => row'[i][l] = row[i][l]
      BY <2>1, RemoveListedAfter DEF Basic
    <3>2. /\ \A t \in Slugs, l \in Manifest : unit'[t][l] \in {unit[t][l], NoUnit}
          /\ \A t \in Slugs, l \in Manifest :
               t = x.slug /\ l = x.k => unit'[t][l] = NoUnit \/ spilled'
      BY <2>1, RemoveListedAfter DEF Basic
    <3>3. QED
      BY <3>1, <3>2
  <2>4. ASSUME Quiet', NEW t \in Slugs, NEW l \in Manifest, Keeps(j, t, l)
        PROVE  Keeps(j, t, l)' \/ (t = x.slug /\ l = x.k)
    <3>1. row[j][l].slug = t /\ [k |-> l, slug |-> t] \in e.left
      BY <2>1, <2>4 DEF Keeps
    <3>2. row[j][x.k].slug = x.slug
      <4>1. j \notin disturbed
        BY <1>0, <2>4 DEF Quiet, Alone
      <4>2. QED
        BY <2>1, <4>1 DEF Basic, Sound, Progress
    <3>3. CASE l = x.k
      BY <3>1, <3>2, <3>3
    <3>4. CASE l # x.k
      <4>1. [k |-> l, slug |-> t] # x
        BY <3>4
      <4>2. QED
        BY <2>2, <2>3, <3>1, <3>4, <4>1 DEF Keeps
    <3>5. QED
      BY <3>3, <3>4
  <2>5. ASSUME NEW t \in Slugs, NEW l \in Manifest, unit'[t][l] # NoUnit
        PROVE  unit[t][l] # NoUnit /\ (Quiet' /\ Keeps(j, t, l) => Keeps(j, t, l)')
    BY <2>3, <2>4, <2>5 DEF Quiet
  <2>6. QED
    BY <1>0, <2>5, UnitsAlone
<1>10. CASE EndRollback(j)
  <2>1. e.pc = "removing" /\ e.left = {} /\ unit' = unit
    BY <1>10 DEF EndRollback, AtPc
  <2>2. \A s \in Slugs, k \in Manifest : ~Keeps(j, s, k)
    BY <2>1 DEF Keeps
  <2>3. QED
    BY <1>0, <2>1, <2>2, UnitsAlone
<1>11. CASE DetectOwnPort(j)
  <2>1. e.pc = "detect" /\ row' = row /\ unit' = unit
    BY <1>11 DEF DetectOwnPort, AtPc
  <2>2. ex'[j].pc = "insert" /\ ex'[j].slug = e.slug /\ ex'[j].k = e.k
    BY <1>0, <1>11 DEF DetectOwnPort, ExRow
  <2>3. \A s \in Slugs, k \in Manifest : Keeps(j, s, k) => Keeps(j, s, k)'
    BY <2>1, <2>2 DEF Keeps
  <2>4. QED
    BY <1>0, <2>1, <2>3, UnitsAlone
<1>12. QED
  BY <1>2, <1>3, <1>4, <1>5, <1>6, <1>7, <1>8, <1>9, <1>10, <1>11 DEF Import

LEMMA UnitsElse ==
  ASSUME Basic, UnitsOwned,
         \/ \E j \in Jobs : Operate(j)
         \/ \E s \in Slugs, k \in Manifest : Listen(s, k)
         \/ PanelStops \/ Boot \/ Recover \/ UNCHANGED importVars
  PROVE  UnitsOwned'
<1>1. ASSUME NEW j \in Jobs, Operate(j) PROVE UnitsOwned'
  <2>1. disturbed' # {}
    BY <1>1 DEF Operate, StartDelete, StartRemoval, RemoveService, EndRemoval, Basic
  <2>2. QED
    BY <2>1 DEF UnitsOwned, Quiet
<1>2. ASSUME NEW s \in Slugs, NEW k \in Manifest, Listen(s, k) PROVE UnitsOwned'
  <2> DEFINE c == [unit[s][k] EXCEPT !.run = "bound"]
  <2>0. unit[s][k] \in UnitCell
    BY Unpacked DEF Basic
  <2>1. c \in UnitCell /\ unit' = [unit EXCEPT ![s][k] = c] /\ unit[s][k] # NoUnit
    BY <1>2, <2>0 DEF UnitCell, Listen, NoUnit
  <2> HIDE DEF c
  <2>2. \A t \in Slugs, l \in Manifest : <<t, l>> # <<s, k>> => unit'[t][l] = unit[t][l]
    BY <2>1, UnitAfter DEF Basic
  <2>3. UNCHANGED <<ex, row, spilled, disturbed>>
    BY <1>2 DEF Listen, importHistory
  <2>4. \A t \in Slugs, l \in Manifest : unit'[t][l] # NoUnit => unit[t][l] # NoUnit
    BY <2>1, <2>2
  <2>5. QED
    BY <2>3, <2>4, UnitsKept DEF Quiet, Keeps
<1>3. CASE PanelStops
  <2>1. CASE disturbed' = {}
    <3>1. disturbed = {} /\ \A i \in Jobs : ~Importing(i)
      BY <1>3, <2>1 DEF PanelStops
    <3>2. UNCHANGED <<row, unit, spilled>>
      BY <1>3 DEF PanelStops
    <3>3. \A i \in Jobs, s \in Slugs, k \in Manifest : Keeps(i, s, k) => Keeps(i, s, k)'
      BY <1>3, <3>1, <3>2 DEF Keeps, Importing, PanelStops, Gone
    <3>4. Quiet' => Quiet
      BY <3>1, <3>2 DEF Quiet
    <3>5. QED
      BY <3>2, <3>3, <3>4, UnitsKept
  <2>2. CASE disturbed' # {}
    BY <2>2 DEF UnitsOwned, Quiet
  <2>3. QED
    BY <2>1, <2>2
<1>4. CASE Boot \/ Recover \/ UNCHANGED importVars
  <2>1. UNCHANGED <<ex, row, unit, spilled>> /\ disturbed \subseteq disturbed'
    BY <1>4 DEF Boot, Recover, importVars, importHistory
  <2>2. QED
    BY <2>1, UnitsKept DEF Quiet, Keeps
<1>5. QED
  BY <1>1, <1>2, <1>3, <1>4

-----------------------------------------------------------------------------
(* The invariant                                                           *)

LEMMA ImportInvBasic ==
  ImportInv <=> Basic /\ PortsApart /\ UnitsOwned
BY DEF ImportInv, Basic, Sound

LEMMA ImportInvInit == ImportInit => ImportInv
<1> SUFFICES ASSUME ImportInit PROVE ImportInv
  OBVIOUS
<1>1. ImportTypeOK /\ op.project = {}
  BY ImportTypeInit DEF ImportInit, NoOp
<1>2. /\ \A i \in Jobs : job[i] = "absent" /\ ex[i].pc = "gone" /\ ex[i].k = 1 /\ slugOf[i] = 0
      /\ \A i \in Jobs, k \in Manifest : row[i][k] = NoRow
      /\ \A s \in Slugs, k \in Manifest : unit[s][k] = NoUnit
  BY DEF ImportInit, Gone
<1>3. \A i \in Jobs : Lives(i) /\ Progress(i)
  BY <1>2 DEF Lives, Progress, Steps, Importing, Holding, Nothing, Rows
<1>4. UnitsPorted
  BY <1>2 DEF UnitsPorted, NoUnit
<1>5. PortsApart
  BY <1>2 DEF PortsApart, PortSharedOnlyUnseen, Holding
<1>6. UnitsOwned
  BY <1>2 DEF UnitsOwned
<1>7. QED
  BY <1>1, <1>3, <1>4, <1>5, <1>6 DEF ImportInv

LEMMA ImportInvariant == ImportSpec => []ImportInv
<1>1. ImportInv /\ [ImportNext]_importVars => ImportInv'
  <2> SUFFICES ASSUME Basic, PortsApart, UnitsOwned, [ImportNext]_importVars
               PROVE  Basic' /\ PortsApart' /\ UnitsOwned'
    BY ImportInvBasic DEF ImportInv, Basic, Sound
  <2>1. Basic'
    BY BasicInductive
  <2>2. PortsApart'
    BY PortsImport, PortsElse DEF ImportNext
  <2>3. UnitsOwned'
    BY UnitsImport, UnitsElse DEF ImportNext
  <2>4. QED
    BY <2>1, <2>2, <2>3
<1>2. QED
  BY <1>1, ImportInvInit, PTL DEF ImportSpec

\* Every variable of ProjectImport keeps its type: a free slug and a free port
\* are found whenever one is asked for.
THEOREM ImportTypeCorrect == ImportSpec => []ImportTypeOK
BY ImportInvariant, PTL DEF ImportInv

\* Whatever fails in an import and whichever imports compete with it, it ends
\* with its project and every service, or with nothing but what the last deletes
\* of its rollback failed to delete, unless the panel stopped in it or the
\* operator interfered (Provision's rollback).
THEOREM AlwaysAllOrNothing == ImportSpec => []AllOrNothing
<1>1. ImportInv => AllOrNothing
  <2> SUFFICES ASSUME ImportInv, NEW j \in Jobs \ disturbed
               PROVE  /\ job[j] = "completed" => Everything(j)
                      /\ job[j] = "failed" =>
                           RolledBack(j) \/ (j \in unrecorded /\ Everything(j))
    BY DEF AllOrNothing
  <2>1. Lives(j) /\ Progress(j)
    BY DEF ImportInv
  <2>2. job[j] \in {"completed", "failed"} => ex[j].pc = "gone"
    BY <2>1 DEF Lives, Importing
  <2>3. QED
    BY <2>1, <2>2 DEF Progress, LeavesAllOrNothing
<1>2. QED
  BY <1>1, ImportInvariant, PTL

\* Two services have one port in their rows only if their imports held it at
\* the same time, or one of them took it without looking it up in the rows.
THEOREM PortsSharedOnlyUnseen == ImportSpec => []PortSharedOnlyUnseen
<1>1. ImportInv => PortSharedOnlyUnseen
  BY DEF ImportInv, PortsApart
<1>2. QED
  BY <1>1, ImportInvariant, PTL

\* A unit that nothing in the panel will stop comes only from an import that
\* failed after it made the unit, from a removal that missed or kept it, from a
\* stop or from the operator.
THEOREM StraysOnlyByFailure == ImportSpec => []StrayOnlyByFailure
<1>1. ImportInv => StrayOnlyByFailure
  <2> SUFFICES ASSUME ImportInv, ~spilled, disturbed = {},
                      NEW s \in Slugs, NEW k \in Manifest, unit[s][k] # NoUnit
               PROVE  Owned(s, k)
    BY DEF StrayOnlyByFailure
  <2>1. PICK j \in Jobs : Keeps(j, s, k)
    BY DEF ImportInv, UnitsOwned, Quiet
  <2>2. QED
    BY <2>1 DEF Keeps, Owned, Importing
<1>2. QED
  BY <1>1, ImportInvariant, PTL
=============================================================================
