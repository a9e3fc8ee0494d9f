----------------------------- MODULE ServiceSync -----------------------------
(***************************************************************************)
(* Synchronisation of firewall services and service groups between         *)
(* FortiGates and Nautobot: the firewall jobs on firewall.service/custom   *)
(* and firewall.service/group.                                             *)
(*                                                                         *)
(* A service is a name on the device, and its protocol and ports may       *)
(* change; a ServiceObject row IS its protocol, port and name, it carries  *)
(* no hostname, and every FortiGate's adapter loads the whole table.  Jobs *)
(* of different FortiGates therefore meet in one pool of rows, while their *)
(* groups are kept apart by mangled names.                                 *)
(*                                                                         *)
(* SCTP is left out (it travels as UDP does, number 132 as 17), and so is  *)
(* ICMP with its types (like a TCP port).  A group's description is what   *)
(* Strip of AddressSync leaves.                                            *)
(***************************************************************************)
EXTENDS Naturals, FiniteSets

CONSTANTS
    Hosts,            \* FortiGates, each with its own client
    Names,            \* names of services on a device
    Groups,           \* names of service groups
    Ports, NoPort,    \* port ranges as Nautobot writes them, and none
    Protocols,        \* names of mapped IP protocols: "HOPOPT" (any), TCP, UDP, ...
    Unmapped,         \* a protocol-number that is not in the mapping
    Foreign,          \* an ip_protocol of Nautobot that is not in the mapping
    Proxied,          \* a protocol of FortiOS (HTTP, FTP, SOCKS) Nautobot does not have
    Text,             \* comments
    None, Absent,
    Jobs,             \* job slots
    ProtectOnDelete,  \* firewall-models' protect_on_delete setting
    InitialWorlds, DeviceEdits, RowEdits,
    MaxEdits, MaxRuns

ASSUME ConstantsAssumption ==
    /\ {"HOPOPT", "TCP", "UDP"} \subseteq Protocols
    /\ {Foreign, Proxied} \cap Protocols = {} /\ Foreign # Proxied
    /\ Proxied \notin {"TCP/UDP/SCTP", "IP", "ALL"}
    /\ {None, Unmapped} \cap Protocols = {} /\ None # Unmapped
    /\ NoPort \notin Ports
    /\ Names \cap Groups = {}
    /\ Hosts # {}
    /\ ProtectOnDelete \in BOOLEAN
    /\ MaxEdits \in Nat /\ MaxRuns \in Nat

VARIABLES
    svc,      \* svc[h][n]: the service n of device h, or Absent
    grp,      \* grp[h][g]: its service group g, or Absent
    pool,     \* pool[k]: the comment of ServiceObject row k, or Absent
    rowGrp,   \* rowGrp[h][g]: the ServiceObjectGroup row of h's group g, or Absent
    phase, req, src, dst, todo,   \* the jobs, as in AddressSync
    touched,  \* jobs under whose feet someone else changed a store
    edits, runs

deviceVars == <<svc, grp>>
rowVars == <<pool, rowGrp>>
worldVars == <<deviceVars, rowVars>>
vars == <<svc, grp, pool, rowGrp, phase, req, src, dst, todo, touched, edits, runs>>

----------------------------------------------------------------------------
(* Records.                                                                *)

\* A port range of FortiOS may restrict the source ports too ("513:512-1023").
Range == [port : Ports, source : BOOLEAN] \cup {None}
Definition ==
    [protocol : {"TCP/UDP/SCTP"}, tcp : Range, udp : Range]
    \cup [protocol : {"IP"}, number : Protocols \cup {Unmapped, None}]
    \cup [protocol : {"ALL", Proxied}]
Service == [def : Definition, comment : Text]
Group == [members : SUBSET (Names \cup Groups), comment : Text]

\* The natural key of a row: protocol, port and name.
Kinds == ({"TCP", "UDP"} \X (Ports \cup {NoPort}))
         \cup ((Protocols \cup {Foreign, Proxied}) \X {NoPort})
Keys == {<<kind[1], kind[2], n>> : kind \in Kinds, n \in Names}
Key(kind, n) == <<kind[1], kind[2], n>>
RowGroup == [members : SUBSET Keys, comment : Text]

Elements == Keys \cup Groups

ASSUME NothingAssumption ==
    /\ Absent \notin Text \cup Service \cup Group \cup RowGroup
    /\ None \notin [port : Ports, source : BOOLEAN] \cup Definition \cup Kinds \cup Keys
    /\ Keys \cap Groups = {}

\* What the groups of Nautobot hold are rows of the pool.
WorldTyped(s, g, p, r) ==
    /\ s \in [Hosts -> [Names -> Service \cup {Absent}]]
    /\ g \in [Hosts -> [Groups -> Group \cup {Absent}]]
    /\ p \in [Keys -> Text \cup {Absent}]
    /\ r \in [Hosts -> [Groups -> RowGroup \cup {Absent}]]
    /\ \A h \in Hosts, x \in Groups :
          r[h][x] # Absent => \A k \in r[h][x].members : p[k] # Absent

ASSUME WorldsAssumption ==
    /\ \A w \in InitialWorlds : WorldTyped(w.svc, w.grp, w.pool, w.rowGrp)
    /\ \A e \in DeviceEdits :
          /\ e.name \in Names => e.record \in Service \cup {Absent}
          /\ e.name \in Groups => e.record \in Group \cup {Absent}
    /\ \A e \in RowEdits : {e.key, e.new} \subseteq Keys /\ e.comment \in Text

----------------------------------------------------------------------------
(* Conversions.                                                            *)

TcpUdp(tcp, udp) == [protocol |-> "TCP/UDP/SCTP", tcp |-> tcp, udp |-> udp]
PortOf(range) == range.port

\* fortios_service_ports: TCP wins over UDP, the restriction of source ports
\* is dropped, no number and "ALL" both mean any protocol, the numbers 6 and
\* 17 mean TCP and UDP without a port, and what is left is taken as it stands.
ServicePorts(d) ==
    CASE d.protocol = "TCP/UDP/SCTP" ->
           IF d.tcp # None THEN <<"TCP", PortOf(d.tcp)>>
           ELSE IF d.udp # None THEN <<"UDP", PortOf(d.udp)>>
           ELSE <<"TCP", NoPort>>
      [] d.protocol = "IP" ->
           IF d.number = Unmapped THEN None
           ELSE <<IF d.number = None THEN "HOPOPT" ELSE d.number, NoPort>>
      [] d.protocol = "ALL" -> <<"HOPOPT", NoPort>>
      [] OTHER -> <<d.protocol, NoPort>>

\* There is a payload for the row: for the others it is None.
Pushable(k) == k[1] \in Protocols

SentRange(k) == IF k[2] = NoPort THEN None ELSE [port |-> k[2], source |-> FALSE]

\* Defect: the port range is always sent as tcp-portrange.
DefineAsTcp(k, old) ==
    IF k[1] \in {"TCP", "UDP"} THEN TcpUdp(SentRange(k), None)
    ELSE [protocol |-> "IP", number |-> k[1]]

\* Defect: the port range is sent in both fields.
DefineBoth(k, old) ==
    IF k[1] \in {"TCP", "UDP"} THEN TcpUdp(SentRange(k), SentRange(k))
    ELSE [protocol |-> "IP", number |-> k[1]]

\* build_fortios_service_payload, as FortiOS applies it to the definition it
\* has: a range that is not sent stays, and no port is an empty range.
Define(k, old) ==
    LET was == IF old # None /\ old.protocol = "TCP/UDP/SCTP" THEN old ELSE TcpUdp(None, None)
    IN  CASE k[1] = "TCP" -> [was EXCEPT !.tcp = SentRange(k)]
          [] k[1] = "UDP" -> [was EXCEPT !.udp = SentRange(k)]
          [] k[1] \in Protocols \ {"TCP", "UDP"} -> [protocol |-> "IP", number |-> k[1]]

----------------------------------------------------------------------------
(* What the adapters load.                                                 *)

\* The key under which a device's service is known, None if it is skipped.
KeyOf(h, n) ==
    IF svc[h][n] = Absent \/ ServicePorts(svc[h][n].def) = None THEN None
    ELSE Key(ServicePorts(svc[h][n].def), n)

FgtServices(h) ==
    [k \in Keys |-> IF KeyOf(h, k[3]) = k THEN svc[h][k[3]].comment ELSE Absent]

\* Members that are not among the services just loaded are skipped.
FgtGroups(h, store) ==
    [g \in Groups |->
        IF grp[h][g] = Absent THEN Absent
        ELSE [members |-> {k \in Keys : store[k] # Absent /\ k[3] \in grp[h][g].members},
              comment |-> grp[h][g].comment]]

EmptyStore == [e \in Elements |-> Absent]
With(store, part) == [e \in Elements |-> IF e \in DOMAIN part THEN part[e] ELSE store[e]]

\* Rows of services are loaded unscoped, groups by their prefix.
ServicesOf(kind, h) == IF kind = "device" THEN FgtServices(h) ELSE pool
GroupsOf(kind, h, store) == IF kind = "device" THEN FgtGroups(h, store) ELSE rowGrp[h]

SourceKind(j) == IF req[j].kind = "pull" THEN "device" ELSE "rows"
TargetKind(j) == IF req[j].kind = "pull" THEN "rows" ELSE "device"

----------------------------------------------------------------------------
(* The job.                                                                *)

Idle == {"idle", "done", "failed", "crashed"}
Running == {"source", "sourceGroups", "target", "targetGroups", "loaded", "syncing"}
Requests == [kind : {"pull", "push"}, host : Hosts, delete : BOOLEAN]
NoWork == [write |-> {}, delete |-> {}]

Init ==
    /\ \E w \in InitialWorlds :
          svc = w.svc /\ grp = w.grp /\ pool = w.pool /\ rowGrp = w.rowGrp
    /\ phase = [j \in Jobs |-> "idle"]
    /\ req = [j \in Jobs |->
                [kind |-> "pull", host |-> CHOOSE h \in Hosts : TRUE, delete |-> FALSE]]
    /\ src = [j \in Jobs |-> EmptyStore]
    /\ dst = [j \in Jobs |-> EmptyStore]
    /\ todo = [j \in Jobs |-> NoWork]
    /\ touched = {}
    /\ edits = 0 /\ runs = 0

Advance(j, p) == phase' = [phase EXCEPT ![j] = p]

Start(j) ==
    /\ phase[j] \in Idle
    /\ runs < MaxRuns
    /\ \E r \in Requests : req' = [req EXCEPT ![j] = r]
    /\ Advance(j, "source")
    /\ src' = [src EXCEPT ![j] = EmptyStore]
    /\ dst' = [dst EXCEPT ![j] = EmptyStore]
    /\ todo' = [todo EXCEPT ![j] = NoWork]
    /\ touched' = touched \ {j}
    /\ runs' = runs + 1
    /\ UNCHANGED <<worldVars, edits>>

LoadSourceServices(j) ==
    /\ phase[j] = "source"
    /\ src' = [src EXCEPT ![j] = With(@, ServicesOf(SourceKind(j), req[j].host))]
    /\ Advance(j, "sourceGroups")
    /\ UNCHANGED <<worldVars, req, dst, todo, touched, edits, runs>>

LoadSourceGroups(j) ==
    /\ phase[j] = "sourceGroups"
    /\ src' = [src EXCEPT ![j] = With(@, GroupsOf(SourceKind(j), req[j].host, @))]
    /\ Advance(j, "target")
    /\ UNCHANGED <<worldVars, req, dst, todo, touched, edits, runs>>

LoadTargetServices(j) ==
    /\ phase[j] = "target"
    /\ dst' = [dst EXCEPT ![j] = With(@, ServicesOf(TargetKind(j), req[j].host))]
    /\ Advance(j, "targetGroups")
    /\ UNCHANGED <<worldVars, req, src, todo, touched, edits, runs>>

LoadTargetGroups(j) ==
    /\ phase[j] = "targetGroups"
    /\ dst' = [dst EXCEPT ![j] = With(@, GroupsOf(TargetKind(j), req[j].host, @))]
    /\ Advance(j, "loaded")
    /\ UNCHANGED <<worldVars, req, src, todo, touched, edits, runs>>

Writes(from, to) == {e \in Elements : from[e] # Absent /\ from[e] # to[e]}
Deletes(from, to) == {e \in Elements : from[e] = Absent /\ to[e] # Absent}

ExecuteSync(j) ==
    /\ phase[j] = "loaded"
    /\ todo' = [todo EXCEPT ![j] =
          [write |-> Writes(src[j], dst[j]),
           delete |-> IF req[j].delete THEN Deletes(src[j], dst[j]) ELSE {}]]
    /\ Advance(j, "syncing")
    /\ UNCHANGED <<worldVars, req, src, dst, touched, edits, runs>>

\* Defect: top_level does not list services before their groups.
TurnInAnyOrder(j, kind, op, e) ==
    /\ phase[j] = "syncing" /\ req[j].kind = kind
    /\ e \in todo[j][op]

\* top_level: services, then groups; in a kind, what the source has goes first.
Turn(j, kind, op, e) ==
    /\ phase[j] = "syncing" /\ req[j].kind = kind
    /\ e \in todo[j][op]
    /\ e \in Groups => (todo[j].write \cup todo[j].delete) \subseteq Groups
    /\ op = "delete" => todo[j].write \cap (IF e \in Keys THEN Keys ELSE Groups) = {}

Applied(j, e) ==
    /\ todo' = [todo EXCEPT ![j] = [write |-> @.write \ {e}, delete |-> @.delete \ {e}]]
    /\ touched' = touched \cup (Jobs \ {j})
    /\ UNCHANGED <<phase, req, src, dst, edits, runs>>

Raised(j) ==
    /\ Advance(j, "failed")
    /\ UNCHANGED <<worldVars, req, src, dst, todo, touched, edits, runs>>

----------------------------------------------------------------------------
(* Pulling.                                                                *)

PutRow(k, c) == pool' = [pool EXCEPT ![k] = c] /\ UNCHANGED <<deviceVars, rowGrp>>
PutRowGroup(h, g, r) == rowGrp' = [rowGrp EXCEPT ![h][g] = r] /\ UNCHANGED <<deviceVars, pool>>

\* firewall-models may validate what is saved, and a proxied protocol is none
\* of its choices: a ValidationError, which ends the job.
Save(j, k) ==
    \/ PutRow(k, src[j][k]) /\ Applied(j, k)
    \/ k[1] = Proxied /\ Raised(j)

PullServiceCreate(j, k) ==
    /\ Turn(j, "pull", "write", k)
    /\ dst[j][k] = Absent
    /\ Save(j, k)

PullServiceUpdate(j, k) ==
    /\ Turn(j, "pull", "write", k)
    /\ dst[j][k] # Absent
    /\ \/ pool[k] = Absent /\ UNCHANGED worldVars /\ Applied(j, k)
       \/ pool[k] # Absent /\ Save(j, k)

\* Defect: rows are deleted by name, whatever their protocol and port.
DeletedWithNames(k) == {m \in Keys : m[3] = k[3]}

Deleted(k) == {k}

\* Deleted rows leave the groups that hold them, of whatever FortiGate.
RemoveRows(ks) ==
    /\ pool' = [k \in Keys |-> IF k \in ks THEN Absent ELSE pool[k]]
    /\ rowGrp' = [h \in Hosts |-> [g \in Groups |->
          IF rowGrp[h][g] = Absent THEN Absent
          ELSE [rowGrp[h][g] EXCEPT !.members = @ \ ks]]]
    /\ UNCHANGED deviceVars

Protected(k) ==
    /\ ProtectOnDelete
    /\ \E h \in Hosts, g \in Groups : rowGrp[h][g] # Absent /\ k \in rowGrp[h][g].members

PullServiceDelete(j, k) ==
    /\ Turn(j, "pull", "delete", k)
    /\ \/ Protected(k) /\ Raised(j)
       \/ ~Protected(k) /\ RemoveRows(Deleted(k)) /\ Applied(j, k)

\* Defect: members are related without asking whether they have a row.
FoundBlindly(ks) == ks

\* Members are looked up by their whole key; what has no row drops out.
Found(ks) == {k \in ks : pool[k] # Absent}

PullGroupCreate(j, g) ==
    /\ Turn(j, "pull", "write", g)
    /\ dst[j][g] = Absent
    /\ PutRowGroup(req[j].host, g, [members |-> Found(src[j][g].members), comment |-> src[j][g].comment])
    /\ Applied(j, g)

\* The description is never written.
PullGroupUpdate(j, g) ==
    LET h == req[j].host IN
    /\ Turn(j, "pull", "write", g)
    /\ dst[j][g] # Absent
    /\ IF rowGrp[h][g] = Absent \/ src[j][g].members = dst[j][g].members
       THEN UNCHANGED worldVars
       ELSE PutRowGroup(h, g, [rowGrp[h][g] EXCEPT !.members = Found(src[j][g].members)])
    /\ Applied(j, g)

PullGroupDelete(j, g) ==
    /\ Turn(j, "pull", "delete", g)
    /\ PutRowGroup(req[j].host, g, Absent)
    /\ Applied(j, g)

----------------------------------------------------------------------------
(* Pushing.                                                                *)

PutService(h, n, r) == svc' = [svc EXCEPT ![h][n] = r] /\ UNCHANGED <<grp, rowVars>>
PutGroup(h, g, r) == grp' = [grp EXCEPT ![h][g] = r] /\ UNCHANGED <<svc, rowVars>>

Call(j, e, accepted, write) ==
    \/ accepted /\ write /\ Applied(j, e)
    \/ ~accepted /\ Raised(j)

InUse(h, n) == \E g \in Groups : grp[h][g] # Absent /\ n \in grp[h][g].members

\* No payload, no call.
Skip(j, k) == ~Pushable(k) /\ UNCHANGED worldVars /\ Applied(j, k)

PushServiceCreate(j, k) ==
    LET h == req[j].host IN
    /\ Turn(j, "push", "write", k)
    /\ dst[j][k] = Absent
    /\ \/ Skip(j, k)
       \/ /\ Pushable(k)
          /\ Call(j, k, svc[h][k[3]] = Absent,
                  PutService(h, k[3], [def |-> Define(k, None), comment |-> src[j][k]]))

\* The whole payload is sent, to the name.
PushServiceUpdate(j, k) ==
    LET h == req[j].host
        n == k[3]
    IN
    /\ Turn(j, "push", "write", k)
    /\ dst[j][k] # Absent
    /\ \/ Skip(j, k)
       \/ /\ Pushable(k)
          /\ Call(j, k, svc[h][n] # Absent,
                  PutService(h, n, [def |-> Define(k, svc[h][n].def), comment |-> src[j][k]]))

PushServiceDelete(j, k) ==
    LET h == req[j].host IN
    /\ Turn(j, "push", "delete", k)
    /\ Call(j, k, svc[h][k[3]] # Absent /\ ~InUse(h, k[3]), PutService(h, k[3], Absent))

\* Members are sent by their names alone.
GroupPayload(r) == [members |-> {k[3] : k \in r.members}, comment |-> r.comment]
MembersExist(h, r) ==
    \A m \in r.members : IF m \in Names THEN svc[h][m] # Absent ELSE grp[h][m] # Absent

PushGroupCreate(j, g) ==
    LET h == req[j].host
        r == GroupPayload(src[j][g])
    IN
    /\ Turn(j, "push", "write", g)
    /\ dst[j][g] = Absent
    /\ Call(j, g, grp[h][g] = Absent /\ MembersExist(h, r), PutGroup(h, g, r))

PushGroupUpdate(j, g) ==
    LET h == req[j].host
        r == GroupPayload(src[j][g])
    IN
    /\ Turn(j, "push", "write", g)
    /\ dst[j][g] # Absent
    /\ Call(j, g, grp[h][g] # Absent /\ MembersExist(h, r), PutGroup(h, g, r))

PushGroupDelete(j, g) ==
    LET h == req[j].host IN
    /\ Turn(j, "push", "delete", g)
    /\ Call(j, g, grp[h][g] # Absent /\ ~InUse(h, g), PutGroup(h, g, Absent))

Finish(j) ==
    /\ phase[j] = "syncing"
    /\ todo[j] = NoWork
    /\ Advance(j, "done")
    /\ UNCHANGED <<worldVars, req, src, dst, todo, touched, edits, runs>>

Crash(j) ==
    /\ phase[j] \in Running
    /\ Advance(j, "crashed")
    /\ UNCHANGED <<worldVars, req, src, dst, todo, touched, edits, runs>>

----------------------------------------------------------------------------
(* Operators.                                                              *)

Edited ==
    /\ edits < MaxEdits
    /\ edits' = edits + 1
    /\ touched' = Jobs
    /\ UNCHANGED <<phase, req, src, dst, todo, runs>>

DeviceServiceEdit(h, n, r) ==
    /\ Edited
    /\ r # svc[h][n]
    /\ r = Absent => ~InUse(h, n)
    /\ PutService(h, n, r)

DeviceGroupEdit(h, g, r) ==
    /\ Edited
    /\ r # grp[h][g]
    /\ IF r = Absent THEN ~InUse(h, g) ELSE g \notin r.members /\ MembersExist(h, r)
    /\ PutGroup(h, g, r)

\* A user creates row k, or edits its comment.
RowEdit(k, c) ==
    /\ Edited
    /\ c # pool[k]
    /\ PutRow(k, c)

\* A user gives a row another port or protocol: groups hold the row, and see
\* its new key.
RowRekey(k, new) ==
    /\ Edited
    /\ pool[k] # Absent /\ pool[new] = Absent
    /\ pool' = [pool EXCEPT ![k] = Absent, ![new] = pool[k]]
    /\ rowGrp' = [h \in Hosts |-> [g \in Groups |->
          IF rowGrp[h][g] = Absent \/ k \notin rowGrp[h][g].members THEN rowGrp[h][g]
          ELSE [rowGrp[h][g] EXCEPT !.members = (@ \ {k}) \cup {new}]]]
    /\ UNCHANGED deviceVars

RowDelete(k) ==
    /\ Edited
    /\ pool[k] # Absent /\ ~Protected(k)
    /\ RemoveRows({k})

Operators ==
    \/ \E e \in DeviceEdits, h \in Hosts :
          \/ e.name \in Names /\ DeviceServiceEdit(h, e.name, e.record)
          \/ e.name \in Groups /\ DeviceGroupEdit(h, e.name, e.record)
    \/ \E e \in RowEdits :
          \/ RowEdit(e.key, e.comment)
          \/ RowRekey(e.key, e.new)
          \/ RowDelete(e.key)

Load(j) ==
    \/ LoadSourceServices(j) \/ LoadSourceGroups(j)
    \/ LoadTargetServices(j) \/ LoadTargetGroups(j)

Pull(j) ==
    \/ \E k \in Keys : PullServiceCreate(j, k) \/ PullServiceUpdate(j, k) \/ PullServiceDelete(j, k)
    \/ \E g \in Groups : PullGroupCreate(j, g) \/ PullGroupUpdate(j, g) \/ PullGroupDelete(j, g)

Push(j) ==
    \/ \E k \in Keys : PushServiceCreate(j, k) \/ PushServiceUpdate(j, k) \/ PushServiceDelete(j, k)
    \/ \E g \in Groups : PushGroupCreate(j, g) \/ PushGroupUpdate(j, g) \/ PushGroupDelete(j, g)

Work(j) == Load(j) \/ ExecuteSync(j) \/ Pull(j) \/ Push(j) \/ Finish(j)

Next ==
    \/ \E j \in Jobs : Start(j) \/ Work(j) \/ Crash(j)
    \/ Operators

Spec == Init /\ [][Next]_vars

----------------------------------------------------------------------------
(* Properties.                                                             *)

Loaded(f) ==
    /\ f = [e \in Elements |-> f[e]]
    /\ \A k \in Keys : f[k] \in Text \cup {Absent}
    /\ \A g \in Groups : f[g] \in RowGroup \cup {Absent}

\* Every variable has its type, and what a group row holds are rows of the
\* pool, whichever jobs and users delete or rename them.
TypeOK ==
    /\ WorldTyped(svc, grp, pool, rowGrp)
    /\ phase \in [Jobs -> Idle \cup Running]
    /\ req \in [Jobs -> Requests]
    /\ src = [j \in Jobs |-> src[j]] /\ dst = [j \in Jobs |-> dst[j]]
    /\ \A j \in Jobs : Loaded(src[j]) /\ Loaded(dst[j])
    /\ todo \in [Jobs -> [write : SUBSET Elements, delete : SUBSET Elements]]
    /\ touched \subseteq Jobs /\ edits \in 0..MaxEdits /\ runs \in 0..MaxRuns

(***************************************************************************)
(* What holds of an undisturbed run on its way.                            *)
(***************************************************************************)
Applying == {"syncing", "done", "failed"}
Pending(j) == todo[j].write \cup todo[j].delete
ServicesDone(j) == Pending(j) \subseteq Groups

\* What remains of the diff is part of the diff; no group that differs is
\* worked off before the last service; nothing is deleted without order.
PlanFollowsDiff(j) ==
    phase[j] \in Applying =>
        /\ todo[j].write \subseteq Writes(src[j], dst[j])
        /\ todo[j].delete \subseteq Deletes(src[j], dst[j])
        /\ ~req[j].delete => todo[j].delete = {}
        /\ ServicesDone(j) \/ Writes(src[j], dst[j]) \cap Groups \subseteq todo[j].write
        /\ phase[j] = "done" => todo[j] = NoWork

Read(kind, h) ==
    [e \in Elements |->
        IF e \in Keys THEN ServicesOf(kind, h)[e] ELSE GroupsOf(kind, h, ServicesOf(kind, h))[e]]
SourceNames(p) ==
    IF p = "source" THEN {} ELSE IF p = "sourceGroups" THEN Keys ELSE Elements
TargetNames(p) == IF p = "targetGroups" THEN Keys ELSE Elements

\* A job does not write its source: what it has loaded is still there.
SourceIsCurrent(j) ==
    j \notin touched /\ phase[j] \notin {"idle", "crashed"} =>
        \A e \in SourceNames(phase[j]) : src[j][e] = Read(SourceKind(j), req[j].host)[e]

TargetIsCurrent(j) ==
    j \notin touched /\ phase[j] \in {"targetGroups", "loaded"} =>
        \A e \in TargetNames(phase[j]) : dst[j][e] = Read(TargetKind(j), req[j].host)[e]

\* What element e of the target stands at, according to the two adapters and
\* the plan: as it was loaded, until its turn has come.
Outcome(j, e) ==
    IF e \in Pending(j) THEN dst[j][e]
    ELSE IF src[j][e] # Absent THEN src[j][e]
    ELSE IF req[j].delete THEN Absent
    ELSE dst[j][e]

\* A pull leaves a group with the members that have a row, now, and with the
\* comment it was created with.
PulledGroup(j, g) ==
    IF Outcome(j, g) = Absent THEN Absent
    ELSE [members |-> {k \in Outcome(j, g).members : pool[k] # Absent},
          comment |-> IF dst[j][g] = Absent THEN Outcome(j, g).comment ELSE dst[j][g].comment]

PullIsOnCourse(j) ==
    j \notin touched /\ phase[j] \in Applying /\ req[j].kind = "pull" =>
        /\ \A k \in Keys : pool[k] = Outcome(j, k)
        /\ \A g \in Groups : rowGrp[req[j].host][g] = PulledGroup(j, g)
        /\ \A g \in Groups : dst[j][g] # Absent =>
              \A k \in dst[j][g].members : dst[j][k] # Absent

\* A push leaves rows without a payload as the device has them, unless it
\* deletes them.
PushOutcome(j, k) == IF Pushable(k) \/ src[j][k] = Absent THEN Outcome(j, k) ELSE dst[j][k]

\* The key that a row sent to the device is read back by: without a port, UDP
\* becomes TCP.
Arrived(k) == IF k[1] = "UDP" /\ k[2] = NoPort THEN Key(<<"TCP", NoPort>>, k[3]) ELSE k

\* The key by which the device's adapter knows row k: what was sent is read as
\* it arrived.
PushedAs(j, k) == IF k \in Writes(src[j], dst[j]) \ todo[j].write /\ Pushable(k) THEN Arrived(k) ELSE k

\* It leaves a group as it is or sends it whole.
PushedGroup(j, g) ==
    LET h == req[j].host IN
    IF g \in Writes(src[j], dst[j]) \ todo[j].write
    THEN grp[h][g] = [members |-> {k[3] : k \in src[j][g].members}, comment |-> src[j][g].comment]
    ELSE IF req[j].delete /\ g \in Deletes(src[j], dst[j]) \ todo[j].delete
    THEN grp[h][g] = Absent
    ELSE FgtGroups(h, dst[j])[g] = dst[j][g]

\* The services of the device are the rows that have one, and no two of these
\* share a name.
PushedServices(j) ==
    LET services == FgtServices(req[j].host)
        HasOne(k) == PushOutcome(j, k) # Absent
    IN
    /\ \A k \in Keys : HasOne(k) => services[PushedAs(j, k)] = PushOutcome(j, k)
    /\ \A m \in Keys : services[m] # Absent => \E k \in Keys : HasOne(k) /\ PushedAs(j, k) = m
    /\ \A k, m \in Keys : HasOne(k) /\ HasOne(m) /\ k[3] = m[3] => k = m

PushIsOnCourse(j) ==
    j \notin touched /\ phase[j] \in Applying /\ req[j].kind = "push" =>
        PushedServices(j) /\ \A g \in Groups : PushedGroup(j, g)

\* The inductive invariant: the side an undisturbed job writes reads, at every
\* moment, as its two adapters and what is left of its plan say.
SyncInvariant ==
    /\ TypeOK
    /\ \A j \in Jobs :
          /\ PlanFollowsDiff(j) /\ SourceIsCurrent(j) /\ TargetIsCurrent(j)
          /\ PullIsOnCourse(j) /\ PushIsOnCourse(j)

JobStep == edits' = edits
Clean(j, kind) == phase[j] = "done" /\ j \notin touched /\ req[j].kind = kind

\* After a clean pull the pool holds each readable service of the device with
\* its comment, and each group of it holds exactly the rows of its readable
\* members; only the comment of a group that had a row before is the old one.
\* A destructive pull leaves the pool nothing else.
PullMirrorsServices ==
    \A j \in Jobs : Clean(j, "pull") =>
        LET h == req[j].host
            services == FgtServices(h)
            groups == FgtGroups(h, services)
        IN
        /\ \A k \in Keys :
              /\ services[k] # Absent => pool[k] = services[k]
              /\ services[k] = Absent /\ req[j].delete => pool[k] = Absent
        /\ \A g \in Groups :
              /\ groups[g] # Absent =>
                    /\ rowGrp[h][g] # Absent
                    /\ rowGrp[h][g].members = groups[g].members
                    /\ rowGrp[h][g].comment =
                          IF dst[j][g] = Absent THEN groups[g].comment ELSE dst[j][g].comment
              /\ groups[g] = Absent /\ req[j].delete => rowGrp[h][g] = Absent

\* After a clean push every row of the pool that FortiOS can express, of
\* whichever FortiGate it came from, is a service of this device under its
\* name, so no two such rows share their name.  It reads back as that row,
\* except that a UDP row without a port reads back as TCP if it was sent, and
\* the next push will find its name taken.  Groups read back as they are, but
\* for members FortiOS cannot express.
PushMirrorsPool ==
    \A j \in Jobs : Clean(j, "push") =>
        LET h == req[j].host
            services == FgtServices(h)
            groups == FgtGroups(h, services)
        IN
        /\ \A k \in Keys : pool[k] # Absent /\ Pushable(k) => services[PushedAs(j, k)] = pool[k]
        /\ \A k, m \in Keys :
              /\ pool[k] # Absent /\ Pushable(k)
              /\ pool[m] # Absent /\ Pushable(m)
              => k = m \/ k[3] # m[3]
        /\ \A g \in Groups : rowGrp[h][g] # Absent =>
              /\ groups[g] # Absent /\ groups[g].comment = rowGrp[h][g].comment
              /\ {PushedAs(j, k) : k \in {m \in rowGrp[h][g].members : Pushable(m)}}
                    \subseteq groups[g].members
        /\ req[j].delete =>
              /\ \A m \in Keys : services[m] # Absent =>
                    \E k \in Keys : pool[k] # Absent /\ PushedAs(j, k) = m
              /\ \A g \in Groups : groups[g] # Absent => rowGrp[h][g] # Absent

\* Why a job that nobody disturbed can die.  A pull: the device has a service
\* of a protocol Nautobot does not have, or it is destructive and met a
\* protected row.  A push: a row's name is taken by a service that does not
\* read as that row (its port was changed on one side, another FortiGate's
\* service has the same name, the device's cannot be read) or that it has just
\* sent for a row which reads back as this one; a group holds a row FortiOS
\* cannot express; or it is destructive and met a record in use.
AbortsAreExplained ==
    \A j \in Jobs : phase[j] = "failed" /\ j \notin touched =>
        LET h == req[j].host IN
        \/ /\ req[j].kind = "pull"
           /\ \/ \E k \in todo[j].write \cap Keys : k[1] = Proxied
              \/ req[j].delete /\ \E k \in todo[j].delete \cap Keys : Protected(k)
        \/ /\ req[j].kind = "push"
           /\ \/ \E k \in todo[j].write \cap Keys :
                    /\ svc[h][k[3]] # Absent
                    /\ \/ KeyOf(h, k[3]) # k
                       \/ \E m \in Keys \ {k} : pool[m] # Absent /\ PushedAs(j, m) = k
              \/ \E g \in todo[j].write \cap Groups :
                    \E k \in src[j][g].members : ~Pushable(k) /\ svc[h][k[3]] = Absent
              \/ /\ req[j].delete
                 /\ \E e \in todo[j].delete : InUse(h, IF e \in Groups THEN e ELSE e[3])

\* What a push nobody disturbs may do to the definition of a service that
\* exists: drop a restriction of source ports, of the range it is read by, and
\* spell "any protocol" differently.  The IP protocols 6 and 17 it rewrites as
\* TCP/UDP/SCTP without a range: that alone is another meaning.
PushKeepsMeaning ==
    [][\A j \in Jobs, h \in Hosts, n \in Names :
          JobStep /\ todo'[j] # todo[j] /\ j \notin touched
             /\ svc[h][n] # Absent /\ svc'[h][n] # Absent
          => LET was == svc[h][n].def
                 is == svc'[h][n].def
             IN  \/ is = was
                 \/ ServicePorts(was) = <<"HOPOPT", NoPort>> /\ ServicePorts(is) = ServicePorts(was)
                 \/ /\ was.protocol = "IP" /\ was.number \in {"TCP", "UDP"}
                    /\ is = TcpUdp(None, None)
                 \/ /\ was.protocol = "TCP/UDP/SCTP"
                    /\ \/ was.tcp # None /\ is = [was EXCEPT !.tcp.source = FALSE]
                       \/ was.tcp = None /\ is = [was EXCEPT !.udp.source = FALSE]]_vars

\* The pool is shared: a step of a job takes a row out of it only in a
\* destructive pull, only a row its FortiGate did not have when it was loaded,
\* and never one that a group of any FortiGate holds when rows are protected.
PoolKeepsOthers ==
    [][\A j \in Jobs, k \in Keys :
          JobStep /\ todo'[j] # todo[j] /\ pool[k] # Absent /\ pool'[k] = Absent
          => /\ req[j].kind = "pull" /\ req[j].delete
             /\ src[j][k] = Absent
             /\ ~Protected(k)]_vars
=============================================================================
