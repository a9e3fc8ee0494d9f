----------------------------- MODULE DeviceSync -----------------------------
(***************************************************************************)
(* Synchronisation of one FortiGate's interfaces and static routes with    *)
(* its dcim.Device in Nautobot: the pull job (FortiGateDevicesDataSource)  *)
(* and the push job (FortiGateDevicesDataTarget), one run at a time, with  *)
(* operators editing both sides.                                           *)
(*                                                                         *)
(* The interface table of a FortiGate covers all its VDOMs, and each entry *)
(* names its own; router.static is the table of the one VDOM the client    *)
(* talks to, RootVdom.  A Nautobot interface row has no VDOM.              *)
(*                                                                         *)
(* Plain attributes that travel like the description without its marker    *)
(* (enabled, mtu; distance, priority) and the serial are left out.  Device *)
(* type, role, location and status are one scope, which the form of a pull *)
(* gives.                                                                  *)
(***************************************************************************)
EXTENDS Naturals, Sequences, FiniteSets

CONSTANTS
    Host,           \* the name of the FortiGate and of its Device row
    Ifaces,         \* interface names
    Seqs,           \* seq-nums of static routes
    Vdoms,          \* virtual domains
    RootVdom,       \* the one the REST client talks to
    VlanIds,        \* 802.1Q ids
    Hosts,          \* IP addresses, ordered like their text
    Masks,          \* prefix lengths
    Scopes,         \* device types, roles, locations and statuses, taken together
    Dests,          \* route destinations
    Gateway,        \* a next hop
    Texts,          \* descriptions and comments, as people type them
    None,           \* no parent, no VLAN, no mode, no gateway, no destination
    Absent,         \* no record
    InitialWorlds,  \* states to start from
    DeviceEdits,    \* [name, record]: what operators enter on the device
    RowEdits,       \* [name, record]: what operators enter in Nautobot
    MaxEdits,       \* bound on operator edits
    MaxRuns         \* bound on job runs

MIN_PUSHABLE_SEQ_NUM == 1000

ASSUME ConstantsAssumption ==
    /\ Seqs \subseteq Nat /\ Hosts \subseteq Nat
    /\ IsFiniteSet(Hosts) /\ Masks # {}
    /\ Host \notin Ifaces \cup Seqs /\ Ifaces \cap Seqs = {}
    /\ None \notin Ifaces \cup VlanIds \cup Dests \cup {Gateway}
    /\ RootVdom \in Vdoms
    /\ MaxEdits \in Nat /\ MaxRuns \in Nat

VARIABLES
    ifs,      \* the device's system/interface table
    rts,      \* the device's router/static table, of RootVdom
    anchor,   \* whether the Device row exists
    scope,    \* its scope
    rowIf,    \* its dcim.Interface rows
    rowRt,    \* rowRt[v]: its FortinetStaticRoute rows of VDOM v
    ipam,     \* ipam[h]: the mask of the IPAddress of host h, or Absent
    job,      \* the job: its phase and its form
    src, dst, \* its loaded adapters
    todo,     \* elements still to write and to delete
    touched,  \* someone has edited a store since the job began
    edits, runs

deviceVars == <<ifs, rts>>
rowVars == <<anchor, scope, rowIf, rowRt, ipam>>
vars == <<ifs, rts, anchor, scope, rowIf, rowRt, ipam, job, src, dst, todo, touched, edits, runs>>

----------------------------------------------------------------------------
(* Records.  A text is what someone typed under a number of sync markers.  *)

Text == Nat \X Texts
Cidrs == Hosts \X Masks
Addresses == Seq(Cidrs)
Names == Ifaces \cup {None}
Modes == {"tagged", "access", None}

\* What both adapters say of an interface and of a route.
Interface == [type : {"port", "virtual"}, parent : Names, vlan : VlanIds \cup {None},
              mode : Modes, text : Text, ips : Addresses]
Route == [dest : Dests, gateway : {Gateway, None}, via : Names, blackhole : BOOLEAN, text : Text]

\* FortiOS: tunnels and other types the adapter skips, destinations it cannot
\* resolve, the order of addresses (the primary first).  What the adapter calls
\* "virtual" is a "vlan", which has a parent and an id; a port may have an id.
\* access: what the interface lets in, ping alone or management too.
DeviceInterface ==
    {r \in [type : {"port", "virtual", "tunnel"}, vdom : Vdoms, parent : Names,
            vlan : VlanIds \cup {None}, access : {"ping", "manage"}, text : Text,
            ips : Addresses] :
        r.type = "virtual" => r.parent # None /\ r.vlan # None}
DeviceRoute == [dest : Dests \cup {None}, gateway : {Gateway, None}, via : Names,
                blackhole : BOOLEAN, text : Text]

RowInterface == [type : {"port", "virtual"}, parent : Names, vlan : VlanIds \cup {None},
                 mode : Modes, text : Text, hosts : SUBSET Hosts]

Elements == {Host} \cup Ifaces \cup Seqs

ASSUME NothingAssumption ==
    /\ Absent \notin DeviceInterface \cup DeviceRoute \cup Interface \cup Route \cup RowInterface
    /\ Absent \notin Masks \cup Scopes

\* Worlds and edits are typed; rows hang on what is there.
ASSUME WorldsAssumption ==
    /\ \A w \in InitialWorlds :
          /\ w.ifs \in [Ifaces -> DeviceInterface \cup {Absent}]
          /\ w.rts \in [Seqs -> DeviceRoute \cup {Absent}]
          /\ w.anchor \in BOOLEAN /\ w.scope \in Scopes
          /\ w.rowIf \in [Ifaces -> RowInterface \cup {Absent}]
          /\ w.rowRt \in [Vdoms -> [Seqs -> Route \cup {Absent}]]
          /\ w.ipam \in [Hosts -> Masks \cup {Absent}]
          /\ \A i \in Ifaces : w.rowIf[i] # Absent =>
                /\ w.anchor
                /\ w.rowIf[i].parent # None => w.rowIf[w.rowIf[i].parent] # Absent
                /\ \A h \in w.rowIf[i].hosts : w.ipam[h] # Absent
          /\ \A v \in Vdoms, s \in Seqs : w.rowRt[v][s] # Absent =>
                /\ w.anchor
                /\ w.rowRt[v][s].via # None => w.rowIf[w.rowRt[v][s].via] # Absent
    /\ \A e \in DeviceEdits :
          /\ e.name \in Ifaces => e.record \in DeviceInterface \cup {Absent}
          /\ e.name \in Seqs => e.record \in DeviceRoute \cup {Absent}
    /\ \A e \in RowEdits :
          /\ e.name \in Ifaces => e.record \in RowInterface \cup {Absent}
          /\ e.name \in Seqs => e.record \in Route \cup {Absent}

----------------------------------------------------------------------------
(* What the adapters load.                                                 *)

ReadInterface(r) == [type |-> r.type, parent |-> r.parent, vlan |-> r.vlan,
                     mode |-> IF r.type = "virtual" THEN "tagged" ELSE None,
                     text |-> r.text, ips |-> r.ips]

\* Interfaces of the job's VDOM of a type Nautobot knows.
Readable(v, i) == ifs[i] # Absent /\ ifs[i].type # "tunnel" /\ ifs[i].vdom = v

\* A blackhole has no gateway, whatever FortiOS says.
ReadRoute(r) == [r EXCEPT !.gateway = IF r.blackhole THEN None ELSE @]

\* The device does not know its scope: the adapter is told the form's, or, by
\* a push, the one of the Device row.
GivenScope == IF job.form.kind = "pull" THEN job.form.scope ELSE scope

ReadFgt(v, routes) ==
    [n \in Elements |->
        CASE n = Host -> GivenScope
          [] n \in Ifaces -> IF Readable(v, n) THEN ReadInterface(ifs[n]) ELSE Absent
          [] n \in Seqs -> IF routes /\ v = RootVdom /\ rts[n] # Absent /\ rts[n].dest # None
                           THEN ReadRoute(rts[n]) ELSE Absent]

\* The cidrs of a row, sorted, with the masks that IPAM has.
Rank(h, hosts) == Cardinality({g \in hosts : g <= h})
HostAt(k, hosts) == CHOOSE h \in hosts : Rank(h, hosts) = k
RowCidrs(r) == [k \in 1..Cardinality(r.hosts) |->
                  <<HostAt(k, r.hosts), ipam[HostAt(k, r.hosts)]>>]

ReadRow(r) == [type |-> r.type, parent |-> r.parent, vlan |-> r.vlan,
               mode |-> IF r.vlan # None THEN r.mode ELSE None,
               text |-> r.text, ips |-> RowCidrs(r)]

\* All interface rows of the Device, whatever VDOM they came from.
ReadOrm(v, routes) ==
    [n \in Elements |->
        IF ~anchor THEN Absent
        ELSE CASE n = Host -> scope
               [] n \in Ifaces -> IF rowIf[n] = Absent THEN Absent ELSE ReadRow(rowIf[n])
               [] n \in Seqs -> IF routes THEN rowRt[v][n] ELSE Absent]

----------------------------------------------------------------------------
(* The job.                                                                *)

Forms == [kind : {"pull"}, vdom : Vdoms, delete : BOOLEAN, routes : BOOLEAN, scope : Scopes]
         \cup [kind : {"push"}, vdom : Vdoms, delete : BOOLEAN, routes : BOOLEAN, scope : {None}]
Running == {"source", "target", "loaded", "syncing"}
Idle == {"idle", "done", "failed", "crashed"}
EmptyStore == [n \in Elements |-> Absent]
NoWork == [write |-> {}, delete |-> {}]

Init ==
    /\ \E w \in InitialWorlds :
          /\ ifs = w.ifs /\ rts = w.rts
          /\ anchor = w.anchor /\ scope = w.scope
          /\ rowIf = w.rowIf /\ rowRt = w.rowRt /\ ipam = w.ipam
    /\ job = [phase |-> "idle",
              form |-> [kind |-> "push", vdom |-> RootVdom, delete |-> FALSE, routes |-> FALSE,
                        scope |-> None]]
    /\ src = EmptyStore /\ dst = EmptyStore
    /\ todo = NoWork
    /\ touched = FALSE
    /\ edits = 0 /\ runs = 0

\* run(): an operator fills in the form.
Start ==
    /\ job.phase \in Idle
    /\ runs < MaxRuns
    /\ \E f \in Forms : job' = [phase |-> "source", form |-> f]
    /\ src' = EmptyStore /\ dst' = EmptyStore /\ todo' = NoWork
    /\ touched' = FALSE
    /\ runs' = runs + 1
    /\ UNCHANGED <<deviceVars, rowVars, edits>>

Advance(p) == job' = [job EXCEPT !.phase = p]

\* _load_static_routes swallows every error of its GET: the device then seems
\* to have no route.  (An error of the other GETs ends the job: see Crash.)
DeviceReads == {ReadFgt(job.form.vdom, routes) : routes \in {job.form.routes, FALSE}}

\* A push needs the Device row; without it the load raises.
LoadSource ==
    /\ job.phase = "source"
    /\ \/ /\ job.form.kind = "push" /\ ~anchor
          /\ Advance("failed")
          /\ UNCHANGED src
       \/ /\ job.form.kind = "push" /\ anchor
          /\ src' = ReadOrm(job.form.vdom, job.form.routes)
          /\ Advance("target")
       \/ /\ job.form.kind = "pull"
          /\ src' \in DeviceReads
          /\ Advance("target")
    /\ UNCHANGED <<deviceVars, rowVars, dst, todo, touched, edits, runs>>

\* Defect: the target is loaded with its routes whatever the form says.
LoadTargetWithRoutes ==
    /\ job.phase = "target"
    /\ dst' = IF job.form.kind = "pull" THEN ReadOrm(job.form.vdom, TRUE)
              ELSE ReadFgt(job.form.vdom, TRUE)
    /\ Advance("loaded")
    /\ UNCHANGED <<deviceVars, rowVars, src, todo, touched, edits, runs>>

\* A push looks the Device row up a second time.
LoadTarget ==
    /\ job.phase = "target"
    /\ \/ /\ job.form.kind = "push" /\ ~anchor
          /\ Advance("failed")
          /\ UNCHANGED dst
       \/ /\ job.form.kind = "push" /\ anchor
          /\ dst' \in DeviceReads
          /\ Advance("loaded")
       \/ /\ job.form.kind = "pull"
          /\ dst' = ReadOrm(job.form.vdom, job.form.routes)
          /\ Advance("loaded")
    /\ UNCHANGED <<deviceVars, rowVars, src, todo, touched, edits, runs>>

Writes(from, to) == {n \in Elements : from[n] # Absent /\ from[n] # to[n]}
Deletes(from, to) == {n \in Elements : from[n] = Absent /\ to[n] # Absent}

\* The push sets SKIP_UNMATCHED_DST unless asked to delete; the pull has no
\* execute_sync of its own, so it deletes whatever its form says.
ExecuteSync ==
    /\ job.phase = "loaded"
    /\ todo' = [write |-> Writes(src, dst),
                delete |-> IF job.form.kind = "pull" \/ job.form.delete
                           THEN Deletes(src, dst) ELSE {}]
    /\ Advance("syncing")
    /\ UNCHANGED <<deviceVars, rowVars, src, dst, touched, edits, runs>>

\* top_level: the device, then interfaces, then routes; within a kind the
\* source's elements come before those only the target has.
Kind(n) == IF n = Host THEN 1 ELSE IF n \in Ifaces THEN 2 ELSE 3

\* Defect: top_level lists the routes before the interfaces.
TurnRoutesFirst(kind, op, n) ==
    /\ job.phase = "syncing" /\ job.form.kind = kind
    /\ n \in todo[op]
    /\ n \in Ifaces => (todo.write \cup todo.delete) \cap Seqs = {}
    /\ op = "delete" => \A m \in todo.write : Kind(m) # Kind(n)

Turn(kind, op, n) ==
    /\ job.phase = "syncing" /\ job.form.kind = kind
    /\ n \in todo[op]
    /\ \A m \in todo.write \cup todo.delete : Kind(m) >= Kind(n)
    /\ op = "delete" => \A m \in todo.write : Kind(m) # Kind(n)

Applied(n) ==
    /\ todo' = [write |-> todo.write \ {n}, delete |-> todo.delete \ {n}]
    /\ UNCHANGED <<job, src, dst, touched, edits, runs>>

\* FortiOSAPIError leaves execute_sync and ends the job.
Raised ==
    /\ Advance("failed")
    /\ UNCHANGED <<deviceVars, rowVars, src, dst, todo, touched, edits, runs>>

Skipped == UNCHANGED <<deviceVars, rowVars>>

----------------------------------------------------------------------------
(* Pulling.                                                                *)

PullDeviceCreate ==
    /\ Turn("pull", "write", Host)
    /\ dst[Host] = Absent
    /\ anchor' = TRUE /\ scope' = src[Host]
    /\ UNCHANGED <<deviceVars, rowIf, rowRt, ipam>>
    /\ Applied(Host)

\* update() writes the serial alone: the scope stays.
PullDeviceUpdate ==
    /\ Turn("pull", "write", Host)
    /\ dst[Host] # Absent
    /\ Skipped
    /\ Applied(Host)

\* Defect: the parent is only wired up when the sub-interface is new.
ApplyVlanAttrsOnce(row, new) ==
    [row EXCEPT !.parent = IF row.vlan = None /\ new.parent # None /\ rowIf[new.parent] # Absent
                           THEN new.parent ELSE @,
                !.vlan = IF new.vlan # None THEN new.vlan ELSE @,
                !.mode = IF new.vlan # None THEN "tagged" ELSE @]

\* _apply_vlan_attrs: what is absent is never cleared, and the parent is set
\* only when its row already exists.  With an id comes a mode.
ApplyVlanAttrs(row, new) ==
    [row EXCEPT !.parent = IF new.parent # None /\ rowIf[new.parent] # Absent
                           THEN new.parent ELSE @,
                !.vlan = IF new.vlan # None THEN new.vlan ELSE @,
                !.mode = IF new.vlan = None THEN @
                         ELSE IF new.mode = "access" THEN "access" ELSE "tagged"]

\* _sync_ip_addresses: an IPAddress is looked up by its host; one that exists
\* keeps its mask.
HostsOf(cidrs) == {cidrs[k][1] : k \in DOMAIN cidrs}
ImportIps(cidrs) ==
    ipam' = [h \in Hosts |->
               IF h \in HostsOf(cidrs) /\ ipam[h] = Absent
               THEN cidrs[CHOOSE k \in DOMAIN cidrs : cidrs[k][1] = h][2] ELSE ipam[h]]

PullInterfaceCreate(i) ==
    LET new == src[i]
        old == IF rowIf[i] # Absent THEN rowIf[i]
               ELSE [type |-> new.type, parent |-> None, vlan |-> None, mode |-> None,
                     text |-> new.text, hosts |-> {}]
    IN
    /\ Turn("pull", "write", i)
    /\ dst[i] = Absent
    /\ \/ ~anchor /\ Skipped
       \/ /\ anchor
          /\ rowIf' = [rowIf EXCEPT ![i] =
                [ApplyVlanAttrs(old, new) EXCEPT
                    !.type = new.type, !.text = new.text, !.hosts = HostsOf(new.ips)]]
          /\ ImportIps(new.ips)
          /\ UNCHANGED <<deviceVars, anchor, scope, rowRt>>
    /\ Applied(i)

PullInterfaceUpdate(i) ==
    LET new == src[i]
        was == dst[i]
        row == rowIf[i]
    IN
    /\ Turn("pull", "write", i)
    /\ was # Absent
    /\ \/ row = Absent /\ Skipped
       \/ /\ row # Absent
          /\ rowIf' = [rowIf EXCEPT ![i] =
                [(IF new.parent # was.parent \/ new.vlan # was.vlan \/ new.mode # was.mode
                  THEN ApplyVlanAttrs(row, new) ELSE row) EXCEPT
                    !.type = IF new.type # was.type THEN new.type ELSE @,
                    !.text = IF new.text # was.text THEN new.text ELSE @,
                    !.hosts = IF new.ips # was.ips THEN HostsOf(new.ips) ELSE @]]
          /\ IF new.ips # was.ips THEN ImportIps(new.ips) ELSE UNCHANGED ipam
          /\ UNCHANGED <<deviceVars, anchor, scope, rowRt>>
    /\ Applied(i)

\* A row with its sub-interfaces and theirs.
Family(i) ==
    {k \in Ifaces :
        \A S \in SUBSET Ifaces :
            /\ i \in S
            /\ \A m \in Ifaces : rowIf[m] # Absent /\ rowIf[m].parent \in S => m \in S
            => k \in S}

\* Deleting an interface row: routes lose their egress (SET_NULL), and its
\* family goes with it or its sub-interfaces lose their parent, as dcim decides.
RemoveRow(i) ==
    /\ \E gone \in {{i}, Family(i)} :
          rowIf' = [k \in Ifaces |->
              IF k \in gone \/ rowIf[k] = Absent THEN Absent
              ELSE IF rowIf[k].parent \in gone THEN [rowIf[k] EXCEPT !.parent = None]
              ELSE rowIf[k]]
    /\ rowRt' = [v \in Vdoms |-> [s \in Seqs |->
           IF rowRt[v][s] = Absent THEN Absent
           ELSE IF rowRt[v][s].via \in Ifaces /\ rowIf'[rowRt[v][s].via] = Absent
                THEN [rowRt[v][s] EXCEPT !.via = None] ELSE rowRt[v][s]]]

PullInterfaceDelete(i) ==
    /\ Turn("pull", "delete", i)
    /\ IF anchor THEN RemoveRow(i) ELSE UNCHANGED <<rowIf, rowRt>>
    /\ UNCHANGED <<deviceVars, anchor, scope, ipam>>
    /\ Applied(i)

\* Defect: the name is stored, whether it has a row or not.
ResolveInterfaceBlindly(name) == name

ResolveInterface(name) == IF name # None /\ rowIf[name] # Absent THEN name ELSE None

PullRouteCreate(s) ==
    /\ Turn("pull", "write", s)
    /\ dst[s] = Absent
    /\ rowRt' = IF anchor
                THEN [rowRt EXCEPT ![job.form.vdom][s] =
                        [src[s] EXCEPT !.via = ResolveInterface(@)]]
                ELSE rowRt
    /\ UNCHANGED <<deviceVars, anchor, scope, rowIf, ipam>>
    /\ Applied(s)

PullRouteUpdate(s) ==
    LET new == src[s]
        was == dst[s]
        row == rowRt[job.form.vdom][s]
        Pick(field) == IF new[field] # was[field] THEN new[field] ELSE row[field]
    IN
    /\ Turn("pull", "write", s)
    /\ was # Absent
    /\ rowRt' = IF row = Absent THEN rowRt
                ELSE [rowRt EXCEPT ![job.form.vdom][s] =
                        [dest |-> Pick("dest"), gateway |-> Pick("gateway"),
                         via |-> IF new.via # was.via THEN ResolveInterface(new.via) ELSE row.via,
                         blackhole |-> Pick("blackhole"), text |-> Pick("text")]]
    /\ UNCHANGED <<deviceVars, anchor, scope, rowIf, ipam>>
    /\ Applied(s)

PullRouteDelete(s) ==
    /\ Turn("pull", "delete", s)
    /\ rowRt' = [rowRt EXCEPT ![job.form.vdom][s] = Absent]
    /\ UNCHANGED <<deviceVars, anchor, scope, rowIf, ipam>>
    /\ Applied(s)

----------------------------------------------------------------------------
(* Pushing.  Every write is a REST call the device accepts or refuses.     *)

IsPushableVlan(r) == r.type = "virtual" /\ r.parent # None /\ r.vlan # None

IsPushableRoute(s, r) ==
    /\ s >= MIN_PUSHABLE_SEQ_NUM
    /\ ~r.blackhole
    /\ r.gateway # None \/ r.via # None

Marked(text) == <<text[1] + 1, text[2]>>

Call(n, accepted, write) ==
    \/ accepted /\ write /\ UNCHANGED rowVars /\ Applied(n)
    \/ ~accepted /\ Raised

PutInterface(i, r) == ifs' = [ifs EXCEPT ![i] = r] /\ UNCHANGED rts
PutRoute(s, r) == rts' = [rts EXCEPT ![s] = r] /\ UNCHANGED ifs

\* _build_vlan_payload: only the first cidr is sent, as the primary address;
\* the secondary ones stay as they are.  Whatever the device let in, it is
\* told to let in ping alone.
VlanPayload(r, ips) ==
    [type |-> "virtual", vdom |-> job.form.vdom, parent |-> r.parent, vlan |-> r.vlan,
     access |-> "ping", text |-> Marked(r.text),
     ips |-> IF r.ips = <<>> THEN ips
             ELSE IF ips = <<>> THEN <<r.ips[1]>> ELSE [ips EXCEPT ![1] = r.ips[1]]]

\* FortiOS: a name is used once, a parent exists, an id is used once on it,
\* and no address is both primary and secondary.
AcceptsVlan(i, p) ==
    /\ p.parent \in Ifaces /\ ifs[p.parent] # Absent /\ p.parent # i
    /\ \A k \in Ifaces \ {i} :
          ifs[k] # Absent => ~(ifs[k].parent = p.parent /\ ifs[k].vlan = p.vlan)
    /\ \A k \in DOMAIN p.ips \ {1} : p.ips[k][1] # p.ips[1][1]

\* Nothing of a Device is pushed.
PushDevice ==
    /\ Turn("push", "write", Host)
    /\ Skipped
    /\ Applied(Host)

PushInterfaceCreate(i) ==
    LET p == VlanPayload(src[i], <<>>) IN
    /\ Turn("push", "write", i)
    /\ dst[i] = Absent
    /\ \/ ~IsPushableVlan(src[i]) /\ Skipped /\ Applied(i)
       \/ /\ IsPushableVlan(src[i])
          /\ Call(i, ifs[i] = Absent /\ AcceptsVlan(i, p), PutInterface(i, p))

\* The type is the one loaded from the device, whatever Nautobot says.
PushInterfaceUpdate(i) ==
    LET merged == [src[i] EXCEPT !.type = dst[i].type]
        p == VlanPayload(merged, IF ifs[i] = Absent THEN <<>> ELSE ifs[i].ips)
    IN
    /\ Turn("push", "write", i)
    /\ dst[i] # Absent
    /\ \/ ~IsPushableVlan(merged) /\ Skipped /\ Applied(i)
       \/ /\ IsPushableVlan(merged)
          /\ Call(i, ifs[i] # Absent /\ ifs[i].type = "virtual" /\ AcceptsVlan(i, p),
                  PutInterface(i, p))

InUse(i) ==
    \/ \E s \in Seqs : rts[s] # Absent /\ rts[s].via = i
    \/ \E k \in Ifaces : ifs[k] # Absent /\ ifs[k].parent = i

\* Defect: delete() does not ask the whitelist.
PushInterfaceDeleteAny(i) ==
    /\ Turn("push", "delete", i)
    /\ Call(i, ifs[i] # Absent /\ ~InUse(i), PutInterface(i, Absent))

PushInterfaceDelete(i) ==
    /\ Turn("push", "delete", i)
    /\ \/ ~IsPushableVlan(dst[i]) /\ Raised
       \/ /\ IsPushableVlan(dst[i])
          /\ Call(i, ifs[i] # Absent /\ ~InUse(i), PutInterface(i, Absent))

\* Defect: the payload starts from what the device has, and its egress stays.
RoutePayloadKeepingEgress(r, old) ==
    [dest |-> r.dest, gateway |-> r.gateway,
     via |-> IF old.via # None THEN old.via ELSE r.via,
     blackhole |-> old.blackhole, text |-> Marked(r.text)]

\* _build_route_payload: an empty gateway or interface is not sent, and
\* blackhole never is; FortiOS keeps what it is not sent.
RoutePayload(r, old) ==
    [dest |-> r.dest,
     gateway |-> IF r.gateway # None THEN r.gateway ELSE old.gateway,
     via |-> IF r.via # None THEN r.via ELSE old.via,
     blackhole |-> old.blackhole, text |-> Marked(r.text)]
NewRoute == [gateway |-> None, via |-> None, blackhole |-> FALSE]
AcceptsRoute(p) == p.via # None => ifs[p.via] # Absent

PushRouteCreate(s) ==
    LET p == RoutePayload(src[s], NewRoute) IN
    /\ Turn("push", "write", s)
    /\ dst[s] = Absent
    /\ \/ ~IsPushableRoute(s, src[s]) /\ Skipped /\ Applied(s)
       \/ /\ IsPushableRoute(s, src[s])
          /\ Call(s, rts[s] = Absent /\ AcceptsRoute(p), PutRoute(s, p))

PushRouteUpdate(s) ==
    LET p == RoutePayload(src[s], IF rts[s] = Absent THEN NewRoute ELSE rts[s]) IN
    /\ Turn("push", "write", s)
    /\ dst[s] # Absent
    /\ \/ ~IsPushableRoute(s, src[s]) /\ Skipped /\ Applied(s)
       \/ /\ IsPushableRoute(s, src[s])
          /\ Call(s, rts[s] # Absent /\ AcceptsRoute(p), PutRoute(s, p))

PushRouteDelete(s) ==
    /\ Turn("push", "delete", s)
    /\ \/ ~IsPushableRoute(s, dst[s]) /\ Raised
       \/ /\ IsPushableRoute(s, dst[s])
          /\ Call(s, rts[s] # Absent, PutRoute(s, Absent))

Finish ==
    /\ job.phase = "syncing"
    /\ todo = NoWork
    /\ Advance("done")
    /\ UNCHANGED <<deviceVars, rowVars, src, dst, todo, touched, edits, runs>>

\* The worker is killed: what has been written stays.
Crash ==
    /\ job.phase \in Running
    /\ Advance("crashed")
    /\ UNCHANGED <<deviceVars, rowVars, src, dst, todo, touched, edits, runs>>

----------------------------------------------------------------------------
(* Operators.                                                              *)

Edited ==
    /\ edits < MaxEdits
    /\ edits' = edits + 1
    /\ touched' = TRUE
    /\ UNCHANGED <<job, src, dst, todo, runs>>

DeviceInterfaceEdit(i, r) ==
    /\ Edited
    /\ r # ifs[i]
    /\ IF r = Absent THEN ~InUse(i) ELSE r.parent # None => ifs[r.parent] # Absent
    /\ PutInterface(i, r)
    /\ UNCHANGED rowVars

DeviceRouteEdit(s, r) ==
    /\ Edited
    /\ r # rts[s]
    /\ r # Absent => AcceptsRoute([via |-> r.via])
    /\ PutRoute(s, r)
    /\ UNCHANGED rowVars

RowInterfaceEdit(i, r) ==
    /\ Edited
    /\ anchor /\ r # rowIf[i]
    /\ \/ /\ r = Absent
          /\ RemoveRow(i)
          /\ UNCHANGED ipam
       \/ /\ r # Absent
          /\ r.parent # None => rowIf[r.parent] # Absent
          /\ rowIf' = [rowIf EXCEPT ![i] = r]
          /\ ipam' = [h \in Hosts |-> IF h \in r.hosts /\ ipam[h] = Absent
                                      THEN CHOOSE m \in Masks : TRUE ELSE ipam[h]]
          /\ UNCHANGED rowRt
    /\ UNCHANGED <<deviceVars, anchor, scope>>

RowRouteEdit(v, s, r) ==
    /\ Edited
    /\ anchor /\ r # rowRt[v][s]
    /\ r # Absent => (r.via # None => rowIf[r.via] # Absent)
    /\ rowRt' = [rowRt EXCEPT ![v][s] = r]
    /\ UNCHANGED <<deviceVars, anchor, scope, rowIf, ipam>>

\* Deleting the Device takes its interfaces and routes with it.
RowDeviceDelete ==
    /\ Edited
    /\ anchor
    /\ anchor' = FALSE
    /\ rowIf' = [i \in Ifaces |-> Absent]
    /\ rowRt' = [v \in Vdoms |-> [s \in Seqs |-> Absent]]
    /\ UNCHANGED <<deviceVars, scope, ipam>>

\* Someone gives the Device another type, role, location or status.
RowDeviceEdit ==
    /\ Edited
    /\ anchor
    /\ \E s \in Scopes \ {scope} : scope' = s
    /\ UNCHANGED <<deviceVars, anchor, rowIf, rowRt, ipam>>

Operators ==
    \/ \E e \in DeviceEdits :
          \/ e.name \in Ifaces /\ DeviceInterfaceEdit(e.name, e.record)
          \/ e.name \in Seqs /\ DeviceRouteEdit(e.name, e.record)
    \/ \E e \in RowEdits :
          \/ e.name \in Ifaces /\ RowInterfaceEdit(e.name, e.record)
          \/ e.name \in Seqs /\ \E v \in Vdoms : RowRouteEdit(v, e.name, e.record)
    \/ RowDeviceDelete \/ RowDeviceEdit

Pull ==
    \/ PullDeviceCreate \/ PullDeviceUpdate
    \/ \E i \in Ifaces : PullInterfaceCreate(i) \/ PullInterfaceUpdate(i) \/ PullInterfaceDelete(i)
    \/ \E s \in Seqs : PullRouteCreate(s) \/ PullRouteUpdate(s) \/ PullRouteDelete(s)

Push ==
    \/ PushDevice
    \/ \E i \in Ifaces : PushInterfaceCreate(i) \/ PushInterfaceUpdate(i) \/ PushInterfaceDelete(i)
    \/ \E s \in Seqs : PushRouteCreate(s) \/ PushRouteUpdate(s) \/ PushRouteDelete(s)

Next ==
    \/ Start \/ LoadSource \/ LoadTarget \/ ExecuteSync
    \/ Pull \/ Push \/ Finish \/ Crash
    \/ Operators

Spec == Init /\ [][Next]_vars

----------------------------------------------------------------------------
(* Properties.                                                             *)

Store(f) ==
    /\ DOMAIN f = Elements
    /\ f[Host] \in Scopes \cup {Absent}
    /\ \A i \in Ifaces : f[i] \in Interface \cup {Absent}
    /\ \A s \in Seqs : f[s] \in Route \cup {Absent}

\* Every variable has its type; no adapter holds a tunnel or a route without a
\* destination.
TypeOK ==
    /\ ifs \in [Ifaces -> DeviceInterface \cup {Absent}]
    /\ rts \in [Seqs -> DeviceRoute \cup {Absent}]
    /\ anchor \in BOOLEAN /\ scope \in Scopes
    /\ rowIf \in [Ifaces -> RowInterface \cup {Absent}]
    /\ rowRt \in [Vdoms -> [Seqs -> Route \cup {Absent}]]
    /\ ipam \in [Hosts -> Masks \cup {Absent}]
    /\ job \in [phase : Idle \cup Running, form : Forms]
    /\ Store(src) /\ Store(dst)
    /\ todo \in [write : SUBSET Elements, delete : SUBSET Elements]
    /\ touched \in BOOLEAN /\ edits \in 0..MaxEdits /\ runs \in 0..MaxRuns

\* A row hangs on the Device row, and its parent, its egress and the masks of
\* its addresses are there.
RowsAreWhole ==
    /\ \A i \in Ifaces : rowIf[i] # Absent =>
          /\ anchor
          /\ rowIf[i].parent # None => rowIf[rowIf[i].parent] # Absent
          /\ \A h \in rowIf[i].hosts : ipam[h] # Absent
    /\ \A v \in Vdoms, s \in Seqs : rowRt[v][s] # Absent =>
          /\ anchor
          /\ rowRt[v][s].via # None => rowIf[rowRt[v][s].via] # Absent

JobStep == edits' = edits
Clean(kind) == job.phase = "done" /\ ~touched /\ job.form.kind = kind

\* This run removed the row that was, or had stayed, the parent of i's row.
LostItsParent(i) ==
    /\ rowIf[i] = Absent
    /\ \E k \in Ifaces :
          /\ src[k] # Absent \/ dst[k] # Absent
          /\ rowIf[k] = Absent
          /\ src[i].parent = k \/ (dst[i] # Absent /\ dst[i].parent = k)

----------------------------------------------------------------------------
(* Where an undisturbed run stands.                                        *)

Working == {"syncing", "done"}
Left == todo.write \cup todo.delete

\* What is planned is in the diff, and routes only if they were asked for.
PlanFollowsDiff ==
    /\ job.phase \in {"source", "target", "loaded", "done"} => todo = NoWork
    /\ todo.write \subseteq Writes(src, dst) /\ todo.delete \subseteq Deletes(src, dst)
    /\ ~job.form.routes => \A s \in Seqs : src[s] = Absent /\ dst[s] = Absent

\* A job never writes its source, and its target not before it works.
LoadsAreCurrent ==
    /\ job.phase \in {"target", "loaded"} \cup Working =>
          IF job.form.kind = "pull" THEN src \in DeviceReads
          ELSE anchor /\ src = ReadOrm(job.form.vdom, job.form.routes)
    /\ job.phase = "loaded" =>
          IF job.form.kind = "pull" THEN dst = ReadOrm(job.form.vdom, job.form.routes)
          ELSE dst \in DeviceReads

\* The row of an interface says what was loaded.
RowSays(i, r) ==
    /\ rowIf[i] # Absent
    /\ rowIf[i].type = r.type /\ rowIf[i].parent = r.parent /\ rowIf[i].vlan = r.vlan
    /\ rowIf[i].vlan # None => rowIf[i].mode = r.mode
    /\ rowIf[i].text = r.text /\ rowIf[i].hosts = HostsOf(r.ips)

\* An interface that is not, or no longer, to be written: its row says what the
\* device said, but for what a pull cannot or does not write; or it is lost.
InterfaceSettled(i) ==
    \/ /\ rowIf[i] # Absent
       /\ rowIf[i].type = src[i].type /\ rowIf[i].text = src[i].text
       /\ rowIf[i].hosts = HostsOf(src[i].ips)
       /\ rowIf[i].vlan # src[i].vlan => src[i].vlan = None
       /\ src[i].vlan # None /\ src[i].mode = "tagged" => rowIf[i].mode = "tagged"
       /\ rowIf[i].parent # src[i].parent =>
             \/ src[i].parent = None
             \/ rowIf[src[i].parent] = Absent \/ dst[src[i].parent] = Absent
       /\ \/ rowIf[i].parent \in {None, src[i].parent}
          \/ dst[i] # Absent /\ rowIf[i].parent = dst[i].parent
    \/ LostItsParent(i) /\ todo.write \cap Ifaces = {}

\* The row of a route says what was loaded, but for an egress without a row.
RouteSays(s, r) ==
    LET row == rowRt[job.form.vdom][s] IN
    /\ row # Absent
    /\ row.dest = r.dest /\ row.gateway = r.gateway
    /\ row.blackhole = r.blackhole /\ row.text = r.text
    /\ row.via # r.via =>
          r.via # None /\ rowIf[r.via] = Absent /\ todo.write \cap Ifaces = {}

InterfaceOnCourse(i) ==
    /\ i \in todo.write => IF dst[i] = Absent THEN rowIf[i] = Absent ELSE RowSays(i, dst[i])
    /\ i \notin todo.write /\ src[i] # Absent => InterfaceSettled(i)
    /\ src[i] = Absent /\ rowIf[i] # Absent => i \in todo.delete

RouteOnCourse(s) ==
    LET row == rowRt[job.form.vdom][s] IN
    /\ s \in todo.write => IF dst[s] = Absent THEN row = Absent ELSE RouteSays(s, dst[s])
    /\ s \notin todo.write /\ src[s] # Absent => RouteSays(s, src[s])
    /\ src[s] = Absent /\ row # Absent => s \in todo.delete

\* A Device row keeps the scope it was loaded with, or was made with.
DeviceOnCourse ==
    /\ Host \in todo.write \/ anchor
    /\ dst[Host] # Absent => anchor /\ scope = dst[Host]
    /\ dst[Host] = Absent /\ Host \notin todo.write => scope = src[Host]

PullIsOnCourse ==
    job.phase \in Working /\ job.form.kind = "pull" =>
        /\ DeviceOnCourse
        /\ \A i \in Ifaces : InterfaceOnCourse(i)
        /\ job.form.routes => \A s \in Seqs : RouteOnCourse(s)

\* What Nautobot says of an interface is on the device, marked, if it may be.
VlanArrived(i) ==
    /\ src[i] # Absent /\ IsPushableVlan(src[i])
    /\ dst[i] # Absent => dst[i].type = "virtual"
    => /\ Readable(job.form.vdom, i)
       /\ IsPushableVlan(ifs[i]) /\ ifs[i].text = Marked(src[i].text) /\ ifs[i].access = "ping"
       /\ ifs[i].parent = src[i].parent /\ ifs[i].vlan = src[i].vlan
       /\ src[i].ips # <<>> => ifs[i].ips # <<>> /\ ifs[i].ips[1] = src[i].ips[1]

RouteArrived(s) ==
    src[s] # Absent /\ IsPushableRoute(s, src[s]) =>
        /\ rts[s] # Absent
        /\ rts[s].dest = src[s].dest /\ rts[s].text = Marked(src[s].text)
        /\ src[s].gateway # None => rts[s].gateway = src[s].gateway
        /\ src[s].via # None => rts[s].via = src[s].via /\ ifs[src[s].via] # Absent

PushIsOnCourse ==
    job.phase \in Working /\ job.form.kind = "push" =>
        /\ \A i \in Ifaces :
              /\ i \in Left /\ dst[i] # Absent =>
                    Readable(job.form.vdom, i) /\ dst[i] = ReadInterface(ifs[i])
              /\ i \in Writes(src, dst) \ todo.write => VlanArrived(i)
        /\ \A s \in Seqs :
              /\ s \in Left /\ dst[s] # Absent => rts[s] # Absent /\ dst[s] = ReadRoute(rts[s])
              /\ s \in Writes(src, dst) \ todo.write => RouteArrived(s) /\ Left \cap Ifaces = {}

\* The state is typed, rows hang on what is there, and an undisturbed run has
\* written one part of its plan and left the other as it was loaded.
SyncInvariant ==
    /\ TypeOK /\ RowsAreWhole /\ PlanFollowsDiff
    /\ ~touched => LoadsAreCurrent /\ PullIsOnCourse /\ PushIsOnCourse

----------------------------------------------------------------------------

\* What a clean pull can leave different between the two sides, and nothing
\* else: the parent or the egress has no row (or the parent's was made in the
\* same run, too late); a VLAN or a parent that the device has dropped, which
\* is never cleared; the mode of an interface that is no VLAN, but has or had
\* an id; addresses not in the order of their text; an address
\* whose mask IPAM knew differently; an interface whose row went with the row
\* of its parent, perhaps a stale one, removed by this run; a route when the
\* GET of the routes failed; and the scope of a Device row that was there
\* before the run, whatever the form says.  No row is left without an
\* interface or a route.  What is not written differs again at the next pull.
PullResidue ==
    Clean("pull") =>
        LET v == job.form.vdom
            source == ReadFgt(v, job.form.routes)
            target == ReadOrm(v, job.form.routes)
        IN
        /\ Deletes(src, target) = {}
        /\ target[Host] = IF dst[Host] = Absent THEN source[Host] ELSE dst[Host]
        /\ \A i \in Ifaces : source[i] # Absent /\ ~LostItsParent(i) =>
              LET d == source[i]
                  r == target[i]
              IN
              /\ r # Absent /\ d.type = r.type /\ d.text = r.text
              /\ d.vlan # r.vlan => d.vlan = None
              /\ d.mode # r.mode => ifs[i].type = "port" /\ r.vlan # None
              /\ d.parent # r.parent =>
                    d.parent = None \/ rowIf[d.parent] = Absent \/ dst[d.parent] = Absent
              /\ HostsOf(d.ips) = HostsOf(r.ips)
        /\ \A s \in Seqs : src[s] # Absent =>
              LET d == source[s]
                  r == target[s]
              IN
              /\ r # Absent
              /\ [d EXCEPT !.via = None] = [r EXCEPT !.via = None]
              /\ d.via # r.via => rowIf[d.via] = Absent

\* After a clean push, what Nautobot said of each VLAN and route that differed
\* and may be pushed is on the device, marked, with its first address as the
\* primary one: no later write of the run took it away.  Only the flag that
\* makes a route a blackhole, and the fields Nautobot leaves empty, may differ.
\* Of what an operator allowed on such a VLAN ping alone is left.
PushDelivers ==
    Clean("push") =>
        /\ \A i \in Ifaces \cap Writes(src, dst) : VlanArrived(i)
        /\ \A s \in Seqs \cap Writes(src, dst) : RouteArrived(s)

\* A push never alters a route below MIN_PUSHABLE_SEQ_NUM, and unless someone
\* edited the device meanwhile it changes or removes no interface but VLAN
\* sub-interfaces of the form's VDOM.  Blackholes are another matter: one that
\* Nautobot calls a plain route is rewritten, but it stays, and stays a blackhole.
PushStaysInBounds ==
    [][JobStep /\ job.form.kind = "push" =>
          /\ \A s \in Seqs : s < MIN_PUSHABLE_SEQ_NUM => rts'[s] = rts[s]
          /\ \A i \in Ifaces : ~touched /\ ifs'[i] # ifs[i] /\ ifs[i] # Absent =>
                Readable(job.form.vdom, i) /\ IsPushableVlan(ifs[i])
          /\ \A s \in Seqs :
                ~touched /\ rts[s] # Absent /\ rts[s].blackhole /\ rts'[s] # rts[s] =>
                   ~src[s].blackhole /\ rts'[s] # Absent /\ rts'[s].blackhole]_vars

\* Without its "static routes" box a job leaves the routes of both sides as
\* they are, except for the egress of rows whose interface it removed.
RoutesOnlyOnRequest ==
    [][JobStep /\ ~job.form.routes =>
          /\ rts' = rts
          /\ \A v \in Vdoms, s \in Seqs : rowRt[v][s] # rowRt'[v][s] =>
                rowRt'[v][s] = [rowRt[v][s] EXCEPT !.via = None]]_vars

----------------------------------------------------------------------------
(* What the documentation promises and the code does not keep.             *)

\* "If False (default), only create/update -- leave orphan records alone."
PullIsAdditive ==
    [][JobStep /\ job.form.kind = "pull" /\ ~job.form.delete =>
          \A i \in Ifaces : rowIf[i] # Absent => rowIf'[i] # Absent]_vars
============================================================================
