------------------------------- MODULE NatSync -------------------------------
(***************************************************************************)
(* Synchronisation of virtual IPs between a FortiGate and Nautobot: the    *)
(* firewall jobs on firewall/vip.                                          *)
(*                                                                         *)
(* A VIP holds its IPs and ports itself; Nautobot's NATPolicyRule refers   *)
(* to AddressObjects and ServiceObjects.  So the FortiGate adapter makes   *)
(* up an address and a service for either side of a VIP and puts them in   *)
(* its store, where the job takes them for objects of the device: pulled,  *)
(* they become rows; pushed, they are sent to firewall/address as if the   *)
(* device had them.  The device may really have an object of such a name.  *)
(*                                                                         *)
(* The device also has VIPs that say no external or no mapped IP, as those *)
(* for load balancing do: the adapter skips them, and does not know that   *)
(* their names are taken.                                                  *)
(*                                                                         *)
(* Left out: lists of more than one object, addresses that are no IP (a    *)
(* rule resolves them to nothing), rules without a VIP's name, other       *)
(* NATPolicy rows (PolicySync shows what they do), the protocol of a       *)
(* forwarded port, log and index, the descriptions of addresses and        *)
(* services, and policies of the device that use one of those.             *)
(***************************************************************************)
EXTENDS Naturals

CONSTANTS
    Vips,             \* names of VIPs
    Ips, Ranges,      \* single IPs, and ranges of IPs
    Ports,
    Interfaces, AnyIntf,
    Texts,            \* comments
    Container,        \* the NATPolicy row the jobs make
    Generated, Retyped, \* its descriptions
    None, Absent,
    Jobs,
    ProtectOnDelete,  \* firewall-models' protect_on_delete setting
    InitialWorlds, DeviceEdits, RowEdits,
    MaxEdits, MaxRuns

Sides == {"ext", "mapped"}
\* Names of objects: "vip_<vip>_<side>" and "VIP_<vip>_<side>".
Addresses == Sides \X Vips
Services == Sides \X Vips \X Ports
Elements == Addresses \cup Services \cup {Container} \cup Vips

Values == Ips \cup Ranges
\* A range under the address type of a single IP: no row can hold it.
Mistyped == {"ipaddress"} \X Ranges

ASSUME ConstantsAssumption ==
    /\ AnyIntf \notin Interfaces
    /\ None \notin Values \cup Ports \cup Interfaces
    /\ Ips \cap Ranges = {} /\ Values \cap Mistyped = {}
    /\ Container \notin Vips
    /\ ({Container} \cup Vips) \cap (Addresses \cup Services) = {}
    /\ ProtectOnDelete \in BOOLEAN
    /\ MaxEdits \in Nat /\ MaxRuns \in Nat

VARIABLES
    vip,      \* vip[v]: the device's VIP, or Absent
    addr,     \* addr[a]: the IP of the device's own address of that name, or Absent
    serv,     \* serv[a]: the port of the device's own service of that name, or Absent
    addrRow,  \* addrRow[a]: the IP of the AddressObject row, or Absent
    servRow,  \* the ServiceObject rows: each is its port
    policy,   \* the description of the NATPolicy row, or Absent
    rule,     \* rule[v]: the NATPolicyRule row, or Absent
    phase, req, src, dst, todo, touched, edits, runs   \* the jobs, as in AddressSync

deviceVars == <<vip, addr, serv>>
rowVars == <<addrRow, servRow, policy, rule>>
worldVars == <<deviceVars, rowVars>>
vars == <<vip, addr, serv, addrRow, servRow, policy, rule,
          phase, req, src, dst, todo, touched, edits, runs>>

Forward == [ext : Ports, mapped : Ports]
\* used: a policy of the device uses the VIP.
Vip == [ext : Values \cup {None}, mapped : Values \cup {None}, forward : Forward \cup {None},
        intf : Interfaces \cup {AnyIntf}, comment : Texts, used : BOOLEAN]

\* The description: a text, [extintf=...] and [portforward ... -> ...].
Description == [text : Texts, intf : Interfaces \cup {AnyIntf, None}, forward : Forward \cup {None}]
Lists == [addr : [Sides -> Addresses \cup {None}], serv : [Sides -> Services \cup {None}]]
Rule == [lists : Lists, description : Description, linked : BOOLEAN]
LoadedRule == [lists : Lists, resolved : [Sides -> Values \cup {None}], description : Description]

ASSUME NothingAssumption ==
    /\ Absent \notin Values \cup Mistyped \cup Ports \cup Vip \cup Rule \cup LoadedRule
    /\ Absent \notin {Generated, Retyped, "loaded"}
    /\ None \notin Addresses \cup Services \cup Forward

\* What a rule refers to has a row, and a rule is linked only while the
\* NATPolicy row exists.
RulesTyped(ar, sr, po, ru) ==
    /\ ru \in [Vips -> Rule \cup {Absent}]
    /\ \A v \in Vips : ru[v] # Absent =>
          /\ \A s \in Sides : ru[v].lists.addr[s] # None => ar[ru[v].lists.addr[s]] # Absent
          /\ \A s \in Sides : ru[v].lists.serv[s] # None => ru[v].lists.serv[s] \in sr
          /\ ru[v].linked => po # Absent

DeviceTyped(vp, ad, se) ==
    /\ vp \in [Vips -> Vip \cup {Absent}]
    /\ ad \in [Addresses -> Values \cup {Absent}]
    /\ se \in [Addresses -> Ports \cup {Absent}]

RowsTyped(ar, sr, po, ru) ==
    /\ ar \in [Addresses -> Values \cup {Absent}]
    /\ sr \in SUBSET Services
    /\ po \in {Generated, Retyped, Absent}
    /\ RulesTyped(ar, sr, po, ru)

ASSUME WorldsAssumption ==
    /\ \A w \in InitialWorlds :
          DeviceTyped(w.vip, w.addr, w.serv) /\ RowsTyped(w.addrRow, w.servRow, w.policy, w.rule)
    /\ \A e \in DeviceEdits :
          \/ e.of = "vip" /\ e.key \in Vips /\ e.record \in Vip \cup {Absent}
          \/ e.of = "addr" /\ e.key \in Addresses /\ e.record \in Values \cup {Absent}
          \/ e.of = "serv" /\ e.key \in Addresses /\ e.record \in Ports \cup {Absent}
    /\ \A e \in RowEdits :
          \/ e.of = "addr" /\ e.key \in Addresses /\ e.record \in Values \cup {Absent}
          \/ e.of = "serv" /\ e.key \in Services /\ e.record \in Ports
          \/ e.of = "rule" /\ e.key \in Vips /\ e.record \in Rule \cup {Absent}
          \/ e.of = "policy" /\ e.record \in {Generated, Retyped, Absent}

----------------------------------------------------------------------------
(* What the adapters load.  The resolved IPs of a loaded rule are the      *)
(* VIP's own, or those of the addresses its row refers to.                 *)

\* _load_nat_vips skips the other VIPs.
Readable(v) == vip[v] # Absent /\ vip[v].ext # None /\ vip[v].mapped # None

NoList == [s \in Sides |-> None]
PortsOf(v) == IF vip[v].forward = None THEN NoList
              ELSE [s \in Sides |-> <<s, v, vip[v].forward[s]>>]

FgtRule(v) ==
    [lists |-> [addr |-> [s \in Sides |-> <<s, v>>], serv |-> PortsOf(v)],
     resolved |-> [s \in Sides |-> vip[v][s]],
     description |-> [text |-> vip[v].comment, intf |-> vip[v].intf, forward |-> vip[v].forward]]

\* _first_addr_value.
Resolve(a) == IF a = None THEN None ELSE addrRow[a]

RowRule(v) ==
    [lists |-> rule[v].lists,
     resolved |-> [s \in Sides |-> Resolve(rule[v].lists.addr[s])],
     description |-> rule[v].description]

Visible(v) == rule[v] # Absent /\ rule[v].linked

\* The part of a store that _load_addresses and _load_services fill.
LoadedObjects(kind) ==
    [e \in Addresses \cup Services |->
        IF e \in Addresses
        THEN IF kind = "device" THEN addr[e] ELSE addrRow[e]
        ELSE IF (IF kind = "device" THEN serv[<<e[1], e[2]>>] = e[3] ELSE e \in servRow)
             THEN "loaded" ELSE Absent]

\* An external IP is always typed ipaddress.
MadeUp(a) ==
    LET ip == vip[a[2]][a[1]]
    IN  IF a[1] = "ext" /\ ip \in Ranges THEN <<"ipaddress", ip>> ELSE ip

\* Defect: a VIP's own IP replaces that of the device's address of its name.
UpsertAlways(store, a) == IF Readable(a[2]) THEN MadeUp(a) ELSE store[a]

\* _upsert_address: what the store already has under the name stays.
UpsertAddress(store, a) ==
    IF store[a] = Absent /\ Readable(a[2]) THEN MadeUp(a) ELSE store[a]

UpsertService(store, k) ==
    IF Readable(k[2]) /\ PortsOf(k[2])[k[1]] = k THEN "loaded" ELSE store[k]

\* _load_nat_vips and _load_nat_policies.
LoadedRules(kind, store) ==
    [e \in Elements |->
        CASE e \in Addresses /\ kind = "device" -> UpsertAddress(store, e)
          [] e \in Services /\ kind = "device" -> UpsertService(store, e)
          [] e \in Addresses \cup Services /\ kind = "rows" -> store[e]
          [] e = Container -> IF kind = "device" THEN Generated ELSE policy
          [] e \in Vips /\ kind = "device" -> IF Readable(e) THEN FgtRule(e) ELSE Absent
          [] e \in Vips /\ kind = "rows" -> IF Visible(e) THEN RowRule(e) ELSE Absent]

EmptyStore == [e \in Elements |-> Absent]
Store(kind) == LoadedRules(kind, LoadedObjects(kind))

SourceKind(j) == IF req[j].kind = "pull" THEN "device" ELSE "rows"
TargetKind(j) == IF req[j].kind = "pull" THEN "rows" ELSE "device"

----------------------------------------------------------------------------
(* The job.                                                                *)

Idle == {"idle", "done", "failed", "crashed"}
Running == {"source", "sourceRules", "target", "targetRules", "loaded", "syncing"}
Requests == [kind : {"pull", "push"}, delete : BOOLEAN]
NoWork == [write |-> {}, delete |-> {}]

Init ==
    /\ \E w \in InitialWorlds :
          /\ vip = w.vip /\ addr = w.addr /\ serv = w.serv
          /\ addrRow = w.addrRow /\ servRow = w.servRow /\ policy = w.policy /\ rule = w.rule
    /\ phase = [j \in Jobs |-> "idle"]
    /\ req = [j \in Jobs |-> [kind |-> "pull", delete |-> FALSE]]
    /\ src = [j \in Jobs |-> EmptyStore]
    /\ dst = [j \in Jobs |-> EmptyStore]
    /\ todo = [j \in Jobs |-> NoWork]
    /\ touched = {}
    /\ edits = 0 /\ runs = 0

Advance(j, p) == phase' = [phase EXCEPT ![j] = p]

Start(j) ==
    /\ phase[j] \in Idle
    /\ runs < MaxRuns
    /\ \E r \in Requests : req' = [req EXCEPT ![j] = r]
    /\ Advance(j, "source")
    /\ src' = [src EXCEPT ![j] = EmptyStore]
    /\ dst' = [dst EXCEPT ![j] = EmptyStore]
    /\ todo' = [todo EXCEPT ![j] = NoWork]
    /\ touched' = touched \ {j}
    /\ runs' = runs + 1
    /\ UNCHANGED <<worldVars, edits>>

With(store, part) == [e \in Elements |-> IF e \in DOMAIN part THEN part[e] ELSE store[e]]

LoadSourceObjects(j) ==
    /\ phase[j] = "source"
    /\ src' = [src EXCEPT ![j] = With(@, LoadedObjects(SourceKind(j)))]
    /\ Advance(j, "sourceRules")
    /\ UNCHANGED <<worldVars, req, dst, todo, touched, edits, runs>>

LoadSourceRules(j) ==
    /\ phase[j] = "sourceRules"
    /\ src' = [src EXCEPT ![j] = LoadedRules(SourceKind(j), @)]
    /\ Advance(j, "target")
    /\ UNCHANGED <<worldVars, req, dst, todo, touched, edits, runs>>

LoadTargetObjects(j) ==
    /\ phase[j] = "target"
    /\ dst' = [dst EXCEPT ![j] = With(@, LoadedObjects(TargetKind(j)))]
    /\ Advance(j, "targetRules")
    /\ UNCHANGED <<worldVars, req, src, todo, touched, edits, runs>>

LoadTargetRules(j) ==
    /\ phase[j] = "targetRules"
    /\ dst' = [dst EXCEPT ![j] = LoadedRules(TargetKind(j), @)]
    /\ Advance(j, "loaded")
    /\ UNCHANGED <<worldVars, req, src, todo, touched, edits, runs>>

\* Defect: what does not differ is written again.
WritesAll(from, to) == {e \in Elements : from[e] # Absent}

Writes(from, to) == {e \in Elements : from[e] # Absent /\ from[e] # to[e]}

Deletes(from, to) == {e \in Elements : from[e] = Absent /\ to[e] # Absent}

ExecuteSync(j) ==
    /\ phase[j] = "loaded"
    /\ todo' = [todo EXCEPT ![j] =
          [write |-> Writes(src[j], dst[j]),
           delete |-> IF req[j].delete THEN Deletes(src[j], dst[j]) ELSE {}]]
    /\ Advance(j, "syncing")
    /\ UNCHANGED <<worldVars, req, src, dst, touched, edits, runs>>

TopLevel == <<Addresses, Services, {Container}, Vips>>
KindOf(e) == CHOOSE k \in DOMAIN TopLevel : e \in TopLevel[k]

\* top_level's order; within a kind, what the source has goes first.
Turn(j, kind, op, e) ==
    /\ phase[j] = "syncing" /\ req[j].kind = kind
    /\ e \in todo[j][op]
    /\ \A f \in todo[j].write \cup todo[j].delete : KindOf(e) <= KindOf(f)
    /\ op = "delete" => todo[j].write \cap TopLevel[KindOf(e)] = {}

Applied(j, e) ==
    /\ todo' = [todo EXCEPT ![j] = [write |-> @.write \ {e}, delete |-> @.delete \ {e}]]
    /\ touched' = touched \cup (Jobs \ {j})
    /\ UNCHANGED <<phase, req, src, dst, edits, runs>>

Raised(j) ==
    /\ Advance(j, "failed")
    /\ UNCHANGED <<worldVars, req, src, dst, todo, touched, edits, runs>>

Finish(j) ==
    /\ phase[j] = "syncing"
    /\ todo[j] = NoWork
    /\ Advance(j, "done")
    /\ UNCHANGED <<worldVars, req, src, dst, todo, touched, edits, runs>>

Crash(j) ==
    /\ phase[j] \in Running
    /\ Advance(j, "crashed")
    /\ UNCHANGED <<worldVars, req, src, dst, todo, touched, edits, runs>>

----------------------------------------------------------------------------
(* Pulling.                                                                *)

Without(list, e) == [s \in Sides |-> IF list[s] = e THEN None ELSE list[s]]
RulesWithout(e) ==
    [v \in Vips |->
        IF rule[v] = Absent THEN Absent
        ELSE [rule[v] EXCEPT !.lists = [addr |-> Without(@.addr, e), serv |-> Without(@.serv, e)]]]

Protected(e) ==
    /\ ProtectOnDelete
    /\ \E v \in Vips, s \in Sides :
          rule[v] # Absent /\ e \in {rule[v].lists.addr[s], rule[v].lists.serv[s]}

PutAddressRow(a, ip) ==
    addrRow' = [addrRow EXCEPT ![a] = ip] /\ UNCHANGED <<deviceVars, servRow, policy, rule>>
PutServiceRow(k) ==
    servRow' = servRow \cup {k} /\ UNCHANGED <<deviceVars, addrRow, policy, rule>>
PutPolicyRow(d) == policy' = d /\ UNCHANGED <<deviceVars, addrRow, servRow, rule>>
PutRule(v, r) ==
    rule' = [rule EXCEPT ![v] = r] /\ UNCHANGED <<deviceVars, addrRow, servRow, policy>>
RemoveAddressRow(a) ==
    /\ addrRow' = [addrRow EXCEPT ![a] = Absent] /\ rule' = RulesWithout(a)
    /\ UNCHANGED <<deviceVars, servRow, policy>>
RemoveServiceRow(k) ==
    /\ servRow' = servRow \ {k} /\ rule' = RulesWithout(k)
    /\ UNCHANGED <<deviceVars, addrRow, policy>>

\* create() finds no IPAddress for a range.
PullAddressCreate(j, a) ==
    /\ Turn(j, "pull", "write", a)
    /\ dst[j][a] = Absent
    /\ \/ src[j][a] \in Mistyped /\ Raised(j)
       \/ src[j][a] \notin Mistyped /\ PutAddressRow(a, src[j][a]) /\ Applied(j, a)

\* AddressObject.update() writes the description alone: the value stays.
PullAddressUpdate(j, a) ==
    /\ Turn(j, "pull", "write", a)
    /\ dst[j][a] # Absent
    /\ UNCHANGED worldVars
    /\ Applied(j, a)

PullAddressDelete(j, a) ==
    /\ Turn(j, "pull", "delete", a)
    /\ \/ Protected(a) /\ Raised(j)
       \/ ~Protected(a) /\ RemoveAddressRow(a) /\ Applied(j, a)

PullServiceCreate(j, k) ==
    /\ Turn(j, "pull", "write", k)
    /\ PutServiceRow(k)
    /\ Applied(j, k)

PullServiceDelete(j, k) ==
    /\ Turn(j, "pull", "delete", k)
    /\ \/ Protected(k) /\ Raised(j)
       \/ ~Protected(k) /\ RemoveServiceRow(k) /\ Applied(j, k)

PullPolicy(j) ==
    /\ Turn(j, "pull", "write", Container)
    /\ IF dst[j][Container] # Absent /\ policy = Absent THEN UNCHANGED worldVars
       ELSE PutPolicyRow(src[j][Container])
    /\ Applied(j, Container)

HasRow(e) == IF e \in Addresses THEN addrRow[e] # Absent ELSE e \in servRow

\* Defect: lists are set without asking whether what they name has a row.
FoundBlindly(list) == list

Found(list) == [s \in Sides |-> IF list[s] # None /\ HasRow(list[s]) THEN list[s] ELSE None]

FoundLists(l) == [addr |-> Found(l.addr), serv |-> Found(l.serv)]

\* update_or_create, the lists, and the NATPolicy if it has a row.
PullRuleCreate(j, v) ==
    LET e == src[j][v] IN
    /\ Turn(j, "pull", "write", v)
    /\ dst[j][v] = Absent
    /\ PutRule(v, [lists |-> FoundLists(e.lists), description |-> e.description,
                   linked |-> policy # Absent \/ Visible(v)])
    /\ Applied(j, v)

\* Each list is set if it changed; the resolved IPs are written nowhere.
PullRuleUpdate(j, v) ==
    LET e == src[j][v]
        was == dst[j][v]
        Set(new, old, now) ==
            [s \in Sides |-> IF new[s] = old[s] THEN now[s] ELSE Found(new)[s]]
    IN
    /\ Turn(j, "pull", "write", v)
    /\ was # Absent
    /\ IF rule[v] = Absent THEN UNCHANGED worldVars
       ELSE PutRule(v,
              [rule[v] EXCEPT
                 !.description = IF e.description = was.description THEN @ ELSE e.description,
                 !.lists = [addr |-> Set(e.lists.addr, was.lists.addr, @.addr),
                            serv |-> Set(e.lists.serv, was.lists.serv, @.serv)]])
    /\ Applied(j, v)

PullRuleDelete(j, v) ==
    /\ Turn(j, "pull", "delete", v)
    /\ PutRule(v, Absent)
    /\ Applied(j, v)

\* A worker may die in create() before the rule is added to its NATPolicy.
CutShort(j, v) ==
    LET e == src[j][v] IN
    /\ Turn(j, "pull", "write", v)
    /\ dst[j][v] = Absent
    /\ PutRule(v, [lists |-> FoundLists(e.lists), description |-> e.description,
                   linked |-> Visible(v)])
    /\ Advance(j, "crashed")
    /\ touched' = touched \cup (Jobs \ {j})
    /\ UNCHANGED <<req, src, dst, todo, edits, runs>>

----------------------------------------------------------------------------
(* Pushing.                                                                *)

PutAddress(a, ip) == addr' = [addr EXCEPT ![a] = ip] /\ UNCHANGED <<vip, serv, rowVars>>
PutService(a, p) == serv' = [serv EXCEPT ![a] = p] /\ UNCHANGED <<vip, addr, rowVars>>
PutVip(v, r) == vip' = [vip EXCEPT ![v] = r] /\ UNCHANGED <<addr, serv, rowVars>>

Call(j, e, accepted, write) ==
    \/ accepted /\ write /\ Applied(j, e)
    \/ ~accepted /\ Raised(j)

\* POST if the store had no such address, PUT if it had: a made-up one counts.
PushAddress(j, a) ==
    /\ Turn(j, "push", "write", a)
    /\ Call(j, a, (addr[a] = Absent) = (dst[j][a] = Absent), PutAddress(a, src[j][a]))

PushAddressDelete(j, a) ==
    /\ Turn(j, "push", "delete", a)
    /\ Call(j, a, addr[a] # Absent, PutAddress(a, Absent))

PushServiceCreate(j, k) ==
    /\ Turn(j, "push", "write", k)
    /\ Call(j, k, serv[<<k[1], k[2]>>] = Absent, PutService(<<k[1], k[2]>>, k[3]))

PushServiceDelete(j, k) ==
    /\ Turn(j, "push", "delete", k)
    /\ Call(j, k, serv[<<k[1], k[2]>>] # Absent, PutService(<<k[1], k[2]>>, Absent))

\* FortiGateNATPolicy: nothing on the device stands for a NATPolicy.
PushPolicy(j) ==
    /\ Turn(j, "push", "write", Container) \/ Turn(j, "push", "delete", Container)
    /\ UNCHANGED worldVars
    /\ Applied(j, Container)

\* _lookup_synth_addr_value: what the target's store holds by now, whatever
\* its address type.
Lookup(j, a) ==
    IF a = None THEN None
    ELSE IF src[j][a] # Absent THEN src[j][a]
    ELSE IF dst[j][a] = Absent \/ req[j].delete THEN None
    ELSE IF dst[j][a] \in Mistyped THEN dst[j][a][2] ELSE dst[j][a]

BothPorts(list) == \A s \in Sides : list[s] # None

PushRuleCreate(j, v) ==
    LET e == src[j][v]
        ip == [s \in Sides |-> Lookup(j, e.lists.addr[s])]
    IN
    /\ Turn(j, "push", "write", v)
    /\ dst[j][v] = Absent
    /\ \/ /\ \E s \in Sides : ip[s] = None
          /\ UNCHANGED worldVars /\ Applied(j, v)
       \/ /\ \A s \in Sides : ip[s] # None
          /\ Call(j, v, vip[v] = Absent,
                  PutVip(v, [ext |-> ip["ext"], mapped |-> ip["mapped"],
                             forward |-> IF BothPorts(e.lists.serv)
                                         THEN [s \in Sides |-> e.lists.serv[s][3]] ELSE None,
                             intf |-> IF e.description.intf = None THEN AnyIntf
                                      ELSE e.description.intf,
                             comment |-> e.description.text,
                             used |-> FALSE]))

\* Defect: an IP is sent only when the list of addresses changed.
SentByName(j, v, s) ==
    IF src[j][v].lists.addr[s] # dst[j][v].lists.addr[s]
    THEN Lookup(j, src[j][v].lists.addr[s]) ELSE None

\* A resolved IP that changed, else what a changed list resolves to.
SentIp(j, v, s) ==
    LET e == src[j][v]
        was == dst[j][v]
    IN  IF e.resolved[s] # was.resolved[s] /\ e.resolved[s] # None THEN e.resolved[s]
        ELSE IF s = "mapped" /\ e.lists.addr[s] # was.lists.addr[s]
        THEN Lookup(j, e.lists.addr[s])
        ELSE None

SentPort(j, v, s) ==
    LET new == src[j][v].lists.serv[s]
    IN  IF new = None \/ new = dst[j][v].lists.serv[s] THEN None ELSE new[3]

\* Defect: the lists the rule has now decide whether ports are forwarded.
ForwardAsListed(now, list, ext, mapped) ==
    IF BothPorts(list) THEN [s \in Sides |-> list[s][3]] ELSE None

\* What a PUT leaves of port forwarding: extport turns it on, and is also
\* where it maps to if nothing else is said; mappedport alone does not; and
\* nothing turns it off.
ForwardAfter(now, list, ext, mapped) ==
    IF ext = None /\ now = None THEN None
    ELSE LET on == IF ext = None THEN now
                   ELSE IF now = None THEN [ext |-> ext, mapped |-> ext]
                   ELSE [now EXCEPT !.ext = ext]
         IN  IF mapped = None THEN on ELSE [on EXCEPT !.mapped = mapped]

PushRuleUpdate(j, v) ==
    LET ip == [s \in Sides |-> SentIp(j, v, s)]
        port == [s \in Sides |-> SentPort(j, v, s)]
        sent == \E s \in Sides : ip[s] # None \/ port[s] # None
    IN
    /\ Turn(j, "push", "write", v)
    /\ dst[j][v] # Absent
    /\ \/ ~sent /\ UNCHANGED worldVars /\ Applied(j, v)
       \/ /\ sent
          /\ Call(j, v, vip[v] # Absent,
                  PutVip(v, [vip[v] EXCEPT
                     !.ext = IF ip["ext"] = None THEN @ ELSE ip["ext"],
                     !.mapped = IF ip["mapped"] = None THEN @ ELSE ip["mapped"],
                     !.forward = ForwardAfter(@, src[j][v].lists.serv, port["ext"], port["mapped"])]))

\* FortiOS keeps what a policy uses.
PushRuleDelete(j, v) ==
    /\ Turn(j, "push", "delete", v)
    /\ Call(j, v, vip[v] # Absent /\ ~vip[v].used, PutVip(v, Absent))

----------------------------------------------------------------------------
(* Operators.                                                              *)

Edited ==
    /\ edits < MaxEdits
    /\ edits' = edits + 1
    /\ touched' = Jobs
    /\ UNCHANGED <<phase, req, src, dst, todo, runs>>

DeviceEdit(e) ==
    /\ Edited
    /\ \/ e.of = "vip" /\ e.record # vip[e.key] /\ PutVip(e.key, e.record)
       \/ e.of = "addr" /\ e.record # addr[e.key] /\ PutAddress(e.key, e.record)
       \/ e.of = "serv" /\ e.record # serv[e.key] /\ PutService(e.key, e.record)

AddressRowEdit(a, ip) ==
    /\ ip # addrRow[a]
    /\ IF ip = Absent THEN ~Protected(a) /\ RemoveAddressRow(a) ELSE PutAddressRow(a, ip)

\* A user gives a service row another port: the rules that hold it see it.
ServiceRowRekey(k, p) ==
    LET new == <<k[1], k[2], p>>
        Follow(list) == [s \in Sides |-> IF list[s] = k THEN new ELSE list[s]]
    IN
    /\ k \in servRow /\ new \notin servRow
    /\ servRow' = (servRow \ {k}) \cup {new}
    /\ rule' = [v \in Vips |-> IF rule[v] = Absent THEN Absent
                  ELSE [rule[v] EXCEPT !.lists.serv = Follow(@)]]
    /\ UNCHANGED <<deviceVars, addrRow, policy>>

RuleEdit(v, r) ==
    /\ r # rule[v]
    /\ r # Absent => FoundLists(r.lists) = r.lists /\ (r.linked => policy # Absent)
    /\ PutRule(v, r)

\* Deleting a NATPolicy row leaves its rules, without a NATPolicy.
PolicyRowEdit(d) ==
    /\ d # policy
    /\ policy' = d
    /\ rule' = [v \in Vips |-> IF rule[v] = Absent THEN Absent
                  ELSE [rule[v] EXCEPT !.linked = @ /\ d # Absent]]
    /\ UNCHANGED <<deviceVars, addrRow, servRow>>

RowEdit(e) ==
    /\ Edited
    /\ \/ e.of = "addr" /\ AddressRowEdit(e.key, e.record)
       \/ e.of = "serv" /\ ServiceRowRekey(e.key, e.record)
       \/ e.of = "rule" /\ RuleEdit(e.key, e.record)
       \/ e.of = "policy" /\ PolicyRowEdit(e.record)

Load(j) ==
    \/ LoadSourceObjects(j) \/ LoadSourceRules(j)
    \/ LoadTargetObjects(j) \/ LoadTargetRules(j)

Pull(j) ==
    \/ \E a \in Addresses :
          PullAddressCreate(j, a) \/ PullAddressUpdate(j, a) \/ PullAddressDelete(j, a)
    \/ \E k \in Services : PullServiceCreate(j, k) \/ PullServiceDelete(j, k)
    \/ PullPolicy(j)
    \/ \E v \in Vips :
          PullRuleCreate(j, v) \/ PullRuleUpdate(j, v) \/ PullRuleDelete(j, v) \/ CutShort(j, v)

Push(j) ==
    \/ \E a \in Addresses : PushAddress(j, a) \/ PushAddressDelete(j, a)
    \/ \E k \in Services : PushServiceCreate(j, k) \/ PushServiceDelete(j, k)
    \/ PushPolicy(j)
    \/ \E v \in Vips : PushRuleCreate(j, v) \/ PushRuleUpdate(j, v) \/ PushRuleDelete(j, v)

Work(j) == Load(j) \/ ExecuteSync(j) \/ Pull(j) \/ Push(j) \/ Finish(j)

Next ==
    \/ \E j \in Jobs : Start(j) \/ Work(j) \/ Crash(j)
    \/ \E e \in DeviceEdits : DeviceEdit(e)
    \/ \E e \in RowEdits : RowEdit(e)

Spec == Init /\ [][Next]_vars

----------------------------------------------------------------------------
(* Properties.                                                             *)

Loaded(f, kind) ==
    /\ f = [e \in Elements |-> f[e]]
    /\ \A a \in Addresses :
          f[a] \in Values \cup {Absent} \cup (IF kind = "device" THEN Mistyped ELSE {})
    /\ \A k \in Services : f[k] \in {"loaded", Absent}
    /\ f[Container] \in {Generated, Retyped, Absent}
    /\ \A v \in Vips : f[v] \in LoadedRule \cup {Absent}

\* Every variable has its type, RulesTyped included, whatever jobs and users
\* delete or rename.
TypeOK ==
    /\ DeviceTyped(vip, addr, serv) /\ RowsTyped(addrRow, servRow, policy, rule)
    /\ phase \in [Jobs -> Idle \cup Running]
    /\ req \in [Jobs -> Requests]
    /\ src = [j \in Jobs |-> src[j]] /\ dst = [j \in Jobs |-> dst[j]]
    /\ \A j \in Jobs : Loaded(src[j], SourceKind(j)) /\ Loaded(dst[j], TargetKind(j))
    /\ todo \in [Jobs -> [write : SUBSET Elements, delete : SUBSET Elements]]
    /\ touched \subseteq Jobs /\ edits \in 0..MaxEdits /\ runs \in 0..MaxRuns

(***************************************************************************)
(* What holds of an undisturbed run on its way.                            *)
(***************************************************************************)
Applying == {"syncing", "done", "failed"}
Pending(j) == todo[j].write \cup todo[j].delete
Differs(j) ==
    Writes(src[j], dst[j]) \cup (IF req[j].delete THEN Deletes(src[j], dst[j]) ELSE {})
WorkedOff(j) == Differs(j) \ Pending(j)

\* What remains of the diff is part of the diff, and of kinds that top_level
\* does not name before what is already done.
PlanFollowsDiff(j) ==
    phase[j] \in Applying =>
        /\ todo[j].write \subseteq Writes(src[j], dst[j])
        /\ todo[j].delete \subseteq Deletes(src[j], dst[j])
        /\ ~req[j].delete => todo[j].delete = {}
        /\ \A e \in WorkedOff(j), f \in Pending(j) : KindOf(e) <= KindOf(f)
        /\ phase[j] = "done" => todo[j] = NoWork

\* A job does not write its source: what it has loaded is still there.
IsCurrent(store, kind, rulesToo) ==
    IF rulesToo THEN \A e \in Elements : store[e] = Store(kind)[e]
    ELSE \A e \in Addresses \cup Services : store[e] = LoadedObjects(kind)[e]

SourceIsCurrent(j) ==
    j \notin touched /\ phase[j] \notin {"idle", "source", "crashed"} =>
        IsCurrent(src[j], SourceKind(j), phase[j] # "sourceRules")

TargetIsCurrent(j) ==
    j \notin touched /\ phase[j] \in {"targetRules", "loaded"} =>
        IsCurrent(dst[j], TargetKind(j), phase[j] = "loaded")

\* What element e of the target stands at, according to the two adapters and
\* the plan: as it was loaded, until its turn has come.
Outcome(j, e) == IF e \in WorkedOff(j) THEN src[j][e] ELSE dst[j][e]

\* An address that has a row keeps its IP; a rule keeps what it refers to,
\* as far as it has a row, until it is written, and then has it all.
PulledRule(j, v) ==
    IF v \in WorkedOff(j)
    THEN IF src[j][v] = Absent THEN rule[v] = Absent
         ELSE rule[v] = [lists |-> src[j][v].lists, description |-> src[j][v].description,
                         linked |-> TRUE]
    ELSE IF dst[j][v] = Absent THEN ~Visible(v)
    ELSE /\ Visible(v)
         /\ rule[v].lists = FoundLists(dst[j][v].lists)
         /\ rule[v].description = dst[j][v].description

PullIsOnCourse(j) ==
    j \notin touched /\ phase[j] \in Applying /\ req[j].kind = "pull" =>
        /\ \A a \in Addresses :
              addrRow[a] = IF src[j][a] # Absent /\ dst[j][a] # Absent THEN dst[j][a]
                           ELSE Outcome(j, a)
        /\ \A k \in Services : k \in servRow <=> Outcome(j, k) # Absent
        /\ policy = Outcome(j, Container)
        /\ \A v \in Vips : PulledRule(j, v)
        /\ \A v \in Vips, s \in Sides : dst[j][v] # Absent =>
              /\ dst[j][v].lists.addr[s] # None => dst[j][dst[j][v].lists.addr[s]] # Absent
              /\ dst[j][v].lists.serv[s] # None => dst[j][dst[j][v].lists.serv[s]] # Absent

\* The VIP that a push leaves of what it loaded of a rule.
PushedVip(j, v) ==
    LET e == src[j][v] IN
    IF v \notin WorkedOff(j)
    THEN dst[j][v] = IF Readable(v) THEN FgtRule(v) ELSE Absent
    ELSE IF e = Absent THEN vip[v] = Absent
    ELSE /\ (\A s \in Sides : e.resolved[s] # None) => Readable(v)
         /\ Readable(v) =>
               /\ \A s \in Sides : e.resolved[s] # None => vip[v][s] = e.resolved[s]
               /\ e.lists.serv["ext"] # None /\ (dst[j][v] # Absent \/ BothPorts(e.lists.serv)) =>
                     /\ vip[v].forward # None
                     /\ \A s \in Sides :
                           e.lists.serv[s] # None => vip[v].forward[s] = e.lists.serv[s][3]

\* The device has an address or a service it was loaded with, unless a VIP
\* that still stands made it up.
PushIsOnCourse(j) ==
    j \notin touched /\ phase[j] \in Applying /\ req[j].kind = "push" =>
        /\ \A a \in Addresses :
              \/ addr[a] = Outcome(j, a)
              \/ a \notin WorkedOff(j) /\ addr[a] = Absent /\ dst[j][a[2]] # Absent
        /\ \A k \in Services :
              /\ k \notin WorkedOff(j) /\ serv[<<k[1], k[2]>>] = k[3] => dst[j][k] # Absent
              /\ k \in Pending(j) /\ dst[j][k] # Absent /\ dst[j][k[2]] = Absent =>
                    serv[<<k[1], k[2]>>] = k[3]
        /\ \A v \in Vips : PushedVip(j, v)

\* The inductive invariant.
SyncInvariant ==
    /\ TypeOK
    /\ \A j \in Jobs :
          /\ PlanFollowsDiff(j) /\ SourceIsCurrent(j) /\ TargetIsCurrent(j)
          /\ PullIsOnCourse(j) /\ PushIsOnCourse(j)

JobStep == edits' = edits
Clean(j, kind) == phase[j] = "done" /\ j \notin touched /\ req[j].kind = kind

\* After a clean pull every VIP that says both its IPs has a visible rule with
\* its description, that refers to the two addresses made for it and to
\* services with its ports.
\* But the IPs the rule resolves to are those its addresses were created
\* with: the device's own address of that name then, if there was one, else
\* the VIP's; no later change of an IP arrives.  A destructive pull leaves
\* no other rule that a job can see, one of a VIP that is skipped neither.
PullMirrorsVips ==
    \A j \in Jobs : Clean(j, "pull") =>
        /\ policy = Generated
        /\ \A v \in Vips : Readable(v) =>
              /\ Visible(v)
              /\ rule[v].description = FgtRule(v).description
              /\ rule[v].lists = FgtRule(v).lists
              /\ \A s \in Sides :
                    RowRule(v).resolved[s] =
                       IF dst[j][<<s, v>>] # Absent THEN dst[j][<<s, v>>]
                       ELSE IF addr[<<s, v>>] # Absent THEN addr[<<s, v>>]
                       ELSE vip[v][s]
        /\ req[j].delete =>
              /\ \A v \in Vips : Visible(v) => Readable(v)
              /\ \A a \in Addresses : addrRow[a] # Absent => Store("device")[a] # Absent
              /\ \A k \in servRow : Store("device")[k] # Absent

\* After a clean push the VIP of every visible rule that refers to two
\* addresses has the IPs that the rule resolves to, whatever the device had,
\* and the port of each service the rule still has; only a VIP whose rule has
\* no service for the external port may be left forwarding, or not.  The
\* device's own addresses of these names have the rows' IPs; one that has a
\* row is missing only if a VIP's made-up address stood in for it.  A
\* destructive push leaves no VIP without a visible rule, but for those the
\* load skips.
PushMirrorsVips ==
    \A j \in Jobs : Clean(j, "push") =>
        /\ \A v \in Vips : Visible(v) =>
              LET e == RowRule(v) IN
              /\ (\A s \in Sides : e.resolved[s] # None) => Readable(v)
              /\ Readable(v) =>
                    /\ \A s \in Sides : e.resolved[s] # None => vip[v][s] = e.resolved[s]
                    /\ e.lists.serv["ext"] # None /\ (dst[j][v] # Absent \/ BothPorts(e.lists.serv)) =>
                          /\ vip[v].forward # None
                          /\ \A s \in Sides :
                                e.lists.serv[s] # None => vip[v].forward[s] = e.lists.serv[s][3]
        /\ \A a \in Addresses : addrRow[a] \notin {Absent, addr[a]} =>
              addr[a] = Absent /\ dst[j][a[2]] # Absent
        /\ req[j].delete => \A v \in Vips : Readable(v) => Visible(v)

\* Why a job that nobody disturbed can die.  A pull: it is destructive, and a
\* rule still holds the row, as it does when the port of a VIP has changed; or
\* a VIP's external IP is a range, and no row or address of the device has the
\* name of the address made up for it.  A push: it takes an object made up for
\* a VIP for one of the device, and updates or deletes what is not there; a
\* service's name is taken by one with another port, or a VIP's by one that
\* the load skips; or a policy uses the VIP.
AbortsAreExplained ==
    \A j \in Jobs : phase[j] = "failed" /\ j \notin touched =>
        \/ /\ req[j].kind = "pull" /\ req[j].delete
           /\ \E e \in todo[j].delete \cap (Addresses \cup Services) : Protected(e)
        \/ /\ req[j].kind = "pull"
           /\ \E v \in Vips :
                 /\ Readable(v) /\ vip[v].ext \in Ranges
                 /\ addr[<<"ext", v>>] = Absent /\ addrRow[<<"ext", v>>] = Absent
        \/ /\ req[j].kind = "push"
           /\ \/ \E a \in (todo[j].write \cup todo[j].delete) \cap Addresses :
                    Readable(a[2]) /\ addr[a] = Absent
              \/ \E k \in todo[j].delete \cap Services :
                    Readable(k[2]) /\ serv[<<k[1], k[2]>>] = Absent
              \/ \E k \in todo[j].write \cap Services :
                    serv[<<k[1], k[2]>>] \notin {Absent, k[3]}
              \/ \E v \in todo[j].write \cap Vips : vip[v] # Absent /\ ~Readable(v)
              \/ \E v \in todo[j].delete \cap Vips : vip[v].used

\* A push nobody disturbs changes of an existing VIP only IPs and ports, to
\* what its rule says; it never changes its interface and never turns port
\* forwarding off.  Nor does it change the comment: the docstring of the class
\* says an update can change the description, that of update() says it cannot.
PushKeepsVip ==
    [][\A j \in Jobs, v \in Vips :
          LET was == vip[v]
              is == vip'[v]
          IN
          JobStep /\ todo'[j] # todo[j] /\ j \notin touched /\ is # was
             /\ was # Absent /\ is # Absent
          => /\ is.intf = was.intf /\ is.comment = was.comment
             /\ \A s \in Sides : is[s] # was[s] => is[s] = RowRule(v).resolved[s]
             /\ was.forward # None =>
                   /\ is.forward # None
                   /\ \A s \in Sides : is.forward[s] # was.forward[s] =>
                         /\ rule[v].lists.serv[s] # None
                         /\ rule[v].lists.serv[s][3] = is.forward[s]]_vars

\* What the documentation promises: an IP edited on the address of a VIP's
\* rule is the VIP's IP once a push that nobody disturbed has ended.
EditedIpReachesVip ==
    \A j \in Jobs : phase[j] \in {"done", "failed"} /\ j \notin touched /\ req[j].kind = "push" =>
        \A v \in Vips : Readable(v) /\ Visible(v) /\ RowRule(v).resolved["mapped"] # None
            => vip[v].mapped = RowRule(v).resolved["mapped"]
=============================================================================
