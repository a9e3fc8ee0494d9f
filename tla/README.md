# Verification of nautobot-ssot-fortinet

TLA+ models of the synchronisation jobs of `nautobot_ssot_fortinet`, checked
with TLC on small instances and, where that is possible, proved with TLAPS for
every value of the constants. Paths below are relative to
`src/src/nautobot_ssot_fortinet/`; every definition that models code is tied to
its lines by `map` in `PROJECT.json`.

## The system

The plugin keeps a FortiGate firewall and the Nautobot database alike. A *job*
(a Celery task that an operator starts from a form) loads both sides into two
DiffSync *adapters*, takes the diff, and lets each differing element write
itself through the `create`, `update` or `delete` of its *model*. A pull job
reads the device over REST and writes ORM rows; a push job reads rows and writes
the device, one REST call per element.

| Component | State | Operations | Interaction | What is hard | What makes it correct |
|---|---|---|---|---|---|
| Firewall addresses and groups (`adapters/*_firewall.py`, `models/*firewall.py`) | `firewall/address`, `firewall/addrgrp` on the device; `AddressObject`, `AddressObjectGroup` rows under a mangled name | load, diff, six CRUD methods each way | groups refer to addresses on both sides; ORM protects or cascades | order of writes, lossy reads, stale loads, aborts half-way, several jobs | a clean run mirrors what can be read; nothing is removed unasked; nobody writes out of scope |
| Services and service groups | rows shared by all devices, identified by (protocol, port, name) | as above | policies and groups refer to them | an unscoped pool, partial updates | a run leaves others' services alone |
| Policies and rules | `firewall/policy`; `PolicyRule` rows with six lists of objects, related to one `Policy` row per VDOM | as above | refer to everything above | partial updates, rules that hang on no row or on two, a worker that dies in a create | a clean pull names each policy's readable members; a push leaves alone what it does not send |
| NAT VIPs | `firewall/vip`; `NATPolicyRule` rows, addresses and services made up for each VIP | as above | the made-up objects travel with the real ones | two sources for one IP, collisions of names, PUTs of what is not there | each VIP has a rule with its IPs and ports, and the reverse |
| Device, interfaces, static routes (`adapters/*devices*.py`, `models/*devices.py`) | `system/interface`, `router/static`; `Device`, `Interface`, `VLAN`, `IPAddress`, `FortinetStaticRoute` rows | load, diff, CRUD, safety guards | routes point to interfaces, sub-interfaces to parents; IPAM is shared | foreign keys that do not exist yet, cascades, guards on merged data, addresses with an order | the guards hold; a clean pull leaves only explained differences |
| Wireless (SSIDs, radio profiles, access points) | `vap`, `wtp-profile`, `wtp`; wireless rows, `Device` rows | as above; one POST for several sibling radios | radios live inside a profile; Devices are everybody's | aggregation of siblings, lossy securities, Devices without a serial | a profile is written once and completely; nothing unsent changes; only the job's Devices go |
| Live status job | none | reads three monitor endpoints, joins by MAC | none | partial answers | - |
| REST client, secrets (`clients/fortigate.py`) | a session | build, login, logout | used by all jobs | who closes the session; which VDOM it talks to | each job talks to its own VDOM |
| Translations (`utils/fortios.py`) | none | conversions, `check_fortios_response` | used by all models | inverse pairs, lossy cases | a round trip gives back what it was given |
| UI (filters, forms, tables, views) | none | declarative | Nautobot | - | - |

The hazards, each at its line, are listed in `PROJECT.json`, with the
properties that cover them or the reason none does yet.

## What is modelled

### AddressSync: the firewall jobs on addresses and groups

`fgt[s]` is the configuration of one scope (hostname and VDOM) on the device,
`orm[s]` the rows whose mangled name lies in that scope. A job `j` has a phase,
the request of its form, its two loaded stores `src[j]`, `dst[j]`, and `todo[j]`,
the elements it still has to write and to delete. `load()` reads addresses and
groups in separate calls, so each adapter is filled in two steps
(`LoadSourceAddresses`, `LoadSourceGroups`, and the same for the target), with
anything in between. `ExecuteSync` takes the diff and, unless the delete box is
ticked, drops the deletions (`SKIP_UNMATCHED_DST`). Then there is one action
per CRUD method and kind: `PullAddressCreate` ... `PushGroupDelete`. `Turn` is
the order DiffSync gives them: kinds in `top_level` order, and in a kind the
elements of the source first. The order of elements inside a kind is left open.

What FortiOS accepts is modelled from the way the code uses it (`AcceptsCreate`,
`AcceptsUpdate`, `AcceptsDelete`): members exist, names are used once, a record
in use is not deleted. A refusal is `Raised`: `check_fortios_response` raises and
the job dies where it stands. `WithoutRow` is the deletion of a row, with
firewall-models' `protect_on_delete` or without. `Crash` is a killed worker.
Operators edit both sides at any time within `MaxEdits`.

Data are reduced to what the properties can tell apart. A value is a model
value, and the way to a device is the function `Stored`: FortiOS has no type of
its own for a host, so an IPAddress row x and a Prefix row x/32 are both sent as
the subnet x/32 (`_address_payload`), which is read as the IP address x
(`_address_value`). `Arrived` is a record after that conversion. An IPv6 prefix has
no payload (`Unsendable`, `Sendable`): `_cidr_to_fortios_subnet` raises. Types
Nautobot cannot hold are two: `Opaque` ones (mac, dynamic,
geography) are read as a placeholder (`StandIn`) with an annotated comment
(`Annotate`), the others (`Unsupported`) are skipped. A description is a
sequence: `<<n>>` and `<<n, c>>` are what `create()` and `update()` build,
`<<c>>` is free text; `Strip` reads all three back. `ClientScope` maps a scope to
the VDOM its client talks to, because `build_client()` is never told.

Left out: the IPAM rows a value points to, the cut of comments at 255 characters,
and users of an address other than groups.

### DeviceSync: the device jobs on interfaces and static routes

One FortiGate, one run at a time. `ifs` is the interface table of all VDOMs,
`rts` the route table of the client's VDOM; on the other side there are the
`Device` row (`anchor`, `scope`), its interface rows, its route rows by VDOM, and
`ipam`, the mask under which IPAM knows an address. All CRUD methods and all
guards are actions: `ApplyVlanAttrs`, `ImportIps`, `ResolveInterface`,
`IsPushableVlan`, `IsPushableRoute`, `VlanPayload`, `RoutePayload`. `RemoveRow`
is the deletion of an interface row with what the database does to its
sub-interfaces (either of the two things dcim may do: all of them, however deep,
go with it (`Family`), or its own lose their parent) and to routes (SET_NULL).
The addresses of a row are a set, and the adapter sorts them: `HostAt` is the
address of a `Rank`. `vlanid` is read on ports as well as on VLANs, the mode
(`Modes`) only on VLANs: `ReadInterface` gives a port with an id no mode, where
`ApplyVlanAttrs` stores one. The `scope` of a `Device` row stands for its type, role,
location and status: the form of a pull gives one (`GivenScope`), the diff compares
it, `PullDeviceCreate` writes it and `PullDeviceUpdate` does not; a push of a Device
writes nothing (`PushDevice`). `access` is `allowaccess`: each write of a VLAN sends
`ping` alone, although `fortigate_target_devices.py:18-20` tells the operator to
adjust it after the first sync.
`DeviceReads` is the catch-all around the GET of the routes: a read may come
back without any. A text is what someone typed under a number of sync markers.

Left out: attributes that travel like the description without its marker
(enabled, mtu, distance, priority); the serial; the two extra GETs that resolve a
route's destination (a route may have none); names the adapter always skips.

### ServiceSync: the firewall jobs on services and service groups

`svc[h]` and `grp[h]` are the services and groups of FortiGate `h`; `rowGrp[h]`
its group rows, kept apart by mangled names; `pool` is the one table of
`ServiceObject` rows of all FortiGates. A row has a key and a comment, the key
being (protocol, port, name): what was an attribute on the device is identity in
Nautobot, so a changed port is another row. `ServicePorts` and `Define` are the
two conversions (`fortios_service_ports`, `build_fortios_service_payload`), the
second with what a PUT leaves alone on the device: ranges that are not sent
stay. The IP protocols 6 and 17 are read as TCP and UDP without a port, and such a
row is sent as TCP/UDP/SCTP with an empty range, so that a UDP row without a port
reads back as TCP (`Arrived`, `PushedAs`). What is left is read under the protocol's
own name (`Proxied`: HTTP, FTP, SOCKS), which is no choice of firewall-models: saving
such a row may raise, as the code's own comment (`utils/fortios.py:62-64`) expects
(`Save`, which leaves open whether the model validates). A row without a payload
(`Pushable` says which have one) is skipped by create and update alike (`Skip`). The phases of a job, `Turn` and `Applied` are those of `AddressSync`, with
the stores of services and groups loaded one after the other; the members of a
group are resolved against the services of the same store (`FgtGroups`) when
read and against the pool when written (`Found`). Deleting a row takes it out
of the groups of every FortiGate, or is refused when rows are protected
(`Protected`).

Left out: SCTP, which travels as UDP does (and number 132 as 17), and ICMP types,
which travel as TCP ports do; several ranges in one field; user edits of group rows. A group's
comment is what `Strip` of `AddressSync` makes of its description.

### PolicySync: the firewall jobs on policies

`pol[id]` is the device's policy, `rule[r]` the `PolicyRule` row, `policy[c]` the
`Policy` rows that the load of a scope finds (the job's own, `Ours`, and those a
user made under its prefix). `rule[r].linked` is the relation between the two: a
rule that hangs on no such row is invisible to `_load_policies` (`Visible`), one
that hangs on two makes it raise (`LoadRaises`). Of the objects a policy names
only existence, readability and use is kept: what they hold is the subject of
`AddressSync` and `ServiceSync`. The kinds of objects are a parameter
(`ObjectKinds`, in `top_level` order), and the sides of a policy too.

`Created` is `create()` (update_or_create by name, then the lists, then the
relation, if the `Policy` has a row by now), `Merge` and `Redescribed` are what
`update()` writes and what it forgets (`request_id`, the relation). `Posted` and
`Put` are the payloads of a push; `Put` has no name, comment or interfaces, and
sends a side as the union of its lists as soon as one of them changed.
`CutShort` is a worker that dies inside `create()` or `delete()`: with some lists
set and no relation, or with the relation gone and the row there. FortiOS may
refuse an empty list (`MayRefuse`), a choice the model leaves open.

Left out: `index` (always the id, never sent) and policies whose interfaces are
an empty list.

### NatSync: the firewall jobs on VIPs

A VIP holds its IPs and ports itself. The adapter makes up an address and a
service for either side of it (`UpsertAddress`, `UpsertService`) and puts them
into the store of the device's own; from there the diff takes them for objects
of the device. `addr` and `serv` are what the device really has under those
names. A loaded rule carries the resolved IPs (`Resolve`), which are compared
but, on a pull, written nowhere. `SentIp`, `SentPort` and `ForwardAfter` are the
partial PUT of a VIP; `Lookup` is the value of an address in the target's store at
that moment of the run.

VIPs that say no external or no mapped IP (load balancing, for one) are on the
device and are skipped by the load (`Readable`): no store knows them, and their names
are taken. An IP may be a range (`Ranges`); `MadeUp` types the external one
`ipaddress` whatever it is, and `create()` of such an address (`Mistyped`) finds no
IPAddress and raises. A VIP that a policy of the device uses (`used`) is not deleted.

Left out: lists of more than one object, addresses that are no IP, rules without
a VIP's name, other `NATPolicy` rows (`PolicySync` shows what they do), the protocol of
a forwarded port, log and index, descriptions of addresses and services, and
policies of the device that use one of those.

### WirelessSync: the wireless jobs

`vap`, `prof` and `wtp` on the device; `vapRow`, `radioRow` and `apRow` in
Nautobot, the last being all Devices that matter: those with the serial of an
access point, in the job's scope (type, role, location) or not, and some without
a serial. `ModeOf` is the mode index with `Counter.most_common`'s way with ties;
`KeyedSecurity` and `Lossy` are the map of securities, `AuthToFortios` its partial
inverse. `Siblings` is how `create()` guesses whether a profile exists, from what
the target's store holds at that moment: what was loaded and what this push has
made. `PostedProfile` is the one POST with all radios, `PutRadio` the partial PUT
of one. A pull with `aps` has the three inputs that access points need.

Left out: the cut of a comment at 255 characters, names FortiOS leaves empty,
radio profiles of other names than the adapter makes, and the profile of an
access point.

### SyncJob: what a job promises

`SyncJob` says in a page what every job should be, of records that exist or do
not: it is ordered to write one side of one place, reads, takes a plan of names to
write and to delete, and works it off, each name once. It never makes a record of
the source, or of another place, come or go, deletes nothing its order does not
say, and is done only when its plan is. It may stop at any moment, also in the
middle of a write (`Stop`; only a pull of policies needs the latter).

`AddressSync` implements it, with scopes as places, and `PolicySync`, with one
place: both have `ImplementsSyncJob`, an `INSTANCE SyncJob WITH` the mapping of
`Held` (what exists), `StageOf` (a job's phase) and `OrderOf` (its form). It does
not hold of `ServiceSync`, `WirelessSync` and `DeviceSync`, record by record, and
why not is worth knowing: services share a name on the device, and one delete
by name takes another's; a push of one radio creates the whole profile with its
siblings; the deletion of a Device without a serial takes them all; the deletion of
an interface row cascades. `NatSync` is not mapped.

### How they relate

One firewall job does all of this in the order of `top_level`: addresses and their
groups (`AddressSync`), services and theirs (`ServiceSync`), policies and rules
(`PolicySync`), NAT policies and rules (`NatSync`). Each module has the kinds it is
about; a refusal in an earlier kind keeps the later from starting, which looks to
them like a crash before the first write. `PolicySync` composes the two: its
objects are addresses, services and groups reduced to what policies can tell
of them, so the order of writes between kinds (an object before the rule that
needs it, its deletion before the rule that no longer does) is explored there, and
`NatSync` does the same for the objects of a VIP. Device jobs and wireless jobs
write disjoint tables on both sides, except `Device` rows: an access point is one,
and `PullKeepsDevices` says which of them a wireless pull may touch.

## Runs

| Run | Question | Instance |
|---|---|---|
| `address_sync` | What does a clean run leave on both sides, why does a run die, is the invariant of the proofs true? | one scope, two addresses, two groups (also nested), seven starting worlds (one of them with a host's Prefix and an IPv6 prefix), two runs of either kind, one operator edit at any point, protected deletes |
| `address_jobs` | Do two jobs at once keep to their scope, keep records, and end? | two VDOMs of one host with equal names, one address and one group each, two jobs, unprotected deletes; a group of one scope borrows an address of the other, and loses that member alone when it is deleted |
| `services` | What do jobs of two FortiGates do to the rows they share, and to the meaning of a service? | two FortiGates, two service names, two ports, one group, four starting worlds (also with services without a port, IP numbers 6 and 17, and a protocol Nautobot does not have), two jobs (interchangeable, hence the symmetry), one edit, protected deletes |
| `devices` | What may a clean pull leave different, what does a clean push deliver, what does no push touch? | seven starting worlds over two VDOMs, a port (also one with a VLAN id), a VLAN on it and one on that VLAN, routes 999 and 1000, two scopes of the Device, two runs, one edit |
| `policies` | What does a clean run leave of every policy and of its relation to a `Policy` row, what does no push touch, is every step one of `SyncJob`? | two policies and a rule of an odd name, two `Policy` rows, three objects of three kinds, one of them unreadable, four starting worlds, two jobs, one edit, protected deletes |
| `nat` | Which IPs and ports arrive on either side, why does a job die, what does a push never change of a VIP? | one VIP, two IPs and a range, two ports, four starting worlds (also with the device's own objects of these names), edits that make it a VIP without IPs or with a range, two jobs, one edit, protected deletes |
| `wireless` | What does a clean pull bring, what may a clean push leave different, which Devices may a pull take? | two SSIDs, two profiles of up to two radios, two access points and two Devices without a serial, three starting worlds, two jobs, one edit |

Each of these runs but `address_jobs` also checks the inductive invariant of the
proofs, `SyncInvariant` (and `RunsOnCourse` in `address_sync`), so that an invariant
that a step breaks shows up as a trace before anyone tries to prove it.

`PullMirrorsDevice`, `PushMirrorsRows`, `PullResidue`, `PushDelivers`,
`RoundTripResidue`, `PullMirrorsServices`, `PushMirrorsPool`, `PullMirrorsPolicies`,
`PushMirrorsRules`, `PullMirrorsVips`, `PushMirrorsVips`, `PullMirrorsWireless` and
`PushResidue` speak of *clean* runs: the job ended well and nobody else wrote
meanwhile (`touched`). They say exactly what may differ afterwards, so a new
difference is a counterexample. What they grant is worth reading, for it is what
the code does not do:

- a Prefix row x/32 is read back as the IP address x, so both sides differ for ever
  and each push sends it again (`PushMirrorsRows`): the comment at
  `adapters/fortigate_firewall.py:563-572` has the round trip of IP addresses in
  mind, which it does make stable;
- a changed value of an address is never written, and a push puts the old one
  back (`RoundTripResidue`); nor does a changed IP of a VIP arrive (`PullMirrorsVips`);
- a pushed VLAN differs from its row for ever, because of the marker in its
  description (`PushDelivers`), and so does an SSID with a VLAN (`PushResidue`); each
  of these pushes lets in ping alone again;
- a port with a VLAN id differs for ever in its mode, an id or a parent that the
  device has dropped is never cleared, and the scope of a `Device` row that was there
  is never written, whatever the form says (`PullResidue`);
- a failed GET of the routes removes all route rows (`PullResidue`), and a push
  may rewrite a blackhole of the device (`PushStaysInBounds`);
- a push sends each FortiGate the services of all others, and a UDP service without a
  port that it has sent reads back as TCP (`PushMirrorsPool`);
- a VIP that says no external or mapped IP is passed over by a pull, stays after a
  destructive push, and ends a push of a rule of its name; an external IP that is a
  range ends a pull (`PullMirrorsVips`, `PushMirrorsVips`, `AbortsAreExplained`);
- a renamed policy keeps its old name in Nautobot and grows a prefix, and rules of
  a `Policy` row that a destructive pull deletes hang nowhere afterwards
  (`PullMirrorsPolicies`); name, interfaces and comment of a policy are never
  pushed (`PushKeepsUnsent`);
- an SSID's mode is never pushed, and channels do not read back (`PushResidue`).

`PushKeepsMeaning` names the two things an undisturbed push takes from a service
it updates (the restriction of its source ports; that it is IP protocol 6 or 17), `PoolKeepsOthers` who may remove
shared rows, `PullKeepsDevices` which Devices a pull may remove or take over.
`PushKeepsUnsent` (of `PolicySync` and of `WirelessSync`) and `PushKeepsVip` say
what an undisturbed push leaves of what it does not send. The last disagrees with the
class docstring (`models/fortigate_target_firewall.py:581-583`: "The update path can
change the mapped IP, ports (if portforward), and description"): `update()` (648-704)
sends no comment, as its own docstring says, and the property states what it does.
`ScopeIsolation` lets the deletion of an address take one thing from other scopes:
that member, out of the groups that hold it.
`PushKeepsUnreadable`, `AdditiveKeepsRecords`, `ScopeIsolation`,
`PushStaysInBounds`, `RoutesOnlyOnRequest` and `ImplementsSyncJob` restrict every
single step, also after edits and next to other jobs. `AbortsAreExplained`, in
each module of the firewall and wireless jobs, lists why an undisturbed job can
die of a refused write. `JobsEnd` is the liveness property.

Five runs show where the code does not do what its documentation or comments
say; each has a finding in `PROJECT.json`:

| Run | What the counterexample shows |
|---|---|
| `address_vdom` | a pull for a second VDOM stores the client's VDOM under its name |
| `address_standin` | pushing a comment replaces a mac address by its placeholder |
| `devices_additive` | the device pull deletes although its delete box is not ticked |
| `nat_edited_ip` | an IP edited on a VIP's address ends the push before it reaches the VIP |
| `wireless_channels` | pushing a power limit empties the radio's list of channels |

### Bounds

- Two runs (`MaxRuns`): enough for a run on what another one left (aborted,
  crashed or complete), and for two at once; three add no new pair of
  interacting jobs.
- One edit (`MaxEdits`) at any point: every stale read is a store that changed
  between one load and one write; `address_jobs` has none, there the other job
  makes the change.
- Two addresses: one that is read and one that is not, one deleted and one
  kept. Two groups: the smallest nesting. Two scopes: the smallest pair of name
  spaces. In `ServiceSync` two FortiGates, the
  smallest pool with rows of others, and two ports, for a service that moved. In
  `DeviceSync` a parent, its sub-interface and one on that, the smallest chain, and
  sequence numbers on both sides of the limit of 1000. In `PolicySync` a policy
  that is kept and one that is not, a readable and an unreadable object and one
  on another side, the job's `Policy` row and a user's. In `NatSync` one VIP: VIPs
  share nothing, their objects carry their names. In `WirelessSync` two profiles, for
  the mode of an SSID that both serve, and two radios, the smallest family of
  siblings; two Devices without a serial.
- Jobs are interchangeable where the symmetry of a run permutes them: no property
  of such a run is a liveness property, and no world names a job.
- Starting worlds are states an earlier sync or an administrator leaves: a new
  device, both sides equal, drift, shadowing, placeholders, nesting. From each of
  them everything the actions allow is explored.
- Deadlock is not checked: when all runs and edits are used up, the system is at
  rest.

### Fairness

`AddressSync` assumes `WF_vars(Work(j))` for every job: a worker that has taken a job
goes on executing it. This is what a Celery worker is for; a worker that stops
is `Crash`, which ends the job. No fairness is assumed of operators, of starting
jobs or of crashes. The other modules have no liveness property
and assume none.

## Proofs

Every theorem holds for every choice of the constants: any number of names,
scopes, FortiGates, jobs, runs and edits. Apart from `JobsEnd` and the refinement
of `PolicySync`, every property that a passing run checks is also proved.

| Module | Theorems | Property of a run |
|---|---|---|
| `AddressSyncProofs` | `SyncInvariantHolds`, `TypeCorrect` | `SyncInvariant` |
| | `AdditiveIsSafe`, `JobsAreIsolated` | `AdditiveKeepsRecords`, `ScopeIsolation` |
| | `StripInvertsDescribe` | - |
| `AddressRunProofs` | `RunsStayOnCourse`, `AbortsHaveAReason` | `RunsOnCourse`, `AbortsAreExplained` |
| | `CleanPullMirrors`, `CleanPushMirrors` | `PullMirrorsDevice`, `PushMirrorsRows` |
| | `CleanPullLeavesResidue`, `UnreadableIsKept` | `RoundTripResidue`, `PushKeepsUnreadable` |
| `AddressRefinement` | `AddressImplementsSyncJob` | `ImplementsSyncJob` |
| `ServiceSyncProofs` | `SyncInvariantHolds`, `AbortsHaveAReason` | `SyncInvariant`, `AbortsAreExplained` |
| | `CleanPullMirrors`, `CleanPushMirrors` | `PullMirrorsServices`, `PushMirrorsPool` |
| | `OthersAreKept`, `MeaningIsKept` | `PoolKeepsOthers`, `PushKeepsMeaning` |
| `PolicySyncProofs` | `SyncInvariantHolds`, `AbortsHaveAReason` | `SyncInvariant`, `AbortsAreExplained` |
| | `CleanPullMirrors`, `CleanPushMirrors`, `UnsentIsKept` | `PullMirrorsPolicies`, `PushMirrorsRules`, `PushKeepsUnsent` |
| `NatSyncProofs` | `SyncInvariantHolds`, `AbortsHaveAReason` | `SyncInvariant`, `AbortsAreExplained` |
| | `CleanPullMirrors`, `CleanPushMirrors`, `VipIsKept` | `PullMirrorsVips`, `PushMirrorsVips`, `PushKeepsVip` |
| `WirelessSyncProofs` | `SyncInvariantHolds`, `TypesHold`, `AbortsHaveAReason` | `SyncInvariant`, `AbortsAreExplained` |
| | `CleanPullMirrors`, `CleanPushLeaves` | `PullMirrorsWireless`, `PushResidue` |
| | `UnsentIsKept`, `DevicesAreKept` | `PushKeepsUnsent`, `PullKeepsDevices` |
| `DeviceSyncProofs` | `SyncInvariantHolds`, `TypesHold` | `SyncInvariant` |
| | `CleanPullResidue`, `CleanPushDelivers` | `PullResidue`, `PushDelivers` |
| | `PushInBounds`, `RoutesAreSpared` | `PushStaysInBounds`, `RoutesOnlyOnRequest` |

### The inductive invariants

*Next to other jobs* (`SyncInvariant` of `AddressSync`). Types alone are not
inductive: that a row written by `create()` is well-typed needs that whatever is
on the list of writes is in the loaded source (`PlanFromSource`), and the
additive property needs that the list of deletions is empty when nobody asked for
any (`DeletesOnRequest`). `MembersHaveRows` says that every member of a group has
a row, which deleting and updating must preserve. `AdditiveIsSafe` and
`JobsAreIsolated` follow with one case per CRUD action.

*Undisturbed runs* (`RunsOnCourse` of `AddressSync`, `SyncInvariant` of the others).
What a clean run leaves cannot be proved of its end alone; one has to say where
it stands at every moment. The invariants have the same five parts. `PlanFollowsDiff`: what a job
still has to write or to delete is a part of the difference of its two stores.
`SourceIsCurrent` and `TargetIsCurrent` (`LoadsAreCurrent` in `DeviceSync`): while
nobody else writes, what was loaded is what a load would find. `PullIsOnCourse` and
`PushIsOnCourse`: the side the job writes reads, element by element, as the source's
store where the plan has been worked off (`Outcome`) and as the target's where it
has not, with the exceptions that the code's order of writes makes:

- `AddressSync`, `ServiceSync`: a pulled group has the members that have a row by
  now, so it follows the objects it was loaded with. An address row that was there
  keeps its value, and a pushed one reads as it arrived. In `ServiceSync` the pool may
  hold what has no payload; a push leaves such services as the device has them,
  unless it deletes them (`PushOutcome`), and what it has sent is known by the key it
  is read by (`PushedAs`).
- `PolicySync`: which lists of a rule are written, under which name and under which
  `Policy` row depends on what was there before; that all members of a written
  rule exist follows from the order of the kinds. A policy that is created is
  exactly `Posted`, one that is updated reads back as the rule.
- `NatSync`: an address or service may be the device's own or made up for a VIP
  that still stands; what a rule resolves to depends on which. A name may be that of a
  VIP the load skipped.
- `WirelessSync`: a radio may be there before its turn, as one of a profile that
  was posted for a sibling. That a mode outnumbers the others is a statement on
  cardinalities; that there is one needs that a finite set of modes has a maximum.
- `DeviceSync`: rows may be lost with a parent's, and egresses cut; a `Device` row has
  the scope it was loaded or made with (`DeviceOnCourse`).
  `RowCidrsAre` (the sorted addresses of a row are its addresses), `FamilyIs` (only
  rows whose parent goes are lost) and `RemovedCourse` carry its proof.

Each proof has one lemma per action, which says what the step makes of
the job's side, and the theorem for the invariant splits on `Next`. Steps of
another job count as a disturbance only if they write what this job has loaded;
the first lemmas of each module say that all others leave it alone. The action properties and the properties of
clean and aborted runs then follow from the invariant in a few steps.

Trying to prove things changed them. `PushKeepsVip` as it had been stated held on
the run's instance but not in general, and has been restated. The deletion of
an interface row took one level of sub-interfaces only; with a chain of
them, which the run did not have, the rows left behind hung on nothing, and
`RowsAreWhole` was not inductive: the cascade is transitive now, and the run has
the chain (`Nested`).

### The refinement

`AddressImplementsSyncJob`: `Spec => ImplementsSyncJob`, that is, `AddressSync`
implements `SyncJob` under the mapping above. The steps of a job are taken one
class at a time: loads stutter (`LoadMaps`), `ExecuteSync` is `Decide`
(`ExecuteSyncMaps`, where the plan is disjoint and, without the box, has no
deletions), each CRUD action is `Apply` (`PullMaps`, `PushMaps`), a refusal or a
crash is `Stop` (`RaisedMaps`), and an edit is `Operate`. What one write does to the
set `Held` is said once for rows, for the device and for a deletion that takes
memberships along (`HeldAfterPutRow`, `HeldAfterPutDevice`, `HeldAfterWithoutRow`).
The proof uses the type invariant: a create puts a record, never `Absent`, and a
client's scope is a scope.

### Assumptions, and what stays with TLC

The proofs rest, in each module, on `ConstantsAssumption` (disjoint sets of names
and values; only hosts and `Policy` rows need be finite), `AbsentAssumption` or `NothingAssumption` (the marker for nothing is no
record and no value) and `WorldsAssumption` (the starting worlds and the edits are
well-typed and their references hold), all evaluated by TLC in the runs.

Only model-checked: `JobsEnd` (liveness under fairness is out of the prover's
reach, as is ENABLED), that `PolicySync` implements `SyncJob`, and the five
expected violations, which are traces. Induction over data and RECURSIVE operators are out of reach as
well; the modules use neither, which is why addresses are sorted by rank and
uses are counted as pairs.

## Not modelled, and the plan

Not modelled: the live status job (it reads three monitor endpoints and changes no
state), some translations (name mangling, subnets, interface types, route
destinations), the client's session, the UI (see the notes in `PROJECT.json`). What
comes next, in this order:

1. Proof: `ImplementsSyncJob` of `PolicySync`, along the lines of
   `AddressRefinement`, from the invariant `PolicySyncProofs` already has.
2. `Translations`: the remaining conversions as operators against reference
   definitions, over bounded inputs, with the join of the live status job.
3. `ClientSession`: sessions opened and closed, against the device's limit of
   sessions.

Runs are few by intention: one passing run for each module, two for the one with
a liveness property.
