---------------------------- MODULE AddressSync ----------------------------
(***************************************************************************)
(* Synchronisation of firewall addresses and address groups between        *)
(* FortiGates and the Nautobot ORM, in both directions: the pull job       *)
(* (FortiGateFirewallDataSource) and the push job                          *)
(* (FortiGateFirewallDataTarget), their adapters and the CRUD models.      *)
(*                                                                         *)
(* A scope is one (hostname, VDOM).  A mangled name                        *)
(* "<hostname>__<vdom>__<name>" is the pair of a scope and a name.         *)
(* fgt[s] is the configuration of that VDOM on the device; orm[s] holds    *)
(* the Nautobot rows whose mangled name lies in scope s.  Jobs run in      *)
(* parallel (Celery workers), and operators edit both sides at any time.   *)
(*                                                                         *)
(* build_client() is given the ExternalIntegration and never the VDOM of   *)
(* the job: every job about a host reads and writes one VDOM of it, the    *)
(* client's default.  ClientScope[s] is that VDOM for the jobs of scope s. *)
(*                                                                         *)
(* FortiOS has no type of its own for a host: an IPAddress row x and a     *)
(* Prefix row x/32 are both sent as the subnet x/32, which is read as the  *)
(* IP address x.  Stored[v] is what the adapter reads back of a value v.   *)
(*                                                                         *)
(* Left out: the IPAM rows (Prefix, IPAddress, IPRange, FQDN) that a value *)
(* points to, the cut of comments at 255 characters, and users of an       *)
(* address outside the groups (policies: see PolicySync).                  *)
(***************************************************************************)
EXTENDS Naturals, Sequences, FiniteSets

CONSTANTS
    Scopes,           \* (hostname, VDOM) pairs
    ClientScope,      \* the VDOM that a client for scope s talks to
    AddrNames,        \* names of firewall/address objects
    GrpNames,         \* names of firewall/addrgrp objects
    Values,           \* (address_type, value) pairs that Nautobot can hold
    Stored,           \* Stored[v]: what a device holds of v once it has been sent
    Unsendable,       \* ... or this: no FortiOS payload for v (IPv6), or refused
    Opaque,           \* values of FortiOS types it cannot (mac, dynamic, geography)
    StandIn,          \* [Opaque -> DeviceValues]: the placeholder FQDN they are read as
    Annotate,         \* Annotate[v][comment]: the comment with the true value of v added
    Unsupported,      \* stands for a FortiOS type the adapter skips (wildcard, ...)
    Comments,         \* non-empty comments
    NoComment,        \* the empty comment
    Absent,           \* no record under that name
    Jobs,             \* job slots: how many jobs may run at once
    ProtectOnDelete,  \* firewall-models' protect_on_delete setting
    InitialWorlds,    \* devices and rows to start from: [fgt, orm]
    MaxEdits,         \* bound on operator edits
    MaxRuns           \* bound on job runs

\* The values that survive the way to a device and back.
DeviceValues == {v \in Values : Stored[v] = v}

ASSUME ConstantsAssumption ==
    /\ AddrNames \cap GrpNames = {}
    /\ Unsupported \notin Values \cup Opaque
    /\ Opaque \cap Values = {}
    /\ Unsendable \notin Values
    /\ \A v \in Values : Stored[v] \in DeviceValues \cup {Unsendable}
    /\ StandIn \in [Opaque -> DeviceValues]
    /\ Annotate \in [Opaque -> [Comments \cup {NoComment} -> Comments]]
    /\ NoComment \notin Comments
    /\ (AddrNames \cup GrpNames) \cap (Comments \cup {NoComment}) = {}
    /\ Scopes # {}
    /\ ClientScope \in [Scopes -> Scopes]
    /\ ProtectOnDelete \in BOOLEAN
    /\ MaxEdits \in Nat /\ MaxRuns \in Nat

VARIABLES
    fgt,      \* fgt[s][n]: the device record, or Absent
    orm,      \* orm[s][n]: the Nautobot row, or Absent
    phase,    \* phase[j]: how far job j has come
    req,      \* req[j]: what job j was asked to do (the form of the Job)
    src,      \* src[j]: the loaded source adapter
    dst,      \* dst[j]: the loaded target adapter
    todo,     \* todo[j]: names still to write and to delete
    touched,  \* jobs under whose feet someone else changed a store
    edits,    \* operator edits so far
    runs      \* jobs started so far

worldVars == <<fgt, orm>>
jobVars == <<phase, req, src, dst, todo>>
vars == <<fgt, orm, phase, req, src, dst, todo, touched, edits, runs>>

----------------------------------------------------------------------------
(* Records.                                                                *)

Names == AddrNames \cup GrpNames
Text == Comments \cup {NoComment}

\* firewall/address and firewall/addrgrp, as the device holds them.
AddrRec == [value : DeviceValues \cup Opaque \cup {Unsupported}, comment : Text]
GrpRec == [members : SUBSET Names, comment : Text]

\* An address as an adapter holds it; Unsendable on its way to a device only.
LoadedAddr == [value : Values \cup {Unsendable}, comment : Text]

\* AddressObject and AddressObjectGroup rows.  The description of row n is
\* "n", "n: comment", or text an operator typed: <<n>>, <<n, c>> and <<c>>.
Descriptions(n) == {<<n>>} \cup ({n} \X Text) \cup {<<c>> : c \in Text}
OrmAddr(n) == [value : Values, description : Descriptions(n)]
OrmGrp(n) == [members : SUBSET (Scopes \X AddrNames), description : Descriptions(n)]

\* Functions of names: a device, the rows of a scope, a loaded adapter.
DeviceTyped(f) ==
    /\ f = [n \in Names |-> f[n]]
    /\ \A a \in AddrNames : f[a] \in AddrRec \cup {Absent}
    /\ \A g \in GrpNames : f[g] \in GrpRec \cup {Absent}

RowsTyped(f) ==
    /\ f = [n \in Names |-> f[n]]
    /\ \A a \in AddrNames : f[a] \in OrmAddr(a) \cup {Absent}
    /\ \A g \in GrpNames : f[g] \in OrmGrp(g) \cup {Absent}

LoadedTyped(f) ==
    /\ f = [n \in Names |-> f[n]]
    /\ \A a \in AddrNames : f[a] \in [value : Values, comment : Text] \cup {Absent}
    /\ \A g \in GrpNames : f[g] \in GrpRec \cup {Absent}

WorldTyped(f, o) ==
    /\ f = [s \in Scopes |-> f[s]] /\ \A s \in Scopes : DeviceTyped(f[s])
    /\ o = [s \in Scopes |-> o[s]] /\ \A s \in Scopes : RowsTyped(o[s])

ASSUME AbsentAssumption ==
    \A n \in Names : Absent \notin AddrRec \cup LoadedAddr \cup GrpRec \cup OrmAddr(n) \cup OrmGrp(n)

\* The relation between groups and addresses refers to rows that exist.
MembersHaveRows(o) ==
    \A t \in Scopes, g \in GrpNames :
        o[t][g] # Absent => \A m \in o[t][g].members : o[m[1]][m[2]] # Absent

ASSUME WorldsAssumption ==
    \A w \in InitialWorlds : WorldTyped(w.fgt, w.orm) /\ MembersHaveRows(w.orm)

\* create() leaves out the ": " for an empty comment, update() does not.
DescribeOnCreate(n, c) == IF c = NoComment THEN <<n>> ELSE <<n, c>>
DescribeOnUpdate(n, c) == <<n, c>>

\* Defect: only the form with a comment is recognised.
StripBare(n, d) == d[Len(d)]

\* _strip_original_name_prefix.
Strip(n, d) ==
    IF d = <<n>> THEN NoComment ELSE IF Len(d) = 2 THEN d[2] ELSE d[1]

----------------------------------------------------------------------------
(* What the adapters' load() methods see.                                  *)

\* The ORM group that holds address a of scope s, in any scope.
Referenced(s, a) ==
    \E t \in Scopes, g \in GrpNames :
        orm[t][g] # Absent /\ <<s, a>> \in orm[t][g].members

Readable(s, a) == fgt[s][a] # Absent /\ fgt[s][a].value # Unsupported

\* _address_value: what Nautobot cannot hold is read as a placeholder FQDN.
AddressValue(v) == IF v \in Opaque THEN StandIn[v] ELSE v

\* _build_address_description: its comment then says what it stands for.
Description(r) == IF r.value \in Opaque THEN Annotate[r.value][r.comment] ELSE r.comment

ReadAddress(r) == [value |-> AddressValue(r.value), comment |-> Description(r)]

\* Defect: unsupported addresses are not skipped.
ReadFgtUnfiltered(s) ==
    [n \in Names |->
        IF n \in GrpNames \/ fgt[s][n] = Absent THEN fgt[s][n] ELSE ReadAddress(fgt[s][n])]

\* FortiGate adapter: unsupported addresses are skipped, group members are
\* mangled whatever they are (skipped addresses, nested groups).
ReadFgt(s) ==
    [n \in Names |->
        IF n \in GrpNames THEN fgt[s][n]
        ELSE IF Readable(s, n) THEN ReadAddress(fgt[s][n]) ELSE Absent]

\* Nautobot adapter: rows under the scope's prefix; of a group's members only
\* those under the same prefix.
ReadOrm(s) ==
    [n \in Names |->
        IF orm[s][n] = Absent THEN Absent
        ELSE IF n \in AddrNames
        THEN [value |-> orm[s][n].value, comment |-> Strip(n, orm[s][n].description)]
        ELSE [members |-> {a \in AddrNames : <<s, a>> \in orm[s][n].members},
              comment |-> Strip(n, orm[s][n].description)]]

\* The VDOM that job j talks to.
Device(j) == ClientScope[req[j].scope]

SourceRead(j) == IF req[j].kind = "pull" THEN ReadFgt(Device(j)) ELSE ReadOrm(req[j].scope)
TargetRead(j) == IF req[j].kind = "pull" THEN ReadOrm(req[j].scope) ELSE ReadFgt(Device(j))

\* load() reads addresses first and groups in a later call: half a store.
Half(half, read, store) == [n \in Names |-> IF n \in half THEN read[n] ELSE store[n]]
EmptyStore == [n \in Names |-> Absent]

----------------------------------------------------------------------------
(* The job: load source, load target, diff, apply.                         *)

Idle == {"idle", "done", "failed", "crashed"}
Loading == {"source", "sourceGroups", "target", "targetGroups"}
Running == Loading \cup {"loaded", "syncing"}
Requests == [kind : {"pull", "push"}, scope : Scopes, delete : BOOLEAN]
NoWork == [write |-> {}, delete |-> {}]

Init ==
    /\ \E w \in InitialWorlds : fgt = w.fgt /\ orm = w.orm
    /\ phase = [j \in Jobs |-> "idle"]
    /\ req = [j \in Jobs |->
                [kind |-> "pull", scope |-> CHOOSE s \in Scopes : TRUE, delete |-> FALSE]]
    /\ src = [j \in Jobs |-> EmptyStore]
    /\ dst = [j \in Jobs |-> EmptyStore]
    /\ todo = [j \in Jobs |-> NoWork]
    /\ touched = {}
    /\ edits = 0
    /\ runs = 0

\* run(): an operator fills in the form, a worker takes the job.
Start(j) ==
    /\ phase[j] \in Idle
    /\ runs < MaxRuns
    /\ \E r \in Requests : req' = [req EXCEPT ![j] = r]
    /\ phase' = [phase EXCEPT ![j] = "source"]
    /\ src' = [src EXCEPT ![j] = EmptyStore]
    /\ dst' = [dst EXCEPT ![j] = EmptyStore]
    /\ todo' = [todo EXCEPT ![j] = NoWork]
    /\ touched' = touched \ {j}
    /\ runs' = runs + 1
    /\ UNCHANGED <<fgt, orm, edits>>

LoadSourceAddresses(j) ==
    /\ phase[j] = "source"
    /\ src' = [src EXCEPT ![j] = Half(AddrNames, SourceRead(j), @)]
    /\ phase' = [phase EXCEPT ![j] = "sourceGroups"]
    /\ UNCHANGED <<worldVars, req, dst, todo, touched, edits, runs>>

LoadSourceGroups(j) ==
    /\ phase[j] = "sourceGroups"
    /\ src' = [src EXCEPT ![j] = Half(GrpNames, SourceRead(j), @)]
    /\ phase' = [phase EXCEPT ![j] = "target"]
    /\ UNCHANGED <<worldVars, req, dst, todo, touched, edits, runs>>

LoadTargetAddresses(j) ==
    /\ phase[j] = "target"
    /\ dst' = [dst EXCEPT ![j] = Half(AddrNames, TargetRead(j), @)]
    /\ phase' = [phase EXCEPT ![j] = "targetGroups"]
    /\ UNCHANGED <<worldVars, req, src, todo, touched, edits, runs>>

LoadTargetGroups(j) ==
    /\ phase[j] = "targetGroups"
    /\ dst' = [dst EXCEPT ![j] = Half(GrpNames, TargetRead(j), @)]
    /\ phase' = [phase EXCEPT ![j] = "loaded"]
    /\ UNCHANGED <<worldVars, req, src, todo, touched, edits, runs>>

(***************************************************************************)
(* DiffSync's diff of two stores: what is missing from the target is       *)
(* created, what differs is updated, and what only the target has is       *)
(* deleted unless SKIP_UNMATCHED_DST is set, which execute_sync does when  *)
(* the delete box is not ticked.                                           *)
(***************************************************************************)
Writes(from, to) == {n \in Names : from[n] # Absent /\ from[n] # to[n]}
Deletes(from, to) == {n \in Names : from[n] = Absent /\ to[n] # Absent}

\* Defect: execute_sync does not set SKIP_UNMATCHED_DST.
ExecuteSyncDeletingAlways(j) ==
    /\ phase[j] = "loaded"
    /\ todo' = [todo EXCEPT ![j] =
          [write |-> Writes(src[j], dst[j]), delete |-> Deletes(src[j], dst[j])]]
    /\ phase' = [phase EXCEPT ![j] = "syncing"]
    /\ UNCHANGED <<worldVars, req, src, dst, touched, edits, runs>>

ExecuteSync(j) ==
    /\ phase[j] = "loaded"
    /\ todo' = [todo EXCEPT ![j] =
          [write |-> Writes(src[j], dst[j]),
           delete |-> IF req[j].delete THEN Deletes(src[j], dst[j]) ELSE {}]]
    /\ phase' = [phase EXCEPT ![j] = "syncing"]
    /\ UNCHANGED <<worldVars, req, src, dst, touched, edits, runs>>

----------------------------------------------------------------------------
(* Applying the diff.  DiffSync walks the kinds in top_level order; within *)
(* a kind, the names the source has come before those only the target has. *)

AddressesDone(j) == (todo[j].write \cup todo[j].delete) \cap AddrNames = {}

\* Defect: top_level does not list addresses before groups.
TurnInAnyOrder(j, kind, op, n) ==
    /\ phase[j] = "syncing"
    /\ req[j].kind = kind
    /\ n \in todo[j][op]

Turn(j, kind, op, n) ==
    /\ phase[j] = "syncing"
    /\ req[j].kind = kind
    /\ n \in todo[j][op]
    /\ n \in GrpNames => AddressesDone(j)
    /\ op = "delete" =>
          todo[j].write \cap (IF n \in AddrNames THEN AddrNames ELSE GrpNames) = {}

\* Defect: the element is not taken off the list.
AppliedAgain(j, n) ==
    /\ touched' = touched \cup (Jobs \ {j})
    /\ UNCHANGED <<phase, req, src, dst, todo, edits, runs>>

\* A CRUD method returned: DiffSync moves on to the next element.
Applied(j, n) ==
    /\ todo' = [todo EXCEPT ![j] = [write |-> @.write \ {n}, delete |-> @.delete \ {n}]]
    /\ touched' = touched \cup (Jobs \ {j})
    /\ UNCHANGED <<phase, req, src, dst, edits, runs>>

\* A CRUD method raised (FortiOSAPIError, ProtectedError): neither is an
\* ObjectCrudException, so it leaves execute_sync and ends the job.
Raised(j) ==
    /\ phase' = [phase EXCEPT ![j] = "failed"]
    /\ UNCHANGED <<worldVars, req, src, dst, todo, touched, edits, runs>>

PutRow(s, n, row) == orm' = [orm EXCEPT ![s][n] = row] /\ UNCHANGED fgt
KeepRows == UNCHANGED worldVars

PullAddressCreate(j, a) ==
    /\ Turn(j, "pull", "write", a)
    /\ dst[j][a] = Absent
    /\ PutRow(req[j].scope, a,
              [value |-> src[j][a].value, description |-> DescribeOnCreate(a, src[j][a].comment)])
    /\ Applied(j, a)

\* Only the description is written: a changed type or value is not.  A row
\* that has vanished meanwhile is passed over.
PullAddressUpdate(j, a) ==
    LET s == req[j].scope IN
    /\ Turn(j, "pull", "write", a)
    /\ dst[j][a] # Absent
    /\ IF orm[s][a] = Absent \/ src[j][a].comment = dst[j][a].comment
       THEN KeepRows
       ELSE PutRow(s, a, [orm[s][a] EXCEPT !.description = DescribeOnUpdate(a, src[j][a].comment)])
    /\ Applied(j, a)

\* Defect: rows are looked up by their original name, in every scope.
WithoutOriginalName(s, n) ==
    [t \in Scopes |-> [m \in Names |->
        IF m = n THEN Absent
        ELSE IF m \in GrpNames /\ orm[t][m] # Absent
        THEN [orm[t][m] EXCEPT !.members = @ \ (Scopes \X {n})]
        ELSE orm[t][m]]]

\* Deleting a row takes it out of every group that holds it, unless
\* firewall-models protects rows in use.
WithoutRow(s, n) ==
    [t \in Scopes |-> [m \in Names |->
        IF t = s /\ m = n THEN Absent
        ELSE IF m \in GrpNames /\ orm[t][m] # Absent
        THEN [orm[t][m] EXCEPT !.members = @ \ {<<s, n>>}]
        ELSE orm[t][m]]]

PullAddressDelete(j, a) ==
    LET s == req[j].scope IN
    /\ Turn(j, "pull", "delete", a)
    /\ \/ /\ ProtectOnDelete /\ orm[s][a] # Absent /\ Referenced(s, a)
          /\ Raised(j)
       \/ /\ ~(ProtectOnDelete /\ orm[s][a] # Absent /\ Referenced(s, a))
          /\ orm' = WithoutRow(s, a)
          /\ UNCHANGED fgt
          /\ Applied(j, a)

\* The rows that AddressObject.objects.filter(name__in=members) finds: names
\* without a row (unsupported addresses, nested groups) silently drop out.
FoundMembers(s, members) == {<<s, a>> : a \in {m \in members \cap AddrNames : orm[s][m] # Absent}}

PullGroupCreate(j, g) ==
    LET s == req[j].scope IN
    /\ Turn(j, "pull", "write", g)
    /\ dst[j][g] = Absent
    /\ PutRow(s, g, [members |-> FoundMembers(s, src[j][g].members),
                     description |-> DescribeOnCreate(g, src[j][g].comment)])
    /\ Applied(j, g)

PullGroupUpdate(j, g) ==
    LET s == req[j].scope
        row == orm[s][g]
    IN
    /\ Turn(j, "pull", "write", g)
    /\ dst[j][g] # Absent
    /\ IF row = Absent
       THEN KeepRows
       ELSE PutRow(s, g,
              [members |-> IF src[j][g].members = dst[j][g].members THEN row.members
                           ELSE FoundMembers(s, src[j][g].members),
               description |-> IF src[j][g].comment = dst[j][g].comment THEN row.description
                               ELSE DescribeOnUpdate(g, src[j][g].comment)])
    /\ Applied(j, g)

PullGroupDelete(j, g) ==
    /\ Turn(j, "pull", "delete", g)
    /\ PutRow(req[j].scope, g, Absent)
    /\ Applied(j, g)

(***************************************************************************)
(* What FortiOS accepts; any other answer is not 200, and                  *)
(* check_fortios_response raises.  A value without a payload raises before *)
(* the call: _cidr_to_fortios_subnet knows IPv4 only.                      *)
(***************************************************************************)
Sendable(n, r) == n \in AddrNames => Stored[r.value] # Unsendable
MembersExist(s, n, r) == n \in GrpNames => \A m \in r.members : fgt[s][m] # Absent
AcceptsCreate(s, n, r) == fgt[s][n] = Absent /\ MembersExist(s, n, r) /\ Sendable(n, r)
AcceptsUpdate(s, n, r) == fgt[s][n] # Absent /\ MembersExist(s, n, r) /\ Sendable(n, r)
InUse(s, n) == \E g \in GrpNames : fgt[s][g] # Absent /\ n \in fgt[s][g].members
AcceptsDelete(s, n) == fgt[s][n] # Absent /\ ~InUse(s, n)

\* _address_payload and _address_value: how record r of name n arrives.
Arrived(n, r) ==
    IF n \in AddrNames /\ r # Absent THEN [r EXCEPT !.value = Stored[@]] ELSE r

PutDevice(s, n, r) == fgt' = [fgt EXCEPT ![s][n] = r] /\ UNCHANGED orm

\* One REST call: it is applied, or it is refused and the job dies of it.
Call(j, n, accepted, r) ==
    \/ accepted /\ PutDevice(Device(j), n, Arrived(n, r)) /\ Applied(j, n)
    \/ ~accepted /\ Raised(j)

PushAddressCreate(j, a) ==
    /\ Turn(j, "push", "write", a)
    /\ dst[j][a] = Absent
    /\ Call(j, a, AcceptsCreate(Device(j), a, src[j][a]), src[j][a])

\* The payload is always the whole record, whichever attribute changed.
PushAddressUpdate(j, a) ==
    /\ Turn(j, "push", "write", a)
    /\ dst[j][a] # Absent
    /\ Call(j, a, AcceptsUpdate(Device(j), a, src[j][a]), src[j][a])

PushAddressDelete(j, a) ==
    /\ Turn(j, "push", "delete", a)
    /\ Call(j, a, AcceptsDelete(Device(j), a), Absent)

PushGroupCreate(j, g) ==
    /\ Turn(j, "push", "write", g)
    /\ dst[j][g] = Absent
    /\ Call(j, g, AcceptsCreate(Device(j), g, src[j][g]), src[j][g])

\* Defect: unchanged attributes come from the source, changed ones from self.
PushGroupUpdateStale(j, g) ==
    /\ Turn(j, "push", "write", g)
    /\ dst[j][g] # Absent
    /\ Call(j, g, AcceptsUpdate(Device(j), g, dst[j][g]), dst[j][g])

PushGroupUpdate(j, g) ==
    /\ Turn(j, "push", "write", g)
    /\ dst[j][g] # Absent
    /\ Call(j, g, AcceptsUpdate(Device(j), g, src[j][g]), src[j][g])

PushGroupDelete(j, g) ==
    /\ Turn(j, "push", "delete", g)
    /\ Call(j, g, AcceptsDelete(Device(j), g), Absent)

Finish(j) ==
    /\ phase[j] = "syncing"
    /\ todo[j] = NoWork
    /\ phase' = [phase EXCEPT ![j] = "done"]
    /\ UNCHANGED <<worldVars, req, src, dst, todo, touched, edits, runs>>

\* The worker is killed, or the connection breaks: what has been written
\* stays written, and what the job knew is lost.
Crash(j) ==
    /\ phase[j] \in Running
    /\ phase' = [phase EXCEPT ![j] = "crashed"]
    /\ UNCHANGED <<worldVars, req, src, dst, todo, touched, edits, runs>>

----------------------------------------------------------------------------
(* Operators edit a device (its GUI) or the rows (Nautobot's).             *)

Edited ==
    /\ edits < MaxEdits
    /\ edits' = edits + 1
    /\ touched' = Jobs
    /\ UNCHANGED <<jobVars, runs>>

DeviceAddressEdit(s, a) ==
    /\ Edited
    /\ \E r \in AddrRec : r # fgt[s][a] /\ PutDevice(s, a, r)

DeviceGroupEdit(s, g) ==
    /\ Edited
    /\ \E r \in GrpRec :
          /\ r # fgt[s][g] /\ g \notin r.members
          /\ MembersExist(s, g, r)
          /\ PutDevice(s, g, r)

DeviceDelete(s, n) ==
    /\ Edited
    /\ AcceptsDelete(s, n)
    /\ PutDevice(s, n, Absent)

RowAddressEdit(s, a) ==
    /\ Edited
    /\ \E v \in Values, c \in Text :
          PutRow(s, a, [value |-> v, description |-> <<c>>])

RowGroupEdit(s, g) ==
    /\ Edited
    /\ \E members \in SUBSET (Scopes \X AddrNames), c \in Text :
          /\ \A m \in members : orm[m[1]][m[2]] # Absent
          /\ PutRow(s, g, [members |-> members, description |-> <<c>>])

RowDelete(s, n) ==
    /\ Edited
    /\ orm[s][n] # Absent
    /\ n \in AddrNames /\ ProtectOnDelete => ~Referenced(s, n)
    /\ orm' = WithoutRow(s, n)
    /\ UNCHANGED fgt

Operators ==
    \/ \E s \in Scopes, a \in AddrNames : DeviceAddressEdit(s, a) \/ RowAddressEdit(s, a)
    \/ \E s \in Scopes, g \in GrpNames : DeviceGroupEdit(s, g) \/ RowGroupEdit(s, g)
    \/ \E s \in Scopes, n \in Names : DeviceDelete(s, n) \/ RowDelete(s, n)

Load(j) ==
    \/ LoadSourceAddresses(j) \/ LoadSourceGroups(j)
    \/ LoadTargetAddresses(j) \/ LoadTargetGroups(j)

Pull(j) ==
    \/ \E a \in AddrNames :
          PullAddressCreate(j, a) \/ PullAddressUpdate(j, a) \/ PullAddressDelete(j, a)
    \/ \E g \in GrpNames :
          PullGroupCreate(j, g) \/ PullGroupUpdate(j, g) \/ PullGroupDelete(j, g)

Push(j) ==
    \/ \E a \in AddrNames :
          PushAddressCreate(j, a) \/ PushAddressUpdate(j, a) \/ PushAddressDelete(j, a)
    \/ \E g \in GrpNames :
          PushGroupCreate(j, g) \/ PushGroupUpdate(j, g) \/ PushGroupDelete(j, g)

Work(j) == Load(j) \/ ExecuteSync(j) \/ Pull(j) \/ Push(j) \/ Finish(j)

Next ==
    \/ \E j \in Jobs : Start(j) \/ Work(j) \/ Crash(j)
    \/ Operators

\* A worker that has taken a job keeps executing it; nothing makes an
\* operator start a job, edit a record or a worker crash.
Spec == Init /\ [][Next]_vars /\ \A j \in Jobs : WF_vars(Work(j))

----------------------------------------------------------------------------
(* Properties.                                                             *)

\* Every variable has its type: in particular no job ever holds an address
\* it cannot express (Unsupported) and no row describes another row.
TypeOK ==
    /\ WorldTyped(fgt, orm)
    /\ phase \in [Jobs -> Idle \cup Running]
    /\ req \in [Jobs -> Requests]
    /\ src = [j \in Jobs |-> src[j]] /\ \A j \in Jobs : LoadedTyped(src[j])
    /\ dst = [j \in Jobs |-> dst[j]] /\ \A j \in Jobs : LoadedTyped(dst[j])
    /\ todo \in [Jobs -> [write : SUBSET Names, delete : SUBSET Names]]
    /\ touched \in SUBSET Jobs
    /\ edits \in 0..MaxEdits
    /\ runs \in 0..MaxRuns

\* A name a job still has to write is one its source holds, and a name it has
\* to delete is not: the lists were made from the source when the diff was
\* taken, and both stay as they were.
PlanFromSource ==
    \A j \in Jobs : phase[j] = "syncing" =>
        /\ \A n \in todo[j].write : src[j][n] # Absent
        /\ \A n \in todo[j].delete : src[j][n] = Absent

\* A job that is not asked to delete has nothing to delete.
DeletesOnRequest ==
    \A j \in Jobs : phase[j] = "syncing" /\ ~req[j].delete => todo[j].delete = {}

\* The inductive invariant.  Types alone are not inductive (a create() handed
\* a record its source does not hold would write an ill-typed row), and what
\* a step may never do depends on what ExecuteSync put on the lists and on
\* the rows the groups refer to.
SyncInvariant ==
    TypeOK /\ PlanFromSource /\ DeletesOnRequest /\ MembersHaveRows(orm)

\* A step of a job, as opposed to one of an operator.
JobStep == edits' = edits

\* In additive mode (the delete box is not ticked, the default of both jobs)
\* a run never removes a record from the side it writes, whatever other jobs
\* and operators do in between: "leave orphan records alone".
AdditiveKeepsRecords ==
    [][\A j \in Jobs, s \in Scopes, n \in Names :
          JobStep /\ todo'[j] # todo[j] /\ ~req[j].delete =>
             /\ fgt[s][n] # Absent => fgt'[s][n] # Absent
             /\ orm[s][n] # Absent => orm'[s][n] # Absent]_vars

\* The row r without the members in M.
Without(r, M) == IF r = Absent THEN Absent ELSE [r EXCEPT !.members = @ \ M]

\* The memberships a step of job j ends: those of the address row it deletes,
\* unless firewall-models protects rows in use.
Ended(j) ==
    IF phase[j] = "syncing" /\ req[j].kind = "pull" /\ ~ProtectOnDelete
    THEN {req[j].scope} \X ((todo[j].delete \ todo'[j].delete) \cap AddrNames)
    ELSE {}

\* A job writes nothing outside its own scope: no VDOM but the one its client
\* talks to, and no other scope's rows.  Groups of other scopes that held the
\* address it deletes lose this member and are otherwise as they were.
ScopeIsolation ==
    [][\A j \in Jobs, t \in Scopes :
          JobStep /\ todo'[j] # todo[j] =>
             /\ t # Device(j) => fgt'[t] = fgt[t]
             /\ t # req[j].scope =>
                   /\ \A a \in AddrNames : orm'[t][a] = orm[t][a]
                   /\ \A g \in GrpNames : orm'[t][g] = Without(orm[t][g], Ended(j))]_vars

\* A run that ended well while nobody else wrote to either side.
Clean(j, kind) == phase[j] = "done" /\ j \notin touched /\ req[j].kind = kind

\* After a clean pull Nautobot mirrors what the adapter can read: every
\* readable address has a row with the device's comment (annotated, where the
\* value cannot be held), and with its value
\* if this run created it; every group has a row whose members under the
\* scope's prefix are exactly the device's members that have a row.  A
\* destructive pull leaves no row without a readable record.
PullMirrorsDevice ==
    \A j \in Jobs : Clean(j, "pull") =>
        LET s == req[j].scope
            d == Device(j)
        IN
        /\ \A a \in AddrNames : Readable(d, a) =>
              /\ orm[s][a] # Absent
              /\ Strip(a, orm[s][a].description) = Description(fgt[d][a])
              /\ dst[j][a] = Absent => orm[s][a].value = AddressValue(fgt[d][a].value)
        /\ \A g \in GrpNames : fgt[d][g] # Absent =>
              /\ orm[s][g] # Absent
              /\ Strip(g, orm[s][g].description) = fgt[d][g].comment
              /\ ReadOrm(s)[g].members = {a \in fgt[d][g].members \cap AddrNames : orm[s][a] # Absent}
        /\ req[j].delete => \A n \in Names : ReadFgt(d)[n] = Absent => orm[s][n] = Absent

\* What a push right after a clean pull would still write, and nothing else: a
\* group that lost a member on the way in, because the member has no row; an
\* address that Nautobot already held with another value; a row the device has
\* no readable record for.
RoundTripResidue ==
    \A j \in Jobs : Clean(j, "pull") =>
        LET s == req[j].scope
            d == Device(j)
            device == ReadFgt(d)
        IN
        \A n \in Writes(ReadOrm(s), device) :
            \/ device[n] = Absent /\ ~req[j].delete
            \/ /\ n \in AddrNames /\ dst[j][n] # Absent
               /\ orm[s][n].value = dst[j][n].value /\ device[n].value # dst[j][n].value
            \/ /\ n \in GrpNames
               /\ \E m \in fgt[d][n].members : m \in GrpNames \/ orm[s][m] = Absent

\* After a clean push the FortiGate adapter reads every row off the device as
\* the Nautobot adapter reads it, except that it takes a Prefix row x/32 for
\* the IP address x, so that every later run finds a difference there again.
\* A destructive push leaves nothing else it can read.
PushMirrorsRows ==
    \A j \in Jobs : Clean(j, "push") =>
        LET s == req[j].scope
            d == Device(j)
        IN
        \A n \in Names :
            /\ orm[s][n] # Absent => ReadFgt(d)[n] = Arrived(n, ReadOrm(s)[n])
            /\ req[j].delete /\ orm[s][n] = Absent => ReadFgt(d)[n] = Absent

\* A push never alters or removes an address of a type the adapter skipped
\* when it loaded the device, unless someone changed the record in between.
PushKeepsUnreadable ==
    [][\A j \in Jobs, s \in Scopes, a \in AddrNames :
          JobStep /\ todo'[j] # todo[j] /\ j \notin touched
             /\ fgt[s][a] # Absent /\ ~Readable(s, a)
          => fgt'[s][a] = fgt[s][a]]_vars

\* Why a job that nobody disturbed can die of a refused write.  A pull: it is
\* destructive and met a protected row that a group still holds.  A push: a
\* row to be written has a value FortiOS does not take, a row shares its name
\* with an address the adapter cannot read, or the push is destructive and met
\* a record some group on the device still uses.
AbortsAreExplained ==
    \A j \in Jobs : phase[j] = "failed" /\ j \notin touched =>
        LET s == req[j].scope
            d == Device(j)
        IN
        \/ /\ req[j].kind = "pull" /\ req[j].delete /\ ProtectOnDelete
           /\ \E a \in todo[j].delete : Referenced(s, a)
        \/ /\ req[j].kind = "push"
           /\ \/ \E a \in todo[j].write \cap AddrNames : Stored[orm[s][a].value] = Unsendable
              \/ \E a \in AddrNames : orm[s][a] # Absent /\ fgt[d][a] # Absent /\ ~Readable(d, a)
              \/ req[j].delete /\ \E n \in todo[j].delete : InUse(d, n)

\* What this says of whole records, told as the abstract job: a place is a
\* scope's rows, or the VDOM its client talks to.
Held ==
    {r \in {"device", "rows"} \X Scopes \X Names :
        IF r[1] = "device" THEN fgt[r[2]][r[3]] # Absent ELSE orm[r[2]][r[3]] # Absent}
StageOf(p) ==
    IF p \in Loading \cup {"loaded"} THEN "reading"
    ELSE IF p = "syncing" THEN "applying"
    ELSE IF p \in {"failed", "crashed"} THEN "stopped"
    ELSE p
Stage == [j \in Jobs |-> StageOf(phase[j])]
OrderOf(r) ==
    [side |-> IF r.kind = "pull" THEN "rows" ELSE "device",
     place |-> IF r.kind = "pull" THEN r.scope ELSE ClientScope[r.scope],
     delete |-> r.delete]
Order == [j \in Jobs |-> OrderOf(req[j])]

Job == INSTANCE SyncJob WITH
    Places <- Scopes, held <- Held, stage <- Stage, order <- Order, plan <- todo

\* Pull and push do to the records of both sides only what the abstract job
\* may: each planned name once, on the side and in the place of the order, no
\* deletion that was not ordered, and no good end before the plan is done.
ImplementsSyncJob == Job!Spec

\* A job that a worker has taken ends, whatever operators and other jobs do.
JobsEnd == \A j \in Jobs : phase[j] \in Running ~> phase[j] \in Idle

----------------------------------------------------------------------------
(* Why an undisturbed run ends as it does: what holds of it on the way.    *)

Applying == {"syncing", "done", "failed"}
Pending(j) == todo[j].write \cup todo[j].delete

\* What the loads have read so far, of the source and of the target.
SourceNames(p) ==
    IF p = "source" THEN {} ELSE IF p = "sourceGroups" THEN AddrNames ELSE Names
TargetNames(p) == IF p = "targetGroups" THEN AddrNames ELSE Names

\* What remains of the diff is part of the diff, no group that differs is
\* worked off before the last address, and nothing remains in the end.
PlanFollowsDiff(j) ==
    phase[j] \in Applying =>
        /\ todo[j].write \subseteq Writes(src[j], dst[j])
        /\ todo[j].delete \subseteq Deletes(src[j], dst[j])
        /\ AddressesDone(j) \/ Writes(src[j], dst[j]) \cap GrpNames \subseteq todo[j].write
        /\ phase[j] = "done" => todo[j] = NoWork

\* A job does not write its source: what it has loaded is still there.
SourceIsCurrent(j) ==
    j \notin touched /\ phase[j] \notin {"idle", "crashed"} =>
        \A n \in SourceNames(phase[j]) : src[j][n] = SourceRead(j)[n]

TargetIsCurrent(j) ==
    j \notin touched /\ phase[j] \in {"targetGroups", "loaded"} =>
        \A n \in TargetNames(phase[j]) : dst[j][n] = TargetRead(j)[n]

\* What name n of the target stands at, according to the two adapters and the
\* plan: as it was loaded, until its turn has come.
Outcome(j, n) ==
    IF n \in Pending(j) THEN dst[j][n]
    ELSE IF src[j][n] # Absent THEN src[j][n]
    ELSE IF req[j].delete THEN Absent
    ELSE dst[j][n]

\* What a pull leaves of it: an address row that was there keeps its value,
\* and a group holds only members that have a row, now.
PulledAddress(j, a) ==
    IF Outcome(j, a) = Absent THEN Absent
    ELSE [value |-> IF dst[j][a] = Absent THEN Outcome(j, a).value ELSE dst[j][a].value,
          comment |-> Outcome(j, a).comment]

PulledGroup(j, g) ==
    IF Outcome(j, g) = Absent THEN Absent
    ELSE [members |-> {a \in Outcome(j, g).members \cap AddrNames : orm[req[j].scope][a] # Absent},
          comment |-> Outcome(j, g).comment]

PullIsOnCourse(j) ==
    j \notin touched /\ phase[j] \in Applying /\ req[j].kind = "pull" =>
        /\ \A a \in AddrNames : ReadOrm(req[j].scope)[a] = PulledAddress(j, a)
        /\ \A g \in GrpNames : ReadOrm(req[j].scope)[g] = PulledGroup(j, g)
        /\ \A g \in GrpNames : dst[j][g] # Absent =>
              \A m \in dst[j][g].members : m \in AddrNames /\ dst[j][m] # Absent

PushIsOnCourse(j) ==
    j \notin touched /\ phase[j] \in Applying /\ req[j].kind = "push" =>
        \A n \in Names : ReadFgt(Device(j))[n] = Arrived(n, Outcome(j, n))

\* The inductive invariant behind the properties of undisturbed runs: at every
\* moment the side a job writes reads exactly as the two loaded adapters and
\* what is left of the plan say (a device as far as values arrive), whichever
\* other jobs run, wait or have died.
RunsOnCourse ==
    /\ \A j \in Jobs :
          /\ PlanFollowsDiff(j) /\ SourceIsCurrent(j) /\ TargetIsCurrent(j)
          /\ PullIsOnCourse(j) /\ PushIsOnCourse(j)
    /\ AbortsAreExplained

----------------------------------------------------------------------------
(* What the documentation promises and the code does not keep.             *)

\* mac, dynamic and geography addresses are read as placeholders "so the
\* address survives the sync".  It does not: a push that has anything to write
\* about it, a comment say, sends the placeholder as its value.
StandInsStayHome ==
    [][\A j \in Jobs, s \in Scopes, a \in AddrNames :
          JobStep /\ todo'[j] # todo[j] /\ j \notin touched
             /\ fgt[s][a] # Absent /\ fgt[s][a].value \in Opaque
             /\ orm[s][a] # Absent /\ orm[s][a].value = StandIn[fgt[s][a].value]
          => fgt'[s][a] # Absent /\ fgt'[s][a].value = fgt[s][a].value]_vars

\* "Run the Job once per VDOM, varying the vdom StringVar": after a clean pull
\* every address of that VDOM the adapter can read has a row.  It has not when
\* the VDOM is not the client's, because the client is never told.
PullReadsItsVdom ==
    \A j \in Jobs : Clean(j, "pull") =>
        \A a \in AddrNames : Readable(req[j].scope, a) => orm[req[j].scope][a] # Absent
============================================================================
