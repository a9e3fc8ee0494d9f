----------------------------- MODULE PolicySync -----------------------------
(***************************************************************************)
(* Synchronisation of firewall policies between a FortiGate and Nautobot,  *)
(* with the objects that policies name: the firewall jobs on               *)
(* firewall/policy.                                                        *)
(*                                                                         *)
(* Nautobot keeps a rule per policy, and hangs it by a relation on one     *)
(* Policy row made for the FortiGate; a rule that hangs on no such row is  *)
(* invisible to the jobs.  What AddressSync and ServiceSync say in full of *)
(* addresses, services and their groups is here only whether they exist,   *)
(* whether Nautobot can read them, and who refers to them.                 *)
(*                                                                         *)
(* Left out: a rule's index (always the policy's id, and never sent), and  *)
(* policies whose interfaces are an empty list.                            *)
(***************************************************************************)
EXTENDS Naturals, Sequences, FiniteSets

CONSTANTS
    ObjectKinds,      \* addresses, address groups, services, service groups:
                      \* a sequence of disjoint sets, in top_level order
    Sides,            \* "srcaddr", "dstaddr", "service"
    Ids,              \* policy ids
    Odd,              \* names of rules that are not "rule_<id>"
    Ours, Others,     \* the Policy row the jobs make, others under its prefix
    PolicyNames,      \* names of policies
    Texts,            \* pieces of a comment
    Interfaces,       \* pairs of interface lists
    AnyIntf, NoIntf,  \* the interface "any"; no annotation of interfaces
    Generated, Retyped, \* descriptions of Policy rows
    Absent,
    Jobs,
    ProtectOnDelete,  \* firewall-models' protect_on_delete setting
    InitialWorlds, DeviceEdits, RowEdits,
    MaxEdits, MaxRuns

Objects == UNION {ObjectKinds[k] : k \in DOMAIN ObjectKinds}
Rules == Ids \cup Odd
Containers == {Ours} \cup Others
Elements == Objects \cup Containers \cup Rules

ASSUME ConstantsAssumption ==
    /\ ObjectKinds \in Seq(SUBSET Objects)
    /\ \A k, l \in DOMAIN ObjectKinds : k # l => ObjectKinds[k] \cap ObjectKinds[l] = {}
    /\ Ids \cap Odd = {} /\ Ours \notin Others /\ IsFiniteSet(Others)
    /\ Objects \cap Containers = {} /\ (Objects \cup Containers) \cap Rules = {}
    /\ PolicyNames \cap Texts = {}
    /\ {AnyIntf, NoIntf} \cap Interfaces = {}
    /\ ProtectOnDelete \in BOOLEAN
    /\ MaxEdits \in Nat /\ MaxRuns \in Nat

VARIABLES
    obj,      \* obj[o]: "readable" or "unreadable" on the device, or Absent
    pol,      \* pol[id]: the device's policy, or Absent
    objRow,   \* the objects that have a row
    policy,   \* policy[c]: the description of Policy row c, or Absent
    rule,     \* rule[r]: the PolicyRule row r, or Absent
    phase, req, src, dst, todo, touched, edits, runs   \* the jobs, as in AddressSync

deviceVars == <<obj, pol>>
rowVars == <<objRow, policy, rule>>
worldVars == <<deviceVars, rowVars>>
vars == <<obj, pol, objRow, policy, rule, phase, req, src, dst, todo, touched, edits, runs>>

----------------------------------------------------------------------------
(* Records.  A comment is a sequence of pieces: what create() or update()  *)
(* put in front of it, its text, what a read appended.                     *)

Note == [ipsec |-> "flattened to allow", other |-> "fallback to deny"]
Pieces == PolicyNames \cup Texts \cup {Note.ipsec, Note.other}
Members == [Sides -> SUBSET Objects]

Policy ==
    [name : PolicyNames, action : {"accept", "deny", "ipsec", "other"}, log : BOOLEAN,
     members : Members, intfs : Interfaces \cup {AnyIntf}, comment : Seq(Pieces)]

NautobotActions == {"allow", "deny", "drop", "remark"}
Rule ==
    [request : PolicyNames, action : NautobotActions, log : BOOLEAN, members : Members,
     text : Seq(Pieces), intfs : Interfaces \cup {AnyIntf, NoIntf}, linked : SUBSET Containers]
LoadedRule ==
    [policy : Containers, name : PolicyNames, action : NautobotActions, log : BOOLEAN,
     members : Members, text : Seq(Pieces), intfs : Interfaces \cup {AnyIntf, NoIntf}]

ASSUME NothingAssumption ==
    /\ Absent \notin Policy \cup Rule \cup LoadedRule
    /\ Absent \notin {Generated, Retyped, "loaded", "readable", "unreadable"}

\* FortiOS refuses a policy that names what is not there, and the removal of
\* what a policy names.
DeviceTyped(ob, po) ==
    /\ ob \in [Objects -> {"readable", "unreadable", Absent}]
    /\ po \in [Ids -> Policy \cup {Absent}]
    /\ \A id \in Ids : po[id] # Absent =>
          \A s \in Sides : \A o \in po[id].members[s] : ob[o] # Absent

\* A rule's members are objects that have a row, and it hangs on Policy rows
\* that exist.
RowsTyped(ro, pc, ru) ==
    /\ ro \subseteq Objects
    /\ pc \in [Containers -> {Generated, Retyped, Absent}]
    /\ ru \in [Rules -> Rule \cup {Absent}]
    /\ \A r \in Rules : ru[r] # Absent =>
          /\ \A s \in Sides : ru[r].members[s] \subseteq ro
          /\ \A c \in ru[r].linked : pc[c] # Absent

ASSUME WorldsAssumption ==
    /\ \A w \in InitialWorlds : DeviceTyped(w.obj, w.pol) /\ RowsTyped(w.objRow, w.policy, w.rule)
    /\ \A e \in DeviceEdits :
          /\ e.key \in Ids => e.record \in Policy \cup {Absent}
          /\ e.key \in Objects => e.record \in {"readable", "unreadable", Absent}
    /\ \A e \in RowEdits :
          /\ e.key \in Rules => e.record \in Rule \cup {Absent}
          /\ e.key \in Containers => e.record \in {Generated, Retyped, Absent}

----------------------------------------------------------------------------
(* What the adapters load.  A loaded rule names the Policy row it is under.*)

\* fortios_action, and its inverse NAUTOBOT_ACTION_TO_FORTIOS.
FortiosAction(a) == IF a \in {"accept", "ipsec"} THEN "allow" ELSE "deny"
ActionNote(a) ==
    IF a = "ipsec" THEN <<Note.ipsec>> ELSE IF a = "other" THEN <<Note.other>> ELSE <<>>
ActionToFortios(a) == IF a = "allow" THEN "accept" ELSE "deny"

\* _load_policies of the FortiGate adapter: members that are not in the store
\* are dropped; the note on a flattened action is added to the comment.
FgtRule(id, store) ==
    LET p == pol[id] IN
    [policy |-> Ours, name |-> p.name, action |-> FortiosAction(p.action), log |-> p.log,
     members |-> [s \in Sides |-> {o \in p.members[s] : store[o] # Absent}],
     text |-> p.comment \o ActionNote(p.action), intfs |-> p.intfs]

\* _strip_original_name_prefix, by the name kept in request_id.
StripName(request, text) == IF text # <<>> /\ Head(text) = request THEN Tail(text) ELSE text

Visible(r) == rule[r] # Absent /\ rule[r].linked # {}

\* _load_policies of the Nautobot adapter.
RowRule(r) ==
    LET row == rule[r] IN
    [policy |-> CHOOSE c \in row.linked : TRUE, name |-> row.request, action |-> row.action,
     log |-> row.log, members |-> row.members,
     text |-> StripName(row.request, row.text), intfs |-> row.intfs]

LoadedObjects(kind) ==
    [o \in Objects |->
        IF (IF kind = "device" THEN obj[o] = "readable" ELSE o \in objRow)
        THEN "loaded" ELSE Absent]

LoadedPolicies(kind, store) ==
    [e \in Containers \cup Rules |->
        IF kind = "device"
        THEN IF e = Ours THEN Generated
             ELSE IF e \in Ids /\ pol[e] # Absent THEN FgtRule(e, store) ELSE Absent
        ELSE IF e \in Containers THEN policy[e]
             ELSE IF Visible(e) THEN RowRule(e) ELSE Absent]

\* A rule under two Policy rows is added twice, which add() does not allow.
LoadRaises(kind) ==
    kind = "rows" /\ \E r \in Rules : rule[r] # Absent /\ Cardinality(rule[r].linked) > 1

SourceKind(j) == IF req[j].kind = "pull" THEN "device" ELSE "rows"
TargetKind(j) == IF req[j].kind = "pull" THEN "rows" ELSE "device"

----------------------------------------------------------------------------
(* The job.                                                                *)

Idle == {"idle", "done", "failed", "crashed"}
Running == {"source", "sourcePolicies", "target", "targetPolicies", "loaded", "syncing"}
Requests == [kind : {"pull", "push"}, delete : BOOLEAN]
NoWork == [write |-> {}, delete |-> {}]
EmptyStore == [e \in Elements |-> Absent]
With(store, part) == [e \in Elements |-> IF e \in DOMAIN part THEN part[e] ELSE store[e]]

Init ==
    /\ \E w \in InitialWorlds :
          /\ obj = w.obj /\ pol = w.pol
          /\ objRow = w.objRow /\ policy = w.policy /\ rule = w.rule
    /\ phase = [j \in Jobs |-> "idle"]
    /\ req = [j \in Jobs |-> [kind |-> "pull", delete |-> FALSE]]
    /\ src = [j \in Jobs |-> EmptyStore]
    /\ dst = [j \in Jobs |-> EmptyStore]
    /\ todo = [j \in Jobs |-> NoWork]
    /\ touched = {}
    /\ edits = 0 /\ runs = 0

Advance(j, p) == phase' = [phase EXCEPT ![j] = p]

Start(j) ==
    /\ phase[j] \in Idle
    /\ runs < MaxRuns
    /\ \E r \in Requests : req' = [req EXCEPT ![j] = r]
    /\ Advance(j, "source")
    /\ src' = [src EXCEPT ![j] = EmptyStore]
    /\ dst' = [dst EXCEPT ![j] = EmptyStore]
    /\ todo' = [todo EXCEPT ![j] = NoWork]
    /\ touched' = touched \ {j}
    /\ runs' = runs + 1
    /\ UNCHANGED <<worldVars, edits>>

Raised(j) ==
    /\ Advance(j, "failed")
    /\ UNCHANGED <<worldVars, req, src, dst, todo, touched, edits, runs>>

LoadSourceObjects(j) ==
    /\ phase[j] = "source"
    /\ src' = [src EXCEPT ![j] = With(@, LoadedObjects(SourceKind(j)))]
    /\ Advance(j, "sourcePolicies")
    /\ UNCHANGED <<worldVars, req, dst, todo, touched, edits, runs>>

LoadSourcePolicies(j) ==
    /\ phase[j] = "sourcePolicies"
    /\ IF LoadRaises(SourceKind(j)) THEN Raised(j)
       ELSE /\ src' = [src EXCEPT ![j] = With(@, LoadedPolicies(SourceKind(j), @))]
            /\ Advance(j, "target")
            /\ UNCHANGED <<worldVars, req, dst, todo, touched, edits, runs>>

LoadTargetObjects(j) ==
    /\ phase[j] = "target"
    /\ dst' = [dst EXCEPT ![j] = With(@, LoadedObjects(TargetKind(j)))]
    /\ Advance(j, "targetPolicies")
    /\ UNCHANGED <<worldVars, req, src, todo, touched, edits, runs>>

LoadTargetPolicies(j) ==
    /\ phase[j] = "targetPolicies"
    /\ IF LoadRaises(TargetKind(j)) THEN Raised(j)
       ELSE /\ dst' = [dst EXCEPT ![j] = With(@, LoadedPolicies(TargetKind(j), @))]
            /\ Advance(j, "loaded")
            /\ UNCHANGED <<worldVars, req, src, todo, touched, edits, runs>>

Writes(from, to) == {e \in Elements : from[e] # Absent /\ from[e] # to[e]}
Deletes(from, to) == {e \in Elements : from[e] = Absent /\ to[e] # Absent}

ExecuteSync(j) ==
    /\ phase[j] = "loaded"
    /\ todo' = [todo EXCEPT ![j] =
          [write |-> Writes(src[j], dst[j]),
           delete |-> IF req[j].delete THEN Deletes(src[j], dst[j]) ELSE {}]]
    /\ Advance(j, "syncing")
    /\ UNCHANGED <<worldVars, req, src, dst, touched, edits, runs>>

TopLevel == ObjectKinds \o <<Containers, Rules>>
KindOf(e) == CHOOSE k \in DOMAIN TopLevel : e \in TopLevel[k]

\* Defect: top_level lists policies before the objects they name.
TurnPoliciesFirst(j, kind, op, e) ==
    /\ phase[j] = "syncing" /\ req[j].kind = kind
    /\ e \in todo[j][op]
    /\ e \in Objects => (todo[j].write \cup todo[j].delete) \cap Rules = {}

\* top_level's order; within a kind, what the source has goes first.
Turn(j, kind, op, e) ==
    /\ phase[j] = "syncing" /\ req[j].kind = kind
    /\ e \in todo[j][op]
    /\ \A f \in todo[j].write \cup todo[j].delete : KindOf(e) <= KindOf(f)
    /\ op = "delete" => todo[j].write \cap TopLevel[KindOf(e)] = {}

Applied(j, e) ==
    /\ todo' = [todo EXCEPT ![j] = [write |-> @.write \ {e}, delete |-> @.delete \ {e}]]
    /\ touched' = touched \cup (Jobs \ {j})
    /\ UNCHANGED <<phase, req, src, dst, edits, runs>>

Finish(j) ==
    /\ phase[j] = "syncing"
    /\ todo[j] = NoWork
    /\ Advance(j, "done")
    /\ UNCHANGED <<worldVars, req, src, dst, todo, touched, edits, runs>>

Crash(j) ==
    /\ phase[j] \in Running
    /\ Advance(j, "crashed")
    /\ UNCHANGED <<worldVars, req, src, dst, todo, touched, edits, runs>>

----------------------------------------------------------------------------
(* Pulling.                                                                *)

RemoveObjectRow(o) ==
    /\ objRow' = objRow \ {o}
    /\ rule' = [r \in Rules |->
          IF rule[r] = Absent THEN Absent
          ELSE [rule[r] EXCEPT !.members = [s \in Sides |-> @[s] \ {o}]]]
    /\ UNCHANGED <<deviceVars, policy>>

Protected(o) ==
    /\ ProtectOnDelete
    /\ \E r \in Rules, s \in Sides : rule[r] # Absent /\ o \in rule[r].members[s]

PullObjectCreate(j, o) ==
    /\ Turn(j, "pull", "write", o)
    /\ objRow' = objRow \cup {o}
    /\ UNCHANGED <<deviceVars, policy, rule>>
    /\ Applied(j, o)

PullObjectDelete(j, o) ==
    /\ Turn(j, "pull", "delete", o)
    /\ \/ Protected(o) /\ Raised(j)
       \/ ~Protected(o) /\ RemoveObjectRow(o) /\ Applied(j, o)

PutPolicyRow(c, d) == policy' = [policy EXCEPT ![c] = d] /\ UNCHANGED <<deviceVars, objRow, rule>>
PutRule(r, row) == rule' = [rule EXCEPT ![r] = row] /\ UNCHANGED <<deviceVars, objRow, policy>>

PullPolicyCreate(j, c) ==
    /\ Turn(j, "pull", "write", c)
    /\ dst[j][c] = Absent
    /\ PutPolicyRow(c, src[j][c])
    /\ Applied(j, c)

PullPolicyUpdate(j, c) ==
    /\ Turn(j, "pull", "write", c)
    /\ dst[j][c] # Absent
    /\ IF policy[c] = Absent THEN UNCHANGED worldVars ELSE PutPolicyRow(c, src[j][c])
    /\ Applied(j, c)

\* Defect: the rules of a Policy row go with it.
RemovePolicyRowAndRules(c) ==
    /\ policy' = [policy EXCEPT ![c] = Absent]
    /\ rule' = [r \in Rules |->
          IF rule[r] # Absent /\ c \in rule[r].linked THEN Absent ELSE rule[r]]
    /\ UNCHANGED <<deviceVars, objRow>>

\* The row goes, with its relation to rules; the rules stay, without a Policy.
RemovePolicyRow(c) ==
    /\ policy' = [policy EXCEPT ![c] = Absent]
    /\ rule' = [r \in Rules |->
          IF rule[r] = Absent THEN Absent ELSE [rule[r] EXCEPT !.linked = @ \ {c}]]
    /\ UNCHANGED <<deviceVars, objRow>>

PullPolicyDelete(j, c) ==
    /\ Turn(j, "pull", "delete", c)
    /\ RemovePolicyRow(c)
    /\ Applied(j, c)

\* Defect: members are related without asking whether they have a row.
FoundBlindly(os) == os

\* Members are looked up by name; what has no row drops out.
Found(os) == os \cap objRow

FoundMembers(m) == [s \in Sides |-> Found(m[s])]

\* _build_rule_description.
Describe(e) == <<e.name>> \o e.text

\* Defect: a rule whose row is already there is not added to its Policy.
CreatedWithoutLink(e, row) ==
    [request |-> e.name, action |-> e.action, log |-> e.log, members |-> FoundMembers(e.members),
     text |-> Describe(e), intfs |-> e.intfs,
     linked |-> IF row = Absent THEN {e.policy} \cap {c \in Containers : policy[c] # Absent}
                ELSE row.linked]

\* update_or_create by name, then the members, then the Policy if it has a row.
Created(e, row) ==
    [request |-> e.name, action |-> e.action, log |-> e.log, members |-> FoundMembers(e.members),
     text |-> Describe(e), intfs |-> e.intfs,
     linked |-> (IF row = Absent THEN {} ELSE row.linked)
                \cup ({e.policy} \cap {c \in Containers : policy[c] # Absent})]

PullRuleCreate(j, r) ==
    /\ Turn(j, "pull", "write", r)
    /\ dst[j][r] = Absent
    /\ PutRule(r, Created(src[j][r], rule[r]))
    /\ Applied(j, r)

\* Of the six lists of members, those that changed are set.
Merge(new, old, now) ==
    [s \in Sides |-> UNION {
        LET K == ObjectKinds[k] IN
        IF new[s] \cap K = old[s] \cap K THEN now[s] \cap K ELSE Found(new[s] \cap K)
        : k \in DOMAIN ObjectKinds}]

Redescribed(e, was) == <<e.action, e.log, e.name, e.text, e.intfs>>
                       # <<was.action, was.log, was.name, was.text, was.intfs>>

\* Neither request_id nor the relation to a Policy is written.
PullRuleUpdate(j, r) ==
    LET e == src[j][r]
        was == dst[j][r]
        row == rule[r]
    IN
    /\ Turn(j, "pull", "write", r)
    /\ was # Absent
    /\ IF row = Absent THEN UNCHANGED worldVars
       ELSE PutRule(r,
              [row EXCEPT !.action = IF e.action = was.action THEN @ ELSE e.action,
                          !.log = IF e.log = was.log THEN @ ELSE e.log,
                          !.text = IF Redescribed(e, was) THEN Describe(e) ELSE @,
                          !.intfs = IF Redescribed(e, was) THEN e.intfs ELSE @,
                          !.members = Merge(e.members, was.members, @)])
    /\ Applied(j, r)

PullRuleDelete(j, r) ==
    /\ Turn(j, "pull", "delete", r)
    /\ PutRule(r, Absent)
    /\ Applied(j, r)

\* Nothing is in a transaction: a worker may die in create() before the rule
\* is added to its Policy, with some of its lists set, and in delete() after
\* the rule was taken off its Policies.
CutShort(j, r) ==
    /\ \/ /\ Turn(j, "pull", "write", r)
          /\ dst[j][r] = Absent
          /\ \E set \in SUBSET Sides :
                PutRule(r, [Created(src[j][r], rule[r]) EXCEPT
                    !.members = [s \in Sides |-> IF s \in set THEN @[s]
                                   ELSE IF rule[r] = Absent THEN {} ELSE rule[r].members[s]],
                    !.linked = IF rule[r] = Absent THEN {} ELSE rule[r].linked])
       \/ /\ Turn(j, "pull", "delete", r)
          /\ rule[r] # Absent
          /\ PutRule(r, [rule[r] EXCEPT !.linked = {}])
    /\ Advance(j, "crashed")
    /\ touched' = touched \cup (Jobs \ {j})
    /\ UNCHANGED <<req, src, dst, todo, edits, runs>>

----------------------------------------------------------------------------
(* Pushing.                                                                *)

PutObject(o, v) == obj' = [obj EXCEPT ![o] = v] /\ UNCHANGED <<pol, rowVars>>
PutPolicy(id, p) == pol' = [pol EXCEPT ![id] = p] /\ UNCHANGED <<obj, rowVars>>

Call(j, e, accepted, write) ==
    \/ accepted /\ write /\ Applied(j, e)
    \/ ~accepted /\ Raised(j)

InUse(o) == \E id \in Ids, s \in Sides : pol[id] # Absent /\ o \in pol[id].members[s]

PushObjectCreate(j, o) ==
    /\ Turn(j, "push", "write", o)
    /\ Call(j, o, obj[o] = Absent, PutObject(o, "readable"))

PushObjectDelete(j, o) ==
    /\ Turn(j, "push", "delete", o)
    /\ Call(j, o, obj[o] # Absent /\ ~InUse(o), PutObject(o, Absent))

\* FortiGatePolicy: nothing on the device stands for a Policy row.
PushPolicy(j, c) ==
    /\ Turn(j, "push", "write", c) \/ Turn(j, "push", "delete", c)
    /\ UNCHANGED worldVars
    /\ Applied(j, c)

NamesExist(m) == \A s \in Sides : \A o \in m[s] : obj[o] # Absent

\* FortiOS may refuse a policy with an empty list.
MayRefuse(m) == \E s \in Sides : m[s] = {}

Posted(e) ==
    [name |-> e.name, action |-> ActionToFortios(e.action), log |-> e.log,
     members |-> e.members, intfs |-> IF e.intfs = NoIntf THEN AnyIntf ELSE e.intfs,
     comment |-> e.text]

PushRuleCreate(j, r) ==
    LET e == src[j][r] IN
    /\ Turn(j, "push", "write", r)
    /\ dst[j][r] = Absent
    /\ \/ r \in Odd /\ UNCHANGED worldVars /\ Applied(j, r)
       \/ /\ r \in Ids
          /\ Call(j, r, pol[r] = Absent /\ NamesExist(e.members), PutPolicy(r, Posted(e)))
       \/ r \in Ids /\ MayRefuse(e.members) /\ Raised(j)

\* Defect: the whole rule is sent, as create() does.
PutWhole(e, was, p) == Posted(e)

\* Defect: of a side, only the list that changed is sent.
PutChangedLists(e, was, p) ==
    [p EXCEPT !.action = IF e.action = was.action THEN @ ELSE ActionToFortios(e.action),
              !.log = IF e.log = was.log THEN @ ELSE e.log,
              !.members = [s \in Sides |->
                  IF e.members[s] = was.members[s] THEN @[s]
                  ELSE UNION {e.members[s] \cap ObjectKinds[k] : k \in
                         {l \in DOMAIN ObjectKinds :
                             e.members[s] \cap ObjectKinds[l] # was.members[s] \cap ObjectKinds[l]}}]]

\* Action, log and the sides of which a list changed are sent, nothing else.
Put(e, was, p) ==
    [p EXCEPT !.action = IF e.action = was.action THEN @ ELSE ActionToFortios(e.action),
              !.log = IF e.log = was.log THEN @ ELSE e.log,
              !.members = [s \in Sides |->
                  IF e.members[s] = was.members[s] THEN @[s] ELSE e.members[s]]]

PushRuleUpdate(j, r) ==
    LET e == src[j][r]
        was == dst[j][r]
        sent == [s \in Sides |-> IF e.members[s] = was.members[s] THEN {} ELSE e.members[s]]
    IN
    /\ Turn(j, "push", "write", r)
    /\ was # Absent
    /\ \/ /\ <<e.action, e.log, e.members>> = <<was.action, was.log, was.members>>
          /\ UNCHANGED worldVars /\ Applied(j, r)
       \/ /\ <<e.action, e.log, e.members>> # <<was.action, was.log, was.members>>
          /\ Call(j, r, pol[r] # Absent /\ NamesExist(sent), PutPolicy(r, Put(e, was, pol[r])))
       \/ /\ \E s \in Sides : e.members[s] # was.members[s] /\ e.members[s] = {}
          /\ Raised(j)

PushRuleDelete(j, r) ==
    /\ Turn(j, "push", "delete", r)
    /\ Call(j, r, pol[r] # Absent, PutPolicy(r, Absent))

----------------------------------------------------------------------------
(* Operators.                                                              *)

Edited ==
    /\ edits < MaxEdits
    /\ edits' = edits + 1
    /\ touched' = Jobs
    /\ UNCHANGED <<phase, req, src, dst, todo, runs>>

DevicePolicyEdit(id, p) ==
    /\ Edited
    /\ p # pol[id]
    /\ p # Absent => NamesExist(p.members)
    /\ PutPolicy(id, p)

DeviceObjectEdit(o, v) ==
    /\ Edited
    /\ v # obj[o]
    /\ v = Absent => ~InUse(o)
    /\ PutObject(o, v)

RuleEdit(r, row) ==
    /\ Edited
    /\ row # rule[r]
    /\ row # Absent =>
          /\ row.members = FoundMembers(row.members)
          /\ \A c \in row.linked : policy[c] # Absent
    /\ PutRule(r, row)

PolicyRowEdit(c, d) ==
    /\ Edited
    /\ d # policy[c]
    /\ IF d = Absent THEN RemovePolicyRow(c) ELSE PutPolicyRow(c, d)

ObjectRowDelete(o) ==
    /\ Edited
    /\ o \in objRow /\ ~Protected(o)
    /\ RemoveObjectRow(o)

Operators ==
    \/ \E e \in DeviceEdits :
          \/ e.key \in Ids /\ DevicePolicyEdit(e.key, e.record)
          \/ e.key \in Objects /\ DeviceObjectEdit(e.key, e.record)
    \/ \E e \in RowEdits :
          \/ e.key \in Rules /\ RuleEdit(e.key, e.record)
          \/ e.key \in Containers /\ PolicyRowEdit(e.key, e.record)
          \/ e.key \in Objects /\ ObjectRowDelete(e.key)

Load(j) ==
    \/ LoadSourceObjects(j) \/ LoadSourcePolicies(j)
    \/ LoadTargetObjects(j) \/ LoadTargetPolicies(j)

Pull(j) ==
    \/ \E o \in Objects : PullObjectCreate(j, o) \/ PullObjectDelete(j, o)
    \/ \E c \in Containers : PullPolicyCreate(j, c) \/ PullPolicyUpdate(j, c) \/ PullPolicyDelete(j, c)
    \/ \E r \in Rules :
          PullRuleCreate(j, r) \/ PullRuleUpdate(j, r) \/ PullRuleDelete(j, r) \/ CutShort(j, r)

Push(j) ==
    \/ \E o \in Objects : PushObjectCreate(j, o) \/ PushObjectDelete(j, o)
    \/ \E c \in Containers : PushPolicy(j, c)
    \/ \E r \in Rules : PushRuleCreate(j, r) \/ PushRuleUpdate(j, r) \/ PushRuleDelete(j, r)

Work(j) == Load(j) \/ ExecuteSync(j) \/ Pull(j) \/ Push(j) \/ Finish(j)

Next ==
    \/ \E j \in Jobs : Start(j) \/ Work(j) \/ Crash(j)
    \/ Operators

Spec == Init /\ [][Next]_vars

----------------------------------------------------------------------------
(* Properties.                                                             *)

Loaded(f) ==
    /\ f = [e \in Elements |-> f[e]]
    /\ \A o \in Objects : f[o] \in {"loaded", Absent}
    /\ \A c \in Containers : f[c] \in {Generated, Retyped, Absent}
    /\ \A r \in Rules : f[r] \in LoadedRule \cup {Absent}

\* Every variable has its type; a policy's members are there, a rule's have
\* a row, and it hangs on Policy rows that exist, whatever jobs and users
\* delete.
TypeOK ==
    /\ DeviceTyped(obj, pol) /\ RowsTyped(objRow, policy, rule)
    /\ phase \in [Jobs -> Idle \cup Running]
    /\ req \in [Jobs -> Requests]
    /\ src = [j \in Jobs |-> src[j]] /\ dst = [j \in Jobs |-> dst[j]]
    /\ \A j \in Jobs : Loaded(src[j]) /\ Loaded(dst[j])
    /\ todo \in [Jobs -> [write : SUBSET Elements, delete : SUBSET Elements]]
    /\ touched \subseteq Jobs /\ edits \in 0..MaxEdits /\ runs \in 0..MaxRuns

(***************************************************************************)
(* What holds of an undisturbed run on its way.                            *)
(***************************************************************************)
Applying == {"syncing", "done"}
Pending(j) == todo[j].write \cup todo[j].delete
Differs(j) ==
    Writes(src[j], dst[j]) \cup (IF req[j].delete THEN Deletes(src[j], dst[j]) ELSE {})
WorkedOff(j) == Differs(j) \ Pending(j)

\* What remains of the diff is part of the diff, and of kinds that top_level
\* does not name before what is already done.
PlanFollowsDiff(j) ==
    phase[j] \in Applying =>
        /\ todo[j].write \subseteq Writes(src[j], dst[j])
        /\ todo[j].delete \subseteq Deletes(src[j], dst[j])
        /\ ~req[j].delete => todo[j].delete = {}
        /\ \A e \in WorkedOff(j), f \in Pending(j) : KindOf(e) <= KindOf(f)
        /\ phase[j] = "done" => todo[j] = NoWork

\* A job does not write its source: what it has loaded is still there.
Store(kind) ==
    [e \in Elements |->
        IF e \in Objects THEN LoadedObjects(kind)[e]
        ELSE LoadedPolicies(kind, LoadedObjects(kind))[e]]

IsCurrent(store, kind, policiesToo) ==
    \A e \in (IF policiesToo THEN Elements ELSE Objects) : store[e] = Store(kind)[e]

SourceIsCurrent(j) ==
    j \notin touched /\ phase[j] \notin {"idle", "source", "failed", "crashed"} =>
        IsCurrent(src[j], SourceKind(j), phase[j] # "sourcePolicies")

TargetIsCurrent(j) ==
    j \notin touched /\ phase[j] \in {"targetPolicies", "loaded"} =>
        /\ IsCurrent(dst[j], TargetKind(j), phase[j] = "loaded")
        /\ phase[j] = "loaded" => ~LoadRaises(TargetKind(j))

\* What element e of the target stands at, according to the two adapters and
\* the plan: as it was loaded, until its turn has come.
Outcome(j, e) == IF e \in WorkedOff(j) THEN src[j][e] ELSE dst[j][e]

\* Row r keeps what was loaded of it, as far as its objects and its Policy row
\* last, until it is written; then it is the policy, under the name and the
\* Policy row it had.
PulledRule(j, r) ==
    LET e == src[j][r]
        was == dst[j][r]
        row == rule[r]
        Under(c) == {d \in {c} : policy[d] # Absent}
    IN
    IF r \notin WorkedOff(j)
    THEN IF was = Absent THEN ~Visible(r)
         ELSE /\ row # Absent
              /\ row.request = was.name /\ row.action = was.action /\ row.log = was.log
              /\ row.members = FoundMembers(was.members) /\ row.intfs = was.intfs
              /\ StripName(row.request, row.text) = was.text
              /\ row.linked = Under(was.policy)
    ELSE IF e = Absent THEN row = Absent
    ELSE /\ row # Absent
         /\ row.request = (IF was = Absent THEN e.name ELSE was.name)
         /\ row.action = e.action /\ row.log = e.log
         /\ row.members = e.members /\ row.intfs = e.intfs
         /\ StripName(row.request, row.text) =
               IF row.request = e.name THEN e.text ELSE Describe(e)
         /\ row.linked = (IF was = Absent THEN {Ours} ELSE Under(was.policy))

PullIsOnCourse(j) ==
    j \notin touched /\ phase[j] \in Applying /\ req[j].kind = "pull" =>
        /\ \A o \in Objects : o \in objRow <=> Outcome(j, o) # Absent
        /\ \A c \in Containers : policy[c] = Outcome(j, c)
        /\ \A r \in Rules : PulledRule(j, r)
        /\ \A r \in Rules : dst[j][r] # Absent =>
              /\ dst[j][dst[j][r].policy] # Absent
              /\ \A s \in Sides : \A o \in dst[j][r].members[s] : dst[j][o] # Absent

\* Policy id stands as it was loaded until its rule is sent; then it reads
\* back as the rule.
PushedPolicy(j, id) ==
    LET e == src[j][id]
        p == pol[id]
    IN
    IF id \notin WorkedOff(j)
    THEN dst[j][id] = IF p = Absent THEN Absent ELSE FgtRule(id, LoadedObjects("device"))
    ELSE IF e = Absent THEN p = Absent
    ELSE /\ p # Absent
         /\ \A s \in Sides : {o \in p.members[s] : obj[o] = "readable"} = e.members[s]
         /\ FortiosAction(p.action) = (IF e.action = "allow" THEN "allow" ELSE "deny")
         /\ p.log = e.log
         /\ dst[j][id] = Absent => p = Posted(e)

PushIsOnCourse(j) ==
    j \notin touched /\ phase[j] \in Applying /\ req[j].kind = "push" =>
        /\ \A o \in Objects : obj[o] = "readable" <=> Outcome(j, o) # Absent
        /\ \A id \in Ids : PushedPolicy(j, id)
        /\ \A r \in Odd : dst[j][r] = Absent

\* The inductive invariant.
SyncInvariant ==
    /\ TypeOK
    /\ \A j \in Jobs :
          /\ PlanFollowsDiff(j) /\ SourceIsCurrent(j) /\ TargetIsCurrent(j)
          /\ PullIsOnCourse(j) /\ PushIsOnCourse(j)
JobStep == edits' = edits
Clean(j, kind) == phase[j] = "done" /\ j \notin touched /\ req[j].kind = kind

\* After a clean pull every policy of the device has a rule with its action
\* and log and exactly its readable members, whatever earlier runs left half
\* done.  A rule that was not visible before, its row there or not, is under
\* the FortiGate's Policy row now.  A visible one keeps two things: the name
\* it was created with, which its description then carries as a second prefix,
\* and the Policy row it was under, even when this very pull deleted that row.
\* A destructive pull leaves no other rule, but for those no job could see.
PullMirrorsPolicies ==
    \A j \in Jobs : Clean(j, "pull") =>
        LET store == LoadedObjects("device") IN
        /\ \A o \in Objects :
              /\ store[o] # Absent => o \in objRow
              /\ store[o] = Absent /\ req[j].delete => o \notin objRow
        /\ policy[Ours] = Generated
        /\ req[j].delete => \A c \in Others : policy[c] = Absent
        /\ \A id \in Ids : pol[id] # Absent =>
              LET e == FgtRule(id, store)
                  was == dst[j][id]
                  row == rule[id]
              IN
              /\ row # Absent
              /\ row.members = e.members /\ row.intfs = e.intfs
              /\ row.action = e.action /\ row.log = e.log
              /\ row.request = IF was = Absent THEN e.name ELSE was.name
              /\ StripName(row.request, row.text) =
                    IF row.request = e.name THEN e.text ELSE Describe(e)
              /\ row.linked = IF was = Absent THEN {Ours}
                              ELSE {c \in {was.policy} : policy[c] # Absent}
        /\ req[j].delete => \A r \in Rules :
              (r \in Odd \/ pol[r] = Absent) /\ dst[j][r] # Absent => rule[r] = Absent

\* After a clean push every visible rule with an id is a policy of the device
\* that reads back with the rule's members, log and action, "drop" and
\* "remark" as "deny"; a policy the push made is that rule in every field.
\* A destructive push leaves no policy without a visible rule.
PushMirrorsRules ==
    \A j \in Jobs : Clean(j, "push") =>
        LET store == LoadedObjects("device") IN
        /\ \A o \in objRow : store[o] # Absent
        /\ \A id \in Ids : Visible(id) =>
              /\ pol[id] # Absent
              /\ FgtRule(id, store).members = rule[id].members
              /\ FgtRule(id, store).action = (IF rule[id].action = "allow" THEN "allow" ELSE "deny")
              /\ pol[id].log = rule[id].log
              /\ dst[j][id] = Absent => pol[id] = Posted(RowRule(id))
        /\ req[j].delete => \A id \in Ids : pol[id] # Absent => Visible(id)

\* Why a job that nobody disturbed can die.  Any: a rule is under two Policy
\* rows.  A pull: it is destructive and met an object a rule still holds.  A
\* push: an object's name is taken by one that cannot be read; it has to send
\* an empty list; or it is destructive and met an object a policy still holds,
\* though the rule that no longer holds it would have been pushed later.
AbortsAreExplained ==
    \A j \in Jobs : phase[j] = "failed" /\ j \notin touched =>
        \/ LoadRaises("rows")
        \/ /\ req[j].kind = "pull" /\ req[j].delete
           /\ \E o \in todo[j].delete \cap Objects : Protected(o)
        \/ /\ req[j].kind = "push"
           /\ \/ \E o \in todo[j].write \cap Objects : obj[o] = "unreadable"
              \/ \E r \in todo[j].write \cap Ids : MayRefuse(src[j][r].members)
              \/ req[j].delete /\ \E o \in todo[j].delete \cap Objects : InUse(o)

\* What a push nobody disturbs may do to a policy that exists.  It never
\* changes its name, its interfaces or its comment, and it changes a side
\* only to a list that differs from what the device has in more than members
\* Nautobot cannot read.  It removes a policy only if it is destructive and
\* no job can see a rule for it: a rule row that hangs nowhere saves nothing.
PushKeepsUnsent ==
    [][\A j \in Jobs, id \in Ids :
          LET was == pol[id]
              is == pol'[id]
          IN
          JobStep /\ todo'[j] # todo[j] /\ j \notin touched /\ was # Absent /\ is # was
          => IF is = Absent THEN req[j].delete /\ ~Visible(id)
             ELSE /\ is.name = was.name /\ is.intfs = was.intfs /\ is.comment = was.comment
                  /\ \A s \in Sides : is.members[s] # was.members[s] =>
                        /\ is.members[s] = rule[id].members[s]
                        /\ is.members[s] # {o \in was.members[s] : obj[o] = "readable"}]_vars

\* The same jobs, told as the abstract job: an element is a record of the
\* device or of the rows.  Nothing on the device stands for a Policy row.
There == [e \in Elements |->
    CASE e \in Objects -> obj[e] # Absent
      [] e \in Ids -> pol[e] # Absent
      [] OTHER -> FALSE]
Here == [e \in Elements |->
    CASE e \in Objects -> e \in objRow
      [] e \in Containers -> policy[e] # Absent
      [] e \in Rules -> rule[e] # Absent]
Held ==
    {r \in {"device", "rows"} \X {Ours} \X Elements :
        IF r[1] = "device" THEN There[r[3]] ELSE Here[r[3]]}
StageOf(p) ==
    CASE p \in {"idle", "done"} -> p
      [] p \in {"failed", "crashed"} -> "stopped"
      [] p = "syncing" -> "applying"
      [] p \in Running \ {"syncing"} -> "reading"
OrderOf(r) ==
    [side |-> IF r.kind = "pull" THEN "rows" ELSE "device", place |-> Ours, delete |-> r.delete]

Job == INSTANCE SyncJob WITH
    Places <- {Ours}, Names <- Elements, held <- Held,
    stage <- [j \in Jobs |-> StageOf(phase[j])],
    order <- [j \in Jobs |-> OrderOf(req[j])],
    plan <- todo

\* Of the records' existence, a policy job changes only what the abstract job
\* may, the deaths in the middle of a create() or delete() included: no row
\* or policy comes or goes as a side effect of another's write.
ImplementsSyncJob == Job!Spec
=============================================================================
