-------------------------- MODULE PolicySyncProofs --------------------------
(***************************************************************************)
(* Proofs about PolicySync: its inductive invariant, and from it each      *)
(* property its run checks.  The argument is that of ServiceSyncProofs:    *)
(* what a job has loaded of its source is still there while nobody else    *)
(* interferes, and the side it writes stands where its plan says.          *)
(***************************************************************************)
EXTENDS PolicySync, FiniteSetTheorems, TLAPS

----------------------------------------------------------------------------
(* The elements, and their kinds.                                          *)

LEMMA ElementsAre ==
    /\ \A o \in Objects : o \in Elements /\ o \notin Containers /\ o \notin Rules
    /\ \A c \in Containers : c \in Elements /\ c \notin Objects /\ c \notin Rules
    /\ \A r \in Rules : r \in Elements /\ r \notin Objects /\ r \notin Containers
    /\ \A id \in Ids : id \in Rules /\ id \notin Odd
    /\ \A r \in Odd : r \in Rules /\ r \notin Ids
    /\ Ours \in Containers
BY ConstantsAssumption DEF Elements, Rules, Containers

LEMMA TopLevelIs ==
    LET n == Len(ObjectKinds) IN
    /\ n \in Nat /\ DOMAIN ObjectKinds = 1..n
    /\ DOMAIN TopLevel = 1..(n + 2)
    /\ \A k \in 1..n : TopLevel[k] = ObjectKinds[k]
    /\ TopLevel[n + 1] = Containers /\ TopLevel[n + 2] = Rules
<1> DEFINE n == Len(ObjectKinds)
<1>1. ObjectKinds \in Seq(SUBSET Objects) /\ n \in Nat /\ DOMAIN ObjectKinds = 1..n
  BY ConstantsAssumption
<1>2. TopLevel = ObjectKinds \o <<Containers, Rules>>
  BY DEF TopLevel
<1>3. Len(TopLevel) = n + 2 /\ DOMAIN TopLevel = 1..(n + 2)
  BY <1>1, <1>2
<1>4. \A k \in 1..n : TopLevel[k] = ObjectKinds[k]
  BY <1>1, <1>2
<1>5. TopLevel[n + 1] = Containers /\ TopLevel[n + 2] = Rules
  BY <1>1, <1>2
<1> QED
  BY <1>1, <1>3, <1>4, <1>5

\* top_level names every kind of object first, then Policy rows, then rules.
LEMMA KindIs ==
    LET n == Len(ObjectKinds) IN
    /\ n \in Nat
    /\ \A o \in Objects : KindOf(o) \in 1..n
    /\ \A c \in Containers : KindOf(c) = n + 1
    /\ \A r \in Rules : KindOf(r) = n + 2
<1> DEFINE n == Len(ObjectKinds)
<1>1. /\ n \in Nat /\ DOMAIN ObjectKinds = 1..n /\ DOMAIN TopLevel = 1..(n + 2)
      /\ \A k \in 1..n : TopLevel[k] = ObjectKinds[k]
      /\ TopLevel[n + 1] = Containers /\ TopLevel[n + 2] = Rules
  BY TopLevelIs
<1> HIDE DEF n
<1>2. \A e, k : k \in 1..(n + 2) /\ e \in TopLevel[k] =>
         KindOf(e) \in 1..(n + 2) /\ e \in TopLevel[KindOf(e)]
  BY <1>1 DEF KindOf
<1>3. \A k \in 1..(n + 2) : k \in 1..n \/ k = n + 1 \/ k = n + 2
  BY <1>1
<1>4. \A k \in 1..n : ObjectKinds[k] \subseteq Objects
  BY <1>1 DEF Objects
<1>5. ASSUME NEW o \in Objects PROVE KindOf(o) \in 1..n
  <2>1. PICK k \in 1..n : o \in TopLevel[k]
    BY <1>1 DEF Objects
  <2>2. KindOf(o) \in 1..(n + 2) /\ o \in TopLevel[KindOf(o)]
    BY <1>1, <1>2, <2>1
  <2> QED
    BY <1>1, <1>3, <2>2, ElementsAre
<1>6. ASSUME NEW c \in Containers PROVE KindOf(c) = n + 1
  <2>1. KindOf(c) \in 1..(n + 2) /\ c \in TopLevel[KindOf(c)]
    BY <1>1, <1>2
  <2> QED
    BY <1>1, <1>3, <1>4, <2>1, ElementsAre
<1>7. ASSUME NEW r \in Rules PROVE KindOf(r) = n + 2
  <2>1. KindOf(r) \in 1..(n + 2) /\ r \in TopLevel[KindOf(r)]
    BY <1>1, <1>2
  <2> QED
    BY <1>1, <1>3, <1>4, <2>1, ElementsAre
<1> QED
  BY <1>1, <1>5, <1>6, <1>7 DEF n

----------------------------------------------------------------------------
(* Texts: a name in front of a comment, a note behind it.                  *)

LEMMA StripTyped ==
    ASSUME NEW request, NEW text \in Seq(Pieces)
    PROVE  StripName(request, text) \in Seq(Pieces)
BY DEF StripName

LEMMA StripDescribed ==
    ASSUME NEW request, NEW e \in LoadedRule
    PROVE  /\ Describe(e) \in Seq(Pieces)
           /\ StripName(request, Describe(e)) = IF request = e.name THEN e.text ELSE Describe(e)
<1>1. e.text \in Seq(Pieces) /\ e.name \in Pieces
  BY DEF LoadedRule, Pieces
<1>2. PICK text \in Seq(Pieces), name \in Pieces : text = e.text /\ name = e.name
  BY <1>1
<1>3. <<name>> \o text \in Seq(Pieces) /\ <<name>> \o text # <<>> /\ Head(<<name>> \o text) = name
  BY <1>2
<1>4. Tail(<<name>> \o text) = text
  BY <1>2
<1>5. Describe(e) = <<name>> \o text
  BY <1>2 DEF Describe
<1> QED
  BY <1>2, <1>3, <1>4, <1>5 DEF StripName

LEMMA NotedTyped ==
    ASSUME NEW text \in Seq(Pieces), NEW a
    PROVE  text \o ActionNote(a) \in Seq(Pieces)
<1>1. Note.ipsec \in Pieces /\ Note.other \in Pieces
  BY DEF Pieces
<1>2. ActionNote(a) \in Seq(Pieces)
  BY <1>1 DEF ActionNote
<1> QED
  BY <1>2

----------------------------------------------------------------------------
(* What the adapters read.                                                 *)

World == DeviceTyped(obj, pol) /\ RowsTyped(objRow, policy, rule)

Readable(ms, store) == [s \in Sides |-> {o \in ms[s] : store[o] # Absent}]

LEMMA ReadableTyped ==
    ASSUME NEW ms \in Members, NEW store
    PROVE  /\ Readable(ms, store) \in Members
           /\ \A s \in Sides : Readable(ms, store)[s] = {o \in ms[s] : store[o] # Absent}
<1>1. \A s \in Sides : {o \in ms[s] : store[o] # Absent} \in SUBSET Objects
  BY DEF Members
<1> QED
  BY <1>1 DEF Readable, Members

LEMMA FgtRuleRead ==
    ASSUME DeviceTyped(obj, pol), NEW id \in Ids, pol[id] # Absent, NEW store
    PROVE  /\ FgtRule(id, store) \in LoadedRule /\ FgtRule(id, store) # Absent /\ pol[id] \in Policy
           /\ FgtRule(id, store).policy = Ours /\ FgtRule(id, store).name = pol[id].name
           /\ FgtRule(id, store).action = FortiosAction(pol[id].action)
           /\ FgtRule(id, store).action \in {"allow", "deny"}
           /\ FgtRule(id, store).log = pol[id].log
           /\ FgtRule(id, store).intfs = pol[id].intfs
           /\ FgtRule(id, store).members = Readable(pol[id].members, store)
           /\ \A s \in Sides :
                 FgtRule(id, store).members[s] = {o \in pol[id].members[s] : store[o] # Absent}
<1>1. pol[id] \in Policy
  BY DEF DeviceTyped
<1>2. /\ pol[id].name \in PolicyNames /\ pol[id].log \in BOOLEAN
      /\ pol[id].intfs \in Interfaces \cup {AnyIntf, NoIntf}
      /\ pol[id].comment \in Seq(Pieces) /\ pol[id].members \in Members
  BY <1>1 DEF Policy
<1>3. FgtRule(id, store) =
         [policy |-> Ours, name |-> pol[id].name, action |-> FortiosAction(pol[id].action),
          log |-> pol[id].log, members |-> Readable(pol[id].members, store),
          text |-> pol[id].comment \o ActionNote(pol[id].action), intfs |-> pol[id].intfs]
  BY DEF FgtRule, Readable
<1>4. FortiosAction(pol[id].action) \in {"allow", "deny"}
  BY DEF FortiosAction
<1>5. /\ Readable(pol[id].members, store) \in Members
      /\ \A s \in Sides :
            Readable(pol[id].members, store)[s] = {o \in pol[id].members[s] : store[o] # Absent}
  BY <1>2, ReadableTyped
<1>6. pol[id].comment \o ActionNote(pol[id].action) \in Seq(Pieces)
  BY <1>2, NotedTyped
<1>7. FgtRule(id, store) \in LoadedRule
  BY <1>2, <1>3, <1>4, <1>5, <1>6, ElementsAre DEF LoadedRule, NautobotActions
<1>8. FgtRule(id, store) # Absent
  BY <1>7, NothingAssumption
<1>9. /\ FgtRule(id, store).policy = Ours /\ FgtRule(id, store).name = pol[id].name
      /\ FgtRule(id, store).action = FortiosAction(pol[id].action)
      /\ FgtRule(id, store).log = pol[id].log /\ FgtRule(id, store).intfs = pol[id].intfs
      /\ FgtRule(id, store).members = Readable(pol[id].members, store)
  BY <1>3
<1> QED
  BY <1>1, <1>4, <1>5, <1>7, <1>8, <1>9

LEMMA RowRuleRead ==
    ASSUME RowsTyped(objRow, policy, rule), NEW r \in Rules, Visible(r)
    PROVE  /\ RowRule(r) \in LoadedRule /\ RowRule(r) # Absent /\ rule[r] \in Rule
           /\ RowRule(r).policy \in rule[r].linked /\ RowRule(r).name = rule[r].request
           /\ RowRule(r).action = rule[r].action /\ RowRule(r).log = rule[r].log
           /\ RowRule(r).members = rule[r].members /\ RowRule(r).intfs = rule[r].intfs
           /\ RowRule(r).text = StripName(rule[r].request, rule[r].text)
           /\ policy[RowRule(r).policy] # Absent
           /\ \A s \in Sides : rule[r].members[s] \subseteq objRow
<1>1. rule[r] \in Rule /\ rule[r].linked # {} /\ rule[r] # Absent
  BY DEF Visible, RowsTyped
<1>2. /\ rule[r].request \in PolicyNames /\ rule[r].action \in NautobotActions
      /\ rule[r].log \in BOOLEAN /\ rule[r].members \in Members /\ rule[r].text \in Seq(Pieces)
      /\ rule[r].intfs \in Interfaces \cup {AnyIntf, NoIntf} /\ rule[r].linked \subseteq Containers
  BY <1>1 DEF Rule
<1>3. (CHOOSE c \in rule[r].linked : TRUE) \in rule[r].linked
  BY <1>1
<1>4. StripName(rule[r].request, rule[r].text) \in Seq(Pieces)
  BY <1>2, StripTyped
<1>5. RowRule(r) =
         [policy |-> CHOOSE c \in rule[r].linked : TRUE, name |-> rule[r].request,
          action |-> rule[r].action, log |-> rule[r].log, members |-> rule[r].members,
          text |-> StripName(rule[r].request, rule[r].text), intfs |-> rule[r].intfs]
  BY DEF RowRule
<1>6. RowRule(r) \in LoadedRule
  BY <1>2, <1>3, <1>4, <1>5 DEF LoadedRule
<1>7. RowRule(r) # Absent
  BY <1>6, NothingAssumption
<1>8. /\ RowRule(r).policy \in rule[r].linked /\ RowRule(r).name = rule[r].request
      /\ RowRule(r).action = rule[r].action /\ RowRule(r).log = rule[r].log
      /\ RowRule(r).members = rule[r].members /\ RowRule(r).intfs = rule[r].intfs
      /\ RowRule(r).text = StripName(rule[r].request, rule[r].text)
  BY <1>3, <1>5
<1>9. /\ \A c \in rule[r].linked : policy[c] # Absent
      /\ \A s \in Sides : rule[r].members[s] \subseteq objRow
  BY <1>1 DEF RowsTyped
<1> QED
  BY <1>1, <1>6, <1>7, <1>8, <1>9

LEMMA LoadedObjectsRead ==
    ASSUME NEW kind
    PROVE  \A o \in Objects :
              /\ LoadedObjects(kind)[o] \in {"loaded", Absent}
              /\ (LoadedObjects(kind)[o] # Absent) <=>
                    (IF kind = "device" THEN obj[o] = "readable" ELSE o \in objRow)
BY NothingAssumption DEF LoadedObjects

LEMMA DeviceStoreRead ==
    /\ \A o \in Objects : Store("device")[o] = LoadedObjects("device")[o]
    /\ \A o \in Objects : (Store("device")[o] # Absent) <=> obj[o] = "readable"
    /\ Store("device")[Ours] = Generated
    /\ \A c \in Others : Store("device")[c] = Absent
    /\ \A id \in Ids : Store("device")[id] =
          IF pol[id] = Absent THEN Absent ELSE FgtRule(id, LoadedObjects("device"))
    /\ \A r \in Odd : Store("device")[r] = Absent
<1>1. /\ \A c \in Others : c \in Containers /\ c # Ours /\ c \notin Ids
      /\ \A r \in Rules : r # Ours
      /\ Ours \notin Ids
  BY ElementsAre, ConstantsAssumption DEF Containers
<1>2. \A o \in Objects : Store("device")[o] = LoadedObjects("device")[o]
  BY ElementsAre DEF Store
<1>3. \A e \in Containers \cup Rules :
         Store("device")[e] = IF e = Ours THEN Generated
                              ELSE IF e \in Ids /\ pol[e] # Absent
                                   THEN FgtRule(e, LoadedObjects("device")) ELSE Absent
  BY ElementsAre DEF Store, LoadedPolicies
<1> QED
  BY <1>1, <1>2, <1>3, ElementsAre, LoadedObjectsRead

LEMMA RowStoreRead ==
    /\ \A o \in Objects : Store("rows")[o] = LoadedObjects("rows")[o]
    /\ \A o \in Objects : (Store("rows")[o] # Absent) <=> o \in objRow
    /\ \A c \in Containers : Store("rows")[c] = policy[c]
    /\ \A r \in Rules : Store("rows")[r] = IF Visible(r) THEN RowRule(r) ELSE Absent
<1>1. "rows" # "device"
  OBVIOUS
<1>2. \A o \in Objects : Store("rows")[o] = LoadedObjects("rows")[o]
  BY ElementsAre DEF Store
<1>3. \A e \in Containers \cup Rules :
         Store("rows")[e] = IF e \in Containers THEN policy[e]
                            ELSE IF Visible(e) THEN RowRule(e) ELSE Absent
  BY <1>1, ElementsAre DEF Store, LoadedPolicies
<1> QED
  BY <1>1, <1>2, <1>3, ElementsAre, LoadedObjectsRead

LEMMA StoreTyped ==
    ASSUME World, NEW kind \in {"device", "rows"}
    PROVE  Loaded(Store(kind))
<1>1. Store(kind) = [e \in Elements |-> Store(kind)[e]]
  BY DEF Store
<1>2. CASE kind = "device"
  <2>1. \A o \in Objects : Store("device")[o] \in {"loaded", Absent}
    BY DeviceStoreRead, LoadedObjectsRead
  <2>2. \A c \in Containers : Store("device")[c] \in {Generated, Absent}
    BY DeviceStoreRead DEF Containers
  <2>3. \A r \in Rules : Store("device")[r] \in LoadedRule \cup {Absent}
    BY DeviceStoreRead, FgtRuleRead DEF Rules, World
  <2> QED
    BY <1>1, <1>2, <2>1, <2>2, <2>3 DEF Loaded
<1>3. CASE kind = "rows"
  <2>1. \A o \in Objects : Store("rows")[o] \in {"loaded", Absent}
    BY RowStoreRead, LoadedObjectsRead
  <2>2. \A c \in Containers : Store("rows")[c] \in {Generated, Retyped, Absent}
    BY RowStoreRead DEF World, RowsTyped
  <2>3. \A r \in Rules : Store("rows")[r] \in LoadedRule \cup {Absent}
    BY RowStoreRead, RowRuleRead DEF World
  <2> QED
    BY <1>1, <1>3, <2>1, <2>2, <2>3 DEF Loaded
<1> QED
  BY <1>2, <1>3

\* What a policy reads as depends on the store only at its members.
LEMMA FgtRuleSame ==
    ASSUME DeviceTyped(obj, pol), NEW id \in Ids, pol[id] # Absent, NEW one, NEW two,
           \A o \in Objects : (one[o] # Absent) <=> (two[o] # Absent)
    PROVE  FgtRule(id, one) = FgtRule(id, two)
<1>1. \A s \in Sides : pol[id].members[s] \subseteq Objects
  BY DEF DeviceTyped, Policy, Members
<1>2. \A s \in Sides : {o \in pol[id].members[s] : one[o] # Absent}
                        = {o \in pol[id].members[s] : two[o] # Absent}
  BY <1>1
<1>3. [s \in Sides |-> {o \in pol[id].members[s] : one[o] # Absent}]
       = [s \in Sides |-> {o \in pol[id].members[s] : two[o] # Absent}]
  BY <1>2
<1> QED
  BY <1>3 DEF FgtRule

\* The two passes over an adapter.
LEMMA WithObjectsRead ==
    ASSUME NEW kind, NEW store
    PROVE  /\ With(store, LoadedObjects(kind)) = [e \in Elements |-> With(store, LoadedObjects(kind))[e]]
           /\ \A o \in Objects : With(store, LoadedObjects(kind))[o] = LoadedObjects(kind)[o]
           /\ \A e \in Containers \cup Rules : With(store, LoadedObjects(kind))[e] = store[e]
BY ElementsAre DEF With, LoadedObjects

LEMMA WithPoliciesRead ==
    ASSUME NEW kind, NEW store
    PROVE  /\ With(store, LoadedPolicies(kind, store))
                 = [e \in Elements |-> With(store, LoadedPolicies(kind, store))[e]]
           /\ \A o \in Objects : With(store, LoadedPolicies(kind, store))[o] = store[o]
           /\ \A e \in Containers \cup Rules :
                 With(store, LoadedPolicies(kind, store))[e] = LoadedPolicies(kind, store)[e]
BY ElementsAre DEF With, LoadedPolicies

LEMMA WithObjectsTyped ==
    ASSUME NEW kind, NEW store, Loaded(store)
    PROVE  Loaded(With(store, LoadedObjects(kind)))
BY WithObjectsRead, LoadedObjectsRead DEF Loaded

LEMMA WithPoliciesTyped ==
    ASSUME World, NEW kind \in {"device", "rows"}, NEW store, Loaded(store)
    PROVE  Loaded(With(store, LoadedPolicies(kind, store)))
<1> DEFINE after == With(store, LoadedPolicies(kind, store))
<1>1. /\ after = [e \in Elements |-> after[e]]
      /\ \A o \in Objects : after[o] = store[o]
      /\ \A e \in Containers \cup Rules : after[e] = LoadedPolicies(kind, store)[e]
  BY WithPoliciesRead
<1>2. \A c \in Containers : LoadedPolicies(kind, store)[c] \in {Generated, Retyped, Absent}
  BY ElementsAre DEF LoadedPolicies, World, RowsTyped
<1>3. ASSUME NEW r \in Rules PROVE LoadedPolicies(kind, store)[r] \in LoadedRule \cup {Absent}
  <2>1. r # Ours /\ r \notin Containers
    BY ElementsAre
  <2>2. CASE kind = "device"
    <3>1. LoadedPolicies(kind, store)[r] =
             IF r \in Ids /\ pol[r] # Absent THEN FgtRule(r, store) ELSE Absent
      BY <2>1, <2>2 DEF LoadedPolicies
    <3> QED
      BY <3>1, FgtRuleRead DEF World
  <2>3. CASE kind = "rows"
    <3>1. LoadedPolicies(kind, store)[r] = IF Visible(r) THEN RowRule(r) ELSE Absent
      BY <2>1, <2>3 DEF LoadedPolicies
    <3> QED
      BY <3>1, RowRuleRead DEF World
  <2> QED
    BY <2>2, <2>3
<1> HIDE DEF after
<1>4. Loaded(after)
  BY <1>1, <1>2, <1>3 DEF Loaded
<1> QED
  BY <1>4 DEF after

LEMMA EmptyLoaded == Loaded(EmptyStore)
BY ElementsAre DEF Loaded, EmptyStore

\* What the policies add depends on the objects loaded before them.
LEMMA PoliciesOfObjects ==
    ASSUME World, NEW kind \in {"device", "rows"}, NEW store,
           \A o \in Objects : store[o] = LoadedObjects(kind)[o]
    PROVE  \A e \in Elements : With(store, LoadedPolicies(kind, store))[e] = Store(kind)[e]
<1>1. \A e \in Containers \cup Rules : LoadedPolicies(kind, store)[e] = LoadedPolicies(kind, LoadedObjects(kind))[e]
  <2> SUFFICES ASSUME NEW e \in Containers \cup Rules, kind = "device", e \in Ids, pol[e] # Absent
               PROVE  FgtRule(e, store) = FgtRule(e, LoadedObjects(kind))
    BY DEF LoadedPolicies
  <2> QED
    BY FgtRuleSame DEF World
<1>2. \A e \in Containers \cup Rules : Store(kind)[e] = LoadedPolicies(kind, LoadedObjects(kind))[e]
  BY ElementsAre DEF Store
<1>3. \A o \in Objects : Store(kind)[o] = LoadedObjects(kind)[o]
  BY ElementsAre DEF Store
<1> QED
  BY <1>1, <1>2, <1>3, WithPoliciesRead DEF Elements

----------------------------------------------------------------------------
(* Type correctness of the world's steps.                                  *)

LEMMA SameWorldTyped ==
    ASSUME World, UNCHANGED worldVars
    PROVE  World'
BY DEF World, DeviceTyped, RowsTyped, worldVars, deviceVars, rowVars

\* A row that refers to rows only.
RuleFits(row) ==
    /\ row \in Rule
    /\ \A s \in Sides : row.members[s] \subseteq objRow
    /\ \A c \in row.linked : policy[c] # Absent

LEMMA PutRuleTyped ==
    ASSUME World, NEW r \in Rules, NEW row, row = Absent \/ RuleFits(row), PutRule(r, row)
    PROVE  World' /\ \A q \in Rules : rule'[q] = IF q = r THEN row ELSE rule[q]
<1>1. /\ rule' = [rule EXCEPT ![r] = row] /\ rule \in [Rules -> Rule \cup {Absent}]
      /\ UNCHANGED <<obj, pol, objRow, policy>>
  BY DEF PutRule, deviceVars, World, RowsTyped
<1>2. \A q \in Rules : rule'[q] = IF q = r THEN row ELSE rule[q]
  BY <1>1
<1>3. rule' \in [Rules -> Rule \cup {Absent}]
  BY <1>1 DEF RuleFits
<1>4. ASSUME NEW q \in Rules, rule'[q] # Absent
      PROVE  /\ \A s \in Sides : rule'[q].members[s] \subseteq objRow'
             /\ \A c \in rule'[q].linked : policy'[c] # Absent
  BY <1>1, <1>2, <1>4 DEF RuleFits, World, RowsTyped
<1>5. RowsTyped(objRow', policy', rule')
  BY <1>1, <1>3, <1>4 DEF World, RowsTyped
<1> QED
  BY <1>1, <1>2, <1>5 DEF World, DeviceTyped, RowsTyped

LEMMA FoundRead ==
    ASSUME World, NEW ms \in Members
    PROVE  /\ FoundMembers(ms) \in Members
           /\ \A s \in Sides : FoundMembers(ms)[s] = ms[s] \cap objRow
           /\ (\A s \in Sides : ms[s] \subseteq objRow) => FoundMembers(ms) = ms
<1>1. \A s \in Sides : ms[s] \cap objRow \in SUBSET Objects
  BY DEF Members
<1>2. FoundMembers(ms) = [s \in Sides |-> ms[s] \cap objRow]
  BY DEF FoundMembers, Found
<1>3. FoundMembers(ms) \in Members /\ \A s \in Sides : FoundMembers(ms)[s] = ms[s] \cap objRow
  BY <1>1, <1>2 DEF Members
<1>4. ASSUME \A s \in Sides : ms[s] \subseteq objRow PROVE FoundMembers(ms) = ms
  <2>1. \A s \in Sides : FoundMembers(ms)[s] = ms[s]
    BY <1>3, <1>4
  <2> QED
    BY <1>3, <2>1 DEF Members
<1> QED
  BY <1>3, <1>4

LEMMA CreatedRead ==
    ASSUME World, NEW e \in LoadedRule, NEW row, row = Absent \/ RuleFits(row)
    PROVE  /\ RuleFits(Created(e, row))
           /\ Created(e, row).request = e.name /\ Created(e, row).action = e.action
           /\ Created(e, row).log = e.log /\ Created(e, row).intfs = e.intfs
           /\ Created(e, row).members = FoundMembers(e.members)
           /\ Created(e, row).text = Describe(e)
           /\ Created(e, row).linked =
                 (IF row = Absent THEN {} ELSE row.linked)
                 \cup ({e.policy} \cap {c \in Containers : policy[c] # Absent})
<1> DEFINE links == (IF row = Absent THEN {} ELSE row.linked)
                    \cup ({e.policy} \cap {c \in Containers : policy[c] # Absent})
<1>1. /\ e.name \in PolicyNames /\ e.action \in NautobotActions /\ e.log \in BOOLEAN
      /\ e.members \in Members /\ e.intfs \in Interfaces \cup {AnyIntf, NoIntf}
  BY DEF LoadedRule
<1>2. /\ FoundMembers(e.members) \in Members
      /\ \A s \in Sides : FoundMembers(e.members)[s] \subseteq objRow
  BY <1>1, FoundRead
<1>3. Describe(e) \in Seq(Pieces)
  BY StripDescribed
<1>4. links \subseteq Containers /\ \A c \in links : policy[c] # Absent
  BY DEF RuleFits, Rule
<1>5. Created(e, row) =
         [request |-> e.name, action |-> e.action, log |-> e.log,
          members |-> FoundMembers(e.members), text |-> Describe(e), intfs |-> e.intfs,
          linked |-> links]
  BY DEF Created
<1> HIDE DEF links
<1>6. Created(e, row) \in Rule
  BY <1>1, <1>2, <1>3, <1>4, <1>5 DEF Rule
<1>7. /\ Created(e, row).request = e.name /\ Created(e, row).action = e.action
      /\ Created(e, row).log = e.log /\ Created(e, row).intfs = e.intfs
      /\ Created(e, row).members = FoundMembers(e.members)
      /\ Created(e, row).text = Describe(e) /\ Created(e, row).linked = links
  BY <1>5
<1>8. RuleFits(Created(e, row))
  BY <1>2, <1>4, <1>6, <1>7 DEF RuleFits
<1> QED
  BY <1>7, <1>8 DEF links

\* Lists set one by one: what changed is looked up, what did not stays.
LEMMA MergeRead ==
    ASSUME World, NEW new \in Members, NEW old, NEW now \in Members,
           \A s \in Sides : now[s] \subseteq objRow
    PROVE  /\ Merge(new, old, now) \in Members
           /\ \A s \in Sides : Merge(new, old, now)[s] \subseteq objRow
           /\ (\A s \in Sides : new[s] \subseteq objRow /\ now[s] = old[s] \cap objRow)
                 => Merge(new, old, now) = new
<1> DEFINE List(s, k) ==
              LET K == ObjectKinds[k] IN
              IF new[s] \cap K = old[s] \cap K THEN now[s] \cap K ELSE Found(new[s] \cap K)
<1>1. Merge(new, old, now) = [s \in Sides |-> UNION {List(s, k) : k \in DOMAIN ObjectKinds}]
  BY DEF Merge
<1>2. ASSUME NEW s \in Sides, NEW k \in DOMAIN ObjectKinds
      PROVE  /\ List(s, k) \subseteq objRow
             /\ new[s] \subseteq objRow /\ now[s] = old[s] \cap objRow => List(s, k) = new[s] \cap ObjectKinds[k]
  BY DEF Found
<1> HIDE DEF List
<1>3. objRow \subseteq Objects
  BY DEF World, RowsTyped
<1>4. \A s \in Sides : UNION {List(s, k) : k \in DOMAIN ObjectKinds} \subseteq objRow
  BY <1>2
<1>5. /\ Merge(new, old, now) \in Members
      /\ \A s \in Sides : Merge(new, old, now)[s] = UNION {List(s, k) : k \in DOMAIN ObjectKinds}
  <2>1. \A s \in Sides : UNION {List(s, k) : k \in DOMAIN ObjectKinds} \in SUBSET Objects
    BY <1>3, <1>4
  <2> QED
    BY <1>1, <2>1 DEF Members
<1>6. ASSUME \A s \in Sides : new[s] \subseteq objRow /\ now[s] = old[s] \cap objRow
      PROVE  Merge(new, old, now) = new
  <2>1. ASSUME NEW s \in Sides PROVE UNION {List(s, k) : k \in DOMAIN ObjectKinds} = new[s]
    <3>1. \A k \in DOMAIN ObjectKinds : List(s, k) = new[s] \cap ObjectKinds[k]
      BY <1>2, <1>6
    <3>2. \A o \in new[s] : \E k \in DOMAIN ObjectKinds : o \in ObjectKinds[k]
      BY <1>3, <1>6 DEF Objects
    <3> QED
      BY <3>1, <3>2
  <2>2. \A s \in Sides : Merge(new, old, now)[s] = new[s]
    BY <1>5, <2>1
  <2> QED
    BY <1>5, <2>2 DEF Members
<1> QED
  BY <1>4, <1>5, <1>6

\* The row that PullRuleUpdate writes.
Updated(j, r) ==
    LET e == src[j][r]
        was == dst[j][r]
        row == rule[r]
    IN  [row EXCEPT !.action = IF e.action = was.action THEN @ ELSE e.action,
                    !.log = IF e.log = was.log THEN @ ELSE e.log,
                    !.text = IF Redescribed(e, was) THEN Describe(e) ELSE @,
                    !.intfs = IF Redescribed(e, was) THEN e.intfs ELSE @,
                    !.members = Merge(e.members, was.members, @)]

LEMMA UpdatedRead ==
    ASSUME World, NEW j \in Jobs, NEW r \in Rules, rule[r] # Absent, src[j][r] \in LoadedRule,
           NEW e, e = src[j][r], NEW was, was = dst[j][r]
    PROVE  /\ RuleFits(Updated(j, r))
           /\ Updated(j, r).request = rule[r].request /\ Updated(j, r).linked = rule[r].linked
           /\ Updated(j, r).action = (IF e.action = was.action THEN rule[r].action ELSE e.action)
           /\ Updated(j, r).log = (IF e.log = was.log THEN rule[r].log ELSE e.log)
           /\ Updated(j, r).text = (IF Redescribed(e, was) THEN Describe(e) ELSE rule[r].text)
           /\ Updated(j, r).intfs = (IF Redescribed(e, was) THEN e.intfs ELSE rule[r].intfs)
           /\ Updated(j, r).members = Merge(e.members, was.members, rule[r].members)
<1>1. /\ rule[r] \in Rule /\ \A s \in Sides : rule[r].members[s] \subseteq objRow
      /\ \A c \in rule[r].linked : policy[c] # Absent
  BY DEF World, RowsTyped
<1>2. /\ rule[r].request \in PolicyNames /\ rule[r].action \in NautobotActions
      /\ rule[r].log \in BOOLEAN /\ rule[r].members \in Members /\ rule[r].text \in Seq(Pieces)
      /\ rule[r].intfs \in Interfaces \cup {AnyIntf, NoIntf} /\ rule[r].linked \subseteq Containers
      /\ rule[r] = [request |-> rule[r].request, action |-> rule[r].action, log |-> rule[r].log,
                    members |-> rule[r].members, text |-> rule[r].text, intfs |-> rule[r].intfs,
                    linked |-> rule[r].linked]
  BY <1>1 DEF Rule
<1>3. /\ e.action \in NautobotActions /\ e.log \in BOOLEAN /\ e.members \in Members
      /\ e.intfs \in Interfaces \cup {AnyIntf, NoIntf}
  BY DEF LoadedRule
<1>4. Describe(e) \in Seq(Pieces)
  BY StripDescribed
<1> DEFINE ms == Merge(e.members, was.members, rule[r].members)
<1>5. ms \in Members /\ \A s \in Sides : ms[s] \subseteq objRow
  BY <1>1, <1>2, <1>3, MergeRead
<1> HIDE DEF ms
<1> DEFINE text == IF Redescribed(e, was) THEN Describe(e) ELSE rule[r].text
           intfs == IF Redescribed(e, was) THEN e.intfs ELSE rule[r].intfs
           action == IF e.action = was.action THEN rule[r].action ELSE e.action
           log == IF e.log = was.log THEN rule[r].log ELSE e.log
<1>6. /\ text \in Seq(Pieces) /\ intfs \in Interfaces \cup {AnyIntf, NoIntf}
      /\ action \in NautobotActions /\ log \in BOOLEAN
  BY <1>2, <1>3, <1>4
<1>7. Updated(j, r) = [rule[r] EXCEPT !.action = action, !.log = log, !.text = text,
                                      !.intfs = intfs, !.members = ms]
  BY DEF Updated, ms
<1> HIDE DEF text, intfs, action, log
<1>8. Updated(j, r) = [request |-> rule[r].request, action |-> action, log |-> log,
                       members |-> ms, text |-> text, intfs |-> intfs, linked |-> rule[r].linked]
  BY <1>2, <1>7
<1>9. Updated(j, r) \in Rule
  BY <1>2, <1>5, <1>6, <1>8 DEF Rule
<1>10. /\ Updated(j, r).request = rule[r].request /\ Updated(j, r).linked = rule[r].linked
       /\ Updated(j, r).action = action /\ Updated(j, r).log = log /\ Updated(j, r).text = text
       /\ Updated(j, r).intfs = intfs /\ Updated(j, r).members = ms
  BY <1>8
<1>11. RuleFits(Updated(j, r))
  BY <1>1, <1>5, <1>9, <1>10 DEF RuleFits
<1> QED
  BY <1>10, <1>11 DEF text, intfs, action, log, ms

\* The rows that CutShort may leave.
Cut(j, r, set) ==
    [Created(src[j][r], rule[r]) EXCEPT
        !.members = [s \in Sides |-> IF s \in set THEN @[s]
                       ELSE IF rule[r] = Absent THEN {} ELSE rule[r].members[s]],
        !.linked = IF rule[r] = Absent THEN {} ELSE rule[r].linked]

LEMMA CutFits ==
    ASSUME World, NEW j \in Jobs, NEW r \in Rules, src[j][r] \in LoadedRule, NEW set
    PROVE  RuleFits(Cut(j, r, set))
<1>1. rule[r] = Absent \/ RuleFits(rule[r])
  BY DEF World, RowsTyped, RuleFits
<1> DEFINE made == Created(src[j][r], rule[r])
           ms == [s \in Sides |-> IF s \in set THEN made.members[s]
                    ELSE IF rule[r] = Absent THEN {} ELSE rule[r].members[s]]
           links == IF rule[r] = Absent THEN {} ELSE rule[r].linked
<1>2. RuleFits(made)
  BY <1>1, CreatedRead
<1>3. Cut(j, r, set) = [made EXCEPT !.members = ms, !.linked = links]
  BY DEF Cut
<1> HIDE DEF made
<1>4. /\ made.request \in PolicyNames /\ made.action \in NautobotActions
      /\ made.log \in BOOLEAN /\ made.members \in Members /\ made.text \in Seq(Pieces)
      /\ made.intfs \in Interfaces \cup {AnyIntf, NoIntf}
      /\ made = [request |-> made.request, action |-> made.action, log |-> made.log,
                 members |-> made.members, text |-> made.text, intfs |-> made.intfs,
                 linked |-> made.linked]
  BY <1>2 DEF Rule, RuleFits
<1>5. \A s \in Sides : ms[s] \subseteq objRow /\ ms[s] \in SUBSET Objects
  BY <1>1, <1>2, <1>4 DEF RuleFits, Rule, Members, World, RowsTyped
<1>6. ms \in Members
  BY <1>5 DEF Members
<1>7. links \subseteq Containers /\ \A c \in links : policy[c] # Absent
  BY <1>1 DEF RuleFits, Rule
<1> HIDE DEF ms, links
<1>8. Cut(j, r, set) =
         [request |-> made.request, action |-> made.action, log |-> made.log,
          members |-> ms, text |-> made.text, intfs |-> made.intfs, linked |-> links]
  BY <1>3, <1>4
<1>9. Cut(j, r, set) \in Rule
  BY <1>4, <1>6, <1>7, <1>8 DEF Rule
<1> QED
  BY <1>5, <1>7, <1>8, <1>9 DEF RuleFits

LEMMA UnlinkedFits ==
    ASSUME World, NEW r \in Rules, rule[r] # Absent, NEW links \in SUBSET rule[r].linked,
           NEW row, row = [rule[r] EXCEPT !.linked = links]
    PROVE  /\ RuleFits(row) /\ row.linked = links
           /\ row.request = rule[r].request /\ row.action = rule[r].action /\ row.log = rule[r].log
           /\ row.members = rule[r].members /\ row.text = rule[r].text /\ row.intfs = rule[r].intfs
<1>1. /\ rule[r] \in Rule /\ \A s \in Sides : rule[r].members[s] \subseteq objRow
      /\ \A c \in rule[r].linked : policy[c] # Absent
  BY DEF World, RowsTyped
<1>2. row \in Rule
  BY <1>1 DEF Rule
<1>3. /\ row.linked = links
      /\ row.request = rule[r].request /\ row.action = rule[r].action /\ row.log = rule[r].log
      /\ row.members = rule[r].members /\ row.text = rule[r].text /\ row.intfs = rule[r].intfs
  BY <1>1 DEF Rule
<1> QED
  BY <1>1, <1>2, <1>3 DEF RuleFits

\* An object's row goes: nothing else changes but the lists it was in.
LEMMA RemoveObjectRowTyped ==
    ASSUME World, NEW o \in Objects, RemoveObjectRow(o)
    PROVE  /\ World'
           /\ \A r \in Rules : rule[r] = Absent => rule'[r] = Absent
           /\ \A r \in Rules : rule[r] # Absent =>
                 /\ rule'[r] # Absent
                 /\ rule'[r].request = rule[r].request /\ rule'[r].action = rule[r].action
                 /\ rule'[r].log = rule[r].log /\ rule'[r].text = rule[r].text
                 /\ rule'[r].intfs = rule[r].intfs /\ rule'[r].linked = rule[r].linked
                 /\ rule'[r].members = [s \in Sides |-> rule[r].members[s] \ {o}]
<1> DEFINE Lists(r) == [s \in Sides |-> rule[r].members[s] \ {o}]
           Row(r) == IF rule[r] = Absent THEN Absent ELSE [rule[r] EXCEPT !.members = Lists(r)]
<1>1. /\ objRow' = objRow \ {o} /\ rule' = [r \in Rules |-> Row(r)]
      /\ UNCHANGED <<obj, pol, policy>>
  BY DEF RemoveObjectRow, deviceVars
<1>2. /\ rule \in [Rules -> Rule \cup {Absent}]
      /\ \A r \in Rules : rule[r] # Absent =>
            /\ rule[r] \in Rule /\ \A s \in Sides : rule[r].members[s] \subseteq objRow
            /\ \A c \in rule[r].linked : policy[c] # Absent
  BY DEF World, RowsTyped
<1>3. ASSUME NEW r \in Rules, rule[r] # Absent
      PROVE  /\ Lists(r) \in Members
             /\ \A s \in Sides : Lists(r)[s] \subseteq objRow'
  <2>1. \A s \in Sides : rule[r].members[s] \subseteq objRow /\ rule[r].members[s] \subseteq Objects
    BY <1>2, <1>3 DEF Rule, Members
  <2> QED
    BY <1>1, <2>1 DEF Members
<1> HIDE DEF Lists
<1>4. ASSUME NEW r \in Rules, rule[r] # Absent
      PROVE  /\ Row(r) \in Rule
             /\ Row(r).request = rule[r].request /\ Row(r).action = rule[r].action
             /\ Row(r).log = rule[r].log /\ Row(r).text = rule[r].text
             /\ Row(r).intfs = rule[r].intfs /\ Row(r).linked = rule[r].linked
             /\ Row(r).members = Lists(r)
  <2>1. rule[r] \in Rule /\ Lists(r) \in Members
    BY <1>2, <1>3, <1>4
  <2>2. Row(r) = [rule[r] EXCEPT !.members = Lists(r)]
    BY <1>4
  <2> QED
    BY <2>1, <2>2 DEF Rule
<1>5. \A r \in Rules : rule[r] = Absent => Row(r) = Absent
  OBVIOUS
<1> HIDE DEF Row
<1>6. \A r \in Rules : rule'[r] = Row(r)
  BY <1>1
<1>7. rule' \in [Rules -> Rule \cup {Absent}]
  BY <1>1, <1>4, <1>5
<1>8. RowsTyped(objRow', policy', rule')
  <2>1. ASSUME NEW r \in Rules, rule'[r] # Absent
        PROVE  /\ \A s \in Sides : rule'[r].members[s] \subseteq objRow'
               /\ \A c \in rule'[r].linked : policy'[c] # Absent
    BY <1>1, <1>2, <1>3, <1>4, <1>5, <1>6, <2>1
  <2> QED
    BY <1>1, <1>7, <2>1 DEF World, RowsTyped
<1>9. World'
  BY <1>1, <1>8 DEF World, DeviceTyped, RowsTyped
<1>10. \A r \in Rules : rule[r] # Absent => rule'[r] # Absent
  BY <1>4, <1>6, NothingAssumption
<1> QED
  BY <1>4, <1>5, <1>6, <1>9, <1>10 DEF Lists

LEMMA AddObjectRowTyped ==
    ASSUME World, NEW o \in Objects, objRow' = objRow \cup {o}, UNCHANGED <<deviceVars, policy, rule>>
    PROVE  World'
BY DEF World, DeviceTyped, RowsTyped, deviceVars

LEMMA PutPolicyRowTyped ==
    ASSUME World, NEW c \in Containers, NEW d \in {Generated, Retyped}, PutPolicyRow(c, d)
    PROVE  World' /\ \A b \in Containers : policy'[b] = IF b = c THEN d ELSE policy[b]
<1>1. /\ policy' = [policy EXCEPT ![c] = d] /\ policy \in [Containers -> {Generated, Retyped, Absent}]
      /\ UNCHANGED <<obj, pol, objRow, rule>>
  BY DEF PutPolicyRow, deviceVars, World, RowsTyped
<1>2. \A b \in Containers : policy'[b] = IF b = c THEN d ELSE policy[b]
  BY <1>1
<1>3. policy' \in [Containers -> {Generated, Retyped, Absent}]
  BY <1>1
<1>4. ASSUME NEW r \in Rules, rule'[r] # Absent
      PROVE  /\ \A s \in Sides : rule'[r].members[s] \subseteq objRow'
             /\ \A b \in rule'[r].linked : policy'[b] # Absent
  <2>1. /\ rule[r] \in Rule /\ \A s \in Sides : rule[r].members[s] \subseteq objRow
        /\ \A b \in rule[r].linked : b \in Containers /\ policy[b] # Absent
    BY <1>1, <1>4 DEF World, RowsTyped, Rule
  <2> QED
    BY <1>1, <1>2, <2>1, NothingAssumption
<1>5. RowsTyped(objRow', policy', rule')
  BY <1>1, <1>3, <1>4 DEF World, RowsTyped
<1> QED
  BY <1>1, <1>2, <1>5 DEF World, DeviceTyped, RowsTyped

LEMMA RemovePolicyRowTyped ==
    ASSUME World, NEW c \in Containers, RemovePolicyRow(c)
    PROVE  /\ World'
           /\ \A b \in Containers : policy'[b] = IF b = c THEN Absent ELSE policy[b]
           /\ \A r \in Rules : rule[r] = Absent => rule'[r] = Absent
           /\ \A r \in Rules : rule[r] # Absent =>
                 /\ rule'[r] # Absent
                 /\ rule'[r].request = rule[r].request /\ rule'[r].action = rule[r].action
                 /\ rule'[r].log = rule[r].log /\ rule'[r].text = rule[r].text
                 /\ rule'[r].intfs = rule[r].intfs /\ rule'[r].members = rule[r].members
                 /\ rule'[r].linked = rule[r].linked \ {c}
<1> DEFINE Row(r) == IF rule[r] = Absent THEN Absent ELSE [rule[r] EXCEPT !.linked = @ \ {c}]
<1>1. /\ policy' = [policy EXCEPT ![c] = Absent] /\ rule' = [r \in Rules |-> Row(r)]
      /\ policy \in [Containers -> {Generated, Retyped, Absent}]
      /\ UNCHANGED <<obj, pol, objRow>>
  BY DEF RemovePolicyRow, deviceVars, World, RowsTyped
<1>2. /\ \A b \in Containers : policy'[b] = IF b = c THEN Absent ELSE policy[b]
      /\ policy' \in [Containers -> {Generated, Retyped, Absent}]
  BY <1>1
<1>3. ASSUME NEW r \in Rules, rule[r] # Absent
      PROVE  /\ RuleFits(Row(r)) /\ Row(r).linked = rule[r].linked \ {c}
             /\ Row(r).request = rule[r].request /\ Row(r).action = rule[r].action
             /\ Row(r).log = rule[r].log /\ Row(r).members = rule[r].members
             /\ Row(r).text = rule[r].text /\ Row(r).intfs = rule[r].intfs
  <2>1. Row(r) = [rule[r] EXCEPT !.linked = rule[r].linked \ {c}]
    BY <1>3 DEF World, RowsTyped, Rule
  <2>2. rule[r].linked \ {c} \in SUBSET rule[r].linked
    OBVIOUS
  <2> HIDE DEF Row
  <2> QED
    BY <1>3, <2>1, <2>2, UnlinkedFits
<1>4. \A r \in Rules : rule[r] = Absent => Row(r) = Absent
  OBVIOUS
<1> HIDE DEF Row
<1>5. \A r \in Rules : rule'[r] = Row(r)
  BY <1>1
<1>6. rule' \in [Rules -> Rule \cup {Absent}]
  BY <1>1, <1>3, <1>4 DEF RuleFits
<1>7. \A r \in Rules : rule[r] # Absent => rule'[r] # Absent
  BY <1>3, <1>5, NothingAssumption DEF RuleFits
<1>8. RowsTyped(objRow', policy', rule')
  <2>1. ASSUME NEW r \in Rules, rule'[r] # Absent
        PROVE  /\ \A s \in Sides : rule'[r].members[s] \subseteq objRow'
               /\ \A b \in rule'[r].linked : policy'[b] # Absent
    <3>1. rule[r] # Absent
      BY <1>4, <1>5, <2>1
    <3>2. RuleFits(rule'[r]) /\ rule'[r].linked = rule[r].linked \ {c}
      BY <1>3, <1>5, <3>1
    <3> QED
      BY <1>1, <1>2, <3>2 DEF RuleFits, Rule
  <2> QED
    BY <1>1, <1>2, <1>6, <2>1 DEF World, RowsTyped
<1>9. World'
  BY <1>1, <1>8 DEF World, DeviceTyped, RowsTyped
<1> QED
  BY <1>2, <1>3, <1>4, <1>5, <1>7, <1>9

\* A policy that names only what is there.
PolicyFits(p) == p \in Policy /\ NamesExist(p.members)

LEMMA PutPolicyTyped ==
    ASSUME World, NEW id \in Ids, NEW p, p = Absent \/ PolicyFits(p), PutPolicy(id, p)
    PROVE  World' /\ \A i \in Ids : pol'[i] = IF i = id THEN p ELSE pol[i]
<1>1. /\ pol' = [pol EXCEPT ![id] = p] /\ pol \in [Ids -> Policy \cup {Absent}]
      /\ UNCHANGED <<obj, objRow, policy, rule>>
  BY DEF PutPolicy, rowVars, World, DeviceTyped
<1>2. \A i \in Ids : pol'[i] = IF i = id THEN p ELSE pol[i]
  BY <1>1
<1>3. pol' \in [Ids -> Policy \cup {Absent}]
  BY <1>1 DEF PolicyFits
<1>4. ASSUME NEW i \in Ids, pol'[i] # Absent
      PROVE  \A s \in Sides : \A o \in pol'[i].members[s] : obj'[o] # Absent
  BY <1>1, <1>2, <1>4 DEF PolicyFits, NamesExist, World, DeviceTyped
<1>5. DeviceTyped(obj', pol')
  BY <1>1, <1>3, <1>4 DEF World, DeviceTyped
<1> QED
  BY <1>1, <1>2, <1>5 DEF World, DeviceTyped, RowsTyped

LEMMA PutObjectTyped ==
    ASSUME World, NEW o \in Objects, NEW v \in {"readable", "unreadable", Absent},
           v = Absent => ~InUse(o), PutObject(o, v)
    PROVE  World' /\ \A q \in Objects : obj'[q] = IF q = o THEN v ELSE obj[q]
<1>1. /\ obj' = [obj EXCEPT ![o] = v] /\ obj \in [Objects -> {"readable", "unreadable", Absent}]
      /\ UNCHANGED <<pol, objRow, policy, rule>>
  BY DEF PutObject, rowVars, World, DeviceTyped
<1>2. \A q \in Objects : obj'[q] = IF q = o THEN v ELSE obj[q]
  BY <1>1
<1>3. ASSUME NEW i \in Ids, pol'[i] # Absent, NEW s \in Sides, NEW q \in pol'[i].members[s]
      PROVE  obj'[q] # Absent
  <2>1. q \in Objects /\ obj[q] # Absent
    BY <1>1, <1>3 DEF World, DeviceTyped, Policy, Members
  <2> QED
    BY <1>1, <1>2, <1>3, <2>1, NothingAssumption DEF InUse
<1>4. DeviceTyped(obj', pol')
  BY <1>1, <1>3 DEF World, DeviceTyped
<1> QED
  BY <1>1, <1>2, <1>4 DEF World, DeviceTyped, RowsTyped

----------------------------------------------------------------------------
(* Type correctness of the job's steps.                                    *)

CourseOf(k) ==
    /\ PlanFollowsDiff(k) /\ SourceIsCurrent(k) /\ TargetIsCurrent(k)
    /\ PullIsOnCourse(k) /\ PushIsOnCourse(k)

LEMMA TypedWorld == TypeOK => World
BY DEF TypeOK, World

LEMMA StartTyped ==
    ASSUME TypeOK, NEW j \in Jobs, Start(j)
    PROVE  TypeOK'
<1>1. World'
  BY SameWorldTyped, TypedWorld DEF Start
<1>2. /\ phase' \in [Jobs -> Idle \cup Running] /\ req' \in [Jobs -> Requests]
      /\ src' = [i \in Jobs |-> src'[i]] /\ dst' = [i \in Jobs |-> dst'[i]]
      /\ todo' \in [Jobs -> [write : SUBSET Elements, delete : SUBSET Elements]]
      /\ touched' \subseteq Jobs
  BY DEF TypeOK, Start, Advance, NoWork, Running
<1>3. \A i \in Jobs : Loaded(src'[i]) /\ Loaded(dst'[i])
  BY EmptyLoaded DEF TypeOK, Start
<1>4. edits' \in 0..MaxEdits /\ runs' \in 0..MaxRuns
  BY ConstantsAssumption DEF TypeOK, Start
<1> QED
  BY <1>1, <1>2, <1>3, <1>4 DEF TypeOK, World

LEMMA RestTyped ==
    ASSUME TypeOK, NEW j \in Jobs, Finish(j) \/ Crash(j) \/ Raised(j)
    PROVE  TypeOK'
<1>1. World'
  BY TypedWorld, SameWorldTyped DEF Finish, Crash, Raised
<1>2. phase' \in [Jobs -> Idle \cup Running]
  BY DEF TypeOK, Finish, Crash, Raised, Advance, Idle
<1> QED
  BY <1>1, <1>2 DEF TypeOK, Finish, Crash, Raised, World

LEMMA LoadTyped ==
    ASSUME TypeOK, NEW j \in Jobs, Load(j), ~Raised(j)
    PROVE  TypeOK'
<1>1. World'
  BY TypedWorld, SameWorldTyped
     DEF Load, LoadSourceObjects, LoadSourcePolicies, LoadTargetObjects, LoadTargetPolicies
<1>2. /\ phase' \in [Jobs -> Idle \cup Running] /\ req' \in [Jobs -> Requests]
      /\ src' = [i \in Jobs |-> src'[i]] /\ dst' = [i \in Jobs |-> dst'[i]]
      /\ todo' \in [Jobs -> [write : SUBSET Elements, delete : SUBSET Elements]]
      /\ touched' \subseteq Jobs /\ edits' \in 0..MaxEdits /\ runs' \in 0..MaxRuns
  BY DEF TypeOK, Load, LoadSourceObjects, LoadSourcePolicies, LoadTargetObjects,
         LoadTargetPolicies, Advance, Running
<1>3. \A i \in Jobs : Loaded(src'[i]) /\ Loaded(dst'[i])
  <2>1. \A i \in Jobs : Loaded(src[i]) /\ Loaded(dst[i])
    BY DEF TypeOK
  <2>3. SourceKind(j) \in {"device", "rows"} /\ TargetKind(j) \in {"device", "rows"}
    BY DEF SourceKind, TargetKind
  <2>4. World
    BY TypedWorld
  <2>5. \A kind \in {"device", "rows"} :
           /\ Loaded(With(src[j], LoadedObjects(kind))) /\ Loaded(With(dst[j], LoadedObjects(kind)))
           /\ Loaded(With(src[j], LoadedPolicies(kind, src[j])))
           /\ Loaded(With(dst[j], LoadedPolicies(kind, dst[j])))
    BY <2>1, <2>4, WithObjectsTyped, WithPoliciesTyped
  <2>6. CASE LoadSourceObjects(j)
    BY <2>1, <2>3, <2>5, <2>6 DEF TypeOK, LoadSourceObjects
  <2>7. CASE LoadSourcePolicies(j)
    BY <2>1, <2>3, <2>5, <2>7 DEF TypeOK, LoadSourcePolicies
  <2>8. CASE LoadTargetObjects(j)
    BY <2>1, <2>3, <2>5, <2>8 DEF TypeOK, LoadTargetObjects
  <2>9. CASE LoadTargetPolicies(j)
    BY <2>1, <2>3, <2>5, <2>9 DEF TypeOK, LoadTargetPolicies
  <2> QED
    BY <2>6, <2>7, <2>8, <2>9 DEF Load
<1> QED
  BY <1>1, <1>2, <1>3 DEF TypeOK, World

LEMMA ExecuteSyncTyped ==
    ASSUME TypeOK, NEW j \in Jobs, ExecuteSync(j)
    PROVE  TypeOK'
<1>1. World'
  BY TypedWorld, SameWorldTyped DEF ExecuteSync
<1>2. /\ phase' \in [Jobs -> Idle \cup Running]
      /\ todo' \in [Jobs -> [write : SUBSET Elements, delete : SUBSET Elements]]
  BY DEF TypeOK, ExecuteSync, Advance, Running, Writes, Deletes
<1> QED
  BY <1>1, <1>2 DEF TypeOK, ExecuteSync, World

LEMMA AppliedTyped ==
    ASSUME TypeOK, NEW j \in Jobs, NEW e, Applied(j, e), World'
    PROVE  TypeOK'
<1>1. todo' \in [Jobs -> [write : SUBSET Elements, delete : SUBSET Elements]] /\ touched' \subseteq Jobs
  BY DEF TypeOK, Applied
<1> QED
  BY <1>1 DEF TypeOK, Applied, World

LEMMA CutShortTyped ==
    ASSUME TypeOK, NEW j \in Jobs, NEW r \in Rules, CutShort(j, r), World'
    PROVE  TypeOK'
<1>1. touched' \subseteq Jobs /\ phase' \in [Jobs -> Idle \cup Running]
  BY DEF TypeOK, CutShort, Advance, Idle
<1>2. UNCHANGED <<req, src, dst, todo, edits, runs>>
  BY DEF CutShort
<1> QED
  BY <1>1, <1>2 DEF TypeOK, World

\* What the plan of a job names, it has to say something about.
LEMMA Planned ==
    ASSUME SyncInvariant, NEW j \in Jobs, phase[j] = "syncing"
    PROVE  /\ \A e \in todo[j].write :
                 e \in Elements /\ src[j][e] # Absent /\ src[j][e] # dst[j][e] /\ e \notin todo[j].delete
           /\ \A e \in todo[j].delete :
                 e \in Elements /\ src[j][e] = Absent /\ dst[j][e] # Absent /\ req[j].delete
           /\ \A o \in Objects : o \in todo[j].write => src[j][o] = "loaded" /\ dst[j][o] = Absent
           /\ \A c \in Containers : c \in todo[j].write => src[j][c] \in {Generated, Retyped}
           /\ \A r \in Rules : r \in todo[j].write => src[j][r] \in LoadedRule
           /\ \A r \in Rules : dst[j][r] # Absent => dst[j][r] \in LoadedRule
           /\ Pending(j) \subseteq Differs(j)
<1>1. /\ todo[j].write \subseteq Writes(src[j], dst[j])
      /\ todo[j].delete \subseteq Deletes(src[j], dst[j])
      /\ ~req[j].delete => todo[j].delete = {}
  BY DEF SyncInvariant, PlanFollowsDiff, Applying
<1>2. Loaded(src[j]) /\ Loaded(dst[j])
  BY DEF SyncInvariant, TypeOK
<1>3. Pending(j) \subseteq Differs(j)
  BY <1>1 DEF Pending, Differs
<1> QED
  BY <1>1, <1>2, <1>3 DEF Writes, Deletes, Loaded

----------------------------------------------------------------------------
(* A call takes an element off the plan, or raises, or is cut short.       *)

CallOn(j, e) ==
    /\ phase[j] = "syncing" /\ e \in Pending(j)
    /\ \A f \in Pending(j) : KindOf(e) <= KindOf(f)

LEMMA TurnIs ==
    ASSUME NEW j \in Jobs, NEW kind, NEW e,
           Turn(j, kind, "write", e) \/ Turn(j, kind, "delete", e)
    PROVE  CallOn(j, e) /\ req[j].kind = kind
BY DEF Turn, CallOn, Pending

LEMMA PullCalls ==
    ASSUME NEW j \in Jobs, Pull(j)
    PROVE  /\ phase[j] = "syncing" /\ req[j].kind = "pull" /\ UNCHANGED deviceVars
           /\ \/ Raised(j) \/ \E e \in Elements : CallOn(j, e) /\ Applied(j, e)
              \/ \E r \in Rules : CutShort(j, r)
<1> DEFINE Called(e) ==
              /\ CallOn(j, e) /\ req[j].kind = "pull" /\ UNCHANGED deviceVars
              /\ Raised(j) \/ Applied(j, e) \/ (e \in Rules /\ CutShort(j, e))
<1>1. ASSUME NEW o \in Objects, PullObjectCreate(j, o) \/ PullObjectDelete(j, o) PROVE Called(o)
  <2>1. CallOn(j, o) /\ req[j].kind = "pull"
    BY <1>1, TurnIs DEF PullObjectCreate, PullObjectDelete
  <2>2. UNCHANGED deviceVars /\ (Raised(j) \/ Applied(j, o))
    BY <1>1 DEF PullObjectCreate, PullObjectDelete, RemoveObjectRow, Raised, worldVars
  <2> QED
    BY <2>1, <2>2
<1>2. ASSUME NEW c \in Containers,
             PullPolicyCreate(j, c) \/ PullPolicyUpdate(j, c) \/ PullPolicyDelete(j, c)
      PROVE  Called(c)
  <2>1. CallOn(j, c) /\ req[j].kind = "pull"
    BY <1>2, TurnIs DEF PullPolicyCreate, PullPolicyUpdate, PullPolicyDelete
  <2>2. UNCHANGED deviceVars /\ (Raised(j) \/ Applied(j, c))
    BY <1>2 DEF PullPolicyCreate, PullPolicyUpdate, PullPolicyDelete, PutPolicyRow,
                RemovePolicyRow, worldVars
  <2> QED
    BY <2>1, <2>2
<1>3. ASSUME NEW r \in Rules, PullRuleCreate(j, r) \/ PullRuleUpdate(j, r) \/ PullRuleDelete(j, r)
      PROVE  Called(r)
  <2>1. CallOn(j, r) /\ req[j].kind = "pull"
    BY <1>3, TurnIs DEF PullRuleCreate, PullRuleUpdate, PullRuleDelete
  <2>2. UNCHANGED deviceVars /\ (Raised(j) \/ Applied(j, r))
    BY <1>3 DEF PullRuleCreate, PullRuleUpdate, PullRuleDelete, PutRule, worldVars
  <2> QED
    BY <2>1, <2>2
<1>4. ASSUME NEW r \in Rules, CutShort(j, r) PROVE Called(r)
  <2>1. CallOn(j, r) /\ req[j].kind = "pull"
    BY <1>4, TurnIs DEF CutShort
  <2>2. UNCHANGED deviceVars
    BY <1>4 DEF CutShort, PutRule
  <2> QED
    BY <1>4, <2>1, <2>2
<1>5. \E e \in Elements : Called(e)
  BY <1>1, <1>2, <1>3, <1>4 DEF Pull, Elements
<1> QED
  BY <1>5 DEF CallOn

LEMMA PushCalls ==
    ASSUME NEW j \in Jobs, Push(j)
    PROVE  /\ phase[j] = "syncing" /\ req[j].kind = "push" /\ UNCHANGED rowVars
           /\ Raised(j) \/ \E e \in Elements : CallOn(j, e) /\ Applied(j, e)
<1> DEFINE Called(e) ==
              /\ CallOn(j, e) /\ req[j].kind = "push" /\ UNCHANGED rowVars
              /\ Raised(j) \/ Applied(j, e)
<1>1. ASSUME NEW o \in Objects, PushObjectCreate(j, o) \/ PushObjectDelete(j, o) PROVE Called(o)
  BY <1>1, TurnIs DEF PushObjectCreate, PushObjectDelete, Call, PutObject, Raised, worldVars
<1>2. ASSUME NEW c \in Containers, PushPolicy(j, c) PROVE Called(c)
  BY <1>2, TurnIs DEF PushPolicy, worldVars
<1>3. ASSUME NEW r \in Rules, PushRuleCreate(j, r) PROVE Called(r)
  BY <1>3, TurnIs DEF PushRuleCreate, Call, PutPolicy, Raised, worldVars
<1>4. ASSUME NEW r \in Rules, PushRuleUpdate(j, r) PROVE Called(r)
  BY <1>4, TurnIs DEF PushRuleUpdate, Call, PutPolicy, Raised, worldVars
<1>5. ASSUME NEW r \in Rules, PushRuleDelete(j, r) PROVE Called(r)
  BY <1>5, TurnIs DEF PushRuleDelete, Call, PutPolicy, Raised, worldVars
<1>6. \E e \in Elements : Called(e)
  BY <1>1, <1>2, <1>3, <1>4, <1>5 DEF Push, Elements
<1> QED
  BY <1>6 DEF CallOn

----------------------------------------------------------------------------
(* Type correctness of what the calls write.                               *)

LEMMA PulledIsTyped ==
    ASSUME SyncInvariant, NEW j \in Jobs, Pull(j), ~Raised(j)
    PROVE  World'
<1>0. phase[j] = "syncing" /\ World
  BY PullCalls, TypedWorld DEF SyncInvariant
<1>1. ASSUME NEW o \in Objects, PullObjectCreate(j, o) PROVE World'
  BY <1>0, <1>1, AddObjectRowTyped DEF PullObjectCreate
<1>2. ASSUME NEW o \in Objects, PullObjectDelete(j, o) PROVE World'
  BY <1>0, <1>2, RemoveObjectRowTyped DEF PullObjectDelete
<1>3. ASSUME NEW c \in Containers, PullPolicyCreate(j, c) \/ PullPolicyUpdate(j, c) PROVE World'
  <2>1. src[j][c] \in {Generated, Retyped}
    BY <1>0, <1>3, Planned DEF PullPolicyCreate, PullPolicyUpdate, Turn
  <2> QED
    BY <1>0, <1>3, <2>1, PutPolicyRowTyped, SameWorldTyped DEF PullPolicyCreate, PullPolicyUpdate
<1>4. ASSUME NEW c \in Containers, PullPolicyDelete(j, c) PROVE World'
  BY <1>0, <1>4, RemovePolicyRowTyped DEF PullPolicyDelete
<1>5. ASSUME NEW r \in Rules, PullRuleCreate(j, r) PROVE World'
  <2>1. src[j][r] \in LoadedRule
    BY <1>0, <1>5, Planned DEF PullRuleCreate, Turn
  <2>2. rule[r] = Absent \/ RuleFits(rule[r])
    BY <1>0 DEF World, RowsTyped, RuleFits
  <2>3. RuleFits(Created(src[j][r], rule[r]))
    BY <1>0, <2>1, <2>2, CreatedRead
  <2> QED
    BY <1>0, <1>5, <2>3, PutRuleTyped DEF PullRuleCreate
<1>6. ASSUME NEW r \in Rules, PullRuleUpdate(j, r) PROVE World'
  <2>1. src[j][r] \in LoadedRule
    BY <1>0, <1>6, Planned DEF PullRuleUpdate, Turn
  <2>2. UNCHANGED worldVars \/ (rule[r] # Absent /\ PutRule(r, Updated(j, r)))
    BY <1>6 DEF PullRuleUpdate, Updated
  <2>3. rule[r] # Absent => RuleFits(Updated(j, r))
    BY <1>0, <2>1, UpdatedRead
  <2> QED
    BY <1>0, <2>2, <2>3, PutRuleTyped, SameWorldTyped
<1>7. ASSUME NEW r \in Rules, PullRuleDelete(j, r) PROVE World'
  BY <1>0, <1>7, PutRuleTyped DEF PullRuleDelete
<1>8. ASSUME NEW r \in Rules, CutShort(j, r) PROVE World'
  <2>1. CASE Turn(j, "pull", "write", r) /\ \E set \in SUBSET Sides : PutRule(r, Cut(j, r, set))
    <3>1. src[j][r] \in LoadedRule
      BY <1>0, <2>1, Planned DEF Turn
    <3> QED
      BY <1>0, <2>1, <3>1, CutFits, PutRuleTyped
  <2>2. CASE rule[r] # Absent /\ PutRule(r, [rule[r] EXCEPT !.linked = {}])
    <3>1. {} \in SUBSET rule[r].linked
      OBVIOUS
    <3>2. RuleFits([rule[r] EXCEPT !.linked = {}])
      BY <1>0, <2>2, <3>1, UnlinkedFits
    <3> QED
      BY <1>0, <2>2, <3>2, PutRuleTyped
  <2> QED
    BY <1>8, <2>1, <2>2 DEF CutShort, Cut
<1> QED
  BY <1>1, <1>2, <1>3, <1>4, <1>5, <1>6, <1>7, <1>8 DEF Pull

LEMMA ActionsTranslated ==
    /\ \A a : ActionToFortios(a) \in {"accept", "deny"}
    /\ \A a : FortiosAction(ActionToFortios(a)) = IF a = "allow" THEN "allow" ELSE "deny"
BY DEF ActionToFortios, FortiosAction

LEMMA PostedRead ==
    ASSUME World, NEW e \in LoadedRule
    PROVE  /\ Posted(e) \in Policy
           /\ Posted(e).action = ActionToFortios(e.action) /\ Posted(e).log = e.log
           /\ Posted(e).members = e.members
           /\ NamesExist(e.members) => PolicyFits(Posted(e))
<1>1. /\ e.name \in PolicyNames /\ e.log \in BOOLEAN /\ e.members \in Members
      /\ e.text \in Seq(Pieces) /\ e.intfs \in Interfaces \cup {AnyIntf, NoIntf}
  BY DEF LoadedRule
<1> DEFINE intfs == IF e.intfs = NoIntf THEN AnyIntf ELSE e.intfs
<1>2. intfs \in Interfaces \cup {AnyIntf}
  BY <1>1
<1>3. Posted(e) = [name |-> e.name, action |-> ActionToFortios(e.action), log |-> e.log,
                   members |-> e.members, intfs |-> intfs, comment |-> e.text]
  BY DEF Posted
<1> HIDE DEF intfs
<1>4. Posted(e) \in Policy
  BY <1>1, <1>2, <1>3, ActionsTranslated DEF Policy
<1> QED
  BY <1>3, <1>4 DEF PolicyFits

\* What a PUT leaves of a policy.
Changed(e, was) == [s \in Sides |-> IF e.members[s] = was.members[s] THEN {} ELSE e.members[s]]

LEMMA PutRead ==
    ASSUME World, NEW id \in Ids, NEW p \in Policy, p = pol[id], pol[id] # Absent,
           NEW e \in LoadedRule, NEW was
    PROVE  /\ Put(e, was, p) \in Policy
           /\ NamesExist(Changed(e, was)) => PolicyFits(Put(e, was, p))
           /\ Put(e, was, p).name = p.name /\ Put(e, was, p).intfs = p.intfs
           /\ Put(e, was, p).comment = p.comment
           /\ Put(e, was, p).action = IF e.action = was.action THEN p.action ELSE ActionToFortios(e.action)
           /\ Put(e, was, p).log = IF e.log = was.log THEN p.log ELSE e.log
           /\ \A s \in Sides : Put(e, was, p).members[s] =
                 IF e.members[s] = was.members[s] THEN p.members[s] ELSE e.members[s]
<1>1. e.log \in BOOLEAN /\ e.members \in Members
  BY DEF LoadedRule
<1>2. /\ p.name \in PolicyNames /\ p.action \in {"accept", "deny", "ipsec", "other"}
      /\ p.log \in BOOLEAN /\ p.members \in Members /\ p.intfs \in Interfaces \cup {AnyIntf}
      /\ p.comment \in Seq(Pieces)
      /\ p = [name |-> p.name, action |-> p.action, log |-> p.log, members |-> p.members,
              intfs |-> p.intfs, comment |-> p.comment]
  BY DEF Policy
<1> DEFINE action == IF e.action = was.action THEN p.action ELSE ActionToFortios(e.action)
           log == IF e.log = was.log THEN p.log ELSE e.log
           ms == [s \in Sides |-> IF e.members[s] = was.members[s] THEN p.members[s] ELSE e.members[s]]
<1>3. action \in {"accept", "deny", "ipsec", "other"} /\ log \in BOOLEAN
  BY <1>1, <1>2, ActionsTranslated
<1>4. /\ ms \in Members
      /\ \A s \in Sides : ms[s] = IF e.members[s] = was.members[s] THEN p.members[s] ELSE e.members[s]
  BY <1>1, <1>2 DEF Members
<1>5. Put(e, was, p) = [p EXCEPT !.action = action, !.log = log, !.members = ms]
  BY <1>2 DEF Put
<1> HIDE DEF action, log, ms
<1>6. Put(e, was, p) = [name |-> p.name, action |-> action, log |-> log, members |-> ms,
                        intfs |-> p.intfs, comment |-> p.comment]
  BY <1>2, <1>5
<1>7. Put(e, was, p) \in Policy
  BY <1>2, <1>3, <1>4, <1>6 DEF Policy
<1>8. ASSUME NamesExist(Changed(e, was)) PROVE NamesExist(ms)
  <2> SUFFICES ASSUME NEW s \in Sides, NEW o \in ms[s] PROVE obj[o] # Absent
    BY DEF NamesExist
  <2>1. \A q \in p.members[s] : obj[q] # Absent
    BY DEF World, DeviceTyped
  <2>2. e.members[s] # was.members[s] => \A q \in e.members[s] : obj[q] # Absent
    BY <1>8 DEF NamesExist, Changed
  <2> QED
    BY <1>4, <2>1, <2>2
<1>9. /\ Put(e, was, p).name = p.name /\ Put(e, was, p).intfs = p.intfs
      /\ Put(e, was, p).comment = p.comment /\ Put(e, was, p).action = action
      /\ Put(e, was, p).log = log /\ Put(e, was, p).members = ms
  BY <1>6
<1>10. NamesExist(Changed(e, was)) => PolicyFits(Put(e, was, p))
  BY <1>7, <1>8, <1>9 DEF PolicyFits
<1> QED
  BY <1>4, <1>7, <1>9, <1>10 DEF action, log

\* A rule of another name than rule_<id> is no policy of the device.
LEMMA PutElsewhere ==
    ASSUME World, NEW r \in Rules, r \notin Ids, NEW p, PutPolicy(r, p)
    PROVE  UNCHANGED worldVars
<1>1. pol \in [Ids -> Policy \cup {Absent}] /\ pol' = [pol EXCEPT ![r] = p]
  BY DEF World, DeviceTyped, PutPolicy
<1>2. pol' = pol
  BY <1>1
<1> QED
  BY <1>2 DEF PutPolicy, worldVars, deviceVars, rowVars

LEMMA PushedIsTyped ==
    ASSUME SyncInvariant, NEW j \in Jobs, Push(j), ~Raised(j)
    PROVE  World'
<1>0. phase[j] = "syncing" /\ World
  BY PushCalls, TypedWorld DEF SyncInvariant
<1>1. ASSUME NEW o \in Objects, PushObjectCreate(j, o) PROVE World'
  BY <1>0, <1>1, PutObjectTyped, NothingAssumption DEF PushObjectCreate, Call
<1>2. ASSUME NEW o \in Objects, PushObjectDelete(j, o) PROVE World'
  BY <1>0, <1>2, PutObjectTyped DEF PushObjectDelete, Call
<1>3. ASSUME NEW c \in Containers, PushPolicy(j, c) PROVE World'
  BY <1>0, <1>3, SameWorldTyped DEF PushPolicy
<1>4. ASSUME NEW r \in Rules, PushRuleCreate(j, r) PROVE World'
  <2>1. src[j][r] \in LoadedRule
    BY <1>0, <1>4, Planned DEF PushRuleCreate, Turn
  <2>2. \/ UNCHANGED worldVars
        \/ r \in Ids /\ NamesExist(src[j][r].members) /\ PutPolicy(r, Posted(src[j][r]))
    BY <1>4 DEF PushRuleCreate, Call
  <2> QED
    BY <1>0, <2>1, <2>2, PostedRead, PutPolicyTyped, SameWorldTyped
<1>5. ASSUME NEW r \in Rules, PushRuleUpdate(j, r) PROVE World'
  <2>1. src[j][r] \in LoadedRule
    BY <1>0, <1>5, Planned DEF PushRuleUpdate, Turn
  <2>2. \/ UNCHANGED worldVars
        \/ /\ pol[r] # Absent /\ NamesExist(Changed(src[j][r], dst[j][r]))
           /\ PutPolicy(r, Put(src[j][r], dst[j][r], pol[r]))
    BY <1>5 DEF PushRuleUpdate, Call, Changed
  <2>3. ASSUME r \in Ids, pol[r] # Absent, NamesExist(Changed(src[j][r], dst[j][r]))
        PROVE  PolicyFits(Put(src[j][r], dst[j][r], pol[r]))
    <3>1. pol[r] \in Policy
      BY <1>0, <2>3 DEF World, DeviceTyped
    <3> QED
      BY <1>0, <2>1, <2>3, <3>1, PutRead
  <2>4. CASE r \in Ids
    BY <1>0, <2>2, <2>3, <2>4, PutPolicyTyped, SameWorldTyped
  <2>5. CASE r \notin Ids
    BY <1>0, <2>2, <2>5, PutElsewhere, SameWorldTyped
  <2> QED
    BY <2>4, <2>5
<1>6. ASSUME NEW r \in Rules, PushRuleDelete(j, r) PROVE World'
  <2>1. PutPolicy(r, Absent)
    BY <1>6 DEF PushRuleDelete, Call
  <2> QED
    BY <1>0, <2>1, PutPolicyTyped, PutElsewhere, SameWorldTyped
<1> QED
  BY <1>1, <1>2, <1>3, <1>4, <1>5, <1>6 DEF Push

----------------------------------------------------------------------------
(* Operators, and every step.                                              *)

LEMMA OperatorsTyped ==
    ASSUME TypeOK, Operators
    PROVE  TypeOK' /\ Edited
<1>0. World
  BY TypedWorld
<1>1. ASSUME NEW e \in DeviceEdits, e.key \in Ids, DevicePolicyEdit(e.key, e.record)
      PROVE  World' /\ Edited
  <2>1. e.record = Absent \/ PolicyFits(e.record)
    BY <1>1, WorldsAssumption DEF DevicePolicyEdit, PolicyFits
  <2> QED
    BY <1>0, <1>1, <2>1, PutPolicyTyped DEF DevicePolicyEdit
<1>2. ASSUME NEW e \in DeviceEdits, e.key \in Objects, DeviceObjectEdit(e.key, e.record)
      PROVE  World' /\ Edited
  <2>1. e.record \in {"readable", "unreadable", Absent}
    BY <1>2, WorldsAssumption
  <2> QED
    BY <1>0, <1>2, <2>1, PutObjectTyped DEF DeviceObjectEdit
<1>3. ASSUME NEW e \in RowEdits, e.key \in Rules, RuleEdit(e.key, e.record)
      PROVE  World' /\ Edited
  <2>1. ASSUME e.record # Absent PROVE RuleFits(e.record)
    <3>1. e.record \in Rule /\ e.record.members \in Members
      BY <1>3, <2>1, WorldsAssumption DEF Rule
    <3>2. /\ e.record.members = FoundMembers(e.record.members)
          /\ \A c \in e.record.linked : policy[c] # Absent
      BY <1>3, <2>1 DEF RuleEdit
    <3>3. \A s \in Sides : FoundMembers(e.record.members)[s] = e.record.members[s] \cap objRow
      BY <1>0, <3>1, FoundRead
    <3>4. \A s \in Sides : e.record.members[s] \subseteq objRow
      BY <3>2, <3>3
    <3> QED
      BY <3>1, <3>2, <3>4 DEF RuleFits
  <2> QED
    BY <1>0, <1>3, <2>1, PutRuleTyped DEF RuleEdit
<1>4. ASSUME NEW e \in RowEdits, e.key \in Containers, PolicyRowEdit(e.key, e.record)
      PROVE  World' /\ Edited
  <2>1. e.record \in {Generated, Retyped, Absent}
    BY <1>4, WorldsAssumption
  <2> QED
    BY <1>0, <1>4, <2>1, PutPolicyRowTyped, RemovePolicyRowTyped DEF PolicyRowEdit
<1>5. ASSUME NEW e \in RowEdits, e.key \in Objects, ObjectRowDelete(e.key)
      PROVE  World' /\ Edited
  BY <1>0, <1>5, RemoveObjectRowTyped DEF ObjectRowDelete
<1>6. World' /\ Edited
  BY <1>1, <1>2, <1>3, <1>4, <1>5 DEF Operators
<1>7. /\ touched' \subseteq Jobs /\ edits' \in 0..MaxEdits
      /\ UNCHANGED <<phase, req, src, dst, todo, runs>>
  BY <1>6, ConstantsAssumption DEF Edited, TypeOK
<1> QED
  BY <1>6, <1>7 DEF TypeOK, World

LEMMA StepTyped ==
    ASSUME SyncInvariant, [Next]_vars
    PROVE  TypeOK'
<1>0. TypeOK
  BY DEF SyncInvariant
<1>1. ASSUME NEW j \in Jobs,
             Start(j) \/ ExecuteSync(j) \/ Finish(j) \/ Crash(j) \/ Raised(j)
      PROVE  TypeOK'
  BY <1>0, <1>1, StartTyped, ExecuteSyncTyped, RestTyped
<1>2. ASSUME NEW j \in Jobs, Load(j), ~Raised(j) PROVE TypeOK'
  BY <1>0, <1>2, LoadTyped
<1>3. ASSUME NEW j \in Jobs, Pull(j) \/ Push(j), ~Raised(j)
      PROVE  TypeOK'
  <2>1. (\E e : Applied(j, e)) \/ (\E r \in Rules : CutShort(j, r))
    BY <1>3, PullCalls, PushCalls
  <2>2. World'
    BY <1>3, PulledIsTyped, PushedIsTyped
  <2> QED
    BY <1>0, <2>1, <2>2, AppliedTyped, CutShortTyped
<1>4. CASE UNCHANGED vars
  <2>1. World'
    BY <1>0, <1>4, TypedWorld, SameWorldTyped DEF vars, worldVars, deviceVars, rowVars
  <2> QED
    BY <1>0, <1>4, <2>1 DEF vars, TypeOK, World
<1> QED
  BY <1>0, <1>1, <1>2, <1>3, <1>4, OperatorsTyped DEF Next, Work

----------------------------------------------------------------------------
(* Steps that are not the job's own.                                       *)

StepOf(k) ==
    Start(k) \/ Load(k) \/ ExecuteSync(k) \/ Pull(k) \/ Push(k) \/ Finish(k) \/ Crash(k)

\* What job k knows and has to do.
SameJob(k) ==
    /\ phase'[k] = phase[k] /\ req'[k] = req[k]
    /\ src'[k] = src[k] /\ dst'[k] = dst[k] /\ todo'[k] = todo[k]

\* Nobody else alters what a job knows; and if it still counts as undisturbed,
\* nobody else has altered the device or a row.
LEMMA OthersStep ==
    ASSUME SyncInvariant, [Next]_vars, NEW k \in Jobs, ~StepOf(k)
    PROVE  SameJob(k) /\ (k \notin touched' => k \notin touched /\ UNCHANGED worldVars)
<1> DEFINE Goal == SameJob(k) /\ (k \notin touched' => k \notin touched /\ UNCHANGED worldVars)
<1>0. /\ phase \in [Jobs -> Idle \cup Running] /\ req \in [Jobs -> Requests]
      /\ src = [j \in Jobs |-> src[j]] /\ dst = [j \in Jobs |-> dst[j]]
      /\ todo \in [Jobs -> [write : SUBSET Elements, delete : SUBSET Elements]]
  BY DEF SyncInvariant, TypeOK
<1>1. ASSUME NEW j \in Jobs, j # k, Start(j) PROVE Goal
  BY <1>0, <1>1 DEF Start, Advance, SameJob
<1>3. ASSUME NEW j \in Jobs, j # k, ExecuteSync(j) \/ Finish(j) \/ Crash(j) \/ Raised(j) PROVE Goal
  BY <1>0, <1>3 DEF ExecuteSync, Finish, Crash, Raised, Advance, SameJob
<1>2. ASSUME NEW j \in Jobs, j # k, Load(j) PROVE Goal
  <2>1. CASE Raised(j)
    BY <1>2, <1>3, <2>1
  <2>2. CASE ~Raised(j)
    BY <1>0, <1>2, <2>2 DEF Load, LoadSourceObjects, LoadSourcePolicies, LoadTargetObjects,
                            LoadTargetPolicies, Advance, SameJob
  <2> QED
    BY <2>1, <2>2
<1>4. ASSUME NEW j \in Jobs, j # k, NEW e, Applied(j, e) PROVE Goal
  BY <1>0, <1>4 DEF Applied, SameJob
<1>5. ASSUME NEW j \in Jobs, j # k, NEW r, CutShort(j, r) PROVE Goal
  <2>1. /\ touched' = touched \cup (Jobs \ {j}) /\ Advance(j, "crashed")
        /\ UNCHANGED <<req, src, dst, todo, edits, runs>>
    BY <1>5 DEF CutShort
  <2> QED
    BY <1>0, <1>5, <2>1 DEF Advance, SameJob
<1>6. ASSUME NEW j \in Jobs, Pull(j) \/ Push(j)
      PROVE  Raised(j) \/ (\E e : Applied(j, e)) \/ (\E r : CutShort(j, r))
  BY <1>6, PullCalls, PushCalls
<1>7. CASE Operators
  <2>1. Edited
    BY <1>7, OperatorsTyped DEF SyncInvariant
  <2> QED
    BY <2>1 DEF Edited, SameJob
<1>8. CASE UNCHANGED vars
  BY <1>8 DEF vars, worldVars, deviceVars, rowVars, SameJob
<1> QED
  BY <1>1, <1>2, <1>3, <1>4, <1>5, <1>6, <1>7, <1>8 DEF Next, Work, StepOf

----------------------------------------------------------------------------
(* What a job has loaded, while nobody writes it.                          *)

LEMMA SameStore ==
    /\ UNCHANGED deviceVars =>
          LoadedObjects("device")' = LoadedObjects("device") /\ Store("device")' = Store("device")
    /\ UNCHANGED rowVars =>
          LoadedObjects("rows")' = LoadedObjects("rows") /\ Store("rows")' = Store("rows")
<1>1. ASSUME UNCHANGED deviceVars
      PROVE  LoadedObjects("device")' = LoadedObjects("device") /\ Store("device")' = Store("device")
  BY <1>1 DEF deviceVars, Store, LoadedObjects, LoadedPolicies, FgtRule
<1>2. ASSUME UNCHANGED rowVars
      PROVE  LoadedObjects("rows")' = LoadedObjects("rows") /\ Store("rows")' = Store("rows")
  BY <1>2 DEF rowVars, Store, LoadedObjects, LoadedPolicies, Visible, RowRule
<1> QED
  BY <1>1, <1>2

LEMMA SameCurrent ==
    ASSUME NEW kind \in {"device", "rows"},
           kind = "device" => UNCHANGED deviceVars, kind = "rows" => UNCHANGED rowVars
    PROVE  /\ LoadedObjects(kind)' = LoadedObjects(kind) /\ Store(kind)' = Store(kind)
           /\ LoadRaises(kind)' <=> LoadRaises(kind)
           /\ \A store, b : IsCurrent(store, kind, b)' <=> IsCurrent(store, kind, b)
<1>1. LoadedObjects(kind)' = LoadedObjects(kind) /\ Store(kind)' = Store(kind)
  <2>1. CASE kind = "device"
    BY <2>1, SameStore
  <2>2. CASE kind = "rows"
    BY <2>2, SameStore
  <2> QED
    BY <2>1, <2>2
<1>2. LoadRaises(kind)' <=> LoadRaises(kind)
  BY DEF LoadRaises, rowVars
<1> QED
  BY <1>1, <1>2 DEF IsCurrent

Stopped == {"idle", "source", "failed", "crashed"}

\* A job whose source nobody writes still has it as it is.
LEMMA SourceKept ==
    ASSUME NEW k \in Jobs, SourceIsCurrent(k), k \notin touched' => k \notin touched,
           req'[k] = req[k], src'[k] = src[k], phase[k] \notin Stopped,
           (phase'[k] # "sourcePolicies") = (phase[k] # "sourcePolicies"),
           k \notin touched' /\ SourceKind(k) = "device" => UNCHANGED deviceVars,
           k \notin touched' /\ SourceKind(k) = "rows" => UNCHANGED rowVars
    PROVE  SourceIsCurrent(k)'
<1> SUFFICES ASSUME k \notin touched', phase'[k] \notin Stopped
             PROVE  IsCurrent(src[k], SourceKind(k), phase[k] # "sourcePolicies")'
  BY DEF SourceIsCurrent, Stopped
<1>1. PICK kind \in {"device", "rows"} : kind = SourceKind(k)
  BY DEF SourceKind
<1>2. PICK store : store = src[k]
  OBVIOUS
<1>3. PICK b : b = (phase[k] # "sourcePolicies")
  OBVIOUS
<1>4. IsCurrent(store, kind, b)
  BY <1>1, <1>2, <1>3 DEF SourceIsCurrent, Stopped
<1>5. IsCurrent(store, kind, b)'
  BY <1>1, <1>4, SameCurrent
<1>6. /\ src'[k] = store /\ (phase'[k] # "sourcePolicies") = b
      /\ SourceKind(k)' = kind
  BY <1>1, <1>2, <1>3 DEF SourceKind
<1>7. Store(SourceKind(k))' = Store(kind)'
  BY <1>6
<1> QED
  BY <1>5, <1>6, <1>7 DEF IsCurrent

\* What a plan says stays what it says while the plan, and what the job has
\* loaded, are the same.
LEMMA SamePlan ==
    ASSUME NEW k \in Jobs, UNCHANGED worldVars,
           req'[k] = req[k], src'[k] = src[k], dst'[k] = dst[k], todo'[k] = todo[k]
    PROVE  /\ Pending(k)' = Pending(k) /\ Differs(k)' = Differs(k) /\ WorkedOff(k)' = WorkedOff(k)
           /\ \A e : Outcome(k, e)' = Outcome(k, e)
           /\ \A r : PulledRule(k, r)' <=> PulledRule(k, r)
           /\ \A id : PushedPolicy(k, id)' <=> PushedPolicy(k, id)
<1>1. /\ Pending(k)' = Pending(k) /\ Differs(k)' = Differs(k) /\ WorkedOff(k)' = WorkedOff(k)
      /\ \A e : Outcome(k, e)' = Outcome(k, e)
  BY DEF Pending, Differs, WorkedOff, Writes, Deletes, Outcome
<1>2. UNCHANGED <<obj, pol, objRow, policy, rule>>
  BY DEF worldVars, deviceVars, rowVars
<1>3. ASSUME NEW r PROVE PulledRule(k, r)' <=> PulledRule(k, r)
  <2>1. FoundMembers(dst[k][r].members)' = FoundMembers(dst[k][r].members)
    BY <1>2 DEF FoundMembers, Found
  <2> QED
    BY <1>1, <1>2, <2>1 DEF PulledRule, Visible
<1>4. ASSUME NEW id PROVE PushedPolicy(k, id)' <=> PushedPolicy(k, id)
  <2>1. FgtRule(id, LoadedObjects("device"))' = FgtRule(id, LoadedObjects("device"))
    BY <1>2 DEF FgtRule, LoadedObjects
  <2> QED
    BY <1>1, <1>2, <2>1 DEF PushedPolicy
<1> QED
  BY <1>1, <1>3, <1>4

LEMMA SameOnCourse ==
    ASSUME NEW k \in Jobs, UNCHANGED worldVars,
           req'[k] = req[k], src'[k] = src[k], dst'[k] = dst[k], todo'[k] = todo[k],
           k \notin touched' => k \notin touched, phase'[k] \in Applying => phase[k] \in Applying,
           PullIsOnCourse(k), PushIsOnCourse(k)
    PROVE  PullIsOnCourse(k)' /\ PushIsOnCourse(k)'
<1>1. UNCHANGED <<obj, pol, objRow, policy, rule>>
  BY DEF worldVars, deviceVars, rowVars
<1>2. /\ Pending(k)' = Pending(k) /\ WorkedOff(k)' = WorkedOff(k)
      /\ \A e : Outcome(k, e)' = Outcome(k, e)
      /\ \A r : PulledRule(k, r)' <=> PulledRule(k, r)
      /\ \A id : PushedPolicy(k, id)' <=> PushedPolicy(k, id)
  BY SamePlan
<1>3. PullIsOnCourse(k)'
  BY <1>1, <1>2 DEF PullIsOnCourse
<1>4. PushIsOnCourse(k)'
  BY <1>1, <1>2 DEF PushIsOnCourse
<1> QED
  BY <1>3, <1>4

LEMMA SameCourse ==
    ASSUME NEW k \in Jobs, SameJob(k), CourseOf(k),
           k \notin touched' => k \notin touched /\ UNCHANGED worldVars
    PROVE  CourseOf(k)'
<1>1. PlanFollowsDiff(k)'
  BY DEF SameJob, CourseOf, PlanFollowsDiff, Differs, WorkedOff, Writes, Deletes, Pending, NoWork
<1>2. CASE k \in touched'
  BY <1>1, <1>2 DEF CourseOf, SourceIsCurrent, TargetIsCurrent, PullIsOnCourse, PushIsOnCourse
<1>3. CASE k \notin touched'
  <2>0. /\ k \notin touched /\ UNCHANGED worldVars
        /\ phase'[k] = phase[k] /\ req'[k] = req[k]
        /\ src'[k] = src[k] /\ dst'[k] = dst[k] /\ todo'[k] = todo[k]
    BY <1>3 DEF SameJob
  <2>1. SourceIsCurrent(k)'
    <3>1. CASE phase[k] \in Stopped
      BY <2>0, <3>1 DEF SourceIsCurrent, Stopped
    <3>2. CASE phase[k] \notin Stopped
      BY <2>0, <3>2, SourceKept DEF CourseOf, worldVars
    <3> QED
      BY <3>1, <3>2
  <2>2. TargetIsCurrent(k)'
    <3> SUFFICES ASSUME phase[k] \in {"targetPolicies", "loaded"}
                 PROVE  /\ IsCurrent(dst[k], TargetKind(k), phase[k] = "loaded")'
                        /\ phase[k] = "loaded" => ~LoadRaises(TargetKind(k))'
      BY <2>0 DEF TargetIsCurrent
    <3>1. PICK kind \in {"device", "rows"} : kind = TargetKind(k)
      BY DEF TargetKind
    <3>2. TargetKind(k)' = kind
      BY <2>0, <3>1 DEF TargetKind
    <3>3. Store(kind)' = Store(kind) /\ (LoadRaises(kind)' <=> LoadRaises(kind))
      BY <2>0, SameCurrent DEF worldVars
    <3>4. Store(TargetKind(k))' = Store(kind) /\ (LoadRaises(TargetKind(k))' <=> LoadRaises(kind))
      BY <3>2, <3>3
    <3> QED
      BY <2>0, <3>1, <3>4 DEF IsCurrent, CourseOf, TargetIsCurrent
  <2> QED
    BY <1>1, <2>0, <2>1, <2>2, SameOnCourse DEF CourseOf
<1> QED
  BY <1>2, <1>3

----------------------------------------------------------------------------
(* The job's own steps, up to the diff.                                    *)

LEMMA StartCourse ==
    ASSUME SyncInvariant, NEW k \in Jobs, Start(k)
    PROVE  CourseOf(k)'
<1>1. phase'[k] = "source"
  BY DEF SyncInvariant, TypeOK, Start, Advance
<1> QED
  BY <1>1 DEF CourseOf, PlanFollowsDiff, SourceIsCurrent, TargetIsCurrent, PullIsOnCourse,
              PushIsOnCourse, Applying

LEMMA EndCourse ==
    ASSUME SyncInvariant, NEW k \in Jobs, CourseOf(k), Finish(k) \/ Crash(k) \/ Raised(k)
    PROVE  CourseOf(k)'
<1>1. /\ UNCHANGED worldVars /\ UNCHANGED <<req, src, dst, todo, touched>>
      /\ \/ phase'[k] \in {"crashed", "failed"}
         \/ phase[k] = "syncing" /\ phase'[k] = "done" /\ todo[k] = NoWork
  BY DEF SyncInvariant, TypeOK, Finish, Crash, Raised, Advance
<1>2. CASE phase'[k] \in {"crashed", "failed"}
  BY <1>2 DEF CourseOf, PlanFollowsDiff, SourceIsCurrent, TargetIsCurrent, PullIsOnCourse,
              PushIsOnCourse, Applying
<1>3. CASE phase[k] = "syncing" /\ phase'[k] = "done" /\ todo[k] = NoWork
  <2>1. PlanFollowsDiff(k)'
    <3>1. Pending(k)' = Pending(k) /\ WorkedOff(k)' = WorkedOff(k)
      BY <1>1, SamePlan
    <3> QED
      BY <1>1, <1>3, <3>1 DEF CourseOf, PlanFollowsDiff, Applying, Writes, Deletes, NoWork
  <2>2. SourceIsCurrent(k)'
    BY <1>1, <1>3, SourceKept DEF CourseOf, worldVars, Stopped
  <2>3. TargetIsCurrent(k)'
    BY <1>3 DEF TargetIsCurrent
  <2>4. PullIsOnCourse(k)' /\ PushIsOnCourse(k)'
    BY <1>1, <1>3, SameOnCourse DEF CourseOf, Applying
  <2> QED
    BY <2>1, <2>2, <2>3, <2>4 DEF CourseOf
<1> QED
  BY <1>1, <1>2, <1>3

LEMMA LoadCourse ==
    ASSUME SyncInvariant, NEW k \in Jobs, Load(k), ~Raised(k), CourseOf(k)
    PROVE  CourseOf(k)'
<1>0. /\ phase \in [Jobs -> Idle \cup Running]
      /\ src = [j \in Jobs |-> src[j]] /\ dst = [j \in Jobs |-> dst[j]]
      /\ World
  BY TypedWorld DEF SyncInvariant, TypeOK
<1>1. UNCHANGED worldVars /\ req' = req /\ touched' = touched
  BY DEF Load, LoadSourceObjects, LoadSourcePolicies, LoadTargetObjects, LoadTargetPolicies
<1>2. phase'[k] \notin Applying \cup Stopped
  BY <1>0 DEF Load, LoadSourceObjects, LoadSourcePolicies, LoadTargetObjects, LoadTargetPolicies,
              Advance, Applying, Stopped
<1>3. /\ LoadSourceObjects(k) =>
            /\ phase[k] = "source" /\ phase'[k] = "sourcePolicies" /\ dst'[k] = dst[k]
            /\ src'[k] = With(src[k], LoadedObjects(SourceKind(k)))
      /\ LoadSourcePolicies(k) =>
            /\ phase[k] = "sourcePolicies" /\ phase'[k] = "target" /\ dst'[k] = dst[k]
            /\ src'[k] = With(src[k], LoadedPolicies(SourceKind(k), src[k]))
      /\ LoadTargetObjects(k) =>
            /\ phase[k] = "target" /\ phase'[k] = "targetPolicies" /\ src'[k] = src[k]
            /\ dst'[k] = With(dst[k], LoadedObjects(TargetKind(k)))
      /\ LoadTargetPolicies(k) =>
            /\ phase[k] = "targetPolicies" /\ phase'[k] = "loaded" /\ src'[k] = src[k]
            /\ dst'[k] = With(dst[k], LoadedPolicies(TargetKind(k), dst[k]))
            /\ ~LoadRaises(TargetKind(k))
  BY <1>0 DEF LoadSourceObjects, LoadSourcePolicies, LoadTargetObjects, LoadTargetPolicies, Advance
<1>4. PICK from \in {"device", "rows"}, to \in {"device", "rows"} :
         from = SourceKind(k) /\ to = TargetKind(k)
  BY DEF SourceKind, TargetKind
<1>5. /\ Store(SourceKind(k))' = Store(from) /\ Store(TargetKind(k))' = Store(to)
      /\ LoadRaises(TargetKind(k))' <=> LoadRaises(to)
  <2>1. SourceKind(k)' = from /\ TargetKind(k)' = to
    BY <1>1, <1>4 DEF SourceKind, TargetKind
  <2>2. Store(from)' = Store(from) /\ Store(to)' = Store(to) /\ (LoadRaises(to)' <=> LoadRaises(to))
    BY <1>1, SameCurrent DEF worldVars
  <2> QED
    BY <2>1, <2>2
<1>9. \A kind : \A o \in Objects : Store(kind)[o] = LoadedObjects(kind)[o]
  BY ElementsAre DEF Store
<1>6. SourceIsCurrent(k)'
  <2> SUFFICES ASSUME k \notin touched
               PROVE  \A e \in (IF phase'[k] # "sourcePolicies" THEN Elements ELSE Objects) :
                         src'[k][e] = Store(from)[e]
    BY <1>1, <1>5 DEF SourceIsCurrent, IsCurrent
  <2>1. CASE LoadSourceObjects(k)
    BY <1>3, <1>4, <1>9, <2>1, WithObjectsRead
  <2>2. CASE LoadSourcePolicies(k)
    <3>1. \A o \in Objects : src[k][o] = LoadedObjects(from)[o]
      BY <1>3, <1>4, <1>9, <2>2 DEF CourseOf, SourceIsCurrent, IsCurrent
    <3> QED
      BY <1>0, <1>3, <1>4, <2>2, <3>1, PoliciesOfObjects
  <2>3. CASE LoadTargetObjects(k) \/ LoadTargetPolicies(k)
    BY <1>3, <1>4, <2>3 DEF CourseOf, SourceIsCurrent, IsCurrent
  <2> QED
    BY <2>1, <2>2, <2>3 DEF Load
<1>7. TargetIsCurrent(k)'
  <2> SUFFICES ASSUME k \notin touched, phase'[k] \in {"targetPolicies", "loaded"}
               PROVE  /\ \A e \in (IF phase'[k] = "loaded" THEN Elements ELSE Objects) :
                            dst'[k][e] = Store(to)[e]
                      /\ phase'[k] = "loaded" => ~LoadRaises(to)
    BY <1>1, <1>5 DEF TargetIsCurrent, IsCurrent
  <2>1. CASE LoadTargetObjects(k)
    BY <1>3, <1>4, <1>9, <2>1, WithObjectsRead
  <2>2. CASE LoadTargetPolicies(k)
    <3>1. \A o \in Objects : dst[k][o] = LoadedObjects(to)[o]
      BY <1>3, <1>4, <1>9, <2>2 DEF CourseOf, TargetIsCurrent, IsCurrent
    <3> QED
      BY <1>0, <1>3, <1>4, <2>2, <3>1, PoliciesOfObjects
  <2>3. CASE LoadSourceObjects(k) \/ LoadSourcePolicies(k)
    BY <1>3, <2>3
  <2> QED
    BY <2>1, <2>2, <2>3 DEF Load
<1>8. PlanFollowsDiff(k)' /\ PullIsOnCourse(k)' /\ PushIsOnCourse(k)'
  BY <1>2 DEF PlanFollowsDiff, PullIsOnCourse, PushIsOnCourse
<1> QED
  BY <1>6, <1>7, <1>8 DEF CourseOf

\* A rule that one pass could load hangs on one Policy row at most.
LEMMA SingleLink ==
    ASSUME World, ~LoadRaises("rows"), NEW r \in Rules, rule[r] # Absent,
           NEW c, c \in rule[r].linked
    PROVE  rule[r].linked = {c}
<1>1. rule[r].linked \subseteq Containers
  BY DEF World, RowsTyped, Rule
<1>2. IsFiniteSet({Ours} \cup Others)
  BY ConstantsAssumption, FS_Singleton, FS_Union
<1>3. IsFiniteSet(rule[r].linked) /\ Cardinality(rule[r].linked) \in Nat
  BY <1>1, <1>2, FS_Subset, FS_CardinalityType DEF Containers
<1>4. ~(Cardinality(rule[r].linked) > 1)
  BY DEF LoadRaises
<1>5. Cardinality(rule[r].linked) # 0
  BY <1>3, FS_EmptySet
<1>6. Cardinality(rule[r].linked) = 1
  BY <1>3, <1>4, <1>5
<1> QED
  BY <1>3, <1>6, FS_Singleton

LEMMA ExecuteSyncCourse ==
    ASSUME SyncInvariant, NEW k \in Jobs, ExecuteSync(k), CourseOf(k)
    PROVE  CourseOf(k)'
<1>0. /\ phase \in [Jobs -> Idle \cup Running]
      /\ todo \in [Jobs -> [write : SUBSET Elements, delete : SUBSET Elements]]
      /\ Loaded(dst[k]) /\ World
  BY TypedWorld DEF SyncInvariant, TypeOK
<1>1. /\ UNCHANGED worldVars /\ req' = req /\ touched' = touched /\ src' = src /\ dst' = dst
      /\ phase[k] = "loaded" /\ phase'[k] = "syncing"
      /\ todo'[k] = [write |-> Writes(src[k], dst[k]),
                     delete |-> IF req[k].delete THEN Deletes(src[k], dst[k]) ELSE {}]
  BY <1>0 DEF ExecuteSync, Advance
<1>2. UNCHANGED <<obj, pol, objRow, policy, rule>>
  BY <1>1 DEF worldVars, deviceVars, rowVars
<1>3. WorkedOff(k)' = {} /\ \A e : Outcome(k, e)' = dst[k][e]
  BY <1>1 DEF WorkedOff, Differs, Pending, Writes, Deletes, Outcome
<1>4. PlanFollowsDiff(k)'
  BY <1>1, <1>3 DEF PlanFollowsDiff, Writes, Deletes
<1>5. SourceIsCurrent(k)'
  BY <1>1, SourceKept DEF CourseOf, worldVars, Stopped
<1>6. TargetIsCurrent(k)'
  BY <1>1 DEF TargetIsCurrent
<1>7. ASSUME k \notin touched
      PROVE  (\A e \in Elements : dst[k][e] = Store(TargetKind(k))[e]) /\ ~LoadRaises(TargetKind(k))
  BY <1>1, <1>7 DEF CourseOf, TargetIsCurrent, IsCurrent
<1>8. PullIsOnCourse(k)'
  <2> SUFFICES ASSUME k \notin touched, req[k].kind = "pull"
               PROVE  /\ \A o \in Objects : o \in objRow <=> dst[k][o] # Absent
                      /\ \A c \in Containers : policy[c] = dst[k][c]
                      /\ \A r \in Rules : PulledRule(k, r)'
                      /\ \A r \in Rules : dst[k][r] # Absent =>
                            /\ dst[k][dst[k][r].policy] # Absent
                            /\ \A s \in Sides : \A o \in dst[k][r].members[s] : dst[k][o] # Absent
    BY <1>0, <1>1, <1>2, <1>3 DEF PullIsOnCourse
  <2>0. TargetKind(k) = "rows"
    BY DEF TargetKind
  <2>1. (\A e \in Elements : dst[k][e] = Store("rows")[e]) /\ ~LoadRaises("rows")
    BY <1>7, <2>0
  <2>2. /\ \A o \in Objects : o \in objRow <=> dst[k][o] # Absent
        /\ \A c \in Containers : dst[k][c] = policy[c]
        /\ \A r \in Rules : dst[k][r] = IF Visible(r) THEN RowRule(r) ELSE Absent
    BY <2>1, RowStoreRead, ElementsAre
  <2>3. ASSUME NEW r \in Rules, Visible(r)
        PROVE  /\ dst[k][r] # Absent /\ rule[r] # Absent /\ dst[k][r] \in LoadedRule
               /\ dst[k][r].name = rule[r].request
               /\ dst[k][r].action = rule[r].action /\ dst[k][r].log = rule[r].log
               /\ dst[k][r].members = rule[r].members /\ dst[k][r].intfs = rule[r].intfs
               /\ dst[k][r].text = StripName(rule[r].request, rule[r].text)
               /\ rule[r].linked = {dst[k][r].policy} /\ policy[dst[k][r].policy] # Absent
               /\ dst[k][r].policy \in Containers
               /\ FoundMembers(dst[k][r].members) = rule[r].members
               /\ \A s \in Sides : rule[r].members[s] \subseteq objRow
    <3>1. dst[k][r] = RowRule(r) /\ rule[r] # Absent
      BY <2>2, <2>3 DEF Visible
    <3>2. /\ RowRule(r) \in LoadedRule /\ RowRule(r) # Absent /\ rule[r] \in Rule
          /\ RowRule(r).policy \in rule[r].linked /\ RowRule(r).name = rule[r].request
          /\ RowRule(r).action = rule[r].action /\ RowRule(r).log = rule[r].log
          /\ RowRule(r).members = rule[r].members /\ RowRule(r).intfs = rule[r].intfs
          /\ RowRule(r).text = StripName(rule[r].request, rule[r].text)
          /\ policy[RowRule(r).policy] # Absent
          /\ \A s \in Sides : rule[r].members[s] \subseteq objRow
      BY <1>0, <2>3, RowRuleRead DEF World
    <3>3. rule[r].members \in Members /\ rule[r].linked \subseteq Containers
      BY <3>2 DEF Rule
    <3>4. FoundMembers(rule[r].members) = rule[r].members
      BY <1>0, <3>2, <3>3, FoundRead
    <3>5. rule[r].linked = {RowRule(r).policy}
      BY <1>0, <2>1, <3>1, <3>2, SingleLink
    <3> QED
      BY <3>1, <3>2, <3>3, <3>4, <3>5
  <2>4. ASSUME NEW r \in Rules PROVE PulledRule(k, r)'
    <3>1. CASE ~Visible(r)
      BY <1>1, <1>2, <1>3, <2>2, <3>1 DEF PulledRule, Visible
    <3>2. CASE Visible(r)
      <4>1. FoundMembers(dst[k][r].members)' = rule[r].members
        BY <1>1, <1>2, <2>3, <3>2 DEF FoundMembers, Found
      <4>2. rule[r].linked = {d \in {dst[k][r].policy} : policy[d] # Absent}
        BY <2>3, <3>2
      <4>3. r \notin WorkedOff(k)' /\ dst'[k][r] = dst[k][r] /\ dst[k][r] # Absent
        BY <1>1, <1>3, <2>3, <3>2
      <4>4. /\ rule[r] # Absent
            /\ rule[r].request = dst[k][r].name /\ rule[r].action = dst[k][r].action
            /\ rule[r].log = dst[k][r].log /\ rule[r].intfs = dst[k][r].intfs
            /\ StripName(rule[r].request, rule[r].text) = dst[k][r].text
        BY <2>3, <3>2
      <4> QED
        BY <1>2, <4>1, <4>2, <4>3, <4>4 DEF PulledRule
    <3> QED
      BY <3>1, <3>2
  <2>5. ASSUME NEW r \in Rules, dst[k][r] # Absent
        PROVE  /\ dst[k][dst[k][r].policy] # Absent
               /\ \A s \in Sides : \A o \in dst[k][r].members[s] : dst[k][o] # Absent
    <3>1. Visible(r)
      BY <2>2, <2>5
    <3>2. \A s \in Sides : rule[r].members[s] \subseteq Objects
      BY <1>0, <2>3, <3>1 DEF World, RowsTyped
    <3> QED
      BY <2>2, <2>3, <3>1, <3>2
  <2> QED
    BY <2>2, <2>4, <2>5
<1>9. PushIsOnCourse(k)'
  <2> SUFFICES ASSUME k \notin touched, req[k].kind = "push"
               PROVE  /\ \A o \in Objects : obj[o] = "readable" <=> dst[k][o] # Absent
                      /\ \A id \in Ids : PushedPolicy(k, id)'
                      /\ \A r \in Odd : dst[k][r] = Absent
    BY <1>0, <1>1, <1>2, <1>3 DEF PushIsOnCourse
  <2>0. TargetKind(k) = "device"
    BY DEF TargetKind
  <2>1. \A e \in Elements : dst[k][e] = Store("device")[e]
    BY <1>7, <2>0
  <2>2. /\ \A o \in Objects : obj[o] = "readable" <=> dst[k][o] # Absent
        /\ \A id \in Ids : dst[k][id] =
              IF pol[id] = Absent THEN Absent ELSE FgtRule(id, LoadedObjects("device"))
        /\ \A r \in Odd : dst[k][r] = Absent
    BY <2>1, DeviceStoreRead, ElementsAre
  <2>3. ASSUME NEW id \in Ids PROVE PushedPolicy(k, id)'
    <3>1. FgtRule(id, LoadedObjects("device"))' = FgtRule(id, LoadedObjects("device"))
      BY <1>2 DEF FgtRule, LoadedObjects
    <3> QED
      BY <1>1, <1>2, <1>3, <2>2, <3>1 DEF PushedPolicy
  <2> QED
    BY <2>2, <2>3
<1> QED
  BY <1>4, <1>5, <1>6, <1>8, <1>9 DEF CourseOf

----------------------------------------------------------------------------
(* A call takes one element off the plan.                                  *)

\* The element worked off has its outcome now, the others keep theirs.
LEMMA AppliedOutcome ==
    ASSUME SyncInvariant, NEW k \in Jobs, NEW e, CallOn(k, e), Applied(k, e)
    PROVE  /\ e \in Elements /\ e \notin WorkedOff(k) /\ Outcome(k, e) = dst[k][e]
           /\ Outcome(k, e)' = src[k][e]
           /\ \A d : d # e => Outcome(k, d)' = Outcome(k, d)
           /\ WorkedOff(k)' = WorkedOff(k) \cup {e} /\ Pending(k)' = Pending(k) \ {e}
           /\ UNCHANGED <<phase, req, src, dst>> /\ (k \notin touched' => k \notin touched)
           /\ todo'[k] = [write |-> todo[k].write \ {e}, delete |-> todo[k].delete \ {e}]
<1>1. /\ todo'[k] = [write |-> todo[k].write \ {e}, delete |-> todo[k].delete \ {e}]
      /\ UNCHANGED <<phase, req, src, dst>> /\ (k \notin touched' => k \notin touched)
      /\ e \in Pending(k) /\ e \in Elements /\ phase[k] = "syncing"
  BY DEF Applied, SyncInvariant, TypeOK, Pending, CallOn
<1>2. Pending(k) \subseteq Differs(k)
  BY <1>1, Planned
<1>3. Pending(k)' = Pending(k) \ {e} /\ Differs(k)' = Differs(k)
  BY <1>1 DEF Pending, Differs, Writes, Deletes
<1>4. WorkedOff(k)' = WorkedOff(k) \cup {e} /\ e \notin WorkedOff(k)
  BY <1>1, <1>2, <1>3 DEF WorkedOff
<1> QED
  BY <1>1, <1>3, <1>4 DEF Outcome

LEMMA AppliedPlan ==
    ASSUME SyncInvariant, NEW k \in Jobs, CourseOf(k), NEW e, CallOn(k, e), Applied(k, e)
    PROVE  PlanFollowsDiff(k)'
<1>1. /\ todo'[k] = [write |-> todo[k].write \ {e}, delete |-> todo[k].delete \ {e}]
      /\ UNCHANGED <<phase, src, dst, req>> /\ phase[k] = "syncing"
      /\ WorkedOff(k)' = WorkedOff(k) \cup {e} /\ Pending(k)' = Pending(k) \ {e}
  BY AppliedOutcome DEF CallOn
<1>2. /\ todo[k].write \subseteq Writes(src[k], dst[k])
      /\ todo[k].delete \subseteq Deletes(src[k], dst[k])
      /\ ~req[k].delete => todo[k].delete = {}
      /\ \A d \in WorkedOff(k), f \in Pending(k) : KindOf(d) <= KindOf(f)
  BY <1>1 DEF CourseOf, PlanFollowsDiff, Applying
<1>3. /\ Writes(src[k], dst[k])' = Writes(src[k], dst[k])
      /\ Deletes(src[k], dst[k])' = Deletes(src[k], dst[k])
  BY <1>1 DEF Writes, Deletes
<1>4. \A d \in WorkedOff(k)', f \in Pending(k)' : KindOf(d) <= KindOf(f)
  BY <1>1, <1>2 DEF CallOn
<1> QED
  BY <1>1, <1>2, <1>3, <1>4 DEF PlanFollowsDiff

\* top_level: while an object is to do, no Policy row and no rule is done;
\* while a Policy row is, no rule is, and no object is left; when a rule's
\* turn has come, nothing else is left.
LEMMA KindsInOrder ==
    ASSUME SyncInvariant, NEW k \in Jobs, CourseOf(k), NEW e, CallOn(k, e)
    PROVE  /\ e \in Objects => \A d \in Containers \cup Rules : d \notin WorkedOff(k)
           /\ e \in Containers => /\ \A r \in Rules : r \notin WorkedOff(k)
                                  /\ \A o \in Objects : o \notin Pending(k)
           /\ e \in Rules => \A d \in Objects \cup Containers : d \notin Pending(k)
<1> DEFINE n == Len(ObjectKinds)
<1>1. e \in Pending(k) /\ \A f \in Pending(k) : KindOf(e) <= KindOf(f)
  BY DEF CallOn
<1>2. \A d \in WorkedOff(k) : KindOf(d) <= KindOf(e)
  BY <1>1 DEF CallOn, CourseOf, PlanFollowsDiff, Applying
<1>3. /\ n \in Nat /\ \A o \in Objects : KindOf(o) \in 1..n
      /\ \A c \in Containers : KindOf(c) = n + 1
      /\ \A r \in Rules : KindOf(r) = n + 2
  BY KindIs
<1> HIDE DEF n
<1>4. \A a, b : (a \in Objects /\ b \in Containers \cup Rules) \/ (a \in Containers /\ b \in Rules)
                => ~(KindOf(b) <= KindOf(a))
  BY <1>3
<1> QED
  BY <1>1, <1>2, <1>4

----------------------------------------------------------------------------
(* Pulling.                                                                *)

LEMMA PullKnows ==
    ASSUME SyncInvariant, NEW k \in Jobs, phase[k] \in {"syncing", "done"}, req[k].kind = "pull",
           k \notin touched
    PROVE  /\ World /\ Loaded(src[k]) /\ Loaded(dst[k])
           /\ \A e \in Elements : src[k][e] = Store("device")[e]
           /\ src[k][Ours] = Generated /\ \A c \in Others : src[k][c] = Absent
           /\ \A r \in Odd : src[k][r] = Absent
           /\ \A id \in Ids : src[k][id] =
                 IF pol[id] = Absent THEN Absent ELSE FgtRule(id, LoadedObjects("device"))
           /\ \A r \in Rules : src[k][r] # Absent =>
                 /\ r \in Ids /\ src[k][r] \in LoadedRule /\ src[k][r].policy = Ours
                 /\ \A s \in Sides : \A o \in src[k][r].members[s] :
                       o \in Objects /\ src[k][o] # Absent
           /\ \A o \in Objects : o \in objRow <=> Outcome(k, o) # Absent
           /\ \A c \in Containers : policy[c] = Outcome(k, c)
           /\ \A r \in Rules : PulledRule(k, r)
           /\ \A r \in Rules : dst[k][r] # Absent =>
                 /\ dst[k][dst[k][r].policy] # Absent
                 /\ \A s \in Sides : \A o \in dst[k][r].members[s] : dst[k][o] # Absent
<1>1. World /\ Loaded(src[k]) /\ Loaded(dst[k])
  BY TypedWorld DEF SyncInvariant, TypeOK
<1>2. SourceKind(k) = "device"
  BY DEF SourceKind
<1>3. \A e \in Elements : src[k][e] = Store("device")[e]
  BY <1>2 DEF SyncInvariant, SourceIsCurrent, IsCurrent
<1>4. /\ src[k][Ours] = Generated /\ \A c \in Others : src[k][c] = Absent
      /\ \A r \in Odd : src[k][r] = Absent
      /\ \A id \in Ids : src[k][id] =
            IF pol[id] = Absent THEN Absent ELSE FgtRule(id, LoadedObjects("device"))
      /\ \A o \in Objects : src[k][o] = LoadedObjects("device")[o]
  BY <1>3, DeviceStoreRead, ElementsAre DEF Containers
<1>5. ASSUME NEW r \in Rules, src[k][r] # Absent
      PROVE  /\ r \in Ids /\ src[k][r] \in LoadedRule /\ src[k][r].policy = Ours
             /\ \A s \in Sides : \A o \in src[k][r].members[s] : o \in Objects /\ src[k][o] # Absent
  <2>1. r \in Ids
    BY <1>4, <1>5 DEF Rules
  <2>2. pol[r] # Absent /\ src[k][r] = FgtRule(r, LoadedObjects("device"))
    BY <1>4, <1>5, <2>1
  <2>3. /\ FgtRule(r, LoadedObjects("device")) \in LoadedRule
        /\ FgtRule(r, LoadedObjects("device")).policy = Ours /\ pol[r] \in Policy
        /\ \A s \in Sides : FgtRule(r, LoadedObjects("device")).members[s]
              = {o \in pol[r].members[s] : LoadedObjects("device")[o] # Absent}
    BY <1>1, <2>1, <2>2, FgtRuleRead DEF World
  <2>4. \A s \in Sides : pol[r].members[s] \subseteq Objects
    BY <2>3 DEF Policy, Members
  <2> QED
    BY <1>4, <2>1, <2>2, <2>3, <2>4
<1>6. PullIsOnCourse(k) /\ phase[k] \in Applying
  BY DEF SyncInvariant, Applying
<1> QED
  BY <1>1, <1>3, <1>4, <1>5, <1>6 DEF PullIsOnCourse

\* What was to be loaded and is no longer to do is there.
LEMMA SettledIsThere ==
    ASSUME SyncInvariant, NEW k \in Jobs, NEW e \in Elements, e \notin Pending(k), src[k][e] # Absent
    PROVE  Outcome(k, e) = src[k][e]
BY DEF Outcome, WorkedOff, Differs, Writes

\* A rule that is not written follows its objects and its Policy row.
LEMMA UnwrittenRule ==
    ASSUME World, World', NEW k \in Jobs, NEW r \in Rules, PulledRule(k, r),
           r \notin WorkedOff(k), r \notin WorkedOff(k)', UNCHANGED dst,
           dst[k][r] # Absent => dst[k][r] \in LoadedRule,
           rule[r] = Absent => rule'[r] = Absent,
           rule[r] # Absent =>
              /\ rule'[r] # Absent
              /\ rule'[r].request = rule[r].request /\ rule'[r].action = rule[r].action
              /\ rule'[r].log = rule[r].log /\ rule'[r].text = rule[r].text
              /\ rule'[r].intfs = rule[r].intfs
              /\ rule'[r].linked = {c \in rule[r].linked : policy'[c] # Absent}
              /\ \A s \in Sides : rule'[r].members[s] = rule[r].members[s] \cap objRow',
           dst[k][r] # Absent =>
              /\ policy[dst[k][r].policy] = Absent => policy'[dst[k][r].policy] = Absent
              /\ \A s \in Sides : dst[k][r].members[s] \cap objRow' \subseteq objRow
    PROVE  PulledRule(k, r)'
<1>1. CASE dst[k][r] = Absent
  <2>1. ~Visible(r)
    BY <1>1 DEF PulledRule
  <2>2. rule[r] # Absent => rule'[r].linked = {}
    BY <2>1 DEF Visible
  <2>3. ~Visible(r)'
    BY <2>2 DEF Visible
  <2> QED
    BY <1>1, <2>3 DEF PulledRule
<1>2. CASE dst[k][r] # Absent
  <2> DEFINE was == dst[k][r]
  <2>1. /\ rule[r] # Absent
        /\ rule[r].request = was.name /\ rule[r].action = was.action /\ rule[r].log = was.log
        /\ rule[r].members = FoundMembers(was.members) /\ rule[r].intfs = was.intfs
        /\ StripName(rule[r].request, rule[r].text) = was.text
        /\ rule[r].linked = {d \in {was.policy} : policy[d] # Absent}
    BY <1>2 DEF PulledRule
  <2>2. was.members \in Members
    BY <1>2 DEF LoadedRule
  <2>3. \A s \in Sides : rule[r].members[s] = was.members[s] \cap objRow
    BY <2>1, <2>2, FoundRead
  <2>4. PICK ms : ms = was.members
    OBVIOUS
  <2>5. FoundMembers(ms)' = [s \in Sides |-> ms[s] \cap objRow']
    BY DEF FoundMembers, Found
  <2>6. rule'[r].members \in Members
    BY <2>1 DEF World, RowsTyped, Rule
  <2>7. \A s \in Sides : rule'[r].members[s] = ms[s] \cap objRow'
    BY <1>2, <2>1, <2>3, <2>4
  <2>8. rule'[r].members = FoundMembers(ms)'
    BY <2>5, <2>6, <2>7 DEF Members
  <2>9. FoundMembers(was.members)' = FoundMembers(ms)'
    BY <2>4 DEF FoundMembers, Found
  <2>10. rule'[r].linked = {d \in {was.policy} : policy'[d] # Absent}
    BY <1>2, <2>1
  <2>11. was' = was
    OBVIOUS
  <2>12. /\ rule'[r] # Absent
         /\ rule'[r].request = was.name /\ rule'[r].action = was.action /\ rule'[r].log = was.log
         /\ rule'[r].intfs = was.intfs /\ StripName(rule'[r].request, rule'[r].text) = was.text
    BY <2>1
  <2> HIDE DEF was
  <2> QED
    BY <1>2, <2>8, <2>9, <2>10, <2>11, <2>12 DEF PulledRule, was
<1> QED
  BY <1>1, <1>2

LEMMA SameRule ==
    ASSUME NEW k \in Jobs, NEW r \in Rules, PulledRule(k, r),
           (r \in WorkedOff(k)') <=> (r \in WorkedOff(k)), UNCHANGED <<src, dst, objRow, policy>>,
           rule'[r] = rule[r]
    PROVE  PulledRule(k, r)'
<1>1. FoundMembers(dst[k][r].members)' = FoundMembers(dst[k][r].members)
  BY DEF FoundMembers, Found
<1> QED
  BY <1>1 DEF PulledRule, Visible

\* After a call, what is left to show of the course is said of the element
\* the call was for.
LEMMA PulledCourse ==
    ASSUME SyncInvariant, NEW k \in Jobs, phase[k] = "syncing", req[k].kind = "pull",
           k \notin touched, UNCHANGED <<phase, req, src, dst>>,
           \A o \in Objects : o \in objRow' <=> Outcome(k, o)' # Absent,
           \A c \in Containers : policy'[c] = Outcome(k, c)',
           \A r \in Rules : PulledRule(k, r)'
    PROVE  PullIsOnCourse(k)'
BY PullKnows DEF PullIsOnCourse

LEMMA ObjectCreatedCourse ==
    ASSUME SyncInvariant, NEW k \in Jobs, NEW o \in Objects, PullObjectCreate(k, o), k \notin touched
    PROVE  PullIsOnCourse(k)'
<1>1. /\ CallOn(k, o) /\ req[k].kind = "pull" /\ phase[k] = "syncing" /\ Applied(k, o)
      /\ o \in todo[k].write /\ objRow' = objRow \cup {o} /\ UNCHANGED <<policy, rule>>
  BY TurnIs DEF PullObjectCreate, CallOn, Turn
<1>2. World'
  BY AddObjectRowTyped, TypedWorld DEF SyncInvariant, PullObjectCreate
<1>3. /\ Outcome(k, o)' = src[k][o] /\ \A d : d # o => Outcome(k, d)' = Outcome(k, d)
      /\ WorkedOff(k)' = WorkedOff(k) \cup {o} /\ UNCHANGED <<phase, req, src, dst>>
  BY <1>1, AppliedOutcome
<1>4. src[k][o] # Absent /\ dst[k][o] = Absent
  BY <1>1, Planned
<1>5. \A r \in Rules : r \notin WorkedOff(k) /\ r \notin WorkedOff(k)'
  BY <1>1, <1>3, KindsInOrder, ElementsAre DEF SyncInvariant, CourseOf
<1>6. ASSUME NEW r \in Rules PROVE PulledRule(k, r)'
  <2>1. /\ World /\ PulledRule(k, r) /\ Loaded(dst[k])
        /\ dst[k][r] # Absent =>
              \A s \in Sides : \A q \in dst[k][r].members[s] : dst[k][q] # Absent
    BY <1>1, PullKnows
  <2>2. dst[k][r] # Absent => \A s \in Sides : dst[k][r].members[s] \cap objRow' \subseteq objRow
    BY <1>1, <1>4, <2>1
  <2>3. rule[r] # Absent =>
           /\ rule[r].linked = {c \in rule[r].linked : policy'[c] # Absent}
           /\ \A s \in Sides : rule[r].members[s] = rule[r].members[s] \cap objRow'
    BY <1>1, <2>1 DEF World, RowsTyped
  <2>4. dst[k][r] # Absent => dst[k][r] \in LoadedRule
    BY <2>1 DEF Loaded
  <2> QED
    BY <1>1, <1>2, <1>3, <1>5, <2>1, <2>2, <2>3, <2>4, UnwrittenRule
<1>7. \A q \in Objects : q \in objRow' <=> Outcome(k, q)' # Absent
  BY <1>1, <1>3, <1>4, PullKnows
<1>8. \A c \in Containers : policy'[c] = Outcome(k, c)'
  BY <1>1, <1>3, PullKnows, ElementsAre
<1> QED
  BY <1>1, <1>3, <1>6, <1>7, <1>8, PulledCourse

LEMMA ObjectDeletedCourse ==
    ASSUME SyncInvariant, NEW k \in Jobs, NEW o \in Objects, k \notin touched,
           Turn(k, "pull", "delete", o), RemoveObjectRow(o), Applied(k, o)
    PROVE  PullIsOnCourse(k)'
<1>1. /\ CallOn(k, o) /\ req[k].kind = "pull" /\ phase[k] = "syncing"
      /\ o \in todo[k].delete /\ objRow' = objRow \ {o} /\ policy' = policy
  BY TurnIs DEF RemoveObjectRow, CallOn, Turn
<1>2. /\ World'
      /\ \A r \in Rules : rule[r] = Absent => rule'[r] = Absent
      /\ \A r \in Rules : rule[r] # Absent =>
            /\ rule'[r] # Absent
            /\ rule'[r].request = rule[r].request /\ rule'[r].action = rule[r].action
            /\ rule'[r].log = rule[r].log /\ rule'[r].text = rule[r].text
            /\ rule'[r].intfs = rule[r].intfs /\ rule'[r].linked = rule[r].linked
            /\ rule'[r].members = [s \in Sides |-> rule[r].members[s] \ {o}]
  BY RemoveObjectRowTyped, TypedWorld DEF SyncInvariant
<1>3. /\ Outcome(k, o)' = src[k][o] /\ \A d : d # o => Outcome(k, d)' = Outcome(k, d)
      /\ WorkedOff(k)' = WorkedOff(k) \cup {o} /\ UNCHANGED <<phase, req, src, dst>>
  BY <1>1, AppliedOutcome
<1>4. src[k][o] = Absent
  BY <1>1, Planned
<1>5. \A r \in Rules : r \notin WorkedOff(k) /\ r \notin WorkedOff(k)'
  BY <1>1, <1>3, KindsInOrder, ElementsAre DEF SyncInvariant, CourseOf
<1>6. ASSUME NEW r \in Rules PROVE PulledRule(k, r)'
  <2>1. World /\ PulledRule(k, r) /\ Loaded(dst[k])
    BY <1>1, PullKnows
  <2>2. dst[k][r] # Absent => \A s \in Sides : dst[k][r].members[s] \cap objRow' \subseteq objRow
    BY <1>1
  <2>3. rule[r] # Absent =>
           /\ rule'[r].linked = {c \in rule[r].linked : policy'[c] # Absent}
           /\ \A s \in Sides : rule'[r].members[s] = rule[r].members[s] \cap objRow'
    <3>1. rule[r] # Absent =>
             /\ \A s \in Sides : rule[r].members[s] \subseteq objRow
             /\ \A c \in rule[r].linked : policy[c] # Absent
      BY <2>1 DEF World, RowsTyped
    <3>2. rule[r] # Absent =>
             /\ rule'[r].linked = rule[r].linked
             /\ \A s \in Sides : rule'[r].members[s] = rule[r].members[s] \ {o}
      BY <1>2
    <3> QED
      BY <1>1, <3>1, <3>2
  <2>4. dst[k][r] # Absent => dst[k][r] \in LoadedRule
    BY <2>1 DEF Loaded
  <2> QED
    BY <1>1, <1>2, <1>3, <1>5, <2>1, <2>2, <2>3, <2>4, UnwrittenRule
<1>7. \A q \in Objects : q \in objRow' <=> Outcome(k, q)' # Absent
  BY <1>1, <1>3, <1>4, PullKnows
<1>8. \A c \in Containers : policy'[c] = Outcome(k, c)'
  BY <1>1, <1>3, PullKnows, ElementsAre
<1> QED
  BY <1>1, <1>3, <1>6, <1>7, <1>8, PulledCourse

LEMMA PolicyRowWrittenCourse ==
    ASSUME SyncInvariant, NEW k \in Jobs, NEW c \in Containers, k \notin touched,
           PullPolicyCreate(k, c) \/ PullPolicyUpdate(k, c)
    PROVE  PullIsOnCourse(k)'
<1>1. /\ CallOn(k, c) /\ req[k].kind = "pull" /\ phase[k] = "syncing" /\ Applied(k, c)
      /\ c \in todo[k].write
  BY TurnIs DEF PullPolicyCreate, PullPolicyUpdate, CallOn, Turn
<1>2. /\ Outcome(k, c) = dst[k][c]
      /\ Outcome(k, c)' = src[k][c] /\ \A d : d # c => Outcome(k, d)' = Outcome(k, d)
      /\ WorkedOff(k)' = WorkedOff(k) \cup {c} /\ UNCHANGED <<phase, req, src, dst>>
  BY <1>1, AppliedOutcome
<1>3. src[k][c] \in {Generated, Retyped} /\ src[k][c] # Absent
  BY <1>1, Planned, NothingAssumption
<1>4. World /\ policy[c] = dst[k][c]
  BY <1>1, <1>2, PullKnows
<1>5. PutPolicyRow(c, src[k][c])
  BY <1>4 DEF PullPolicyCreate, PullPolicyUpdate
<1>6. /\ World' /\ (\A b \in Containers : policy'[b] = IF b = c THEN src[k][c] ELSE policy[b])
      /\ UNCHANGED <<objRow, rule>>
  BY <1>3, <1>4, <1>5, PutPolicyRowTyped DEF PutPolicyRow
<1>7. \A r \in Rules : r \notin WorkedOff(k) /\ r \notin WorkedOff(k)'
  BY <1>1, <1>2, KindsInOrder, ElementsAre DEF SyncInvariant, CourseOf
<1>8. ASSUME NEW r \in Rules PROVE PulledRule(k, r)'
  <2>1. /\ PulledRule(k, r) /\ Loaded(dst[k])
        /\ dst[k][r] # Absent => dst[k][dst[k][r].policy] # Absent
    BY <1>1, PullKnows
  <2>2. dst[k][r] # Absent => dst[k][r] \in LoadedRule /\ dst[k][r].policy \in Containers
    BY <2>1 DEF Loaded, LoadedRule
  <2>3. dst[k][r] # Absent =>
           (policy[dst[k][r].policy] = Absent => policy'[dst[k][r].policy] = Absent)
    BY <1>4, <1>6, <2>1, <2>2
  <2>4. rule[r] # Absent =>
           /\ rule[r].linked = {b \in rule[r].linked : policy'[b] # Absent}
           /\ \A s \in Sides : rule[r].members[s] = rule[r].members[s] \cap objRow'
    <3>1. rule[r] # Absent =>
             /\ \A s \in Sides : rule[r].members[s] \subseteq objRow
             /\ \A b \in rule[r].linked : b \in Containers /\ policy[b] # Absent
      BY <1>4 DEF World, RowsTyped, Rule
    <3> QED
      BY <1>3, <1>6, <3>1
  <2>5. \A s \in Sides : dst[k][r].members[s] \cap objRow' \subseteq objRow
    BY <1>6
  <2> QED
    BY <1>2, <1>4, <1>6, <1>7, <2>1, <2>2, <2>3, <2>4, <2>5, UnwrittenRule
<1>9. \A q \in Objects : q \in objRow' <=> Outcome(k, q)' # Absent
  BY <1>1, <1>2, <1>6, PullKnows, ElementsAre
<1>10. \A b \in Containers : policy'[b] = Outcome(k, b)'
  BY <1>1, <1>2, <1>6, PullKnows
<1> QED
  BY <1>1, <1>2, <1>8, <1>9, <1>10, PulledCourse

LEMMA PolicyRowDeletedCourse ==
    ASSUME SyncInvariant, NEW k \in Jobs, NEW c \in Containers, k \notin touched,
           PullPolicyDelete(k, c)
    PROVE  PullIsOnCourse(k)'
<1>1. /\ CallOn(k, c) /\ req[k].kind = "pull" /\ phase[k] = "syncing" /\ Applied(k, c)
      /\ c \in todo[k].delete /\ RemovePolicyRow(c)
  BY TurnIs DEF PullPolicyDelete, CallOn, Turn
<1>2. /\ Outcome(k, c)' = src[k][c] /\ \A d : d # c => Outcome(k, d)' = Outcome(k, d)
      /\ WorkedOff(k)' = WorkedOff(k) \cup {c} /\ UNCHANGED <<phase, req, src, dst>>
  BY <1>1, AppliedOutcome
<1>3. src[k][c] = Absent
  BY <1>1, Planned
<1>4. World
  BY TypedWorld DEF SyncInvariant
<1>5. /\ World' /\ objRow' = objRow
      /\ \A b \in Containers : policy'[b] = IF b = c THEN Absent ELSE policy[b]
      /\ \A r \in Rules : rule[r] = Absent => rule'[r] = Absent
      /\ \A r \in Rules : rule[r] # Absent =>
            /\ rule'[r] # Absent
            /\ rule'[r].request = rule[r].request /\ rule'[r].action = rule[r].action
            /\ rule'[r].log = rule[r].log /\ rule'[r].text = rule[r].text
            /\ rule'[r].intfs = rule[r].intfs /\ rule'[r].members = rule[r].members
            /\ rule'[r].linked = rule[r].linked \ {c}
  BY <1>1, <1>4, RemovePolicyRowTyped DEF RemovePolicyRow
<1>6. \A r \in Rules : r \notin WorkedOff(k) /\ r \notin WorkedOff(k)'
  BY <1>1, <1>2, KindsInOrder, ElementsAre DEF SyncInvariant, CourseOf
<1>7. ASSUME NEW r \in Rules PROVE PulledRule(k, r)'
  <2>1. PulledRule(k, r) /\ Loaded(dst[k])
    BY <1>1, PullKnows
  <2>2. dst[k][r] # Absent => dst[k][r] \in LoadedRule /\ dst[k][r].policy \in Containers
    BY <2>1 DEF Loaded, LoadedRule
  <2>3. dst[k][r] # Absent =>
           (policy[dst[k][r].policy] = Absent => policy'[dst[k][r].policy] = Absent)
    BY <1>5, <2>2
  <2>4. rule[r] # Absent =>
           /\ rule'[r].linked = {b \in rule[r].linked : policy'[b] # Absent}
           /\ \A s \in Sides : rule'[r].members[s] = rule[r].members[s] \cap objRow'
    <3>1. rule[r] # Absent =>
             /\ \A s \in Sides : rule[r].members[s] \subseteq objRow
             /\ \A b \in rule[r].linked : b \in Containers /\ policy[b] # Absent
      BY <1>4 DEF World, RowsTyped, Rule
    <3> QED
      BY <1>5, <3>1
  <2>5. \A s \in Sides : dst[k][r].members[s] \cap objRow' \subseteq objRow
    BY <1>5
  <2> QED
    BY <1>2, <1>4, <1>5, <1>6, <2>1, <2>2, <2>3, <2>4, <2>5, UnwrittenRule
<1>8. \A q \in Objects : q \in objRow' <=> Outcome(k, q)' # Absent
  BY <1>1, <1>2, <1>5, PullKnows, ElementsAre
<1>9. \A b \in Containers : policy'[b] = Outcome(k, b)'
  BY <1>1, <1>2, <1>3, <1>5, PullKnows
<1> QED
  BY <1>1, <1>2, <1>7, <1>8, <1>9, PulledCourse

\* The steps of a rule: the objects and the Policy rows are done.
LEMMA RuleStepCourse ==
    ASSUME SyncInvariant, NEW k \in Jobs, NEW r \in Rules, k \notin touched,
           CallOn(k, r), Applied(k, r), req[k].kind = "pull",
           UNCHANGED <<objRow, policy>>, \A q \in Rules : q # r => rule'[q] = rule[q],
           PulledRule(k, r)'
    PROVE  PullIsOnCourse(k)'
<1>1. /\ \A d : d # r => Outcome(k, d)' = Outcome(k, d)
      /\ WorkedOff(k)' = WorkedOff(k) \cup {r} /\ UNCHANGED <<phase, req, src, dst>>
      /\ phase[k] = "syncing"
  BY AppliedOutcome DEF CallOn
<1>2. ASSUME NEW q \in Rules PROVE PulledRule(k, q)'
  <2>1. CASE q = r
    BY <2>1
  <2>2. CASE q # r
    BY <1>1, <2>2, PullKnows, SameRule
  <2> QED
    BY <2>1, <2>2
<1>3. /\ \A o \in Objects : o \in objRow' <=> Outcome(k, o)' # Absent
      /\ \A c \in Containers : policy'[c] = Outcome(k, c)'
  BY <1>1, PullKnows, ElementsAre
<1> QED
  BY <1>1, <1>2, <1>3, PulledCourse

\* When a rule's turn has come, everything it names has a row, and the Policy
\* row of the FortiGate is there.
LEMMA MembersAreThere ==
    ASSUME SyncInvariant, NEW k \in Jobs, NEW r \in Rules, k \notin touched,
           CallOn(k, r), req[k].kind = "pull", src[k][r] # Absent
    PROVE  /\ r \in Ids /\ src[k][r] \in LoadedRule /\ src[k][r].policy = Ours
           /\ \A s \in Sides : src[k][r].members[s] \subseteq objRow
           /\ policy[Ours] = Generated
<1>1. phase[k] = "syncing" /\ \A d \in Objects \cup Containers : d \notin Pending(k)
  BY KindsInOrder DEF CallOn, SyncInvariant, CourseOf
<1>2. /\ r \in Ids /\ src[k][r] \in LoadedRule /\ src[k][r].policy = Ours
      /\ \A s \in Sides : \A o \in src[k][r].members[s] : o \in Objects /\ src[k][o] # Absent
  BY <1>1, PullKnows
<1>3. \A o \in Objects : src[k][o] # Absent => Outcome(k, o) # Absent
  BY <1>1, SettledIsThere, ElementsAre
<1>4. \A o \in Objects : src[k][o] # Absent => o \in objRow
  BY <1>1, <1>3, PullKnows
<1>5. src[k][Ours] = Generated /\ policy[Ours] = Outcome(k, Ours)
  BY <1>1, PullKnows, ElementsAre
<1>6. Outcome(k, Ours) = Generated
  BY <1>1, <1>5, SettledIsThere, ElementsAre, NothingAssumption
<1> QED
  BY <1>2, <1>4, <1>5, <1>6

LEMMA RuleCreatedCourse ==
    ASSUME SyncInvariant, NEW k \in Jobs, NEW r \in Rules, PullRuleCreate(k, r), k \notin touched
    PROVE  PullIsOnCourse(k)'
<1> DEFINE e == src[k][r]
           made == Created(e, rule[r])
<1>1. /\ CallOn(k, r) /\ req[k].kind = "pull" /\ phase[k] = "syncing" /\ Applied(k, r)
      /\ r \in todo[k].write /\ dst[k][r] = Absent /\ PutRule(r, made)
  BY TurnIs DEF PullRuleCreate, CallOn, Turn
<1>2. e # Absent
  BY <1>1, Planned
<1>3. /\ e \in LoadedRule /\ e.policy = Ours /\ policy[Ours] = Generated
      /\ \A s \in Sides : e.members[s] \subseteq objRow
  BY <1>1, <1>2, MembersAreThere
<1>4. /\ r \notin WorkedOff(k) /\ WorkedOff(k)' = WorkedOff(k) \cup {r}
      /\ UNCHANGED <<phase, req, src, dst>>
  BY <1>1, AppliedOutcome
<1>5. World /\ PulledRule(k, r)
  BY <1>1, PullKnows
<1>6. rule[r] = Absent \/ (RuleFits(rule[r]) /\ rule[r].linked = {})
  BY <1>1, <1>4, <1>5 DEF PulledRule, Visible, World, RowsTyped, RuleFits
<1>7. rule[r] = Absent \/ RuleFits(rule[r])
  BY <1>6
<1>8. /\ RuleFits(made) /\ made.request = e.name /\ made.action = e.action /\ made.log = e.log
      /\ made.intfs = e.intfs /\ made.members = FoundMembers(e.members) /\ made.text = Describe(e)
      /\ made.linked = (IF rule[r] = Absent THEN {} ELSE rule[r].linked)
                       \cup ({e.policy} \cap {c \in Containers : policy[c] # Absent})
  BY <1>3, <1>5, <1>7, CreatedRead
<1>9. e.members \in Members
  BY <1>3 DEF LoadedRule
<1>10. made.members = e.members
  BY <1>3, <1>5, <1>8, <1>9, FoundRead
<1>11. made.linked = {Ours}
  BY <1>3, <1>6, <1>8, ElementsAre, NothingAssumption
<1>12. StripName(made.request, made.text) = e.text
  BY <1>3, <1>8, StripDescribed
<1>13. made # Absent
  BY <1>8, NothingAssumption DEF RuleFits
<1>14. /\ (\A q \in Rules : rule'[q] = IF q = r THEN made ELSE rule[q])
       /\ UNCHANGED <<objRow, policy>>
  <2> HIDE DEF made
  <2>1. \A q \in Rules : rule'[q] = IF q = r THEN made ELSE rule[q]
    BY <1>1, <1>5, <1>8, PutRuleTyped
  <2> QED
    BY <1>1, <2>1 DEF PutRule
<1> HIDE DEF made
<1>15. PulledRule(k, r)'
  <2>1. rule'[r] = made /\ src'[k][r] = e /\ dst'[k][r] = Absent /\ r \in WorkedOff(k)'
    BY <1>1, <1>4, <1>14
  <2> HIDE DEF e
  <2> QED
    BY <1>2, <1>8, <1>10, <1>11, <1>12, <1>13, <2>1 DEF PulledRule
<1> QED
  BY <1>1, <1>14, <1>15, RuleStepCourse

LEMMA RuleUpdatedCourse ==
    ASSUME SyncInvariant, NEW k \in Jobs, NEW r \in Rules, PullRuleUpdate(k, r), k \notin touched
    PROVE  PullIsOnCourse(k)'
<1> DEFINE e == src[k][r]
           was == dst[k][r]
           row == rule[r]
           made == Updated(k, r)
<1>1. /\ CallOn(k, r) /\ req[k].kind = "pull" /\ phase[k] = "syncing" /\ Applied(k, r)
      /\ r \in todo[k].write /\ was # Absent
  BY TurnIs DEF PullRuleUpdate, CallOn, Turn
<1>2. e # Absent
  BY <1>1, Planned
<1>3. e \in LoadedRule /\ \A s \in Sides : e.members[s] \subseteq objRow
  BY <1>1, <1>2, MembersAreThere
<1>4. /\ r \notin WorkedOff(k) /\ WorkedOff(k)' = WorkedOff(k) \cup {r}
      /\ UNCHANGED <<phase, req, src, dst>>
  BY <1>1, AppliedOutcome
<1>5. World /\ PulledRule(k, r) /\ Loaded(dst[k])
  BY <1>1, PullKnows
<1>6. /\ row # Absent
      /\ row.request = was.name /\ row.action = was.action /\ row.log = was.log
      /\ row.members = FoundMembers(was.members) /\ row.intfs = was.intfs
      /\ StripName(row.request, row.text) = was.text
      /\ row.linked = {d \in {was.policy} : policy[d] # Absent}
  BY <1>1, <1>4, <1>5 DEF PulledRule
<1>7. PutRule(r, made)
  BY <1>6 DEF PullRuleUpdate, Updated
<1>8. /\ RuleFits(made) /\ made.request = row.request /\ made.linked = row.linked
      /\ made.action = (IF e.action = was.action THEN row.action ELSE e.action)
      /\ made.log = (IF e.log = was.log THEN row.log ELSE e.log)
      /\ made.text = (IF Redescribed(e, was) THEN Describe(e) ELSE row.text)
      /\ made.intfs = (IF Redescribed(e, was) THEN e.intfs ELSE row.intfs)
      /\ made.members = Merge(e.members, was.members, row.members)
  BY <1>3, <1>5, <1>6, UpdatedRead
<1> HIDE DEF made
<1>9. made.members = e.members
  <2>1. was \in LoadedRule
    BY <1>1, <1>5 DEF Loaded
  <2>2. was.members \in Members /\ e.members \in Members
    BY <1>3, <2>1 DEF LoadedRule
  <2>3. row.members \in Members /\ \A s \in Sides : row.members[s] = was.members[s] \cap objRow
    BY <1>5, <1>6, <2>2, FoundRead
  <2>4. \A s \in Sides : row.members[s] \subseteq objRow
    BY <2>3
  <2> QED
    BY <1>3, <1>5, <1>8, <2>2, <2>3, <2>4, MergeRead
<1>10. made.action = e.action /\ made.log = e.log
  BY <1>6, <1>8
<1>11. /\ made.intfs = e.intfs
       /\ StripName(made.request, made.text) = IF made.request = e.name THEN e.text ELSE Describe(e)
  <2>1. CASE Redescribed(e, was)
    BY <1>3, <1>8, <2>1, StripDescribed
  <2>2. CASE ~Redescribed(e, was)
    <3>1. e.name = was.name /\ e.text = was.text /\ e.intfs = was.intfs
      BY <2>2 DEF Redescribed
    <3> QED
      BY <1>6, <1>8, <2>2, <3>1
  <2> QED
    BY <2>1, <2>2
<1>12. made # Absent
  BY <1>8, NothingAssumption DEF RuleFits
<1>13. /\ (\A q \in Rules : rule'[q] = IF q = r THEN made ELSE rule[q])
       /\ UNCHANGED <<objRow, policy>>
  BY <1>5, <1>7, <1>8, PutRuleTyped DEF PutRule
<1>14. PulledRule(k, r)'
  <2>1. rule'[r] = made /\ src'[k][r] = e /\ dst'[k][r] = was /\ r \in WorkedOff(k)' /\ policy' = policy
    BY <1>1, <1>4, <1>13
  <2>2. made.request = was.name /\ made.linked = {d \in {was.policy} : policy[d] # Absent}
    BY <1>6, <1>8
  <2> HIDE DEF e, was
  <2> QED
    BY <1>1, <1>2, <1>9, <1>10, <1>11, <1>12, <2>1, <2>2 DEF PulledRule
<1> QED
  BY <1>1, <1>13, <1>14, RuleStepCourse

LEMMA RuleDeletedCourse ==
    ASSUME SyncInvariant, NEW k \in Jobs, NEW r \in Rules, PullRuleDelete(k, r), k \notin touched
    PROVE  PullIsOnCourse(k)'
<1>1. /\ CallOn(k, r) /\ req[k].kind = "pull" /\ phase[k] = "syncing" /\ Applied(k, r)
      /\ r \in todo[k].delete /\ PutRule(r, Absent)
  BY TurnIs DEF PullRuleDelete, CallOn, Turn
<1>2. src[k][r] = Absent
  BY <1>1, Planned
<1>3. WorkedOff(k)' = WorkedOff(k) \cup {r} /\ UNCHANGED <<phase, req, src, dst>>
  BY <1>1, AppliedOutcome
<1>4. World
  BY <1>1, PullKnows
<1>5. /\ (\A q \in Rules : rule'[q] = IF q = r THEN Absent ELSE rule[q])
      /\ UNCHANGED <<objRow, policy>>
  <2>1. \A q \in Rules : rule'[q] = IF q = r THEN Absent ELSE rule[q]
    BY <1>1, <1>4, PutRuleTyped
  <2> QED
    BY <1>1, <2>1 DEF PutRule
<1>6. PulledRule(k, r)'
  BY <1>2, <1>3, <1>5 DEF PulledRule
<1> QED
  BY <1>1, <1>5, <1>6, RuleStepCourse

LEMMA PullCourse ==
    ASSUME SyncInvariant, NEW k \in Jobs, CourseOf(k), Pull(k), ~Raised(k)
    PROVE  CourseOf(k)'
<1>0. /\ phase[k] = "syncing" /\ req[k].kind = "pull" /\ UNCHANGED deviceVars
      /\ (\E e \in Elements : CallOn(k, e) /\ Applied(k, e)) \/ (\E r \in Rules : CutShort(k, r))
  BY PullCalls
<1>1. CASE \E r \in Rules : CutShort(k, r)
  <2>1. phase'[k] = "crashed"
    BY <1>1 DEF CutShort, Advance, SyncInvariant, TypeOK
  <2> QED
    BY <2>1 DEF CourseOf, PlanFollowsDiff, SourceIsCurrent, TargetIsCurrent, PullIsOnCourse,
                PushIsOnCourse, Applying
<1>2. CASE ~\E r \in Rules : CutShort(k, r)
  <2>1. PICK e \in Elements : CallOn(k, e) /\ Applied(k, e)
    BY <1>0, <1>2
  <2>2. UNCHANGED <<phase, req, src, dst>> /\ (k \notin touched' => k \notin touched)
    BY <2>1, AppliedOutcome
  <2>3. PlanFollowsDiff(k)'
    BY <2>1, AppliedPlan
  <2>4. SourceIsCurrent(k)'
    <3>1. SourceKind(k) = "device"
      BY <1>0 DEF SourceKind
    <3> QED
      BY <1>0, <2>2, <3>1, SourceKept DEF CourseOf, Stopped
  <2>5. TargetIsCurrent(k)'
    BY <1>0, <2>2 DEF TargetIsCurrent
  <2>6. PushIsOnCourse(k)'
    BY <1>0, <2>2 DEF PushIsOnCourse
  <2>7. PullIsOnCourse(k)'
    <3>1. CASE k \in touched'
      BY <3>1 DEF PullIsOnCourse
    <3>2. CASE k \notin touched'
      <4>1. k \notin touched
        BY <2>2, <3>2
      <4>2. ASSUME NEW o \in Objects, PullObjectDelete(k, o) PROVE PullIsOnCourse(k)'
        <5>1. Turn(k, "pull", "delete", o) /\ RemoveObjectRow(o) /\ Applied(k, o)
          BY <4>2 DEF PullObjectDelete
        <5> QED
          BY <4>1, <5>1, ObjectDeletedCourse
      <4> QED
        BY <1>2, <4>1, <4>2, ObjectCreatedCourse, PolicyRowWrittenCourse, PolicyRowDeletedCourse,
           RuleCreatedCourse, RuleUpdatedCourse, RuleDeletedCourse DEF Pull
    <3> QED
      BY <3>1, <3>2
  <2> QED
    BY <2>3, <2>4, <2>5, <2>6, <2>7 DEF CourseOf
<1> QED
  BY <1>1, <1>2

----------------------------------------------------------------------------
(* Pushing.                                                                *)

LEMMA PushKnows ==
    ASSUME SyncInvariant, NEW k \in Jobs, phase[k] \in {"syncing", "done"}, req[k].kind = "push",
           k \notin touched
    PROVE  /\ World /\ Loaded(src[k]) /\ Loaded(dst[k])
           /\ \A e \in Elements : src[k][e] = Store("rows")[e]
           /\ \A o \in Objects : src[k][o] # Absent <=> o \in objRow
           /\ \A r \in Rules : src[k][r] = IF Visible(r) THEN RowRule(r) ELSE Absent
           /\ \A r \in Rules : src[k][r] # Absent =>
                 /\ src[k][r] \in LoadedRule
                 /\ \A s \in Sides : \A o \in src[k][r].members[s] :
                       o \in Objects /\ src[k][o] # Absent
           /\ \A o \in Objects : obj[o] = "readable" <=> Outcome(k, o) # Absent
           /\ \A id \in Ids : PushedPolicy(k, id)
           /\ \A r \in Odd : dst[k][r] = Absent
<1>1. World /\ Loaded(src[k]) /\ Loaded(dst[k])
  BY TypedWorld DEF SyncInvariant, TypeOK
<1>2. SourceKind(k) = "rows"
  BY DEF SourceKind
<1>3. \A e \in Elements : src[k][e] = Store("rows")[e]
  BY <1>2 DEF SyncInvariant, SourceIsCurrent, IsCurrent
<1>4. /\ \A o \in Objects : src[k][o] # Absent <=> o \in objRow
      /\ \A r \in Rules : src[k][r] = IF Visible(r) THEN RowRule(r) ELSE Absent
  BY <1>3, RowStoreRead, ElementsAre
<1>5. ASSUME NEW r \in Rules, src[k][r] # Absent
      PROVE  /\ src[k][r] \in LoadedRule
             /\ \A s \in Sides : \A o \in src[k][r].members[s] : o \in Objects /\ src[k][o] # Absent
  <2>1. Visible(r) /\ src[k][r] = RowRule(r)
    BY <1>4, <1>5
  <2>2. /\ RowRule(r) \in LoadedRule /\ RowRule(r).members = rule[r].members
        /\ \A s \in Sides : rule[r].members[s] \subseteq objRow
    BY <1>1, <2>1, RowRuleRead DEF World
  <2>3. objRow \subseteq Objects
    BY <1>1 DEF World, RowsTyped
  <2> QED
    BY <1>4, <2>1, <2>2, <2>3
<1>6. PushIsOnCourse(k) /\ phase[k] \in Applying
  BY DEF SyncInvariant, Applying
<1> QED
  BY <1>1, <1>3, <1>4, <1>5, <1>6 DEF PushIsOnCourse

\* A policy reads the same while it, and which of its members can be read,
\* are the same.
LEMMA FgtRuleKept ==
    ASSUME DeviceTyped(obj, pol), NEW id \in Ids, pol[id] # Absent, pol'[id] = pol[id],
           \A s \in Sides : \A o \in pol[id].members[s] : obj'[o] = "readable" <=> obj[o] = "readable"
    PROVE  FgtRule(id, LoadedObjects("device"))' = FgtRule(id, LoadedObjects("device"))
<1>1. \A s \in Sides : pol[id].members[s] \subseteq Objects
  BY DEF DeviceTyped, Policy, Members
<1>2. \A o \in Objects : (LoadedObjects("device")[o] # Absent) <=> obj[o] = "readable"
  BY LoadedObjectsRead
<1>3. \A o \in Objects : (LoadedObjects("device")'[o] # Absent) <=> obj'[o] = "readable"
  BY NothingAssumption DEF LoadedObjects
<1>4. \A s \in Sides : {o \in pol[id].members[s] : LoadedObjects("device")'[o] # Absent}
                        = {o \in pol[id].members[s] : LoadedObjects("device")[o] # Absent}
  BY <1>1, <1>2, <1>3
<1>5. [s \in Sides |-> {o \in pol[id].members[s] : LoadedObjects("device")'[o] # Absent}]
       = [s \in Sides |-> {o \in pol[id].members[s] : LoadedObjects("device")[o] # Absent}]
  BY <1>4
<1>6. FgtRule(id, LoadedObjects("device"))' =
         [policy |-> Ours, name |-> pol[id].name, action |-> FortiosAction(pol[id].action),
          log |-> pol[id].log,
          members |-> [s \in Sides |-> {o \in pol[id].members[s] : LoadedObjects("device")'[o] # Absent}],
          text |-> pol[id].comment \o ActionNote(pol[id].action), intfs |-> pol[id].intfs]
  BY DEF FgtRule
<1> QED
  BY <1>5, <1>6 DEF FgtRule

\* A policy a call is not for stays as it is.
LEMMA SamePolicy ==
    ASSUME World, NEW k \in Jobs, NEW id \in Ids, PushedPolicy(k, id),
           (id \in WorkedOff(k)') <=> (id \in WorkedOff(k)), UNCHANGED <<src, dst>>,
           pol'[id] = pol[id],
           pol[id] # Absent => \A s \in Sides : \A o \in pol[id].members[s] :
                                  obj'[o] = "readable" <=> obj[o] = "readable"
    PROVE  PushedPolicy(k, id)'
<1>1. CASE pol[id] = Absent
  BY <1>1 DEF PushedPolicy
<1>2. CASE pol[id] # Absent
  <2>1. FgtRule(id, LoadedObjects("device"))' = FgtRule(id, LoadedObjects("device"))
    BY <1>2, FgtRuleKept DEF World
  <2>2. \A s \in Sides : {o \in pol[id].members[s] : obj'[o] = "readable"}
                          = {o \in pol[id].members[s] : obj[o] = "readable"}
    BY <1>2
  <2> QED
    BY <1>2, <2>1, <2>2 DEF PushedPolicy
<1> QED
  BY <1>1, <1>2

LEMMA PushedCourse ==
    ASSUME SyncInvariant, NEW k \in Jobs, phase[k] = "syncing", req[k].kind = "push",
           k \notin touched, UNCHANGED <<phase, req, src, dst>>,
           \A o \in Objects : obj'[o] = "readable" <=> Outcome(k, o)' # Absent,
           \A id \in Ids : PushedPolicy(k, id)'
    PROVE  PushIsOnCourse(k)'
BY PushKnows DEF PushIsOnCourse

LEMMA ObjectPushedCourse ==
    ASSUME SyncInvariant, NEW k \in Jobs, NEW o \in Objects, k \notin touched,
           PushObjectCreate(k, o) \/ PushObjectDelete(k, o), ~Raised(k)
    PROVE  PushIsOnCourse(k)'
<1>1. /\ CallOn(k, o) /\ req[k].kind = "push" /\ phase[k] = "syncing" /\ Applied(k, o)
      /\ \/ o \in todo[k].write /\ obj[o] = Absent /\ PutObject(o, "readable")
         \/ o \in todo[k].delete /\ ~InUse(o) /\ PutObject(o, Absent)
  BY TurnIs DEF PushObjectCreate, PushObjectDelete, Call, CallOn, Turn
<1>2. PICK v \in {"readable", Absent} :
         /\ PutObject(o, v)
         /\ v = Absent => ~InUse(o)
         /\ v = "readable" => o \in todo[k].write /\ obj[o] = Absent
         /\ v = Absent => o \in todo[k].delete
  BY <1>1, NothingAssumption
<1>3. World
  BY TypedWorld DEF SyncInvariant
<1>4. (\A q \in Objects : obj'[q] = IF q = o THEN v ELSE obj[q]) /\ pol' = pol
  <2>1. v \in {"readable", "unreadable", Absent}
    OBVIOUS
  <2>2. \A q \in Objects : obj'[q] = IF q = o THEN v ELSE obj[q]
    BY <1>2, <1>3, <2>1, PutObjectTyped
  <2> QED
    BY <1>2, <2>2 DEF PutObject
<1>5. /\ Outcome(k, o)' = src[k][o] /\ \A d : d # o => Outcome(k, d)' = Outcome(k, d)
      /\ WorkedOff(k)' = WorkedOff(k) \cup {o} /\ UNCHANGED <<phase, req, src, dst>>
  BY <1>1, AppliedOutcome
<1>6. src[k][o] # Absent <=> v = "readable"
  BY <1>1, <1>2, Planned, NothingAssumption
<1>7. \A q \in Objects : obj'[q] = "readable" <=> Outcome(k, q)' # Absent
  BY <1>1, <1>4, <1>5, <1>6, PushKnows
<1>8. ASSUME NEW id \in Ids PROVE PushedPolicy(k, id)'
  <2>1. PushedPolicy(k, id) /\ id # o
    BY <1>1, PushKnows, ElementsAre
  <2>2. pol[id] # Absent => \A s \in Sides : o \notin pol[id].members[s]
    BY <1>2, <1>3 DEF InUse, World, DeviceTyped
  <2>3. pol[id] # Absent => \A s \in Sides : pol[id].members[s] \subseteq Objects
    BY <1>3 DEF World, DeviceTyped, Policy, Members
  <2>4. pol[id] # Absent => \A s \in Sides : \A q \in pol[id].members[s] :
                               obj'[q] = "readable" <=> obj[q] = "readable"
    BY <1>4, <2>2, <2>3
  <2> QED
    BY <1>3, <1>4, <1>5, <2>1, <2>4, SamePolicy
<1> QED
  BY <1>1, <1>5, <1>7, <1>8, PushedCourse

\* The steps that are not for an object.
LEMMA PolicyStepCourse ==
    ASSUME SyncInvariant, NEW k \in Jobs, NEW e \in Containers \cup Rules, k \notin touched,
           CallOn(k, e), Applied(k, e), req[k].kind = "push",
           obj' = obj, \A id \in Ids : id # e => pol'[id] = pol[id],
           e \in Ids => PushedPolicy(k, e)'
    PROVE  PushIsOnCourse(k)'
<1>1. /\ \A d : d # e => Outcome(k, d)' = Outcome(k, d)
      /\ WorkedOff(k)' = WorkedOff(k) \cup {e} /\ UNCHANGED <<phase, req, src, dst>>
      /\ phase[k] = "syncing"
  BY AppliedOutcome DEF CallOn
<1>2. ASSUME NEW id \in Ids PROVE PushedPolicy(k, id)'
  <2>1. CASE id = e
    BY <2>1
  <2>2. CASE id # e
    BY <1>1, <2>2, PushKnows, SamePolicy
  <2> QED
    BY <2>1, <2>2
<1>3. \A o \in Objects : obj'[o] = "readable" <=> Outcome(k, o)' # Absent
  BY <1>1, PushKnows, ElementsAre
<1> QED
  BY <1>1, <1>2, <1>3, PushedCourse

\* When a rule's turn has come, the device has everything it names.
LEMMA MembersAreReadable ==
    ASSUME SyncInvariant, NEW k \in Jobs, NEW r \in Rules, k \notin touched,
           CallOn(k, r), req[k].kind = "push", src[k][r] # Absent
    PROVE  /\ src[k][r] \in LoadedRule
           /\ \A s \in Sides : \A o \in src[k][r].members[s] : o \in Objects /\ obj[o] = "readable"
           /\ NamesExist(src[k][r].members)
<1>1. phase[k] = "syncing" /\ \A d \in Objects \cup Containers : d \notin Pending(k)
  BY KindsInOrder DEF CallOn, SyncInvariant, CourseOf
<1>2. /\ src[k][r] \in LoadedRule
      /\ \A s \in Sides : \A o \in src[k][r].members[s] : o \in Objects /\ src[k][o] # Absent
  BY <1>1, PushKnows
<1>3. \A o \in Objects : src[k][o] # Absent => Outcome(k, o) # Absent
  BY <1>1, SettledIsThere, ElementsAre
<1>4. \A o \in Objects : src[k][o] # Absent => obj[o] = "readable"
  BY <1>1, <1>3, PushKnows
<1> QED
  BY <1>2, <1>4, NothingAssumption DEF NamesExist

LEMMA PolicyCreatedCourse ==
    ASSUME SyncInvariant, NEW k \in Jobs, NEW r \in Ids, k \notin touched,
           Turn(k, "push", "write", r), dst[k][r] = Absent, PutPolicy(r, Posted(src[k][r])),
           Applied(k, r)
    PROVE  PushIsOnCourse(k)'
<1> DEFINE e == src[k][r]
<1>1. CallOn(k, r) /\ req[k].kind = "push" /\ phase[k] = "syncing" /\ r \in todo[k].write /\ r \in Rules
  BY TurnIs, ElementsAre DEF CallOn, Turn
<1>2. e # Absent
  BY <1>1, Planned
<1>3. /\ e \in LoadedRule /\ NamesExist(e.members)
      /\ \A s \in Sides : \A o \in e.members[s] : o \in Objects /\ obj[o] = "readable"
  BY <1>1, <1>2, MembersAreReadable
<1>4. World
  BY TypedWorld DEF SyncInvariant
<1>5. /\ Posted(e) \in Policy /\ PolicyFits(Posted(e))
      /\ Posted(e).action = ActionToFortios(e.action) /\ Posted(e).log = e.log
      /\ Posted(e).members = e.members
  BY <1>3, <1>4, PostedRead
<1>6. (\A id \in Ids : pol'[id] = IF id = r THEN Posted(e) ELSE pol[id]) /\ obj' = obj
  <2> HIDE DEF e
  <2>1. PutPolicy(r, Posted(e))
    BY DEF e
  <2>2. \A id \in Ids : pol'[id] = IF id = r THEN Posted(e) ELSE pol[id]
    BY <1>4, <1>5, <2>1, PutPolicyTyped
  <2> QED
    BY <2>1, <2>2 DEF PutPolicy
<1>7. WorkedOff(k)' = WorkedOff(k) \cup {r} /\ UNCHANGED <<phase, req, src, dst>>
  BY <1>1, AppliedOutcome
<1>8. PushedPolicy(k, r)'
  <2>1. /\ pol'[r] = Posted(e) /\ src'[k][r] = e /\ r \in WorkedOff(k)' /\ obj' = obj
        /\ Posted(e) # Absent
    BY <1>5, <1>6, <1>7, NothingAssumption
  <2>2. \A s \in Sides : {o \in Posted(e).members[s] : obj[o] = "readable"} = e.members[s]
    BY <1>3, <1>5
  <2>3. FortiosAction(Posted(e).action) = IF e.action = "allow" THEN "allow" ELSE "deny"
    BY <1>5, ActionsTranslated
  <2>4. Posted(e)' = Posted(e)
    BY <1>7 DEF Posted
  <2> HIDE DEF e
  <2>5. \A p : p = Posted(e) => p # Absent /\ p.log = e.log
    BY <1>5, <2>1
  <2> QED
    BY <1>2, <1>7, <2>1, <2>2, <2>3, <2>4, <2>5 DEF PushedPolicy
<1> QED
  BY <1>1, <1>6, <1>8, PolicyStepCourse

\* A PUT of what differs leaves what reads back as the rule.
LEMMA PutIsMirror ==
    ASSUME World, NEW id \in Ids, pol[id] # Absent, NEW e \in LoadedRule, NEW was,
           was = FgtRule(id, LoadedObjects("device")),
           \A s \in Sides : \A o \in e.members[s] : o \in Objects /\ obj[o] = "readable"
    PROVE  LET p == Put(e, was, pol[id]) IN
           /\ PolicyFits(p) /\ p # Absent
           /\ \A s \in Sides : {o \in p.members[s] : obj[o] = "readable"} = e.members[s]
           /\ FortiosAction(p.action) = (IF e.action = "allow" THEN "allow" ELSE "deny")
           /\ p.log = e.log
<1>1. /\ pol[id] \in Policy /\ was.action = FortiosAction(pol[id].action)
      /\ was.action \in {"allow", "deny"} /\ was.log = pol[id].log
      /\ \A s \in Sides :
            was.members[s] = {o \in pol[id].members[s] : LoadedObjects("device")[o] # Absent}
  BY FgtRuleRead DEF World
<1>2. \A s \in Sides : pol[id].members[s] \subseteq Objects
  BY <1>1 DEF Policy, Members
<1>3. \A s \in Sides : was.members[s] = {o \in pol[id].members[s] : obj[o] = "readable"}
  BY <1>1, <1>2, LoadedObjectsRead
<1> DEFINE p == Put(e, was, pol[id])
<1>4. /\ p \in Policy /\ NamesExist(Changed(e, was)) => PolicyFits(p)
  BY <1>1, PutRead
<1>5. /\ p.action = (IF e.action = was.action THEN pol[id].action ELSE ActionToFortios(e.action))
      /\ p.log = (IF e.log = was.log THEN pol[id].log ELSE e.log)
      /\ \A s \in Sides : p.members[s] =
            IF e.members[s] = was.members[s] THEN pol[id].members[s] ELSE e.members[s]
  BY <1>1, PutRead
<1>6. p \in Policy
  BY <1>1, PutRead
<1> HIDE DEF p
<1>7. NamesExist(Changed(e, was))
  BY NothingAssumption DEF NamesExist, Changed
<1>8. \A s \in Sides : {o \in p.members[s] : obj[o] = "readable"} = e.members[s]
  BY <1>3, <1>5
<1>9. FortiosAction(p.action) = (IF e.action = "allow" THEN "allow" ELSE "deny")
  BY <1>1, <1>5, ActionsTranslated
<1>10. p.log = e.log
  BY <1>1, <1>5
<1>11. PolicyFits(p) /\ p # Absent
  BY <1>4, <1>6, <1>7, NothingAssumption
<1> QED
  BY <1>8, <1>9, <1>10, <1>11 DEF p

LEMMA PolicyUpdatedCourse ==
    ASSUME SyncInvariant, NEW k \in Jobs, NEW r \in Rules, k \notin touched,
           PushRuleUpdate(k, r), ~Raised(k)
    PROVE  PushIsOnCourse(k)'
<1> DEFINE e == src[k][r]
           was == dst[k][r]
<1>1. /\ CallOn(k, r) /\ req[k].kind = "push" /\ phase[k] = "syncing" /\ Applied(k, r)
      /\ r \in todo[k].write /\ was # Absent
      /\ \/ /\ <<e.action, e.log, e.members>> = <<was.action, was.log, was.members>>
            /\ UNCHANGED worldVars
         \/ PutPolicy(r, Put(e, was, pol[r]))
  BY TurnIs DEF PushRuleUpdate, Call, CallOn, Turn
<1>2. e # Absent /\ World
  BY <1>1, Planned, TypedWorld DEF SyncInvariant
<1>3. r \in Ids
  BY <1>1, PushKnows DEF Rules
<1>4. /\ e \in LoadedRule
      /\ \A s \in Sides : \A o \in e.members[s] : o \in Objects /\ obj[o] = "readable"
  BY <1>1, <1>2, MembersAreReadable
<1>5. /\ r \notin WorkedOff(k) /\ WorkedOff(k)' = WorkedOff(k) \cup {r}
      /\ UNCHANGED <<phase, req, src, dst>>
  BY <1>1, AppliedOutcome
<1>6. pol[r] # Absent /\ was = FgtRule(r, LoadedObjects("device"))
  <2>1. PushedPolicy(k, r)
    BY <1>1, <1>3, PushKnows
  <2> QED
    BY <1>1, <1>5, <2>1 DEF PushedPolicy
<1>7. PICK p :
         /\ \/ p = Put(e, was, pol[r]) /\ PutPolicy(r, p)
            \/ /\ p = pol[r] /\ UNCHANGED worldVars
               /\ <<e.action, e.log, e.members>> = <<was.action, was.log, was.members>>
  BY <1>1
<1> DEFINE Mirror(q) ==
      /\ q # Absent
      /\ \A s \in Sides : {o \in q.members[s] : obj[o] = "readable"} = e.members[s]
      /\ FortiosAction(q.action) = (IF e.action = "allow" THEN "allow" ELSE "deny")
      /\ q.log = e.log
<1>8. Mirror(p) /\ (\A id \in Ids : pol'[id] = IF id = r THEN p ELSE pol[id]) /\ obj' = obj
  <2>1. CASE p = Put(e, was, pol[r]) /\ PutPolicy(r, p)
    <3>1. PolicyFits(p) /\ Mirror(p)
      BY <1>2, <1>3, <1>4, <1>6, <2>1, PutIsMirror
    <3>2. \A id \in Ids : pol'[id] = IF id = r THEN p ELSE pol[id]
      BY <1>2, <1>3, <2>1, <3>1, PutPolicyTyped
    <3> QED
      BY <2>1, <3>1, <3>2 DEF PutPolicy
  <2>2. CASE /\ p = pol[r] /\ UNCHANGED worldVars
             /\ <<e.action, e.log, e.members>> = <<was.action, was.log, was.members>>
    <3>1. e.action = was.action /\ e.log = was.log /\ e.members = was.members
      BY <2>2
    <3>2. /\ pol[r] \in Policy /\ was.action = FortiosAction(pol[r].action)
          /\ was.action \in {"allow", "deny"} /\ was.log = pol[r].log
          /\ \A s \in Sides :
                was.members[s] = {o \in pol[r].members[s] : LoadedObjects("device")[o] # Absent}
      BY <1>2, <1>3, <1>6, FgtRuleRead DEF World
    <3>3. \A s \in Sides : pol[r].members[s] \subseteq Objects
      BY <3>2 DEF Policy, Members
    <3>4. \A s \in Sides : was.members[s] = {o \in pol[r].members[s] : obj[o] = "readable"}
      BY <3>2, <3>3, LoadedObjectsRead
    <3>5. Mirror(p)
      BY <1>6, <2>2, <3>1, <3>2, <3>4
    <3> QED
      BY <2>2, <3>5 DEF worldVars, deviceVars
  <2> QED
    BY <1>7, <2>1, <2>2
<1>9. PushedPolicy(k, r)'
  <2>1. /\ pol'[r] = p /\ src'[k][r] = e /\ dst'[k][r] = was /\ r \in WorkedOff(k)' /\ obj' = obj
    BY <1>3, <1>5, <1>8
  <2>2. /\ p # Absent
        /\ \A s \in Sides : {o \in p.members[s] : obj[o] = "readable"} = e.members[s]
        /\ FortiosAction(p.action) = (IF e.action = "allow" THEN "allow" ELSE "deny")
        /\ p.log = e.log
    BY <1>8
  <2> HIDE DEF e, was
  <2> QED
    BY <1>1, <1>2, <2>1, <2>2 DEF PushedPolicy
<1> QED
  BY <1>1, <1>3, <1>8, <1>9, PolicyStepCourse

LEMMA PolicyDeletedCourse ==
    ASSUME SyncInvariant, NEW k \in Jobs, NEW r \in Rules, k \notin touched,
           PushRuleDelete(k, r), ~Raised(k)
    PROVE  PushIsOnCourse(k)'
<1>1. /\ CallOn(k, r) /\ req[k].kind = "push" /\ phase[k] = "syncing" /\ Applied(k, r)
      /\ r \in todo[k].delete /\ PutPolicy(r, Absent)
  BY TurnIs DEF PushRuleDelete, Call, CallOn, Turn
<1>2. src[k][r] = Absent /\ dst[k][r] # Absent /\ World
  BY <1>1, Planned, TypedWorld DEF SyncInvariant
<1>3. r \in Ids
  BY <1>1, <1>2, PushKnows DEF Rules
<1>4. WorkedOff(k)' = WorkedOff(k) \cup {r} /\ UNCHANGED <<phase, req, src, dst>>
  BY <1>1, AppliedOutcome
<1>5. (\A id \in Ids : pol'[id] = IF id = r THEN Absent ELSE pol[id]) /\ obj' = obj
  <2>1. \A id \in Ids : pol'[id] = IF id = r THEN Absent ELSE pol[id]
    BY <1>1, <1>2, <1>3, PutPolicyTyped
  <2> QED
    BY <1>1, <2>1 DEF PutPolicy
<1>6. PushedPolicy(k, r)'
  BY <1>2, <1>3, <1>4, <1>5 DEF PushedPolicy
<1> QED
  BY <1>1, <1>3, <1>5, <1>6, PolicyStepCourse

LEMMA PushOnCourse ==
    ASSUME SyncInvariant, NEW k \in Jobs, Push(k), ~Raised(k), k \notin touched
    PROVE  PushIsOnCourse(k)'
<1>1. ASSUME NEW o \in Objects, PushObjectCreate(k, o) \/ PushObjectDelete(k, o)
      PROVE  PushIsOnCourse(k)'
  BY <1>1, ObjectPushedCourse
<1>2. ASSUME NEW c \in Containers, PushPolicy(k, c) PROVE PushIsOnCourse(k)'
  <2>1. CallOn(k, c) /\ Applied(k, c) /\ req[k].kind = "push" /\ obj' = obj /\ pol' = pol
    BY <1>2, TurnIs DEF PushPolicy, worldVars, deviceVars
  <2> QED
    BY <2>1, PolicyStepCourse, ElementsAre
<1>3. ASSUME NEW r \in Rules, PushRuleCreate(k, r) PROVE PushIsOnCourse(k)'
  <2>1. Turn(k, "push", "write", r) /\ dst[k][r] = Absent /\ CallOn(k, r) /\ req[k].kind = "push"
    BY <1>3, TurnIs DEF PushRuleCreate
  <2>2. \/ r \in Odd /\ UNCHANGED worldVars /\ Applied(k, r)
        \/ r \in Ids /\ PutPolicy(r, Posted(src[k][r])) /\ Applied(k, r)
    BY <1>3 DEF PushRuleCreate, Call
  <2>3. CASE r \in Odd /\ UNCHANGED worldVars /\ Applied(k, r)
    <3>1. obj' = obj /\ pol' = pol /\ r \notin Ids
      BY <2>3, ElementsAre DEF worldVars, deviceVars
    <3> QED
      BY <2>1, <2>3, <3>1, PolicyStepCourse
  <2> QED
    BY <2>1, <2>2, <2>3, PolicyCreatedCourse
<1> QED
  BY <1>1, <1>2, <1>3, PolicyUpdatedCourse, PolicyDeletedCourse DEF Push

LEMMA PushCourse ==
    ASSUME SyncInvariant, NEW k \in Jobs, CourseOf(k), Push(k), ~Raised(k)
    PROVE  CourseOf(k)'
<1>1. /\ phase[k] = "syncing" /\ req[k].kind = "push" /\ UNCHANGED rowVars
  BY PushCalls
<1>2. PICK e \in Elements : CallOn(k, e) /\ Applied(k, e)
  BY PushCalls
<1>3. UNCHANGED <<phase, req, src, dst>> /\ (k \notin touched' => k \notin touched)
  BY <1>2, AppliedOutcome
<1>4. PlanFollowsDiff(k)'
  BY <1>2, AppliedPlan
<1>5. SourceIsCurrent(k)'
  <2>1. SourceKind(k) = "rows"
    BY <1>1 DEF SourceKind
  <2> QED
    BY <1>1, <1>3, <2>1, SourceKept DEF CourseOf, Stopped
<1>6. TargetIsCurrent(k)'
  BY <1>1, <1>3 DEF TargetIsCurrent
<1>7. PullIsOnCourse(k)'
  BY <1>1, <1>3 DEF PullIsOnCourse
<1>8. PushIsOnCourse(k)'
  <2>1. CASE k \in touched'
    BY <2>1 DEF PushIsOnCourse
  <2>2. CASE k \notin touched'
    BY <1>3, <2>2, PushOnCourse
  <2> QED
    BY <2>1, <2>2
<1> QED
  BY <1>4, <1>5, <1>6, <1>7, <1>8 DEF CourseOf

----------------------------------------------------------------------------
(* The inductive invariant.                                                *)

LEMMA InitTyped == Init => TypeOK
<1> SUFFICES ASSUME Init PROVE TypeOK
  OBVIOUS
<1>1. DeviceTyped(obj, pol) /\ RowsTyped(objRow, policy, rule)
  BY WorldsAssumption DEF Init
<1>2. /\ phase \in [Jobs -> Idle \cup Running] /\ req \in [Jobs -> Requests]
      /\ src = [j \in Jobs |-> src[j]] /\ dst = [j \in Jobs |-> dst[j]]
      /\ todo \in [Jobs -> [write : SUBSET Elements, delete : SUBSET Elements]]
  BY DEF Init, Idle, Requests, NoWork
<1>3. \A j \in Jobs : Loaded(src[j]) /\ Loaded(dst[j])
  BY EmptyLoaded DEF Init
<1>4. touched \subseteq Jobs /\ edits \in 0..MaxEdits /\ runs \in 0..MaxRuns
  BY ConstantsAssumption DEF Init
<1> QED
  BY <1>1, <1>2, <1>3, <1>4 DEF TypeOK

LEMMA OwnStepCourse ==
    ASSUME SyncInvariant, NEW k \in Jobs, CourseOf(k), StepOf(k)
    PROVE  CourseOf(k)'
<1>1. CASE Finish(k) \/ Crash(k) \/ Raised(k)
  BY <1>1, EndCourse
<1>2. CASE ~Raised(k)
  BY <1>2, StartCourse, LoadCourse, ExecuteSyncCourse, PullCourse, PushCourse, EndCourse DEF StepOf
<1> QED
  BY <1>1, <1>2

\* In every behaviour, whatever jobs and operators do in between: the side an
\* undisturbed job writes reads as its adapters and the rest of its plan say,
\* and no policy, rule or relation refers to what does not exist.
THEOREM SyncInvariantHolds == Spec => []SyncInvariant
<1>1. Init => SyncInvariant
  <2> SUFFICES ASSUME Init, NEW j \in Jobs PROVE CourseOf(j)
    BY InitTyped DEF SyncInvariant, CourseOf
  <2>1. phase[j] = "idle"
    BY DEF Init
  <2> QED
    BY <2>1 DEF CourseOf, PlanFollowsDiff, SourceIsCurrent, TargetIsCurrent, PullIsOnCourse,
                PushIsOnCourse, Applying
<1>2. SyncInvariant /\ [Next]_vars => SyncInvariant'
  <2> SUFFICES ASSUME SyncInvariant, [Next]_vars, NEW k \in Jobs PROVE CourseOf(k)'
    BY StepTyped DEF SyncInvariant, CourseOf
  <2>0. CourseOf(k)
    BY DEF SyncInvariant, CourseOf
  <2>1. CASE StepOf(k)
    BY <2>0, <2>1, OwnStepCourse
  <2>2. CASE ~StepOf(k)
    BY <2>0, <2>2, OthersStep, SameCourse
  <2> QED
    BY <2>1, <2>2
<1> QED
  BY <1>1, <1>2, PTL DEF Spec

\* Every variable keeps its type; a policy never names an object the device
\* does not have, a rule never one without a row, and it never hangs on a
\* Policy row that is gone.
THEOREM TypesHold == Spec => []TypeOK
<1>1. SyncInvariant => TypeOK
  BY DEF SyncInvariant
<1> QED
  BY <1>1, SyncInvariantHolds, PTL

----------------------------------------------------------------------------
(* Why an undisturbed job dies.                                            *)

Explained(j) ==
    \/ LoadRaises("rows")
    \/ /\ req[j].kind = "pull" /\ req[j].delete
       /\ \E o \in todo[j].delete \cap Objects : Protected(o)
    \/ /\ req[j].kind = "push"
       /\ \/ \E o \in todo[j].write \cap Objects : obj[o] = "unreadable"
          \/ \E r \in todo[j].write \cap Ids : MayRefuse(src[j][r].members)
          \/ req[j].delete /\ \E o \in todo[j].delete \cap Objects : InUse(o)

LEMMA SameExplanation ==
    ASSUME NEW k \in Jobs, Explained(k), UNCHANGED worldVars,
           req'[k] = req[k], todo'[k] = todo[k], src'[k] = src[k]
    PROVE  Explained(k)'
BY DEF Explained, LoadRaises, Protected, InUse, MayRefuse, worldVars, deviceVars, rowVars

LEMMA PulledObjectRefused ==
    ASSUME SyncInvariant, NEW k \in Jobs, Pull(k), Raised(k)
    PROVE  Explained(k)
<1>1. phase[k] = "syncing" /\ phase \in [Jobs -> Idle \cup Running]
  BY PullCalls DEF SyncInvariant, TypeOK
<1>2. (\A e : ~Applied(k, e)) /\ (\A r : ~CutShort(k, r))
  BY <1>1 DEF Raised, Applied, CutShort, Advance
<1>3. PICK o \in Objects : PullObjectDelete(k, o)
  BY <1>2 DEF Pull, PullObjectCreate, PullPolicyCreate, PullPolicyUpdate, PullPolicyDelete,
              PullRuleCreate, PullRuleUpdate, PullRuleDelete
<1>4. req[k].kind = "pull" /\ o \in todo[k].delete /\ Protected(o)
  BY <1>2, <1>3 DEF PullObjectDelete, Turn
<1> QED
  BY <1>1, <1>4, Planned DEF Explained

\* While a rule is pushed, the device has its policy if and only if the target
\* adapter loaded it.
LEMMA PolicyIsAsLoaded ==
    ASSUME SyncInvariant, NEW k \in Jobs, k \notin touched, NEW id \in Ids,
           CallOn(k, id), req[k].kind = "push"
    PROVE  (pol[id] = Absent) <=> (dst[k][id] = Absent)
<1>1. phase[k] = "syncing" /\ id \notin WorkedOff(k)
  BY DEF CallOn, WorkedOff
<1>2. World /\ PushedPolicy(k, id)
  BY <1>1, PushKnows
<1>3. dst[k][id] = IF pol[id] = Absent THEN Absent ELSE FgtRule(id, LoadedObjects("device"))
  BY <1>1, <1>2 DEF PushedPolicy
<1>4. pol[id] # Absent => FgtRule(id, LoadedObjects("device")) # Absent
  BY <1>2, FgtRuleRead DEF World
<1> QED
  BY <1>3, <1>4

LEMMA PushedObjectRefused ==
    ASSUME SyncInvariant, NEW k \in Jobs, NEW o \in Objects, k \notin touched, Raised(k),
           PushObjectCreate(k, o) \/ PushObjectDelete(k, o)
    PROVE  Explained(k)
<1>1. CallOn(k, o) /\ phase[k] = "syncing" /\ req[k].kind = "push"
  BY TurnIs DEF PushObjectCreate, PushObjectDelete, CallOn
<1>2. ~Applied(k, o)
  BY <1>1 DEF SyncInvariant, TypeOK, Raised, Applied, Advance
<1>3. o \notin WorkedOff(k)
  BY <1>1 DEF CallOn, WorkedOff
<1>4. World /\ (obj[o] = "readable" <=> dst[k][o] # Absent)
  BY <1>1, <1>3, PushKnows DEF Outcome
<1>5. obj[o] \in {"readable", "unreadable", Absent} /\ Absent # "readable"
  BY <1>4, NothingAssumption DEF World, DeviceTyped
<1>6. CASE PushObjectCreate(k, o)
  <2>1. o \in todo[k].write /\ obj[o] # Absent
    BY <1>2, <1>6 DEF PushObjectCreate, Turn, Call
  <2>2. dst[k][o] = Absent
    BY <1>1, <2>1, Planned
  <2> QED
    BY <1>1, <1>4, <1>5, <2>1, <2>2 DEF Explained
<1>7. CASE PushObjectDelete(k, o)
  <2>1. o \in todo[k].delete /\ ~(obj[o] # Absent /\ ~InUse(o))
    BY <1>2, <1>7 DEF PushObjectDelete, Turn, Call
  <2>2. dst[k][o] # Absent /\ req[k].delete
    BY <1>1, <2>1, Planned
  <2> QED
    BY <1>1, <1>4, <1>5, <2>1, <2>2 DEF Explained
<1> QED
  BY <1>6, <1>7

LEMMA PushedRuleRefused ==
    ASSUME SyncInvariant, NEW k \in Jobs, NEW r \in Rules, k \notin touched, Raised(k),
           PushRuleCreate(k, r) \/ PushRuleUpdate(k, r) \/ PushRuleDelete(k, r)
    PROVE  Explained(k)
<1>1. CallOn(k, r) /\ phase[k] = "syncing" /\ req[k].kind = "push"
  BY TurnIs DEF PushRuleCreate, PushRuleUpdate, PushRuleDelete, CallOn
<1>2. ~Applied(k, r)
  BY <1>1 DEF SyncInvariant, TypeOK, Raised, Applied, Advance
<1>3. \A q \in Odd : dst[k][q] = Absent
  BY <1>1, PushKnows
<1>4. r \in Ids => ((pol[r] = Absent) <=> (dst[k][r] = Absent))
  BY <1>1, PolicyIsAsLoaded
<1>5. CASE PushRuleDelete(k, r)
  <2>1. r \in todo[k].delete /\ pol[r] = Absent
    BY <1>2, <1>5 DEF PushRuleDelete, Turn, Call
  <2>2. dst[k][r] # Absent
    BY <1>1, <2>1, Planned
  <2>3. r \in Ids
    BY <1>3, <2>2 DEF Rules
  <2> QED
    BY <1>4, <2>1, <2>2, <2>3
<1>6. ASSUME r \in todo[k].write
      PROVE  \A s \in Sides : \A o \in src[k][r].members[s] : obj[o] # Absent
  <2>1. src[k][r] # Absent
    BY <1>1, <1>6, Planned
  <2> QED
    BY <1>1, <2>1, MembersAreReadable DEF NamesExist
<1>7. CASE PushRuleCreate(k, r)
  <2>1. /\ r \in todo[k].write /\ dst[k][r] = Absent /\ r \in Ids
        /\ ~(pol[r] = Absent /\ NamesExist(src[k][r].members)) \/ MayRefuse(src[k][r].members)
    BY <1>2, <1>7 DEF PushRuleCreate, Turn, Call
  <2>2. pol[r] = Absent /\ NamesExist(src[k][r].members)
    BY <1>4, <1>6, <2>1 DEF NamesExist
  <2> QED
    BY <1>1, <2>1, <2>2 DEF Explained
<1>8. CASE PushRuleUpdate(k, r)
  <2> DEFINE e == src[k][r]
             was == dst[k][r]
             sent == [s \in Sides |-> IF e.members[s] = was.members[s] THEN {} ELSE e.members[s]]
  <2>1. /\ r \in todo[k].write /\ was # Absent
        /\ \/ ~(pol[r] # Absent /\ NamesExist(sent))
           \/ \E s \in Sides : e.members[s] # was.members[s] /\ e.members[s] = {}
    BY <1>2, <1>8 DEF PushRuleUpdate, Turn, Call
  <2>2. r \in Ids
    BY <1>3, <2>1 DEF Rules
  <2>3. pol[r] # Absent
    BY <1>4, <2>1, <2>2
  <2>4. NamesExist(sent)
    BY <1>6, <2>1 DEF NamesExist
  <2>5. MayRefuse(src[k][r].members)
    BY <2>1, <2>3, <2>4 DEF MayRefuse
  <2> QED
    BY <1>1, <2>1, <2>2, <2>5 DEF Explained
<1> QED
  BY <1>5, <1>7, <1>8

LEMMA LoadRefused ==
    ASSUME NEW k \in Jobs, Load(k), Raised(k), phase \in [Jobs -> Idle \cup Running]
    PROVE  LoadRaises("rows")
<1>1. LoadRaises(SourceKind(k)) \/ LoadRaises(TargetKind(k))
  BY DEF Load, LoadSourceObjects, LoadSourcePolicies, LoadTargetObjects, LoadTargetPolicies,
         Raised, Advance
<1> QED
  BY <1>1 DEF LoadRaises

LEMMA RaisedIsExplained ==
    ASSUME SyncInvariant, NEW k \in Jobs, StepOf(k), phase'[k] = "failed", k \notin touched'
    PROVE  UNCHANGED worldVars /\ UNCHANGED <<req, src, todo>> /\ Explained(k)
<1>0. phase \in [Jobs -> Idle \cup Running]
  BY DEF SyncInvariant, TypeOK
<1>1. Load(k) \/ Pull(k) \/ Push(k)
  BY <1>0 DEF StepOf, Start, ExecuteSync, Finish, Crash, Advance
<1>2. CASE Load(k)
  <2>1. Raised(k)
    BY <1>0, <1>2 DEF Load, LoadSourceObjects, LoadSourcePolicies, LoadTargetObjects,
                      LoadTargetPolicies, Advance
  <2> QED
    BY <1>0, <1>2, <2>1, LoadRefused DEF Explained, Raised
<1>3. CASE Pull(k)
  <2>1. Raised(k)
    BY <1>0, <1>3, PullCalls DEF Applied, CutShort, Advance
  <2> QED
    BY <1>3, <2>1, PulledObjectRefused DEF Raised
<1>4. CASE Push(k)
  <2>1. phase[k] = "syncing" /\ Raised(k)
    BY <1>0, <1>4, PushCalls DEF Applied
  <2>2. k \notin touched
    BY <2>1 DEF Raised
  <2>3. \A c : ~PushPolicy(k, c)
    BY <1>0, <2>1 DEF PushPolicy, Applied, Raised, Advance
  <2>4. Explained(k)
    BY <1>4, <2>1, <2>2, <2>3, PushedObjectRefused, PushedRuleRefused DEF Push
  <2> QED
    BY <2>1, <2>4 DEF Raised
<1> QED
  BY <1>1, <1>2, <1>3, <1>4

\* A job that nobody disturbed dies only for the reasons AbortsAreExplained
\* lists: a rule under two Policy rows, a row or an object that is still
\* referred to, a name taken by an object that cannot be read, an empty list.
THEOREM AbortsHaveAReason == Spec => []AbortsAreExplained
<1>0. AbortsAreExplained <=> \A j \in Jobs : phase[j] = "failed" /\ j \notin touched => Explained(j)
  BY DEF AbortsAreExplained, Explained
<1>1. Init => AbortsAreExplained
  BY DEF Init, AbortsAreExplained
<1>2. SyncInvariant /\ AbortsAreExplained /\ [Next]_vars => AbortsAreExplained'
  <2>0. (\A j \in Jobs : phase'[j] = "failed" /\ j \notin touched' => Explained(j)') => AbortsAreExplained'
    BY DEF AbortsAreExplained, Explained
  <2> SUFFICES ASSUME SyncInvariant, AbortsAreExplained, [Next]_vars, NEW k \in Jobs,
                      phase'[k] = "failed", k \notin touched'
               PROVE  Explained(k)'
    BY <2>0
  <2>1. CASE StepOf(k)
    BY <2>1, RaisedIsExplained, SameExplanation
  <2>2. CASE ~StepOf(k)
    <3>1. SameJob(k) /\ k \notin touched /\ UNCHANGED worldVars
      BY <2>2, OthersStep
    <3> QED
      BY <1>0, <3>1, SameExplanation DEF SameJob
  <2> QED
    BY <2>1, <2>2
<1> QED
  BY <1>1, <1>2, SyncInvariantHolds, PTL DEF Spec

----------------------------------------------------------------------------
(* What follows for runs that nobody disturbs.                             *)

\* The end of a clean run in terms of its adapters: the plan is worked off.
LEMMA CleanRunEnds ==
    ASSUME SyncInvariant, NEW j \in Jobs, NEW kind, Clean(j, kind)
    PROVE  /\ World /\ phase[j] \in {"syncing", "done"} /\ j \notin touched /\ req[j].kind = kind
           /\ \A e \in Elements : Outcome(j, e) =
                 IF src[j][e] # Absent THEN src[j][e]
                 ELSE IF req[j].delete THEN Absent ELSE dst[j][e]
           /\ \A e \in Elements : e \notin WorkedOff(j) =>
                 /\ src[j][e] # Absent => dst[j][e] = src[j][e]
                 /\ src[j][e] = Absent /\ req[j].delete => dst[j][e] = Absent
           /\ \A e \in Elements : e \in WorkedOff(j) /\ src[j][e] = Absent => req[j].delete
<1>1. World /\ phase[j] = "done" /\ j \notin touched /\ req[j].kind = kind
  BY TypedWorld DEF SyncInvariant, Clean
<1>2. todo[j] = NoWork
  BY <1>1 DEF SyncInvariant, PlanFollowsDiff, Applying
<1>3. WorkedOff(j) = Differs(j)
  BY <1>2 DEF WorkedOff, Pending, NoWork
<1> QED
  BY <1>1, <1>3 DEF Outcome, Differs, Writes, Deletes

\* What a clean pull leaves of a policy's rule.
LEMMA PulledPolicyIs ==
    ASSUME SyncInvariant, NEW j \in Jobs, Clean(j, "pull"), NEW id \in Ids, pol[id] # Absent,
           NEW e, e = FgtRule(id, LoadedObjects("device")), NEW was, was = dst[j][id],
           NEW row, row = rule[id]
    PROVE  /\ row # Absent
           /\ row.members = e.members /\ row.intfs = e.intfs
           /\ row.action = e.action /\ row.log = e.log
           /\ row.request = (IF was = Absent THEN e.name ELSE was.name)
           /\ StripName(row.request, row.text) = (IF row.request = e.name THEN e.text ELSE Describe(e))
           /\ row.linked = (IF was = Absent THEN {Ours} ELSE {c \in {was.policy} : policy[c] # Absent})
<1>0. /\ World /\ phase[j] \in {"syncing", "done"} /\ j \notin touched /\ req[j].kind = "pull"
      /\ \A d \in Elements : Outcome(j, d) =
            IF src[j][d] # Absent THEN src[j][d]
            ELSE IF req[j].delete THEN Absent ELSE dst[j][d]
      /\ \A d \in Elements : d \notin WorkedOff(j) => (src[j][d] # Absent => dst[j][d] = src[j][d])
  BY CleanRunEnds
<1>1. id \in Rules /\ id \in Elements
  BY ElementsAre
<1>2. /\ src[j][id] = e /\ PulledRule(j, id)
      /\ \A o \in Objects : o \in objRow <=> Outcome(j, o) # Absent
      /\ src[j][id] # Absent =>
            /\ src[j][id] \in LoadedRule
            /\ \A s \in Sides : \A o \in src[j][id].members[s] : o \in Objects /\ src[j][o] # Absent
  BY <1>0, <1>1, PullKnows
<1>3. e # Absent /\ e \in LoadedRule /\ e.policy = Ours
  BY <1>0, FgtRuleRead DEF World
<1>4. CASE id \in WorkedOff(j)
  BY <1>2, <1>3, <1>4 DEF PulledRule
<1>5. CASE id \notin WorkedOff(j)
  <2>1. was = e /\ was # Absent
    BY <1>0, <1>1, <1>2, <1>3, <1>5
  <2>2. /\ row # Absent
        /\ row.request = was.name /\ row.action = was.action /\ row.log = was.log
        /\ row.members = FoundMembers(was.members) /\ row.intfs = was.intfs
        /\ StripName(row.request, row.text) = was.text
        /\ row.linked = {d \in {was.policy} : policy[d] # Absent}
    BY <1>2, <1>5, <2>1 DEF PulledRule
  <2>3. FoundMembers(was.members) = was.members
    <3>1. \A s \in Sides : was.members[s] \subseteq objRow
      BY <1>0, <1>2, <1>3, <2>1, ElementsAre
    <3>2. was.members \in Members
      BY <1>3, <2>1 DEF LoadedRule
    <3> QED
      BY <1>0, <3>1, <3>2, FoundRead
  <2> QED
    BY <2>1, <2>2, <2>3
<1> QED
  BY <1>4, <1>5

\* After a clean pull every policy has its rule, with exactly its readable
\* members, under the name and the Policy row it had or is given now; a
\* destructive pull leaves no other rule that a job can see.
THEOREM CleanPullMirrors == Spec => []PullMirrorsPolicies
<1>1. SyncInvariant => PullMirrorsPolicies
  <2>0. ASSUME SyncInvariant, NEW j \in Jobs, Clean(j, "pull")
        PROVE  LET store == LoadedObjects("device") IN
               /\ \A o \in Objects :
                     /\ store[o] # Absent => o \in objRow
                     /\ store[o] = Absent /\ req[j].delete => o \notin objRow
               /\ policy[Ours] = Generated
               /\ req[j].delete => \A c \in Others : policy[c] = Absent
               /\ req[j].delete => \A r \in Rules :
                     (r \in Odd \/ pol[r] = Absent) /\ dst[j][r] # Absent => rule[r] = Absent
    <3>0. /\ World /\ phase[j] \in {"syncing", "done"} /\ j \notin touched /\ req[j].kind = "pull"
          /\ \A d \in Elements : Outcome(j, d) =
                IF src[j][d] # Absent THEN src[j][d]
                ELSE IF req[j].delete THEN Absent ELSE dst[j][d]
          /\ \A d \in Elements : d \notin WorkedOff(j) =>
                (src[j][d] = Absent /\ req[j].delete => dst[j][d] = Absent)
      BY <2>0, CleanRunEnds
    <3>1. /\ \A d \in Elements : src[j][d] = Store("device")[d]
          /\ src[j][Ours] = Generated /\ \A c \in Others : src[j][c] = Absent
          /\ \A r \in Odd : src[j][r] = Absent
          /\ \A id \in Ids : src[j][id] =
                IF pol[id] = Absent THEN Absent ELSE FgtRule(id, LoadedObjects("device"))
          /\ \A o \in Objects : o \in objRow <=> Outcome(j, o) # Absent
          /\ \A c \in Containers : policy[c] = Outcome(j, c)
          /\ \A r \in Rules : PulledRule(j, r)
      BY <2>0, <3>0, PullKnows
    <3>2. \A o \in Objects : src[j][o] = LoadedObjects("device")[o]
      BY <3>1, DeviceStoreRead, ElementsAre
    <3>3. policy[Ours] = Generated
      BY <3>0, <3>1, ElementsAre, NothingAssumption
    <3>4. req[j].delete => \A c \in Others : policy[c] = Absent
      BY <3>0, <3>1, ElementsAre DEF Containers
    <3>5. ASSUME req[j].delete, NEW r \in Rules, r \in Odd \/ pol[r] = Absent, dst[j][r] # Absent
          PROVE  rule[r] = Absent
      <4>1. src[j][r] = Absent
        BY <3>1, <3>5 DEF Rules
      <4>2. r \in WorkedOff(j)
        BY <3>0, <3>5, <4>1, ElementsAre
      <4> QED
        BY <3>1, <4>1, <4>2 DEF PulledRule
    <3> QED
      BY <3>0, <3>1, <3>2, <3>3, <3>4, <3>5, ElementsAre
  <2> SUFFICES ASSUME SyncInvariant, NEW j \in Jobs, Clean(j, "pull"), NEW id \in Ids, pol[id] # Absent
               PROVE  LET e == FgtRule(id, LoadedObjects("device"))
                          was == dst[j][id]
                          row == rule[id]
                      IN
                      /\ row # Absent
                      /\ row.members = e.members /\ row.intfs = e.intfs
                      /\ row.action = e.action /\ row.log = e.log
                      /\ row.request = IF was = Absent THEN e.name ELSE was.name
                      /\ StripName(row.request, row.text) =
                            IF row.request = e.name THEN e.text ELSE Describe(e)
                      /\ row.linked = IF was = Absent THEN {Ours}
                                      ELSE {c \in {was.policy} : policy[c] # Absent}
    BY <2>0 DEF PullMirrorsPolicies
  <2> QED
    BY PulledPolicyIs
<1> QED
  BY <1>1, SyncInvariantHolds, PTL

\* What a clean push leaves of the policy of a visible rule.
LEMMA PushedRuleIs ==
    ASSUME SyncInvariant, NEW j \in Jobs, Clean(j, "push"), NEW id \in Ids, Visible(id)
    PROVE  /\ pol[id] # Absent
           /\ FgtRule(id, LoadedObjects("device")).members = rule[id].members
           /\ FgtRule(id, LoadedObjects("device")).action
                 = (IF rule[id].action = "allow" THEN "allow" ELSE "deny")
           /\ pol[id].log = rule[id].log
           /\ dst[j][id] = Absent => pol[id] = Posted(RowRule(id))
<1> DEFINE store == LoadedObjects("device")
           e == RowRule(id)
<1>0. /\ World /\ phase[j] \in {"syncing", "done"} /\ j \notin touched /\ req[j].kind = "push"
      /\ \A d \in Elements : d \notin WorkedOff(j) => (src[j][d] # Absent => dst[j][d] = src[j][d])
  BY CleanRunEnds
<1>1. id \in Rules /\ id \in Elements
  BY ElementsAre
<1>2. src[j][id] = e /\ PushedPolicy(j, id)
  BY <1>0, <1>1, PushKnows
<1>3. /\ e \in LoadedRule /\ e # Absent /\ e.action = rule[id].action /\ e.log = rule[id].log
      /\ e.members = rule[id].members
  BY <1>0, <1>1, RowRuleRead DEF World
<1>4. \A o \in Objects : store[o] # Absent <=> obj[o] = "readable"
  BY LoadedObjectsRead
<1> HIDE DEF store, e
<1>5. CASE id \in WorkedOff(j)
  <2>1. /\ pol[id] # Absent
        /\ \A s \in Sides : {o \in pol[id].members[s] : obj[o] = "readable"} = e.members[s]
        /\ FortiosAction(pol[id].action) = (IF e.action = "allow" THEN "allow" ELSE "deny")
        /\ pol[id].log = e.log
        /\ dst[j][id] = Absent => pol[id] = Posted(e)
    BY <1>2, <1>3, <1>5 DEF PushedPolicy
  <2>2. /\ FgtRule(id, store) \in LoadedRule /\ pol[id] \in Policy
        /\ FgtRule(id, store).action = FortiosAction(pol[id].action)
        /\ \A s \in Sides : FgtRule(id, store).members[s] = {o \in pol[id].members[s] : store[o] # Absent}
    BY <1>0, <2>1, FgtRuleRead DEF World
  <2>3. \A s \in Sides : pol[id].members[s] \subseteq Objects
    BY <2>2 DEF Policy, Members
  <2>4. ASSUME NEW s \in Sides PROVE FgtRule(id, store).members[s] = e.members[s]
    <3>1. \A o \in pol[id].members[s] : store[o] # Absent <=> obj[o] = "readable"
      BY <1>4, <2>3
    <3>2. {o \in pol[id].members[s] : store[o] # Absent} = {o \in pol[id].members[s] : obj[o] = "readable"}
      BY <3>1
    <3> QED
      BY <2>1, <2>2, <3>2
  <2>5. FgtRule(id, store).members \in Members /\ e.members \in Members
    BY <1>3, <2>2 DEF LoadedRule
  <2>6. FgtRule(id, store).members = e.members
    BY <2>4, <2>5 DEF Members
  <2> QED
    BY <1>3, <2>1, <2>2, <2>6 DEF store, e
<1>6. CASE id \notin WorkedOff(j)
  <2>1. dst[j][id] = e /\ dst[j][id] = IF pol[id] = Absent THEN Absent ELSE FgtRule(id, store)
    BY <1>0, <1>1, <1>2, <1>3, <1>6 DEF PushedPolicy, store
  <2>2. pol[id] # Absent /\ e = FgtRule(id, store)
    BY <1>3, <2>1
  <2>3. e.action \in {"allow", "deny"} /\ e.log = pol[id].log
    BY <1>0, <2>2, FgtRuleRead DEF World
  <2>4. e.action = (IF e.action = "allow" THEN "allow" ELSE "deny")
    BY <2>3
  <2> QED
    BY <1>3, <2>1, <2>2, <2>3, <2>4 DEF store, e
<1> QED
  BY <1>5, <1>6

\* After a clean push every visible rule with an id is a policy that reads
\* back with its members, log and action; a destructive push leaves no other.
THEOREM CleanPushMirrors == Spec => []PushMirrorsRules
<1>1. SyncInvariant => PushMirrorsRules
  <2>1. ASSUME SyncInvariant, NEW j \in Jobs, Clean(j, "push"), NEW o \in objRow
        PROVE  LoadedObjects("device")[o] # Absent
    <3>0. /\ World /\ phase[j] \in {"syncing", "done"} /\ j \notin touched /\ req[j].kind = "push"
          /\ \A d \in Elements : Outcome(j, d) =
                IF src[j][d] # Absent THEN src[j][d]
                ELSE IF req[j].delete THEN Absent ELSE dst[j][d]
      BY <2>1, CleanRunEnds
    <3>1. o \in Objects
      BY <2>1, <3>0 DEF World, RowsTyped
    <3>2. src[j][o] # Absent /\ (obj[o] = "readable" <=> Outcome(j, o) # Absent)
      BY <2>1, <3>0, <3>1, PushKnows
    <3> QED
      BY <3>0, <3>1, <3>2, ElementsAre, LoadedObjectsRead
  <2>2. ASSUME SyncInvariant, NEW j \in Jobs, Clean(j, "push"), req[j].delete,
               NEW id \in Ids, pol[id] # Absent
        PROVE  Visible(id)
    <3>0. /\ World /\ phase[j] \in {"syncing", "done"} /\ j \notin touched /\ req[j].kind = "push"
          /\ \A d \in Elements : d \notin WorkedOff(j) =>
                (src[j][d] = Absent /\ req[j].delete => dst[j][d] = Absent)
      BY <2>2, CleanRunEnds
    <3>1. src[j][id] = (IF Visible(id) THEN RowRule(id) ELSE Absent) /\ PushedPolicy(j, id)
      BY <2>2, <3>0, ElementsAre, PushKnows
    <3> SUFFICES ASSUME src[j][id] = Absent PROVE FALSE
      BY <3>1
    <3>2. FgtRule(id, LoadedObjects("device")) # Absent
      BY <2>2, <3>0, FgtRuleRead DEF World
    <3> QED
      BY <2>2, <3>0, <3>1, <3>2, ElementsAre DEF PushedPolicy
  <2> QED
    BY <2>1, <2>2, PushedRuleIs DEF PushMirrorsRules
<1> QED
  BY <1>1, SyncInvariantHolds, PTL

----------------------------------------------------------------------------
(* What a step may never do.                                               *)

\* What a PUT changes of a policy, and what the rule says of it.
LEMMA PutChangesMembers ==
    ASSUME SyncInvariant, NEW k \in Jobs, k \notin touched, NEW id \in Ids,
           Turn(k, "push", "write", id), pol[id] # Absent, dst[k][id] # Absent
    PROVE  LET is == Put(src[k][id], dst[k][id], pol[id]) IN
           /\ is # Absent
           /\ is.name = pol[id].name /\ is.intfs = pol[id].intfs /\ is.comment = pol[id].comment
           /\ \A s \in Sides : is.members[s] # pol[id].members[s] =>
                 /\ is.members[s] = rule[id].members[s]
                 /\ is.members[s] # {o \in pol[id].members[s] : obj[o] = "readable"}
<1>0. CallOn(k, id) /\ phase[k] = "syncing" /\ req[k].kind = "push" /\ id \in todo[k].write
  BY TurnIs DEF Turn
<1>1. id \in Rules /\ id \notin WorkedOff(k) /\ src[k][id] # Absent
  BY <1>0, Planned, ElementsAre DEF CallOn, WorkedOff
<1>2. /\ World /\ PushedPolicy(k, id) /\ src[k][id] \in LoadedRule
      /\ src[k][id] = IF Visible(id) THEN RowRule(id) ELSE Absent
  BY <1>0, <1>1, PushKnows
<1>3. dst[k][id] = FgtRule(id, LoadedObjects("device")) /\ src[k][id] = RowRule(id) /\ Visible(id)
  BY <1>1, <1>2 DEF PushedPolicy
<1>4. src[k][id].members = rule[id].members
  BY <1>1, <1>2, <1>3, RowRuleRead DEF World
<1>5. PICK p \in Policy : p = pol[id]
  BY <1>2, FgtRuleRead DEF World
<1>6. \A s \in Sides : dst[k][id].members[s] = {o \in p.members[s] : obj[o] = "readable"}
  <2>1. \A s \in Sides : dst[k][id].members[s] = {o \in p.members[s] : LoadedObjects("device")[o] # Absent}
    BY <1>2, <1>3, <1>5, FgtRuleRead DEF World
  <2>2. \A s \in Sides : p.members[s] \subseteq Objects
    BY DEF Policy, Members
  <2> QED
    BY <2>1, <2>2, LoadedObjectsRead
<1> DEFINE is == Put(src[k][id], dst[k][id], p)
<1>7. /\ is \in Policy /\ is.name = p.name /\ is.intfs = p.intfs /\ is.comment = p.comment
      /\ \A s \in Sides : is.members[s] =
            IF src[k][id].members[s] = dst[k][id].members[s] THEN p.members[s] ELSE src[k][id].members[s]
  <2>1. PICK e \in LoadedRule : e = src[k][id]
    BY <1>2
  <2>2. PICK was : was = dst[k][id]
    OBVIOUS
  <2> DEFINE put == Put(e, was, pol[id])
  <2>3. World /\ pol[id] \in Policy
    BY <1>2, <1>5
  <2>4. put \in Policy
    BY <2>3, PutRead
  <2>5. put.name = pol[id].name /\ put.intfs = pol[id].intfs /\ put.comment = pol[id].comment
    <3>1. DOMAIN pol[id] = {"name", "action", "log", "members", "intfs", "comment"}
      BY <2>3 DEF Policy
    <3> QED
      BY <3>1 DEF Put
  <2>6. \A s \in Sides : put.members[s] =
           IF e.members[s] = was.members[s] THEN pol[id].members[s] ELSE e.members[s]
    BY <2>3, PutRead
  <2> QED
    BY <1>5, <2>1, <2>2, <2>4, <2>5, <2>6
<1> HIDE DEF is
<1>8. is # Absent
  BY <1>7, NothingAssumption
<1>9. \A s \in Sides : is.members[s] # p.members[s] =>
         /\ is.members[s] = rule[id].members[s]
         /\ is.members[s] # {o \in p.members[s] : obj[o] = "readable"}
  BY <1>4, <1>6, <1>7
<1> QED
  BY <1>5, <1>7, <1>8, <1>9 DEF is

\* Whatever a rule says, a push that nobody disturbs leaves an existing
\* policy's name, interfaces and comment alone, changes a side only to a list
\* that means something else, and removes only what no visible rule asks for.
THEOREM UnsentIsKept == Spec => PushKeepsUnsent
<1>1. SyncInvariant /\ [Next]_vars =>
        [\A j \in Jobs, id \in Ids :
          LET was == pol[id]
              is == pol'[id]
          IN
          JobStep /\ todo'[j] # todo[j] /\ j \notin touched /\ was # Absent /\ is # was
          => IF is = Absent THEN req[j].delete /\ ~Visible(id)
             ELSE /\ is.name = was.name /\ is.intfs = was.intfs /\ is.comment = was.comment
                  /\ \A s \in Sides : is.members[s] # was.members[s] =>
                        /\ is.members[s] = rule[id].members[s]
                        /\ is.members[s] # {o \in was.members[s] : obj[o] = "readable"}]_vars
  <2> SUFFICES ASSUME SyncInvariant, [Next]_vars,
                      NEW j \in Jobs, NEW id \in Ids,
                      todo'[j] # todo[j], j \notin touched, pol[id] # Absent, pol'[id] # pol[id]
               PROVE  IF pol'[id] = Absent THEN req[j].delete /\ ~Visible(id)
                      ELSE /\ pol'[id].name = pol[id].name /\ pol'[id].intfs = pol[id].intfs
                           /\ pol'[id].comment = pol[id].comment
                           /\ \A s \in Sides : pol'[id].members[s] # pol[id].members[s] =>
                                 /\ pol'[id].members[s] = rule[id].members[s]
                                 /\ pol'[id].members[s] # {o \in pol[id].members[s] : obj[o] = "readable"}
    OBVIOUS
  <2>0. World
    BY TypedWorld DEF SyncInvariant
  <2>1. StepOf(j)
    BY OthersStep DEF SameJob
  <2>2. CASE Push(j)
    <3>0. phase[j] = "syncing" /\ req[j].kind = "push"
      BY <2>2, PushCalls
    <3>1. \A q, p : PutPolicy(q, p) => id = q /\ pol'[id] = p
      BY <2>0 DEF PutPolicy, World, DeviceTyped
    <3>2. ASSUME NEW r \in Rules, PushRuleCreate(j, r) PROVE FALSE
      <4>1. pol' = pol \/ (pol[r] = Absent /\ \E p : PutPolicy(r, p))
        BY <3>2 DEF PushRuleCreate, Call, Raised, worldVars, deviceVars
      <4> QED
        BY <3>1, <4>1
    <3>3. ASSUME NEW r \in Rules, PushRuleDelete(j, r)
          PROVE  pol'[id] = Absent /\ req[j].delete /\ ~Visible(id)
      <4>1. PutPolicy(r, Absent) /\ r \in todo[j].delete
        BY <3>3 DEF PushRuleDelete, Call, Raised, Turn, worldVars, deviceVars
      <4>2. id = r /\ pol'[id] = Absent
        BY <3>1, <4>1
      <4>3. req[j].delete /\ src[j][r] = Absent
        BY <3>0, <4>1, Planned
      <4>4. src[j][r] = IF Visible(r) THEN RowRule(r) ELSE Absent
        BY <3>0, PushKnows
      <4>5. Visible(r) => RowRule(r) # Absent
        BY <2>0, RowRuleRead DEF World
      <4> QED
        BY <4>2, <4>3, <4>4, <4>5
    <3>4. ASSUME NEW r \in Rules, PushRuleUpdate(j, r)
          PROVE  /\ id = r /\ pol'[id] = Put(src[j][id], dst[j][id], pol[id])
                 /\ Turn(j, "push", "write", id) /\ dst[j][id] # Absent
      <4>1. /\ PutPolicy(r, Put(src[j][r], dst[j][r], pol[r]))
            /\ Turn(j, "push", "write", r) /\ dst[j][r] # Absent
        BY <3>4 DEF PushRuleUpdate, Call, Raised, worldVars, deviceVars
      <4>2. id = r /\ pol'[id] = Put(src[j][r], dst[j][r], pol[r])
        BY <3>1, <4>1
      <4> QED
        BY <4>1, <4>2
    <3>5. ASSUME NEW o \in Objects, PushObjectCreate(j, o) \/ PushObjectDelete(j, o) PROVE FALSE
      BY <3>5 DEF PushObjectCreate, PushObjectDelete, Call, PutObject, Raised, worldVars, deviceVars
    <3>6. \A c : ~PushPolicy(j, c)
      BY DEF PushPolicy, worldVars, deviceVars
    <3>7. CASE \E r \in Rules : PushRuleDelete(j, r)
      BY <3>3, <3>7
    <3>8. CASE \E r \in Rules : PushRuleUpdate(j, r)
      BY <3>4, <3>8, PutChangesMembers
    <3> QED
      BY <2>2, <3>2, <3>5, <3>6, <3>7, <3>8 DEF Push
  <2>3. CASE Pull(j)
    BY <2>3, PullCalls DEF deviceVars
  <2>4. CASE ~Push(j) /\ ~Pull(j)
    BY <2>1, <2>4 DEF StepOf, Start, Load, LoadSourceObjects, LoadSourcePolicies, LoadTargetObjects,
                  LoadTargetPolicies, Raised, ExecuteSync, Finish, Crash, worldVars, deviceVars
  <2> QED
    BY <2>2, <2>3, <2>4
<1> QED
  BY <1>1, SyncInvariantHolds, PTL DEF Spec, PushKeepsUnsent
=============================================================================
