---------------------------- MODULE NatSyncProofs ----------------------------
(***************************************************************************)
(* Proofs about NatSync: its inductive invariant, and from it each         *)
(* property its runs check.  The argument is that of ServiceSyncProofs:    *)
(* what a job has loaded of its source is still there while nobody else    *)
(* interferes, and the side it writes stands where its plan says.          *)
(***************************************************************************)
EXTENDS NatSync, TLAPS

----------------------------------------------------------------------------
(* The elements, and their kinds.                                          *)

LEMMA Shapes ==
    /\ \A a \in Addresses : a[1] \in Sides /\ a[2] \in Vips /\ a = <<a[1], a[2]>>
    /\ \A k \in Services :
          /\ k[1] \in Sides /\ k[2] \in Vips /\ k[3] \in Ports /\ k = <<k[1], k[2], k[3]>>
          /\ <<k[1], k[2]>> \in Addresses
BY DEF Addresses, Services

LEMMA KindsAreDisjoint ==
    /\ Addresses \cap Services = {}
    /\ ({Container} \cup Vips) \cap (Addresses \cup Services) = {} /\ Container \notin Vips
    /\ None \notin Addresses \cup Services
<1>1. ASSUME NEW a \in Addresses, a \in Services PROVE FALSE
  <2>1. a = <<a[1], a[2]>> /\ a = <<a[1], a[2], a[3]>>
    BY <1>1, Shapes
  <2>2. DOMAIN <<a[1], a[2]>> = 1..2 /\ DOMAIN <<a[1], a[2], a[3]>> = 1..3
    OBVIOUS
  <2> QED
    BY <2>1, <2>2
<1> QED
  BY <1>1, ConstantsAssumption, NothingAssumption

LEMMA KindIs ==
    /\ \A a \in Addresses : KindOf(a) = 1
    /\ \A k \in Services : KindOf(k) = 2
    /\ KindOf(Container) = 3
    /\ \A v \in Vips : KindOf(v) = 4
<1>1. /\ DOMAIN TopLevel = {1, 2, 3, 4}
      /\ TopLevel[1] = Addresses /\ TopLevel[2] = Services
      /\ TopLevel[3] = {Container} /\ TopLevel[4] = Vips
  BY DEF TopLevel
<1>2. ASSUME NEW e, NEW i \in {1, 2, 3, 4}, e \in TopLevel[i],
             \A k \in {1, 2, 3, 4} : e \in TopLevel[k] => k = i
      PROVE  KindOf(e) = i
  BY <1>1, <1>2 DEF KindOf
<1>3. \A a \in Addresses : KindOf(a) = 1
  BY <1>1, <1>2, KindsAreDisjoint
<1>4. \A k \in Services : KindOf(k) = 2
  BY <1>1, <1>2, KindsAreDisjoint
<1>5. KindOf(Container) = 3
  BY <1>1, <1>2, KindsAreDisjoint
<1>6. \A v \in Vips : KindOf(v) = 4
  BY <1>1, <1>2, KindsAreDisjoint
<1> QED
  BY <1>3, <1>4, <1>5, <1>6

----------------------------------------------------------------------------
(* What the adapters load.                                                 *)

LEMMA FgtRuleRead ==
    ASSUME DeviceTyped(vip, addr, serv), NEW v \in Vips, Readable(v)
    PROVE  /\ vip[v] # Absent
           /\ FgtRule(v) \in LoadedRule /\ FgtRule(v) # Absent /\ vip[v] \in Vip
           /\ \A s \in Sides : FgtRule(v).lists.addr[s] = <<s, v>>
           /\ \A s \in Sides : FgtRule(v).resolved[s] = vip[v][s] /\ vip[v][s] \in Values
           /\ FgtRule(v).lists.serv =
                 IF vip[v].forward = None THEN NoList
                 ELSE [s \in Sides |-> <<s, v, vip[v].forward[s]>>]
           /\ FgtRule(v).description
                 = [text |-> vip[v].comment, intf |-> vip[v].intf, forward |-> vip[v].forward]
<1>1. vip[v] # Absent /\ vip[v] \in Vip
  BY DEF DeviceTyped, Readable
<1>2. \A s \in Sides : vip[v][s] \in Values /\ (vip[v].forward # None => vip[v].forward[s] \in Ports)
  BY <1>1 DEF Vip, Forward, Sides, Readable
<1>3. \A s \in Sides : <<s, v>> \in Addresses
  BY DEF Addresses
<1>4. \A s \in Sides : vip[v].forward # None => <<s, v, vip[v].forward[s]>> \in Services
  BY <1>2 DEF Services
<1>5. PortsOf(v) \in [Sides -> Services \cup {None}]
  BY <1>4 DEF PortsOf, NoList
<1>6. [addr |-> [s \in Sides |-> <<s, v>>], serv |-> PortsOf(v)] \in Lists
  BY <1>3, <1>5 DEF Lists
<1>7. [text |-> vip[v].comment, intf |-> vip[v].intf, forward |-> vip[v].forward] \in Description
  BY <1>1 DEF Vip, Description
<1>8. [s \in Sides |-> vip[v][s]] \in [Sides -> Values \cup {None}]
  BY <1>2
<1>9. FgtRule(v) \in LoadedRule
  BY <1>6, <1>7, <1>8 DEF FgtRule, LoadedRule
<1> QED
  BY <1>1, <1>2, <1>9, NothingAssumption DEF FgtRule, PortsOf

\* What the adapter's store says of an address.
Stored(kind) == Values \cup {Absent} \cup (IF kind = "device" THEN Mistyped ELSE {})

\* What is made up for a VIP is its IP, which may be mistyped.
LEMMA MadeUpIs ==
    ASSUME DeviceTyped(vip, addr, serv), NEW a \in Addresses, Readable(a[2])
    PROVE  /\ vip[a[2]][a[1]] \in Values /\ MadeUp(a) \in Values \cup Mistyped /\ MadeUp(a) # Absent
           /\ MadeUp(a) \notin Mistyped => MadeUp(a) = vip[a[2]][a[1]]
           /\ MadeUp(a) \in Mistyped => a[1] = "ext" /\ vip[a[2]].ext \in Ranges
           /\ MadeUp(a) \in Mistyped => MadeUp(a)[2] = vip[a[2]][a[1]]
<1>1. a[1] \in Sides /\ a[2] \in Vips
  BY Shapes
<1>2. vip[a[2]][a[1]] \in Values
  BY <1>1, FgtRuleRead
<1>3. CASE a[1] = "ext" /\ vip[a[2]][a[1]] \in Ranges
  BY <1>2, <1>3, NothingAssumption DEF MadeUp, Mistyped
<1>4. CASE ~(a[1] = "ext" /\ vip[a[2]][a[1]] \in Ranges)
  BY <1>2, <1>4, NothingAssumption, ConstantsAssumption DEF MadeUp
<1> QED
  BY <1>3, <1>4

LEMMA RowRuleRead ==
    ASSUME RowsTyped(addrRow, servRow, policy, rule), NEW v \in Vips, rule[v] # Absent
    PROVE  /\ RowRule(v) \in LoadedRule /\ RowRule(v) # Absent /\ rule[v] \in Rule
           /\ RowRule(v).lists = rule[v].lists /\ RowRule(v).description = rule[v].description
           /\ \A s \in Sides : RowRule(v).resolved[s] = Resolve(rule[v].lists.addr[s])
<1>1. rule[v] \in Rule /\ rule[v].lists \in Lists /\ rule[v].description \in Description
  BY DEF RowsTyped, RulesTyped, Rule
<1>2. \A s \in Sides : Resolve(rule[v].lists.addr[s]) \in Values \cup {None}
  BY <1>1 DEF RowsTyped, RulesTyped, Lists, Resolve
<1>3. RowRule(v) \in LoadedRule
  BY <1>1, <1>2 DEF RowRule, LoadedRule
<1> QED
  BY <1>1, <1>3, NothingAssumption DEF RowRule

\* The part of a store the objects are loaded into.
ObjectsLoaded(f, kind) ==
    /\ \A a \in Addresses : f[a] \in Stored(kind)
    /\ \A k \in Services : f[k] \in {"loaded", Absent}

LEMMA LoadedObjectsRead ==
    ASSUME NEW kind
    PROVE  /\ \A a \in Addresses :
                 LoadedObjects(kind)[a] = IF kind = "device" THEN addr[a] ELSE addrRow[a]
           /\ \A k \in Services :
                 LoadedObjects(kind)[k] =
                    IF (IF kind = "device" THEN serv[<<k[1], k[2]>>] = k[3] ELSE k \in servRow)
                    THEN "loaded" ELSE Absent
           /\ DeviceTyped(vip, addr, serv) /\ RowsTyped(addrRow, servRow, policy, rule)
                 => ObjectsLoaded(LoadedObjects(kind), kind)
<1>1. /\ \A a \in Addresses :
            LoadedObjects(kind)[a] = IF kind = "device" THEN addr[a] ELSE addrRow[a]
      /\ \A k \in Services :
            LoadedObjects(kind)[k] =
               IF (IF kind = "device" THEN serv[<<k[1], k[2]>>] = k[3] ELSE k \in servRow)
               THEN "loaded" ELSE Absent
  BY KindsAreDisjoint DEF LoadedObjects
<1> QED
  BY <1>1 DEF DeviceTyped, RowsTyped, ObjectsLoaded, Stored

LEMMA LoadedRulesRead ==
    ASSUME NEW kind \in {"device", "rows"}, NEW store
    PROVE  /\ LoadedRules(kind, store) = [e \in Elements |-> LoadedRules(kind, store)[e]]
           /\ \A a \in Addresses :
                 LoadedRules(kind, store)[a] = IF kind = "device" THEN UpsertAddress(store, a) ELSE store[a]
           /\ \A k \in Services :
                 LoadedRules(kind, store)[k] = IF kind = "device" THEN UpsertService(store, k) ELSE store[k]
           /\ LoadedRules(kind, store)[Container] = IF kind = "device" THEN Generated ELSE policy
           /\ \A v \in Vips :
                 LoadedRules(kind, store)[v] =
                    IF kind = "device" THEN IF Readable(v) THEN FgtRule(v) ELSE Absent
                    ELSE IF Visible(v) THEN RowRule(v) ELSE Absent
<1>1. /\ \A a \in Addresses :
            a \in Elements /\ a \notin Services /\ a # Container /\ a \notin Vips
      /\ \A k \in Services :
            k \in Elements /\ k \notin Addresses /\ k # Container /\ k \notin Vips
      /\ \A v \in Vips : v \in Elements /\ v \notin Addresses \cup Services /\ v # Container
      /\ Container \in Elements /\ Container \notin Addresses \cup Services \cup Vips
  BY KindsAreDisjoint DEF Elements
<1>2. \A a \in Addresses :
         LoadedRules(kind, store)[a] = IF kind = "device" THEN UpsertAddress(store, a) ELSE store[a]
  BY <1>1 DEF LoadedRules
<1>3. \A k \in Services :
         LoadedRules(kind, store)[k] = IF kind = "device" THEN UpsertService(store, k) ELSE store[k]
  BY <1>1 DEF LoadedRules
<1>4. LoadedRules(kind, store)[Container] = IF kind = "device" THEN Generated ELSE policy
  BY <1>1 DEF LoadedRules
<1>5. \A v \in Vips :
         LoadedRules(kind, store)[v] =
            IF kind = "device" THEN IF Readable(v) THEN FgtRule(v) ELSE Absent
            ELSE IF Visible(v) THEN RowRule(v) ELSE Absent
  BY <1>1 DEF LoadedRules
<1>6. LoadedRules(kind, store) = [e \in Elements |-> LoadedRules(kind, store)[e]]
  <2> DEFINE Body(e) ==
        CASE e \in Addresses /\ kind = "device" -> UpsertAddress(store, e)
          [] e \in Services /\ kind = "device" -> UpsertService(store, e)
          [] e \in Addresses \cup Services /\ kind = "rows" -> store[e]
          [] e = Container -> IF kind = "device" THEN Generated ELSE policy
          [] e \in Vips /\ kind = "device" -> IF Readable(e) THEN FgtRule(e) ELSE Absent
          [] e \in Vips /\ kind = "rows" -> IF Visible(e) THEN RowRule(e) ELSE Absent
  <2>1. LoadedRules(kind, store) = [e \in Elements |-> Body(e)]
    BY DEF LoadedRules
  <2> HIDE DEF Body
  <2> QED
    BY <2>1
<1> QED
  BY <1>2, <1>3, <1>4, <1>5, <1>6

LEMMA LoadedRulesTyped ==
    ASSUME DeviceTyped(vip, addr, serv), RowsTyped(addrRow, servRow, policy, rule),
           NEW kind \in {"device", "rows"}, NEW store, ObjectsLoaded(store, kind)
    PROVE  Loaded(LoadedRules(kind, store), kind)
<1>1. \A a \in Addresses : LoadedRules(kind, store)[a] \in Stored(kind)
  <2> SUFFICES ASSUME NEW a \in Addresses
               PROVE  LoadedRules(kind, store)[a] \in Stored(kind)
    OBVIOUS
  <2>2. Readable(a[2]) => MadeUp(a) \in Values \cup Mistyped
    BY MadeUpIs
  <2> QED
    BY <2>2, LoadedRulesRead DEF UpsertAddress, ObjectsLoaded, Stored
<1>2. \A k \in Services : LoadedRules(kind, store)[k] \in {"loaded", Absent}
  BY LoadedRulesRead DEF UpsertService, ObjectsLoaded
<1>3. LoadedRules(kind, store)[Container] \in {Generated, Retyped, Absent}
  BY LoadedRulesRead DEF RowsTyped
<1>4. \A v \in Vips : LoadedRules(kind, store)[v] \in LoadedRule \cup {Absent}
  <2> SUFFICES ASSUME NEW v \in Vips
               PROVE  LoadedRules(kind, store)[v] \in LoadedRule \cup {Absent}
    OBVIOUS
  <2>1. LoadedRules(kind, store)[v] =
           IF kind = "device" THEN IF Readable(v) THEN FgtRule(v) ELSE Absent
           ELSE IF Visible(v) THEN RowRule(v) ELSE Absent
    BY LoadedRulesRead
  <2>2. Readable(v) => FgtRule(v) \in LoadedRule
    BY FgtRuleRead
  <2>3. Visible(v) => RowRule(v) \in LoadedRule
    BY RowRuleRead DEF Visible
  <2> QED
    BY <2>1, <2>2, <2>3
<1> QED
  BY <1>1, <1>2, <1>3, <1>4, LoadedRulesRead DEF Loaded, Stored

LEMMA WithObjectsRead ==
    ASSUME NEW kind, NEW store
    PROVE  /\ With(store, LoadedObjects(kind)) = [e \in Elements |-> With(store, LoadedObjects(kind))[e]]
           /\ \A e \in Addresses \cup Services :
                 With(store, LoadedObjects(kind))[e] = LoadedObjects(kind)[e]
           /\ \A e \in {Container} \cup Vips : With(store, LoadedObjects(kind))[e] = store[e]
<1>1. DOMAIN LoadedObjects(kind) = Addresses \cup Services
  BY DEF LoadedObjects
<1> QED
  BY <1>1, KindsAreDisjoint DEF With, Elements

LEMMA WithObjectsTyped ==
    ASSUME DeviceTyped(vip, addr, serv), RowsTyped(addrRow, servRow, policy, rule),
           NEW kind \in {"device", "rows"}, NEW store, Loaded(store, kind)
    PROVE  Loaded(With(store, LoadedObjects(kind)), kind)
<1>1. ObjectsLoaded(LoadedObjects(kind), kind)
  BY LoadedObjectsRead
<1> QED
  BY <1>1, WithObjectsRead DEF Loaded, ObjectsLoaded, Stored

LEMMA EmptyLoaded == \A kind : Loaded(EmptyStore, kind)
BY KindsAreDisjoint DEF Loaded, EmptyStore, Elements

----------------------------------------------------------------------------
(* What is written keeps the types.                                        *)

World == DeviceTyped(vip, addr, serv) /\ RowsTyped(addrRow, servRow, policy, rule)

\* A rule that refers to rows only, and is linked to nothing that is not there.
RuleFits(r) ==
    /\ r \in Rule
    /\ \A s \in Sides : r.lists.addr[s] # None => addrRow[r.lists.addr[s]] # Absent
    /\ \A s \in Sides : r.lists.serv[s] # None => r.lists.serv[s] \in servRow
    /\ r.linked => policy # Absent

LEMMA FoundRead ==
    ASSUME NEW l \in Lists
    PROVE  /\ FoundLists(l) \in Lists
           /\ \A s \in Sides :
                 FoundLists(l).addr[s] =
                    IF l.addr[s] # None /\ addrRow[l.addr[s]] # Absent THEN l.addr[s] ELSE None
           /\ \A s \in Sides :
                 FoundLists(l).serv[s] =
                    IF l.serv[s] # None /\ l.serv[s] \in servRow THEN l.serv[s] ELSE None
<1>1. /\ \A s \in Sides : l.addr[s] \in Addresses \cup {None}
      /\ \A s \in Sides : l.serv[s] \in Services \cup {None}
  BY DEF Lists
<1>2. /\ \A s \in Sides : Found(l.addr)[s] =
            IF l.addr[s] # None /\ addrRow[l.addr[s]] # Absent THEN l.addr[s] ELSE None
      /\ \A s \in Sides : Found(l.serv)[s] =
            IF l.serv[s] # None /\ l.serv[s] \in servRow THEN l.serv[s] ELSE None
  BY <1>1, KindsAreDisjoint DEF Found, HasRow
<1>3. Found(l.addr) \in [Sides -> Addresses \cup {None}] /\ Found(l.serv) \in [Sides -> Services \cup {None}]
  BY <1>1 DEF Found
<1>4. [addr |-> Found(l.addr), serv |-> Found(l.serv)] \in Lists
  BY <1>3 DEF Lists
<1> QED
  BY <1>2, <1>4 DEF FoundLists

LEMMA FoundFits ==
    ASSUME NEW l \in Lists, NEW d \in Description, NEW k \in BOOLEAN, k => policy # Absent
    PROVE  RuleFits([lists |-> FoundLists(l), description |-> d, linked |-> k])
<1>1. [lists |-> FoundLists(l), description |-> d, linked |-> k] \in Rule
  BY FoundRead DEF Rule
<1> QED
  BY <1>1, FoundRead DEF RuleFits

LEMMA PutRuleTyped ==
    ASSUME World, NEW v \in Vips, NEW r, r = Absent \/ RuleFits(r), PutRule(v, r)
    PROVE  World' /\ \A w \in Vips : rule'[w] = IF w = v THEN r ELSE rule[w]
<1>1. UNCHANGED <<vip, addr, serv, addrRow, servRow, policy>> /\ rule' = [rule EXCEPT ![v] = r]
  BY DEF PutRule, deviceVars
<1>2. rule' \in [Vips -> Rule \cup {Absent}] /\ \A w \in Vips : rule'[w] = IF w = v THEN r ELSE rule[w]
  BY <1>1 DEF World, RowsTyped, RulesTyped, RuleFits
<1>3. RulesTyped(addrRow', servRow', policy', rule')
  BY <1>1, <1>2 DEF World, RowsTyped, RulesTyped, RuleFits
<1> QED
  BY <1>1, <1>2, <1>3 DEF World, RowsTyped, DeviceTyped

LEMMA PutAddressRowTyped ==
    ASSUME World, NEW a \in Addresses, NEW ip \in Values, PutAddressRow(a, ip)
    PROVE  World' /\ \A b \in Addresses : addrRow'[b] = IF b = a THEN ip ELSE addrRow[b]
<1>1. UNCHANGED <<vip, addr, serv, servRow, policy, rule>> /\ addrRow' = [addrRow EXCEPT ![a] = ip]
  BY DEF PutAddressRow, deviceVars
<1>2. /\ addrRow' \in [Addresses -> Values \cup {Absent}]
      /\ \A b \in Addresses : addrRow'[b] = IF b = a THEN ip ELSE addrRow[b]
  BY <1>1 DEF World, RowsTyped
<1>3. RulesTyped(addrRow', servRow', policy', rule')
  BY <1>1, <1>2, NothingAssumption DEF World, RowsTyped, RulesTyped, Rule, Lists
<1> QED
  BY <1>1, <1>2, <1>3 DEF World, RowsTyped, DeviceTyped

LEMMA PutServiceRowTyped ==
    ASSUME World, NEW k \in Services, PutServiceRow(k)
    PROVE  World'
<1>1. UNCHANGED <<vip, addr, serv, addrRow, policy, rule>> /\ servRow' = servRow \cup {k}
  BY DEF PutServiceRow, deviceVars
<1>2. RulesTyped(addrRow', servRow', policy', rule')
  BY <1>1 DEF World, RowsTyped, RulesTyped
<1> QED
  BY <1>1, <1>2 DEF World, RowsTyped, DeviceTyped

LEMMA PutPolicyRowTyped ==
    ASSUME World, NEW d \in {Generated, Retyped}, PutPolicyRow(d)
    PROVE  World'
<1>1. UNCHANGED <<vip, addr, serv, addrRow, servRow, rule>> /\ policy' = d /\ d # Absent
  BY NothingAssumption DEF PutPolicyRow, deviceVars
<1>2. RulesTyped(addrRow', servRow', policy', rule')
  BY <1>1 DEF World, RowsTyped, RulesTyped
<1> QED
  BY <1>1, <1>2 DEF World, RowsTyped, DeviceTyped

\* A row that goes leaves the lists it is in.
LEMMA RulesWithoutRead ==
    ASSUME rule \in [Vips -> Rule \cup {Absent}], NEW e
    PROVE  /\ RulesWithout(e) \in [Vips -> Rule \cup {Absent}]
           /\ \A v \in Vips : rule[v] = Absent => RulesWithout(e)[v] = Absent
           /\ \A v \in Vips : rule[v] # Absent =>
                 /\ RulesWithout(e)[v] # Absent
                 /\ RulesWithout(e)[v].linked = rule[v].linked
                 /\ RulesWithout(e)[v].description = rule[v].description
                 /\ RulesWithout(e)[v].lists
                       = [addr |-> Without(rule[v].lists.addr, e), serv |-> Without(rule[v].lists.serv, e)]
<1> SUFFICES ASSUME NEW v \in Vips
             PROVE  /\ rule[v] = Absent => RulesWithout(e)[v] = Absent
                    /\ rule[v] # Absent =>
                          /\ RulesWithout(e)[v] \in Rule /\ RulesWithout(e)[v] # Absent
                          /\ RulesWithout(e)[v].linked = rule[v].linked
                          /\ RulesWithout(e)[v].description = rule[v].description
                          /\ RulesWithout(e)[v].lists
                                = [addr |-> Without(rule[v].lists.addr, e),
                                   serv |-> Without(rule[v].lists.serv, e)]
  <2>1. RulesWithout(e) = [v \in Vips |-> RulesWithout(e)[v]]
    BY DEF RulesWithout
  <2> QED
    BY <2>1
<1> DEFINE l == [addr |-> Without(rule[v].lists.addr, e), serv |-> Without(rule[v].lists.serv, e)]
<1>1. CASE rule[v] # Absent
  <2>1. rule[v] \in Rule /\ rule[v].lists \in Lists
    BY <1>1 DEF Rule
  <2>2. /\ Without(rule[v].lists.addr, e) \in [Sides -> Addresses \cup {None}]
        /\ Without(rule[v].lists.serv, e) \in [Sides -> Services \cup {None}]
    BY <2>1 DEF Without, Lists
  <2>3. l \in Lists
    BY <2>2 DEF Lists
  <2>4. RulesWithout(e)[v] = [rule[v] EXCEPT !.lists = l]
    BY <1>1 DEF RulesWithout
  <2> HIDE DEF l
  <2>5. /\ [rule[v] EXCEPT !.lists = l] \in Rule /\ [rule[v] EXCEPT !.lists = l].lists = l
        /\ [rule[v] EXCEPT !.lists = l].linked = rule[v].linked
        /\ [rule[v] EXCEPT !.lists = l].description = rule[v].description
    BY <2>1, <2>3 DEF Rule
  <2> QED
    BY <1>1, <2>4, <2>5, NothingAssumption DEF l
<1>2. CASE rule[v] = Absent
  BY <1>2 DEF RulesWithout
<1> QED
  BY <1>1, <1>2

LEMMA RemoveAddressRowTyped ==
    ASSUME World, NEW a \in Addresses, RemoveAddressRow(a)
    PROVE  World'
<1>1. /\ UNCHANGED <<vip, addr, serv, servRow, policy>>
      /\ addrRow' = [addrRow EXCEPT ![a] = Absent] /\ rule' = RulesWithout(a)
  BY DEF RemoveAddressRow, deviceVars
<1>2. rule \in [Vips -> Rule \cup {Absent}] /\ rule' \in [Vips -> Rule \cup {Absent}]
  BY <1>1, RulesWithoutRead DEF World, RowsTyped, RulesTyped
<1>3. ASSUME NEW v \in Vips, rule'[v] # Absent
      PROVE  /\ \A s \in Sides : rule'[v].lists.addr[s] # None =>
                    rule'[v].lists.addr[s] # a /\ rule'[v].lists.addr[s] = rule[v].lists.addr[s]
             /\ \A s \in Sides : rule'[v].lists.serv[s] # None =>
                    rule'[v].lists.serv[s] = rule[v].lists.serv[s]
             /\ rule'[v].linked = rule[v].linked /\ rule[v] # Absent /\ rule[v].lists \in Lists
  <2>1. rule[v] # Absent
    BY <1>1, <1>2, <1>3, RulesWithoutRead
  <2>2. /\ rule'[v].linked = rule[v].linked
        /\ rule'[v].lists = [addr |-> Without(rule[v].lists.addr, a),
                             serv |-> Without(rule[v].lists.serv, a)]
    BY <1>1, <1>2, <2>1, RulesWithoutRead
  <2> QED
    BY <1>2, <2>1, <2>2 DEF Without, Rule
<1>4. \A b \in Addresses : b # a => addrRow'[b] = addrRow[b]
  BY <1>1 DEF World, RowsTyped
<1>5. addrRow' \in [Addresses -> Values \cup {Absent}]
  BY <1>1 DEF World, RowsTyped
<1>6. RulesTyped(addrRow', servRow', policy', rule')
  BY <1>1, <1>2, <1>3, <1>4 DEF World, RowsTyped, RulesTyped, Lists
<1> QED
  BY <1>1, <1>5, <1>6 DEF World, RowsTyped, DeviceTyped

LEMMA RemoveServiceRowTyped ==
    ASSUME World, NEW k \in Services, RemoveServiceRow(k)
    PROVE  World'
<1>1. /\ UNCHANGED <<vip, addr, serv, addrRow, policy>>
      /\ servRow' = servRow \ {k} /\ rule' = RulesWithout(k)
  BY DEF RemoveServiceRow, deviceVars
<1>2. rule \in [Vips -> Rule \cup {Absent}] /\ rule' \in [Vips -> Rule \cup {Absent}]
  BY <1>1, RulesWithoutRead DEF World, RowsTyped, RulesTyped
<1>3. ASSUME NEW v \in Vips, rule'[v] # Absent
      PROVE  /\ \A s \in Sides : rule'[v].lists.addr[s] # None =>
                    rule'[v].lists.addr[s] = rule[v].lists.addr[s]
             /\ \A s \in Sides : rule'[v].lists.serv[s] # None =>
                    rule'[v].lists.serv[s] # k /\ rule'[v].lists.serv[s] = rule[v].lists.serv[s]
             /\ rule'[v].linked = rule[v].linked /\ rule[v] # Absent /\ rule[v].lists \in Lists
  <2>1. rule[v] # Absent
    BY <1>1, <1>2, <1>3, RulesWithoutRead
  <2>2. /\ rule'[v].linked = rule[v].linked
        /\ rule'[v].lists = [addr |-> Without(rule[v].lists.addr, k),
                             serv |-> Without(rule[v].lists.serv, k)]
    BY <1>1, <1>2, <2>1, RulesWithoutRead
  <2> QED
    BY <1>2, <2>1, <2>2 DEF Without, Rule
<1>4. RulesTyped(addrRow', servRow', policy', rule')
  BY <1>1, <1>2, <1>3 DEF World, RowsTyped, RulesTyped, Lists
<1> QED
  BY <1>1, <1>4 DEF World, RowsTyped, DeviceTyped

LEMMA PutDeviceTyped ==
    ASSUME World,
           \/ \E v \in Vips, r \in Vip \cup {Absent} : PutVip(v, r)
           \/ \E a \in Addresses, ip \in Values \cup {Absent} : PutAddress(a, ip)
           \/ \E a \in Addresses, p \in Ports \cup {Absent} : PutService(a, p)
    PROVE  World'
<1>1. UNCHANGED rowVars
  BY DEF PutVip, PutAddress, PutService
<1>2. DeviceTyped(vip', addr', serv')
  BY DEF World, DeviceTyped, PutVip, PutAddress, PutService
<1> QED
  BY <1>1, <1>2 DEF World, RowsTyped, RulesTyped, rowVars

LEMMA SameWorldTyped ==
    ASSUME World, UNCHANGED worldVars
    PROVE  World'
BY DEF World, DeviceTyped, RowsTyped, RulesTyped, worldVars, deviceVars, rowVars

----------------------------------------------------------------------------
(* Type correctness of the job's steps.                                    *)

CourseOf(k) ==
    /\ PlanFollowsDiff(k) /\ SourceIsCurrent(k) /\ TargetIsCurrent(k)
    /\ PullIsOnCourse(k) /\ PushIsOnCourse(k)

LEMMA TypedWorld == TypeOK => World
BY DEF TypeOK, World

LEMMA StartTyped ==
    ASSUME TypeOK, NEW j \in Jobs, Start(j)
    PROVE  TypeOK'
<1>1. World'
  BY SameWorldTyped, TypedWorld DEF Start
<1>2. /\ phase' \in [Jobs -> Idle \cup Running] /\ req' \in [Jobs -> Requests]
      /\ src' = [i \in Jobs |-> src'[i]] /\ dst' = [i \in Jobs |-> dst'[i]]
      /\ todo' \in [Jobs -> [write : SUBSET Elements, delete : SUBSET Elements]]
      /\ touched' \subseteq Jobs
  BY DEF TypeOK, Start, Advance, NoWork, Running
<1>3. \A i \in Jobs : Loaded(src'[i], SourceKind(i)') /\ Loaded(dst'[i], TargetKind(i)')
  BY EmptyLoaded DEF TypeOK, Start, SourceKind, TargetKind
<1>4. edits' \in 0..MaxEdits /\ runs' \in 0..MaxRuns
  BY ConstantsAssumption DEF TypeOK, Start
<1> QED
  BY <1>1, <1>2, <1>3, <1>4 DEF TypeOK, World

LEMMA LoadTyped ==
    ASSUME TypeOK, NEW j \in Jobs, Load(j)
    PROVE  TypeOK'
<1>1. World'
  BY TypedWorld, SameWorldTyped
     DEF Load, LoadSourceObjects, LoadSourceRules, LoadTargetObjects, LoadTargetRules
<1>2. /\ phase' \in [Jobs -> Idle \cup Running] /\ req' \in [Jobs -> Requests]
      /\ src' = [i \in Jobs |-> src'[i]] /\ dst' = [i \in Jobs |-> dst'[i]]
      /\ todo' \in [Jobs -> [write : SUBSET Elements, delete : SUBSET Elements]]
      /\ touched' \subseteq Jobs /\ edits' \in 0..MaxEdits /\ runs' \in 0..MaxRuns
  BY DEF TypeOK, Load, LoadSourceObjects, LoadSourceRules, LoadTargetObjects, LoadTargetRules,
         Advance, Running
<1>3. \A i \in Jobs : Loaded(src'[i], SourceKind(i)') /\ Loaded(dst'[i], TargetKind(i)')
  <2>1. \A i \in Jobs : Loaded(src[i], SourceKind(i)) /\ Loaded(dst[i], TargetKind(i))
    BY DEF TypeOK
  <2>2. \A store, kind : Loaded(store, kind) => ObjectsLoaded(store, kind)
    BY DEF Loaded, ObjectsLoaded, Stored
  <2>3. SourceKind(j) \in {"device", "rows"} /\ TargetKind(j) \in {"device", "rows"}
    BY DEF SourceKind, TargetKind
  <2>4. DeviceTyped(vip, addr, serv) /\ RowsTyped(addrRow, servRow, policy, rule)
    BY DEF TypeOK
  <2>5. /\ Loaded(With(src[j], LoadedObjects(SourceKind(j))), SourceKind(j))
        /\ Loaded(With(dst[j], LoadedObjects(TargetKind(j))), TargetKind(j))
        /\ Loaded(LoadedRules(SourceKind(j), src[j]), SourceKind(j))
        /\ Loaded(LoadedRules(TargetKind(j), dst[j]), TargetKind(j))
    BY <2>1, <2>2, <2>3, <2>4, WithObjectsTyped, LoadedRulesTyped
  <2>10. \A i \in Jobs : req' = req => SourceKind(i)' = SourceKind(i) /\ TargetKind(i)' = TargetKind(i)
    BY DEF SourceKind, TargetKind
  <2>6. CASE LoadSourceObjects(j)
    BY <2>1, <2>3, <2>5, <2>10, <2>6 DEF TypeOK, LoadSourceObjects
  <2>7. CASE LoadSourceRules(j)
    BY <2>1, <2>3, <2>5, <2>10, <2>7 DEF TypeOK, LoadSourceRules
  <2>8. CASE LoadTargetObjects(j)
    BY <2>1, <2>3, <2>5, <2>10, <2>8 DEF TypeOK, LoadTargetObjects
  <2>9. CASE LoadTargetRules(j)
    BY <2>1, <2>3, <2>5, <2>10, <2>9 DEF TypeOK, LoadTargetRules
  <2> QED
    BY <2>6, <2>7, <2>8, <2>9 DEF Load
<1> QED
  BY <1>1, <1>2, <1>3 DEF TypeOK, World

LEMMA ExecuteSyncTyped ==
    ASSUME TypeOK, NEW j \in Jobs, ExecuteSync(j)
    PROVE  TypeOK'
<1>1. World'
  BY TypedWorld, SameWorldTyped DEF ExecuteSync
<1>2. /\ phase' \in [Jobs -> Idle \cup Running]
      /\ todo' \in [Jobs -> [write : SUBSET Elements, delete : SUBSET Elements]]
  BY DEF TypeOK, ExecuteSync, Advance, Running, Writes, Deletes
<1> QED
  BY <1>1, <1>2 DEF TypeOK, ExecuteSync, World, SourceKind, TargetKind

LEMMA RestTyped ==
    ASSUME TypeOK, NEW j \in Jobs, Finish(j) \/ Crash(j) \/ Raised(j)
    PROVE  TypeOK'
<1>1. World'
  BY TypedWorld, SameWorldTyped DEF Finish, Crash, Raised
<1>2. phase' \in [Jobs -> Idle \cup Running]
  BY DEF TypeOK, Finish, Crash, Raised, Advance, Idle
<1> QED
  BY <1>1, <1>2 DEF TypeOK, Finish, Crash, Raised, World, SourceKind, TargetKind

LEMMA AppliedTyped ==
    ASSUME TypeOK, NEW j \in Jobs, NEW e, Applied(j, e), World'
    PROVE  TypeOK'
<1>1. todo' \in [Jobs -> [write : SUBSET Elements, delete : SUBSET Elements]] /\ touched' \subseteq Jobs
  BY DEF TypeOK, Applied
<1> QED
  BY <1>1 DEF TypeOK, Applied, World, SourceKind, TargetKind

\* What the plan of a job names, it has to say something about.
LEMMA Planned ==
    ASSUME SyncInvariant, NEW j \in Jobs, phase[j] = "syncing"
    PROVE  /\ \A e \in todo[j].write :
                 e \in Elements /\ src[j][e] # Absent /\ src[j][e] # dst[j][e] /\ e \notin todo[j].delete
           /\ \A e \in todo[j].delete :
                 e \in Elements /\ src[j][e] = Absent /\ dst[j][e] # Absent /\ req[j].delete
           /\ \A a \in Addresses : a \in todo[j].write =>
                 /\ src[j][a] \in Values \cup Mistyped
                 /\ req[j].kind = "push" => src[j][a] \in Values
           /\ Container \in todo[j].write => src[j][Container] \in {Generated, Retyped}
           /\ \A v \in Vips : v \in todo[j].write => src[j][v] \in LoadedRule
           /\ \A v \in Vips : dst[j][v] # Absent => dst[j][v] \in LoadedRule
           /\ \A a \in Addresses : dst[j][a] \in Stored(TargetKind(j))
           /\ Pending(j) \subseteq Differs(j)
<1>1. /\ todo[j].write \subseteq Writes(src[j], dst[j])
      /\ todo[j].delete \subseteq Deletes(src[j], dst[j])
      /\ ~req[j].delete => todo[j].delete = {}
  BY DEF SyncInvariant, PlanFollowsDiff, Applying
<1>2. Loaded(src[j], SourceKind(j)) /\ Loaded(dst[j], TargetKind(j))
  BY DEF SyncInvariant, TypeOK
<1>3. Pending(j) \subseteq Differs(j)
  BY <1>1 DEF Pending, Differs
<1> QED
  BY <1>1, <1>2, <1>3 DEF Writes, Deletes, Loaded, Stored, SourceKind

----------------------------------------------------------------------------
(* A call takes an element off the plan, or raises, or is cut short.       *)

CallOn(j, e) ==
    /\ phase[j] = "syncing" /\ e \in Pending(j)
    /\ \A f \in Pending(j) : KindOf(e) <= KindOf(f)

LEMMA TurnIs ==
    ASSUME NEW j \in Jobs, NEW kind, NEW e,
           Turn(j, kind, "write", e) \/ Turn(j, kind, "delete", e)
    PROVE  CallOn(j, e) /\ req[j].kind = kind
BY DEF Turn, CallOn, Pending

LEMMA PullCalls ==
    ASSUME NEW j \in Jobs, Pull(j)
    PROVE  /\ phase[j] = "syncing" /\ req[j].kind = "pull" /\ UNCHANGED deviceVars
           /\ \/ Raised(j) \/ \E e \in Elements : CallOn(j, e) /\ Applied(j, e)
              \/ \E v \in Vips : CutShort(j, v)
<1> DEFINE Called(e) ==
              /\ CallOn(j, e) /\ req[j].kind = "pull" /\ UNCHANGED deviceVars
              /\ Raised(j) \/ Applied(j, e) \/ (e \in Vips /\ CutShort(j, e))
<1>1. ASSUME NEW a \in Addresses, PullAddressCreate(j, a) \/ PullAddressUpdate(j, a) \/ PullAddressDelete(j, a)
      PROVE  Called(a)
  <2>1. CallOn(j, a) /\ req[j].kind = "pull"
    BY <1>1, TurnIs DEF PullAddressCreate, PullAddressUpdate, PullAddressDelete
  <2>2. UNCHANGED deviceVars /\ (Raised(j) \/ Applied(j, a))
    BY <1>1 DEF PullAddressCreate, PullAddressUpdate, PullAddressDelete, PutAddressRow, RemoveAddressRow, Raised, worldVars
  <2> QED
    BY <2>1, <2>2
<1>2. ASSUME NEW k \in Services, PullServiceCreate(j, k) \/ PullServiceDelete(j, k) PROVE Called(k)
  <2>1. CallOn(j, k) /\ req[j].kind = "pull"
    BY <1>2, TurnIs DEF PullServiceCreate, PullServiceDelete
  <2>2. UNCHANGED deviceVars /\ (Raised(j) \/ Applied(j, k))
    BY <1>2 DEF PullServiceCreate, PullServiceDelete, PutServiceRow, RemoveServiceRow, Raised, worldVars
  <2> QED
    BY <2>1, <2>2
<1>3. ASSUME PullPolicy(j) PROVE Called(Container)
  <2>1. CallOn(j, Container) /\ req[j].kind = "pull"
    BY <1>3, TurnIs DEF PullPolicy
  <2>2. UNCHANGED deviceVars /\ (Raised(j) \/ Applied(j, Container))
    BY <1>3 DEF PullPolicy, PutPolicyRow, worldVars
  <2> QED
    BY <2>1, <2>2
<1>4. ASSUME NEW v \in Vips, PullRuleCreate(j, v) \/ PullRuleUpdate(j, v) \/ PullRuleDelete(j, v)
      PROVE  Called(v)
  <2>1. CallOn(j, v) /\ req[j].kind = "pull"
    BY <1>4, TurnIs DEF PullRuleCreate, PullRuleUpdate, PullRuleDelete
  <2>2. UNCHANGED deviceVars /\ (Raised(j) \/ Applied(j, v))
    BY <1>4 DEF PullRuleCreate, PullRuleUpdate, PullRuleDelete, PutRule, worldVars
  <2> QED
    BY <2>1, <2>2
<1>5. ASSUME NEW v \in Vips, CutShort(j, v) PROVE Called(v)
  BY <1>5, TurnIs DEF CutShort, PutRule
<1>6. \E e \in Elements : Called(e)
  BY <1>1, <1>2, <1>3, <1>4, <1>5 DEF Pull, Elements
<1> QED
  BY <1>6 DEF CallOn

LEMMA PushCalls ==
    ASSUME NEW j \in Jobs, Push(j)
    PROVE  /\ phase[j] = "syncing" /\ req[j].kind = "push" /\ UNCHANGED rowVars
           /\ Raised(j) \/ \E e \in Elements : CallOn(j, e) /\ Applied(j, e)
<1> DEFINE Called(e) ==
              /\ CallOn(j, e) /\ req[j].kind = "push" /\ UNCHANGED rowVars
              /\ Raised(j) \/ Applied(j, e)
<1>1. ASSUME NEW a \in Addresses, PushAddress(j, a) \/ PushAddressDelete(j, a) PROVE Called(a)
  BY <1>1, TurnIs DEF PushAddress, PushAddressDelete, Call, PutAddress, Raised, worldVars
<1>2. ASSUME NEW k \in Services, PushServiceCreate(j, k) \/ PushServiceDelete(j, k) PROVE Called(k)
  BY <1>2, TurnIs DEF PushServiceCreate, PushServiceDelete, Call, PutService, Raised, worldVars
<1>3. ASSUME PushPolicy(j) PROVE Called(Container)
  BY <1>3, TurnIs DEF PushPolicy, worldVars
<1>4. ASSUME NEW v \in Vips, PushRuleCreate(j, v) PROVE Called(v)
  BY <1>4, TurnIs DEF PushRuleCreate, Call, PutVip, Raised, worldVars
<1>5. ASSUME NEW v \in Vips, PushRuleUpdate(j, v) PROVE Called(v)
  BY <1>5, TurnIs DEF PushRuleUpdate, Call, PutVip, Raised, worldVars
<1>6. ASSUME NEW v \in Vips, PushRuleDelete(j, v) PROVE Called(v)
  BY <1>6, TurnIs DEF PushRuleDelete, Call, PutVip, Raised, worldVars
<1>7. \E e \in Elements : Called(e)
  BY <1>1, <1>2, <1>3, <1>4, <1>5, <1>6 DEF Push, Elements
<1> QED
  BY <1>7 DEF CallOn

----------------------------------------------------------------------------
(* Type correctness of what the calls write.                               *)

\* A visible rule is linked, so its NATPolicy row is there.
LEMMA VisibleIsLinked ==
    ASSUME World, NEW v \in Vips
    PROVE  Visible(v) \in BOOLEAN /\ (Visible(v) => policy # Absent)
BY DEF World, RowsTyped, RulesTyped, Visible, Rule

\* What create() writes of a rule.
LEMMA CreatedFits ==
    ASSUME World, NEW e \in LoadedRule, NEW v \in Vips, NEW b, b = (policy # Absent) \/ b = FALSE
    PROVE  RuleFits([lists |-> FoundLists(e.lists), description |-> e.description,
                     linked |-> b \/ Visible(v)])
<1>1. e.lists \in Lists /\ e.description \in Description
  BY DEF LoadedRule
<1>2. (b \/ Visible(v)) \in BOOLEAN /\ ((b \/ Visible(v)) => policy # Absent)
  BY VisibleIsLinked
<1> QED
  BY <1>1, <1>2, FoundFits

\* What update() leaves of a list.
Reset(new, old, now) == [s \in Sides |-> IF new[s] = old[s] THEN now[s] ELSE Found(new)[s]]

Updated(j, v) ==
    LET e == src[j][v]
        was == dst[j][v]
    IN [rule[v] EXCEPT
          !.description = IF e.description = was.description THEN @ ELSE e.description,
          !.lists = [addr |-> Reset(e.lists.addr, was.lists.addr, @.addr),
                     serv |-> Reset(e.lists.serv, was.lists.serv, @.serv)]]

LEMMA UpdatedRead ==
    ASSUME World, NEW j \in Jobs, NEW v \in Vips, rule[v] # Absent, src[j][v] \in LoadedRule
    PROVE  /\ RuleFits(Updated(j, v))
           /\ Updated(j, v).linked = rule[v].linked
           /\ Updated(j, v).description =
                 IF src[j][v].description = dst[j][v].description THEN rule[v].description
                 ELSE src[j][v].description
           /\ \A s \in Sides :
                 Updated(j, v).lists.addr[s] =
                    IF src[j][v].lists.addr[s] = dst[j][v].lists.addr[s] THEN rule[v].lists.addr[s]
                    ELSE FoundLists(src[j][v].lists).addr[s]
           /\ \A s \in Sides :
                 Updated(j, v).lists.serv[s] =
                    IF src[j][v].lists.serv[s] = dst[j][v].lists.serv[s] THEN rule[v].lists.serv[s]
                    ELSE FoundLists(src[j][v].lists).serv[s]
<1> DEFINE e == src[j][v]
           was == dst[j][v]
           l == [addr |-> Reset(e.lists.addr, was.lists.addr, rule[v].lists.addr),
                 serv |-> Reset(e.lists.serv, was.lists.serv, rule[v].lists.serv)]
           d == IF e.description = was.description THEN rule[v].description ELSE e.description
<1>1. e.lists \in Lists /\ e.description \in Description
  BY DEF LoadedRule
<1>2. /\ rule[v] \in Rule /\ rule[v].lists \in Lists
      /\ \A s \in Sides : rule[v].lists.addr[s] # None => addrRow[rule[v].lists.addr[s]] # Absent
      /\ \A s \in Sides : rule[v].lists.serv[s] # None => rule[v].lists.serv[s] \in servRow
      /\ rule[v].linked => policy # Absent
  BY DEF World, RowsTyped, RulesTyped, Rule
<1>3. FoundLists(e.lists) \in Lists /\ FoundLists(e.lists) = [addr |-> Found(e.lists.addr), serv |-> Found(e.lists.serv)]
  BY <1>1, FoundRead DEF FoundLists
<1>4. /\ \A s \in Sides : l.addr[s] =
            IF e.lists.addr[s] = was.lists.addr[s] THEN rule[v].lists.addr[s] ELSE FoundLists(e.lists).addr[s]
      /\ \A s \in Sides : l.serv[s] =
            IF e.lists.serv[s] = was.lists.serv[s] THEN rule[v].lists.serv[s] ELSE FoundLists(e.lists).serv[s]
  BY <1>3 DEF Reset
<1>5. l \in Lists
  <2>1. /\ l.addr = [s \in Sides |-> l.addr[s]] /\ l.serv = [s \in Sides |-> l.serv[s]]
        /\ l = [addr |-> l.addr, serv |-> l.serv]
    BY DEF Reset
  <2> HIDE DEF l
  <2>2. l.addr \in [Sides -> Addresses \cup {None}] /\ l.serv \in [Sides -> Services \cup {None}]
    BY <1>2, <1>3, <1>4, <2>1 DEF Lists
  <2> QED
    BY <2>1, <2>2 DEF Lists
<1>6. Updated(j, v) = [rule[v] EXCEPT !.description = d, !.lists = l]
  BY <1>2 DEF Updated, Rule
<1>7. d \in Description
  BY <1>1, <1>2 DEF Rule
<1> HIDE DEF l, d
<1>8. /\ Updated(j, v) \in Rule /\ Updated(j, v).lists = l /\ Updated(j, v).description = d
      /\ Updated(j, v).linked = rule[v].linked
  BY <1>2, <1>5, <1>6, <1>7 DEF Rule
<1>9. RuleFits(Updated(j, v))
  BY <1>1, <1>2, <1>4, <1>8, FoundRead DEF RuleFits
<1> QED
  BY <1>4, <1>8, <1>9 DEF d

LEMMA PulledIsTyped ==
    ASSUME SyncInvariant, NEW j \in Jobs, Pull(j), ~Raised(j)
    PROVE  World'
<1>0. phase[j] = "syncing" /\ World
  BY PullCalls, TypedWorld DEF SyncInvariant
<1>1. ASSUME NEW a \in Addresses, PullAddressCreate(j, a) \/ PullAddressUpdate(j, a) PROVE World'
  <2>1. CASE UNCHANGED worldVars
    BY <1>0, <2>1, SameWorldTyped
  <2>2. CASE PutAddressRow(a, src[j][a]) /\ src[j][a] \in Values
    BY <1>0, <2>2, PutAddressRowTyped
  <2>3. src[j][a] \in Values \cup Mistyped
    BY <1>0, <1>1, Planned DEF PullAddressCreate, PullAddressUpdate, Turn
  <2> QED
    BY <1>1, <2>1, <2>2, <2>3 DEF PullAddressCreate, PullAddressUpdate, Raised
<1>2. ASSUME NEW a \in Addresses, PullAddressDelete(j, a) PROVE World'
  BY <1>0, <1>2, RemoveAddressRowTyped DEF PullAddressDelete
<1>3. ASSUME NEW k \in Services, PullServiceCreate(j, k) PROVE World'
  BY <1>0, <1>3, PutServiceRowTyped DEF PullServiceCreate
<1>4. ASSUME NEW k \in Services, PullServiceDelete(j, k) PROVE World'
  BY <1>0, <1>4, RemoveServiceRowTyped DEF PullServiceDelete
<1>5. CASE PullPolicy(j)
  <2>1. src[j][Container] \in {Generated, Retyped}
    BY <1>0, <1>5, Planned DEF PullPolicy, Turn
  <2> QED
    BY <1>0, <1>5, <2>1, PutPolicyRowTyped, SameWorldTyped DEF PullPolicy
<1>6. ASSUME NEW v \in Vips, PullRuleCreate(j, v) \/ CutShort(j, v) PROVE World'
  <2>1. src[j][v] \in LoadedRule
    BY <1>0, <1>6, Planned DEF PullRuleCreate, CutShort, Turn
  <2>2. /\ RuleFits([lists |-> FoundLists(src[j][v].lists), description |-> src[j][v].description,
                     linked |-> policy # Absent \/ Visible(v)])
        /\ RuleFits([lists |-> FoundLists(src[j][v].lists), description |-> src[j][v].description,
                     linked |-> FALSE \/ Visible(v)])
    BY <1>0, <2>1, CreatedFits
  <2>3. (FALSE \/ Visible(v)) = Visible(v)
    BY <1>0, VisibleIsLinked
  <2> QED
    BY <1>0, <1>6, <2>2, <2>3, PutRuleTyped DEF PullRuleCreate, CutShort
<1>7. ASSUME NEW v \in Vips, PullRuleUpdate(j, v) PROVE World'
  <2>1. src[j][v] \in LoadedRule
    BY <1>0, <1>7, Planned DEF PullRuleUpdate, Turn
  <2>2. UNCHANGED worldVars \/ (rule[v] # Absent /\ PutRule(v, Updated(j, v)))
    BY <1>7 DEF PullRuleUpdate, Updated, Reset
  <2> QED
    BY <1>0, <2>1, <2>2, UpdatedRead, PutRuleTyped, SameWorldTyped
<1>8. ASSUME NEW v \in Vips, PullRuleDelete(j, v) PROVE World'
  BY <1>0, <1>8, PutRuleTyped DEF PullRuleDelete
<1> QED
  BY <1>1, <1>2, <1>3, <1>4, <1>5, <1>6, <1>7, <1>8 DEF Pull

\* What the target's store holds of an address is an IP, or nothing.
LEMMA LookupTyped ==
    ASSUME TypeOK, NEW j \in Jobs, req[j].kind = "push", NEW a \in Addresses \cup {None}
    PROVE  Lookup(j, a) \in Values \cup {None}
<1>1. a # None => src[j][a] \in Values \cup {Absent} /\ dst[j][a] \in Values \cup {Absent} \cup Mistyped
  BY DEF TypeOK, Loaded, SourceKind
<1>2. \A ip \in Mistyped : ip[2] \in Values
  BY DEF Mistyped, Values
<1> QED
  BY <1>1, <1>2 DEF Lookup

\* What create() sends.
Sent(j, v) ==
    LET e == src[j][v] IN
    [ext |-> Lookup(j, e.lists.addr["ext"]), mapped |-> Lookup(j, e.lists.addr["mapped"]),
     forward |-> IF BothPorts(e.lists.serv) THEN [s \in Sides |-> e.lists.serv[s][3]] ELSE None,
     intf |-> IF e.description.intf = None THEN AnyIntf ELSE e.description.intf,
     comment |-> e.description.text, used |-> FALSE]

LEMMA SidesAre == "ext" \in Sides /\ "mapped" \in Sides /\ \A s \in Sides : s = "ext" \/ s = "mapped"
BY DEF Sides

\* A function on the sides is a record of the two ports, and of two IPs.
LEMMA ForwardShape ==
    ASSUME NEW f \in [Sides -> Ports]
    PROVE  f \in Forward /\ f # None
<1>1. f = [s \in {"ext", "mapped"} |-> f[s]] /\ f["ext"] \in Ports /\ f["mapped"] \in Ports
  BY DEF Sides
<1>2. f = [ext |-> f["ext"], mapped |-> f["mapped"]]
  BY <1>1
<1>3. [ext |-> f["ext"], mapped |-> f["mapped"]] \in Forward
  BY <1>1 DEF Forward
<1> QED
  BY <1>2, <1>3, NothingAssumption

LEMMA SentTyped ==
    ASSUME TypeOK, NEW j \in Jobs, req[j].kind = "push", NEW v \in Vips, src[j][v] \in LoadedRule,
           \A s \in Sides : Lookup(j, src[j][v].lists.addr[s]) # None
    PROVE  Sent(j, v) \in Vip
<1> DEFINE e == src[j][v]
           f == IF BothPorts(e.lists.serv) THEN [s \in Sides |-> e.lists.serv[s][3]] ELSE None
           i == IF e.description.intf = None THEN AnyIntf ELSE e.description.intf
<1>1. e.lists \in Lists /\ e.description \in Description
  BY DEF LoadedRule
<1>2. \A s \in Sides : Lookup(j, e.lists.addr[s]) \in Values
  BY <1>1, LookupTyped DEF Lists
<1>3. \A s \in Sides : e.lists.serv[s] # None => e.lists.serv[s][3] \in Ports
  BY <1>1, Shapes DEF Lists
<1>4. f \in Forward \cup {None}
  <2>1. BothPorts(e.lists.serv) => [s \in Sides |-> e.lists.serv[s][3]] \in [Sides -> Ports]
    BY <1>3 DEF BothPorts
  <2> QED
    BY <2>1, ForwardShape
<1>5. i \in Interfaces \cup {AnyIntf} /\ e.description.text \in Texts
  BY <1>1 DEF Description
<1> HIDE DEF f, i
<1>6. [ext |-> Lookup(j, e.lists.addr["ext"]), mapped |-> Lookup(j, e.lists.addr["mapped"]),
       forward |-> f, intf |-> i, comment |-> e.description.text, used |-> FALSE] \in Vip
  BY <1>2, <1>4, <1>5, SidesAre DEF Vip
<1> QED
  BY <1>6 DEF Sent, f, i

\* What a PUT leaves of port forwarding.
LEMMA ForwardAfterRead ==
    ASSUME NEW now \in Forward \cup {None}, NEW list,
           NEW ext \in Ports \cup {None}, NEW mapped \in Ports \cup {None}
    PROVE  /\ ForwardAfter(now, list, ext, mapped) \in Forward \cup {None}
           /\ now # None => ForwardAfter(now, list, ext, mapped) # None
           /\ ext # None =>
                 /\ ForwardAfter(now, list, ext, mapped) # None
                 /\ ForwardAfter(now, list, ext, mapped)["ext"] = ext
           /\ ext = None /\ now # None => ForwardAfter(now, list, ext, mapped)["ext"] = now["ext"]
           /\ mapped # None /\ (ext # None \/ now # None) =>
                 ForwardAfter(now, list, ext, mapped)["mapped"] = mapped
           /\ mapped = None /\ now # None =>
                 ForwardAfter(now, list, ext, mapped)["mapped"] = now["mapped"]
<1> DEFINE on == IF ext = None THEN now
                 ELSE IF now = None THEN [ext |-> ext, mapped |-> ext]
                 ELSE [now EXCEPT !.ext = ext]
           Result == ForwardAfter(now, list, ext, mapped)
<1>1. CASE ext = None /\ now = None
  BY <1>1 DEF ForwardAfter
<1>2. CASE ~(ext = None /\ now = None)
  <2>1. /\ on \in Forward /\ on # None
        /\ on["ext"] = IF ext = None THEN now["ext"] ELSE ext
        /\ now # None => on["mapped"] = now["mapped"]
    <3>1. CASE ext = None
      BY <1>2, <3>1, NothingAssumption
    <3>2. CASE ext # None /\ now = None
      <4>1. [ext |-> ext, mapped |-> ext] \in Forward
        BY <3>2 DEF Forward
      <4> QED
        BY <3>2, <4>1, NothingAssumption
    <3>3. CASE ext # None /\ now # None
      <4>1. now \in Forward
        BY <3>3
      <4>2. [now EXCEPT !.ext = ext] \in Forward
        BY <3>3, <4>1 DEF Forward
      <4> QED
        BY <3>3, <4>1, <4>2, NothingAssumption DEF Forward
    <3> QED
      BY <3>1, <3>2, <3>3
  <2>2. Result = IF mapped = None THEN on ELSE [on EXCEPT !.mapped = mapped]
    BY <1>2 DEF ForwardAfter
  <2> HIDE DEF on
  <2>3. /\ Result \in Forward /\ Result["ext"] = on["ext"]
        /\ Result["mapped"] = IF mapped = None THEN on["mapped"] ELSE mapped
    BY <2>1, <2>2 DEF Forward
  <2> HIDE DEF Result
  <2>4. Result # None
    BY <2>3, NothingAssumption
  <2> QED
    BY <1>2, <2>1, <2>3, <2>4 DEF Result
<1> QED
  BY <1>1, <1>2

\* What update() leaves of a VIP.
Put(j, v) ==
    LET ip == [s \in Sides |-> SentIp(j, v, s)]
        port == [s \in Sides |-> SentPort(j, v, s)]
    IN [vip[v] EXCEPT
          !.ext = IF ip["ext"] = None THEN @ ELSE ip["ext"],
          !.mapped = IF ip["mapped"] = None THEN @ ELSE ip["mapped"],
          !.forward = ForwardAfter(@, src[j][v].lists.serv, port["ext"], port["mapped"])]

LEMMA PutRead ==
    ASSUME TypeOK, NEW j \in Jobs, req[j].kind = "push", NEW v \in Vips, src[j][v] \in LoadedRule,
           vip[v] # Absent
    PROVE  /\ vip[v] \in Vip /\ Put(j, v) \in Vip
           /\ \A s \in Sides : Put(j, v)[s] = IF SentIp(j, v, s) = None THEN vip[v][s] ELSE SentIp(j, v, s)
           /\ Put(j, v).forward = ForwardAfter(vip[v].forward, src[j][v].lists.serv,
                                               SentPort(j, v, "ext"), SentPort(j, v, "mapped"))
           /\ Put(j, v).intf = vip[v].intf /\ Put(j, v).comment = vip[v].comment
           /\ \A s \in Sides : SentPort(j, v, s) \in Ports \cup {None}
<1> DEFINE x == IF SentIp(j, v, "ext") = None THEN vip[v].ext ELSE SentIp(j, v, "ext")
           m == IF SentIp(j, v, "mapped") = None THEN vip[v].mapped ELSE SentIp(j, v, "mapped")
           f == ForwardAfter(vip[v].forward, src[j][v].lists.serv,
                             SentPort(j, v, "ext"), SentPort(j, v, "mapped"))
<1>1. vip[v] \in Vip
  BY DEF TypeOK, DeviceTyped
<1>2. src[j][v].lists \in Lists /\ \A s \in Sides : src[j][v].resolved[s] \in Values \cup {None}
  BY DEF LoadedRule
<1>3. \A s \in Sides : SentIp(j, v, s) \in Values \cup {None}
  BY <1>2, LookupTyped DEF SentIp, Lists
<1>4. \A s \in Sides : SentPort(j, v, s) \in Ports \cup {None}
  BY <1>2, Shapes DEF SentPort, Lists
<1>5. f \in Forward \cup {None}
  <2>1. vip[v].forward \in Forward \cup {None}
    BY <1>1 DEF Vip
  <2> QED
    BY <1>4, <2>1, SidesAre, ForwardAfterRead
<1>6. x \in Values \cup {None} /\ m \in Values \cup {None}
  BY <1>1, <1>3, SidesAre DEF Vip
<1>7. Put(j, v) = [vip[v] EXCEPT !.ext = x, !.mapped = m, !.forward = f]
  BY <1>1, SidesAre DEF Put, Vip
<1> HIDE DEF x, m, f
<1>8. /\ Put(j, v) \in Vip /\ Put(j, v).ext = x /\ Put(j, v).mapped = m /\ Put(j, v).forward = f
      /\ Put(j, v).intf = vip[v].intf /\ Put(j, v).comment = vip[v].comment
  BY <1>1, <1>5, <1>6, <1>7 DEF Vip
<1> QED
  BY <1>1, <1>4, <1>8, SidesAre DEF x, m, f

LEMMA PushedIsTyped ==
    ASSUME SyncInvariant, NEW j \in Jobs, Push(j), ~Raised(j)
    PROVE  World'
<1>0. phase[j] = "syncing" /\ req[j].kind = "push" /\ World /\ TypeOK
  BY PushCalls, TypedWorld DEF SyncInvariant
<1>1. ASSUME NEW a \in Addresses, PushAddress(j, a) PROVE World'
  <2>1. src[j][a] \in Values \cup {Absent}
    BY <1>0, <1>1, Planned DEF PushAddress, Turn
  <2> QED
    BY <1>0, <1>1, <2>1, PutDeviceTyped DEF PushAddress, Call
<1>2. ASSUME NEW a \in Addresses, PushAddressDelete(j, a) PROVE World'
  BY <1>0, <1>2, PutDeviceTyped DEF PushAddressDelete, Call
<1>3. ASSUME NEW k \in Services, PushServiceCreate(j, k) \/ PushServiceDelete(j, k) PROVE World'
  <2>1. <<k[1], k[2]>> \in Addresses /\ k[3] \in Ports
    BY Shapes
  <2> QED
    BY <1>0, <1>3, <2>1, PutDeviceTyped DEF PushServiceCreate, PushServiceDelete, Call
<1>4. CASE PushPolicy(j)
  BY <1>0, <1>4, SameWorldTyped DEF PushPolicy
<1>5. ASSUME NEW v \in Vips, PushRuleCreate(j, v) PROVE World'
  <2>1. src[j][v] \in LoadedRule
    BY <1>0, <1>5, Planned DEF PushRuleCreate, Turn
  <2>2. \/ UNCHANGED worldVars
        \/ (\A s \in Sides : Lookup(j, src[j][v].lists.addr[s]) # None) /\ PutVip(v, Sent(j, v))
    BY <1>5, SidesAre DEF PushRuleCreate, Call, Sent
  <2> QED
    BY <1>0, <2>1, <2>2, SentTyped, PutDeviceTyped, SameWorldTyped
<1>6. ASSUME NEW v \in Vips, PushRuleUpdate(j, v) PROVE World'
  <2>1. src[j][v] \in LoadedRule
    BY <1>0, <1>6, Planned DEF PushRuleUpdate, Turn
  <2>2. UNCHANGED worldVars \/ (vip[v] # Absent /\ PutVip(v, Put(j, v)))
    BY <1>6 DEF PushRuleUpdate, Call, Put
  <2> QED
    BY <1>0, <2>1, <2>2, PutRead, PutDeviceTyped, SameWorldTyped
<1>7. ASSUME NEW v \in Vips, PushRuleDelete(j, v) PROVE World'
  BY <1>0, <1>7, PutDeviceTyped DEF PushRuleDelete, Call
<1> QED
  BY <1>1, <1>2, <1>3, <1>4, <1>5, <1>6, <1>7 DEF Push

----------------------------------------------------------------------------
(* Operators, and every step.                                              *)

\* A service that gets another port stays in the rules that hold it.
LEMMA RekeyTyped ==
    ASSUME World, NEW k \in Services, NEW p \in Ports, ServiceRowRekey(k, p)
    PROVE  World'
<1> DEFINE new == <<k[1], k[2], p>>
           Follow(list) == [s \in Sides |-> IF list[s] = k THEN new ELSE list[s]]
<1>1. /\ UNCHANGED <<vip, addr, serv, addrRow, policy>>
      /\ servRow' = (servRow \ {k}) \cup {new}
      /\ rule' = [v \in Vips |-> IF rule[v] = Absent THEN Absent
                    ELSE [rule[v] EXCEPT !.lists.serv = Follow(@)]]
  BY DEF ServiceRowRekey, deviceVars
<1>2. new \in Services /\ new # None
  BY Shapes, KindsAreDisjoint DEF Services
<1> HIDE DEF new
<1>3. ASSUME NEW v \in Vips
      PROVE  /\ rule[v] = Absent => rule'[v] = Absent
             /\ rule[v] # Absent =>
                   /\ rule'[v] \in Rule /\ rule'[v].linked = rule[v].linked
                   /\ rule'[v].lists.addr = rule[v].lists.addr
                   /\ rule'[v].lists.serv = Follow(rule[v].lists.serv)
  <2>1. CASE rule[v] # Absent
    <3>1. rule[v] \in Rule /\ rule[v].lists \in Lists
      BY <2>1 DEF World, RowsTyped, RulesTyped, Rule
    <3>2. rule[v].lists = [addr |-> rule[v].lists.addr, serv |-> rule[v].lists.serv]
      BY <3>1 DEF Lists
    <3>3. Follow(rule[v].lists.serv) \in [Sides -> Services \cup {None}]
      BY <1>2, <3>1 DEF Lists
    <3>4. rule'[v] = [rule[v] EXCEPT !.lists = [rule[v].lists EXCEPT !.serv = Follow(rule[v].lists.serv)]]
      BY <1>1, <2>1, <3>1 DEF Rule
    <3> HIDE DEF Follow
    <3>5. [rule[v].lists EXCEPT !.serv = Follow(rule[v].lists.serv)] \in Lists
      BY <3>1, <3>3 DEF Lists
    <3> QED
      BY <2>1, <3>1, <3>4, <3>5 DEF Rule, Lists
  <2>2. CASE rule[v] = Absent
    BY <1>1, <2>2
  <2> QED
    BY <2>1, <2>2
<1>4. rule' \in [Vips -> Rule \cup {Absent}]
  <2>1. rule' = [v \in Vips |-> rule'[v]]
    BY <1>1
  <2> QED
    BY <1>3, <2>1
<1>5. \A v \in Vips : rule[v] # Absent =>
         \A s \in Sides : rule'[v].lists.serv[s] # None => rule'[v].lists.serv[s] \in servRow'
  <2> SUFFICES ASSUME NEW v \in Vips, rule[v] # Absent, NEW s \in Sides,
                      rule'[v].lists.serv[s] # None
               PROVE  rule'[v].lists.serv[s] \in servRow'
    OBVIOUS
  <2>1. rule'[v].lists.serv[s] = IF rule[v].lists.serv[s] = k THEN new ELSE rule[v].lists.serv[s]
    BY <1>3
  <2>2. rule[v].lists.serv[s] # None => rule[v].lists.serv[s] \in servRow
    BY DEF World, RowsTyped, RulesTyped
  <2>3. \A m : m \in servRow' <=> (m \in servRow /\ m # k) \/ m = new
    BY <1>1
  <2> HIDE DEF Follow
  <2> QED
    BY <2>1, <2>2, <2>3
<1>6. RulesTyped(addrRow', servRow', policy', rule')
  <2>1. \A v \in Vips : rule'[v] # Absent => rule[v] # Absent
    BY <1>3
  <2>2. \A v \in Vips : rule[v] # Absent =>
           /\ \A s \in Sides : rule[v].lists.addr[s] # None => addrRow[rule[v].lists.addr[s]] # Absent
           /\ rule[v].linked => policy # Absent
    BY DEF World, RowsTyped, RulesTyped
  <2> HIDE DEF Follow
  <2>3. \A v \in Vips : rule'[v] # Absent =>
           /\ \A s \in Sides : rule'[v].lists.addr[s] # None => addrRow'[rule'[v].lists.addr[s]] # Absent
           /\ rule'[v].linked => policy' # Absent
    BY <1>1, <1>3, <2>1, <2>2
  <2> QED
    BY <1>4, <1>5, <2>1, <2>3 DEF RulesTyped
<1>7. servRow' \in SUBSET Services
  BY <1>1, <1>2 DEF World, RowsTyped
<1> QED
  BY <1>1, <1>6, <1>7 DEF World, RowsTyped, DeviceTyped

LEMMA PolicyRowEditTyped ==
    ASSUME World, NEW d \in {Generated, Retyped, Absent}, PolicyRowEdit(d)
    PROVE  World'
<1>1. /\ UNCHANGED <<vip, addr, serv, addrRow, servRow>> /\ policy' = d
      /\ rule' = [v \in Vips |-> IF rule[v] = Absent THEN Absent
                    ELSE [rule[v] EXCEPT !.linked = @ /\ d # Absent]]
  BY DEF PolicyRowEdit, deviceVars
<1>2. ASSUME NEW v \in Vips
      PROVE  /\ rule[v] = Absent => rule'[v] = Absent
             /\ rule[v] # Absent =>
                   /\ rule'[v] \in Rule /\ (rule'[v].linked => d # Absent)
                   /\ rule'[v].lists = rule[v].lists
  <2>1. CASE rule[v] # Absent
    <3>1. rule[v] \in Rule
      BY <2>1 DEF World, RowsTyped, RulesTyped
    <3>2. PICK b \in BOOLEAN : b = (rule[v].linked /\ d # Absent)
      BY <3>1 DEF Rule
    <3>3. rule'[v] = [rule[v] EXCEPT !.linked = b]
      BY <1>1, <2>1, <3>1, <3>2 DEF Rule
    <3> QED
      BY <2>1, <3>1, <3>2, <3>3 DEF Rule
  <2>2. CASE rule[v] = Absent
    BY <1>1, <2>2
  <2> QED
    BY <2>1, <2>2
<1>3. rule' \in [Vips -> Rule \cup {Absent}]
  <2>1. rule' = [v \in Vips |-> rule'[v]]
    BY <1>1
  <2> QED
    BY <1>2, <2>1
<1>4. RulesTyped(addrRow', servRow', policy', rule')
  BY <1>1, <1>2, <1>3 DEF World, RowsTyped, RulesTyped
<1> QED
  BY <1>1, <1>4 DEF World, RowsTyped, DeviceTyped

LEMMA RuleEditTyped ==
    ASSUME World, NEW v \in Vips, NEW r \in Rule \cup {Absent}, RuleEdit(v, r)
    PROVE  World'
<1>1. r # Absent => RuleFits(r)
  <2> SUFFICES ASSUME r # Absent PROVE RuleFits(r)
    OBVIOUS
  <2>1. r \in Rule /\ r.lists \in Lists /\ FoundLists(r.lists) = r.lists /\ (r.linked => policy # Absent)
    BY DEF RuleEdit, Rule
  <2>2. /\ \A s \in Sides : FoundLists(r.lists).addr[s] # None =>
              addrRow[FoundLists(r.lists).addr[s]] # Absent
        /\ \A s \in Sides : FoundLists(r.lists).serv[s] # None =>
              FoundLists(r.lists).serv[s] \in servRow
    BY <2>1, FoundRead
  <2> QED
    BY <2>1, <2>2 DEF RuleFits
<1> QED
  BY <1>1, PutRuleTyped DEF RuleEdit

LEMMA DeviceEditTyped ==
    ASSUME TypeOK, NEW e \in DeviceEdits, DeviceEdit(e)
    PROVE  TypeOK'
<1>1. World'
  <2>1. \/ e.of = "vip" /\ e.key \in Vips /\ e.record \in Vip \cup {Absent}
        \/ e.of = "addr" /\ e.key \in Addresses /\ e.record \in Values \cup {Absent}
        \/ e.of = "serv" /\ e.key \in Addresses /\ e.record \in Ports \cup {Absent}
    BY WorldsAssumption
  <2> QED
    BY <2>1, TypedWorld, PutDeviceTyped DEF DeviceEdit
<1>2. /\ touched' \subseteq Jobs /\ edits' \in 0..MaxEdits
      /\ UNCHANGED <<phase, req, src, dst, todo, runs>>
  BY ConstantsAssumption DEF DeviceEdit, Edited, TypeOK
<1> QED
  BY <1>1, <1>2 DEF TypeOK, World, SourceKind, TargetKind

LEMMA RowEditTyped ==
    ASSUME TypeOK, NEW e \in RowEdits, RowEdit(e)
    PROVE  TypeOK'
<1>1. World'
  <2>1. \/ e.of = "addr" /\ e.key \in Addresses /\ e.record \in Values \cup {Absent}
        \/ e.of = "serv" /\ e.key \in Services /\ e.record \in Ports
        \/ e.of = "rule" /\ e.key \in Vips /\ e.record \in Rule \cup {Absent}
        \/ e.of = "policy" /\ e.record \in {Generated, Retyped, Absent}
    BY WorldsAssumption
  <2>2. ASSUME e.of = "addr", e.key \in Addresses, e.record \in Values \cup {Absent},
               AddressRowEdit(e.key, e.record)
        PROVE  World'
    BY <2>2, TypedWorld, PutAddressRowTyped, RemoveAddressRowTyped DEF AddressRowEdit
  <2> QED
    BY <2>1, <2>2, TypedWorld, RekeyTyped, RuleEditTyped, PolicyRowEditTyped DEF RowEdit
<1>2. /\ touched' \subseteq Jobs /\ edits' \in 0..MaxEdits
      /\ UNCHANGED <<phase, req, src, dst, todo, runs>>
  BY ConstantsAssumption DEF RowEdit, Edited, TypeOK
<1> QED
  BY <1>1, <1>2 DEF TypeOK, World, SourceKind, TargetKind

LEMMA CutShortTyped ==
    ASSUME TypeOK, NEW j \in Jobs, NEW v \in Vips, CutShort(j, v), World'
    PROVE  TypeOK'
<1>1. touched' \subseteq Jobs /\ phase' \in [Jobs -> Idle \cup Running]
  BY DEF TypeOK, CutShort, Advance, Idle
<1> QED
  BY <1>1 DEF TypeOK, CutShort, World, SourceKind, TargetKind

LEMMA StepTyped ==
    ASSUME SyncInvariant, [Next]_vars
    PROVE  TypeOK'
<1>0. TypeOK
  BY DEF SyncInvariant
<1>1. ASSUME NEW j \in Jobs,
             Start(j) \/ Load(j) \/ ExecuteSync(j) \/ Finish(j) \/ Crash(j) \/ Raised(j)
      PROVE  TypeOK'
  BY <1>0, <1>1, StartTyped, LoadTyped, ExecuteSyncTyped, RestTyped
<1>2. ASSUME NEW j \in Jobs, Pull(j) \/ Push(j), ~Raised(j)
      PROVE  TypeOK'
  <2>1. (\E e : Applied(j, e)) \/ (\E v \in Vips : CutShort(j, v))
    BY <1>2, PullCalls, PushCalls
  <2>2. World'
    BY <1>2, PulledIsTyped, PushedIsTyped
  <2> QED
    BY <1>0, <2>1, <2>2, AppliedTyped, CutShortTyped
<1>3. CASE UNCHANGED vars
  <2>1. World'
    BY <1>0, <1>3, TypedWorld, SameWorldTyped DEF vars, worldVars, deviceVars, rowVars
  <2> QED
    BY <1>0, <1>3, <2>1 DEF vars, TypeOK, World, SourceKind, TargetKind
<1> QED
  BY <1>0, <1>1, <1>2, <1>3, DeviceEditTyped, RowEditTyped DEF Next, Work

----------------------------------------------------------------------------
(* Steps that are not the job's own.                                       *)

StepOf(k) ==
    Start(k) \/ Load(k) \/ ExecuteSync(k) \/ Pull(k) \/ Push(k) \/ Finish(k) \/ Crash(k)

\* What job k knows and has to do.
SameJob(k) ==
    /\ phase'[k] = phase[k] /\ req'[k] = req[k]
    /\ src'[k] = src[k] /\ dst'[k] = dst[k] /\ todo'[k] = todo[k]

\* Nobody else alters what a job knows; and if it still counts as undisturbed,
\* nobody else has altered the device or a row.
LEMMA OthersStep ==
    ASSUME SyncInvariant, [Next]_vars, NEW k \in Jobs, ~StepOf(k)
    PROVE  SameJob(k) /\ (k \notin touched' => k \notin touched /\ UNCHANGED worldVars)
<1> DEFINE Goal == SameJob(k) /\ (k \notin touched' => k \notin touched /\ UNCHANGED worldVars)
<1>0. /\ phase \in [Jobs -> Idle \cup Running] /\ req \in [Jobs -> Requests]
      /\ src = [j \in Jobs |-> src[j]] /\ dst = [j \in Jobs |-> dst[j]]
      /\ todo \in [Jobs -> [write : SUBSET Elements, delete : SUBSET Elements]]
  BY DEF SyncInvariant, TypeOK
<1>1. ASSUME NEW j \in Jobs, j # k, Start(j) PROVE Goal
  BY <1>0, <1>1 DEF Start, Advance, SameJob
<1>2. ASSUME NEW j \in Jobs, j # k, Load(j) PROVE Goal
  BY <1>0, <1>2 DEF Load, LoadSourceObjects, LoadSourceRules, LoadTargetObjects, LoadTargetRules,
                    Advance, SameJob
<1>3. ASSUME NEW j \in Jobs, j # k, ExecuteSync(j) \/ Finish(j) \/ Crash(j) \/ Raised(j) PROVE Goal
  BY <1>0, <1>3 DEF ExecuteSync, Finish, Crash, Raised, Advance, SameJob
<1>4. ASSUME NEW j \in Jobs, j # k, NEW e, Applied(j, e) PROVE Goal
  BY <1>0, <1>4 DEF Applied, SameJob
<1>5. ASSUME NEW j \in Jobs, j # k, NEW v, CutShort(j, v) PROVE Goal
  BY <1>0, <1>5 DEF CutShort, Advance, SameJob
<1>6. ASSUME NEW j \in Jobs, Pull(j) \/ Push(j)
      PROVE  Raised(j) \/ (\E e : Applied(j, e)) \/ (\E v : CutShort(j, v))
  BY <1>6, PullCalls, PushCalls
<1>7. CASE (\E e \in DeviceEdits : DeviceEdit(e)) \/ (\E e \in RowEdits : RowEdit(e))
  <2>1. Edited
    BY <1>7 DEF DeviceEdit, RowEdit
  <2> QED
    BY <2>1 DEF Edited, SameJob
<1>8. CASE UNCHANGED vars
  BY <1>8 DEF vars, worldVars, deviceVars, rowVars, SameJob
<1> QED
  BY <1>1, <1>2, <1>3, <1>4, <1>5, <1>6, <1>7, <1>8 DEF Next, Work, StepOf

----------------------------------------------------------------------------
(* What a job has loaded, while nobody writes it.                          *)

\* The whole store of an adapter, read off the device or the rows.
LEMMA DeviceStoreRead ==
    /\ \A a \in Addresses :
          Store("device")[a] = IF addr[a] = Absent /\ Readable(a[2]) THEN MadeUp(a) ELSE addr[a]
    /\ \A k \in Services :
          Store("device")[k] =
             IF (Readable(k[2]) /\ PortsOf(k[2])[k[1]] = k) \/ serv[<<k[1], k[2]>>] = k[3]
             THEN "loaded" ELSE Absent
    /\ Store("device")[Container] = Generated
    /\ \A v \in Vips : Store("device")[v] = IF Readable(v) THEN FgtRule(v) ELSE Absent
<1>1. LoadedObjects("device") = LoadedObjects("device") /\ "device" \in {"device", "rows"}
  OBVIOUS
<1>2. /\ \A a \in Addresses : Store("device")[a] = UpsertAddress(LoadedObjects("device"), a)
      /\ \A k \in Services : Store("device")[k] = UpsertService(LoadedObjects("device"), k)
      /\ Store("device")[Container] = Generated
      /\ \A v \in Vips : Store("device")[v] = IF Readable(v) THEN FgtRule(v) ELSE Absent
  BY <1>1, LoadedRulesRead DEF Store
<1> QED
  BY <1>2, LoadedObjectsRead DEF UpsertAddress, UpsertService

LEMMA RowStoreRead ==
    /\ \A a \in Addresses : Store("rows")[a] = addrRow[a]
    /\ \A k \in Services : Store("rows")[k] = IF k \in servRow THEN "loaded" ELSE Absent
    /\ Store("rows")[Container] = policy
    /\ \A v \in Vips : Store("rows")[v] = IF Visible(v) THEN RowRule(v) ELSE Absent
<1>1. "rows" \in {"device", "rows"} /\ "rows" # "device"
  OBVIOUS
<1>2. /\ \A a \in Addresses : Store("rows")[a] = LoadedObjects("rows")[a]
      /\ \A k \in Services : Store("rows")[k] = LoadedObjects("rows")[k]
      /\ Store("rows")[Container] = policy
      /\ \A v \in Vips : Store("rows")[v] = IF Visible(v) THEN RowRule(v) ELSE Absent
  BY <1>1, LoadedRulesRead DEF Store
<1> QED
  BY <1>1, <1>2, LoadedObjectsRead

LEMMA SameStore ==
    /\ UNCHANGED deviceVars =>
          LoadedObjects("device")' = LoadedObjects("device") /\ Store("device")' = Store("device")
    /\ UNCHANGED rowVars =>
          LoadedObjects("rows")' = LoadedObjects("rows") /\ Store("rows")' = Store("rows")
<1>1. ASSUME UNCHANGED deviceVars
      PROVE  LoadedObjects("device")' = LoadedObjects("device") /\ Store("device")' = Store("device")
  BY <1>1 DEF deviceVars, Store, LoadedObjects, LoadedRules, UpsertAddress, UpsertService, PortsOf,
               FgtRule, Readable, MadeUp
<1>2. ASSUME UNCHANGED rowVars
      PROVE  LoadedObjects("rows")' = LoadedObjects("rows") /\ Store("rows")' = Store("rows")
  <2>1. LoadedObjects("rows")' = LoadedObjects("rows")
    BY <1>2 DEF rowVars, LoadedObjects
  <2>2. \A v : Visible(v)' = Visible(v) /\ RowRule(v)' = RowRule(v)
    BY <1>2 DEF rowVars, Visible, RowRule, Resolve
  <2> DEFINE o == LoadedObjects("rows")
             Body(e) ==
               CASE e \in Addresses /\ "rows" = "device" -> UpsertAddress(o, e)
                 [] e \in Services /\ "rows" = "device" -> UpsertService(o, e)
                 [] e \in Addresses \cup Services /\ "rows" = "rows" -> o[e]
                 [] e = Container -> IF "rows" = "device" THEN Generated ELSE policy
                 [] e \in Vips /\ "rows" = "device" -> IF Readable(e) THEN FgtRule(e) ELSE Absent
                 [] e \in Vips /\ "rows" = "rows" -> IF Visible(e) THEN RowRule(e) ELSE Absent
  <2>3. Store("rows") = [e \in Elements |-> Body(e)] /\ Store("rows")' = [e \in Elements |-> Body(e)']
    BY DEF Store, LoadedRules
  <2>4. \A e \in Elements : Body(e)' = Body(e)
    <3>1. "rows" # "device"
      OBVIOUS
    <3> SUFFICES ASSUME NEW e \in Elements PROVE Body(e)' = Body(e)
      OBVIOUS
    <3>2. CASE e \in Addresses \cup Services
      <4>1. Body(e) = o[e] /\ Body(e)' = o'[e]
        BY <3>1, <3>2, KindsAreDisjoint
      <4> QED
        BY <2>1, <4>1
    <3>3. CASE e = Container
      <4>1. Body(e) = policy /\ Body(e)' = policy'
        BY <3>1, <3>3, KindsAreDisjoint
      <4> QED
        BY <1>2, <4>1 DEF rowVars
    <3>4. CASE e \in Vips
      <4>1. /\ Body(e) = IF Visible(e) THEN RowRule(e) ELSE Absent
            /\ Body(e)' = IF Visible(e)' THEN RowRule(e)' ELSE Absent
        BY <3>1, <3>4, KindsAreDisjoint
      <4> QED
        BY <2>2, <4>1
    <3> QED
      BY <3>2, <3>3, <3>4 DEF Elements
  <2> HIDE DEF Body
  <2> QED
    BY <2>1, <2>3, <2>4
<1> QED
  BY <1>1, <1>2

LEMMA SameCurrent ==
    ASSUME NEW kind \in {"device", "rows"},
           kind = "device" => UNCHANGED deviceVars, kind = "rows" => UNCHANGED rowVars
    PROVE  /\ LoadedObjects(kind)' = LoadedObjects(kind) /\ Store(kind)' = Store(kind)
           /\ \A store, b : IsCurrent(store, kind, b)' <=> IsCurrent(store, kind, b)
<1>1. LoadedObjects(kind)' = LoadedObjects(kind) /\ Store(kind)' = Store(kind)
  <2>1. CASE kind = "device"
    BY <2>1, SameStore
  <2>2. CASE kind = "rows"
    BY <2>2, SameStore
  <2> QED
    BY <2>1, <2>2
<1> QED
  BY <1>1 DEF IsCurrent

\* A job whose source nobody writes still has it as it is.
LEMMA SourceKept ==
    ASSUME NEW k \in Jobs, SourceIsCurrent(k), k \notin touched' => k \notin touched,
           req'[k] = req[k], src'[k] = src[k],
           phase[k] \notin {"idle", "source", "crashed"},
           (phase'[k] # "sourceRules") = (phase[k] # "sourceRules"),
           k \notin touched' /\ SourceKind(k) = "device" => UNCHANGED deviceVars,
           k \notin touched' /\ SourceKind(k) = "rows" => UNCHANGED rowVars
    PROVE  SourceIsCurrent(k)'
<1> SUFFICES ASSUME k \notin touched', phase'[k] \notin {"idle", "source", "crashed"}
             PROVE  IsCurrent(src[k], SourceKind(k), phase[k] # "sourceRules")'
  BY DEF SourceIsCurrent
<1>1. PICK kind \in {"device", "rows"} : kind = SourceKind(k)
  BY DEF SourceKind
<1>2. PICK store : store = src[k]
  OBVIOUS
<1>3. PICK b : b = (phase[k] # "sourceRules")
  OBVIOUS
<1>4. IsCurrent(store, kind, b)
  BY <1>1, <1>2, <1>3 DEF SourceIsCurrent
<1>5. IsCurrent(store, kind, b)'
  BY <1>1, <1>4, SameCurrent
<1>6. /\ src'[k] = store /\ (phase'[k] # "sourceRules") = b
      /\ SourceKind(k)' = kind
  BY <1>1, <1>2, <1>3 DEF SourceKind
<1>7. Store(SourceKind(k))' = Store(kind)' /\ LoadedObjects(SourceKind(k))' = LoadedObjects(kind)'
  BY <1>6
<1> QED
  BY <1>5, <1>6, <1>7 DEF IsCurrent

\* What a plan says stays what it says while the plan, and what the job has
\* loaded, are the same.
LEMMA SamePlan ==
    ASSUME NEW k \in Jobs, UNCHANGED worldVars,
           req'[k] = req[k], src'[k] = src[k], dst'[k] = dst[k], todo'[k] = todo[k]
    PROVE  /\ Pending(k)' = Pending(k) /\ Differs(k)' = Differs(k) /\ WorkedOff(k)' = WorkedOff(k)
           /\ \A e : Outcome(k, e)' = Outcome(k, e)
           /\ \A v : PulledRule(k, v)' <=> PulledRule(k, v)
           /\ \A v : PushedVip(k, v)' <=> PushedVip(k, v)
<1>1. /\ Pending(k)' = Pending(k) /\ Differs(k)' = Differs(k) /\ WorkedOff(k)' = WorkedOff(k)
      /\ \A e : Outcome(k, e)' = Outcome(k, e)
  BY DEF Pending, Differs, WorkedOff, Writes, Deletes, Outcome
<1>2. UNCHANGED <<vip, addr, serv, addrRow, servRow, policy, rule>>
  BY DEF worldVars, deviceVars, rowVars
<1>3. ASSUME NEW v PROVE PulledRule(k, v)' <=> PulledRule(k, v)
  <2>1. FoundLists(dst[k][v].lists)' = FoundLists(dst[k][v].lists)
    BY <1>2 DEF FoundLists, Found, HasRow
  <2> QED
    BY <1>1, <1>2, <2>1 DEF PulledRule, Visible
<1>4. ASSUME NEW v PROVE PushedVip(k, v)' <=> PushedVip(k, v)
  <2>1. FgtRule(v)' = FgtRule(v) /\ Readable(v)' = Readable(v)
    BY <1>2 DEF FgtRule, PortsOf, Readable
  <2> QED
    BY <1>1, <1>2, <2>1 DEF PushedVip, BothPorts
<1> QED
  BY <1>1, <1>3, <1>4

LEMMA SameOnCourse ==
    ASSUME NEW k \in Jobs, UNCHANGED worldVars,
           req'[k] = req[k], src'[k] = src[k], dst'[k] = dst[k], todo'[k] = todo[k],
           k \notin touched' => k \notin touched, phase'[k] \in Applying => phase[k] \in Applying,
           PullIsOnCourse(k), PushIsOnCourse(k)
    PROVE  PullIsOnCourse(k)' /\ PushIsOnCourse(k)'
<1>1. UNCHANGED <<vip, addr, serv, addrRow, servRow, policy, rule>>
  BY DEF worldVars, deviceVars, rowVars
<1>2. /\ Pending(k)' = Pending(k) /\ WorkedOff(k)' = WorkedOff(k)
      /\ \A e : Outcome(k, e)' = Outcome(k, e)
      /\ \A v : PulledRule(k, v)' <=> PulledRule(k, v)
      /\ \A v : PushedVip(k, v)' <=> PushedVip(k, v)
  BY SamePlan
<1>3. PullIsOnCourse(k)'
  BY <1>1, <1>2 DEF PullIsOnCourse
<1>4. PushIsOnCourse(k)'
  BY <1>1, <1>2 DEF PushIsOnCourse
<1> QED
  BY <1>3, <1>4

LEMMA SameCourse ==
    ASSUME NEW k \in Jobs, SameJob(k), CourseOf(k),
           k \notin touched' => k \notin touched /\ UNCHANGED worldVars
    PROVE  CourseOf(k)'
<1>1. PlanFollowsDiff(k)'
  BY DEF SameJob, CourseOf, PlanFollowsDiff, Differs, WorkedOff, Writes, Deletes, Pending, NoWork
<1>2. CASE k \in touched'
  BY <1>1, <1>2 DEF CourseOf, SourceIsCurrent, TargetIsCurrent, PullIsOnCourse, PushIsOnCourse
<1>3. CASE k \notin touched'
  <2>0. /\ k \notin touched /\ UNCHANGED worldVars
        /\ phase'[k] = phase[k] /\ req'[k] = req[k]
        /\ src'[k] = src[k] /\ dst'[k] = dst[k] /\ todo'[k] = todo[k]
    BY <1>3 DEF SameJob
  <2>1. SourceIsCurrent(k)'
    <3>1. CASE phase[k] \in {"idle", "source", "crashed"}
      BY <2>0, <3>1 DEF SourceIsCurrent
    <3>2. CASE phase[k] \notin {"idle", "source", "crashed"}
      BY <2>0, <3>2, SourceKept DEF CourseOf, worldVars
    <3> QED
      BY <3>1, <3>2
  <2>2. TargetIsCurrent(k)'
    <3> SUFFICES ASSUME phase[k] \in {"targetRules", "loaded"}
                 PROVE  IsCurrent(dst[k], TargetKind(k), phase[k] = "loaded")'
      BY <2>0 DEF TargetIsCurrent
    <3>1. PICK kind \in {"device", "rows"} : kind = TargetKind(k)
      BY DEF TargetKind
    <3>2. TargetKind(k)' = kind
      BY <2>0, <3>1 DEF TargetKind
    <3>3. LoadedObjects(kind)' = LoadedObjects(kind) /\ Store(kind)' = Store(kind)
      BY <2>0, SameCurrent DEF worldVars
    <3>4. Store(TargetKind(k))' = Store(kind) /\ LoadedObjects(TargetKind(k))' = LoadedObjects(kind)
      BY <3>2, <3>3
    <3> QED
      BY <2>0, <3>1, <3>4 DEF IsCurrent, CourseOf, TargetIsCurrent
  <2> QED
    BY <1>1, <2>0, <2>1, <2>2, SameOnCourse DEF CourseOf
<1> QED
  BY <1>2, <1>3

----------------------------------------------------------------------------
(* The job's own steps, up to the diff.                                    *)

LEMMA StartCourse ==
    ASSUME SyncInvariant, NEW k \in Jobs, Start(k)
    PROVE  CourseOf(k)'
<1>1. phase'[k] = "source"
  BY DEF SyncInvariant, TypeOK, Start, Advance
<1> QED
  BY <1>1 DEF CourseOf, PlanFollowsDiff, SourceIsCurrent, TargetIsCurrent, PullIsOnCourse,
              PushIsOnCourse, Applying

LEMMA EndCourse ==
    ASSUME SyncInvariant, NEW k \in Jobs, CourseOf(k), Finish(k) \/ Crash(k) \/ Raised(k),
           Raised(k) => phase[k] = "syncing"
    PROVE  CourseOf(k)'
<1>1. /\ UNCHANGED worldVars /\ UNCHANGED <<req, src, dst, todo, touched>>
      /\ \/ phase'[k] = "crashed"
         \/ /\ phase[k] = "syncing" /\ phase'[k] \in {"done", "failed"}
            /\ phase'[k] = "done" => todo[k] = NoWork
  BY DEF SyncInvariant, TypeOK, Finish, Crash, Raised, Advance
<1>2. CASE phase'[k] = "crashed"
  BY <1>2 DEF CourseOf, PlanFollowsDiff, SourceIsCurrent, TargetIsCurrent, PullIsOnCourse,
              PushIsOnCourse, Applying
<1>3. CASE phase[k] = "syncing" /\ phase'[k] \in {"done", "failed"}
  <2>1. PlanFollowsDiff(k)'
    <3>1. Pending(k)' = Pending(k) /\ WorkedOff(k)' = WorkedOff(k)
      BY <1>1, SamePlan
    <3> QED
      BY <1>1, <1>3, <3>1 DEF CourseOf, PlanFollowsDiff, Applying, Writes, Deletes
  <2>2. SourceIsCurrent(k)'
    BY <1>1, <1>3, SourceKept DEF CourseOf, worldVars
  <2>3. TargetIsCurrent(k)'
    BY <1>3 DEF TargetIsCurrent
  <2>4. PullIsOnCourse(k)' /\ PushIsOnCourse(k)'
    BY <1>1, <1>3, SameOnCourse DEF CourseOf, Applying
  <2> QED
    BY <2>1, <2>2, <2>3, <2>4 DEF CourseOf
<1> QED
  BY <1>1, <1>2, <1>3

\* What the rules add depends on the objects loaded before them.
LEMMA RulesOfObjects ==
    ASSUME NEW kind \in {"device", "rows"}, NEW store,
           \A e \in Addresses \cup Services : store[e] = LoadedObjects(kind)[e]
    PROVE  \A e \in Elements : LoadedRules(kind, store)[e] = Store(kind)[e]
<1>1. \A a \in Addresses : UpsertAddress(store, a) = UpsertAddress(LoadedObjects(kind), a)
  BY DEF UpsertAddress
<1>2. \A k \in Services : UpsertService(store, k) = UpsertService(LoadedObjects(kind), k)
  BY DEF UpsertService
<1> QED
  BY <1>1, <1>2, LoadedRulesRead DEF Store, Elements

LEMMA LoadCourse ==
    ASSUME SyncInvariant, NEW k \in Jobs, Load(k), CourseOf(k)
    PROVE  CourseOf(k)'
<1>0. /\ phase \in [Jobs -> Idle \cup Running]
      /\ src = [j \in Jobs |-> src[j]] /\ dst = [j \in Jobs |-> dst[j]]
  BY DEF SyncInvariant, TypeOK
<1>1. UNCHANGED worldVars /\ req' = req /\ touched' = touched
  BY DEF Load, LoadSourceObjects, LoadSourceRules, LoadTargetObjects, LoadTargetRules
<1>2. phase'[k] \notin Applying \cup {"source", "idle", "crashed"}
  BY <1>0 DEF Load, LoadSourceObjects, LoadSourceRules, LoadTargetObjects, LoadTargetRules,
              Advance, Applying
<1>3. /\ LoadSourceObjects(k) =>
            /\ phase[k] = "source" /\ phase'[k] = "sourceRules" /\ dst'[k] = dst[k]
            /\ src'[k] = With(src[k], LoadedObjects(SourceKind(k)))
      /\ LoadSourceRules(k) =>
            /\ phase[k] = "sourceRules" /\ phase'[k] = "target" /\ dst'[k] = dst[k]
            /\ src'[k] = LoadedRules(SourceKind(k), src[k])
      /\ LoadTargetObjects(k) =>
            /\ phase[k] = "target" /\ phase'[k] = "targetRules" /\ src'[k] = src[k]
            /\ dst'[k] = With(dst[k], LoadedObjects(TargetKind(k)))
      /\ LoadTargetRules(k) =>
            /\ phase[k] = "targetRules" /\ phase'[k] = "loaded" /\ src'[k] = src[k]
            /\ dst'[k] = LoadedRules(TargetKind(k), dst[k])
  BY <1>0 DEF LoadSourceObjects, LoadSourceRules, LoadTargetObjects, LoadTargetRules, Advance
<1>4. PICK from \in {"device", "rows"}, to \in {"device", "rows"} :
         from = SourceKind(k) /\ to = TargetKind(k)
  BY DEF SourceKind, TargetKind
<1>5. /\ LoadedObjects(SourceKind(k))' = LoadedObjects(from) /\ Store(SourceKind(k))' = Store(from)
      /\ LoadedObjects(TargetKind(k))' = LoadedObjects(to) /\ Store(TargetKind(k))' = Store(to)
  <2>1. SourceKind(k)' = from /\ TargetKind(k)' = to
    BY <1>1, <1>4 DEF SourceKind, TargetKind
  <2>2. /\ LoadedObjects(from)' = LoadedObjects(from) /\ Store(from)' = Store(from)
        /\ LoadedObjects(to)' = LoadedObjects(to) /\ Store(to)' = Store(to)
    BY <1>1, SameCurrent DEF worldVars
  <2> QED
    BY <2>1, <2>2
<1>6. SourceIsCurrent(k)'
  <2> SUFFICES ASSUME k \notin touched
               PROVE  IF phase'[k] # "sourceRules"
                      THEN \A e \in Elements : src'[k][e] = Store(from)[e]
                      ELSE \A e \in Addresses \cup Services : src'[k][e] = LoadedObjects(from)[e]
    BY <1>1, <1>5 DEF SourceIsCurrent, IsCurrent
  <2>1. CASE LoadSourceObjects(k)
    BY <1>3, <1>4, <2>1, WithObjectsRead
  <2>2. CASE LoadSourceRules(k)
    <3>1. \A e \in Addresses \cup Services : src[k][e] = LoadedObjects(from)[e]
      BY <1>3, <1>4, <2>2 DEF CourseOf, SourceIsCurrent, IsCurrent
    <3> QED
      BY <1>3, <1>4, <2>2, <3>1, RulesOfObjects
  <2>3. CASE LoadTargetObjects(k) \/ LoadTargetRules(k)
    BY <1>3, <1>4, <2>3 DEF CourseOf, SourceIsCurrent, IsCurrent
  <2> QED
    BY <2>1, <2>2, <2>3 DEF Load
<1>7. TargetIsCurrent(k)'
  <2> SUFFICES ASSUME k \notin touched, phase'[k] \in {"targetRules", "loaded"}
               PROVE  IF phase'[k] = "loaded"
                      THEN \A e \in Elements : dst'[k][e] = Store(to)[e]
                      ELSE \A e \in Addresses \cup Services : dst'[k][e] = LoadedObjects(to)[e]
    BY <1>1, <1>5 DEF TargetIsCurrent, IsCurrent
  <2>1. CASE LoadTargetObjects(k)
    BY <1>3, <1>4, <2>1, WithObjectsRead
  <2>2. CASE LoadTargetRules(k)
    <3>1. \A e \in Addresses \cup Services : dst[k][e] = LoadedObjects(to)[e]
      BY <1>3, <1>4, <2>2 DEF CourseOf, TargetIsCurrent, IsCurrent
    <3> QED
      BY <1>3, <1>4, <2>2, <3>1, RulesOfObjects
  <2> QED
    BY <1>3, <2>1, <2>2 DEF Load
<1> QED
  BY <1>2, <1>6, <1>7 DEF CourseOf, PlanFollowsDiff, PullIsOnCourse, PushIsOnCourse

\* Lists whose every object has a row are found whole.
LEMMA FoundAll ==
    ASSUME NEW l \in Lists,
           \A s \in Sides : l.addr[s] # None => addrRow[l.addr[s]] # Absent,
           \A s \in Sides : l.serv[s] # None => l.serv[s] \in servRow
    PROVE  FoundLists(l) = l
<1>1. FoundLists(l) \in Lists
  BY FoundRead
<1>2. /\ \A s \in Sides : FoundLists(l).addr[s] = l.addr[s]
      /\ \A s \in Sides : FoundLists(l).serv[s] = l.serv[s]
  BY FoundRead
<1>3. FoundLists(l).addr = l.addr /\ FoundLists(l).serv = l.serv
  BY <1>1, <1>2 DEF Lists
<1> QED
  BY <1>1, <1>3 DEF Lists

LEMMA ExecuteSyncCourse ==
    ASSUME SyncInvariant, NEW k \in Jobs, ExecuteSync(k), CourseOf(k)
    PROVE  CourseOf(k)'
<1>0. /\ phase \in [Jobs -> Idle \cup Running]
      /\ todo \in [Jobs -> [write : SUBSET Elements, delete : SUBSET Elements]]
      /\ Loaded(dst[k], TargetKind(k)) /\ World
      /\ Addresses \subseteq Elements /\ Services \subseteq Elements /\ Vips \subseteq Elements
      /\ Container \in Elements
  BY TypedWorld DEF SyncInvariant, TypeOK, Elements
<1>1. /\ UNCHANGED worldVars /\ req' = req /\ touched' = touched /\ src' = src /\ dst' = dst
      /\ phase[k] = "loaded" /\ phase'[k] = "syncing"
      /\ todo'[k] = [write |-> Writes(src[k], dst[k]),
                     delete |-> IF req[k].delete THEN Deletes(src[k], dst[k]) ELSE {}]
  BY <1>0 DEF ExecuteSync, Advance
<1>2. UNCHANGED <<vip, addr, serv, addrRow, servRow, policy, rule>>
  BY <1>1 DEF worldVars, deviceVars, rowVars
<1>3. WorkedOff(k)' = {} /\ \A e : Outcome(k, e)' = dst[k][e]
  BY <1>1 DEF WorkedOff, Differs, Pending, Writes, Deletes, Outcome
<1>4. PlanFollowsDiff(k)'
  BY <1>1, <1>3 DEF PlanFollowsDiff, Writes, Deletes
<1>5. SourceIsCurrent(k)'
  BY <1>1, SourceKept DEF CourseOf, worldVars
<1>6. TargetIsCurrent(k)'
  BY <1>1 DEF TargetIsCurrent
<1>7. ASSUME k \notin touched
      PROVE  \A e \in Elements : dst[k][e] = Store(TargetKind(k))[e]
  BY <1>1, <1>7 DEF CourseOf, TargetIsCurrent, IsCurrent
<1>8. PullIsOnCourse(k)'
  <2> SUFFICES ASSUME k \notin touched, req[k].kind = "pull"
               PROVE  /\ \A a \in Addresses : addrRow[a] = dst[k][a]
                      /\ \A m \in Services : m \in servRow <=> dst[k][m] # Absent
                      /\ policy = dst[k][Container]
                      /\ \A v \in Vips : PulledRule(k, v)'
                      /\ \A v \in Vips, s \in Sides : dst[k][v] # Absent =>
                            /\ dst[k][v].lists.addr[s] # None => dst[k][dst[k][v].lists.addr[s]] # Absent
                            /\ dst[k][v].lists.serv[s] # None => dst[k][dst[k][v].lists.serv[s]] # Absent
    BY <1>0, <1>1, <1>2, <1>3 DEF PullIsOnCourse
  <2>1. \A e \in Elements : dst[k][e] = Store("rows")[e]
    BY <1>7 DEF TargetKind
  <2>2. /\ \A a \in Addresses : dst[k][a] = addrRow[a]
        /\ \A m \in Services : dst[k][m] = IF m \in servRow THEN "loaded" ELSE Absent
        /\ dst[k][Container] = policy
        /\ \A v \in Vips : dst[k][v] = IF Visible(v) THEN RowRule(v) ELSE Absent
    BY <1>0, <2>1, RowStoreRead
  <2>3. ASSUME NEW v \in Vips, Visible(v)
        PROVE  /\ dst[k][v] # Absent /\ rule[v].lists \in Lists
               /\ dst[k][v].lists = rule[v].lists /\ dst[k][v].description = rule[v].description
               /\ \A s \in Sides : rule[v].lists.addr[s] # None => addrRow[rule[v].lists.addr[s]] # Absent
               /\ \A s \in Sides : rule[v].lists.serv[s] # None => rule[v].lists.serv[s] \in servRow
    <3>1. rule[v] # Absent
      BY <2>3 DEF Visible
    <3>2. /\ RowRule(v) # Absent /\ RowRule(v).lists = rule[v].lists /\ rule[v] \in Rule
          /\ RowRule(v).description = rule[v].description
      BY <1>0, <3>1, RowRuleRead DEF World
    <3> QED
      BY <1>0, <2>2, <2>3, <3>1, <3>2 DEF World, RowsTyped, RulesTyped, Rule
  <2>4. ASSUME NEW v \in Vips PROVE PulledRule(k, v)'
    <3>1. CASE ~Visible(v)
      BY <1>1, <1>2, <1>3, <2>2, <3>1 DEF PulledRule, Visible
    <3>2. CASE Visible(v)
      <4>1. FoundLists(rule[v].lists) = rule[v].lists
        BY <2>3, <3>2, FoundAll
      <4>2. FoundLists(dst[k][v].lists)' = FoundLists(dst[k][v].lists)
        BY <1>1, <1>2 DEF FoundLists, Found, HasRow
      <4> QED
        BY <1>1, <1>2, <1>3, <2>3, <3>2, <4>1, <4>2 DEF PulledRule, Visible
    <3> QED
      BY <3>1, <3>2
  <2>5. ASSUME NEW v \in Vips, NEW s \in Sides, dst[k][v] # Absent
        PROVE  /\ dst[k][v].lists.addr[s] # None => dst[k][dst[k][v].lists.addr[s]] # Absent
               /\ dst[k][v].lists.serv[s] # None => dst[k][dst[k][v].lists.serv[s]] # Absent
    <3>1. Visible(v)
      BY <2>2, <2>5
    <3>2. /\ rule[v].lists.addr[s] \in Addresses \cup {None}
          /\ rule[v].lists.serv[s] \in Services \cup {None}
      BY <2>3, <3>1 DEF Lists
    <3> QED
      BY <2>2, <2>3, <3>1, <3>2, NothingAssumption
  <2> QED
    BY <2>2, <2>4, <2>5, NothingAssumption
<1>9. PushIsOnCourse(k)'
  <2> SUFFICES ASSUME k \notin touched, req[k].kind = "push"
               PROVE  /\ \A a \in Addresses :
                            addr[a] = dst[k][a] \/ (addr[a] = Absent /\ dst[k][a[2]] # Absent)
                      /\ \A m \in Services :
                            /\ serv[<<m[1], m[2]>>] = m[3] => dst[k][m] # Absent
                            /\ dst[k][m] # Absent /\ dst[k][m[2]] = Absent =>
                                  serv[<<m[1], m[2]>>] = m[3]
                      /\ \A v \in Vips : dst[k][v] = IF Readable(v) THEN FgtRule(v) ELSE Absent
    <3>1. \A v : FgtRule(v)' = FgtRule(v)
      BY <1>2 DEF FgtRule, PortsOf
    <3>4. \A v : Readable(v)' = Readable(v)
      BY <1>2 DEF Readable
    <3>2. (\A v \in Vips : dst[k][v] = IF Readable(v) THEN FgtRule(v) ELSE Absent)
          => \A v \in Vips : PushedVip(k, v)'
      BY <1>1, <1>2, <1>3, <3>1, <3>4 DEF PushedVip
    <3> QED
      BY <1>0, <1>1, <1>2, <1>3, <3>2 DEF PushIsOnCourse
  <2>1. \A e \in Elements : dst[k][e] = Store("device")[e]
    BY <1>7 DEF TargetKind
  <2>2. /\ \A a \in Addresses : dst[k][a] =
              IF addr[a] = Absent /\ Readable(a[2]) THEN MadeUp(a) ELSE addr[a]
        /\ \A m \in Services : dst[k][m] =
              IF (Readable(m[2]) /\ PortsOf(m[2])[m[1]] = m) \/ serv[<<m[1], m[2]>>] = m[3]
              THEN "loaded" ELSE Absent
        /\ \A v \in Vips : dst[k][v] = IF Readable(v) THEN FgtRule(v) ELSE Absent
    BY <1>0, <2>1, DeviceStoreRead
  <2>3. ASSUME NEW v \in Vips, Readable(v) PROVE dst[k][v] # Absent
    <3>1. FgtRule(v) # Absent
      BY <1>0, <2>3, FgtRuleRead DEF World
    <3> QED
      BY <2>2, <2>3, <3>1
  <2> QED
    BY <2>2, <2>3, Shapes, NothingAssumption
<1> QED
  BY <1>4, <1>5, <1>6, <1>8, <1>9 DEF CourseOf

----------------------------------------------------------------------------
(* A call takes one element off the plan.                                  *)

\* The element worked off has its outcome now, the others keep theirs.
LEMMA AppliedOutcome ==
    ASSUME SyncInvariant, NEW k \in Jobs, NEW e, CallOn(k, e), Applied(k, e)
    PROVE  /\ e \in Elements /\ e \notin WorkedOff(k) /\ Outcome(k, e) = dst[k][e]
           /\ Outcome(k, e)' = src[k][e]
           /\ \A d : d # e => Outcome(k, d)' = Outcome(k, d)
           /\ WorkedOff(k)' = WorkedOff(k) \cup {e} /\ Pending(k)' = Pending(k) \ {e}
           /\ UNCHANGED <<phase, req, src, dst>> /\ (k \notin touched' => k \notin touched)
           /\ todo'[k] = [write |-> todo[k].write \ {e}, delete |-> todo[k].delete \ {e}]
<1>1. /\ todo'[k] = [write |-> todo[k].write \ {e}, delete |-> todo[k].delete \ {e}]
      /\ UNCHANGED <<phase, req, src, dst>> /\ (k \notin touched' => k \notin touched)
      /\ e \in Pending(k) /\ e \in Elements /\ phase[k] = "syncing"
  BY DEF Applied, SyncInvariant, TypeOK, Pending, CallOn
<1>2. Pending(k) \subseteq Differs(k)
  BY <1>1, Planned
<1>3. Pending(k)' = Pending(k) \ {e} /\ Differs(k)' = Differs(k)
  BY <1>1 DEF Pending, Differs, Writes, Deletes
<1>4. WorkedOff(k)' = WorkedOff(k) \cup {e} /\ e \notin WorkedOff(k)
  BY <1>1, <1>2, <1>3 DEF WorkedOff
<1> QED
  BY <1>1, <1>3, <1>4 DEF Outcome

LEMMA AppliedPlan ==
    ASSUME SyncInvariant, NEW k \in Jobs, CourseOf(k), NEW e, CallOn(k, e), Applied(k, e)
    PROVE  PlanFollowsDiff(k)'
<1>1. /\ todo'[k] = [write |-> todo[k].write \ {e}, delete |-> todo[k].delete \ {e}]
      /\ UNCHANGED <<phase, src, dst, req>> /\ phase[k] = "syncing"
      /\ WorkedOff(k)' = WorkedOff(k) \cup {e} /\ Pending(k)' = Pending(k) \ {e}
  BY AppliedOutcome DEF CallOn
<1>2. /\ todo[k].write \subseteq Writes(src[k], dst[k])
      /\ todo[k].delete \subseteq Deletes(src[k], dst[k])
      /\ ~req[k].delete => todo[k].delete = {}
      /\ \A d \in WorkedOff(k), f \in Pending(k) : KindOf(d) <= KindOf(f)
  BY <1>1 DEF CourseOf, PlanFollowsDiff, Applying
<1>3. /\ Writes(src[k], dst[k])' = Writes(src[k], dst[k])
      /\ Deletes(src[k], dst[k])' = Deletes(src[k], dst[k])
  BY <1>1 DEF Writes, Deletes
<1>4. \A d \in WorkedOff(k)', f \in Pending(k)' : KindOf(d) <= KindOf(f)
  BY <1>1, <1>2 DEF CallOn
<1> QED
  BY <1>1, <1>2, <1>3, <1>4 DEF PlanFollowsDiff

\* top_level names the VIPs last: while anything else is to do, none is done,
\* and when one's turn has come, nothing else is to do.
LEMMA VipsComeLast ==
    ASSUME SyncInvariant, NEW k \in Jobs, CourseOf(k), NEW e, CallOn(k, e)
    PROVE  /\ e \notin Vips => \A v \in Vips : v \notin WorkedOff(k)
           /\ e \in Vips => \A d \in Addresses \cup Services \cup {Container} : d \notin Pending(k)
<1>1. e \in Pending(k) /\ \A f \in Pending(k) : KindOf(e) <= KindOf(f)
  BY DEF CallOn
<1>2. e \in Elements
  BY DEF CallOn, SyncInvariant, TypeOK, Pending
<1>3. \A d \in WorkedOff(k) : KindOf(d) <= KindOf(e)
  BY <1>1 DEF CallOn, CourseOf, PlanFollowsDiff, Applying
<1>4. e \notin Vips => KindOf(e) \in {1, 2, 3}
  BY <1>2, KindIs DEF Elements
<1>5. (\A v \in Vips : KindOf(v) = 4) /\ ~(4 <= 1) /\ ~(4 <= 2) /\ ~(4 <= 3)
  BY KindIs
<1>6. ASSUME e \in Vips, NEW d \in Addresses \cup Services \cup {Container}, d \in Pending(k)
      PROVE  FALSE
  <2>1. KindOf(d) \in {1, 2, 3} /\ KindOf(e) = 4
    BY <1>6, KindIs
  <2>2. KindOf(e) <= KindOf(d)
    BY <1>1, <1>6
  <2> QED
    BY <1>5, <2>1, <2>2
<1> QED
  BY <1>3, <1>4, <1>5, <1>6

----------------------------------------------------------------------------
(* Pulling.                                                                *)

LEMMA FoundNext ==
    ASSUME NEW l \in Lists
    PROVE  /\ FoundLists(l)' = [addr |-> Found(l.addr)', serv |-> Found(l.serv)']
           /\ Found(l.addr)' =
                 [s \in Sides |-> IF l.addr[s] # None /\ addrRow'[l.addr[s]] # Absent
                                  THEN l.addr[s] ELSE None]
           /\ Found(l.serv)' =
                 [s \in Sides |-> IF l.serv[s] # None /\ l.serv[s] \in servRow'
                                  THEN l.serv[s] ELSE None]
<1>1. /\ \A s \in Sides : l.addr[s] \in Addresses \cup {None}
      /\ \A s \in Sides : l.serv[s] \in Services \cup {None}
  BY DEF Lists
<1>2. /\ \A s \in Sides : HasRow(l.addr[s])' <=> (IF l.addr[s] \in Addresses THEN addrRow'[l.addr[s]] # Absent
                                                  ELSE l.addr[s] \in servRow')
      /\ \A s \in Sides : HasRow(l.serv[s])' <=> (IF l.serv[s] \in Addresses THEN addrRow'[l.serv[s]] # Absent
                                                  ELSE l.serv[s] \in servRow')
  BY DEF HasRow
<1>3. /\ \A s \in Sides : l.addr[s] # None => (HasRow(l.addr[s])' <=> addrRow'[l.addr[s]] # Absent)
      /\ \A s \in Sides : l.serv[s] # None => (HasRow(l.serv[s])' <=> l.serv[s] \in servRow')
  BY <1>1, <1>2, KindsAreDisjoint
<1>4. /\ Found(l.addr)' = [s \in Sides |-> IF l.addr[s] # None /\ HasRow(l.addr[s])' THEN l.addr[s] ELSE None]
      /\ Found(l.serv)' = [s \in Sides |-> IF l.serv[s] # None /\ HasRow(l.serv[s])' THEN l.serv[s] ELSE None]
  BY DEF Found
<1> QED
  BY <1>3, <1>4 DEF FoundLists

\* Rows that come or go, and that no list refers to, change no list.
LEMMA FoundSame ==
    ASSUME NEW l \in Lists,
           \A s \in Sides : l.addr[s] # None =>
               (addrRow'[l.addr[s]] # Absent <=> addrRow[l.addr[s]] # Absent),
           \A s \in Sides : l.serv[s] # None => (l.serv[s] \in servRow' <=> l.serv[s] \in servRow)
    PROVE  FoundLists(l)' = FoundLists(l)
<1>0. /\ FoundLists(l)' = [addr |-> Found(l.addr)', serv |-> Found(l.serv)']
      /\ Found(l.addr)' =
            [s \in Sides |-> IF l.addr[s] # None /\ addrRow'[l.addr[s]] # Absent
                             THEN l.addr[s] ELSE None]
      /\ Found(l.serv)' =
            [s \in Sides |-> IF l.serv[s] # None /\ l.serv[s] \in servRow'
                             THEN l.serv[s] ELSE None]
  BY FoundNext
<1>1. FoundLists(l) \in Lists
  BY FoundRead
<1>2. /\ \A s \in Sides : Found(l.addr)'[s] = FoundLists(l).addr[s]
      /\ \A s \in Sides : Found(l.serv)'[s] = FoundLists(l).serv[s]
  BY <1>0, FoundRead
<1>3. Found(l.addr)' = FoundLists(l).addr /\ Found(l.serv)' = FoundLists(l).serv
  BY <1>0, <1>1, <1>2 DEF Lists
<1> QED
  BY <1>0, <1>1, <1>3 DEF Lists

\* A row that goes leaves the lists as if they were looked up again.
LEMMA FoundWithout ==
    ASSUME NEW l \in Lists, NEW e,
           \/ /\ e \in Addresses /\ addrRow'[e] = Absent /\ servRow' = servRow
              /\ \A a \in Addresses : a # e => addrRow'[a] = addrRow[a]
           \/ e \in Services /\ servRow' = servRow \ {e} /\ addrRow' = addrRow
    PROVE  FoundLists(l)' = [addr |-> Without(FoundLists(l).addr, e), serv |-> Without(FoundLists(l).serv, e)]
<1>1. /\ \A s \in Sides : l.addr[s] \in Addresses \cup {None}
      /\ \A s \in Sides : l.serv[s] \in Services \cup {None}
      /\ e \notin Addresses \/ e \notin Services
      /\ e # None
  BY KindsAreDisjoint DEF Lists
<1>2. /\ \A s \in Sides : Found(l.addr)'[s] = Without(FoundLists(l).addr, e)[s]
      /\ \A s \in Sides : Found(l.serv)'[s] = Without(FoundLists(l).serv, e)[s]
  <2>1. /\ \A s \in Sides : Found(l.addr)'[s] =
              IF l.addr[s] # None /\ addrRow'[l.addr[s]] # Absent THEN l.addr[s] ELSE None
        /\ \A s \in Sides : Found(l.serv)'[s] =
              IF l.serv[s] # None /\ l.serv[s] \in servRow' THEN l.serv[s] ELSE None
    <3>1. /\ Found(l.addr)' = [s \in Sides |-> IF l.addr[s] # None /\ addrRow'[l.addr[s]] # Absent
                                               THEN l.addr[s] ELSE None]
          /\ Found(l.serv)' = [s \in Sides |-> IF l.serv[s] # None /\ l.serv[s] \in servRow'
                                               THEN l.serv[s] ELSE None]
      BY FoundNext
    <3> QED
      BY ONLY <3>1
  <2>2. /\ \A s \in Sides : Without(FoundLists(l).addr, e)[s] =
              IF FoundLists(l).addr[s] = e THEN None ELSE FoundLists(l).addr[s]
        /\ \A s \in Sides : Without(FoundLists(l).serv, e)[s] =
              IF FoundLists(l).serv[s] = e THEN None ELSE FoundLists(l).serv[s]
    BY DEF Without
  <2>3. /\ \A s \in Sides : FoundLists(l).addr[s] =
              IF l.addr[s] # None /\ addrRow[l.addr[s]] # Absent THEN l.addr[s] ELSE None
        /\ \A s \in Sides : FoundLists(l).serv[s] =
              IF l.serv[s] # None /\ l.serv[s] \in servRow THEN l.serv[s] ELSE None
    BY FoundRead
  <2> QED
    BY <1>1, <2>1, <2>2, <2>3, KindsAreDisjoint
<1>3. /\ Found(l.addr)' = [s \in Sides |-> Found(l.addr)'[s]]
      /\ Found(l.serv)' = [s \in Sides |-> Found(l.serv)'[s]]
      /\ Without(FoundLists(l).addr, e) = [s \in Sides |-> Without(FoundLists(l).addr, e)[s]]
      /\ Without(FoundLists(l).serv, e) = [s \in Sides |-> Without(FoundLists(l).serv, e)[s]]
  BY FoundNext DEF Without
<1>4. Found(l.addr)' = Without(FoundLists(l).addr, e) /\ Found(l.serv)' = Without(FoundLists(l).serv, e)
  BY <1>2, <1>3
<1> QED
  BY <1>4, FoundNext

\* What an undisturbed pull knows of the rows and of the device.
LEMMA PullKnows ==
    ASSUME SyncInvariant, NEW k \in Jobs, CourseOf(k), phase[k] \in Applying, req[k].kind = "pull",
           k \notin touched
    PROVE  /\ \A a \in Addresses :
                 addrRow[a] = IF src[k][a] # Absent /\ dst[k][a] # Absent THEN dst[k][a]
                              ELSE Outcome(k, a)
           /\ \A m \in Services : m \in servRow <=> Outcome(k, m) # Absent
           /\ policy = Outcome(k, Container)
           /\ \A v \in Vips : PulledRule(k, v)
           /\ \A v \in Vips, s \in Sides : dst[k][v] # Absent =>
                 /\ dst[k][v].lists.addr[s] # None => dst[k][dst[k][v].lists.addr[s]] # Absent
                 /\ dst[k][v].lists.serv[s] # None => dst[k][dst[k][v].lists.serv[s]] # Absent
           /\ \A e \in Elements : src[k][e] = Store("device")[e]
           /\ \A v \in Vips : dst[k][v] # Absent =>
                 dst[k][v] \in LoadedRule /\ dst[k][v].lists \in Lists
           /\ World
<1>1. \A e \in Elements : src[k][e] = Store(SourceKind(k))[e]
  BY DEF CourseOf, SourceIsCurrent, IsCurrent, Applying
<1>2. Loaded(dst[k], TargetKind(k)) /\ World
  BY TypedWorld DEF SyncInvariant, TypeOK
<1>3. \A v \in Vips : dst[k][v] # Absent => dst[k][v] \in LoadedRule /\ dst[k][v].lists \in Lists
  BY <1>2 DEF Loaded, LoadedRule
<1> QED
  BY <1>1, <1>2, <1>3 DEF CourseOf, PullIsOnCourse, SourceKind

\* A step that is no rule's: the rules stay as they can be found.
LEMMA ObjectRowCourse ==
    ASSUME SyncInvariant, NEW k \in Jobs, CourseOf(k), k \notin touched, req[k].kind = "pull",
           NEW e \in Elements \ Vips, CallOn(k, e), Applied(k, e),
           \A a \in Addresses :
              addrRow'[a] = IF src[k][a] # Absent /\ dst[k][a] # Absent THEN dst[k][a]
                            ELSE Outcome(k, a)',
           \A m \in Services : m \in servRow' <=> Outcome(k, m)' # Absent,
           policy' = Outcome(k, Container)',
           \A v \in Vips : Visible(v)' <=> Visible(v),
           \A v \in Vips : Visible(v) =>
              /\ rule'[v].description = rule[v].description
              /\ dst[k][v] # Absent /\ rule[v].lists = FoundLists(dst[k][v].lists)
                 => rule'[v].lists = FoundLists(dst[k][v].lists)'
    PROVE  PullIsOnCourse(k)'
<1>1. /\ UNCHANGED <<phase, req, src, dst>> /\ WorkedOff(k)' = WorkedOff(k) \cup {e}
      /\ phase[k] \in Applying
  BY AppliedOutcome DEF CallOn, Applying
<1>2. \A v \in Vips : v \notin WorkedOff(k) /\ v \notin WorkedOff(k)'
  BY <1>1, VipsComeLast
<1>3. /\ \A v \in Vips : PulledRule(k, v)
      /\ \A v \in Vips, s \in Sides : dst[k][v] # Absent =>
            /\ dst[k][v].lists.addr[s] # None => dst[k][dst[k][v].lists.addr[s]] # Absent
            /\ dst[k][v].lists.serv[s] # None => dst[k][dst[k][v].lists.serv[s]] # Absent
  BY <1>1, PullKnows
<1>4. ASSUME NEW v \in Vips PROVE PulledRule(k, v)'
  <2>1. CASE dst[k][v] = Absent
    BY <1>1, <1>2, <1>3, <2>1 DEF PulledRule
  <2>2. CASE dst[k][v] # Absent
    <3>1. Visible(v) /\ rule[v].lists = FoundLists(dst[k][v].lists) /\ rule[v].description = dst[k][v].description
      BY <1>2, <1>3, <2>2 DEF PulledRule
    <3>2. /\ Visible(v)' /\ rule'[v].lists = FoundLists(dst[k][v].lists)'
          /\ rule'[v].description = dst[k][v].description
      BY <2>2, <3>1
    <3> QED
      BY <1>1, <1>2, <2>2, <3>2 DEF PulledRule
  <2> QED
    BY <2>1, <2>2
<1> QED
  BY <1>1, <1>3, <1>4 DEF PullIsOnCourse

\* A row is written, or none: every rule keeps its lists.
LEMMA RowWrittenCourse ==
    ASSUME SyncInvariant, NEW k \in Jobs, CourseOf(k), k \notin touched, req[k].kind = "pull",
           ~Raised(k),
           PullPolicy(k)
              \/ (\E a \in Addresses : PullAddressCreate(k, a) \/ PullAddressUpdate(k, a))
              \/ (\E m \in Services : PullServiceCreate(k, m))
    PROVE  PullIsOnCourse(k)'
<1> DEFINE Step(e) ==
        /\ e \in Elements \ Vips /\ CallOn(k, e) /\ Applied(k, e) /\ rule' = rule
        /\ \A a \in Addresses :
              addrRow'[a] = IF src[k][a] # Absent /\ dst[k][a] # Absent THEN dst[k][a]
                            ELSE Outcome(k, a)'
        /\ \A m \in Services : m \in servRow' <=> Outcome(k, m)' # Absent
        /\ policy' = Outcome(k, Container)'
        /\ \A a \in Addresses : addrRow'[a] # addrRow[a] => dst[k][a] = Absent
        /\ \A m \in Services : (m \in servRow' <=> m \in servRow) \/ dst[k][m] = Absent
<1>0. /\ phase[k] = "syncing" /\ phase[k] \in Applying
      /\ Loaded(src[k], SourceKind(k)) /\ Loaded(dst[k], TargetKind(k))
  BY DEF PullPolicy, PullAddressCreate, PullAddressUpdate, PullServiceCreate, Turn, Applying, SyncInvariant, TypeOK
<1>k. /\ \A a \in Addresses :
            addrRow[a] = IF src[k][a] # Absent /\ dst[k][a] # Absent THEN dst[k][a]
                         ELSE Outcome(k, a)
      /\ \A m \in Services : m \in servRow <=> Outcome(k, m) # Absent
      /\ policy = Outcome(k, Container)
      /\ World
  BY <1>0, PullKnows
<1>1. ASSUME NEW a \in Addresses, PullAddressCreate(k, a) \/ PullAddressUpdate(k, a) PROVE Step(a)
  <2>1. CallOn(k, a) /\ Applied(k, a) /\ a \in todo[k].write
    BY <1>1, TurnIs DEF PullAddressCreate, PullAddressUpdate, Turn
  <2>2. /\ a \in Elements /\ Outcome(k, a) = dst[k][a] /\ Outcome(k, a)' = src[k][a]
        /\ \A d : d # a => Outcome(k, d)' = Outcome(k, d)
    BY <2>1, AppliedOutcome
  <2>3. src[k][a] # Absent /\ src[k][a] \in Values \cup Mistyped /\ a \notin Vips /\ a # Container /\ a \notin Services
    BY <1>0, <2>1, Planned, KindsAreDisjoint
  <2>4. /\ UNCHANGED <<servRow, policy, rule>>
        /\ \A b \in Addresses : addrRow'[b] =
              IF b = a /\ dst[k][a] = Absent THEN src[k][a] ELSE addrRow[b]
    <3>1. CASE dst[k][a] = Absent
      <4>1. PutAddressRow(a, src[k][a]) /\ src[k][a] \notin Mistyped
        BY <1>1, <3>1 DEF PullAddressCreate, PullAddressUpdate
      <4>2. PICK ip \in Values : ip = src[k][a]
        BY <2>3, <4>1
      <4>3. PutAddressRow(a, ip)
        BY <4>1, <4>2
      <4>4. \A b \in Addresses : addrRow'[b] = IF b = a THEN ip ELSE addrRow[b]
        BY <1>k, <4>3, PutAddressRowTyped
      <4>5. UNCHANGED <<servRow, policy, rule>>
        BY <4>3 DEF PutAddressRow
      <4> QED
        BY <3>1, <4>2, <4>4, <4>5
    <3>2. CASE dst[k][a] # Absent
      BY <1>1, <3>2 DEF PullAddressCreate, PullAddressUpdate, worldVars, rowVars
    <3> QED
      BY <3>1, <3>2
  <2> QED
    BY <1>k, <2>1, <2>2, <2>3, <2>4, KindsAreDisjoint
<1>2. ASSUME NEW m \in Services, PullServiceCreate(k, m) PROVE Step(m)
  <2>1. CallOn(k, m) /\ Applied(k, m) /\ m \in todo[k].write
    BY <1>2, TurnIs DEF PullServiceCreate, Turn
  <2>2. /\ m \in Elements /\ Outcome(k, m) = dst[k][m] /\ Outcome(k, m)' = src[k][m]
        /\ \A d : d # m => Outcome(k, d)' = Outcome(k, d)
    BY <2>1, AppliedOutcome
  <2>3. /\ src[k][m] # Absent /\ dst[k][m] = Absent
        /\ m \notin Vips /\ m # Container /\ m \notin Addresses
    BY <1>0, <2>1, Planned, KindsAreDisjoint DEF Loaded
  <2>4. UNCHANGED <<addrRow, policy, rule>> /\ servRow' = servRow \cup {m}
    BY <1>2 DEF PullServiceCreate, PutServiceRow
  <2> QED
    BY <1>k, <2>1, <2>2, <2>3, <2>4, KindsAreDisjoint
<1>3. ASSUME PullPolicy(k) PROVE Step(Container)
  <2>1. CallOn(k, Container) /\ Applied(k, Container) /\ Container \in todo[k].write
    BY <1>3, TurnIs DEF PullPolicy, Turn
  <2>2. /\ Container \in Elements /\ Outcome(k, Container) = dst[k][Container]
        /\ Outcome(k, Container)' = src[k][Container]
        /\ \A d : d # Container => Outcome(k, d)' = Outcome(k, d)
    BY <2>1, AppliedOutcome
  <2>3. Container \notin Vips /\ Container \notin Addresses /\ Container \notin Services
    BY KindsAreDisjoint
  <2>4. PutPolicyRow(src[k][Container])
    BY <1>3, <1>k, <2>2 DEF PullPolicy
  <2>5. UNCHANGED <<addrRow, servRow, rule>> /\ policy' = src[k][Container]
    BY <2>4 DEF PutPolicyRow
  <2> QED
    BY <1>k, <2>1, <2>2, <2>3, <2>5
<1>4. PICK e : Step(e)
  BY <1>1, <1>2, <1>3
<1> HIDE DEF Step
<1>5. rule' = rule /\ e \in Elements \ Vips /\ CallOn(k, e) /\ Applied(k, e)
  BY <1>4 DEF Step
<1>6. UNCHANGED dst
  BY <1>5 DEF Applied
<1>7. ASSUME NEW v \in Vips, dst[k][v] # Absent
      PROVE  FoundLists(dst[k][v].lists)' = FoundLists(dst[k][v].lists)
  <2>1. PICK l \in Lists : l = dst[k][v].lists
    BY <1>0, <1>7, PullKnows
  <2>2. \A s \in Sides :
           /\ l.addr[s] \in Addresses \cup {None} /\ l.serv[s] \in Services \cup {None}
           /\ l.addr[s] # None => dst[k][l.addr[s]] # Absent
           /\ l.serv[s] # None => dst[k][l.serv[s]] # Absent
    BY <1>0, <1>7, <2>1, PullKnows DEF Lists
  <2>3. \A s \in Sides :
           /\ l.addr[s] # None => addrRow'[l.addr[s]] = addrRow[l.addr[s]]
           /\ l.serv[s] # None => (l.serv[s] \in servRow' <=> l.serv[s] \in servRow)
    BY <1>4, <2>2 DEF Step
  <2>4. FoundLists(l)' = FoundLists(l)
    BY <2>3, FoundSame
  <2>5. dst'[k][v].lists = l
    BY <1>6, <2>1
  <2> QED
    BY <2>1, <2>4, <2>5
<1>8. \A v \in Vips : (Visible(v)' <=> Visible(v)) /\ rule'[v] = rule[v]
  BY <1>5 DEF Visible
<1>9. /\ \A a \in Addresses :
            addrRow'[a] = IF src[k][a] # Absent /\ dst[k][a] # Absent THEN dst[k][a]
                          ELSE Outcome(k, a)'
      /\ \A m \in Services : m \in servRow' <=> Outcome(k, m)' # Absent
      /\ policy' = Outcome(k, Container)'
  BY <1>4 DEF Step
<1> QED
  BY <1>5, <1>7, <1>8, <1>9, ObjectRowCourse

\* A row is deleted: the rules lose it.
LEMMA RowDeletedCourse ==
    ASSUME SyncInvariant, NEW k \in Jobs, CourseOf(k), k \notin touched, req[k].kind = "pull",
           NEW e \in Addresses \cup Services, CallOn(k, e), Applied(k, e), e \in todo[k].delete,
           \/ e \in Addresses /\ RemoveAddressRow(e)
           \/ e \in Services /\ RemoveServiceRow(e)
    PROVE  PullIsOnCourse(k)'
<1>0. phase[k] = "syncing" /\ phase[k] \in Applying
  BY DEF CallOn, Applying
<1>1. /\ \A a \in Addresses :
            addrRow[a] = IF src[k][a] # Absent /\ dst[k][a] # Absent THEN dst[k][a]
                         ELSE Outcome(k, a)
      /\ \A m \in Services : m \in servRow <=> Outcome(k, m) # Absent
      /\ policy = Outcome(k, Container)
      /\ World
  BY <1>0, PullKnows
<1>2. /\ e \in Elements /\ Outcome(k, e)' = src[k][e] /\ UNCHANGED dst
      /\ \A d : d # e => Outcome(k, d)' = Outcome(k, d)
  BY AppliedOutcome
<1>3. src[k][e] = Absent /\ e \notin Vips /\ e # Container /\ (e \notin Addresses \/ e \notin Services)
  BY <1>0, Planned, KindsAreDisjoint
<1>4. /\ policy' = policy /\ rule' = RulesWithout(e)
      /\ \/ /\ e \in Addresses /\ addrRow'[e] = Absent /\ servRow' = servRow
            /\ \A a \in Addresses : a # e => addrRow'[a] = addrRow[a]
         \/ e \in Services /\ servRow' = servRow \ {e} /\ addrRow' = addrRow
  BY <1>1 DEF RemoveAddressRow, RemoveServiceRow, World, RowsTyped
<1>5. /\ \A a \in Addresses :
            addrRow'[a] = IF src[k][a] # Absent /\ dst[k][a] # Absent THEN dst[k][a]
                          ELSE Outcome(k, a)'
      /\ \A m \in Services : m \in servRow' <=> Outcome(k, m)' # Absent
      /\ policy' = Outcome(k, Container)'
  BY <1>1, <1>2, <1>3, <1>4, KindsAreDisjoint
<1>6. rule \in [Vips -> Rule \cup {Absent}]
  BY <1>1 DEF World, RowsTyped, RulesTyped
<1>7. ASSUME NEW v \in Vips
      PROVE  /\ Visible(v)' <=> Visible(v)
             /\ Visible(v) =>
                   /\ rule'[v].description = rule[v].description
                   /\ rule'[v].lists = [addr |-> Without(rule[v].lists.addr, e),
                                        serv |-> Without(rule[v].lists.serv, e)]
  <2>1. CASE rule[v] = Absent
    BY <1>4, <1>6, <2>1, RulesWithoutRead DEF Visible
  <2>2. CASE rule[v] # Absent
    BY <1>4, <1>6, <2>2, RulesWithoutRead DEF Visible
  <2> QED
    BY <2>1, <2>2
<1>8. ASSUME NEW v \in Vips, dst[k][v] # Absent, Visible(v), rule[v].lists = FoundLists(dst[k][v].lists)
      PROVE  rule'[v].lists = FoundLists(dst[k][v].lists)'
  <2>1. PICK l \in Lists : l = dst[k][v].lists
    BY <1>0, <1>8, PullKnows
  <2>2. FoundLists(l)' = [addr |-> Without(FoundLists(l).addr, e), serv |-> Without(FoundLists(l).serv, e)]
    BY <1>4, FoundWithout
  <2>3. dst'[k][v].lists = l
    BY <1>2, <2>1
  <2>4. FoundLists(dst[k][v].lists)' = FoundLists(l)'
    BY <2>3
  <2> QED
    BY <1>7, <1>8, <2>1, <2>2, <2>4
<1> QED
  BY <1>2, <1>3, <1>5, <1>7, <1>8, ObjectRowCourse

\* When a VIP's turn has come, what its rule refers to has a row, and so has
\* the NATPolicy.
LEMMA ObjectsAreThere ==
    ASSUME SyncInvariant, NEW k \in Jobs, CourseOf(k), k \notin touched, req[k].kind = "pull",
           NEW v \in Vips, CallOn(k, v), src[k][v] # Absent
    PROVE  /\ Readable(v) /\ src[k][v] = FgtRule(v) /\ src[k][v] \in LoadedRule
           /\ FoundLists(src[k][v].lists) = src[k][v].lists
           /\ policy # Absent
<1>0. phase[k] = "syncing" /\ phase[k] \in Applying
  BY DEF CallOn, Applying
<1>1. /\ \A a \in Addresses :
            addrRow[a] = IF src[k][a] # Absent /\ dst[k][a] # Absent THEN dst[k][a]
                         ELSE Outcome(k, a)
      /\ \A m \in Services : m \in servRow <=> Outcome(k, m) # Absent
      /\ policy = Outcome(k, Container)
      /\ \A e \in Elements : src[k][e] = Store("device")[e]
      /\ World
  BY <1>0, PullKnows
<1>2. Addresses \subseteq Elements /\ Services \subseteq Elements /\ Vips \subseteq Elements /\ Container \in Elements
  BY DEF Elements
<1>3. \A d \in Addresses \cup Services \cup {Container} : d \notin Pending(k)
  BY VipsComeLast
<1>4. \A d \in Addresses \cup Services \cup {Container} : src[k][d] # Absent => Outcome(k, d) # Absent
  BY <1>2, <1>3 DEF Outcome, WorkedOff, Differs, Writes
<1>5. Readable(v) /\ src[k][v] = FgtRule(v)
  BY <1>1, <1>2, DeviceStoreRead
<1>6. /\ src[k][v] \in LoadedRule
      /\ \A s \in Sides : src[k][v].lists.addr[s] = <<s, v>>
      /\ src[k][v].lists.serv = IF vip[v].forward = None THEN NoList
                                ELSE [s \in Sides |-> <<s, v, vip[v].forward[s]>>]
      /\ vip[v] \in Vip
  <2>1. /\ FgtRule(v) \in LoadedRule /\ vip[v] \in Vip
        /\ \A s \in Sides : FgtRule(v).lists.addr[s] = <<s, v>>
        /\ FgtRule(v).lists.serv = IF vip[v].forward = None THEN NoList
                                   ELSE [s \in Sides |-> <<s, v, vip[v].forward[s]>>]
    BY <1>1, <1>5, FgtRuleRead DEF World
  <2> QED
    BY <1>5, <2>1
<1>7. src[k][v].lists \in Lists
  BY <1>6 DEF LoadedRule
<1>8. ASSUME NEW s \in Sides PROVE addrRow[src[k][v].lists.addr[s]] # Absent
  <2>1. <<s, v>> \in Addresses /\ <<s, v>>[1] = s /\ <<s, v>>[2] = v
    BY DEF Addresses
  <2>2. MadeUp(<<s, v>>) # Absent
    BY <1>1, <1>5, <2>1, MadeUpIs DEF World
  <2>3. src[k][<<s, v>>] = IF addr[<<s, v>>] = Absent THEN MadeUp(<<s, v>>) ELSE addr[<<s, v>>]
    BY <1>1, <1>2, <1>5, <2>1, DeviceStoreRead
  <2>4. src[k][<<s, v>>] # Absent
    BY <2>2, <2>3
  <2> QED
    BY <1>1, <1>4, <1>6, <2>1, <2>4
<1>9. ASSUME NEW s \in Sides, src[k][v].lists.serv[s] # None PROVE src[k][v].lists.serv[s] \in servRow
  <2> DEFINE m == src[k][v].lists.serv[s]
  <2>1. m \in Services
    BY <1>7, <1>9 DEF Lists
  <2>2. vip[v].forward # None /\ m = <<s, v, vip[v].forward[s]>>
    BY <1>6, <1>9 DEF NoList
  <2>3. m[1] = s /\ m[2] = v
    BY <2>2
  <2>4. PortsOf(v)[s] = m
    BY <2>2 DEF PortsOf
  <2>5. Store("device")[m] = "loaded"
    <3>1. Store("device")[m] =
             IF (Readable(m[2]) /\ PortsOf(m[2])[m[1]] = m) \/ serv[<<m[1], m[2]>>] = m[3]
             THEN "loaded" ELSE Absent
      BY <2>1, DeviceStoreRead
    <3>2. Readable(m[2]) /\ PortsOf(m[2])[m[1]] = m
      BY <1>5, <2>3, <2>4
    <3> QED
      BY <3>1, <3>2
  <2>6. src[k][m] # Absent
    BY <1>1, <1>2, <2>1, <2>5, NothingAssumption
  <2> QED
    BY <1>1, <1>4, <2>1, <2>6
<1>10. FoundLists(src[k][v].lists) = src[k][v].lists
  BY <1>7, <1>8, <1>9, FoundAll
<1>11. policy # Absent
  <2>1. src[k][Container] # Absent
    BY <1>1, <1>2, DeviceStoreRead, NothingAssumption
  <2> QED
    BY <1>1, <1>4, <2>1
<1> QED
  BY <1>5, <1>6, <1>10, <1>11

\* A rule is written as its VIP is, or deleted.
LEMMA RuleWrittenCourse ==
    ASSUME SyncInvariant, NEW k \in Jobs, CourseOf(k), k \notin touched, req[k].kind = "pull",
           NEW v \in Vips, CallOn(k, v), Applied(k, v), NEW r, PutRule(v, r),
           src[k][v] = Absent => r = Absent,
           src[k][v] # Absent =>
              r = [lists |-> src[k][v].lists, description |-> src[k][v].description, linked |-> TRUE]
    PROVE  PullIsOnCourse(k)'
<1>0. phase[k] = "syncing" /\ phase[k] \in Applying
  BY DEF CallOn, Applying
<1>1. /\ \A a \in Addresses :
            addrRow[a] = IF src[k][a] # Absent /\ dst[k][a] # Absent THEN dst[k][a]
                         ELSE Outcome(k, a)
      /\ \A m \in Services : m \in servRow <=> Outcome(k, m) # Absent
      /\ policy = Outcome(k, Container)
      /\ \A w \in Vips : PulledRule(k, w)
      /\ \A w \in Vips, s \in Sides : dst[k][w] # Absent =>
            /\ dst[k][w].lists.addr[s] # None => dst[k][dst[k][w].lists.addr[s]] # Absent
            /\ dst[k][w].lists.serv[s] # None => dst[k][dst[k][w].lists.serv[s]] # Absent
      /\ World
  BY <1>0, PullKnows
<1>2. /\ UNCHANGED <<phase, req, src, dst>> /\ WorkedOff(k)' = WorkedOff(k) \cup {v}
      /\ \A d : d # v => Outcome(k, d)' = Outcome(k, d)
  BY AppliedOutcome
<1>3. /\ UNCHANGED <<addrRow, servRow, policy>> /\ rule'[v] = r
      /\ \A w \in Vips : w # v => rule'[w] = rule[w]
  BY <1>1 DEF PutRule, World, RowsTyped, RulesTyped
<1>4. v \notin Addresses /\ v \notin Services /\ v # Container
  BY KindsAreDisjoint
<1>5. ASSUME NEW w \in Vips PROVE PulledRule(k, w)'
  <2>1. CASE w = v
    BY <1>2, <1>3, <2>1 DEF PulledRule
  <2>2. CASE w # v
    <3>1. FoundLists(dst[k][w].lists)' = FoundLists(dst[k][w].lists)
      BY <1>2, <1>3 DEF FoundLists, Found, HasRow
    <3>2. Visible(w)' <=> Visible(w)
      BY <1>3, <2>2 DEF Visible
    <3>3. w \in WorkedOff(k)' <=> w \in WorkedOff(k)
      BY <1>2, <2>2
    <3> QED
      BY <1>1, <1>2, <1>3, <2>2, <3>1, <3>2, <3>3 DEF PulledRule
  <2> QED
    BY <2>1, <2>2
<1> QED
  BY <1>1, <1>2, <1>3, <1>4, <1>5 DEF PullIsOnCourse

LEMMA PullOnCourse ==
    ASSUME SyncInvariant, NEW k \in Jobs, CourseOf(k), Pull(k), ~Raised(k),
           k \notin touched, \A v \in Vips : ~CutShort(k, v)
    PROVE  PullIsOnCourse(k)'
<1>0. /\ phase[k] = "syncing" /\ phase[k] \in Applying /\ req[k].kind = "pull" /\ World
  BY PullCalls, TypedWorld DEF Applying, SyncInvariant
<1>1. CASE PullPolicy(k)
              \/ (\E a \in Addresses : PullAddressCreate(k, a) \/ PullAddressUpdate(k, a))
              \/ (\E m \in Services : PullServiceCreate(k, m))
  BY <1>0, <1>1, RowWrittenCourse
<1>2. ASSUME NEW a \in Addresses, PullAddressDelete(k, a) PROVE PullIsOnCourse(k)'
  <2>1. CallOn(k, a) /\ Applied(k, a) /\ a \in todo[k].delete /\ RemoveAddressRow(a)
    BY <1>2, TurnIs DEF PullAddressDelete, Turn
  <2> QED
    BY <1>0, <2>1, RowDeletedCourse
<1>3. ASSUME NEW m \in Services, PullServiceDelete(k, m) PROVE PullIsOnCourse(k)'
  <2>1. CallOn(k, m) /\ Applied(k, m) /\ m \in todo[k].delete /\ RemoveServiceRow(m)
    BY <1>3, TurnIs DEF PullServiceDelete, Turn
  <2> QED
    BY <1>0, <2>1, RowDeletedCourse
<1>4. ASSUME NEW v \in Vips, PullRuleCreate(k, v) PROVE PullIsOnCourse(k)'
  <2>1. /\ CallOn(k, v) /\ Applied(k, v) /\ v \in todo[k].write
        /\ PutRule(v, [lists |-> FoundLists(src[k][v].lists), description |-> src[k][v].description,
                       linked |-> policy # Absent \/ Visible(v)])
    BY <1>4, TurnIs DEF PullRuleCreate, Turn
  <2>2. src[k][v] # Absent
    BY <1>0, <2>1, Planned
  <2>3. FoundLists(src[k][v].lists) = src[k][v].lists /\ policy # Absent
    BY <1>0, <2>1, <2>2, ObjectsAreThere
  <2>4. (policy # Absent \/ Visible(v)) = TRUE
    BY <1>0, <2>3, VisibleIsLinked
  <2> QED
    BY <1>0, <2>1, <2>2, <2>3, <2>4, RuleWrittenCourse
<1>5. ASSUME NEW v \in Vips, PullRuleUpdate(k, v) PROVE PullIsOnCourse(k)'
  <2>1. CallOn(k, v) /\ Applied(k, v) /\ v \in todo[k].write /\ dst[k][v] # Absent
    BY <1>5, TurnIs DEF PullRuleUpdate, Turn
  <2>2. src[k][v] # Absent
    BY <1>0, <2>1, Planned
  <2>3. FoundLists(src[k][v].lists) = src[k][v].lists /\ src[k][v] \in LoadedRule
    BY <1>0, <2>1, <2>2, ObjectsAreThere
  <2>4. v \notin WorkedOff(k)
    BY <2>1, AppliedOutcome
  <2>5. /\ Visible(v) /\ rule[v].lists = FoundLists(dst[k][v].lists)
        /\ rule[v].description = dst[k][v].description /\ rule[v] # Absent
    <3>1. PulledRule(k, v)
      BY <1>0, PullKnows
    <3> QED
      BY <2>1, <2>4, <3>1 DEF PulledRule, Visible
  <2>6. PutRule(v, Updated(k, v))
    BY <1>5, <2>5 DEF PullRuleUpdate, Updated, Reset
  <2>7. /\ RuleFits(Updated(k, v)) /\ Updated(k, v).linked = rule[v].linked
        /\ Updated(k, v).description =
              IF src[k][v].description = dst[k][v].description THEN rule[v].description
              ELSE src[k][v].description
        /\ \A s \in Sides :
              Updated(k, v).lists.addr[s] =
                 IF src[k][v].lists.addr[s] = dst[k][v].lists.addr[s] THEN rule[v].lists.addr[s]
                 ELSE FoundLists(src[k][v].lists).addr[s]
        /\ \A s \in Sides :
              Updated(k, v).lists.serv[s] =
                 IF src[k][v].lists.serv[s] = dst[k][v].lists.serv[s] THEN rule[v].lists.serv[s]
                 ELSE FoundLists(src[k][v].lists).serv[s]
    BY <1>0, <2>3, <2>5, UpdatedRead
  <2>8. dst[k][v].lists \in Lists /\ src[k][v].lists \in Lists
    BY <1>0, <2>1, <2>3, PullKnows DEF LoadedRule
  <2>9. /\ \A s \in Sides : Updated(k, v).lists.addr[s] = src[k][v].lists.addr[s]
        /\ \A s \in Sides : Updated(k, v).lists.serv[s] = src[k][v].lists.serv[s]
    <3>1. /\ \A s \in Sides : rule[v].lists.addr[s] =
                IF dst[k][v].lists.addr[s] # None /\ addrRow[dst[k][v].lists.addr[s]] # Absent
                THEN dst[k][v].lists.addr[s] ELSE None
          /\ \A s \in Sides : rule[v].lists.serv[s] =
                IF dst[k][v].lists.serv[s] # None /\ dst[k][v].lists.serv[s] \in servRow
                THEN dst[k][v].lists.serv[s] ELSE None
      BY <2>5, <2>8, FoundRead
    <3>2. /\ \A s \in Sides : src[k][v].lists.addr[s] =
                IF src[k][v].lists.addr[s] # None /\ addrRow[src[k][v].lists.addr[s]] # Absent
                THEN src[k][v].lists.addr[s] ELSE None
          /\ \A s \in Sides : src[k][v].lists.serv[s] =
                IF src[k][v].lists.serv[s] # None /\ src[k][v].lists.serv[s] \in servRow
                THEN src[k][v].lists.serv[s] ELSE None
      BY <2>3, <2>8, FoundRead
    <3> QED
      BY <2>3, <2>7, <3>1, <3>2
  <2>10. /\ Updated(k, v) \in Rule /\ Updated(k, v).lists \in Lists
         /\ Updated(k, v).linked = TRUE
    BY <1>0, <2>5, <2>7 DEF RuleFits, Rule, Visible, World, RowsTyped, RulesTyped
  <2>11. Updated(k, v).lists.addr = src[k][v].lists.addr /\ Updated(k, v).lists.serv = src[k][v].lists.serv
    BY <2>8, <2>9, <2>10 DEF Lists
  <2>12. Updated(k, v).lists = src[k][v].lists
    BY <2>8, <2>10, <2>11 DEF Lists
  <2>13. Updated(k, v).description = src[k][v].description
    BY <2>5, <2>7
  <2>14. Updated(k, v) = [lists |-> src[k][v].lists, description |-> src[k][v].description, linked |-> TRUE]
    BY <2>10, <2>12, <2>13 DEF Rule
  <2> QED
    BY <1>0, <2>1, <2>2, <2>6, <2>14, RuleWrittenCourse
<1>6. ASSUME NEW v \in Vips, PullRuleDelete(k, v) PROVE PullIsOnCourse(k)'
  <2>1. CallOn(k, v) /\ Applied(k, v) /\ v \in todo[k].delete /\ PutRule(v, Absent)
    BY <1>6, TurnIs DEF PullRuleDelete, Turn
  <2>2. src[k][v] = Absent
    BY <1>0, <2>1, Planned
  <2> QED
    BY <1>0, <2>1, <2>2, RuleWrittenCourse
<1> QED
  BY <1>1, <1>2, <1>3, <1>4, <1>5, <1>6 DEF Pull

LEMMA PullCourse ==
    ASSUME SyncInvariant, NEW k \in Jobs, CourseOf(k), Pull(k)
    PROVE  CourseOf(k)'
<1>1. CASE Raised(k)
  BY <1>1, PullCalls, EndCourse
<1>2. ASSUME NEW v \in Vips, CutShort(k, v) PROVE CourseOf(k)'
  <2>1. phase'[k] = "crashed"
    BY <1>2 DEF CutShort, Advance, SyncInvariant, TypeOK
  <2> QED
    BY <2>1 DEF CourseOf, PlanFollowsDiff, SourceIsCurrent, TargetIsCurrent, PullIsOnCourse,
                PushIsOnCourse, Applying
<1>3. CASE ~Raised(k) /\ \A v \in Vips : ~CutShort(k, v)
  <2>1. PICK e \in Elements : CallOn(k, e) /\ Applied(k, e)
    BY <1>3, PullCalls
  <2>2. /\ phase[k] = "syncing" /\ req[k].kind = "pull" /\ UNCHANGED deviceVars
        /\ UNCHANGED <<phase, req, src, dst>> /\ (k \notin touched' => k \notin touched)
    BY <2>1, PullCalls, AppliedOutcome
  <2>3. PlanFollowsDiff(k)'
    BY <2>1, AppliedPlan
  <2>4. SourceIsCurrent(k)'
    BY <2>2, SourceKept DEF CourseOf, SourceKind
  <2>5. PullIsOnCourse(k)'
    <3>1. CASE k \in touched
      BY <2>2, <3>1 DEF PullIsOnCourse
    <3>2. CASE k \notin touched
      BY <1>3, <3>2, PullOnCourse
    <3> QED
      BY <3>1, <3>2
  <2> QED
    BY <2>2, <2>3, <2>4, <2>5 DEF CourseOf, TargetIsCurrent, PushIsOnCourse
<1> QED
  BY <1>1, <1>2, <1>3

----------------------------------------------------------------------------
(* Pushing.                                                                *)

\* What an undisturbed push knows of its device and of the rows.
LEMMA PushKnows ==
    ASSUME SyncInvariant, NEW k \in Jobs, CourseOf(k), phase[k] \in Applying, req[k].kind = "push",
           k \notin touched
    PROVE  /\ \A a \in Addresses :
                 \/ addr[a] = Outcome(k, a)
                 \/ a \notin WorkedOff(k) /\ addr[a] = Absent /\ dst[k][a[2]] # Absent
           /\ \A m \in Services :
                 /\ m \notin WorkedOff(k) /\ serv[<<m[1], m[2]>>] = m[3] => dst[k][m] # Absent
                 /\ m \in Pending(k) /\ dst[k][m] # Absent /\ dst[k][m[2]] = Absent =>
                       serv[<<m[1], m[2]>>] = m[3]
           /\ \A v \in Vips : PushedVip(k, v)
           /\ \A a \in Addresses : src[k][a] = addrRow[a]
           /\ \A m \in Services : src[k][m] = IF m \in servRow THEN "loaded" ELSE Absent
           /\ \A v \in Vips : src[k][v] = IF Visible(v) THEN RowRule(v) ELSE Absent
           /\ World /\ TypeOK
<1>1. \A e \in Elements : src[k][e] = Store(SourceKind(k))[e]
  BY DEF CourseOf, SourceIsCurrent, IsCurrent, Applying
<1>2. SourceKind(k) = "rows"
  BY DEF SourceKind
<1>3. /\ \A a \in Addresses : src[k][a] = addrRow[a]
      /\ \A m \in Services : src[k][m] = IF m \in servRow THEN "loaded" ELSE Absent
      /\ \A v \in Vips : src[k][v] = IF Visible(v) THEN RowRule(v) ELSE Absent
  BY <1>1, <1>2, RowStoreRead DEF Elements
<1>4. World /\ TypeOK
  BY TypedWorld DEF SyncInvariant
<1> QED
  BY <1>3, <1>4 DEF CourseOf, PushIsOnCourse

\* The rule a push writes a VIP for resolves to what the push looks up.
LEMMA LookupIs ==
    ASSUME SyncInvariant, NEW k \in Jobs, CourseOf(k), phase[k] \in Applying, req[k].kind = "push",
           k \notin touched, NEW v \in Vips, src[k][v] # Absent
    PROVE  /\ Visible(v) /\ src[k][v] = RowRule(v) /\ src[k][v] \in LoadedRule
           /\ \A s \in Sides : Lookup(k, src[k][v].lists.addr[s]) = src[k][v].resolved[s]
           /\ \A s \in Sides : src[k][v].lists.serv[s] # None => src[k][v].lists.serv[s] \in Services
<1>1. Visible(v) /\ src[k][v] = RowRule(v) /\ World /\ \A a \in Addresses : src[k][a] = addrRow[a]
  BY PushKnows
<1>2. rule[v] # Absent
  BY <1>1 DEF Visible
<1>3. /\ RowRule(v) \in LoadedRule /\ rule[v] \in Rule /\ RowRule(v).lists = rule[v].lists
      /\ \A s \in Sides : RowRule(v).resolved[s] = Resolve(rule[v].lists.addr[s])
  BY <1>1, <1>2, RowRuleRead DEF World
<1>4. rule[v].lists \in Lists
  BY <1>3 DEF Rule
<1>5. ASSUME NEW s \in Sides PROVE Lookup(k, rule[v].lists.addr[s]) = Resolve(rule[v].lists.addr[s])
  <2>1. CASE rule[v].lists.addr[s] = None
    BY <2>1 DEF Lookup, Resolve
  <2>2. CASE rule[v].lists.addr[s] # None
    <3>1. rule[v].lists.addr[s] \in Addresses
      BY <1>4, <2>2 DEF Lists
    <3>2. addrRow[rule[v].lists.addr[s]] # Absent
      BY <1>1, <1>2, <2>2 DEF World, RowsTyped, RulesTyped
    <3> QED
      BY <1>1, <2>2, <3>1, <3>2 DEF Lookup, Resolve
  <2> QED
    BY <2>1, <2>2
<1>6. \A s \in Sides : rule[v].lists.serv[s] # None => rule[v].lists.serv[s] \in Services
  BY <1>4 DEF Lists
<1>7. src[k][v].lists = rule[v].lists /\ \A s \in Sides : src[k][v].resolved[s] = Resolve(rule[v].lists.addr[s])
  BY <1>1, <1>3
<1> QED
  BY <1>1, <1>3, <1>5, <1>6, <1>7

\* Working off an address or a service leaves the VIPs where they are.
LEMMA ObjectStepCourse ==
    ASSUME SyncInvariant, NEW k \in Jobs, CourseOf(k), k \notin touched, req[k].kind = "push",
           NEW e \in Elements \ Vips, CallOn(k, e), Applied(k, e), UNCHANGED vip,
           \A a \in Addresses :
              addr'[a] = (IF a = e THEN src[k][a] ELSE addr[a]),
           \A m \in Services :
              /\ m \notin WorkedOff(k)' /\ serv'[<<m[1], m[2]>>] = m[3] => dst[k][m] # Absent
              /\ m \in Pending(k)' /\ dst[k][m] # Absent /\ dst[k][m[2]] = Absent =>
                    serv'[<<m[1], m[2]>>] = m[3]
    PROVE  PushIsOnCourse(k)'
<1>1. /\ UNCHANGED <<phase, req, src, dst>> /\ WorkedOff(k)' = WorkedOff(k) \cup {e}
      /\ Outcome(k, e)' = src[k][e] /\ \A d : d # e => Outcome(k, d)' = Outcome(k, d)
      /\ phase[k] \in Applying
  BY AppliedOutcome DEF CallOn, Applying
<1>2. /\ \A a \in Addresses :
            \/ addr[a] = Outcome(k, a)
            \/ a \notin WorkedOff(k) /\ addr[a] = Absent /\ dst[k][a[2]] # Absent
      /\ \A v \in Vips : PushedVip(k, v)
  BY <1>1, PushKnows
<1>3. \A v \in Vips : PushedVip(k, v)'
  <2>1. \A v : FgtRule(v)' = FgtRule(v) /\ Readable(v)' = Readable(v)
    BY DEF FgtRule, PortsOf, Readable
  <2>2. \A v \in Vips : v \notin WorkedOff(k) /\ v \notin WorkedOff(k)'
    BY <1>1, VipsComeLast
  <2> QED
    BY <1>1, <1>2, <2>1, <2>2 DEF PushedVip
<1>4. \A a \in Addresses :
         \/ addr'[a] = Outcome(k, a)'
         \/ a \notin WorkedOff(k)' /\ addr'[a] = Absent /\ dst[k][a[2]] # Absent
  BY <1>1, <1>2
<1> QED
  BY <1>1, <1>3, <1>4 DEF PushIsOnCourse

\* Working off a VIP leaves everything else where it is.
LEMMA VipStepCourse ==
    ASSUME SyncInvariant, NEW k \in Jobs, CourseOf(k), k \notin touched, req[k].kind = "push",
           NEW v \in Vips, CallOn(k, v), Applied(k, v), UNCHANGED <<addr, serv>>,
           \A w \in Vips : w # v => vip'[w] = vip[w], PushedVip(k, v)'
    PROVE  PushIsOnCourse(k)'
<1>1. /\ UNCHANGED <<phase, req, src, dst>> /\ WorkedOff(k)' = WorkedOff(k) \cup {v}
      /\ Pending(k)' = Pending(k) \ {v}
      /\ \A d : d # v => Outcome(k, d)' = Outcome(k, d)
      /\ phase[k] \in Applying
  BY AppliedOutcome DEF CallOn, Applying
<1>2. /\ \A a \in Addresses :
            \/ addr[a] = Outcome(k, a)
            \/ a \notin WorkedOff(k) /\ addr[a] = Absent /\ dst[k][a[2]] # Absent
      /\ \A m \in Services :
            /\ m \notin WorkedOff(k) /\ serv[<<m[1], m[2]>>] = m[3] => dst[k][m] # Absent
            /\ m \in Pending(k) /\ dst[k][m] # Absent /\ dst[k][m[2]] = Absent =>
                  serv[<<m[1], m[2]>>] = m[3]
      /\ \A w \in Vips : PushedVip(k, w)
  BY <1>1, PushKnows
<1>3. v \notin Addresses /\ v \notin Services
  BY KindsAreDisjoint
<1>4. ASSUME NEW w \in Vips PROVE PushedVip(k, w)'
  <2>1. CASE w = v
    BY <2>1
  <2>2. CASE w # v
    <3>1. vip'[w] = vip[w] /\ FgtRule(w)' = FgtRule(w) /\ Readable(w)' = Readable(w)
      BY <2>2 DEF FgtRule, PortsOf, Readable
    <3>2. w \in WorkedOff(k)' <=> w \in WorkedOff(k)
      BY <1>1, <2>2
    <3> QED
      BY <1>1, <1>2, <3>1, <3>2 DEF PushedVip, BothPorts
  <2> QED
    BY <2>1, <2>2
<1>5. /\ \A a \in Addresses :
            \/ addr'[a] = Outcome(k, a)'
            \/ a \notin WorkedOff(k)' /\ addr'[a] = Absent /\ dst'[k][a[2]] # Absent
      /\ \A m \in Services :
            /\ m \notin WorkedOff(k)' /\ serv'[<<m[1], m[2]>>] = m[3] => dst'[k][m] # Absent
            /\ m \in Pending(k)' /\ dst'[k][m] # Absent /\ dst'[k][m[2]] = Absent =>
                  serv'[<<m[1], m[2]>>] = m[3]
  BY <1>1, <1>2, <1>3
<1> QED
  BY <1>4, <1>5 DEF PushIsOnCourse

LEMMA ObjectPushedCourse ==
    ASSUME SyncInvariant, NEW k \in Jobs, CourseOf(k), ~Raised(k), k \notin touched,
           \/ PushPolicy(k)
           \/ \E a \in Addresses : PushAddress(k, a) \/ PushAddressDelete(k, a)
           \/ \E m \in Services : PushServiceCreate(k, m) \/ PushServiceDelete(k, m)
    PROVE  PushIsOnCourse(k)'
<1>0. phase[k] = "syncing" /\ phase[k] \in Applying /\ req[k].kind = "push"
  BY PushCalls DEF Push, Applying
<1>1. /\ \A m \in Services :
            /\ m \notin WorkedOff(k) /\ serv[<<m[1], m[2]>>] = m[3] => dst[k][m] # Absent
            /\ m \in Pending(k) /\ dst[k][m] # Absent /\ dst[k][m[2]] = Absent =>
                  serv[<<m[1], m[2]>>] = m[3]
      /\ World
  BY <1>0, PushKnows
<1>2. ASSUME NEW a \in Addresses, PushAddress(k, a) \/ PushAddressDelete(k, a) PROVE PushIsOnCourse(k)'
  <2>1. /\ CallOn(k, a) /\ Applied(k, a) /\ PutAddress(a, src[k][a])
    <3>1. CASE PushAddress(k, a)
      BY <3>1, TurnIs DEF PushAddress, Call
    <3>2. CASE PushAddressDelete(k, a)
      <4>1. a \in todo[k].delete
        BY <3>2 DEF PushAddressDelete, Turn
      <4>2. src[k][a] = Absent
        BY <1>0, <4>1, Planned
      <4> QED
        BY <3>2, <4>2, TurnIs DEF PushAddressDelete, Call
    <3> QED
      BY <1>2, <3>1, <3>2
  <2>2. /\ a \in Elements /\ WorkedOff(k)' = WorkedOff(k) \cup {a} /\ Pending(k)' = Pending(k) \ {a}
    BY <2>1, AppliedOutcome
  <2>3. a \notin Vips /\ a \notin Services
    BY KindsAreDisjoint
  <2>4. UNCHANGED <<vip, serv>> /\ \A b \in Addresses : addr'[b] = IF b = a THEN src[k][b] ELSE addr[b]
    BY <1>1, <2>1 DEF PutAddress, World, DeviceTyped
  <2>5. \A m \in Services :
           /\ m \notin WorkedOff(k)' /\ serv'[<<m[1], m[2]>>] = m[3] => dst[k][m] # Absent
           /\ m \in Pending(k)' /\ dst[k][m] # Absent /\ dst[k][m[2]] = Absent =>
                 serv'[<<m[1], m[2]>>] = m[3]
    BY <1>1, <2>2, <2>3, <2>4
  <2> QED
    BY <1>0, <2>1, <2>2, <2>3, <2>4, <2>5, ObjectStepCourse
<1>3. ASSUME NEW e \in Services, NEW p \in Ports \cup {Absent},
             CallOn(k, e), Applied(k, e), PutService(<<e[1], e[2]>>, p),
             \/ e \in todo[k].write /\ p = e[3] /\ serv[<<e[1], e[2]>>] = Absent
             \/ e \in todo[k].delete /\ p = Absent
      PROVE  PushIsOnCourse(k)'
  <2>1. /\ e \in Elements /\ WorkedOff(k)' = WorkedOff(k) \cup {e} /\ Pending(k)' = Pending(k) \ {e}
    BY <1>3, AppliedOutcome
  <2>2. e \notin Vips /\ e \notin Addresses
    BY KindsAreDisjoint
  <2>3. /\ UNCHANGED <<vip, addr>>
        /\ \A a \in Addresses : serv'[a] = IF a = <<e[1], e[2]>> THEN p ELSE serv[a]
    BY <1>1, <1>3, Shapes DEF PutService, World, DeviceTyped
  <2>4. e \in Pending(k) /\ (e \in todo[k].delete => dst[k][e] # Absent)
    BY <1>0, <1>3, Planned DEF Pending
  <2>5. ASSUME NEW m \in Services
        PROVE  /\ m \notin WorkedOff(k)' /\ serv'[<<m[1], m[2]>>] = m[3] => dst[k][m] # Absent
               /\ m \in Pending(k)' /\ dst[k][m] # Absent /\ dst[k][m[2]] = Absent =>
                     serv'[<<m[1], m[2]>>] = m[3]
    <3>0. /\ m = <<m[1], m[2], m[3]>> /\ e = <<e[1], e[2], e[3]>>
          /\ <<m[1], m[2]>> \in Addresses /\ m[3] \in Ports /\ m[3] # Absent
      BY Shapes, NothingAssumption
    <3>1. CASE <<m[1], m[2]>> # <<e[1], e[2]>>
      BY <1>1, <2>1, <2>3, <3>0, <3>1
    <3>2. CASE <<m[1], m[2]>> = <<e[1], e[2]>>
      <4>1. serv'[<<m[1], m[2]>>] = p /\ m[2] = e[2] /\ m[1] = e[1]
        BY <2>3, <3>0, <3>2
      <4>2. m[3] = e[3] => m = e
        BY <3>0, <4>1
      <4>3. /\ m \in Pending(k) /\ dst[k][m] # Absent /\ dst[k][m[2]] = Absent =>
                  serv[<<e[1], e[2]>>] = m[3]
            /\ e \in Pending(k) /\ dst[k][e] # Absent /\ dst[k][m[2]] = Absent =>
                  serv[<<e[1], e[2]>>] = e[3]
        BY <1>1, <3>2, <4>1
      <4>4. m \notin WorkedOff(k)' => m # e
        BY <2>1
      <4>5. m \in Pending(k)' => m # e /\ m \in Pending(k)
        BY <2>1
      <4> QED
        BY <1>3, <2>4, <3>0, <4>1, <4>2, <4>3, <4>4, <4>5
    <3> QED
      BY <3>1, <3>2
  <2>6. \A a \in Addresses : addr'[a] = IF a = e THEN src[k][a] ELSE addr[a]
    BY <2>2, <2>3
  <2> QED
    BY <1>0, <1>3, <2>1, <2>2, <2>3, <2>5, <2>6, ObjectStepCourse
<1>4. ASSUME NEW e \in Services, PushServiceCreate(k, e) PROVE PushIsOnCourse(k)'
  <2>1. /\ CallOn(k, e) /\ Applied(k, e) /\ e \in todo[k].write
        /\ serv[<<e[1], e[2]>>] = Absent /\ PutService(<<e[1], e[2]>>, e[3])
    BY <1>4, TurnIs DEF PushServiceCreate, Turn, Call
  <2>2. e[3] \in Ports \cup {Absent}
    BY Shapes
  <2> QED
    BY <1>3, <2>1, <2>2
<1>5. ASSUME NEW e \in Services, PushServiceDelete(k, e) PROVE PushIsOnCourse(k)'
  <2>1. /\ CallOn(k, e) /\ Applied(k, e) /\ e \in todo[k].delete
        /\ PutService(<<e[1], e[2]>>, Absent)
    BY <1>5, TurnIs DEF PushServiceDelete, Turn, Call
  <2> QED
    BY <1>3, <2>1
<1>6. ASSUME PushPolicy(k) PROVE PushIsOnCourse(k)'
  <2>1. CallOn(k, Container) /\ Applied(k, Container) /\ UNCHANGED <<vip, addr, serv>>
    BY <1>6, TurnIs DEF PushPolicy, worldVars, deviceVars
  <2>2. /\ Container \in Elements /\ WorkedOff(k)' = WorkedOff(k) \cup {Container}
        /\ Pending(k)' = Pending(k) \ {Container}
    BY <2>1, AppliedOutcome
  <2>3. Container \notin Vips /\ Container \notin Addresses /\ Container \notin Services
    BY KindsAreDisjoint
  <2>4. /\ \A a \in Addresses : addr'[a] = IF a = Container THEN src[k][a] ELSE addr[a]
        /\ \A m \in Services :
              /\ m \notin WorkedOff(k)' /\ serv'[<<m[1], m[2]>>] = m[3] => dst[k][m] # Absent
              /\ m \in Pending(k)' /\ dst[k][m] # Absent /\ dst[k][m[2]] = Absent =>
                    serv'[<<m[1], m[2]>>] = m[3]
    BY <1>1, <2>1, <2>2, <2>3
  <2> QED
    BY <1>0, <2>1, <2>2, <2>3, <2>4, ObjectStepCourse
<1> QED
  BY <1>2, <1>4, <1>5, <1>6

\* What create() sends is the VIP of its rule.
LEMMA VipCreatedCourse ==
    ASSUME SyncInvariant, NEW k \in Jobs, CourseOf(k), ~Raised(k), k \notin touched,
           NEW v \in Vips, PushRuleCreate(k, v)
    PROVE  PushIsOnCourse(k)'
<1>0. /\ phase[k] \in Applying /\ req[k].kind = "push" /\ phase[k] = "syncing"
      /\ v \in todo[k].write /\ dst[k][v] = Absent
  BY DEF PushRuleCreate, Turn, Applying
<1>1. /\ CallOn(k, v) /\ Applied(k, v)
      /\ \/ UNCHANGED worldVars /\ \E s \in Sides : Lookup(k, src[k][v].lists.addr[s]) = None
         \/ (\A s \in Sides : Lookup(k, src[k][v].lists.addr[s]) # None) /\ PutVip(v, Sent(k, v))
  BY TurnIs, SidesAre DEF PushRuleCreate, Call, Sent
<1>2. src[k][v] # Absent /\ World /\ TypeOK
  BY <1>0, Planned, PushKnows
<1>3. /\ src[k][v] \in LoadedRule
      /\ \A s \in Sides : Lookup(k, src[k][v].lists.addr[s]) = src[k][v].resolved[s]
      /\ \A s \in Sides : src[k][v].lists.serv[s] # None => src[k][v].lists.serv[s] \in Services
  BY <1>0, <1>2, LookupIs
<1>c. CallOn(k, v) /\ Applied(k, v)
  BY <1>1
<1>4. UNCHANGED <<phase, req, src, dst>> /\ v \in WorkedOff(k)' /\ v \notin WorkedOff(k)
  <2>1. /\ UNCHANGED <<phase, req, src, dst>> /\ v \notin WorkedOff(k)
        /\ WorkedOff(k)' = WorkedOff(k) \cup {v}
    BY <1>c, AppliedOutcome
  <2> QED
    BY <2>1
<1>5. CASE UNCHANGED worldVars /\ \E s \in Sides : Lookup(k, src[k][v].lists.addr[s]) = None
  <2>1. UNCHANGED <<vip, addr, serv>>
    BY <1>5 DEF worldVars, deviceVars
  <2>2. ~Readable(v) /\ ~Readable(v)'
    <3>1. dst[k][v] = IF Readable(v) THEN FgtRule(v) ELSE Absent
      BY <1>0, <1>4, PushKnows DEF PushedVip
    <3>2. Readable(v) => FgtRule(v) # Absent
      BY <1>2, FgtRuleRead DEF World
    <3>3. Readable(v)' = Readable(v)
      BY <2>1 DEF Readable
    <3> QED
      BY <1>0, <3>1, <3>2, <3>3
  <2>3. PushedVip(k, v)'
    BY <1>2, <1>3, <1>4, <1>5, <2>1, <2>2 DEF PushedVip
  <2> QED
    BY <1>0, <1>1, <2>1, <2>3, VipStepCourse
<1>6. CASE (\A s \in Sides : Lookup(k, src[k][v].lists.addr[s]) # None) /\ PutVip(v, Sent(k, v))
  <2>1. Sent(k, v) \in Vip
    BY <1>0, <1>2, <1>3, <1>6, SentTyped
  <2>2. /\ UNCHANGED <<addr, serv>> /\ vip'[v] = Sent(k, v)
        /\ \A w \in Vips : w # v => vip'[w] = vip[w]
    BY <1>2, <1>6 DEF PutVip, World, DeviceTyped
  <2>3. Sent(k, v) # Absent /\ \A s \in Sides : Sent(k, v)[s] = src[k][v].resolved[s]
    <3>1. Sent(k, v) # Absent
      BY <2>1, NothingAssumption
    <3>2. \A s \in Sides : Sent(k, v)[s] = Lookup(k, src[k][v].lists.addr[s])
      BY SidesAre DEF Sent
    <3> QED
      BY <1>3, <3>1, <3>2
  <2>4. BothPorts(src[k][v].lists.serv) =>
           /\ Sent(k, v).forward # None
           /\ \A s \in Sides : Sent(k, v).forward[s] = src[k][v].lists.serv[s][3]
    <3> SUFFICES ASSUME BothPorts(src[k][v].lists.serv)
                 PROVE  /\ Sent(k, v).forward # None
                        /\ \A s \in Sides : Sent(k, v).forward[s] = src[k][v].lists.serv[s][3]
      OBVIOUS
    <3> DEFINE f == [s \in Sides |-> src[k][v].lists.serv[s][3]]
    <3>1. Sent(k, v).forward = f
      BY DEF Sent
    <3>2. f \in [Sides -> Ports]
      BY <1>3, Shapes DEF BothPorts
    <3>3. \A s \in Sides : f[s] = src[k][v].lists.serv[s][3]
      OBVIOUS
    <3> HIDE DEF f
    <3> QED
      BY <3>1, <3>2, <3>3, ForwardShape
  <2>5. PushedVip(k, v)'
    <3>1. BothPorts(src[k][v].lists.serv)' = BothPorts(src[k][v].lists.serv)
      BY <1>4 DEF BothPorts
    <3>2. Sent(k, v).ext # None /\ Sent(k, v).mapped # None
      BY <1>3, <1>6, <2>3, SidesAre
    <3>3. Readable(v)'
      BY <2>2, <2>3, <3>2 DEF Readable
    <3> QED
      BY <1>0, <1>2, <1>4, <1>6, <2>2, <2>3, <2>4, <3>1, <3>3 DEF PushedVip
  <2> QED
    BY <1>0, <1>1, <2>2, <2>5, VipStepCourse
<1> QED
  BY <1>1, <1>5, <1>6

\* What update() leaves of an existing VIP has its rule's IPs and ports.
LEMMA PutIsMirror ==
    ASSUME SyncInvariant, NEW k \in Jobs, CourseOf(k), phase[k] \in Applying, req[k].kind = "push",
           k \notin touched, NEW v \in Vips, src[k][v] # Absent,
           Readable(v), dst[k][v] = FgtRule(v), NEW e, e = src[k][v]
    PROVE  /\ Put(k, v) \in Vip
           /\ Put(k, v).ext # None /\ Put(k, v).mapped # None
           /\ \A s \in Sides : e.resolved[s] # None => Put(k, v)[s] = e.resolved[s]
           /\ e.lists.serv["ext"] # None =>
                 /\ Put(k, v).forward # None
                 /\ \A s \in Sides : e.lists.serv[s] # None =>
                       Put(k, v).forward[s] = e.lists.serv[s][3]
<1>0. World /\ TypeOK /\ vip[v] # Absent
  BY PushKnows DEF Readable
<1>1. /\ e \in LoadedRule /\ \A s \in Sides : Lookup(k, e.lists.addr[s]) = e.resolved[s]
      /\ \A s \in Sides : e.lists.serv[s] # None => e.lists.serv[s] \in Services
  BY LookupIs
<1>2. /\ vip[v] \in Vip /\ Put(k, v) \in Vip
      /\ \A s \in Sides : Put(k, v)[s] = IF SentIp(k, v, s) = None THEN vip[v][s] ELSE SentIp(k, v, s)
      /\ Put(k, v).forward = ForwardAfter(vip[v].forward, e.lists.serv,
                                          SentPort(k, v, "ext"), SentPort(k, v, "mapped"))
      /\ \A s \in Sides : SentPort(k, v, s) \in Ports \cup {None}
  BY <1>0, <1>1, PutRead
<1>3. /\ \A s \in Sides : dst[k][v].resolved[s] = vip[v][s]
      /\ dst[k][v].lists.serv = IF vip[v].forward = None THEN NoList
                                ELSE [s \in Sides |-> <<s, v, vip[v].forward[s]>>]
  <2>1. /\ \A s \in Sides : FgtRule(v).resolved[s] = vip[v][s]
        /\ FgtRule(v).lists.serv = IF vip[v].forward = None THEN NoList
                                   ELSE [s \in Sides |-> <<s, v, vip[v].forward[s]>>]
    BY <1>0, FgtRuleRead DEF World
  <2> QED
    BY <2>1
<1>4. ASSUME NEW s \in Sides, e.resolved[s] # None PROVE Put(k, v)[s] = e.resolved[s]
  <2>1. SentIp(k, v, s) = IF e.resolved[s] # dst[k][v].resolved[s] THEN e.resolved[s]
                          ELSE IF s = "mapped" /\ e.lists.addr[s] # dst[k][v].lists.addr[s]
                          THEN e.resolved[s] ELSE None
    BY <1>1, <1>4 DEF SentIp
  <2> QED
    BY <1>2, <1>3, <1>4, <2>1
<1>5. ASSUME NEW s \in Sides, e.lists.serv[s] # None
      PROVE  /\ SentPort(k, v, s) = None =>
                   vip[v].forward # None /\ vip[v].forward[s] = e.lists.serv[s][3]
             /\ SentPort(k, v, s) # None => SentPort(k, v, s) = e.lists.serv[s][3]
  <2>1. SentPort(k, v, s) = IF e.lists.serv[s] = dst[k][v].lists.serv[s] THEN None ELSE e.lists.serv[s][3]
    BY <1>5 DEF SentPort
  <2>2. e.lists.serv[s][3] \in Ports /\ e.lists.serv[s][3] # None
    <3>1. e.lists.serv[s] \in Services
      BY <1>1, <1>5
    <3>2. e.lists.serv[s][3] \in Ports
      BY <3>1, Shapes
    <3> QED
      BY <3>2, ConstantsAssumption
  <2>3. CASE e.lists.serv[s] = dst[k][v].lists.serv[s]
    <3>1. vip[v].forward # None
      BY <1>3, <1>5, <2>3 DEF NoList
    <3>2. e.lists.serv[s] = <<s, v, vip[v].forward[s]>>
      BY <1>3, <2>3, <3>1
    <3> QED
      BY <2>1, <2>3, <3>1, <3>2
  <2>4. CASE e.lists.serv[s] # dst[k][v].lists.serv[s]
    BY <2>1, <2>2, <2>4
  <2> QED
    BY <2>3, <2>4
<1>6. ASSUME e.lists.serv["ext"] # None
      PROVE  /\ Put(k, v).forward # None
             /\ \A s \in Sides : e.lists.serv[s] # None => Put(k, v).forward[s] = e.lists.serv[s][3]
  <2>1. PICK now \in Forward \cup {None} : now = vip[v].forward
    BY <1>2 DEF Vip
  <2>2. PICK x \in Ports \cup {None}, m \in Ports \cup {None} :
           x = SentPort(k, v, "ext") /\ m = SentPort(k, v, "mapped")
    BY <1>2, SidesAre
  <2>3. PICK after : after = ForwardAfter(now, e.lists.serv, x, m)
    OBVIOUS
  <2>4. /\ now # None => after # None
        /\ x # None => after # None /\ after["ext"] = x
        /\ x = None /\ now # None => after["ext"] = now["ext"]
        /\ m # None /\ (x # None \/ now # None) => after["mapped"] = m
        /\ m = None /\ now # None => after["mapped"] = now["mapped"]
    BY <2>3, ForwardAfterRead
  <2>5. Put(k, v).forward = after
    BY <1>2, <2>1, <2>2, <2>3
  <2>6. /\ x = None => now # None /\ now["ext"] = e.lists.serv["ext"][3]
        /\ x # None => x = e.lists.serv["ext"][3]
    BY <1>5, <1>6, <2>1, <2>2, SidesAre
  <2>7. e.lists.serv["mapped"] # None =>
           /\ m = None => now # None /\ now["mapped"] = e.lists.serv["mapped"][3]
           /\ m # None => m = e.lists.serv["mapped"][3]
    BY <1>5, <2>1, <2>2, SidesAre
  <2>8. after # None /\ after["ext"] = e.lists.serv["ext"][3]
    BY <2>4, <2>6
  <2>9. e.lists.serv["mapped"] # None => after["mapped"] = e.lists.serv["mapped"][3]
    BY <2>4, <2>6, <2>7
  <2> QED
    BY <2>5, <2>8, <2>9, SidesAre
<1>7. Put(k, v).ext # None /\ Put(k, v).mapped # None
  <2>1. \A s \in Sides : vip[v][s] # None
    BY SidesAre DEF Readable
  <2>2. \A s \in Sides : Put(k, v)[s] # None
    BY <1>2, <2>1
  <2> QED
    BY <2>2, SidesAre
<1> QED
  BY <1>2, <1>4, <1>6, <1>7

LEMMA VipUpdatedCourse ==
    ASSUME SyncInvariant, NEW k \in Jobs, CourseOf(k), ~Raised(k), k \notin touched,
           NEW v \in Vips, PushRuleUpdate(k, v)
    PROVE  PushIsOnCourse(k)'
<1>0. /\ phase[k] \in Applying /\ req[k].kind = "push" /\ phase[k] = "syncing"
      /\ v \in todo[k].write /\ dst[k][v] # Absent
  BY DEF PushRuleUpdate, Turn, Applying
<1>1. /\ CallOn(k, v) /\ Applied(k, v)
      /\ \/ /\ UNCHANGED worldVars
            /\ \A s \in Sides : SentIp(k, v, s) = None /\ SentPort(k, v, s) = None
         \/ vip[v] # Absent /\ PutVip(v, Put(k, v))
  BY TurnIs DEF PushRuleUpdate, Call, Put
<1>2. src[k][v] # Absent /\ World /\ TypeOK
  BY <1>0, Planned, PushKnows
<1>c. CallOn(k, v) /\ Applied(k, v)
  BY <1>1
<1>3. /\ UNCHANGED <<phase, req, src, dst>> /\ v \notin WorkedOff(k)
      /\ WorkedOff(k)' = WorkedOff(k) \cup {v}
  BY <1>c, AppliedOutcome
<1>4. Readable(v) /\ vip[v] # Absent /\ dst[k][v] = FgtRule(v)
  <2>1. dst[k][v] = IF Readable(v) THEN FgtRule(v) ELSE Absent
    BY <1>0, <1>3, PushKnows DEF PushedVip
  <2> QED
    BY <1>0, <2>1 DEF Readable
<1>5. PICK e : e = src[k][v]
  OBVIOUS
<1>6. /\ Put(k, v) \in Vip
      /\ Put(k, v).ext # None /\ Put(k, v).mapped # None
      /\ \A s \in Sides : e.resolved[s] # None => Put(k, v)[s] = e.resolved[s]
      /\ e.lists.serv["ext"] # None =>
            /\ Put(k, v).forward # None
            /\ \A s \in Sides : e.lists.serv[s] # None =>
                  Put(k, v).forward[s] = e.lists.serv[s][3]
  BY <1>0, <1>2, <1>4, <1>5, PutIsMirror
<1>7. /\ UNCHANGED <<addr, serv>> /\ vip'[v] = Put(k, v)
      /\ \A w \in Vips : w # v => vip'[w] = vip[w]
  <2>1. CASE PutVip(v, Put(k, v))
    BY <1>2, <2>1 DEF PutVip, World, DeviceTyped
  <2>2. CASE /\ UNCHANGED worldVars
             /\ \A s \in Sides : SentIp(k, v, s) = None /\ SentPort(k, v, s) = None
    <3>1. vip[v] \in Vip /\ vip[v] = [vip[v] EXCEPT !.ext = vip[v].ext, !.mapped = vip[v].mapped, !.forward = vip[v].forward]
      BY <1>2, <1>4 DEF World, DeviceTyped, Vip
    <3>2. ForwardAfter(vip[v].forward, src[k][v].lists.serv, None, None) = vip[v].forward
      BY DEF ForwardAfter
    <3>3. Put(k, v) = vip[v]
      BY <2>2, <3>1, <3>2, SidesAre DEF Put
    <3> QED
      BY <2>2, <3>3 DEF worldVars, deviceVars
  <2> QED
    BY <1>1, <2>1, <2>2
<1>8. PushedVip(k, v)'
  <2>1. v \in WorkedOff(k)' /\ src'[k][v] = e /\ e # Absent /\ vip'[v] = Put(k, v)
    BY <1>2, <1>3, <1>5, <1>7
  <2>2. Put(k, v) # Absent
    BY <1>6, NothingAssumption
  <2>3. Readable(v)'
    BY <1>6, <2>1, <2>2 DEF Readable
  <2> QED
    BY <1>6, <2>1, <2>2, <2>3 DEF PushedVip
<1> QED
  BY <1>0, <1>c, <1>7, <1>8, VipStepCourse

LEMMA PushOnCourse ==
    ASSUME SyncInvariant, NEW k \in Jobs, CourseOf(k), Push(k), ~Raised(k), k \notin touched
    PROVE  PushIsOnCourse(k)'
<1>1. ASSUME NEW v \in Vips, PushRuleDelete(k, v) PROVE PushIsOnCourse(k)'
  <2>0. phase[k] \in Applying /\ req[k].kind = "push" /\ phase[k] = "syncing" /\ v \in todo[k].delete
    BY <1>1 DEF PushRuleDelete, Turn, Applying
  <2>1. CallOn(k, v) /\ Applied(k, v) /\ PutVip(v, Absent)
    BY <1>1, TurnIs DEF PushRuleDelete, Call
  <2>2. src[k][v] = Absent /\ World
    BY <2>0, Planned, PushKnows
  <2>3. UNCHANGED <<phase, req, src, dst>> /\ WorkedOff(k)' = WorkedOff(k) \cup {v}
    BY <2>1, AppliedOutcome
  <2>4. /\ UNCHANGED <<addr, serv>> /\ vip'[v] = Absent
        /\ \A w \in Vips : w # v => vip'[w] = vip[w]
    BY <2>1, <2>2 DEF PutVip, World, DeviceTyped
  <2>5. PushedVip(k, v)'
    BY <2>2, <2>3, <2>4 DEF PushedVip
  <2> QED
    BY <2>0, <2>1, <2>4, <2>5, VipStepCourse
<1> QED
  BY <1>1, ObjectPushedCourse, VipCreatedCourse, VipUpdatedCourse DEF Push

LEMMA PushCourse ==
    ASSUME SyncInvariant, NEW k \in Jobs, CourseOf(k), Push(k)
    PROVE  CourseOf(k)'
<1>1. CASE Raised(k)
  BY <1>1, PushCalls, EndCourse
<1>2. CASE ~Raised(k)
  <2>1. PICK e \in Elements : CallOn(k, e) /\ Applied(k, e)
    BY <1>2, PushCalls
  <2>2. /\ phase[k] = "syncing" /\ req[k].kind = "push" /\ UNCHANGED rowVars
        /\ UNCHANGED <<phase, req, src, dst>> /\ (k \notin touched' => k \notin touched)
    BY <2>1, PushCalls, AppliedOutcome
  <2>3. PlanFollowsDiff(k)'
    BY <2>1, AppliedPlan
  <2>4. SourceIsCurrent(k)'
    BY <2>2, SourceKept DEF CourseOf, SourceKind
  <2>5. PushIsOnCourse(k)'
    <3>1. CASE k \in touched
      BY <2>2, <3>1 DEF PushIsOnCourse
    <3>2. CASE k \notin touched
      BY <1>2, <3>2, PushOnCourse
    <3> QED
      BY <3>1, <3>2
  <2> QED
    BY <2>2, <2>3, <2>4, <2>5 DEF CourseOf, TargetIsCurrent, PullIsOnCourse
<1> QED
  BY <1>1, <1>2

----------------------------------------------------------------------------
(* The invariant.                                                          *)

LEMMA InitTyped == Init => TypeOK
<1> SUFFICES ASSUME Init PROVE TypeOK
  OBVIOUS
<1>1. DeviceTyped(vip, addr, serv) /\ RowsTyped(addrRow, servRow, policy, rule)
  BY WorldsAssumption DEF Init
<1>2. /\ phase \in [Jobs -> Idle \cup Running] /\ req \in [Jobs -> Requests]
      /\ src = [j \in Jobs |-> src[j]] /\ dst = [j \in Jobs |-> dst[j]]
      /\ todo \in [Jobs -> [write : SUBSET Elements, delete : SUBSET Elements]]
  BY DEF Init, Idle, Requests, NoWork
<1>3. \A j \in Jobs : Loaded(src[j], SourceKind(j)) /\ Loaded(dst[j], TargetKind(j))
  BY EmptyLoaded DEF Init
<1>4. touched \subseteq Jobs /\ edits \in 0..MaxEdits /\ runs \in 0..MaxRuns
  BY ConstantsAssumption DEF Init
<1> QED
  BY <1>1, <1>2, <1>3, <1>4 DEF TypeOK

LEMMA OwnStepCourse ==
    ASSUME SyncInvariant, NEW k \in Jobs, CourseOf(k), StepOf(k)
    PROVE  CourseOf(k)'
<1>1. CASE Finish(k) \/ Crash(k)
  <2>1. ~Raised(k)
    BY <1>1 DEF SyncInvariant, TypeOK, Finish, Crash, Raised, Advance
  <2> QED
    BY <1>1, <2>1, EndCourse
<1> QED
  BY <1>1, StartCourse, LoadCourse, ExecuteSyncCourse, PullCourse, PushCourse DEF StepOf

\* In every behaviour, whatever jobs and operators do in between: the side an
\* undisturbed job writes reads as its adapters and the rest of its plan say,
\* and no rule of a VIP refers to a row that does not exist.
THEOREM SyncInvariantHolds == Spec => []SyncInvariant
<1>1. Init => SyncInvariant
  <2> SUFFICES ASSUME Init, NEW j \in Jobs PROVE CourseOf(j)
    BY InitTyped DEF SyncInvariant, CourseOf
  <2>1. phase[j] = "idle"
    BY DEF Init
  <2> QED
    BY <2>1 DEF CourseOf, PlanFollowsDiff, SourceIsCurrent, TargetIsCurrent, PullIsOnCourse,
                PushIsOnCourse, Applying
<1>2. SyncInvariant /\ [Next]_vars => SyncInvariant'
  <2> SUFFICES ASSUME SyncInvariant, [Next]_vars, NEW k \in Jobs PROVE CourseOf(k)'
    BY StepTyped DEF SyncInvariant, CourseOf
  <2>0. CourseOf(k)
    BY DEF SyncInvariant, CourseOf
  <2>1. CASE StepOf(k)
    BY <2>0, <2>1, OwnStepCourse
  <2>2. CASE ~StepOf(k)
    BY <2>0, <2>2, OthersStep, SameCourse
  <2> QED
    BY <2>1, <2>2
<1> QED
  BY <1>1, <1>2, PTL DEF Spec

\* Every variable keeps its type, and no rule ever refers to a row that does
\* not exist or is linked to a NATPolicy that is gone.
THEOREM TypesHold == Spec => []TypeOK
<1>1. SyncInvariant => TypeOK
  BY DEF SyncInvariant
<1> QED
  BY <1>1, SyncInvariantHolds, PTL

----------------------------------------------------------------------------
(* Why an undisturbed job dies.                                            *)

Explained(j) ==
    \/ /\ req[j].kind = "pull" /\ req[j].delete
       /\ \E e \in todo[j].delete \cap (Addresses \cup Services) : Protected(e)
    \/ /\ req[j].kind = "pull"
       /\ \E v \in Vips :
             /\ Readable(v) /\ vip[v].ext \in Ranges
             /\ addr[<<"ext", v>>] = Absent /\ addrRow[<<"ext", v>>] = Absent
    \/ /\ req[j].kind = "push"
       /\ \/ \E a \in (todo[j].write \cup todo[j].delete) \cap Addresses :
                Readable(a[2]) /\ addr[a] = Absent
          \/ \E k \in todo[j].delete \cap Services :
                Readable(k[2]) /\ serv[<<k[1], k[2]>>] = Absent
          \/ \E k \in todo[j].write \cap Services :
                serv[<<k[1], k[2]>>] \notin {Absent, k[3]}
          \/ \E v \in todo[j].write \cap Vips : vip[v] # Absent /\ ~Readable(v)
          \/ \E v \in todo[j].delete \cap Vips : vip[v].used

LEMMA SameExplanation ==
    ASSUME NEW k \in Jobs, Explained(k), UNCHANGED worldVars,
           req'[k] = req[k], todo'[k] = todo[k]
    PROVE  Explained(k)'
BY DEF Explained, Protected, Readable, worldVars, deviceVars, rowVars

\* While objects are pushed, what the device lacks of what was loaded stands
\* for a VIP that is there.
LEMMA MissingIsMadeUp ==
    ASSUME SyncInvariant, NEW k \in Jobs, CourseOf(k), phase[k] = "syncing", req[k].kind = "push",
           k \notin touched, NEW e, CallOn(k, e)
    PROVE  /\ e \in Addresses => ((addr[e] = Absent) = (dst[k][e] = Absent)
                                   \/ (addr[e] = Absent /\ Readable(e[2])))
           /\ e \in Services =>
                 /\ serv[<<e[1], e[2]>>] = e[3] => dst[k][e] # Absent
                 /\ dst[k][e] # Absent => serv[<<e[1], e[2]>>] = e[3] \/ Readable(e[2])
           /\ e \in Vips => (Readable(e) <=> dst[k][e] # Absent)
<1>1. /\ \A a \in Addresses :
            \/ addr[a] = Outcome(k, a)
            \/ a \notin WorkedOff(k) /\ addr[a] = Absent /\ dst[k][a[2]] # Absent
      /\ \A m \in Services :
            /\ m \notin WorkedOff(k) /\ serv[<<m[1], m[2]>>] = m[3] => dst[k][m] # Absent
            /\ m \in Pending(k) /\ dst[k][m] # Absent /\ dst[k][m[2]] = Absent =>
                  serv[<<m[1], m[2]>>] = m[3]
      /\ \A v \in Vips : PushedVip(k, v)
      /\ World
  BY PushKnows DEF Applying
<1>2. e \in Pending(k) /\ e \notin WorkedOff(k) /\ Outcome(k, e) = dst[k][e]
  BY DEF CallOn, Pending, WorkedOff, Outcome
<1>3. ASSUME NEW v \in Vips, v \notin WorkedOff(k)
      PROVE  Readable(v) <=> dst[k][v] # Absent
  <2>1. dst[k][v] = IF Readable(v) THEN FgtRule(v) ELSE Absent
    BY <1>1, <1>3 DEF PushedVip
  <2>2. Readable(v) => FgtRule(v) # Absent
    BY <1>1, FgtRuleRead DEF World
  <2> QED
    BY <2>1, <2>2
<1>4. CASE e \in Addresses \cup Services
  <2>1. e \notin Vips
    BY <1>4, KindsAreDisjoint
  <2>2. e[2] \in Vips
    BY <1>4, Shapes
  <2>3. Readable(e[2]) <=> dst[k][e[2]] # Absent
    BY <1>3, <2>1, <2>2, VipsComeLast
  <2> QED
    BY <1>1, <1>2, <2>1, <2>3
<1>5. CASE e \in Vips
  BY <1>2, <1>3, <1>5, KindsAreDisjoint
<1> QED
  BY <1>4, <1>5

LEMMA RaisedIsExplained ==
    ASSUME SyncInvariant, NEW k \in Jobs, CourseOf(k), Pull(k) \/ Push(k), phase'[k] = "failed",
           k \notin touched
    PROVE  Raised(k) /\ Explained(k)
<1>0. phase[k] = "syncing" /\ phase \in [Jobs -> Idle \cup Running]
  BY PullCalls, PushCalls DEF SyncInvariant, TypeOK
<1>1. Raised(k) /\ (\A e : ~Applied(k, e)) /\ (\A v : ~CutShort(k, v))
  BY <1>0, PullCalls, PushCalls DEF Applied, CutShort, Advance
<1>2. CASE Pull(k)
  <2>1. ASSUME NEW e \in Addresses \cup Services, PullAddressDelete(k, e) \/ PullServiceDelete(k, e)
        PROVE  Explained(k)
    <3>1. req[k].kind = "pull" /\ e \in todo[k].delete /\ Protected(e)
      BY <1>1, <2>1 DEF PullAddressDelete, PullServiceDelete, Turn
    <3> QED
      BY <1>0, <1>1, <3>1, Planned DEF Explained
  <2>2. ASSUME NEW a \in Addresses, PullAddressCreate(k, a) PROVE Explained(k)
    <3>1. CallOn(k, a) /\ req[k].kind = "pull" /\ dst[k][a] = Absent /\ src[k][a] \in Mistyped
      BY <1>1, <2>2, TurnIs DEF PullAddressCreate
    <3>2. a \in Elements /\ Outcome(k, a) = dst[k][a]
      BY <3>1 DEF CallOn, Pending, WorkedOff, Outcome, Elements
    <3>3. /\ addrRow[a] = IF src[k][a] # Absent /\ dst[k][a] # Absent THEN dst[k][a] ELSE Outcome(k, a)
          /\ src[k][a] = Store("device")[a] /\ World
      BY <1>0, <3>1, <3>2, PullKnows DEF Applying
    <3>4. src[k][a] = IF addr[a] = Absent /\ Readable(a[2]) THEN MadeUp(a) ELSE addr[a]
      BY <3>3, DeviceStoreRead
    <3>5. addr[a] \in Values \cup {Absent}
      BY <3>3 DEF World, DeviceTyped
    <3>6. addr[a] = Absent /\ Readable(a[2]) /\ MadeUp(a) \in Mistyped
      BY <3>1, <3>4, <3>5, ConstantsAssumption, NothingAssumption
    <3>7. a[1] = "ext" /\ vip[a[2]].ext \in Ranges
      BY <3>3, <3>6, MadeUpIs DEF World
    <3>8. a[2] \in Vips /\ a = <<"ext", a[2]>>
      BY <3>7, Shapes
    <3>9. addrRow[a] = Absent
      BY <3>1, <3>2, <3>3
    <3> QED
      BY <3>1, <3>6, <3>7, <3>8, <3>9 DEF Explained
  <2> QED
    BY <1>1, <1>2, <2>1, <2>2 DEF Pull, PullAddressUpdate, PullServiceCreate, PullPolicy,
                                  PullRuleCreate, PullRuleUpdate, PullRuleDelete
<1>3. CASE Push(k)
  <2>0. req[k].kind = "push"
    BY <1>3, PushCalls
  <2>1. ASSUME NEW a \in Addresses, PushAddress(k, a) PROVE Explained(k)
    <3>1. CallOn(k, a) /\ a \in todo[k].write /\ (addr[a] = Absent) # (dst[k][a] = Absent)
      BY <1>1, <2>1, TurnIs DEF PushAddress, Turn, Call
    <3>2. addr[a] = Absent /\ Readable(a[2])
      BY <1>0, <2>0, <3>1, MissingIsMadeUp
    <3> QED
      BY <2>0, <3>1, <3>2 DEF Explained
  <2>2. ASSUME NEW a \in Addresses, PushAddressDelete(k, a) PROVE Explained(k)
    <3>1. CallOn(k, a) /\ a \in todo[k].delete /\ addr[a] = Absent
      BY <1>1, <2>2, TurnIs DEF PushAddressDelete, Turn, Call
    <3>2. dst[k][a] # Absent
      BY <1>0, <3>1, Planned
    <3>3. addr[a] = Absent /\ Readable(a[2])
      BY <1>0, <2>0, <3>1, <3>2, MissingIsMadeUp
    <3> QED
      BY <2>0, <3>1, <3>3 DEF Explained
  <2>3. ASSUME NEW m \in Services, PushServiceCreate(k, m) PROVE Explained(k)
    <3>1. CallOn(k, m) /\ m \in todo[k].write /\ serv[<<m[1], m[2]>>] # Absent
      BY <1>1, <2>3, TurnIs DEF PushServiceCreate, Turn, Call
    <3>2. /\ src[k][m] # Absent /\ src[k][m] # dst[k][m] /\ Loaded(src[k], SourceKind(k))
          /\ Loaded(dst[k], TargetKind(k))
      BY <1>0, <3>1, Planned DEF SyncInvariant, TypeOK
    <3>3. dst[k][m] = Absent
      BY <3>2 DEF Loaded
    <3>4. serv[<<m[1], m[2]>>] # m[3]
      BY <1>0, <2>0, <3>1, <3>3, MissingIsMadeUp
    <3> QED
      BY <2>0, <3>1, <3>4 DEF Explained
  <2>4. ASSUME NEW m \in Services, PushServiceDelete(k, m) PROVE Explained(k)
    <3>1. CallOn(k, m) /\ m \in todo[k].delete /\ serv[<<m[1], m[2]>>] = Absent
      BY <1>1, <2>4, TurnIs DEF PushServiceDelete, Turn, Call
    <3>2. dst[k][m] # Absent /\ m[3] # Absent
      BY <1>0, <3>1, Planned, Shapes, NothingAssumption
    <3>3. Readable(m[2])
      BY <1>0, <2>0, <3>1, <3>2, MissingIsMadeUp
    <3> QED
      BY <2>0, <3>1, <3>3 DEF Explained
  <2>5. ASSUME NEW v \in Vips, PushRuleCreate(k, v) \/ PushRuleUpdate(k, v) \/ PushRuleDelete(k, v)
        PROVE  Explained(k)
    <3>1. CallOn(k, v)
      BY <2>5, TurnIs DEF PushRuleCreate, PushRuleUpdate, PushRuleDelete
    <3>2. Readable(v) <=> dst[k][v] # Absent
      BY <1>0, <2>0, <3>1, MissingIsMadeUp
    <3>3. CASE PushRuleDelete(k, v)
      <4>1. (vip[v] = Absent \/ vip[v].used) /\ v \in todo[k].delete
        BY <1>1, <3>3 DEF PushRuleDelete, Call, Turn
      <4>2. vip[v] # Absent
        BY <1>0, <3>2, <4>1, Planned DEF Readable
      <4> QED
        BY <2>0, <4>1, <4>2 DEF Explained
    <3>4. CASE PushRuleCreate(k, v)
      <4>1. v \in todo[k].write /\ vip[v] # Absent /\ dst[k][v] = Absent
        BY <1>1, <3>4 DEF PushRuleCreate, Call, Turn
      <4> QED
        BY <2>0, <3>2, <4>1 DEF Explained
    <3>5. CASE PushRuleUpdate(k, v)
      BY <1>1, <3>2, <3>5 DEF PushRuleUpdate, Call, Readable
    <3> QED
      BY <2>5, <3>3, <3>4, <3>5
  <2> QED
    BY <1>1, <1>3, <2>1, <2>2, <2>3, <2>4, <2>5 DEF Push, PushPolicy
<1> QED
  BY <1>1, <1>2, <1>3

LEMMA OnlyCallsFail ==
    ASSUME SyncInvariant, NEW k \in Jobs, StepOf(k), phase'[k] = "failed"
    PROVE  Pull(k) \/ Push(k)
<1>1. phase \in [Jobs -> Idle \cup Running]
  BY DEF SyncInvariant, TypeOK
<1> QED
  BY <1>1 DEF StepOf, Start, Load, LoadSourceObjects, LoadSourceRules, LoadTargetObjects,
              LoadTargetRules, ExecuteSync, Finish, Crash, Advance

\* A job that nobody disturbed dies of a refused write only for the reasons
\* AbortsAreExplained lists: a protected row, an external IP that is a range,
\* an object made up for a VIP that the job took for one of the device, a VIP
\* that the load skips or that a policy uses.
THEOREM AbortsHaveAReason == Spec => []AbortsAreExplained
<1>0. AbortsAreExplained <=> \A j \in Jobs : phase[j] = "failed" /\ j \notin touched => Explained(j)
  BY DEF AbortsAreExplained, Explained
<1>1. Init => AbortsAreExplained
  BY DEF Init, AbortsAreExplained
<1>2. SyncInvariant /\ AbortsAreExplained /\ [Next]_vars => AbortsAreExplained'
  <2>0. (\A j \in Jobs : phase'[j] = "failed" /\ j \notin touched' => Explained(j)') => AbortsAreExplained'
    BY DEF AbortsAreExplained, Explained
  <2> SUFFICES ASSUME SyncInvariant, AbortsAreExplained, [Next]_vars, NEW k \in Jobs,
                      phase'[k] = "failed", k \notin touched'
               PROVE  Explained(k)'
    BY <2>0
  <2>1. CourseOf(k)
    BY DEF SyncInvariant, CourseOf
  <2>2. CASE StepOf(k)
    <3>1. Pull(k) \/ Push(k)
      BY <2>2, OnlyCallsFail
    <3>2. k \notin touched
      BY <3>1, PullCalls, PushCalls DEF Applied, Raised, CutShort
    <3>3. Raised(k) /\ Explained(k)
      BY <2>1, <3>1, <3>2, RaisedIsExplained
    <3> QED
      BY <3>3, SameExplanation DEF Raised
  <2>3. CASE ~StepOf(k)
    <3>1. SameJob(k) /\ k \notin touched /\ UNCHANGED worldVars
      BY <2>3, OthersStep
    <3> QED
      BY <1>0, <3>1, SameExplanation DEF SameJob
  <2> QED
    BY <2>2, <2>3
<1> QED
  BY <1>1, <1>2, SyncInvariantHolds, PTL DEF Spec

----------------------------------------------------------------------------
(* What follows for runs that nobody disturbs.                             *)

\* The end of a clean run in terms of its adapters: the plan is worked off.
LEMMA CleanRunEnds ==
    ASSUME SyncInvariant, NEW j \in Jobs, NEW kind, Clean(j, kind)
    PROVE  /\ CourseOf(j) /\ World /\ phase[j] \in Applying /\ j \notin touched /\ req[j].kind = kind
           /\ \A e \in Elements : src[j][e] = Store(SourceKind(j))[e]
           /\ \A e \in Elements : Outcome(j, e) =
                 IF src[j][e] # Absent THEN src[j][e]
                 ELSE IF req[j].delete THEN Absent ELSE dst[j][e]
           /\ \A e \in Elements : e \notin WorkedOff(j) =>
                 /\ src[j][e] # Absent => dst[j][e] = src[j][e]
                 /\ src[j][e] = Absent /\ req[j].delete => dst[j][e] = Absent
<1>1. CourseOf(j) /\ World /\ phase[j] \in Applying /\ j \notin touched /\ req[j].kind = kind
  BY TypedWorld DEF CourseOf, SyncInvariant, Clean, Applying
<1>2. \A e \in Elements : src[j][e] = Store(SourceKind(j))[e]
  BY <1>1 DEF Clean, CourseOf, SourceIsCurrent, IsCurrent
<1>3. todo[j] = NoWork
  BY <1>1 DEF Clean, CourseOf, PlanFollowsDiff
<1>4. WorkedOff(j) = Differs(j)
  BY <1>3 DEF WorkedOff, Pending, NoWork
<1> QED
  BY <1>1, <1>2, <1>4 DEF Outcome, Differs, Writes, Deletes

LEMMA ElementsAre ==
    /\ \A a \in Addresses : a \in Elements
    /\ \A m \in Services : m \in Elements
    /\ Container \in Elements
    /\ \A v \in Vips : v \in Elements
BY DEF Elements

\* What a clean pull leaves of a VIP's made-up objects and of its rule.
LEMMA PulledVipIs ==
    ASSUME SyncInvariant, NEW j \in Jobs, Clean(j, "pull"), NEW v \in Vips, Readable(v)
    PROVE  /\ Visible(v)
           /\ rule[v].description = FgtRule(v).description
           /\ rule[v].lists = FgtRule(v).lists
           /\ \A s \in Sides :
                 addrRow[<<s, v>>] = IF dst[j][<<s, v>>] # Absent THEN dst[j][<<s, v>>]
                                     ELSE IF addr[<<s, v>>] # Absent THEN addr[<<s, v>>]
                                     ELSE vip[v][s]
<1>0. /\ CourseOf(j) /\ World /\ phase[j] \in Applying /\ j \notin touched /\ req[j].kind = "pull"
      /\ \A e \in Elements : Outcome(j, e) =
            IF src[j][e] # Absent THEN src[j][e]
            ELSE IF req[j].delete THEN Absent ELSE dst[j][e]
      /\ \A e \in Elements : e \notin WorkedOff(j) =>
            /\ src[j][e] # Absent => dst[j][e] = src[j][e]
            /\ src[j][e] = Absent /\ req[j].delete => dst[j][e] = Absent
  BY CleanRunEnds
<1>1. /\ \A a \in Addresses :
            addrRow[a] = IF src[j][a] # Absent /\ dst[j][a] # Absent THEN dst[j][a]
                         ELSE Outcome(j, a)
      /\ \A m \in Services : m \in servRow <=> Outcome(j, m) # Absent
      /\ PulledRule(j, v)
      /\ \A e \in Elements : src[j][e] = Store("device")[e]
  BY <1>0, PullKnows
<1>2. /\ vip[v] \in Vip /\ FgtRule(v) \in LoadedRule /\ FgtRule(v) # Absent
      /\ \A s \in Sides : FgtRule(v).lists.addr[s] = <<s, v>>
      /\ FgtRule(v).lists.serv =
            IF vip[v].forward = None THEN NoList ELSE [s \in Sides |-> <<s, v, vip[v].forward[s]>>]
  BY <1>0, FgtRuleRead DEF World
<1>3. src[j][v] = FgtRule(v)
  BY <1>1, DeviceStoreRead, ElementsAre
<1>4. \A s \in Sides : <<s, v>> \in Addresses
  BY DEF Addresses
<1>5. ASSUME NEW s \in Sides
      PROVE  /\ src[j][<<s, v>>] = IF addr[<<s, v>>] # Absent THEN addr[<<s, v>>] ELSE MadeUp(<<s, v>>)
             /\ src[j][<<s, v>>] # Absent
             /\ MadeUp(<<s, v>>) \notin Mistyped => MadeUp(<<s, v>>) = vip[v][s]
  <2> DEFINE a == <<s, v>>
  <2>1. a \in Addresses /\ a[1] = s /\ a[2] = v
    BY <1>4
  <2> HIDE DEF a
  <2>2. src[j][a] = Store("device")[a]
    BY <1>1, <2>1, ElementsAre
  <2>3. Store("device")[a] = IF addr[a] = Absent /\ Readable(a[2]) THEN MadeUp(a) ELSE addr[a]
    BY <2>1, DeviceStoreRead
  <2>4. MadeUp(a) # Absent /\ (MadeUp(a) \notin Mistyped => MadeUp(a) = vip[v][s])
    BY <1>0, <2>1, MadeUpIs DEF World
  <2>5. /\ src[j][a] = IF addr[a] # Absent THEN addr[a] ELSE MadeUp(a)
        /\ src[j][a] # Absent
    BY <2>1, <2>2, <2>3, <2>4
  <2> QED
    BY <2>4, <2>5 DEF a
<1>6. \A s \in Sides :
         addrRow[<<s, v>>] = IF dst[j][<<s, v>>] # Absent THEN dst[j][<<s, v>>] ELSE src[j][<<s, v>>]
  BY <1>0, <1>1, <1>4, <1>5, ElementsAre
<1>r. \A s \in Sides :
         addrRow[<<s, v>>] = IF dst[j][<<s, v>>] # Absent THEN dst[j][<<s, v>>]
                             ELSE IF addr[<<s, v>>] # Absent THEN addr[<<s, v>>]
                             ELSE vip[v][s]
  <2>1. \A s \in Sides : addrRow[<<s, v>>] \in Values \cup {Absent}
    BY <1>0, <1>4 DEF World, RowsTyped
  <2>2. \A s \in Sides : addrRow[<<s, v>>] \notin Mistyped
    BY <2>1, ConstantsAssumption, NothingAssumption
  <2> QED
    BY <1>5, <1>6, <2>2
<1>7. ASSUME NEW s \in Sides, vip[v].forward # None
      PROVE  <<s, v, vip[v].forward[s]>> \in servRow
  <2> DEFINE m == <<s, v, vip[v].forward[s]>>
  <2>1. vip[v].forward[s] \in Ports
    BY <1>2, <1>7 DEF Vip, Forward, Sides
  <2>2. m \in Services /\ m[1] = s /\ m[2] = v
    BY <2>1 DEF Services
  <2>3. PortsOf(v)[s] = m
    BY <1>7 DEF PortsOf
  <2> HIDE DEF m
  <2>4. Store("device")[m] = "loaded"
    BY <2>2, <2>3, DeviceStoreRead
  <2>5. src[j][m] = "loaded" /\ "loaded" # Absent
    BY <1>1, <2>2, <2>4, ElementsAre, NothingAssumption
  <2>6. m \in servRow
    BY <1>0, <1>1, <2>2, <2>5, ElementsAre
  <2> QED
    BY <2>6 DEF m
<1>8. FoundLists(FgtRule(v).lists) = FgtRule(v).lists
  <2>1. FgtRule(v).lists \in Lists
    BY <1>2 DEF LoadedRule
  <2>2. \A s \in Sides : addrRow[FgtRule(v).lists.addr[s]] # Absent
    BY <1>2, <1>5, <1>6
  <2>3. \A s \in Sides : FgtRule(v).lists.serv[s] # None => FgtRule(v).lists.serv[s] \in servRow
    BY <1>2, <1>7 DEF NoList
  <2> QED
    BY <2>1, <2>2, <2>3, FoundAll
<1>9. /\ Visible(v) /\ rule[v].lists = FgtRule(v).lists
      /\ rule[v].description = FgtRule(v).description
  <2>1. CASE v \in WorkedOff(j)
    <3>1. rule[v] = [lists |-> src[j][v].lists, description |-> src[j][v].description,
                     linked |-> TRUE]
      BY <1>1, <1>2, <1>3, <2>1 DEF PulledRule
    <3>2. /\ rule[v].lists = src[j][v].lists /\ rule[v].description = src[j][v].description
          /\ rule[v].linked
      BY <3>1
    <3>3. src[j][v].lists \in Lists /\ src[j][v].description \in Description
      BY <1>2, <1>3 DEF LoadedRule
    <3>4. rule[v] \in Rule
      BY <3>1, <3>3 DEF Rule
    <3> QED
      BY <1>3, <3>2, <3>4, NothingAssumption DEF Visible
  <2>2. CASE v \notin WorkedOff(j)
    <3>1. dst[j][v] = FgtRule(v) /\ dst[j][v] # Absent
      BY <1>0, <1>2, <1>3, <2>2, ElementsAre
    <3>2. /\ Visible(v) /\ rule[v].lists = FoundLists(dst[j][v].lists)
          /\ rule[v].description = dst[j][v].description
      BY <1>1, <2>2, <3>1 DEF PulledRule
    <3> QED
      BY <1>8, <3>1, <3>2
  <2> QED
    BY <2>1, <2>2
<1> QED
  BY <1>9, <1>r

\* After a clean pull every VIP with both its IPs has its rule, with the
\* objects made for it, and resolves to the IPs its addresses were created
\* with.
THEOREM CleanPullMirrors == Spec => []PullMirrorsVips
<1>1. SyncInvariant => PullMirrorsVips
  <2> SUFFICES ASSUME SyncInvariant, NEW j \in Jobs, Clean(j, "pull")
               PROVE  /\ policy = Generated
                      /\ \A v \in Vips : Readable(v) =>
                            /\ Visible(v)
                            /\ rule[v].description = FgtRule(v).description
                            /\ rule[v].lists = FgtRule(v).lists
                            /\ \A s \in Sides :
                                  RowRule(v).resolved[s] =
                                     IF dst[j][<<s, v>>] # Absent THEN dst[j][<<s, v>>]
                                     ELSE IF addr[<<s, v>>] # Absent THEN addr[<<s, v>>]
                                     ELSE vip[v][s]
                      /\ req[j].delete =>
                            /\ \A v \in Vips : Visible(v) => Readable(v)
                            /\ \A a \in Addresses : addrRow[a] # Absent => Store("device")[a] # Absent
                            /\ \A k \in servRow : Store("device")[k] # Absent
    BY DEF PullMirrorsVips
  <2>0. /\ CourseOf(j) /\ World /\ phase[j] \in Applying /\ j \notin touched /\ req[j].kind = "pull"
        /\ \A e \in Elements : Outcome(j, e) =
              IF src[j][e] # Absent THEN src[j][e]
              ELSE IF req[j].delete THEN Absent ELSE dst[j][e]
        /\ \A e \in Elements : e \notin WorkedOff(j) =>
              /\ src[j][e] # Absent => dst[j][e] = src[j][e]
              /\ src[j][e] = Absent /\ req[j].delete => dst[j][e] = Absent
    BY CleanRunEnds
  <2>1. /\ \A a \in Addresses :
              addrRow[a] = IF src[j][a] # Absent /\ dst[j][a] # Absent THEN dst[j][a]
                           ELSE Outcome(j, a)
        /\ \A m \in Services : m \in servRow <=> Outcome(j, m) # Absent
        /\ policy = Outcome(j, Container)
        /\ \A v \in Vips : PulledRule(j, v)
        /\ \A e \in Elements : src[j][e] = Store("device")[e]
    BY <2>0, PullKnows
  <2>2. policy = Generated
    <3>1. src[j][Container] = Generated /\ Generated # Absent
      BY <2>1, DeviceStoreRead, ElementsAre, NothingAssumption
    <3> QED
      BY <2>0, <2>1, <3>1, ElementsAre
  <2>3. ASSUME NEW v \in Vips, Readable(v)
        PROVE  /\ Visible(v)
               /\ rule[v].description = FgtRule(v).description
               /\ rule[v].lists = FgtRule(v).lists
               /\ \A s \in Sides :
                     RowRule(v).resolved[s] =
                        IF dst[j][<<s, v>>] # Absent THEN dst[j][<<s, v>>]
                        ELSE IF addr[<<s, v>>] # Absent THEN addr[<<s, v>>]
                        ELSE vip[v][s]
    <3>1. /\ Visible(v)
          /\ rule[v].description = FgtRule(v).description
          /\ rule[v].lists = FgtRule(v).lists
          /\ \A s \in Sides :
                addrRow[<<s, v>>] = IF dst[j][<<s, v>>] # Absent THEN dst[j][<<s, v>>]
                                    ELSE IF addr[<<s, v>>] # Absent THEN addr[<<s, v>>]
                                    ELSE vip[v][s]
      BY <2>3, PulledVipIs
    <3>2. \A s \in Sides : FgtRule(v).lists.addr[s] = <<s, v>>
      BY <2>0, <2>3, FgtRuleRead DEF World
    <3>3. \A s \in Sides : RowRule(v).resolved[s] = Resolve(<<s, v>>)
      <4>1. \A s \in Sides : RowRule(v).resolved[s] = Resolve(rule[v].lists.addr[s])
        BY <2>0, <3>1, RowRuleRead DEF World, Visible
      <4> QED
        BY <3>1, <3>2, <4>1
    <3>4. \A s \in Sides : <<s, v>> \in Addresses /\ <<s, v>> # None
      BY NothingAssumption DEF Addresses
    <3>5. \A s \in Sides : Resolve(<<s, v>>) = addrRow[<<s, v>>]
      BY <3>4 DEF Resolve
    <3> QED
      BY <3>1, <3>3, <3>5
  <2>4. ASSUME req[j].delete, NEW v \in Vips, ~Readable(v) PROVE ~Visible(v)
    <3>1. src[j][v] = Absent
      BY <2>1, <2>4, DeviceStoreRead, ElementsAre
    <3>2. v \notin WorkedOff(j) => dst[j][v] = Absent
      BY <2>0, <2>4, <3>1, ElementsAre
    <3> QED
      BY <2>1, <3>1, <3>2 DEF PulledRule, Visible
  <2>5. ASSUME req[j].delete, NEW a \in Addresses, addrRow[a] # Absent PROVE Store("device")[a] # Absent
    BY <2>0, <2>1, <2>5, ElementsAre
  <2>6. ASSUME req[j].delete, NEW m \in servRow PROVE Store("device")[m] # Absent
    <3>1. m \in Services
      BY <2>0 DEF World, RowsTyped
    <3> QED
      BY <2>0, <2>1, <2>6, <3>1, ElementsAre
  <2> QED
    BY <2>2, <2>3, <2>4, <2>5, <2>6
<1> QED
  BY <1>1, SyncInvariantHolds, PTL

\* After a clean push the VIP of every visible rule has the IPs and the ports
\* that the rule stands for; a destructive push leaves no other VIP that says
\* both its IPs.
THEOREM CleanPushMirrors == Spec => []PushMirrorsVips
<1>1. SyncInvariant => PushMirrorsVips
  <2> SUFFICES ASSUME SyncInvariant, NEW j \in Jobs, Clean(j, "push")
               PROVE  /\ \A v \in Vips : Visible(v) =>
                            LET e == RowRule(v) IN
                            /\ (\A s \in Sides : e.resolved[s] # None) => Readable(v)
                            /\ Readable(v) =>
                                  /\ \A s \in Sides : e.resolved[s] # None => vip[v][s] = e.resolved[s]
                                  /\ e.lists.serv["ext"] # None /\ (dst[j][v] # Absent \/ BothPorts(e.lists.serv)) =>
                                        /\ vip[v].forward # None
                                        /\ \A s \in Sides :
                                              e.lists.serv[s] # None => vip[v].forward[s] = e.lists.serv[s][3]
                      /\ \A a \in Addresses : addrRow[a] \notin {Absent, addr[a]} =>
                            addr[a] = Absent /\ dst[j][a[2]] # Absent
                      /\ req[j].delete => \A v \in Vips : Readable(v) => Visible(v)
    BY DEF PushMirrorsVips
  <2>0. /\ CourseOf(j) /\ World /\ phase[j] \in Applying /\ j \notin touched /\ req[j].kind = "push"
        /\ \A e \in Elements : Outcome(j, e) =
              IF src[j][e] # Absent THEN src[j][e]
              ELSE IF req[j].delete THEN Absent ELSE dst[j][e]
        /\ \A e \in Elements : e \notin WorkedOff(j) =>
              /\ src[j][e] # Absent => dst[j][e] = src[j][e]
              /\ src[j][e] = Absent /\ req[j].delete => dst[j][e] = Absent
    BY CleanRunEnds
  <2>1. /\ \A a \in Addresses :
              \/ addr[a] = Outcome(j, a)
              \/ a \notin WorkedOff(j) /\ addr[a] = Absent /\ dst[j][a[2]] # Absent
        /\ \A v \in Vips : PushedVip(j, v)
        /\ \A a \in Addresses : src[j][a] = addrRow[a]
        /\ \A v \in Vips : src[j][v] = IF Visible(v) THEN RowRule(v) ELSE Absent
    BY <2>0, PushKnows
  <2>2. ASSUME NEW v \in Vips, Visible(v), NEW e, e = RowRule(v)
        PROVE  /\ (\A s \in Sides : e.resolved[s] # None) => Readable(v)
               /\ Readable(v) =>
                     /\ \A s \in Sides : e.resolved[s] # None => vip[v][s] = e.resolved[s]
                     /\ e.lists.serv["ext"] # None /\ (dst[j][v] # Absent \/ BothPorts(e.lists.serv)) =>
                           /\ vip[v].forward # None
                           /\ \A s \in Sides :
                                 e.lists.serv[s] # None => vip[v].forward[s] = e.lists.serv[s][3]
    <3>1. src[j][v] = e /\ e # Absent
      BY <2>0, <2>1, <2>2, RowRuleRead DEF World, Visible
    <3>2. CASE v \in WorkedOff(j)
      BY <2>1, <3>1, <3>2 DEF PushedVip
    <3>3. CASE v \notin WorkedOff(j)
      <4>1. dst[j][v] = e /\ dst[j][v] = IF Readable(v) THEN FgtRule(v) ELSE Absent
        BY <2>0, <2>1, <3>1, <3>3, ElementsAre DEF PushedVip
      <4>2. Readable(v) /\ e = FgtRule(v)
        BY <3>1, <4>1
      <4>3. /\ \A s \in Sides : FgtRule(v).resolved[s] = vip[v][s]
            /\ FgtRule(v).lists.serv =
                  IF vip[v].forward = None THEN NoList
                  ELSE [s \in Sides |-> <<s, v, vip[v].forward[s]>>]
        BY <2>0, <4>2, FgtRuleRead DEF World
      <4>4. /\ \A s \in Sides : e.resolved[s] = vip[v][s]
            /\ e.lists.serv = IF vip[v].forward = None THEN NoList
                              ELSE [s \in Sides |-> <<s, v, vip[v].forward[s]>>]
        BY <4>2, <4>3
      <4>5. e.lists.serv["ext"] # None => vip[v].forward # None
        BY <4>4, SidesAre DEF NoList
      <4>6. vip[v].forward # None => \A s \in Sides : e.lists.serv[s][3] = vip[v].forward[s]
        BY <4>4
      <4> QED
        BY <4>2, <4>4, <4>5, <4>6
    <3> QED
      BY <3>2, <3>3
  <2>3. ASSUME NEW a \in Addresses, addrRow[a] \notin {Absent, addr[a]}
        PROVE  addr[a] = Absent /\ dst[j][a[2]] # Absent
    BY <2>0, <2>1, <2>3, ElementsAre
  <2>4. ASSUME req[j].delete, NEW v \in Vips, Readable(v) PROVE Visible(v)
    <3> SUFFICES ASSUME src[j][v] = Absent PROVE FALSE
      BY <2>1
    <3>1. CASE v \in WorkedOff(j)
      BY <2>1, <2>4, <3>1 DEF PushedVip, Readable
    <3>2. CASE v \notin WorkedOff(j)
      <4>1. dst[j][v] = Absent /\ dst[j][v] = FgtRule(v)
        BY <2>0, <2>1, <2>4, <3>2, ElementsAre DEF PushedVip
      <4> QED
        BY <2>0, <2>4, <4>1, FgtRuleRead DEF World
    <3> QED
      BY <3>1, <3>2
  <2> QED
    BY <2>2, <2>3, <2>4
<1> QED
  BY <1>1, SyncInvariantHolds, PTL

----------------------------------------------------------------------------
(* What a step may never do.                                               *)

\* What a PUT keeps of the VIP it changes, and what the rule says of the rest.
LEMMA PutKeepsRest ==
    ASSUME SyncInvariant, NEW k \in Jobs, CourseOf(k), phase[k] \in Applying, req[k].kind = "push",
           k \notin touched, NEW v \in Vips, src[k][v] # Absent, vip[v] # Absent
    PROVE  /\ Put(k, v).intf = vip[v].intf /\ Put(k, v).comment = vip[v].comment
           /\ \A s \in Sides : Put(k, v)[s] # vip[v][s] => Put(k, v)[s] = RowRule(v).resolved[s]
           /\ vip[v].forward # None =>
                 /\ Put(k, v).forward # None
                 /\ \A s \in Sides : Put(k, v).forward[s] # vip[v].forward[s] =>
                       /\ rule[v].lists.serv[s] # None
                       /\ rule[v].lists.serv[s][3] = Put(k, v).forward[s]
<1>1. /\ Visible(v) /\ src[k][v] = RowRule(v) /\ src[k][v] \in LoadedRule
      /\ \A s \in Sides : Lookup(k, src[k][v].lists.addr[s]) = src[k][v].resolved[s]
  BY LookupIs
<1>2. TypeOK /\ World
  BY TypedWorld DEF SyncInvariant
<1>3. /\ vip[v] \in Vip /\ Put(k, v) \in Vip
      /\ \A s \in Sides : Put(k, v)[s] = IF SentIp(k, v, s) = None THEN vip[v][s] ELSE SentIp(k, v, s)
      /\ Put(k, v).forward = ForwardAfter(vip[v].forward, src[k][v].lists.serv,
                                          SentPort(k, v, "ext"), SentPort(k, v, "mapped"))
      /\ Put(k, v).intf = vip[v].intf /\ Put(k, v).comment = vip[v].comment
      /\ \A s \in Sides : SentPort(k, v, s) \in Ports \cup {None}
  BY <1>1, <1>2, PutRead
<1>4. src[k][v].lists = rule[v].lists
  BY <1>1, <1>2, RowRuleRead DEF World, Visible
<1>5. \A s \in Sides : SentIp(k, v, s) # None => SentIp(k, v, s) = RowRule(v).resolved[s]
  BY <1>1 DEF SentIp
<1>6. \A s \in Sides : SentPort(k, v, s) # None =>
         rule[v].lists.serv[s] # None /\ rule[v].lists.serv[s][3] = SentPort(k, v, s)
  BY <1>4 DEF SentPort
<1>7. ASSUME vip[v].forward # None
      PROVE  /\ Put(k, v).forward # None
             /\ \A s \in Sides : Put(k, v).forward[s] # vip[v].forward[s] =>
                   Put(k, v).forward[s] = SentPort(k, v, s) /\ SentPort(k, v, s) # None
  <2>1. PICK now \in Forward \cup {None} : now = vip[v].forward
    BY <1>3 DEF Vip
  <2>2. PICK x \in Ports \cup {None}, m \in Ports \cup {None} :
           x = SentPort(k, v, "ext") /\ m = SentPort(k, v, "mapped")
    BY <1>3, SidesAre
  <2>3. PICK after : after = ForwardAfter(now, src[k][v].lists.serv, x, m)
    OBVIOUS
  <2>4. /\ after # None
        /\ x # None => after["ext"] = x
        /\ x = None => after["ext"] = now["ext"]
        /\ m # None => after["mapped"] = m
        /\ m = None => after["mapped"] = now["mapped"]
    BY <1>7, <2>1, <2>3, ForwardAfterRead
  <2>5. Put(k, v).forward = after
    BY <1>3, <2>1, <2>2, <2>3
  <2> QED
    BY <2>1, <2>2, <2>4, <2>5, SidesAre
<1> QED
  BY <1>3, <1>5, <1>6, <1>7

\* Whatever a rule refers to, a push that nobody disturbs changes nothing of
\* an existing VIP but IPs and ports, to those of its rule.
THEOREM VipIsKept == Spec => PushKeepsVip
<1>1. SyncInvariant /\ [Next]_vars =>
        [\A j \in Jobs, v \in Vips :
          LET was == vip[v]
              is == vip'[v]
          IN
          JobStep /\ todo'[j] # todo[j] /\ j \notin touched /\ is # was
             /\ was # Absent /\ is # Absent
          => /\ is.intf = was.intf /\ is.comment = was.comment
             /\ \A s \in Sides : is[s] # was[s] => is[s] = RowRule(v).resolved[s]
             /\ was.forward # None =>
                   /\ is.forward # None
                   /\ \A s \in Sides : is.forward[s] # was.forward[s] =>
                         /\ rule[v].lists.serv[s] # None
                         /\ rule[v].lists.serv[s][3] = is.forward[s]]_vars
  <2> SUFFICES ASSUME SyncInvariant, [Next]_vars,
                      NEW j \in Jobs, NEW v \in Vips,
                      JobStep, todo'[j] # todo[j], j \notin touched, vip'[v] # vip[v],
                      vip[v] # Absent, vip'[v] # Absent
               PROVE  /\ vip'[v].intf = vip[v].intf /\ vip'[v].comment = vip[v].comment
                      /\ \A s \in Sides : vip'[v][s] # vip[v][s] => vip'[v][s] = RowRule(v).resolved[s]
                      /\ vip[v].forward # None =>
                            /\ vip'[v].forward # None
                            /\ \A s \in Sides : vip'[v].forward[s] # vip[v].forward[s] =>
                                  /\ rule[v].lists.serv[s] # None
                                  /\ rule[v].lists.serv[s][3] = vip'[v].forward[s]
    OBVIOUS
  <2>0. World /\ CourseOf(j)
    BY TypedWorld DEF SyncInvariant, CourseOf
  <2>1. StepOf(j)
    BY OthersStep DEF SameJob
  <2>2. CASE Push(j)
    <3>0. phase[j] = "syncing" /\ req[j].kind = "push" /\ phase[j] \in Applying
      BY <2>2, PushCalls DEF Applying
    <3>1. \A w \in Vips : \A r : PutVip(w, r) => v = w /\ vip'[v] = r
      BY <2>0 DEF PutVip, World, DeviceTyped
    <3>2. ASSUME NEW w \in Vips, PushRuleCreate(j, w) \/ PushRuleDelete(j, w) PROVE FALSE
      <4>1. \/ vip' = vip
            \/ vip[w] = Absent /\ \E r : PutVip(w, r)
            \/ PutVip(w, Absent)
        BY <3>2 DEF PushRuleCreate, PushRuleDelete, Call, Raised, worldVars, deviceVars
      <4> QED
        BY <3>1, <4>1
    <3>3. ASSUME NEW a \in Addresses, PushAddress(j, a) \/ PushAddressDelete(j, a) PROVE FALSE
      BY <3>3 DEF PushAddress, PushAddressDelete, Call, PutAddress, Raised, worldVars, deviceVars
    <3>4. ASSUME NEW m \in Services, PushServiceCreate(j, m) \/ PushServiceDelete(j, m) PROVE FALSE
      BY <3>4 DEF PushServiceCreate, PushServiceDelete, Call, PutService, Raised, worldVars, deviceVars
    <3>5. ~PushPolicy(j)
      BY DEF PushPolicy, worldVars, deviceVars
    <3>6. PICK w \in Vips : PushRuleUpdate(j, w)
      BY <2>2, <3>2, <3>3, <3>4, <3>5 DEF Push
    <3>7. PutVip(w, Put(j, w)) /\ w \in todo[j].write
      BY <3>6 DEF PushRuleUpdate, Call, Put, Raised, Turn, worldVars, deviceVars
    <3>8. v = w /\ vip'[v] = Put(j, v) /\ src[j][v] # Absent
      BY <3>0, <3>1, <3>7, Planned
    <3> QED
      BY <2>0, <3>0, <3>8, PutKeepsRest
  <2>3. CASE Pull(j)
    BY <2>3, PullCalls DEF deviceVars
  <2>4. CASE ~Push(j) /\ ~Pull(j)
    BY <2>1, <2>4 DEF StepOf, Start, Load, LoadSourceObjects, LoadSourceRules,
                  LoadTargetObjects, LoadTargetRules, ExecuteSync, Finish, Crash, worldVars, deviceVars
  <2> QED
    BY <2>2, <2>3, <2>4
<1> QED
  BY <1>1, SyncInvariantHolds, PTL DEF Spec, PushKeepsVip
=============================================================================
