-------------------------- MODULE DeviceSyncProofs --------------------------
(***************************************************************************)
(* Proofs about DeviceSync: its inductive invariant, and from it each      *)
(* property its run checks.  Three facts carry the argument.  The sorted   *)
(* addresses of a row are exactly its addresses (RowCidrsAre).  Deleting a *)
(* row takes only rows whose parent goes too (FamilyIs).  An undisturbed   *)
(* run changes an element at its turn only, apart from rows that lose      *)
(* their parent and routes that lose their egress (RemovedCourse).         *)
(***************************************************************************)
EXTENDS DeviceSync, FiniteSetTheorems, FunctionTheorems, TLAPS

----------------------------------------------------------------------------
(* Addresses.                                                              *)

LEMMA RankGrows ==
    ASSUME NEW hosts \in SUBSET Hosts, NEW g \in hosts, NEW h \in hosts, g < h
    PROVE  Rank(g, hosts) < Rank(h, hosts)
<1> DEFINE G == {m \in hosts : m <= g}
           H == {m \in hosts : m <= h}
<1>1. IsFiniteSet(hosts)
  BY ConstantsAssumption, FS_Subset
<1>2. IsFiniteSet(G) /\ IsFiniteSet(H)
  BY <1>1, FS_Subset
<1>3. g \in Nat /\ h \in Nat /\ \A m \in hosts : m \in Nat
  BY ConstantsAssumption
<1>4. G \in SUBSET H /\ h \in H /\ h \notin G
  <2>1. ASSUME NEW m \in hosts, m <= g PROVE m <= h
    BY <1>3, <2>1
  <2>2. h <= h /\ ~(h <= g)
    BY <1>3
  <2> QED
    BY <2>1, <2>2
<1>5. Cardinality(G) <= Cardinality(H) /\ Cardinality(H) # Cardinality(G)
  <2> HIDE DEF G, H
  <2> QED
    BY <1>2, <1>4, FS_Subset
<1>6. Cardinality(G) \in Nat /\ Cardinality(H) \in Nat
  BY <1>2, FS_CardinalityType
<1> QED
  BY <1>5, <1>6 DEF Rank

LEMMA RankIsPlace ==
    ASSUME NEW hosts \in SUBSET Hosts
    PROVE  /\ Cardinality(hosts) \in Nat
           /\ \A h \in hosts : Rank(h, hosts) \in 1..Cardinality(hosts)
           /\ \A k \in 1..Cardinality(hosts) : \E h \in hosts : Rank(h, hosts) = k
<1> DEFINE n == Cardinality(hosts)
           f == [h \in hosts |-> Rank(h, hosts)]
<1>1. IsFiniteSet(hosts)
  BY ConstantsAssumption, FS_Subset
<1>2. n \in Nat
  BY <1>1, FS_CardinalityType
<1>3. ASSUME NEW h \in hosts PROVE Rank(h, hosts) \in 1..n
  <2> DEFINE H == {m \in hosts : m <= h}
  <2>1. IsFiniteSet(H) /\ Cardinality(H) <= n
    BY <1>1, FS_Subset
  <2>2. h \in H
    BY ConstantsAssumption
  <2>3. Cardinality(H) # 0
    BY <2>1, <2>2, FS_EmptySet
  <2>4. Cardinality(H) \in Nat
    BY <2>1, FS_CardinalityType
  <2>5. Cardinality(H) \in 1..n
    <3> HIDE DEF H
    <3> QED
      BY <1>2, <2>1, <2>3, <2>4
  <2> QED
    BY <2>5 DEF Rank
<1>4. f \in [hosts -> 1..n]
  BY <1>3
<1>5. ASSUME NEW g \in hosts, NEW h \in hosts, f[g] = f[h] PROVE g = h
  <2>1. g \in Nat /\ h \in Nat
    BY ConstantsAssumption
  <2>2. f[g] \in Nat /\ f[h] \in Nat
    <3> HIDE DEF n, f
    <3> QED
      BY <1>2, <1>4
  <2>3. ~(g < h) /\ ~(h < g)
    BY <1>5, <2>2, RankGrows
  <2> QED
    BY <2>1, <2>3
<1>6. IsFiniteSet(1..n) /\ Cardinality(1..n) = n
  <2> HIDE DEF n
  <2> QED
    BY <1>2, FS_Interval
<1>7. f \in Injection(hosts, 1..n)
  <2> HIDE DEF f, n
  <2> QED
    BY <1>4, <1>5 DEF Injection, IsInjective
<1>8. f \in Surjection(hosts, 1..n)
  <2> HIDE DEF f
  <2> QED
    BY <1>6, <1>7, FS_Injection
<1>9. \A k \in 1..n : \E h \in hosts : f[h] = k
  <2> HIDE DEF f, n
  <2> QED
    BY <1>8 DEF Surjection
<1> QED
  BY <1>2, <1>3, <1>9

\* The sorted addresses of a row are its addresses.
LEMMA RowCidrsAre ==
    ASSUME NEW r, r.hosts \in SUBSET Hosts,
           \A h \in r.hosts : ipam[h] \in Masks
    PROVE  RowCidrs(r) \in Addresses /\ HostsOf(RowCidrs(r)) = r.hosts
<1>1. PICK hosts \in SUBSET Hosts : hosts = r.hosts
  OBVIOUS
<1>2. PICK n \in Nat : n = Cardinality(hosts)
  BY RankIsPlace
<1>3. ASSUME NEW k \in 1..n
      PROVE  HostAt(k, hosts) \in hosts /\ Rank(HostAt(k, hosts), hosts) = k
  <2>1. \E h \in hosts : Rank(h, hosts) = k
    BY <1>2, RankIsPlace
  <2> QED
    BY <2>1 DEF HostAt
<1>4. ASSUME NEW h \in hosts PROVE \E k \in 1..n : HostAt(k, hosts) = h
  <2>1. PICK k \in 1..n : k = Rank(h, hosts)
    BY <1>2, RankIsPlace
  <2>2. HostAt(k, hosts) \in hosts /\ Rank(HostAt(k, hosts), hosts) = Rank(h, hosts)
    BY <1>3, <2>1
  <2>3. /\ HostAt(k, hosts) \in Nat /\ h \in Nat
        /\ Rank(h, hosts) \in Nat
    <3>1. k \in Nat
      BY <1>2
    <3>2. \A m \in hosts : m \in Nat
      BY ConstantsAssumption
    <3> QED
      BY <2>1, <2>2, <3>1, <3>2
  <2>4. ~(HostAt(k, hosts) < h) /\ ~(h < HostAt(k, hosts))
    BY <2>2, <2>3, RankGrows
  <2> QED
    BY <2>3, <2>4
<1>5. RowCidrs(r) = [k \in 1..n |-> <<HostAt(k, hosts), ipam[HostAt(k, hosts)]>>]
  BY <1>1, <1>2 DEF RowCidrs
<1>6. RowCidrs(r) \in [1..n -> Cidrs]
  BY <1>1, <1>3, <1>5 DEF Cidrs
<1>7. RowCidrs(r) \in Addresses
  BY <1>6 DEF Addresses
<1>8. \A k \in 1..n : RowCidrs(r)[k][1] = HostAt(k, hosts)
  BY <1>5
<1>9. DOMAIN RowCidrs(r) = 1..n
  BY <1>5
<1>10. HostsOf(RowCidrs(r)) = {HostAt(k, hosts) : k \in 1..n}
  BY <1>8, <1>9 DEF HostsOf
<1>11. {HostAt(k, hosts) : k \in 1..n} = hosts
  BY <1>3, <1>4
<1> QED
  BY <1>1, <1>7, <1>10, <1>11

LEMMA AddressesAre ==
    ASSUME NEW ips \in Addresses
    PROVE  /\ \A k \in DOMAIN ips : ips[k] \in Cidrs /\ ips[k][1] \in Hosts /\ ips[k][2] \in Masks
           /\ ips # <<>> => 1 \in DOMAIN ips
           /\ HostsOf(ips) \subseteq Hosts
<1>1. \A k \in DOMAIN ips : ips[k] \in Cidrs
  BY DEF Addresses
<1>2. \A c \in Cidrs : c[1] \in Hosts /\ c[2] \in Masks
  BY DEF Cidrs
<1>3. ips # <<>> => 1 \in DOMAIN ips
  BY DEF Addresses
<1>4. HostsOf(ips) \subseteq Hosts
  BY <1>1, <1>2 DEF HostsOf
<1> QED
  BY <1>1, <1>2, <1>3, <1>4

----------------------------------------------------------------------------
(* Families of rows.                                                       *)

\* The family of a row is closed, and its members but the row itself are there
\* because of their parent.
LEMMA FamilyIs ==
    ASSUME NEW i \in Ifaces
    PROVE  /\ i \in Family(i) /\ Family(i) \subseteq Ifaces
           /\ \A m \in Ifaces : rowIf[m] # Absent /\ rowIf[m].parent \in Family(i) => m \in Family(i)
           /\ \A k \in Family(i) \ {i} : rowIf[k] # Absent /\ rowIf[k].parent \in Family(i)
<1> DEFINE Closed(S) ==
              i \in S /\ \A m \in Ifaces : rowIf[m] # Absent /\ rowIf[m].parent \in S => m \in S
<1>1. \A k : k \in Family(i) <=> k \in Ifaces /\ \A S \in SUBSET Ifaces : Closed(S) => k \in S
  BY DEF Family
<1>2. Family(i) \in SUBSET Ifaces /\ i \in Family(i)
  BY <1>1
<1>3. ASSUME NEW m \in Ifaces, rowIf[m] # Absent, rowIf[m].parent \in Family(i)
      PROVE  m \in Family(i)
  BY <1>1, <1>3
<1>4. ASSUME NEW k \in Family(i) \ {i}, ~(rowIf[k] # Absent /\ rowIf[k].parent \in Family(i))
      PROVE  FALSE
  <2> DEFINE S == Family(i) \ {k}
  <2>1. S \in SUBSET Ifaces /\ i \in S
    BY <1>2
  <2>2. ASSUME NEW m \in Ifaces, rowIf[m] # Absent, rowIf[m].parent \in S PROVE m \in S
    BY <1>3, <1>4, <2>2
  <2>3. Closed(S)
    BY <2>1, <2>2
  <2>4. k \in S
    <3> HIDE DEF S, Closed
    <3> QED
      BY <1>1, <2>1, <2>3
  <2> QED
    BY <2>4
<1> QED
  BY <1>2, <1>3, <1>4

----------------------------------------------------------------------------
(* Records.                                                                *)

LEMMA RecordsAreSomething ==
    /\ \A r \in DeviceInterface : r # Absent
    /\ \A r \in DeviceRoute : r # Absent
    /\ \A r \in Interface : r # Absent
    /\ \A r \in Route : r # Absent
    /\ \A r \in RowInterface : r # Absent
    /\ \A m \in Masks : m # Absent
    /\ \A c \in Scopes : c # Absent
BY NothingAssumption

LEMMA DeviceInterfaceIs ==
    ASSUME NEW r \in DeviceInterface
    PROVE  /\ r.type \in {"port", "virtual", "tunnel"} /\ r.vdom \in Vdoms /\ r.parent \in Names
           /\ r.vlan \in VlanIds \cup {None} /\ r.text \in Text /\ r.ips \in Addresses
           /\ r.access \in {"ping", "manage"}
           /\ r.type = "virtual" => r.parent # None /\ r.vlan # None
BY DEF DeviceInterface

LEMMA ReadInterfaceIs ==
    ASSUME NEW r \in DeviceInterface
    PROVE  /\ ReadInterface(r).type = r.type /\ ReadInterface(r).parent = r.parent
           /\ ReadInterface(r).vlan = r.vlan /\ ReadInterface(r).text = r.text
           /\ ReadInterface(r).ips = r.ips
           /\ ReadInterface(r).mode = IF r.type = "virtual" THEN "tagged" ELSE None
           /\ r.type # "tunnel" => ReadInterface(r) \in Interface
BY DeviceInterfaceIs DEF ReadInterface, Interface, Modes

LEMMA ReadRouteIs ==
    ASSUME NEW r \in DeviceRoute
    PROVE  /\ ReadRoute(r).dest = r.dest /\ ReadRoute(r).via = r.via
           /\ ReadRoute(r).blackhole = r.blackhole /\ ReadRoute(r).text = r.text
           /\ r.dest # None => ReadRoute(r) \in Route
BY DEF ReadRoute, DeviceRoute, Route

LEMMA Kinds ==
    /\ \A i \in Ifaces : i # Host /\ i \notin Seqs
    /\ \A s \in Seqs : s # Host /\ s \notin Ifaces
    /\ None \notin Ifaces
    /\ \A n \in Elements : n = Host \/ n \in Ifaces \/ n \in Seqs
    /\ Host \in Elements /\ Ifaces \subseteq Elements /\ Seqs \subseteq Elements
BY ConstantsAssumption DEF Elements

\* What the adapter of the device loads, element by element.
LEMMA ReadFgtIs ==
    ASSUME NEW v, NEW routes
    PROVE  /\ ReadFgt(v, routes)[Host] = GivenScope
           /\ \A i \in Ifaces : ReadFgt(v, routes)[i] =
                 IF Readable(v, i) THEN ReadInterface(ifs[i]) ELSE Absent
           /\ \A s \in Seqs : ReadFgt(v, routes)[s] =
                 IF routes /\ v = RootVdom /\ rts[s] # Absent /\ rts[s].dest # None
                 THEN ReadRoute(rts[s]) ELSE Absent
           /\ DOMAIN ReadFgt(v, routes) = Elements
BY Kinds DEF ReadFgt

\* What the adapter of Nautobot loads.
LEMMA ReadOrmIs ==
    ASSUME NEW v, NEW routes
    PROVE  /\ ReadOrm(v, routes)[Host] = IF anchor THEN scope ELSE Absent
           /\ \A i \in Ifaces : ReadOrm(v, routes)[i] =
                 IF ~anchor \/ rowIf[i] = Absent THEN Absent ELSE ReadRow(rowIf[i])
           /\ \A s \in Seqs : ReadOrm(v, routes)[s] =
                 IF ~anchor \/ ~routes THEN Absent ELSE rowRt[v][s]
           /\ DOMAIN ReadOrm(v, routes) = Elements
BY Kinds DEF ReadOrm

LEMMA JobIs ==
    ASSUME TypeOK
    PROVE  /\ job.phase \in Idle \cup Running /\ job.form \in Forms
           /\ job = [phase |-> job.phase, form |-> job.form]
           /\ job.form.kind \in {"pull", "push"} /\ job.form.vdom \in Vdoms
           /\ job.form.kind = "pull" => job.form.scope \in Scopes
           /\ job.form.delete \in BOOLEAN /\ job.form.routes \in BOOLEAN
BY DEF TypeOK, Forms

LEMMA ReadFgtTyped ==
    ASSUME TypeOK, NEW v \in Vdoms, NEW routes \in BOOLEAN
    PROVE  Store(ReadFgt(v, routes))
<1>a. GivenScope \in Scopes
  BY JobIs DEF GivenScope, TypeOK
<1>1. ASSUME NEW i \in Ifaces PROVE ReadFgt(v, routes)[i] \in Interface \cup {Absent}
  <2>1. CASE Readable(v, i)
    <3>1. ifs[i] \in DeviceInterface /\ ifs[i].type # "tunnel"
      BY <2>1 DEF Readable, TypeOK
    <3>2. ReadInterface(ifs[i]) \in Interface
      BY <3>1, ReadInterfaceIs
    <3> QED
      BY <2>1, <3>2, ReadFgtIs
  <2>2. CASE ~Readable(v, i)
    BY <2>2, ReadFgtIs
  <2> QED
    BY <2>1, <2>2
<1>2. ASSUME NEW s \in Seqs PROVE ReadFgt(v, routes)[s] \in Route \cup {Absent}
  <2>1. CASE routes /\ v = RootVdom /\ rts[s] # Absent /\ rts[s].dest # None
    <3>1. rts[s] \in DeviceRoute
      BY <2>1 DEF TypeOK
    <3>2. ReadRoute(rts[s]) \in Route
      BY <2>1, <3>1, ReadRouteIs
    <3> QED
      BY <2>1, <3>2, ReadFgtIs
  <2>2. CASE ~(routes /\ v = RootVdom /\ rts[s] # Absent /\ rts[s].dest # None)
    BY <2>2, ReadFgtIs
  <2> QED
    BY <2>1, <2>2
<1> QED
  BY <1>a, <1>1, <1>2, ReadFgtIs DEF Store

\* The addresses of a row read back.
LEMMA RowReads ==
    ASSUME TypeOK, RowsAreWhole, NEW i \in Ifaces, rowIf[i] # Absent
    PROVE  /\ RowCidrs(rowIf[i]) \in Addresses
           /\ HostsOf(RowCidrs(rowIf[i])) = rowIf[i].hosts
<1>1. rowIf[i] \in RowInterface
  BY DEF TypeOK
<1>2. rowIf[i].hosts \in SUBSET Hosts
  BY <1>1 DEF RowInterface
<1>3. \A h \in rowIf[i].hosts : ipam[h] \in Masks
  BY <1>2 DEF RowsAreWhole, TypeOK
<1> QED
  BY <1>2, <1>3, RowCidrsAre

LEMMA ReadOrmTyped ==
    ASSUME TypeOK, RowsAreWhole, NEW v \in Vdoms, NEW routes \in BOOLEAN
    PROVE  Store(ReadOrm(v, routes))
<1>1. ASSUME NEW i \in Ifaces PROVE ReadOrm(v, routes)[i] \in Interface \cup {Absent}
  <2>1. CASE ~anchor \/ rowIf[i] = Absent
    BY <2>1, ReadOrmIs
  <2>2. CASE anchor /\ rowIf[i] # Absent
    <3>1. rowIf[i] \in RowInterface
      BY <2>2 DEF TypeOK
    <3>2. RowCidrs(rowIf[i]) \in Addresses
      BY <2>2, RowReads
    <3>3. ReadRow(rowIf[i]) \in Interface
      BY <3>1, <3>2 DEF RowInterface, Interface, ReadRow, Modes
    <3> QED
      BY <2>2, <3>3, ReadOrmIs
  <2> QED
    BY <2>1, <2>2
<1>2. ASSUME NEW s \in Seqs PROVE ReadOrm(v, routes)[s] \in Route \cup {Absent}
  BY ReadOrmIs DEF TypeOK
<1> QED
  BY <1>1, <1>2, ReadOrmIs DEF Store, TypeOK

----------------------------------------------------------------------------
(* What a write does to the rows.                                          *)

World ==
    /\ ifs \in [Ifaces -> DeviceInterface \cup {Absent}]
    /\ rts \in [Seqs -> DeviceRoute \cup {Absent}]
    /\ anchor \in BOOLEAN /\ scope \in Scopes
    /\ rowIf \in [Ifaces -> RowInterface \cup {Absent}]
    /\ rowRt \in [Vdoms -> [Seqs -> Route \cup {Absent}]]
    /\ ipam \in [Hosts -> Masks \cup {Absent}]

LEMMA TypedWorld == TypeOK => World
BY DEF TypeOK, World

LEMMA RowInterfaceIs ==
    ASSUME NEW r \in RowInterface
    PROVE  /\ r.type \in {"port", "virtual"} /\ r.parent \in Names
           /\ r.vlan \in VlanIds \cup {None} /\ r.text \in Text /\ r.hosts \in SUBSET Hosts
           /\ r.mode \in Modes /\ r # Absent
BY RecordsAreSomething DEF RowInterface

LEMMA InterfaceIs ==
    ASSUME NEW r \in Interface
    PROVE  /\ r.type \in {"port", "virtual"} /\ r.parent \in Names
           /\ r.vlan \in VlanIds \cup {None} /\ r.text \in Text /\ r.ips \in Addresses
           /\ r.mode \in Modes /\ r # Absent
BY RecordsAreSomething DEF Interface

LEMMA RouteIs ==
    ASSUME NEW r \in Route
    PROVE  /\ r.dest \in Dests /\ r.gateway \in {Gateway, None} /\ r.via \in Names
           /\ r.blackhole \in BOOLEAN /\ r.text \in Text /\ r # Absent
BY RecordsAreSomething DEF Route

LEMMA PutRowWhole ==
    ASSUME World, RowsAreWhole, anchor, NEW i \in Ifaces, NEW row \in RowInterface,
           row.parent = None \/ rowIf[row.parent] # Absent,
           rowIf' = [rowIf EXCEPT ![i] = row],
           ipam' \in [Hosts -> Masks \cup {Absent}],
           \A h \in Hosts : ipam[h] # Absent => ipam'[h] # Absent,
           \A h \in row.hosts : ipam'[h] # Absent,
           UNCHANGED <<deviceVars, anchor, scope, rowRt>>
    PROVE  World' /\ RowsAreWhole'
<1>1. /\ rowIf' \in [Ifaces -> RowInterface \cup {Absent}]
      /\ \A k \in Ifaces : rowIf'[k] = IF k = i THEN row ELSE rowIf[k]
  BY DEF World
<1>2. World'
  BY <1>1 DEF World, deviceVars
<1>3. row # Absent /\ row.parent \in Names
  BY RowInterfaceIs
<1>4. \A k \in Names : k # None /\ rowIf[k] # Absent => rowIf'[k] # Absent
  BY <1>1, <1>3 DEF Names
<1>5. ASSUME NEW k \in Ifaces, rowIf'[k] # Absent
      PROVE  /\ anchor'
             /\ rowIf'[k].parent # None => rowIf'[rowIf'[k].parent] # Absent
             /\ \A h \in rowIf'[k].hosts : ipam'[h] # Absent
  <2>1. CASE k = i
    BY <1>1, <1>3, <1>4, <2>1
  <2>2. CASE k # i
    <3>1. rowIf'[k] = rowIf[k] /\ rowIf[k] \in RowInterface
      BY <1>1, <1>5, <2>2 DEF World
    <3>2. rowIf[k].parent \in Names /\ rowIf[k].hosts \in SUBSET Hosts
      BY <3>1, RowInterfaceIs
    <3>3. /\ rowIf[k].parent # None => rowIf[rowIf[k].parent] # Absent
          /\ \A h \in rowIf[k].hosts : ipam[h] # Absent
      BY <1>5, <3>1 DEF RowsAreWhole
    <3> QED
      BY <1>4, <3>1, <3>2, <3>3
  <2> QED
    BY <2>1, <2>2
<1>6. ASSUME NEW v \in Vdoms, NEW s \in Seqs, rowRt'[v][s] # Absent
      PROVE  /\ anchor'
             /\ rowRt'[v][s].via # None => rowIf'[rowRt'[v][s].via] # Absent
  <2>1. rowRt'[v][s] = rowRt[v][s] /\ rowRt[v][s] \in Route
    BY <1>6 DEF World
  <2>2. rowRt[v][s].via \in Names
    BY <2>1, RouteIs
  <2>3. rowRt[v][s].via # None => rowIf[rowRt[v][s].via] # Absent
    BY <1>6, <2>1 DEF RowsAreWhole
  <2> QED
    BY <1>4, <2>1, <2>2, <2>3
<1> QED
  BY <1>2, <1>5, <1>6 DEF RowsAreWhole

LEMMA PutRouteRowWhole ==
    ASSUME World, RowsAreWhole, NEW v \in Vdoms, NEW s \in Seqs, NEW row \in Route \cup {Absent},
           row # Absent => anchor /\ (row.via # None => rowIf[row.via] # Absent),
           rowRt' = [rowRt EXCEPT ![v][s] = row],
           UNCHANGED <<deviceVars, anchor, scope, rowIf, ipam>>
    PROVE  /\ World' /\ RowsAreWhole'
           /\ \A w \in Vdoms, t \in Seqs : rowRt'[w][t] = IF w = v /\ t = s THEN row ELSE rowRt[w][t]
<1>1. /\ rowRt' \in [Vdoms -> [Seqs -> Route \cup {Absent}]]
      /\ \A w \in Vdoms, t \in Seqs : rowRt'[w][t] = IF w = v /\ t = s THEN row ELSE rowRt[w][t]
  BY DEF World
<1>2. World'
  BY <1>1 DEF World, deviceVars
<1>3. RowsAreWhole'
  BY <1>1 DEF RowsAreWhole
<1> QED
  BY <1>1, <1>2, <1>3

\* What goes with a row: rows whose parent goes, and no others.
LEMMA RemoveRowIs ==
    ASSUME World, RowsAreWhole, NEW i \in Ifaces, RemoveRow(i)
    PROVE  /\ rowIf' \in [Ifaces -> RowInterface \cup {Absent}]
           /\ rowRt' \in [Vdoms -> [Seqs -> Route \cup {Absent}]]
           /\ rowIf'[i] = Absent
           /\ \A k \in Ifaces :
                 /\ rowIf[k] = Absent => rowIf'[k] = Absent
                 /\ k # i /\ rowIf[k] # Absent /\ rowIf'[k] = Absent =>
                       rowIf[k].parent \in Ifaces /\ rowIf'[rowIf[k].parent] = Absent
                 /\ rowIf'[k] # Absent =>
                       /\ rowIf'[k].type = rowIf[k].type /\ rowIf'[k].vlan = rowIf[k].vlan
                       /\ rowIf'[k].text = rowIf[k].text /\ rowIf'[k].hosts = rowIf[k].hosts
                       /\ rowIf'[k].mode = rowIf[k].mode
                       /\ \/ rowIf'[k].parent = rowIf[k].parent
                          \/ /\ rowIf'[k].parent = None /\ rowIf[k].parent \in Ifaces
                             /\ rowIf'[rowIf[k].parent] = Absent
                       /\ rowIf'[k].parent # None => rowIf'[rowIf'[k].parent] # Absent
           /\ \A v \in Vdoms, s \in Seqs :
                 /\ rowRt[v][s] = Absent <=> rowRt'[v][s] = Absent
                 /\ \/ rowRt'[v][s] = rowRt[v][s]
                    \/ /\ rowRt'[v][s] = [rowRt[v][s] EXCEPT !.via = None]
                       /\ rowRt[v][s].via \in Ifaces /\ rowIf'[rowRt[v][s].via] = Absent
                 /\ rowRt'[v][s] # Absent /\ rowRt'[v][s].via # None => rowIf'[rowRt'[v][s].via] # Absent
<1>1. PICK gone \in {{i}, Family(i)} :
        rowIf' = [k \in Ifaces |->
              IF k \in gone \/ rowIf[k] = Absent THEN Absent
              ELSE IF rowIf[k].parent \in gone THEN [rowIf[k] EXCEPT !.parent = None]
              ELSE rowIf[k]]
  BY DEF RemoveRow
<1>2. /\ gone \subseteq Ifaces /\ i \in gone
      /\ \A k \in gone \ {i} : rowIf[k] # Absent /\ rowIf[k].parent \in gone
  BY FamilyIs
<1>3. \A k \in gone : rowIf'[k] = Absent
  BY <1>1, <1>2
<1>4. ASSUME NEW k \in Ifaces, k \notin gone, rowIf[k] # Absent
      PROVE  /\ rowIf'[k] \in RowInterface
             /\ rowIf'[k].type = rowIf[k].type /\ rowIf'[k].vlan = rowIf[k].vlan
             /\ rowIf'[k].text = rowIf[k].text /\ rowIf'[k].hosts = rowIf[k].hosts
             /\ rowIf'[k].mode = rowIf[k].mode
             /\ rowIf[k].parent \in gone => rowIf'[k].parent = None
             /\ rowIf[k].parent \notin gone => rowIf'[k].parent = rowIf[k].parent
  <2>1. PICK row \in RowInterface : row = rowIf[k]
    BY <1>4 DEF World
  <2>2. rowIf'[k] = IF row.parent \in gone THEN [row EXCEPT !.parent = None] ELSE row
    BY <1>1, <1>4, <2>1
  <2>3. /\ [row EXCEPT !.parent = None] \in RowInterface
        /\ [row EXCEPT !.parent = None].parent = None
        /\ [row EXCEPT !.parent = None].type = row.type
        /\ [row EXCEPT !.parent = None].vlan = row.vlan
        /\ [row EXCEPT !.parent = None].text = row.text
        /\ [row EXCEPT !.parent = None].hosts = row.hosts
        /\ [row EXCEPT !.parent = None].mode = row.mode
    BY DEF RowInterface, Names
  <2> QED
    BY <2>1, <2>2, <2>3
<1>5. ASSUME NEW k \in Ifaces, rowIf[k] = Absent PROVE rowIf'[k] = Absent
  BY <1>1, <1>5
<1>6. rowIf' \in [Ifaces -> RowInterface \cup {Absent}]
  <2>1. \A k \in Ifaces : rowIf'[k] \in RowInterface \cup {Absent}
    BY <1>3, <1>4, <1>5
  <2>2. rowIf' = [k \in Ifaces |-> rowIf'[k]]
    BY <1>1
  <2> QED
    BY <2>1, <2>2
<1>7. \A k \in Ifaces : rowIf'[k] = Absent <=> k \in gone \/ rowIf[k] = Absent
  BY <1>3, <1>4, <1>5, RowInterfaceIs
<1>8. ASSUME NEW k \in Ifaces, rowIf'[k] # Absent
      PROVE  /\ rowIf'[k].type = rowIf[k].type /\ rowIf'[k].vlan = rowIf[k].vlan
             /\ rowIf'[k].text = rowIf[k].text /\ rowIf'[k].hosts = rowIf[k].hosts
             /\ rowIf'[k].mode = rowIf[k].mode
             /\ \/ rowIf'[k].parent = rowIf[k].parent
                \/ /\ rowIf'[k].parent = None /\ rowIf[k].parent \in Ifaces
                   /\ rowIf'[rowIf[k].parent] = Absent
             /\ rowIf'[k].parent # None => rowIf'[rowIf'[k].parent] # Absent
  <2>1. k \notin gone /\ rowIf[k] # Absent
    BY <1>7, <1>8
  <2>2. rowIf[k].parent \in Names
    BY <2>1, RowInterfaceIs DEF World
  <2>3. CASE rowIf[k].parent \in gone
    BY <1>2, <1>3, <1>4, <2>1, <2>3
  <2>4. CASE rowIf[k].parent \notin gone
    <3>1. rowIf[k].parent # None => rowIf[rowIf[k].parent] # Absent
      BY <2>1 DEF RowsAreWhole
    <3>2. rowIf'[k].parent = rowIf[k].parent
      BY <1>4, <2>1, <2>4
    <3>3. rowIf[k].parent # None => rowIf'[rowIf[k].parent] # Absent
      BY <1>7, <2>2, <2>4, <3>1 DEF Names
    <3> QED
      BY <1>4, <2>1, <3>2, <3>3
  <2> QED
    BY <2>3, <2>4
<1>9. ASSUME NEW v \in Vdoms, NEW s \in Seqs
      PROVE  /\ rowRt'[v][s] \in Route \cup {Absent}
             /\ rowRt[v][s] = Absent <=> rowRt'[v][s] = Absent
             /\ \/ rowRt'[v][s] = rowRt[v][s]
                \/ /\ rowRt'[v][s] = [rowRt[v][s] EXCEPT !.via = None]
                   /\ rowRt[v][s].via \in Ifaces /\ rowIf'[rowRt[v][s].via] = Absent
             /\ rowRt'[v][s] # Absent /\ rowRt'[v][s].via # None => rowIf'[rowRt'[v][s].via] # Absent
  <2>1. PICK row \in Route \cup {Absent} : row = rowRt[v][s]
    BY DEF World
  <2>2. rowRt'[v][s] = IF row = Absent THEN Absent
                       ELSE IF row.via \in Ifaces /\ rowIf'[row.via] = Absent
                            THEN [row EXCEPT !.via = None] ELSE row
    BY <2>1 DEF RemoveRow
  <2>3. CASE row = Absent
    BY <2>1, <2>2, <2>3
  <2>4. CASE row # Absent
    <3>1. row \in Route /\ row.via \in Names
      BY <2>1, <2>4, RouteIs
    <3>2. /\ [row EXCEPT !.via = None] \in Route
          /\ [row EXCEPT !.via = None].via = None
      BY <3>1 DEF Route, Names
    <3>3. [row EXCEPT !.via = None] # Absent
      BY <3>2, RouteIs
    <3>4. row.via # None => row.via \in Ifaces
      BY <3>1 DEF Names
    <3> QED
      BY <2>1, <2>2, <2>4, <3>1, <3>2, <3>3, <3>4
  <2> QED
    BY <2>3, <2>4
<1>10. rowRt' \in [Vdoms -> [Seqs -> Route \cup {Absent}]]
  <2>1. rowRt' = [v \in Vdoms |-> [s \in Seqs |-> rowRt'[v][s]]]
    BY DEF RemoveRow
  <2> QED
    BY <1>9, <2>1
<1>11. ASSUME NEW k \in Ifaces, k # i, rowIf[k] # Absent, rowIf'[k] = Absent
       PROVE  rowIf[k].parent \in Ifaces /\ rowIf'[rowIf[k].parent] = Absent
  BY <1>2, <1>3, <1>7, <1>11
<1>12. rowIf'[i] = Absent
  BY <1>2, <1>3
<1> QED
  BY <1>5, <1>6, <1>8, <1>9, <1>10, <1>11, <1>12

LEMMA RemoveRowWhole ==
    ASSUME World, RowsAreWhole, NEW i \in Ifaces, RemoveRow(i),
           UNCHANGED <<deviceVars, anchor, scope, ipam>>
    PROVE  World' /\ RowsAreWhole'
<1>1. World'
  BY RemoveRowIs DEF World, deviceVars
<1>2. ASSUME NEW k \in Ifaces, rowIf'[k] # Absent
      PROVE  /\ anchor'
             /\ rowIf'[k].parent # None => rowIf'[rowIf'[k].parent] # Absent
             /\ \A h \in rowIf'[k].hosts : ipam'[h] # Absent
  <2>1. rowIf[k] # Absent /\ rowIf'[k].hosts = rowIf[k].hosts
    BY <1>2, RemoveRowIs
  <2> QED
    BY <1>2, <2>1, RemoveRowIs DEF RowsAreWhole
<1>3. ASSUME NEW v \in Vdoms, NEW s \in Seqs, rowRt'[v][s] # Absent
      PROVE  /\ anchor'
             /\ rowRt'[v][s].via # None => rowIf'[rowRt'[v][s].via] # Absent
  <2>1. /\ rowRt[v][s] # Absent
        /\ rowRt'[v][s].via # None => rowIf'[rowRt'[v][s].via] # Absent
    BY <1>3, RemoveRowIs
  <2>2. anchor'
    BY <2>1 DEF RowsAreWhole
  <2> QED
    BY <2>1, <2>2
<1> QED
  BY <1>1, <1>2, <1>3 DEF RowsAreWhole

----------------------------------------------------------------------------
(* Turns, and what is planned.                                             *)

LEMMA KindIs ==
    /\ Kind(Host) = 1
    /\ \A i \in Ifaces : Kind(i) = 2
    /\ \A s \in Seqs : Kind(s) = 3
BY Kinds DEF Kind

LEMMA TodoIs ==
    ASSUME TypeOK
    PROVE  /\ todo = [write |-> todo.write, delete |-> todo.delete]
           /\ todo.write \subseteq Elements /\ todo.delete \subseteq Elements
           /\ NoWork.write = {} /\ NoWork.delete = {}
BY DEF TypeOK, NoWork

LEMMA TurnIs ==
    ASSUME NEW kind, NEW op \in {"write", "delete"}, NEW n, Turn(kind, op, n)
    PROVE  /\ job.phase = "syncing" /\ job.form.kind = kind
           /\ op = "write" => n \in todo.write
           /\ op = "delete" => n \in todo.delete
           /\ \A m \in Left : Kind(m) >= Kind(n)
           /\ op = "delete" => \A m \in todo.write : Kind(m) # Kind(n)
BY DEF Turn, Left

\* At the turn of an interface the Device row is done, at that of a route all
\* interfaces are; a deletion comes after the writes of its kind.
LEMMA TurnsInOrder ==
    ASSUME NEW kind, NEW op \in {"write", "delete"}, NEW n, Turn(kind, op, n)
    PROVE  /\ n \in Ifaces \cup Seqs => Host \notin todo.write
           /\ n \in Ifaces /\ op = "delete" => todo.write \cap Ifaces = {}
           /\ n \in Seqs => Left \cap Ifaces = {} /\ todo.write \cap Ifaces = {}
<1>1. \A m \in Left : Kind(m) >= Kind(n)
  BY TurnIs
<1>2. n \in Ifaces \cup Seqs => Host \notin todo.write
  BY <1>1, KindIs DEF Left
<1>3. n \in Seqs => Left \cap Ifaces = {}
  BY <1>1, KindIs
<1>4. n \in Ifaces /\ op = "delete" => todo.write \cap Ifaces = {}
  BY TurnIs, KindIs
<1> QED
  BY <1>2, <1>3, <1>4 DEF Left

LEMMA AppliedIs ==
    ASSUME TypeOK, NEW n, Applied(n)
    PROVE  /\ UNCHANGED <<job, src, dst, touched, edits, runs>>
           /\ todo'.write = todo.write \ {n} /\ todo'.delete = todo.delete \ {n}
           /\ Left' = Left \ {n}
           /\ todo' \in [write : SUBSET Elements, delete : SUBSET Elements]
<1>1. UNCHANGED <<job, src, dst, touched, edits, runs>>
  BY DEF Applied
<1>2. todo' = [write |-> todo.write \ {n}, delete |-> todo.delete \ {n}]
  BY DEF Applied
<1>3. todo'.write = todo.write \ {n} /\ todo'.delete = todo.delete \ {n}
  BY <1>2
<1> QED
  BY <1>1, <1>2, <1>3, TodoIs DEF Left

LEMMA AdvanceIs ==
    ASSUME TypeOK, NEW p \in Idle \cup Running, Advance(p)
    PROVE  /\ job'.phase = p /\ job'.form = job.form
           /\ job' \in [phase : Idle \cup Running, form : Forms]
BY JobIs DEF Advance, TypeOK

LEMMA Planned ==
    ASSUME TypeOK, PlanFollowsDiff
    PROVE  /\ \A n \in todo.write : src[n] # Absent /\ src[n] # dst[n]
           /\ \A n \in todo.delete : src[n] = Absent /\ dst[n] # Absent
           /\ \A i \in Ifaces : src[i] # Absent => src[i] \in Interface
           /\ \A i \in Ifaces : dst[i] # Absent => dst[i] \in Interface
           /\ \A s \in Seqs : src[s] # Absent => src[s] \in Route /\ job.form.routes
           /\ \A s \in Seqs : dst[s] # Absent => dst[s] \in Route /\ job.form.routes
           /\ src[Host] \in Scopes \cup {Absent} /\ dst[Host] \in Scopes \cup {Absent}
<1>1. \A n \in todo.write : src[n] # Absent /\ src[n] # dst[n]
  BY DEF PlanFollowsDiff, Writes
<1>2. \A n \in todo.delete : src[n] = Absent /\ dst[n] # Absent
  BY DEF PlanFollowsDiff, Deletes
<1>3. \A s \in Seqs : (src[s] # Absent \/ dst[s] # Absent) => job.form.routes
  BY DEF PlanFollowsDiff
<1> QED
  BY <1>1, <1>2, <1>3 DEF TypeOK, Store

LEMMA AppliedPlan ==
    ASSUME TypeOK, PlanFollowsDiff, job.phase = "syncing", NEW n, Applied(n)
    PROVE  PlanFollowsDiff'
<1>1. job' = job /\ src' = src /\ dst' = dst
  BY AppliedIs
<1>2. todo'.write \subseteq todo.write /\ todo'.delete \subseteq todo.delete
  BY AppliedIs
<1>3. Writes(src, dst)' = Writes(src, dst) /\ Deletes(src, dst)' = Deletes(src, dst)
  BY <1>1 DEF Writes, Deletes
<1> QED
  BY <1>1, <1>2, <1>3 DEF PlanFollowsDiff

\* A step of a job that changes the world and crosses an element off.
LEMMA AppliedTyped ==
    ASSUME TypeOK, NEW n, Applied(n), World'
    PROVE  TypeOK'
<1>1. /\ UNCHANGED <<job, src, dst, touched, edits, runs>>
      /\ todo' \in [write : SUBSET Elements, delete : SUBSET Elements]
  BY AppliedIs
<1>2. Store(src)' /\ Store(dst)'
  BY <1>1 DEF TypeOK, Store
<1> QED
  BY <1>1, <1>2 DEF TypeOK, World

----------------------------------------------------------------------------
(* Pulling an interface.                                                   *)

LEMMA ApplyVlanAttrsIs ==
    ASSUME NEW row \in RowInterface, NEW r \in Interface
    PROVE  LET new == ApplyVlanAttrs(row, r) IN
           /\ new \in RowInterface
           /\ new.type = row.type /\ new.text = row.text /\ new.hosts = row.hosts
           /\ new.parent = IF r.parent # None /\ rowIf[r.parent] # Absent THEN r.parent
                           ELSE row.parent
           /\ new.vlan = IF r.vlan # None THEN r.vlan ELSE row.vlan
           /\ r.vlan # None /\ r.mode = "tagged" => new.mode = "tagged"
           /\ r.vlan = None => new.mode = row.mode
BY RowInterfaceIs, InterfaceIs DEF ApplyVlanAttrs, RowInterface, Modes

LEMMA ImportIpsIs ==
    ASSUME World, NEW ips \in Addresses, ImportIps(ips)
    PROVE  /\ ipam' \in [Hosts -> Masks \cup {Absent}]
           /\ \A h \in Hosts : ipam[h] # Absent => ipam'[h] = ipam[h]
           /\ \A h \in HostsOf(ips) : ipam'[h] # Absent
           /\ HostsOf(ips) \subseteq Hosts
<1>1. HostsOf(ips) \subseteq Hosts
  BY AddressesAre
<1>2. ASSUME NEW h \in HostsOf(ips)
      PROVE  ips[CHOOSE k \in DOMAIN ips : ips[k][1] = h][2] \in Masks
  <2>1. \E k \in DOMAIN ips : ips[k][1] = h
    BY <1>2 DEF HostsOf
  <2>2. PICK k : k = CHOOSE n \in DOMAIN ips : ips[n][1] = h
    OBVIOUS
  <2>3. k \in DOMAIN ips
    BY <2>1, <2>2
  <2>4. ips[k][2] \in Masks
    BY <2>3, AddressesAre
  <2> QED
    BY <2>2, <2>4
<1>3. ASSUME NEW h \in Hosts
      PROVE  /\ ipam'[h] \in Masks \cup {Absent}
             /\ ipam[h] # Absent => ipam'[h] = ipam[h]
             /\ h \in HostsOf(ips) => ipam'[h] # Absent
  <2>1. ipam'[h] = IF h \in HostsOf(ips) /\ ipam[h] = Absent
                   THEN ips[CHOOSE k \in DOMAIN ips : ips[k][1] = h][2] ELSE ipam[h]
    BY DEF ImportIps
  <2>2. ipam[h] \in Masks \cup {Absent}
    BY DEF World
  <2>3. Absent \notin Masks
    BY RecordsAreSomething
  <2> QED
    BY <1>2, <2>1, <2>2, <2>3
<1>4. ipam' = [h \in Hosts |-> ipam'[h]]
  BY DEF ImportIps
<1>5. ipam' \in [Hosts -> Masks \cup {Absent}]
  BY <1>3, <1>4
<1> QED
  BY <1>1, <1>3, <1>5

\* What create() and update() make of a row.
LEMMA InterfaceWritten ==
    ASSUME TypeOK, RowsAreWhole, PlanFollowsDiff, NEW i \in Ifaces,
           PullInterfaceCreate(i) \/ PullInterfaceUpdate(i)
    PROVE  /\ Turn("pull", "write", i) /\ Applied(i)
           /\ UNCHANGED <<deviceVars, anchor, scope, rowRt>>
           /\ \/ /\ UNCHANGED <<rowIf, ipam>>
                 /\ ~anchor \/ (dst[i] # Absent /\ rowIf[i] = Absent)
              \/ \E row \in RowInterface :
                 /\ anchor /\ rowIf' = [rowIf EXCEPT ![i] = row]
                 /\ row.parent = None \/ rowIf[row.parent] # Absent
                 /\ ipam' \in [Hosts -> Masks \cup {Absent}]
                 /\ \A h \in Hosts : ipam[h] # Absent => ipam'[h] = ipam[h]
                 /\ \A h \in row.hosts : ipam'[h] # Absent
                 /\ \/ /\ dst[i] = Absent
                       /\ row.type = src[i].type /\ row.text = src[i].text
                       /\ row.hosts = HostsOf(src[i].ips)
                       /\ rowIf[i] = Absent =>
                             /\ row.parent = IF src[i].parent # None /\ rowIf[src[i].parent] # Absent
                                             THEN src[i].parent ELSE None
                             /\ row.vlan = src[i].vlan
                             /\ src[i].vlan # None /\ src[i].mode = "tagged" => row.mode = "tagged"
                    \/ /\ dst[i] # Absent /\ rowIf[i] # Absent
                       /\ row.type = IF src[i].type # dst[i].type THEN src[i].type ELSE rowIf[i].type
                       /\ row.text = IF src[i].text # dst[i].text THEN src[i].text ELSE rowIf[i].text
                       /\ row.hosts = IF src[i].ips # dst[i].ips THEN HostsOf(src[i].ips)
                                      ELSE rowIf[i].hosts
                       /\ IF \/ src[i].parent # dst[i].parent \/ src[i].vlan # dst[i].vlan
                             \/ src[i].mode # dst[i].mode
                          THEN /\ row.parent = IF src[i].parent # None /\ rowIf[src[i].parent] # Absent
                                               THEN src[i].parent ELSE rowIf[i].parent
                               /\ row.vlan = IF src[i].vlan # None THEN src[i].vlan ELSE rowIf[i].vlan
                               /\ src[i].vlan # None /\ src[i].mode = "tagged" => row.mode = "tagged"
                          ELSE /\ row.parent = rowIf[i].parent /\ row.vlan = rowIf[i].vlan
                               /\ row.mode = rowIf[i].mode
<1>1. Turn("pull", "write", i) /\ Applied(i)
  BY DEF PullInterfaceCreate, PullInterfaceUpdate
<1>2. i \in todo.write
  BY <1>1, TurnIs
<1>3. PICK new \in Interface : new = src[i]
  BY <1>2, Planned
<1>4. /\ new.type \in {"port", "virtual"} /\ new.parent \in Names
      /\ new.vlan \in VlanIds \cup {None} /\ new.text \in Text /\ new.ips \in Addresses
  BY InterfaceIs
<1>5. World /\ HostsOf(new.ips) \in SUBSET Hosts
  BY <1>4, TypedWorld, AddressesAre
<1>6. CASE PullInterfaceCreate(i)
  <2>1. dst[i] = Absent
    BY <1>6 DEF PullInterfaceCreate
  <2>2. CASE ~anchor /\ Skipped
    BY <1>1, <2>2, <1>6 DEF Skipped, PullInterfaceCreate, deviceVars, rowVars
  <2> DEFINE old == IF rowIf[i] # Absent THEN rowIf[i]
                    ELSE [type |-> new.type, parent |-> None, vlan |-> None, mode |-> None,
                          text |-> new.text, hosts |-> {}]
             vlanned == ApplyVlanAttrs(old, new)
             row == [vlanned EXCEPT !.type = new.type, !.text = new.text, !.hosts = HostsOf(new.ips)]
  <2>3. CASE /\ anchor /\ rowIf' = [rowIf EXCEPT ![i] = row] /\ ImportIps(new.ips)
             /\ UNCHANGED <<deviceVars, anchor, scope, rowRt>>
    <3>1. /\ old \in RowInterface
          /\ old.parent = None \/ rowIf[old.parent] # Absent
          /\ rowIf[i] = Absent => old.parent = None /\ old.vlan = None
      <4>1. CASE rowIf[i] # Absent
        BY <1>5, <4>1 DEF World, RowsAreWhole
      <4>2. CASE rowIf[i] = Absent
        BY <1>4, <4>2 DEF RowInterface, Names, Modes
      <4> QED
        BY <4>1, <4>2
    <3>2. PICK was \in RowInterface : was = old
      BY <3>1
    <3>3. /\ ApplyVlanAttrs(was, new) \in RowInterface
          /\ ApplyVlanAttrs(was, new).parent =
                IF new.parent # None /\ rowIf[new.parent] # Absent THEN new.parent ELSE was.parent
          /\ ApplyVlanAttrs(was, new).vlan =
                IF new.vlan # None THEN new.vlan ELSE was.vlan
          /\ new.vlan # None /\ new.mode = "tagged" => ApplyVlanAttrs(was, new).mode = "tagged"
      BY ApplyVlanAttrsIs
    <3>4. PICK mid \in RowInterface :
             /\ mid = vlanned
             /\ mid.parent = IF new.parent # None /\ rowIf[new.parent] # Absent THEN new.parent
                             ELSE was.parent
             /\ mid.vlan = IF new.vlan # None THEN new.vlan ELSE was.vlan
             /\ new.vlan # None /\ new.mode = "tagged" => mid.mode = "tagged"
      BY <3>2, <3>3
    <3>5. /\ row \in RowInterface
          /\ row.type = new.type /\ row.text = new.text /\ row.hosts = HostsOf(new.ips)
          /\ row.parent = mid.parent /\ row.vlan = mid.vlan /\ row.mode = mid.mode
      <4>1. row = [mid EXCEPT !.type = new.type, !.text = new.text, !.hosts = HostsOf(new.ips)]
        BY <3>4
      <4> HIDE DEF row
      <4> QED
        BY <1>4, <1>5, <4>1 DEF RowInterface
    <3>6. /\ ipam' \in [Hosts -> Masks \cup {Absent}]
          /\ \A h \in Hosts : ipam[h] # Absent => ipam'[h] = ipam[h]
          /\ \A h \in HostsOf(new.ips) : ipam'[h] # Absent
      BY <1>4, <1>5, <2>3, ImportIpsIs
    <3>7. /\ was.parent = None \/ rowIf[was.parent] # Absent
          /\ rowIf[i] = Absent => was.parent = None /\ was.vlan = None
      BY <3>1, <3>2
    <3>8. /\ anchor /\ rowIf' = [rowIf EXCEPT ![i] = row]
          /\ UNCHANGED <<deviceVars, anchor, scope, rowRt>>
      BY <2>3
    <3>9. row.parent = None \/ rowIf[row.parent] # Absent
      BY <3>4, <3>5, <3>7
    <3>10. rowIf[i] = Absent =>
              /\ row.parent = IF new.parent # None /\ rowIf[new.parent] # Absent
                              THEN new.parent ELSE None
              /\ row.vlan = new.vlan
              /\ new.vlan # None /\ new.mode = "tagged" => row.mode = "tagged"
      BY <3>4, <3>5, <3>7
    <3>11. /\ row \in RowInterface
           /\ row.type = src[i].type /\ row.text = src[i].text
           /\ row.hosts = HostsOf(src[i].ips)
           /\ \A h \in row.hosts : ipam'[h] # Absent
      BY <1>3, <3>5, <3>6
    <3> HIDE DEF row, vlanned, old
    <3> QED
      BY <1>1, <1>3, <2>1, <3>6, <3>8, <3>9, <3>10, <3>11
  <2> QED
    BY <1>3, <1>6, <2>2, <2>3 DEF PullInterfaceCreate
<1>7. CASE PullInterfaceUpdate(i)
  <2>1. dst[i] # Absent
    BY <1>7 DEF PullInterfaceUpdate
  <2>2. CASE rowIf[i] = Absent /\ Skipped
    BY <1>1, <2>1, <2>2, <1>7 DEF Skipped, PullInterfaceUpdate, deviceVars, rowVars
  <2>3. PICK was \in Interface : was = dst[i]
    BY <2>1, Planned
  <2> DEFINE vlanned == IF new.parent # was.parent \/ new.vlan # was.vlan \/ new.mode # was.mode
                        THEN ApplyVlanAttrs(rowIf[i], new) ELSE rowIf[i]
             row == [vlanned EXCEPT
                       !.type = IF new.type # was.type THEN new.type ELSE @,
                       !.text = IF new.text # was.text THEN new.text ELSE @,
                       !.hosts = IF new.ips # was.ips THEN HostsOf(new.ips) ELSE @]
  <2>4. CASE /\ rowIf[i] # Absent /\ rowIf' = [rowIf EXCEPT ![i] = row]
             /\ IF new.ips # was.ips THEN ImportIps(new.ips) ELSE UNCHANGED ipam
             /\ UNCHANGED <<deviceVars, anchor, scope, rowRt>>
    <3>1. PICK old \in RowInterface : old = rowIf[i]
      BY <1>5, <2>4 DEF World
    <3>2. /\ anchor /\ (old.parent = None \/ rowIf[old.parent] # Absent)
          /\ \A h \in old.hosts : ipam[h] # Absent
      BY <2>4, <3>1 DEF RowsAreWhole
    <3>3. /\ ApplyVlanAttrs(old, new) \in RowInterface
          /\ ApplyVlanAttrs(old, new).type = old.type
          /\ ApplyVlanAttrs(old, new).text = old.text
          /\ ApplyVlanAttrs(old, new).hosts = old.hosts
          /\ ApplyVlanAttrs(old, new).parent =
                IF new.parent # None /\ rowIf[new.parent] # Absent THEN new.parent ELSE old.parent
          /\ ApplyVlanAttrs(old, new).vlan =
                IF new.vlan # None THEN new.vlan ELSE old.vlan
          /\ new.vlan # None /\ new.mode = "tagged" => ApplyVlanAttrs(old, new).mode = "tagged"
      BY ApplyVlanAttrsIs
    <3>4. PICK mid \in RowInterface :
             /\ mid = vlanned
             /\ mid.type = old.type /\ mid.text = old.text /\ mid.hosts = old.hosts
             /\ IF new.parent # was.parent \/ new.vlan # was.vlan \/ new.mode # was.mode
                THEN /\ mid.parent = IF new.parent # None /\ rowIf[new.parent] # Absent
                                     THEN new.parent ELSE old.parent
                     /\ mid.vlan = IF new.vlan # None THEN new.vlan ELSE old.vlan
                     /\ new.vlan # None /\ new.mode = "tagged" => mid.mode = "tagged"
                ELSE mid.parent = old.parent /\ mid.vlan = old.vlan /\ mid.mode = old.mode
      BY <3>1, <3>3
    <3>5. /\ row \in RowInterface
          /\ row.type = IF new.type # was.type THEN new.type ELSE mid.type
          /\ row.text = IF new.text # was.text THEN new.text ELSE mid.text
          /\ row.hosts = IF new.ips # was.ips THEN HostsOf(new.ips) ELSE mid.hosts
          /\ row.parent = mid.parent /\ row.vlan = mid.vlan /\ row.mode = mid.mode
      <4>1. row = [mid EXCEPT
                       !.type = IF new.type # was.type THEN new.type ELSE mid.type,
                       !.text = IF new.text # was.text THEN new.text ELSE mid.text,
                       !.hosts = IF new.ips # was.ips THEN HostsOf(new.ips) ELSE mid.hosts]
        BY <3>4
      <4> HIDE DEF row
      <4> QED
        BY <1>4, <1>5, <4>1 DEF RowInterface
    <3>6. /\ ipam' \in [Hosts -> Masks \cup {Absent}]
          /\ \A h \in Hosts : ipam[h] # Absent => ipam'[h] = ipam[h]
          /\ new.ips # was.ips => \A h \in HostsOf(new.ips) : ipam'[h] # Absent
      <4>1. CASE new.ips # was.ips
        BY <1>4, <1>5, <2>4, <4>1, ImportIpsIs
      <4>2. CASE new.ips = was.ips
        BY <1>5, <2>4, <4>2 DEF World
      <4> QED
        BY <4>1, <4>2
    <3>7. \A h \in row.hosts : ipam'[h] # Absent
      <4>1. CASE new.ips # was.ips
        BY <3>5, <3>6, <4>1
      <4>2. CASE new.ips = was.ips
        <5>1. row.hosts = old.hosts
          BY <3>4, <3>5, <4>2
        <5>2. old.hosts \in SUBSET Hosts
          BY RowInterfaceIs
        <5>3. \A h \in old.hosts : ipam'[h] = ipam[h]
          BY <3>2, <3>6, <5>2
        <5> QED
          BY <3>2, <5>1, <5>3
      <4> QED
        BY <4>1, <4>2
    <3>8. /\ rowIf[i] # Absent /\ rowIf' = [rowIf EXCEPT ![i] = row]
          /\ UNCHANGED <<deviceVars, anchor, scope, rowRt>>
      BY <2>4
    <3>9. row.parent = None \/ rowIf[row.parent] # Absent
      BY <3>2, <3>4, <3>5
    <3>10. /\ row.type = IF src[i].type # dst[i].type THEN src[i].type ELSE rowIf[i].type
           /\ row.text = IF src[i].text # dst[i].text THEN src[i].text ELSE rowIf[i].text
           /\ row.hosts = IF src[i].ips # dst[i].ips THEN HostsOf(src[i].ips) ELSE rowIf[i].hosts
           /\ IF \/ src[i].parent # dst[i].parent \/ src[i].vlan # dst[i].vlan
                 \/ src[i].mode # dst[i].mode
              THEN /\ row.parent = IF src[i].parent # None /\ rowIf[src[i].parent] # Absent
                                   THEN src[i].parent ELSE rowIf[i].parent
                   /\ row.vlan = IF src[i].vlan # None THEN src[i].vlan ELSE rowIf[i].vlan
                   /\ src[i].vlan # None /\ src[i].mode = "tagged" => row.mode = "tagged"
              ELSE /\ row.parent = rowIf[i].parent /\ row.vlan = rowIf[i].vlan
                   /\ row.mode = rowIf[i].mode
      <4> HIDE DEF row, vlanned
      <4> QED
        BY <1>3, <2>3, <3>1, <3>4, <3>5
    <3>11. row \in RowInterface /\ anchor
      BY <3>2, <3>5
    <3> HIDE DEF row, vlanned
    <3> QED
      BY <1>1, <2>1, <3>6, <3>7, <3>8, <3>9, <3>10, <3>11
  <2> QED
    BY <1>3, <1>7, <2>2, <2>3, <2>4 DEF PullInterfaceUpdate
<1> QED
  BY <1>6, <1>7

----------------------------------------------------------------------------
(* Pulling a route.                                                        *)

LEMMA RouteWritten ==
    ASSUME TypeOK, RowsAreWhole, PlanFollowsDiff, NEW s \in Seqs,
           PullRouteCreate(s) \/ PullRouteUpdate(s)
    PROVE  LET row == rowRt[job.form.vdom][s] IN
           /\ Turn("pull", "write", s) /\ Applied(s)
           /\ UNCHANGED <<deviceVars, anchor, scope, rowIf, ipam>>
           /\ \/ /\ UNCHANGED rowRt
                 /\ ~anchor \/ (dst[s] # Absent /\ row = Absent)
              \/ \E new \in Route :
                 /\ anchor /\ rowRt' = [rowRt EXCEPT ![job.form.vdom][s] = new]
                 /\ new.via # None => rowIf[new.via] # Absent
                 /\ \/ /\ dst[s] = Absent
                       /\ new.dest = src[s].dest /\ new.gateway = src[s].gateway
                       /\ new.blackhole = src[s].blackhole /\ new.text = src[s].text
                       /\ new.via = ResolveInterface(src[s].via)
                    \/ /\ dst[s] # Absent /\ row # Absent
                       /\ new.dest = IF src[s].dest # dst[s].dest THEN src[s].dest ELSE row.dest
                       /\ new.gateway = IF src[s].gateway # dst[s].gateway THEN src[s].gateway
                                        ELSE row.gateway
                       /\ new.blackhole = IF src[s].blackhole # dst[s].blackhole
                                          THEN src[s].blackhole ELSE row.blackhole
                       /\ new.text = IF src[s].text # dst[s].text THEN src[s].text ELSE row.text
                       /\ new.via = IF src[s].via # dst[s].via THEN ResolveInterface(src[s].via)
                                    ELSE row.via
<1>1. Turn("pull", "write", s) /\ Applied(s) /\ UNCHANGED <<deviceVars, anchor, scope, rowIf, ipam>>
  BY DEF PullRouteCreate, PullRouteUpdate
<1>2. s \in todo.write
  BY <1>1, TurnIs
<1>3. PICK r \in Route : r = src[s]
  BY <1>2, Planned
<1>4. PICK v \in Vdoms : v = job.form.vdom
  BY JobIs
<1>5. /\ ResolveInterface(r.via) \in Names
      /\ ResolveInterface(r.via) # None => rowIf[ResolveInterface(r.via)] # Absent
  BY RouteIs DEF ResolveInterface, Names
<1>6. CASE PullRouteCreate(s)
  <2>1. dst[s] = Absent
    BY <1>6 DEF PullRouteCreate
  <2> DEFINE new == [r EXCEPT !.via = ResolveInterface(r.via)]
  <2>2. rowRt' = IF anchor THEN [rowRt EXCEPT ![v][s] = new] ELSE rowRt
    BY <1>3, <1>4, <1>6 DEF PullRouteCreate
  <2>3. /\ new \in Route /\ new.via = ResolveInterface(r.via)
        /\ new.dest = r.dest /\ new.gateway = r.gateway
        /\ new.blackhole = r.blackhole /\ new.text = r.text
    BY <1>5 DEF Route
  <2> HIDE DEF new
  <2>4. CASE anchor
    BY <1>1, <1>3, <1>4, <1>5, <2>1, <2>2, <2>3, <2>4
  <2>5. CASE ~anchor
    BY <1>1, <2>2, <2>5
  <2> QED
    BY <2>4, <2>5
<1>7. CASE PullRouteUpdate(s)
  <2>1. dst[s] # Absent
    BY <1>7 DEF PullRouteUpdate
  <2>2. PICK was \in Route : was = dst[s]
    BY <2>1, Planned
  <2>3. PICK row \in Route \cup {Absent} : row = rowRt[v][s]
    BY <1>4 DEF TypeOK
  <2> DEFINE new == [dest |-> IF r.dest # was.dest THEN r.dest ELSE row.dest,
                     gateway |-> IF r.gateway # was.gateway THEN r.gateway ELSE row.gateway,
                     via |-> IF r.via # was.via THEN ResolveInterface(r.via) ELSE row.via,
                     blackhole |-> IF r.blackhole # was.blackhole THEN r.blackhole ELSE row.blackhole,
                     text |-> IF r.text # was.text THEN r.text ELSE row.text]
  <2>4. rowRt' = IF row = Absent THEN rowRt ELSE [rowRt EXCEPT ![v][s] = new]
    BY <1>3, <1>4, <1>7, <2>2, <2>3 DEF PullRouteUpdate
  <2>5. CASE row = Absent
    BY <1>1, <1>4, <2>1, <2>3, <2>4, <2>5
  <2>6. CASE row # Absent
    <3>1. /\ row \in Route /\ row.dest \in Dests /\ row.gateway \in {Gateway, None}
          /\ row.via \in Names /\ row.blackhole \in BOOLEAN /\ row.text \in Text
      BY <2>6, RouteIs
    <3>2. anchor /\ (row.via # None => rowIf[row.via] # Absent)
      BY <1>4, <2>3, <2>6 DEF RowsAreWhole
    <3>3. new \in Route
      BY <1>5, <3>1, RouteIs DEF Route
    <3>4. new.via # None => rowIf[new.via] # Absent
      BY <1>5, <3>2
    <3>5. /\ new.dest = IF r.dest # was.dest THEN r.dest ELSE row.dest
          /\ new.gateway = IF r.gateway # was.gateway THEN r.gateway ELSE row.gateway
          /\ new.via = IF r.via # was.via THEN ResolveInterface(r.via) ELSE row.via
          /\ new.blackhole = IF r.blackhole # was.blackhole THEN r.blackhole ELSE row.blackhole
          /\ new.text = IF r.text # was.text THEN r.text ELSE row.text
      OBVIOUS
    <3>6. rowRt' = [rowRt EXCEPT ![v][s] = new]
      BY <2>4, <2>6
    <3> HIDE DEF new
    <3> QED
      BY <1>1, <1>3, <1>4, <2>1, <2>2, <2>3, <2>6, <3>2, <3>3, <3>4, <3>5, <3>6
  <2> QED
    BY <2>5, <2>6
<1> QED
  BY <1>6, <1>7

----------------------------------------------------------------------------
(* Pushing.                                                                *)

LEMMA VlanPayloadIs ==
    ASSUME TypeOK, NEW r \in Interface, IsPushableVlan(r), NEW ips \in Addresses
    PROVE  LET p == VlanPayload(r, ips) IN
           /\ p \in DeviceInterface /\ p.type = "virtual" /\ p.vdom = job.form.vdom
           /\ p.parent = r.parent /\ p.vlan = r.vlan /\ p.text = Marked(r.text)
           /\ p.access = "ping"
           /\ r.ips # <<>> => p.ips # <<>> /\ p.ips[1] = r.ips[1]
<1>1. /\ r.parent \in Names /\ r.vlan \in VlanIds \cup {None} /\ r.text \in Text
      /\ r.ips \in Addresses /\ r.parent # None /\ r.vlan # None
  BY InterfaceIs DEF IsPushableVlan
<1>2. Marked(r.text) \in Text
  BY <1>1 DEF Marked, Text
<1>3. PICK n \in Nat : ips \in [1..n -> Cidrs]
  BY DEF Addresses
<1>4. r.ips # <<>> => r.ips[1] \in Cidrs
  BY <1>1, AddressesAre
<1> DEFINE sent == IF r.ips = <<>> THEN ips
                   ELSE IF ips = <<>> THEN <<r.ips[1]>> ELSE [ips EXCEPT ![1] = r.ips[1]]
<1>5. sent \in Addresses /\ (r.ips # <<>> => sent # <<>> /\ sent[1] = r.ips[1])
  <2>1. CASE r.ips = <<>>
    BY <2>1
  <2>2. CASE r.ips # <<>> /\ ips = <<>>
    <3>1. sent = <<r.ips[1]>>
      BY <2>2
    <3>2. <<r.ips[1]>> \in Seq(Cidrs) /\ <<r.ips[1]>> # <<>> /\ <<r.ips[1]>>[1] = r.ips[1]
      BY <1>4, <2>2
    <3> HIDE DEF sent
    <3> QED
      BY <3>1, <3>2 DEF Addresses
  <2>3. CASE r.ips # <<>> /\ ips # <<>>
    <3>1. sent = [ips EXCEPT ![1] = r.ips[1]]
      BY <2>3
    <3>2. 1 \in 1..n
      BY <1>3, <2>3, AddressesAre
    <3>3. sent \in [1..n -> Cidrs] /\ sent[1] = r.ips[1]
      BY <1>3, <1>4, <2>3, <3>1, <3>2
    <3>4. sent # <<>>
      <4> HIDE DEF sent
      <4> QED
        BY <3>2, <3>3
    <3> QED
      BY <3>3, <3>4 DEF Addresses
  <2> QED
    BY <2>1, <2>2, <2>3
<1>6. VlanPayload(r, ips) = [type |-> "virtual", vdom |-> job.form.vdom, parent |-> r.parent,
                             vlan |-> r.vlan, access |-> "ping",
                             text |-> Marked(r.text), ips |-> sent]
  BY DEF VlanPayload
<1>7. job.form.vdom \in Vdoms
  BY JobIs
<1> HIDE DEF sent
<1> QED
  BY <1>1, <1>2, <1>5, <1>6, <1>7 DEF DeviceInterface

LEMMA DevicePut ==
    ASSUME World
    PROVE  /\ \A i \in Ifaces, p \in DeviceInterface \cup {Absent} :
                 PutInterface(i, p) =>
                    /\ ifs' \in [Ifaces -> DeviceInterface \cup {Absent}] /\ rts' = rts
                    /\ \A k \in Ifaces : ifs'[k] = IF k = i THEN p ELSE ifs[k]
           /\ \A s \in Seqs, p \in DeviceRoute \cup {Absent} :
                 PutRoute(s, p) =>
                    /\ rts' \in [Seqs -> DeviceRoute \cup {Absent}] /\ ifs' = ifs
                    /\ \A t \in Seqs : rts'[t] = IF t = s THEN p ELSE rts[t]
BY DEF World, PutInterface, PutRoute

\* What create() and update() send of an interface.
LEMMA InterfacePushed ==
    ASSUME TypeOK, PlanFollowsDiff, NEW i \in Ifaces,
           PushInterfaceCreate(i) \/ PushInterfaceUpdate(i)
    PROVE  /\ Turn("push", "write", i)
           /\ \/ Raised
              \/ /\ Applied(i) /\ Skipped
                 /\ ~IsPushableVlan(src[i]) \/ (dst[i] # Absent /\ dst[i].type # "virtual")
              \/ /\ Applied(i) /\ UNCHANGED rowVars
                 /\ \E p \in DeviceInterface :
                    /\ PutInterface(i, p)
                    /\ ifs[i] = Absent \/ (dst[i] # Absent /\ ifs[i].type = "virtual")
                    /\ p.type = "virtual" /\ p.vdom = job.form.vdom
                    /\ p.parent = src[i].parent /\ p.vlan = src[i].vlan /\ p.access = "ping"
                    /\ p.text = Marked(src[i].text)
                    /\ src[i].ips # <<>> => p.ips # <<>> /\ p.ips[1] = src[i].ips[1]
<1>1. Turn("push", "write", i)
  BY DEF PushInterfaceCreate, PushInterfaceUpdate
<1>2. i \in todo.write
  BY <1>1, TurnIs
<1>3. PICK r \in Interface : r = src[i]
  BY <1>2, Planned
<1>4. <<>> \in Addresses
  BY DEF Addresses
<1>5. CASE PushInterfaceCreate(i)
  <2>1. CASE ~IsPushableVlan(src[i]) /\ Skipped /\ Applied(i)
    BY <1>1, <2>1
  <2>2. CASE IsPushableVlan(r)
    <3>1. PICK p \in DeviceInterface :
            /\ p = VlanPayload(r, <<>>)
            /\ p.type = "virtual" /\ p.vdom = job.form.vdom
            /\ p.parent = r.parent /\ p.vlan = r.vlan /\ p.text = Marked(r.text)
            /\ p.access = "ping"
            /\ r.ips # <<>> => p.ips # <<>> /\ p.ips[1] = r.ips[1]
      BY <1>4, <2>2, VlanPayloadIs
    <3>2. Call(i, ifs[i] = Absent /\ AcceptsVlan(i, p), PutInterface(i, p))
      BY <1>3, <1>5, <2>2, <3>1 DEF PushInterfaceCreate
    <3>3. \/ Raised
          \/ ifs[i] = Absent /\ PutInterface(i, p) /\ UNCHANGED rowVars /\ Applied(i)
      BY <3>2 DEF Call
    <3> QED
      BY <1>1, <1>3, <3>1, <3>3
  <2> QED
    BY <1>3, <1>5, <2>1, <2>2 DEF PushInterfaceCreate
<1>6. CASE PushInterfaceUpdate(i)
  <2>1. dst[i] # Absent
    BY <1>6 DEF PushInterfaceUpdate
  <2>2. PICK was \in Interface : was = dst[i]
    BY <2>1, Planned
  <2>3. PICK merged \in Interface :
          /\ merged = [r EXCEPT !.type = was.type]
          /\ merged.type = was.type /\ merged.parent = r.parent /\ merged.vlan = r.vlan
          /\ merged.text = r.text /\ merged.ips = r.ips
    <3>1. [r EXCEPT !.type = was.type] \in Interface
      BY DEF Interface
    <3> QED
      BY <3>1 DEF Interface
  <2>4. CASE ~IsPushableVlan(merged) /\ Skipped /\ Applied(i)
    BY <1>1, <1>3, <2>1, <2>2, <2>3, <2>4 DEF IsPushableVlan
  <2>5. CASE IsPushableVlan(merged)
    <3>1. PICK ips \in Addresses : ips = IF ifs[i] = Absent THEN <<>> ELSE ifs[i].ips
      BY <1>4, DeviceInterfaceIs DEF TypeOK
    <3>a. LET p == VlanPayload(merged, ips) IN
          /\ p \in DeviceInterface /\ p.type = "virtual" /\ p.vdom = job.form.vdom
          /\ p.parent = merged.parent /\ p.vlan = merged.vlan /\ p.text = Marked(merged.text)
          /\ p.access = "ping"
          /\ merged.ips # <<>> => p.ips # <<>> /\ p.ips[1] = merged.ips[1]
      BY <2>5, VlanPayloadIs
    <3>2. PICK p \in DeviceInterface :
            /\ p = VlanPayload(merged, ips)
            /\ p.type = "virtual" /\ p.vdom = job.form.vdom
            /\ p.parent = r.parent /\ p.vlan = r.vlan /\ p.text = Marked(r.text)
            /\ p.access = "ping"
            /\ r.ips # <<>> => p.ips # <<>> /\ p.ips[1] = r.ips[1]
      BY <2>3, <3>a
    <3>3. Call(i, ifs[i] # Absent /\ ifs[i].type = "virtual" /\ AcceptsVlan(i, p), PutInterface(i, p))
      BY <1>3, <1>6, <2>2, <2>3, <2>5, <3>1, <3>2 DEF PushInterfaceUpdate
    <3>4. \/ Raised
          \/ ifs[i].type = "virtual" /\ PutInterface(i, p) /\ UNCHANGED rowVars /\ Applied(i)
      BY <3>3 DEF Call
    <3> QED
      BY <1>1, <1>3, <2>1, <3>2, <3>4
  <2> QED
    BY <1>3, <1>6, <2>2, <2>3, <2>4, <2>5 DEF PushInterfaceUpdate
<1> QED
  BY <1>5, <1>6

\* delete() asks the whitelist, and FortiOS keeps what is in use.
LEMMA InterfaceUnpushed ==
    ASSUME NEW i \in Ifaces, PushInterfaceDelete(i)
    PROVE  /\ Turn("push", "delete", i)
           /\ \/ Raised
              \/ /\ Applied(i) /\ UNCHANGED rowVars /\ PutInterface(i, Absent)
                 /\ IsPushableVlan(dst[i]) /\ ~InUse(i)
BY DEF PushInterfaceDelete, Call

LEMMA RoutePayloadIs ==
    ASSUME NEW r \in Route, NEW old, old.gateway \in {Gateway, None}, old.via \in Names,
           old.blackhole \in BOOLEAN
    PROVE  LET p == RoutePayload(r, old) IN
           /\ p \in DeviceRoute /\ p.dest = r.dest /\ p.text = Marked(r.text)
           /\ r.gateway # None => p.gateway = r.gateway
           /\ r.via # None => p.via = r.via
           /\ p.blackhole = old.blackhole
<1>1. Marked(r.text) \in Text
  BY RouteIs DEF Marked, Text
<1> QED
  BY <1>1, RouteIs DEF RoutePayload, DeviceRoute

\* What create() and update() send of a route.
LEMMA RoutePushed ==
    ASSUME TypeOK, PlanFollowsDiff, NEW s \in Seqs, PushRouteCreate(s) \/ PushRouteUpdate(s)
    PROVE  /\ Turn("push", "write", s)
           /\ \/ Raised
              \/ Applied(s) /\ Skipped /\ ~IsPushableRoute(s, src[s])
              \/ /\ Applied(s) /\ UNCHANGED rowVars /\ IsPushableRoute(s, src[s])
                 /\ \E p \in DeviceRoute :
                    /\ PutRoute(s, p) /\ AcceptsRoute(p)
                    /\ p.dest = src[s].dest /\ p.text = Marked(src[s].text)
                    /\ src[s].gateway # None => p.gateway = src[s].gateway
                    /\ src[s].via # None => p.via = src[s].via
                    /\ rts[s] # Absent => p.blackhole = rts[s].blackhole
<1>1. Turn("push", "write", s)
  BY DEF PushRouteCreate, PushRouteUpdate
<1>2. s \in todo.write
  BY <1>1, TurnIs
<1>3. PICK r \in Route : r = src[s]
  BY <1>2, Planned
<1>4. /\ NewRoute.gateway \in {Gateway, None} /\ NewRoute.via \in Names
      /\ NewRoute.blackhole \in BOOLEAN
  BY DEF NewRoute, Names
<1>5. ASSUME NEW p, NEW guard, IsPushableRoute(s, src[s]), p \in DeviceRoute,
             p.dest = r.dest, p.text = Marked(r.text),
             r.gateway # None => p.gateway = r.gateway, r.via # None => p.via = r.via,
             rts[s] # Absent => p.blackhole = rts[s].blackhole,
             Call(s, guard /\ AcceptsRoute(p), PutRoute(s, p))
      PROVE  \/ Raised
             \/ /\ Applied(s) /\ UNCHANGED rowVars /\ IsPushableRoute(s, src[s])
                /\ \E q \in DeviceRoute :
                    /\ PutRoute(s, q) /\ AcceptsRoute(q)
                    /\ q.dest = src[s].dest /\ q.text = Marked(src[s].text)
                    /\ src[s].gateway # None => q.gateway = src[s].gateway
                    /\ src[s].via # None => q.via = src[s].via
                    /\ rts[s] # Absent => q.blackhole = rts[s].blackhole
  BY <1>3, <1>5 DEF Call
<1>6. CASE PushRouteCreate(s)
  <2>1. CASE ~IsPushableRoute(s, src[s]) /\ Skipped /\ Applied(s)
    BY <1>1, <2>1
  <2>2. CASE IsPushableRoute(s, src[s])
    <3>1. PICK p \in DeviceRoute :
             /\ p = RoutePayload(r, NewRoute) /\ p.dest = r.dest /\ p.text = Marked(r.text)
             /\ r.gateway # None => p.gateway = r.gateway
             /\ r.via # None => p.via = r.via
      BY <1>4, RoutePayloadIs
    <3>2. Call(s, rts[s] = Absent /\ AcceptsRoute(p), PutRoute(s, p))
      BY <1>3, <1>6, <2>2, <3>1 DEF PushRouteCreate
    <3>3. Raised \/ rts[s] = Absent
      BY <3>2 DEF Call
    <3> QED
      BY <1>1, <1>5, <2>2, <3>1, <3>2, <3>3
  <2> QED
    BY <1>6, <2>1, <2>2 DEF PushRouteCreate
<1>7. CASE PushRouteUpdate(s)
  <2>1. CASE ~IsPushableRoute(s, src[s]) /\ Skipped /\ Applied(s)
    BY <1>1, <2>1
  <2>2. CASE IsPushableRoute(s, src[s])
    <3>1. PICK old : /\ old = IF rts[s] = Absent THEN NewRoute ELSE rts[s]
                     /\ old.gateway \in {Gateway, None} /\ old.via \in Names
                     /\ old.blackhole \in BOOLEAN
      <4>1. CASE rts[s] = Absent
        BY <1>4, <4>1
      <4>2. CASE rts[s] # Absent
        <5>1. rts[s] \in DeviceRoute
          BY <4>2 DEF TypeOK
        <5> QED
          BY <4>2, <5>1 DEF DeviceRoute
      <4> QED
        BY <4>1, <4>2
    <3>2. PICK p \in DeviceRoute :
             /\ p = RoutePayload(r, old) /\ p.dest = r.dest /\ p.text = Marked(r.text)
             /\ r.gateway # None => p.gateway = r.gateway
             /\ r.via # None => p.via = r.via
             /\ p.blackhole = old.blackhole
      BY <3>1, RoutePayloadIs
    <3>3. Call(s, rts[s] # Absent /\ AcceptsRoute(p), PutRoute(s, p))
      BY <1>3, <1>7, <2>2, <3>1, <3>2 DEF PushRouteUpdate
    <3> QED
      BY <1>1, <1>5, <2>2, <3>1, <3>2, <3>3
  <2> QED
    BY <1>7, <2>1, <2>2 DEF PushRouteUpdate
<1> QED
  BY <1>6, <1>7

LEMMA RouteUnpushed ==
    ASSUME NEW s \in Seqs, PushRouteDelete(s)
    PROVE  /\ Turn("push", "delete", s)
           /\ \/ Raised
              \/ /\ Applied(s) /\ UNCHANGED rowVars /\ PutRoute(s, Absent)
                 /\ IsPushableRoute(s, dst[s])
BY DEF PushRouteDelete, Call

----------------------------------------------------------------------------
(* Every step keeps the types, and rows hang on what is there.             *)

LEMMA SameRowsWhole ==
    ASSUME RowsAreWhole, UNCHANGED rowVars
    PROVE  RowsAreWhole'
BY DEF RowsAreWhole, rowVars

LEMMA SameWorld ==
    ASSUME World, UNCHANGED <<deviceVars, rowVars>>
    PROVE  World'
BY DEF World, deviceVars, rowVars

LEMMA PullStep ==
    ASSUME Pull
    PROVE  \/ PullDeviceCreate \/ PullDeviceUpdate
           \/ \E i \in Ifaces : PullInterfaceCreate(i) \/ PullInterfaceUpdate(i)
           \/ \E i \in Ifaces : PullInterfaceDelete(i)
           \/ \E s \in Seqs : PullRouteCreate(s) \/ PullRouteUpdate(s)
           \/ \E s \in Seqs : PullRouteDelete(s)
BY DEF Pull

LEMMA PushStep ==
    ASSUME Push
    PROVE  \/ PushDevice
           \/ \E i \in Ifaces : PushInterfaceCreate(i) \/ PushInterfaceUpdate(i)
           \/ \E i \in Ifaces : PushInterfaceDelete(i)
           \/ \E s \in Seqs : PushRouteCreate(s) \/ PushRouteUpdate(s)
           \/ \E s \in Seqs : PushRouteDelete(s)
BY DEF Push

LEMMA PullDeviceWhole ==
    ASSUME TypeOK, RowsAreWhole, PlanFollowsDiff, PullDeviceCreate \/ PullDeviceUpdate
    PROVE  World' /\ RowsAreWhole'
<1>1. World
  BY TypedWorld
<1>2. CASE PullDeviceCreate
  <2>1. src[Host] \in Scopes
    BY <1>2, TurnIs, Planned DEF PullDeviceCreate
  <2>2. /\ anchor' = TRUE /\ scope' = src[Host]
        /\ UNCHANGED <<deviceVars, rowIf, rowRt, ipam>>
    BY <1>2 DEF PullDeviceCreate
  <2> QED
    BY <1>1, <2>1, <2>2 DEF World, RowsAreWhole, deviceVars
<1>3. CASE PullDeviceUpdate
  BY <1>1, <1>3, SameWorld, SameRowsWhole DEF PullDeviceUpdate, Skipped
<1> QED
  BY <1>2, <1>3

LEMMA InterfaceWrittenWhole ==
    ASSUME TypeOK, RowsAreWhole, PlanFollowsDiff, NEW i \in Ifaces,
           PullInterfaceCreate(i) \/ PullInterfaceUpdate(i)
    PROVE  World' /\ RowsAreWhole'
<1>1. World /\ UNCHANGED <<deviceVars, anchor, scope, rowRt>>
  BY InterfaceWritten, TypedWorld
<1>2. CASE UNCHANGED <<rowIf, ipam>>
  <2>1. UNCHANGED <<deviceVars, rowVars>>
    BY <1>1, <1>2 DEF rowVars
  <2> QED
    BY <1>1, <2>1, SameWorld, SameRowsWhole
<1>3. CASE ~UNCHANGED <<rowIf, ipam>>
  <2>1. PICK row \in RowInterface :
           /\ anchor /\ rowIf' = [rowIf EXCEPT ![i] = row]
           /\ row.parent = None \/ rowIf[row.parent] # Absent
           /\ ipam' \in [Hosts -> Masks \cup {Absent}]
           /\ \A h \in Hosts : ipam[h] # Absent => ipam'[h] = ipam[h]
           /\ \A h \in row.hosts : ipam'[h] # Absent
    BY <1>3, InterfaceWritten
  <2> QED
    BY <1>1, <2>1, PutRowWhole
<1> QED
  BY <1>2, <1>3

LEMMA InterfaceDeletedWhole ==
    ASSUME World, RowsAreWhole, NEW i \in Ifaces, PullInterfaceDelete(i)
    PROVE  World' /\ RowsAreWhole'
<1>1. UNCHANGED <<deviceVars, anchor, scope, ipam>>
  BY DEF PullInterfaceDelete
<1>2. CASE anchor
  BY <1>1, <1>2, RemoveRowWhole DEF PullInterfaceDelete
<1>3. CASE ~anchor
  <2>1. UNCHANGED <<deviceVars, rowVars>>
    BY <1>1, <1>3 DEF PullInterfaceDelete, rowVars
  <2> QED
    BY <2>1, SameWorld, SameRowsWhole
<1> QED
  BY <1>2, <1>3

LEMMA RouteWrittenWhole ==
    ASSUME TypeOK, RowsAreWhole, PlanFollowsDiff, NEW s \in Seqs,
           PullRouteCreate(s) \/ PullRouteUpdate(s)
    PROVE  World' /\ RowsAreWhole'
<1>1. World /\ UNCHANGED <<deviceVars, anchor, scope, rowIf, ipam>> /\ job.form.vdom \in Vdoms
  BY RouteWritten, TypedWorld, JobIs
<1>2. CASE UNCHANGED rowRt
  <2>1. UNCHANGED <<deviceVars, rowVars>>
    BY <1>1, <1>2 DEF rowVars
  <2> QED
    BY <1>1, <2>1, SameWorld, SameRowsWhole
<1>3. CASE ~UNCHANGED rowRt
  <2>1. PICK new \in Route :
           /\ anchor /\ rowRt' = [rowRt EXCEPT ![job.form.vdom][s] = new]
           /\ new.via # None => rowIf[new.via] # Absent
    BY <1>3, RouteWritten
  <2> QED
    BY <1>1, <2>1, PutRouteRowWhole
<1> QED
  BY <1>2, <1>3

LEMMA RouteDeletedWhole ==
    ASSUME TypeOK, RowsAreWhole, NEW s \in Seqs, PullRouteDelete(s)
    PROVE  World' /\ RowsAreWhole'
<1>1. /\ World /\ job.form.vdom \in Vdoms
      /\ rowRt' = [rowRt EXCEPT ![job.form.vdom][s] = Absent]
      /\ UNCHANGED <<deviceVars, anchor, scope, rowIf, ipam>>
  BY TypedWorld, JobIs DEF PullRouteDelete
<1> QED
  BY <1>1, PutRouteRowWhole

LEMMA PulledIsTyped ==
    ASSUME TypeOK, RowsAreWhole, PlanFollowsDiff, Pull
    PROVE  TypeOK' /\ RowsAreWhole' /\ PlanFollowsDiff'
<1>1. World
  BY TypedWorld
<1>2. PICK n : Applied(n) /\ job.phase = "syncing"
  BY PullStep, TurnIs
     DEF PullDeviceCreate, PullDeviceUpdate, PullInterfaceCreate, PullInterfaceUpdate,
         PullInterfaceDelete, PullRouteCreate, PullRouteUpdate, PullRouteDelete
<1>3. World' /\ RowsAreWhole'
  BY <1>1, PullStep, PullDeviceWhole, InterfaceWrittenWhole, InterfaceDeletedWhole,
     RouteWrittenWhole, RouteDeletedWhole
<1> QED
  BY <1>2, <1>3, AppliedTyped, AppliedPlan

\* A step of a job that changes its phase only.
LEMMA AdvanceTyped ==
    ASSUME TypeOK, RowsAreWhole, NEW p \in Idle \cup Running, Advance(p),
           Store(src'), Store(dst'), todo' \in [write : SUBSET Elements, delete : SUBSET Elements],
           UNCHANGED <<deviceVars, rowVars, touched, edits, runs>>
    PROVE  TypeOK' /\ RowsAreWhole'
<1>1. /\ job'.phase = p /\ job'.form = job.form
      /\ job' \in [phase : Idle \cup Running, form : Forms]
  BY AdvanceIs
<1>2. World' /\ RowsAreWhole'
  BY TypedWorld, SameWorld, SameRowsWhole
<1> QED
  BY <1>1, <1>2 DEF TypeOK, World

LEMMA RaisedTyped ==
    ASSUME TypeOK, RowsAreWhole, PlanFollowsDiff, Raised
    PROVE  TypeOK' /\ RowsAreWhole' /\ PlanFollowsDiff'
<1>1. /\ Advance("failed") /\ "failed" \in Idle \cup Running
      /\ UNCHANGED <<deviceVars, rowVars, src, dst, todo, touched, edits, runs>>
  BY DEF Raised, Idle
<1>2. job'.phase = "failed" /\ job'.form = job.form
  BY <1>1, AdvanceIs
<1>3. TypeOK' /\ RowsAreWhole'
  BY <1>1, AdvanceTyped DEF TypeOK
<1>4. PlanFollowsDiff'
  BY <1>1, <1>2 DEF PlanFollowsDiff, Writes, Deletes
<1> QED
  BY <1>3, <1>4

LEMMA PushedIsTyped ==
    ASSUME TypeOK, RowsAreWhole, PlanFollowsDiff, Push
    PROVE  TypeOK' /\ RowsAreWhole' /\ PlanFollowsDiff'
<1>1. World
  BY TypedWorld
<1>2. CASE Raised
  BY <1>2, RaisedTyped
<1>3. CASE ~Raised
  <2>1. PICK n : Applied(n) /\ job.phase = "syncing"
    BY <1>3, PushStep, InterfacePushed, InterfaceUnpushed, RoutePushed, RouteUnpushed, TurnIs
       DEF PushDevice
  <2>2. UNCHANGED rowVars
    BY <1>3, PushStep, InterfacePushed, InterfaceUnpushed, RoutePushed, RouteUnpushed
       DEF PushDevice, Skipped
  <2>3. \/ UNCHANGED deviceVars
        \/ \E i \in Ifaces, p \in DeviceInterface \cup {Absent} : PutInterface(i, p)
        \/ \E s \in Seqs, p \in DeviceRoute \cup {Absent} : PutRoute(s, p)
    BY <1>3, PushStep, InterfacePushed, InterfaceUnpushed, RoutePushed, RouteUnpushed
       DEF PushDevice, Skipped
  <2>4. World'
    <3>1. CASE UNCHANGED deviceVars
      BY <1>1, <2>2, <3>1, SameWorld
    <3>2. CASE ~UNCHANGED deviceVars
      BY <1>1, <2>2, <2>3, <3>2, DevicePut DEF World, rowVars
    <3> QED
      BY <3>1, <3>2
  <2> QED
    BY <2>1, <2>2, <2>4, SameRowsWhole, AppliedTyped, AppliedPlan
<1> QED
  BY <1>2, <1>3

LEMMA EmptyStoreTyped == Store(EmptyStore)
BY Kinds DEF Store, EmptyStore

LEMMA StartTyped ==
    ASSUME TypeOK, RowsAreWhole, Start
    PROVE  TypeOK' /\ RowsAreWhole' /\ PlanFollowsDiff'
<1>1. PICK f \in Forms : job' = [phase |-> "source", form |-> f]
  BY DEF Start
<1>2. /\ src' = EmptyStore /\ dst' = EmptyStore /\ todo' = NoWork /\ touched' = FALSE
      /\ runs' = runs + 1 /\ runs < MaxRuns
      /\ UNCHANGED <<deviceVars, rowVars, edits>>
  BY DEF Start
<1>3. job' \in [phase : Idle \cup Running, form : Forms] /\ job'.phase = "source"
  BY <1>1 DEF Running
<1>4. todo' \in [write : SUBSET Elements, delete : SUBSET Elements]
  BY <1>2 DEF NoWork
<1>5. runs' \in 0..MaxRuns
  BY <1>2, ConstantsAssumption DEF TypeOK
<1>6. Store(src)' /\ Store(dst)'
  BY <1>2, EmptyStoreTyped DEF Store
<1>7. World' /\ RowsAreWhole'
  BY <1>2, TypedWorld, SameWorld, SameRowsWhole
<1>8. TypeOK'
  BY <1>2, <1>3, <1>4, <1>5, <1>6, <1>7 DEF TypeOK, World
<1>9. \A n \in Elements : src'[n] = Absent /\ dst'[n] = Absent
  BY <1>2 DEF EmptyStore
<1>10. PlanFollowsDiff'
  BY <1>2, <1>9, Kinds DEF PlanFollowsDiff, NoWork
<1> QED
  BY <1>7, <1>8, <1>10

\* What an adapter loads is typed, and has no routes unless they are asked for.
LEMMA LoadsAreTyped ==
    ASSUME TypeOK, RowsAreWhole,
           NEW d \in DeviceReads \cup {ReadOrm(job.form.vdom, job.form.routes)}
    PROVE  /\ Store(d)
           /\ ~job.form.routes => \A s \in Seqs : d[s] = Absent
<1>1. job.form.vdom \in Vdoms /\ job.form.routes \in BOOLEAN
  BY JobIs
<1>2. CASE d \in DeviceReads
  <2>1. PICK routes \in {job.form.routes, FALSE} : d = ReadFgt(job.form.vdom, routes)
    BY <1>2 DEF DeviceReads
  <2>2. Store(d)
    BY <1>1, <2>1, ReadFgtTyped
  <2>3. ASSUME ~job.form.routes, NEW s \in Seqs PROVE d[s] = Absent
    BY <2>1, <2>3, ReadFgtIs
  <2> QED
    BY <2>2, <2>3
<1>3. CASE d = ReadOrm(job.form.vdom, job.form.routes)
  <2>1. Store(d)
    BY <1>1, <1>3, ReadOrmTyped
  <2>2. ASSUME ~job.form.routes, NEW s \in Seqs PROVE d[s] = Absent
    BY <1>3, <2>2, ReadOrmIs
  <2> QED
    BY <2>1, <2>2
<1> QED
  BY <1>2, <1>3

\* A load: one adapter is filled, and nothing is planned yet.
LEMMA LoadTyped ==
    ASSUME TypeOK, RowsAreWhole, PlanFollowsDiff, LoadSource \/ LoadTarget
    PROVE  TypeOK' /\ RowsAreWhole' /\ PlanFollowsDiff'
<1> DEFINE loads == DeviceReads \cup {ReadOrm(job.form.vdom, job.form.routes)}
<1>1. /\ job.phase \in {"source", "target"} /\ todo' = todo
      /\ UNCHANGED <<deviceVars, rowVars, touched, edits, runs>>
  BY DEF LoadSource, LoadTarget
<1>2. PICK p \in {"failed", "target", "loaded"} : Advance(p)
  BY DEF LoadSource, LoadTarget
<1>3. src' \in loads \cup {src} /\ dst' \in loads \cup {dst}
  BY DEF LoadSource, LoadTarget
<1>4. p \in Idle \cup Running
  BY DEF Idle, Running
<1>5. /\ Store(src') /\ Store(dst')
      /\ ~job.form.routes => \A s \in Seqs : src'[s] = Absent /\ dst'[s] = Absent
  <2>1. Store(src) /\ Store(dst)
    BY DEF TypeOK
  <2>2. ~job.form.routes => \A s \in Seqs : src[s] = Absent /\ dst[s] = Absent
    BY DEF PlanFollowsDiff
  <2> QED
    BY <1>3, <2>1, <2>2, LoadsAreTyped
<1>6. todo' \in [write : SUBSET Elements, delete : SUBSET Elements]
  BY <1>1 DEF TypeOK
<1>7. TypeOK' /\ RowsAreWhole'
  BY <1>1, <1>2, <1>4, <1>5, <1>6, AdvanceTyped
<1>8. job'.form = job.form
  BY <1>2, <1>4, AdvanceIs
<1>9. todo' = NoWork
  BY <1>1 DEF PlanFollowsDiff
<1>10. PlanFollowsDiff'
  BY <1>5, <1>8, <1>9 DEF PlanFollowsDiff, NoWork
<1> QED
  BY <1>7, <1>10

LEMMA ExecuteSyncTyped ==
    ASSUME TypeOK, RowsAreWhole, PlanFollowsDiff, ExecuteSync
    PROVE  TypeOK' /\ RowsAreWhole' /\ PlanFollowsDiff'
<1>1. /\ Advance("syncing") /\ "syncing" \in Idle \cup Running
      /\ UNCHANGED <<deviceVars, rowVars, src, dst, touched, edits, runs>>
  BY DEF ExecuteSync, Running
<1>2. /\ todo'.write = Writes(src, dst)
      /\ todo'.delete \subseteq Deletes(src, dst)
      /\ todo' = [write |-> todo'.write, delete |-> todo'.delete]
  BY DEF ExecuteSync
<1>3. Writes(src, dst) \subseteq Elements /\ Deletes(src, dst) \subseteq Elements
  BY DEF Writes, Deletes
<1>4. todo' \in [write : SUBSET Elements, delete : SUBSET Elements]
  BY <1>2, <1>3
<1>5. TypeOK' /\ RowsAreWhole'
  BY <1>1, <1>4, AdvanceTyped DEF TypeOK
<1>6. job'.phase = "syncing" /\ job'.form = job.form
  BY <1>1, AdvanceIs
<1>7. Writes(src, dst)' = Writes(src, dst) /\ Deletes(src, dst)' = Deletes(src, dst)
  BY <1>1 DEF Writes, Deletes
<1>8. PlanFollowsDiff'
  BY <1>1, <1>2, <1>6, <1>7 DEF PlanFollowsDiff
<1> QED
  BY <1>5, <1>8

LEMMA EndTyped ==
    ASSUME TypeOK, RowsAreWhole, PlanFollowsDiff, Finish \/ Crash
    PROVE  TypeOK' /\ RowsAreWhole' /\ PlanFollowsDiff'
<1>1. UNCHANGED <<deviceVars, rowVars, src, dst, todo, touched, edits, runs>>
  BY DEF Finish, Crash
<1>2. PICK p \in {"done", "crashed"} : Advance(p) /\ (p = "done" => todo = NoWork)
  BY DEF Finish, Crash
<1>3. p \in Idle \cup Running
  BY DEF Idle
<1>4. TypeOK' /\ RowsAreWhole'
  BY <1>1, <1>2, <1>3, AdvanceTyped DEF TypeOK
<1>5. job'.phase = p /\ job'.form = job.form
  BY <1>2, <1>3, AdvanceIs
<1>6. PlanFollowsDiff'
  BY <1>1, <1>2, <1>5 DEF PlanFollowsDiff, Writes, Deletes
<1> QED
  BY <1>4, <1>6

----------------------------------------------------------------------------
(* Operators.                                                              *)

LEMMA EditedTyped ==
    ASSUME TypeOK, PlanFollowsDiff, Edited, World'
    PROVE  TypeOK' /\ PlanFollowsDiff'
<1>1. UNCHANGED <<job, src, dst, todo, runs>> /\ touched' = TRUE /\ edits' = edits + 1
  BY DEF Edited
<1>2. edits' \in 0..MaxEdits
  BY ConstantsAssumption DEF Edited, TypeOK
<1>3. TypeOK'
  BY <1>1, <1>2 DEF TypeOK, World, Store
<1>4. PlanFollowsDiff'
  BY <1>1 DEF PlanFollowsDiff, Writes, Deletes
<1> QED
  BY <1>3, <1>4

LEMMA RowInterfaceEditWhole ==
    ASSUME World, RowsAreWhole, NEW i \in Ifaces, NEW r \in RowInterface \cup {Absent},
           RowInterfaceEdit(i, r)
    PROVE  World' /\ RowsAreWhole'
<1>1. anchor /\ UNCHANGED <<deviceVars, anchor, scope>>
  BY DEF RowInterfaceEdit
<1>2. CASE r = Absent
  <2>1. RemoveRow(i) /\ UNCHANGED ipam
    BY <1>2 DEF RowInterfaceEdit
  <2> QED
    BY <1>1, <2>1, RemoveRowWhole
<1>3. CASE r # Absent
  <2>1. /\ r.parent # None => rowIf[r.parent] # Absent
        /\ rowIf' = [rowIf EXCEPT ![i] = r]
        /\ ipam' = [h \in Hosts |-> IF h \in r.hosts /\ ipam[h] = Absent
                                    THEN CHOOSE m \in Masks : TRUE ELSE ipam[h]]
        /\ UNCHANGED rowRt
    BY <1>3 DEF RowInterfaceEdit
  <2>2. (CHOOSE m \in Masks : TRUE) \in Masks
    BY ConstantsAssumption
  <2>3. /\ ipam' \in [Hosts -> Masks \cup {Absent}]
        /\ \A h \in Hosts : ipam[h] # Absent => ipam'[h] # Absent
    BY <2>1, <2>2 DEF World
  <2>4. r \in RowInterface /\ r.hosts \subseteq Hosts
    BY <1>3, RowInterfaceIs
  <2>5. (CHOOSE m \in Masks : TRUE) # Absent
    BY <2>2, RecordsAreSomething
  <2>6. \A h \in r.hosts : ipam'[h] # Absent
    BY <2>1, <2>4, <2>5
  <2> QED
    BY <1>1, <2>1, <2>3, <2>4, <2>6, PutRowWhole
<1> QED
  BY <1>2, <1>3

LEMMA OperatorsWhole ==
    ASSUME World, RowsAreWhole, Operators
    PROVE  Edited /\ World' /\ RowsAreWhole'
<1>1. CASE \E e \in DeviceEdits :
             \/ e.name \in Ifaces /\ DeviceInterfaceEdit(e.name, e.record)
             \/ e.name \in Seqs /\ DeviceRouteEdit(e.name, e.record)
  <2>1. \/ \E i \in Ifaces, r \in DeviceInterface \cup {Absent} : DeviceInterfaceEdit(i, r)
        \/ \E s \in Seqs, r \in DeviceRoute \cup {Absent} : DeviceRouteEdit(s, r)
    BY <1>1, WorldsAssumption
  <2>2. /\ Edited /\ UNCHANGED rowVars
        /\ \/ \E i \in Ifaces, r \in DeviceInterface \cup {Absent} : PutInterface(i, r)
           \/ \E s \in Seqs, r \in DeviceRoute \cup {Absent} : PutRoute(s, r)
    BY <2>1 DEF DeviceInterfaceEdit, DeviceRouteEdit
  <2>3. World'
    BY <2>2, DevicePut DEF World, rowVars
  <2> QED
    BY <2>2, <2>3, SameRowsWhole
<1>2. CASE \E e \in RowEdits :
             \/ e.name \in Ifaces /\ RowInterfaceEdit(e.name, e.record)
             \/ e.name \in Seqs /\ \E v \in Vdoms : RowRouteEdit(v, e.name, e.record)
  <2>1. \/ \E i \in Ifaces, r \in RowInterface \cup {Absent} : RowInterfaceEdit(i, r)
        \/ \E v \in Vdoms, s \in Seqs, r \in Route \cup {Absent} : RowRouteEdit(v, s, r)
    BY <1>2, WorldsAssumption
  <2>2. CASE \E i \in Ifaces, r \in RowInterface \cup {Absent} : RowInterfaceEdit(i, r)
    <3>1. World' /\ RowsAreWhole'
      BY <2>2, RowInterfaceEditWhole
    <3>2. Edited
      BY <2>2 DEF RowInterfaceEdit
    <3> QED
      BY <3>1, <3>2
  <2>3. CASE \E v \in Vdoms, s \in Seqs, r \in Route \cup {Absent} : RowRouteEdit(v, s, r)
    <3>1. PICK v \in Vdoms, s \in Seqs, r \in Route \cup {Absent} : RowRouteEdit(v, s, r)
      BY <2>3
    <3>2. /\ Edited /\ anchor
          /\ r # Absent => (r.via # None => rowIf[r.via] # Absent)
          /\ rowRt' = [rowRt EXCEPT ![v][s] = r]
          /\ UNCHANGED <<deviceVars, anchor, scope, rowIf, ipam>>
      BY <3>1 DEF RowRouteEdit
    <3>3. World' /\ RowsAreWhole'
      BY <3>2, PutRouteRowWhole
    <3> QED
      BY <3>2, <3>3
  <2> QED
    BY <2>1, <2>2, <2>3
<1>3. CASE RowDeviceDelete
  BY <1>3 DEF RowDeviceDelete, World, RowsAreWhole, deviceVars
<1>4. CASE RowDeviceEdit
  BY <1>4 DEF RowDeviceEdit, World, RowsAreWhole, deviceVars
<1> QED
  BY <1>1, <1>2, <1>3, <1>4 DEF Operators

\* The step of any action: types, rows, plan.
LEMMA StepIsTyped ==
    ASSUME TypeOK, RowsAreWhole, PlanFollowsDiff, [Next]_vars
    PROVE  TypeOK' /\ RowsAreWhole' /\ PlanFollowsDiff'
<1>1. CASE Operators
  <2>1. Edited /\ World' /\ RowsAreWhole'
    BY <1>1, TypedWorld, OperatorsWhole
  <2> QED
    BY <2>1, EditedTyped
<1>2. CASE UNCHANGED vars
  BY <1>2 DEF vars, TypeOK, RowsAreWhole, PlanFollowsDiff, Store, Writes, Deletes
<1> QED
  BY <1>1, <1>2, StartTyped, LoadTyped, ExecuteSyncTyped, PulledIsTyped, PushedIsTyped, EndTyped
     DEF Next

LEMMA InitTyped ==
    ASSUME Init
    PROVE  TypeOK /\ RowsAreWhole /\ PlanFollowsDiff
<1>1. PICK w \in InitialWorlds :
         /\ ifs = w.ifs /\ rts = w.rts
         /\ anchor = w.anchor /\ scope = w.scope
         /\ rowIf = w.rowIf /\ rowRt = w.rowRt /\ ipam = w.ipam
  BY DEF Init
<1>2. World /\ RowsAreWhole
  BY <1>1, WorldsAssumption DEF World, RowsAreWhole
<1>3. /\ src = EmptyStore /\ dst = EmptyStore /\ todo = NoWork
      /\ touched = FALSE /\ edits = 0 /\ runs = 0
      /\ job = [phase |-> "idle", form |-> [kind |-> "push", vdom |-> RootVdom,
                                            delete |-> FALSE, routes |-> FALSE, scope |-> None]]
  BY DEF Init
<1>4. job \in [phase : Idle \cup Running, form : Forms]
  BY <1>3, ConstantsAssumption DEF Idle, Forms
<1>5. todo \in [write : SUBSET Elements, delete : SUBSET Elements]
  BY <1>3 DEF NoWork
<1>6. Store(src) /\ Store(dst)
  BY <1>3, EmptyStoreTyped
<1>7. MaxEdits \in Nat /\ MaxRuns \in Nat
  BY ConstantsAssumption
<1>8. edits \in 0..MaxEdits /\ runs \in 0..MaxRuns /\ touched \in BOOLEAN
  <2>1. edits = 0 /\ runs = 0 /\ touched = FALSE
    BY <1>3
  <2>2. 0 \in 0..MaxEdits /\ 0 \in 0..MaxRuns
    BY <1>7
  <2> QED
    BY <2>1, <2>2
<1>9. TypeOK
  BY <1>2, <1>4, <1>5, <1>6, <1>8 DEF TypeOK, World
<1>10. \A n \in Elements : src[n] = Absent /\ dst[n] = Absent
  BY <1>3 DEF EmptyStore
<1>11. PlanFollowsDiff
  BY <1>3, <1>10, Kinds DEF PlanFollowsDiff, NoWork
<1> QED
  BY <1>2, <1>9, <1>11

----------------------------------------------------------------------------
(* An undisturbed run stays on course.                                     *)

LEMMA SameDevice ==
    ASSUME UNCHANGED deviceVars, job'.form = job.form, job.form.kind = "pull" \/ scope' = scope
    PROVE  DeviceReads' = DeviceReads
<1>1. GivenScope' = GivenScope
  BY DEF GivenScope
<1>2. /\ ifs' = ifs /\ rts' = rts
      /\ \A v, i : Readable(v, i)' = Readable(v, i)
  BY DEF Readable, deviceVars
<1>3. \A v, routes : ReadFgt(v, routes)' = ReadFgt(v, routes)
  BY <1>1, <1>2 DEF ReadFgt
<1> QED
  BY <1>3 DEF DeviceReads

LEMMA SameRows ==
    ASSUME UNCHANGED rowVars, job'.form = job.form
    PROVE  ReadOrm(job.form.vdom, job.form.routes)' = ReadOrm(job.form.vdom, job.form.routes)
BY DEF ReadOrm, ReadRow, RowCidrs, rowVars

\* Loads are current as long as a job leaves its source alone.
LEMMA LoadsStay ==
    ASSUME LoadsAreCurrent, job'.form = job.form, src' = src,
           job.phase \in {"target", "loaded"} \cup Working,
           job'.phase \in Working,
           IF job.form.kind = "pull" THEN UNCHANGED deviceVars ELSE UNCHANGED rowVars
    PROVE  LoadsAreCurrent'
<1>1. job'.phase # "loaded"
  BY DEF Working
<1>2. CASE job.form.kind = "pull"
  <2>1. src \in DeviceReads /\ DeviceReads' = DeviceReads
    BY <1>2, SameDevice DEF LoadsAreCurrent
  <2> QED
    BY <1>1, <1>2, <2>1 DEF LoadsAreCurrent
<1>3. CASE job.form.kind # "pull"
  <2>1. anchor /\ src = ReadOrm(job.form.vdom, job.form.routes)
    BY <1>3 DEF LoadsAreCurrent
  <2>2. /\ ReadOrm(job.form.vdom, job.form.routes)' = ReadOrm(job.form.vdom, job.form.routes)
        /\ anchor' = anchor
    BY <1>3, SameRows DEF rowVars
  <2> QED
    BY <1>1, <1>3, <2>1, <2>2 DEF LoadsAreCurrent
<1> QED
  BY <1>2, <1>3

LEMMA LoadedCourse ==
    ASSUME TypeOK, LoadsAreCurrent, LoadSource \/ LoadTarget
    PROVE  LoadsAreCurrent' /\ job'.phase \notin Working
<1>1. UNCHANGED <<deviceVars, rowVars>>
  BY DEF LoadSource, LoadTarget
<1>2. PICK p \in {"failed", "target", "loaded"} : Advance(p)
  BY DEF LoadSource, LoadTarget
<1>3. p \in Idle \cup Running
  BY DEF Idle, Running
<1>4. job'.phase = p /\ job'.form = job.form
  BY <1>2, <1>3, AdvanceIs
<1>5. /\ DeviceReads' = DeviceReads /\ anchor' = anchor
      /\ ReadOrm(job.form.vdom, job.form.routes)' = ReadOrm(job.form.vdom, job.form.routes)
  BY <1>1, <1>4, SameDevice, SameRows DEF rowVars
<1>6. p \notin Working
  BY DEF Working
<1>7. job.form.kind \in {"pull", "push"}
  BY JobIs
<1>8. CASE p = "failed"
  BY <1>4, <1>8 DEF LoadsAreCurrent, Working
<1>9. CASE LoadSource /\ p # "failed"
  <2>1. job'.phase = "target"
    BY <1>4, <1>9, AdvanceIs DEF LoadSource, Idle, Running
  <2>2. IF job.form.kind = "pull" THEN src' \in DeviceReads
        ELSE anchor /\ src' = ReadOrm(job.form.vdom, job.form.routes)
    <3>1. ~Advance("failed")
      BY <1>4, <1>9, AdvanceIs DEF Idle
    <3> QED
      BY <1>7, <1>9, <3>1 DEF LoadSource
  <2> QED
    BY <1>4, <1>5, <1>6, <2>1, <2>2 DEF LoadsAreCurrent
<1>10. CASE LoadTarget /\ p # "failed"
  <2>1. job.phase = "target" /\ src' = src
    BY <1>10 DEF LoadTarget
  <2>2. ~Advance("failed")
    BY <1>4, <1>10, AdvanceIs DEF Idle
  <2>3. IF job.form.kind = "pull" THEN dst' = ReadOrm(job.form.vdom, job.form.routes)
        ELSE dst' \in DeviceReads
    BY <1>7, <1>10, <2>2 DEF LoadTarget
  <2> QED
    BY <1>4, <1>5, <1>6, <2>1, <2>3 DEF LoadsAreCurrent
<1> QED
  BY <1>4, <1>6, <1>8, <1>9, <1>10

\* What was loaded of a row says what the row says.
LEMMA OrmInterface ==
    ASSUME TypeOK, RowsAreWhole, NEW v \in Vdoms, NEW routes \in BOOLEAN, NEW i \in Ifaces
    PROVE  LET d == ReadOrm(v, routes)[i] IN
           /\ d = Absent <=> rowIf[i] = Absent
           /\ rowIf[i] # Absent => RowSays(i, d)
<1>1. CASE rowIf[i] = Absent
  <2>1. ReadOrm(v, routes)[i] = Absent
    BY <1>1, ReadOrmIs
  <2> QED
    BY <1>1, <2>1
<1>2. CASE rowIf[i] # Absent
  <2>1. anchor
    BY <1>2 DEF RowsAreWhole
  <2>2. PICK d : d = ReadOrm(v, routes)[i] /\ d = ReadRow(rowIf[i])
    BY <1>2, <2>1, ReadOrmIs
  <2>3. rowIf[i] \in RowInterface /\ RowCidrs(rowIf[i]) \in Addresses
    BY <1>2, RowReads DEF TypeOK
  <2>4. d \in Interface
    BY <2>2, <2>3, RowInterfaceIs DEF Interface, ReadRow, Modes
  <2>5. d # Absent
    BY <2>4, InterfaceIs
  <2>6. /\ d.type = rowIf[i].type /\ d.parent = rowIf[i].parent /\ d.vlan = rowIf[i].vlan
        /\ d.text = rowIf[i].text /\ d.ips = RowCidrs(rowIf[i])
        /\ rowIf[i].vlan # None => d.mode = rowIf[i].mode
    BY <2>2 DEF ReadRow
  <2>7. HostsOf(d.ips) = rowIf[i].hosts
    BY <1>2, <2>6, RowReads
  <2>8. RowSays(i, d)
    BY <1>2, <2>6, <2>7 DEF RowSays
  <2> QED
    BY <1>2, <2>2, <2>5, <2>8
<1> QED
  BY <1>1, <1>2

\* The plan of a pull starts on course.
LEMMA PullStarts ==
    ASSUME TypeOK, RowsAreWhole, LoadsAreCurrent, ExecuteSync, job.form.kind = "pull"
    PROVE  PullIsOnCourse'
<1>1. /\ job.phase = "loaded"
      /\ UNCHANGED <<deviceVars, rowVars, src, dst>>
      /\ todo'.write = Writes(src, dst) /\ todo'.delete = Deletes(src, dst)
      /\ Advance("syncing") /\ "syncing" \in Idle \cup Running
  BY DEF ExecuteSync, Running
<1>2. job'.form = job.form
  BY <1>1, AdvanceIs
<1>3. PICK v \in Vdoms, routes \in BOOLEAN : v = job.form.vdom /\ routes = job.form.routes
  BY JobIs
<1>4. dst = ReadOrm(v, routes) /\ src \in DeviceReads
  BY <1>1, <1>3 DEF LoadsAreCurrent
<1>5. src[Host] \in Scopes
  <2>1. PICK asked : src = ReadFgt(job.form.vdom, asked)
    BY <1>4 DEF DeviceReads
  <2>2. GivenScope \in Scopes
    BY JobIs DEF GivenScope
  <2> QED
    BY <2>1, <2>2, ReadFgtIs
<1>6. DeviceOnCourse'
  <2>1. CASE anchor
    <3>1. dst[Host] = scope /\ dst[Host] # Absent
      BY <1>4, <2>1, ReadOrmIs, RecordsAreSomething DEF TypeOK
    <3> QED
      BY <1>1, <2>1, <3>1 DEF DeviceOnCourse, rowVars
  <2>2. CASE ~anchor
    <3>1. dst[Host] = Absent /\ src[Host] # Absent
      BY <1>4, <1>5, <2>2, ReadOrmIs, RecordsAreSomething
    <3>2. Host \in todo'.write
      BY <1>1, <3>1, Kinds DEF Writes
    <3> QED
      BY <1>1, <3>1, <3>2 DEF DeviceOnCourse
  <2> QED
    BY <2>1, <2>2 DEF TypeOK
<1>7. \A n \in Elements : n \in todo'.write <=> src[n] # Absent /\ src[n] # dst[n]
  BY <1>1 DEF Writes
<1>8. \A n \in Elements : n \in todo'.delete <=> src[n] = Absent /\ dst[n] # Absent
  BY <1>1 DEF Deletes
<1>9. ASSUME NEW i \in Ifaces PROVE InterfaceOnCourse(i)'
  <2>1. i \in Elements
    BY Kinds
  <2>2. /\ dst[i] = Absent <=> rowIf[i] = Absent
        /\ rowIf[i] # Absent => RowSays(i, dst[i])
    BY <1>4, OrmInterface
  <2>3. rowIf' = rowIf /\ src' = src /\ dst' = dst
    BY <1>1 DEF rowVars
  <2>4. i \in todo'.write => IF dst[i] = Absent THEN rowIf[i] = Absent ELSE RowSays(i, dst[i])
    BY <2>2
  <2>5. ASSUME i \notin todo'.write, src[i] # Absent PROVE InterfaceSettled(i)'
    <3>1. src[i] = dst[i] /\ dst[i] # Absent
      BY <1>7, <2>1, <2>5
    <3>2. RowSays(i, src[i]) /\ rowIf[i] # Absent
      BY <2>2, <3>1
    <3> QED
      BY <2>3, <3>2 DEF InterfaceSettled, RowSays
  <2>6. src[i] = Absent /\ rowIf[i] # Absent => i \in todo'.delete
    BY <1>8, <2>1, <2>2
  <2> QED
    BY <2>3, <2>4, <2>5, <2>6 DEF InterfaceOnCourse, RowSays
<1>10. ASSUME job.form.routes, NEW s \in Seqs PROVE RouteOnCourse(s)'
  <2>1. s \in Elements
    BY Kinds
  <2>2. dst[s] = rowRt[v][s]
    BY <1>3, <1>4, <1>10, ReadOrmIs DEF RowsAreWhole
  <2>3. rowRt' = rowRt /\ src' = src /\ dst' = dst /\ job'.form.vdom = v
    BY <1>1, <1>2, <1>3 DEF rowVars
  <2> QED
    BY <1>7, <1>8, <2>1, <2>2, <2>3 DEF RouteOnCourse, RouteSays
<1> QED
  BY <1>2, <1>6, <1>9, <1>10 DEF PullIsOnCourse

\* The plan of a push starts on course.
LEMMA PushStarts ==
    ASSUME TypeOK, LoadsAreCurrent, ExecuteSync, job.form.kind = "push"
    PROVE  PushIsOnCourse'
<1>1. /\ job.phase = "loaded"
      /\ UNCHANGED <<deviceVars, rowVars, src, dst>>
      /\ todo'.write = Writes(src, dst)
      /\ Advance("syncing") /\ "syncing" \in Idle \cup Running
  BY DEF ExecuteSync, Running
<1>2. job'.form = job.form
  BY <1>1, AdvanceIs
<1>3. PICK routes : dst = ReadFgt(job.form.vdom, routes)
  BY <1>1 DEF LoadsAreCurrent, DeviceReads
<1>4. ASSUME NEW i \in Ifaces, dst[i] # Absent
      PROVE  Readable(job.form.vdom, i) /\ dst[i] = ReadInterface(ifs[i])
  BY <1>3, <1>4, ReadFgtIs
<1>5. ASSUME NEW s \in Seqs, dst[s] # Absent
      PROVE  rts[s] # Absent /\ dst[s] = ReadRoute(rts[s])
  BY <1>3, <1>5, ReadFgtIs
<1>6. ifs' = ifs /\ rts' = rts /\ src' = src /\ dst' = dst
  BY <1>1 DEF deviceVars
<1>7. Writes(src, dst)' \ todo'.write = {}
  BY <1>1, <1>6 DEF Writes
<1> QED
  BY <1>2, <1>4, <1>5, <1>6, <1>7 DEF PushIsOnCourse, Readable, ReadInterface, ReadRoute

----------------------------------------------------------------------------
(* A push.                                                                 *)

\* At its turn an element changes, and no other.
LEMMA PushedAtItsTurn ==
    ASSUME TypeOK, PushIsOnCourse, job.phase = "syncing", job.form.kind = "push",
           NEW n \in Ifaces \cup Seqs, n \in Left, Applied(n),
           \A k \in Ifaces : k # n => ifs'[k] = ifs[k],
           \A t \in Seqs : t # n => rts'[t] = rts[t],
           n \in Seqs => ifs' = ifs /\ Left \cap Ifaces = {},
           n \in Ifaces /\ n \in Writes(src, dst) => VlanArrived(n)',
           n \in Seqs /\ n \in Writes(src, dst) => RouteArrived(n)'
    PROVE  PushIsOnCourse'
<1>1. /\ job' = job /\ src' = src /\ dst' = dst
      /\ todo'.write = todo.write \ {n} /\ Left' = Left \ {n}
  BY AppliedIs
<1>2. Writes(src, dst)' = Writes(src, dst)
  BY <1>1 DEF Writes
<1>3. ASSUME NEW i \in Ifaces
      PROVE  /\ i \in Left' /\ dst[i] # Absent =>
                   Readable(job.form.vdom, i)' /\ dst[i] = ReadInterface(ifs'[i])
             /\ i \in Writes(src, dst) \ todo'.write => VlanArrived(i)'
  <2>1. CASE i = n
    BY <1>1, <1>3, <2>1
  <2>2. CASE i # n
    <3>1. ifs'[i] = ifs[i]
      BY <2>2
    <3>2. VlanArrived(i) => VlanArrived(i)'
      BY <1>1, <3>1 DEF VlanArrived, Readable
    <3>3. /\ i \in Left /\ dst[i] # Absent =>
                Readable(job.form.vdom, i) /\ dst[i] = ReadInterface(ifs[i])
          /\ i \in Writes(src, dst) \ todo.write => VlanArrived(i)
      BY DEF PushIsOnCourse, Working
    <3>4. Readable(job.form.vdom, i)' = Readable(job.form.vdom, i)
      BY <1>1, <3>1 DEF Readable
    <3> QED
      BY <1>1, <2>2, <3>1, <3>2, <3>3, <3>4
  <2> QED
    BY <2>1, <2>2
<1>4. ASSUME NEW s \in Seqs
      PROVE  /\ s \in Left' /\ dst[s] # Absent => rts'[s] # Absent /\ dst[s] = ReadRoute(rts'[s])
             /\ s \in Writes(src, dst) \ todo'.write => RouteArrived(s)' /\ Left' \cap Ifaces = {}
  <2>1. CASE s = n
    BY <1>1, <1>4, <2>1
  <2>2. CASE s # n
    <3>1. rts'[s] = rts[s]
      BY <2>2
    <3>2. /\ s \in Left /\ dst[s] # Absent => rts[s] # Absent /\ dst[s] = ReadRoute(rts[s])
          /\ s \in Writes(src, dst) \ todo.write => RouteArrived(s) /\ Left \cap Ifaces = {}
      BY DEF PushIsOnCourse, Working
    <3>3. ASSUME s \in Writes(src, dst) \ todo'.write PROVE RouteArrived(s)' /\ Left' \cap Ifaces = {}
      <4>1. RouteArrived(s) /\ Left \cap Ifaces = {}
        BY <1>1, <2>2, <3>2, <3>3
      <4>2. ifs' = ifs
        BY <4>1
      <4>3. RouteArrived(s)'
        BY <1>1, <3>1, <4>1, <4>2 DEF RouteArrived
      <4> QED
        BY <1>1, <4>1, <4>3
    <3> QED
      BY <1>1, <3>1, <3>2, <3>3
  <2> QED
    BY <2>1, <2>2
<1> QED
  BY <1>1, <1>2, <1>3, <1>4 DEF PushIsOnCourse

LEMMA PushedCourse ==
    ASSUME TypeOK, RowsAreWhole, PlanFollowsDiff, PushIsOnCourse, Push, ~Raised
    PROVE  PushIsOnCourse' /\ UNCHANGED rowVars
<1>w. World
  BY TypedWorld
<1>0. CASE PushDevice
  <2>1. Turn("push", "write", Host) /\ Applied(Host) /\ UNCHANGED <<deviceVars, rowVars>>
    BY <1>0 DEF PushDevice, Skipped
  <2>2. job.phase = "syncing" /\ job.form.kind = "push"
    BY <2>1, TurnIs
  <2>3. /\ job' = job /\ src' = src /\ dst' = dst
        /\ todo'.write = todo.write \ {Host} /\ Left' = Left \ {Host}
    BY <2>1, AppliedIs
  <2>4. ifs' = ifs /\ rts' = rts /\ Writes(src, dst)' = Writes(src, dst)
    BY <2>1, <2>3 DEF deviceVars, Writes
  <2>5. ASSUME NEW i \in Ifaces
        PROVE  /\ i \in Left' /\ dst[i] # Absent =>
                     Readable(job.form.vdom, i)' /\ dst[i] = ReadInterface(ifs'[i])
               /\ i \in Writes(src, dst) \ todo'.write => VlanArrived(i)'
    <3>1. i # Host /\ Readable(job.form.vdom, i)' = Readable(job.form.vdom, i)
          /\ (VlanArrived(i) => VlanArrived(i)')
      BY <2>3, <2>4, Kinds DEF VlanArrived, Readable
    <3> QED
      BY <2>2, <2>3, <2>4, <3>1 DEF PushIsOnCourse, Working
  <2>6. ASSUME NEW s \in Seqs
        PROVE  /\ s \in Left' /\ dst[s] # Absent =>
                     rts'[s] # Absent /\ dst[s] = ReadRoute(rts'[s])
               /\ s \in Writes(src, dst) \ todo'.write =>
                     RouteArrived(s)' /\ Left' \cap Ifaces = {}
    <3>1. s # Host /\ (RouteArrived(s) => RouteArrived(s)')
      BY <2>3, <2>4, Kinds DEF RouteArrived
    <3> QED
      BY <2>2, <2>3, <2>4, <3>1 DEF PushIsOnCourse, Working
  <2> QED
    BY <2>1, <2>3, <2>4, <2>5, <2>6 DEF PushIsOnCourse
<1>1. ASSUME NEW i \in Ifaces, PushInterfaceCreate(i) \/ PushInterfaceUpdate(i)
      PROVE  PushIsOnCourse' /\ UNCHANGED rowVars
  <2>1. Turn("push", "write", i) /\ Applied(i)
    BY <1>1, InterfacePushed
  <2>2. job.phase = "syncing" /\ job.form.kind = "push" /\ i \in todo.write /\ i \in Left
    BY <2>1, TurnIs DEF Left
  <2>3. job' = job /\ src' = src /\ dst' = dst
    BY <2>1, AppliedIs
  <2>4. CASE Skipped /\ (~IsPushableVlan(src[i]) \/ (dst[i] # Absent /\ dst[i].type # "virtual"))
    <3>1. VlanArrived(i)'
      BY <2>3, <2>4 DEF VlanArrived
    <3>2. UNCHANGED rowVars /\ ifs' = ifs /\ rts' = rts
      BY <2>4 DEF Skipped, deviceVars
    <3> QED
      BY <2>1, <2>2, <3>1, <3>2, Kinds, PushedAtItsTurn
  <2>5. CASE UNCHANGED rowVars /\ \E p \in DeviceInterface :
                    /\ PutInterface(i, p)
                    /\ p.type = "virtual" /\ p.vdom = job.form.vdom
                    /\ p.parent = src[i].parent /\ p.vlan = src[i].vlan /\ p.access = "ping"
                    /\ p.text = Marked(src[i].text)
                    /\ src[i].ips # <<>> => p.ips # <<>> /\ p.ips[1] = src[i].ips[1]
    <3>1. PICK p \in DeviceInterface :
                    /\ PutInterface(i, p)
                    /\ p.type = "virtual" /\ p.vdom = job.form.vdom
                    /\ p.parent = src[i].parent /\ p.vlan = src[i].vlan /\ p.access = "ping"
                    /\ p.text = Marked(src[i].text)
                    /\ src[i].ips # <<>> => p.ips # <<>> /\ p.ips[1] = src[i].ips[1]
      BY <2>5
    <3>2. rts' = rts /\ \A k \in Ifaces : ifs'[k] = IF k = i THEN p ELSE ifs[k]
      BY <1>w, <3>1, DevicePut
    <3>3. ifs'[i] = p /\ p # Absent
      BY <3>2, RecordsAreSomething
    <3>4. VlanArrived(i)'
      BY <2>3, <3>1, <3>3 DEF VlanArrived, Readable, IsPushableVlan
    <3> QED
      BY <2>1, <2>2, <2>5, <3>2, <3>4, Kinds, PushedAtItsTurn
  <2> QED
    BY <1>1, <2>4, <2>5, InterfacePushed
<1>2. ASSUME NEW i \in Ifaces, PushInterfaceDelete(i)
      PROVE  PushIsOnCourse' /\ UNCHANGED rowVars
  <2>1. Turn("push", "delete", i) /\ Applied(i) /\ UNCHANGED rowVars /\ PutInterface(i, Absent)
    BY <1>2, InterfaceUnpushed
  <2>2. job.phase = "syncing" /\ job.form.kind = "push" /\ i \in todo.delete /\ i \in Left
    BY <2>1, TurnIs DEF Left
  <2>3. i \notin Writes(src, dst)
    BY <2>2, Planned DEF Writes
  <2>4. rts' = rts /\ \A k \in Ifaces : k # i => ifs'[k] = ifs[k]
    BY <1>w, <2>1, DevicePut
  <2> QED
    BY <2>1, <2>2, <2>3, <2>4, Kinds, PushedAtItsTurn
<1>3. ASSUME NEW s \in Seqs, PushRouteCreate(s) \/ PushRouteUpdate(s)
      PROVE  PushIsOnCourse' /\ UNCHANGED rowVars
  <2>1. Turn("push", "write", s) /\ Applied(s)
    BY <1>3, RoutePushed
  <2>2. /\ job.phase = "syncing" /\ job.form.kind = "push" /\ s \in todo.write /\ s \in Left
        /\ Left \cap Ifaces = {}
    BY <2>1, TurnIs, TurnsInOrder DEF Left
  <2>3. job' = job /\ src' = src /\ dst' = dst
    BY <2>1, AppliedIs
  <2>4. CASE Skipped /\ ~IsPushableRoute(s, src[s])
    <3>1. RouteArrived(s)'
      BY <2>3, <2>4 DEF RouteArrived
    <3>2. UNCHANGED rowVars /\ ifs' = ifs /\ rts' = rts
      BY <2>4 DEF Skipped, deviceVars
    <3> QED
      BY <2>1, <2>2, <3>1, <3>2, Kinds, PushedAtItsTurn
  <2>5. CASE UNCHANGED rowVars /\ \E p \in DeviceRoute :
                    /\ PutRoute(s, p) /\ AcceptsRoute(p)
                    /\ p.dest = src[s].dest /\ p.text = Marked(src[s].text)
                    /\ src[s].gateway # None => p.gateway = src[s].gateway
                    /\ src[s].via # None => p.via = src[s].via
    <3>1. PICK p \in DeviceRoute :
                    /\ PutRoute(s, p) /\ AcceptsRoute(p)
                    /\ p.dest = src[s].dest /\ p.text = Marked(src[s].text)
                    /\ src[s].gateway # None => p.gateway = src[s].gateway
                    /\ src[s].via # None => p.via = src[s].via
      BY <2>5
    <3>2. ifs' = ifs /\ \A t \in Seqs : rts'[t] = IF t = s THEN p ELSE rts[t]
      BY <1>w, <3>1, DevicePut
    <3>3. rts'[s] = p /\ p # Absent
      BY <3>2, RecordsAreSomething
    <3>4. RouteArrived(s)'
      BY <2>3, <3>1, <3>2, <3>3 DEF RouteArrived, AcceptsRoute
    <3> QED
      BY <2>1, <2>2, <2>5, <3>2, <3>4, Kinds, PushedAtItsTurn
  <2> QED
    BY <1>3, <2>4, <2>5, RoutePushed
<1>4. ASSUME NEW s \in Seqs, PushRouteDelete(s)
      PROVE  PushIsOnCourse' /\ UNCHANGED rowVars
  <2>1. Turn("push", "delete", s) /\ Applied(s) /\ UNCHANGED rowVars /\ PutRoute(s, Absent)
    BY <1>4, RouteUnpushed
  <2>2. /\ job.phase = "syncing" /\ job.form.kind = "push" /\ s \in todo.delete /\ s \in Left
        /\ Left \cap Ifaces = {}
    BY <2>1, TurnIs, TurnsInOrder DEF Left
  <2>3. s \notin Writes(src, dst)
    BY <2>2, Planned DEF Writes
  <2>4. ifs' = ifs /\ \A t \in Seqs : t # s => rts'[t] = rts[t]
    BY <1>w, <2>1, DevicePut
  <2> QED
    BY <2>1, <2>2, <2>3, <2>4, Kinds, PushedAtItsTurn
<1> QED
  BY <1>0, <1>1, <1>2, <1>3, <1>4, PushStep

----------------------------------------------------------------------------
(* A pull.                                                                 *)

LEMMA NamesAre ==
    ASSUME TypeOK, PlanFollowsDiff
    PROVE  /\ \A i \in Ifaces : src[i] # Absent => src[i].parent \in Ifaces \cup {None}
           /\ \A s \in Seqs : src[s] # Absent => src[s].via \in Ifaces \cup {None}
           /\ \A s \in Seqs : dst[s] # Absent => dst[s].via \in Ifaces \cup {None}
BY Planned, InterfaceIs, RouteIs DEF Names

LEMMA PulledDevice ==
    ASSUME TypeOK, PullIsOnCourse, PullDeviceCreate \/ PullDeviceUpdate
    PROVE  PullIsOnCourse'
<1>1. Turn("pull", "write", Host) /\ Applied(Host)
  BY DEF PullDeviceCreate, PullDeviceUpdate
<1>2. rowIf' = rowIf /\ rowRt' = rowRt
  BY DEF PullDeviceCreate, PullDeviceUpdate, Skipped, rowVars
<1>3. job.phase = "syncing" /\ job.form.kind = "pull"
  BY <1>1, TurnIs
<1>4. /\ job' = job /\ src' = src /\ dst' = dst
      /\ todo'.write = todo.write \ {Host} /\ todo'.delete = todo.delete \ {Host}
  BY <1>1, AppliedIs
<1>5. /\ \A i \in Ifaces : InterfaceOnCourse(i)
      /\ job.form.routes => \A s \in Seqs : RouteOnCourse(s)
  BY <1>3 DEF PullIsOnCourse, Working
<1>9. DeviceOnCourse'
  <2>1. DeviceOnCourse
    BY <1>3 DEF PullIsOnCourse, Working
  <2>2. CASE PullDeviceCreate
    BY <1>4, <2>2 DEF PullDeviceCreate, DeviceOnCourse
  <2>3. CASE PullDeviceUpdate
    <3>1. dst[Host] # Absent /\ anchor' = anchor /\ scope' = scope
      BY <2>3 DEF PullDeviceUpdate, Skipped, rowVars
    <3> QED
      BY <1>4, <2>1, <3>1 DEF DeviceOnCourse
  <2> QED
    BY <2>2, <2>3
<1>6. todo'.write \cap Ifaces = todo.write \cap Ifaces
  BY <1>4, Kinds
<1>7. ASSUME NEW i \in Ifaces PROVE InterfaceOnCourse(i)'
  <2>1. i # Host /\ InterfaceOnCourse(i)
    BY <1>5, Kinds
  <2>2. InterfaceSettled(i)' = InterfaceSettled(i) /\ (\A r : RowSays(i, r)' = RowSays(i, r))
    BY <1>2, <1>4, <1>6 DEF InterfaceSettled, LostItsParent, RowSays
  <2> QED
    BY <1>2, <1>4, <2>1, <2>2 DEF InterfaceOnCourse, RowSays
<1>8. ASSUME job.form.routes, NEW s \in Seqs PROVE RouteOnCourse(s)'
  <2>1. s # Host /\ RouteOnCourse(s)
    BY <1>5, <1>8, Kinds
  <2> QED
    BY <1>2, <1>4, <1>6, <2>1 DEF RouteOnCourse, RouteSays
<1> QED
  BY <1>4, <1>7, <1>8, <1>9 DEF PullIsOnCourse

\* The steps of interfaces and routes leave the Device row on course.
LEMMA DeviceStays ==
    ASSUME TypeOK, DeviceOnCourse, NEW n \in Ifaces \cup Seqs, Applied(n),
           UNCHANGED <<anchor, scope>>
    PROVE  DeviceOnCourse'
<1>1. src' = src /\ dst' = dst /\ todo'.write = todo.write \ {n} /\ n # Host
  BY AppliedIs, Kinds
<1> QED
  BY <1>1 DEF DeviceOnCourse

\* The row written for an interface settles it.
LEMMA WrittenSettles ==
    ASSUME TypeOK, RowsAreWhole, PlanFollowsDiff, PullIsOnCourse, NEW i \in Ifaces,
           PullInterfaceCreate(i) \/ PullInterfaceUpdate(i)
    PROVE  /\ anchor /\ Turn("pull", "write", i) /\ Applied(i)
           /\ UNCHANGED <<deviceVars, anchor, scope, rowRt>>
           /\ \A k \in Ifaces : k # i => rowIf'[k] = rowIf[k]
           /\ rowIf[i] = Absent <=> dst[i] = Absent
           /\ InterfaceSettled(i)'
<1>1. Turn("pull", "write", i) /\ Applied(i) /\ UNCHANGED <<deviceVars, anchor, scope, rowRt>>
  BY InterfaceWritten
<1>2. job.phase = "syncing" /\ job.form.kind = "pull" /\ i \in todo.write
  BY <1>1, TurnIs
<1>3. anchor /\ InterfaceOnCourse(i)
  BY <1>1, <1>2, TurnsInOrder DEF PullIsOnCourse, DeviceOnCourse, Working
<1>4. IF dst[i] = Absent THEN rowIf[i] = Absent ELSE RowSays(i, dst[i])
  BY <1>2, <1>3 DEF InterfaceOnCourse
<1>5. rowIf[i] = Absent <=> dst[i] = Absent
  BY <1>4 DEF RowSays
<1>6. job' = job /\ src' = src /\ dst' = dst
  BY <1>1, AppliedIs
<1>7. PICK row \in RowInterface :
         /\ rowIf' = [rowIf EXCEPT ![i] = row]
         /\ \/ /\ dst[i] = Absent
               /\ row.type = src[i].type /\ row.text = src[i].text
               /\ row.hosts = HostsOf(src[i].ips)
               /\ rowIf[i] = Absent =>
                     /\ row.parent = IF src[i].parent # None /\ rowIf[src[i].parent] # Absent
                                     THEN src[i].parent ELSE None
                     /\ row.vlan = src[i].vlan
                     /\ src[i].vlan # None /\ src[i].mode = "tagged" => row.mode = "tagged"
            \/ /\ dst[i] # Absent /\ rowIf[i] # Absent
               /\ row.type = IF src[i].type # dst[i].type THEN src[i].type ELSE rowIf[i].type
               /\ row.text = IF src[i].text # dst[i].text THEN src[i].text ELSE rowIf[i].text
               /\ row.hosts = IF src[i].ips # dst[i].ips THEN HostsOf(src[i].ips)
                              ELSE rowIf[i].hosts
               /\ IF \/ src[i].parent # dst[i].parent \/ src[i].vlan # dst[i].vlan
                     \/ src[i].mode # dst[i].mode
                  THEN /\ row.parent = IF src[i].parent # None /\ rowIf[src[i].parent] # Absent
                                       THEN src[i].parent ELSE rowIf[i].parent
                       /\ row.vlan = IF src[i].vlan # None THEN src[i].vlan ELSE rowIf[i].vlan
                       /\ src[i].vlan # None /\ src[i].mode = "tagged" => row.mode = "tagged"
                  ELSE /\ row.parent = rowIf[i].parent /\ row.vlan = rowIf[i].vlan
                       /\ row.mode = rowIf[i].mode
  BY <1>3, <1>5, InterfaceWritten
<1>8. \A k \in Ifaces : rowIf'[k] = IF k = i THEN row ELSE rowIf[k]
  BY <1>7 DEF TypeOK
<1>9. row # Absent
  BY RowInterfaceIs
<1>10. src[i] # Absent /\ src[i].parent \in Ifaces \cup {None}
  BY <1>2, Planned, NamesAre
<1>11. PICK parent : parent = src[i].parent
  OBVIOUS
<1>12. /\ row.type = src[i].type /\ row.text = src[i].text /\ row.hosts = HostsOf(src[i].ips)
       /\ row.vlan # src[i].vlan => src[i].vlan = None
       /\ src[i].vlan # None /\ src[i].mode = "tagged" => row.mode = "tagged"
       /\ row.parent # parent => parent = None \/ rowIf[parent] = Absent
       /\ row.parent \in {None, parent} \/ (dst[i] # Absent /\ row.parent = dst[i].parent)
  <2>1. CASE dst[i] = Absent
    BY <1>5, <1>7, <1>11, <2>1
  <2>2. CASE dst[i] # Absent
    <3>1. /\ rowIf[i].type = dst[i].type /\ rowIf[i].parent = dst[i].parent
          /\ rowIf[i].vlan = dst[i].vlan /\ rowIf[i].text = dst[i].text
          /\ rowIf[i].hosts = HostsOf(dst[i].ips)
          /\ rowIf[i].vlan # None => rowIf[i].mode = dst[i].mode
      BY <1>4, <2>2 DEF RowSays
    <3> QED
      BY <1>7, <1>11, <2>2, <3>1
  <2> QED
    BY <2>1, <2>2
<1>13. parent # None /\ rowIf[parent] = Absent => rowIf'[parent] = Absent \/ dst[parent] = Absent
  BY <1>5, <1>8, <1>10, <1>11
<1>14. rowIf'[i] = row
  BY <1>8
<1>15. InterfaceSettled(i)'
  <2>1. row.parent # parent => parent = None \/ rowIf'[parent] = Absent \/ dst[parent] = Absent
    BY <1>12, <1>13
  <2>2. /\ row # Absent /\ src'[i].parent = parent
        /\ row.type = src'[i].type /\ row.text = src'[i].text
        /\ row.hosts = HostsOf(src'[i].ips)
        /\ row.vlan # src'[i].vlan => src'[i].vlan = None
        /\ src'[i].vlan # None /\ src'[i].mode = "tagged" => row.mode = "tagged"
        /\ row.parent # parent => parent = None \/ rowIf'[parent] = Absent \/ dst'[parent] = Absent
        /\ \/ row.parent \in {None, parent}
           \/ dst'[i] # Absent /\ row.parent = dst'[i].parent
    BY <1>6, <1>9, <1>11, <1>12, <2>1
  <2> QED
    BY <1>14, <2>2 DEF InterfaceSettled
<1> QED
  BY <1>1, <1>3, <1>5, <1>8, <1>15

LEMMA WrittenCourse ==
    ASSUME TypeOK, RowsAreWhole, PlanFollowsDiff, PullIsOnCourse, NEW i \in Ifaces,
           PullInterfaceCreate(i) \/ PullInterfaceUpdate(i)
    PROVE  PullIsOnCourse'
<1>1. /\ anchor /\ Turn("pull", "write", i) /\ Applied(i)
      /\ UNCHANGED <<deviceVars, anchor, scope, rowRt>>
      /\ \A k \in Ifaces : k # i => rowIf'[k] = rowIf[k]
      /\ rowIf[i] = Absent <=> dst[i] = Absent
      /\ InterfaceSettled(i)'
  BY WrittenSettles
<1>2. job.phase = "syncing" /\ job.form.kind = "pull" /\ i \in todo.write /\ src[i] # Absent
  BY <1>1, TurnIs, Planned
<1>3. /\ job' = job /\ src' = src /\ dst' = dst
      /\ todo'.write = todo.write \ {i} /\ todo'.delete = todo.delete \ {i}
  BY <1>1, AppliedIs
<1>4. /\ DeviceOnCourse
      /\ \A k \in Ifaces : InterfaceOnCourse(k)
      /\ job.form.routes => \A s \in Seqs : RouteOnCourse(s)
  BY <1>2 DEF PullIsOnCourse, Working
<1>5. todo.write \cap Ifaces # {}
  BY <1>2
<1>6. ASSUME NEW k \in Ifaces, k # i PROVE InterfaceOnCourse(k)'
  <2>1. InterfaceOnCourse(k) /\ rowIf'[k] = rowIf[k]
    BY <1>1, <1>4, <1>6
  <2>2. \A r : RowSays(k, r)' <=> RowSays(k, r)
    BY <2>1 DEF RowSays
  <2>3. ASSUME k \notin todo.write, src[k] # Absent PROVE InterfaceSettled(k)'
    <3>1. /\ rowIf[k] # Absent
          /\ rowIf[k].type = src[k].type /\ rowIf[k].text = src[k].text
          /\ rowIf[k].hosts = HostsOf(src[k].ips)
          /\ rowIf[k].vlan # src[k].vlan => src[k].vlan = None
          /\ src[k].vlan # None /\ src[k].mode = "tagged" => rowIf[k].mode = "tagged"
          /\ rowIf[k].parent # src[k].parent =>
                \/ src[k].parent = None
                \/ rowIf[src[k].parent] = Absent \/ dst[src[k].parent] = Absent
          /\ \/ rowIf[k].parent \in {None, src[k].parent}
             \/ dst[k] # Absent /\ rowIf[k].parent = dst[k].parent
      BY <1>5, <2>1, <2>3 DEF InterfaceOnCourse, InterfaceSettled
    <3>2. src[k].parent \in Ifaces \cup {None}
      BY <2>3, NamesAre
    <3>3. src[k].parent # None /\ rowIf[src[k].parent] = Absent =>
             rowIf'[src[k].parent] = Absent \/ dst[src[k].parent] = Absent
      BY <1>1, <3>2
    <3> QED
      BY <1>3, <2>1, <3>1, <3>3 DEF InterfaceSettled
  <2> QED
    BY <1>3, <1>6, <2>1, <2>2, <2>3 DEF InterfaceOnCourse, RowSays
<1>7. InterfaceOnCourse(i)'
  BY <1>1, <1>2, <1>3 DEF InterfaceOnCourse
<1>8. ASSUME job.form.routes, NEW s \in Seqs PROVE RouteOnCourse(s)'
  <2>1. RouteOnCourse(s) /\ s # i
    BY <1>4, <1>8, Kinds
  <2>2. \A r : RouteSays(s, r) => RouteSays(s, r)'
    BY <1>1, <1>3, <1>5 DEF RouteSays
  <2> QED
    BY <1>1, <1>3, <2>1, <2>2 DEF RouteOnCourse, RouteSays
<1>9. DeviceOnCourse'
  BY <1>1, <1>4, DeviceStays
<1> QED
  BY <1>3, <1>6, <1>7, <1>8, <1>9 DEF PullIsOnCourse

\* Removing a row: what is lost is lost with its parent, and routes lose no
\* more than their egress.
LEMMA RemovedCourse ==
    ASSUME TypeOK, RowsAreWhole, PlanFollowsDiff, PullIsOnCourse, NEW i \in Ifaces,
           PullInterfaceDelete(i)
    PROVE  PullIsOnCourse'
<1>1. Turn("pull", "delete", i) /\ Applied(i) /\ UNCHANGED <<deviceVars, anchor, scope, ipam>>
  BY DEF PullInterfaceDelete
<1>2. /\ job.phase = "syncing" /\ job.form.kind = "pull" /\ i \in todo.delete
      /\ todo.write \cap Ifaces = {} /\ Host \notin todo.write
  BY <1>1, TurnIs, TurnsInOrder
<1>3. /\ job' = job /\ src' = src /\ dst' = dst
      /\ todo'.write = todo.write \ {i} /\ todo'.delete = todo.delete \ {i}
  BY <1>1, AppliedIs
<1>4. /\ DeviceOnCourse /\ anchor
      /\ \A k \in Ifaces : InterfaceOnCourse(k)
      /\ job.form.routes => \A s \in Seqs : RouteOnCourse(s)
  BY <1>2 DEF PullIsOnCourse, DeviceOnCourse, Working
<1>5. src[i] = Absent /\ dst[i] # Absent
  BY <1>2, Planned
<1>6. World /\ RemoveRow(i)
  BY <1>4, TypedWorld DEF PullInterfaceDelete
<1>7. todo'.write \cap Ifaces = {}
  BY <1>2, <1>3
<1>8. /\ rowIf'[i] = Absent
      /\ \A k \in Ifaces : rowIf[k] = Absent => rowIf'[k] = Absent
  BY <1>6, RemoveRowIs
<1>9. ASSUME NEW k \in Ifaces, src[k] # Absent, InterfaceSettled(k) PROVE InterfaceSettled(k)'
  <2>1. PICK parent \in Ifaces \cup {None} : parent = src[k].parent
    BY <1>9, NamesAre
  <2>2. k # i
    BY <1>5, <1>9
  <2>3. CASE LostItsParent(k)
    <3>1. LostItsParent(k)'
      BY <1>3, <1>8, <2>3 DEF LostItsParent
    <3> QED
      BY <1>7, <3>1 DEF InterfaceSettled
  <2>4. CASE ~LostItsParent(k)
    <3>1. /\ rowIf[k] # Absent
          /\ rowIf[k].type = src[k].type /\ rowIf[k].text = src[k].text
          /\ rowIf[k].hosts = HostsOf(src[k].ips)
          /\ rowIf[k].vlan # src[k].vlan => src[k].vlan = None
          /\ src[k].vlan # None /\ src[k].mode = "tagged" => rowIf[k].mode = "tagged"
          /\ rowIf[k].parent # parent =>
                parent = None \/ rowIf[parent] = Absent \/ dst[parent] = Absent
          /\ \/ rowIf[k].parent \in {None, parent}
             \/ dst[k] # Absent /\ rowIf[k].parent = dst[k].parent
      BY <1>9, <2>1, <2>4 DEF InterfaceSettled
    <3>2. parent # None /\ rowIf[parent] = Absent => rowIf'[parent] = Absent
      BY <1>8
    <3>3. CASE rowIf'[k] = Absent
      <4>1. PICK m \in Ifaces : m = rowIf[k].parent /\ rowIf'[m] = Absent
        BY <1>6, <2>2, <3>1, <3>3, RemoveRowIs
      <4>2. m # None
        BY <4>1, Kinds
      <4>3. rowIf[m] # Absent
        BY <3>1, <4>1, <4>2 DEF RowsAreWhole
      <4>4. src[m] # Absent \/ dst[m] # Absent
        <5>1. src[m] = Absent => m \in todo.delete
          BY <1>4, <4>3 DEF InterfaceOnCourse
        <5> QED
          BY <5>1, Planned
      <4>5. src[k].parent = m \/ (dst[k] # Absent /\ dst[k].parent = m)
        BY <2>1, <3>1, <4>1, <4>2
      <4>6. LostItsParent(k)'
        BY <1>3, <3>3, <4>1, <4>4, <4>5 DEF LostItsParent
      <4> QED
        BY <1>7, <4>6 DEF InterfaceSettled
    <3>4. CASE rowIf'[k] # Absent
      <4>1. /\ rowIf'[k].type = rowIf[k].type /\ rowIf'[k].vlan = rowIf[k].vlan
            /\ rowIf'[k].text = rowIf[k].text /\ rowIf'[k].hosts = rowIf[k].hosts
            /\ rowIf'[k].mode = rowIf[k].mode
            /\ \/ rowIf'[k].parent = rowIf[k].parent
               \/ /\ rowIf'[k].parent = None /\ rowIf[k].parent \in Ifaces
                  /\ rowIf'[rowIf[k].parent] = Absent
        BY <1>6, <3>4, RemoveRowIs
      <4>2. /\ rowIf'[k].parent # parent =>
                  parent = None \/ rowIf'[parent] = Absent \/ dst[parent] = Absent
            /\ \/ rowIf'[k].parent \in {None, parent}
               \/ dst[k] # Absent /\ rowIf'[k].parent = dst[k].parent
        BY <3>1, <3>2, <4>1
      <4> QED
        BY <1>3, <2>1, <3>1, <3>4, <4>1, <4>2 DEF InterfaceSettled
    <3> QED
      BY <3>3, <3>4
  <2> QED
    BY <2>3, <2>4
<1>10. ASSUME NEW k \in Ifaces PROVE InterfaceOnCourse(k)'
  <2>1. k \notin todo.write /\ k \notin todo'.write
    BY <1>2, <1>7
  <2>2. src[k] # Absent => InterfaceSettled(k)'
    BY <1>4, <1>9, <2>1 DEF InterfaceOnCourse
  <2>3. src[k] = Absent /\ rowIf'[k] # Absent => k \in todo'.delete
    BY <1>3, <1>4, <1>8 DEF InterfaceOnCourse
  <2> QED
    BY <1>3, <2>1, <2>2, <2>3 DEF InterfaceOnCourse
<1>11. ASSUME NEW s \in Seqs, NEW r \in Route, RouteSays(s, r) PROVE RouteSays(s, r)'
  <2>1. PICK v \in Vdoms : v = job.form.vdom /\ v = job'.form.vdom
    BY <1>3, JobIs
  <2>2. PICK row \in Route : row = rowRt[v][s]
    BY <1>11, <2>1 DEF RouteSays, TypeOK
  <2>3. /\ row.dest = r.dest /\ row.gateway = r.gateway
        /\ row.blackhole = r.blackhole /\ row.text = r.text
        /\ row.via # r.via => r.via # None /\ rowIf[r.via] = Absent
    BY <1>11, <2>1, <2>2 DEF RouteSays
  <2>4. /\ rowRt'[v][s] # Absent
        /\ \/ rowRt'[v][s] = row
           \/ /\ rowRt'[v][s] = [row EXCEPT !.via = None]
              /\ row.via \in Ifaces /\ rowIf'[row.via] = Absent
    BY <1>6, <2>2, RouteIs, RemoveRowIs
  <2>5. PICK new : new = rowRt'[v][s]
    OBVIOUS
  <2>6. /\ new.dest = row.dest /\ new.gateway = row.gateway
        /\ new.blackhole = row.blackhole /\ new.text = row.text
        /\ \/ new.via = row.via
           \/ new.via = None /\ row.via \in Ifaces /\ rowIf'[row.via] = Absent
    <3>1. \/ new = row
          \/ /\ new = [row EXCEPT !.via = None]
             /\ row.via \in Ifaces /\ rowIf'[row.via] = Absent
      BY <2>4, <2>5
    <3> QED
      BY <3>1 DEF Route
  <2>7. r.via # None => r.via \in Ifaces
    BY RouteIs DEF Names
  <2>8. new.via # r.via => r.via # None /\ rowIf'[r.via] = Absent
    BY <1>8, <2>3, <2>6, <2>7, Kinds
  <2> QED
    BY <1>7, <2>1, <2>3, <2>4, <2>5, <2>6, <2>8 DEF RouteSays
<1>12. ASSUME job.form.routes, NEW s \in Seqs PROVE RouteOnCourse(s)'
  <2>1. PICK v \in Vdoms : v = job.form.vdom /\ v = job'.form.vdom
    BY <1>3, JobIs
  <2>2. RouteOnCourse(s) /\ s # i
    BY <1>4, <1>12, Kinds
  <2>3. rowRt[v][s] = Absent <=> rowRt'[v][s] = Absent
    BY <1>6, RemoveRowIs
  <2>4. s \in todo.write /\ dst[s] # Absent => RouteSays(s, dst[s])'
    <3>1. dst[s] # Absent => dst[s] \in Route
      BY Planned
    <3>2. s \in todo.write /\ dst[s] # Absent => RouteSays(s, dst[s])
      BY <2>2 DEF RouteOnCourse
    <3>3. ASSUME s \in todo.write, dst[s] # Absent PROVE RouteSays(s, dst[s])'
      <4>1. PICK r \in Route : r = dst[s] /\ r = dst'[s]
        BY <1>3, <3>1, <3>3
      <4>2. RouteSays(s, r)
        BY <3>2, <3>3, <4>1
      <4>3. RouteSays(s, r)'
        BY <1>11, <4>2
      <4> QED
        BY <4>1, <4>3 DEF RouteSays
    <3> QED
      BY <3>3
  <2>5. ASSUME s \notin todo.write, src[s] # Absent PROVE RouteSays(s, src[s])'
    <3>1. PICK r \in Route : r = src[s] /\ r = src'[s]
      BY <1>3, <2>5, Planned
    <3>2. RouteSays(s, r)
      BY <2>2, <2>5, <3>1 DEF RouteOnCourse
    <3>3. RouteSays(s, r)'
      BY <1>11, <3>2
    <3> QED
      BY <3>1, <3>3 DEF RouteSays
  <2>6. /\ s \in todo.write /\ dst[s] = Absent => rowRt'[v][s] = Absent
        /\ src[s] = Absent /\ rowRt'[v][s] # Absent => s \in todo.delete
    BY <2>1, <2>2, <2>3 DEF RouteOnCourse
  <2>7. (s \in todo'.write <=> s \in todo.write) /\ (s \in todo'.delete <=> s \in todo.delete)
    BY <1>3, <2>2
  <2> HIDE DEF RouteSays
  <2> QED
    BY <1>3, <2>1, <2>4, <2>5, <2>6, <2>7 DEF RouteOnCourse
<1>13. DeviceOnCourse'
  BY <1>1, <1>4, DeviceStays
<1> QED
  BY <1>3, <1>10, <1>12, <1>13 DEF PullIsOnCourse

\* The steps of routes leave the interfaces on course.
LEMMA InterfacesStay ==
    ASSUME TypeOK, NEW s \in Seqs, Applied(s), rowIf' = rowIf, todo.write \cap Ifaces = {},
           \A i \in Ifaces : InterfaceOnCourse(i)
    PROVE  \A i \in Ifaces : InterfaceOnCourse(i)'
<1>1. /\ job' = job /\ src' = src /\ dst' = dst
      /\ todo'.write = todo.write \ {s} /\ todo'.delete = todo.delete \ {s}
  BY AppliedIs
<1>2. ASSUME NEW i \in Ifaces PROVE InterfaceOnCourse(i)'
  <2>1. i # s /\ InterfaceOnCourse(i) /\ i \notin todo.write /\ i \notin todo'.write
    BY <1>1, Kinds
  <2>2. InterfaceSettled(i) => InterfaceSettled(i)'
    BY <1>1 DEF InterfaceSettled, LostItsParent
  <2> QED
    BY <1>1, <2>1, <2>2 DEF InterfaceOnCourse
<1> QED
  BY <1>2

LEMMA RouteWrittenCourse ==
    ASSUME TypeOK, RowsAreWhole, PlanFollowsDiff, PullIsOnCourse, NEW s \in Seqs,
           PullRouteCreate(s) \/ PullRouteUpdate(s)
    PROVE  PullIsOnCourse'
<1>1. Turn("pull", "write", s) /\ Applied(s) /\ UNCHANGED <<deviceVars, anchor, scope, rowIf, ipam>>
  BY RouteWritten
<1>2. /\ job.phase = "syncing" /\ job.form.kind = "pull" /\ s \in todo.write
      /\ todo.write \cap Ifaces = {} /\ Host \notin todo.write
  BY <1>1, TurnIs, TurnsInOrder
<1>3. /\ job' = job /\ src' = src /\ dst' = dst
      /\ todo'.write = todo.write \ {s} /\ todo'.delete = todo.delete \ {s}
  BY <1>1, AppliedIs
<1>4. src[s] # Absent /\ src[s] \in Route /\ job.form.routes
  BY <1>2, Planned
<1>5. /\ DeviceOnCourse /\ anchor
      /\ \A k \in Ifaces : InterfaceOnCourse(k)
      /\ \A t \in Seqs : RouteOnCourse(t)
  BY <1>2, <1>4 DEF PullIsOnCourse, DeviceOnCourse, Working
<1>6. PICK v \in Vdoms : v = job.form.vdom /\ v = job'.form.vdom
  BY <1>3, JobIs
<1>7. IF dst[s] = Absent THEN rowRt[v][s] = Absent ELSE RouteSays(s, dst[s])
  BY <1>2, <1>5, <1>6 DEF RouteOnCourse
<1>8. dst[s] = Absent <=> rowRt[v][s] = Absent
  BY <1>6, <1>7 DEF RouteSays
<1>9. PICK new \in Route :
         /\ rowRt' = [rowRt EXCEPT ![v][s] = new]
         /\ \/ /\ dst[s] = Absent
               /\ new.dest = src[s].dest /\ new.gateway = src[s].gateway
               /\ new.blackhole = src[s].blackhole /\ new.text = src[s].text
               /\ new.via = ResolveInterface(src[s].via)
            \/ /\ dst[s] # Absent /\ rowRt[v][s] # Absent
               /\ new.dest = IF src[s].dest # dst[s].dest THEN src[s].dest ELSE rowRt[v][s].dest
               /\ new.gateway = IF src[s].gateway # dst[s].gateway THEN src[s].gateway
                                ELSE rowRt[v][s].gateway
               /\ new.blackhole = IF src[s].blackhole # dst[s].blackhole
                                  THEN src[s].blackhole ELSE rowRt[v][s].blackhole
               /\ new.text = IF src[s].text # dst[s].text THEN src[s].text ELSE rowRt[v][s].text
               /\ new.via = IF src[s].via # dst[s].via THEN ResolveInterface(src[s].via)
                            ELSE rowRt[v][s].via
  <2>1. PICK new \in Route :
         /\ rowRt' = [rowRt EXCEPT ![job.form.vdom][s] = new]
         /\ \/ /\ dst[s] = Absent
               /\ new.dest = src[s].dest /\ new.gateway = src[s].gateway
               /\ new.blackhole = src[s].blackhole /\ new.text = src[s].text
               /\ new.via = ResolveInterface(src[s].via)
            \/ /\ dst[s] # Absent /\ rowRt[job.form.vdom][s] # Absent
               /\ new.dest = IF src[s].dest # dst[s].dest THEN src[s].dest ELSE rowRt[job.form.vdom][s].dest
               /\ new.gateway = IF src[s].gateway # dst[s].gateway THEN src[s].gateway
                                ELSE rowRt[job.form.vdom][s].gateway
               /\ new.blackhole = IF src[s].blackhole # dst[s].blackhole
                                  THEN src[s].blackhole ELSE rowRt[job.form.vdom][s].blackhole
               /\ new.text = IF src[s].text # dst[s].text THEN src[s].text ELSE rowRt[job.form.vdom][s].text
               /\ new.via = IF src[s].via # dst[s].via THEN ResolveInterface(src[s].via)
                            ELSE rowRt[job.form.vdom][s].via
    <3>1. anchor /\ ~(dst[s] # Absent /\ rowRt[job.form.vdom][s] = Absent)
      BY <1>5, <1>6, <1>8
    <3> QED
      BY <3>1, RouteWritten
  <2>2. job.form.vdom = v
    BY <1>6
  <2> QED
    BY <2>1, <2>2
<1>10. \A t \in Seqs : rowRt'[v][t] = IF t = s THEN new ELSE rowRt[v][t]
  BY <1>9 DEF TypeOK
<1>11. new # Absent
  BY RouteIs
<1>12. ResolveInterface(src[s].via) # src[s].via => src[s].via # None /\ rowIf[src[s].via] = Absent
  BY DEF ResolveInterface
<1>13. /\ new.dest = src[s].dest /\ new.gateway = src[s].gateway
       /\ new.blackhole = src[s].blackhole /\ new.text = src[s].text
       /\ new.via # src[s].via => src[s].via # None /\ rowIf[src[s].via] = Absent
  <2>1. CASE dst[s] = Absent
    BY <1>9, <1>12, <2>1
  <2>2. CASE dst[s] # Absent
    <3>1. /\ rowRt[v][s].dest = dst[s].dest /\ rowRt[v][s].gateway = dst[s].gateway
          /\ rowRt[v][s].blackhole = dst[s].blackhole /\ rowRt[v][s].text = dst[s].text
          /\ rowRt[v][s].via # dst[s].via => dst[s].via # None /\ rowIf[dst[s].via] = Absent
      BY <1>6, <1>7, <2>2 DEF RouteSays
    <3> QED
      BY <1>9, <1>12, <2>2, <3>1
  <2> QED
    BY <2>1, <2>2
<1>14. todo'.write \cap Ifaces = {} /\ rowIf' = rowIf
  BY <1>1, <1>2, <1>3
<1>15. RouteOnCourse(s)'
  <2>1. RouteSays(s, src[s])'
    BY <1>3, <1>6, <1>10, <1>11, <1>13, <1>14 DEF RouteSays
  <2>2. s \notin todo'.write
    BY <1>3
  <2> HIDE DEF RouteSays
  <2> QED
    BY <1>3, <1>4, <2>1, <2>2 DEF RouteOnCourse
<1>16. ASSUME NEW t \in Seqs, t # s PROVE RouteOnCourse(t)'
  <2>1. RouteOnCourse(t) /\ rowRt'[v][t] = rowRt[v][t]
    BY <1>5, <1>10, <1>16
  <2>2. \A r : RouteSays(t, r)' <=> RouteSays(t, r)
    BY <1>2, <1>6, <1>14, <2>1 DEF RouteSays
  <2> QED
    BY <1>3, <1>6, <1>16, <2>1, <2>2 DEF RouteOnCourse, RouteSays
<1>17. \A k \in Ifaces : InterfaceOnCourse(k)'
  BY <1>1, <1>2, <1>5, InterfacesStay
<1>18. DeviceOnCourse'
  BY <1>1, <1>5, DeviceStays
<1> QED
  BY <1>15, <1>16, <1>17, <1>18 DEF PullIsOnCourse

LEMMA RouteDeletedCourse ==
    ASSUME TypeOK, PlanFollowsDiff, PullIsOnCourse, NEW s \in Seqs, PullRouteDelete(s)
    PROVE  PullIsOnCourse'
<1>1. /\ Turn("pull", "delete", s) /\ Applied(s) /\ UNCHANGED <<anchor, scope, rowIf>>
      /\ rowRt' = [rowRt EXCEPT ![job.form.vdom][s] = Absent]
  BY DEF PullRouteDelete
<1>2. /\ job.phase = "syncing" /\ job.form.kind = "pull" /\ s \in todo.delete
      /\ todo.write \cap Ifaces = {} /\ Host \notin todo.write
  BY <1>1, TurnIs, TurnsInOrder
<1>3. /\ job' = job /\ src' = src /\ dst' = dst
      /\ todo'.write = todo.write \ {s} /\ todo'.delete = todo.delete \ {s}
  BY <1>1, AppliedIs
<1>4. src[s] = Absent /\ dst[s] # Absent
  BY <1>2, Planned
<1>5. /\ DeviceOnCourse /\ anchor
      /\ \A k \in Ifaces : InterfaceOnCourse(k)
      /\ \A t \in Seqs : RouteOnCourse(t)
  BY <1>2, <1>4, Planned DEF PullIsOnCourse, DeviceOnCourse, Working
<1>6. PICK v \in Vdoms : v = job.form.vdom /\ v = job'.form.vdom
  BY <1>3, JobIs
<1>7. \A t \in Seqs : rowRt'[v][t] = IF t = s THEN Absent ELSE rowRt[v][t]
  BY <1>1, <1>6 DEF TypeOK
<1>8. todo'.write \cap Ifaces = {} /\ rowIf' = rowIf
  BY <1>1, <1>2, <1>3
<1>9. RouteOnCourse(s)'
  BY <1>3, <1>4, <1>6, <1>7 DEF RouteOnCourse
<1>10. ASSUME NEW t \in Seqs, t # s PROVE RouteOnCourse(t)'
  <2>1. RouteOnCourse(t) /\ rowRt'[v][t] = rowRt[v][t]
    BY <1>5, <1>7, <1>10
  <2>2. \A r : RouteSays(t, r)' <=> RouteSays(t, r)
    BY <1>2, <1>6, <1>8, <2>1 DEF RouteSays
  <2> QED
    BY <1>3, <1>6, <1>10, <2>1, <2>2 DEF RouteOnCourse, RouteSays
<1>11. \A k \in Ifaces : InterfaceOnCourse(k)'
  BY <1>1, <1>2, <1>5, InterfacesStay
<1>12. DeviceOnCourse'
  BY <1>1, <1>5, DeviceStays
<1> QED
  BY <1>9, <1>10, <1>11, <1>12 DEF PullIsOnCourse

----------------------------------------------------------------------------
(* The invariant.                                                          *)

\* A run that is not past its loads, or no longer runs, has no course to keep.
LEMMA NoCourse ==
    ASSUME job'.phase \notin {"target", "loaded"} \cup Working
    PROVE  LoadsAreCurrent' /\ PullIsOnCourse' /\ PushIsOnCourse'
BY DEF LoadsAreCurrent, PullIsOnCourse, PushIsOnCourse

\* A working run that writes nothing keeps its course.
LEMMA SameCourse ==
    ASSUME TypeOK, PullIsOnCourse, PushIsOnCourse, job.phase \in Working,
           UNCHANGED <<deviceVars, rowVars, src, dst, todo>>, job'.form = job.form
    PROVE  PullIsOnCourse' /\ PushIsOnCourse'
<1>1. /\ ifs' = ifs /\ rts' = rts /\ anchor' = anchor /\ rowIf' = rowIf /\ rowRt' = rowRt
      /\ src' = src /\ dst' = dst /\ todo' = todo /\ job'.form = job.form
  BY DEF deviceVars, rowVars
<1>2. \A i \in Ifaces : InterfaceOnCourse(i) => InterfaceOnCourse(i)'
  BY <1>1 DEF InterfaceOnCourse, InterfaceSettled, LostItsParent, RowSays
<1>3. \A s \in Seqs : RouteOnCourse(s) => RouteOnCourse(s)'
  BY <1>1 DEF RouteOnCourse, RouteSays
<1>4. \A i \in Ifaces : VlanArrived(i) => VlanArrived(i)'
  BY <1>1 DEF VlanArrived, Readable
<1>5. \A s \in Seqs : RouteArrived(s) => RouteArrived(s)'
  BY <1>1 DEF RouteArrived
<1>6. Left' = Left /\ Writes(src, dst)' = Writes(src, dst)
  BY <1>1 DEF Left, Writes
<1>7. \A i \in Ifaces : Readable(job.form.vdom, i)' = Readable(job.form.vdom, i)
  BY <1>1 DEF Readable
<1>8. PullIsOnCourse'
  <2>1. scope' = scope
    BY DEF rowVars
  <2>2. DeviceOnCourse => DeviceOnCourse'
    BY <1>1, <2>1 DEF DeviceOnCourse
  <2> QED
    BY <1>1, <1>2, <1>3, <2>2 DEF PullIsOnCourse
<1>9. PushIsOnCourse'
  BY <1>1, <1>4, <1>5, <1>6, <1>7 DEF PushIsOnCourse
<1> QED
  BY <1>8, <1>9

LEMMA PulledCourse ==
    ASSUME TypeOK, RowsAreWhole, PlanFollowsDiff, PullIsOnCourse, Pull
    PROVE  /\ PullIsOnCourse' /\ UNCHANGED deviceVars /\ job' = job /\ src' = src
           /\ job.phase = "syncing" /\ job.form.kind = "pull"
<1>1. PullIsOnCourse'
  BY PullStep, PulledDevice, WrittenCourse, RemovedCourse, RouteWrittenCourse, RouteDeletedCourse
<1>2. PICK n \in Elements : Applied(n) /\ (Turn("pull", "write", n) \/ Turn("pull", "delete", n))
  BY PullStep, Kinds
     DEF PullDeviceCreate, PullDeviceUpdate, PullInterfaceCreate, PullInterfaceUpdate,
         PullInterfaceDelete, PullRouteCreate, PullRouteUpdate, PullRouteDelete
<1>3. UNCHANGED deviceVars
  BY PullStep, InterfaceWritten, RouteWritten
     DEF PullDeviceCreate, PullDeviceUpdate, Skipped, PullInterfaceDelete, PullRouteDelete
<1> QED
  BY <1>1, <1>2, <1>3, TurnIs, AppliedIs

LEMMA CourseStays ==
    ASSUME TypeOK, RowsAreWhole, PlanFollowsDiff,
           ~touched => LoadsAreCurrent /\ PullIsOnCourse /\ PushIsOnCourse,
           [Next]_vars, ~touched'
    PROVE  LoadsAreCurrent' /\ PullIsOnCourse' /\ PushIsOnCourse'
<1>1. CASE Start
  <2>1. job'.phase = "source"
    BY <1>1 DEF Start
  <2> QED
    BY <2>1, NoCourse DEF Working
<1>2. CASE Operators
  <2>1. touched' = TRUE
    BY <1>2, TypedWorld, OperatorsWhole DEF Edited
  <2> QED
    BY <2>1
<1>3. CASE LoadSource \/ LoadTarget
  <2>1. touched' = touched
    BY <1>3 DEF LoadSource, LoadTarget
  <2>2. LoadsAreCurrent' /\ job'.phase \notin Working
    BY <1>3, <2>1, LoadedCourse
  <2> QED
    BY <2>2 DEF PullIsOnCourse, PushIsOnCourse
<1>4. CASE ExecuteSync
  <2>1. /\ job.phase = "loaded" /\ Advance("syncing") /\ "syncing" \in Idle \cup Running
        /\ UNCHANGED <<deviceVars, rowVars, src, touched>>
    BY <1>4 DEF ExecuteSync, Running
  <2>2. job'.phase = "syncing" /\ job'.form = job.form
    BY <2>1, AdvanceIs
  <2>3. LoadsAreCurrent'
    BY <2>1, <2>2, LoadsStay DEF Working
  <2>4. CASE job.form.kind = "pull"
    <3>1. PullIsOnCourse'
      BY <1>4, <2>1, <2>4, PullStarts
    <3> QED
      BY <2>2, <2>3, <2>4, <3>1 DEF PushIsOnCourse
  <2>5. CASE job.form.kind = "push"
    <3>1. PushIsOnCourse'
      BY <1>4, <2>1, <2>5, PushStarts
    <3> QED
      BY <2>2, <2>3, <2>5, <3>1 DEF PullIsOnCourse
  <2> QED
    BY <2>4, <2>5, JobIs
<1>5. CASE Pull
  <2>1. touched' = touched
    BY <1>5, PullStep, AppliedIs
       DEF PullDeviceCreate, PullDeviceUpdate, PullInterfaceCreate, PullInterfaceUpdate,
           PullInterfaceDelete, PullRouteCreate, PullRouteUpdate, PullRouteDelete
  <2>2. /\ PullIsOnCourse' /\ UNCHANGED deviceVars /\ job' = job /\ src' = src
        /\ job.phase = "syncing" /\ job.form.kind = "pull"
    BY <1>5, <2>1, PulledCourse
  <2>3. LoadsAreCurrent'
    BY <2>1, <2>2, LoadsStay DEF Working
  <2> QED
    BY <2>2, <2>3 DEF PushIsOnCourse
<1>6. CASE Push /\ ~Raised
  <2>1. PICK n \in Elements : Applied(n) /\ (Turn("push", "write", n) \/ Turn("push", "delete", n))
    BY <1>6, PushStep, Kinds, InterfacePushed, InterfaceUnpushed, RoutePushed, RouteUnpushed
       DEF PushDevice
  <2>2. /\ job' = job /\ src' = src /\ touched' = touched
        /\ job.phase = "syncing" /\ job.form.kind = "push"
    BY <2>1, TurnIs, AppliedIs
  <2>3. PushIsOnCourse' /\ UNCHANGED rowVars
    BY <1>6, <2>2, PushedCourse
  <2>4. LoadsAreCurrent'
    BY <2>2, <2>3, LoadsStay DEF Working
  <2> QED
    BY <2>2, <2>3, <2>4 DEF PullIsOnCourse
<1>7. CASE Raised \/ Crash
  <2>1. PICK p \in {"failed", "crashed"} : Advance(p)
    BY <1>7 DEF Raised, Crash
  <2>2. job'.phase = p
    BY <2>1, AdvanceIs DEF Idle
  <2> QED
    BY <2>2, NoCourse DEF Working
<1>8. CASE Finish
  <2>1. /\ job.phase = "syncing" /\ Advance("done") /\ "done" \in Idle \cup Running
        /\ UNCHANGED <<deviceVars, rowVars, src, dst, todo, touched>>
    BY <1>8 DEF Finish, Idle
  <2>2. job'.phase = "done" /\ job'.form = job.form
    BY <2>1, AdvanceIs
  <2> QED
    BY <2>1, <2>2, LoadsStay, SameCourse DEF Working
<1>9. CASE UNCHANGED vars
  <2>1. /\ UNCHANGED <<deviceVars, rowVars, src, dst, todo, touched>> /\ job' = job
    BY <1>9 DEF vars, deviceVars, rowVars
  <2>2. CASE job.phase \in Working
    BY <2>1, <2>2, LoadsStay, SameCourse
  <2>3. CASE job.phase \notin Working
    <3>1. DeviceReads' = DeviceReads /\ anchor' = anchor
          /\ ReadOrm(job.form.vdom, job.form.routes)' = ReadOrm(job.form.vdom, job.form.routes)
      BY <2>1, SameDevice, SameRows DEF rowVars
    <3> QED
      BY <2>1, <2>3, <3>1 DEF LoadsAreCurrent, PullIsOnCourse, PushIsOnCourse
  <2> QED
    BY <2>2, <2>3
<1> QED
  BY <1>1, <1>2, <1>3, <1>4, <1>5, <1>6, <1>7, <1>8, <1>9 DEF Next

LEMMA SyncInvariantStarts == Init => SyncInvariant
<1> SUFFICES ASSUME Init PROVE SyncInvariant
  OBVIOUS
<1>1. TypeOK /\ RowsAreWhole /\ PlanFollowsDiff
  BY InitTyped
<1>2. job.phase = "idle"
  BY DEF Init
<1>3. LoadsAreCurrent /\ PullIsOnCourse /\ PushIsOnCourse
  BY <1>2 DEF LoadsAreCurrent, PullIsOnCourse, PushIsOnCourse, Working
<1> QED
  BY <1>1, <1>3 DEF SyncInvariant

LEMMA SyncInvariantStays == SyncInvariant /\ [Next]_vars => SyncInvariant'
<1> SUFFICES ASSUME SyncInvariant, [Next]_vars PROVE SyncInvariant'
  OBVIOUS
<1>1. /\ TypeOK /\ RowsAreWhole /\ PlanFollowsDiff
      /\ ~touched => LoadsAreCurrent /\ PullIsOnCourse /\ PushIsOnCourse
  BY DEF SyncInvariant
<1>2. TypeOK' /\ RowsAreWhole' /\ PlanFollowsDiff'
  BY <1>1, StepIsTyped
<1>3. ~touched' => LoadsAreCurrent' /\ PullIsOnCourse' /\ PushIsOnCourse'
  BY <1>1, CourseStays
<1> QED
  BY <1>2, <1>3 DEF SyncInvariant

\* In every reachable state the variables are typed, rows hang on what is
\* there, the plan is in the diff, and a run nobody disturbed has written one
\* part of it and finds the other as it was loaded.
THEOREM SyncInvariantHolds == Spec => []SyncInvariant
<1>1. Init => SyncInvariant
  BY SyncInvariantStarts
<1>2. SyncInvariant /\ [Next]_vars => SyncInvariant'
  BY SyncInvariantStays
<1> QED
  BY <1>1, <1>2, PTL DEF Spec

\* Every variable keeps its type: no adapter ever holds a tunnel or a route
\* without a destination, and no row a type Nautobot does not know.
THEOREM TypesHold == Spec => []TypeOK
<1>1. SyncInvariant => TypeOK
  BY DEF SyncInvariant
<1> QED
  BY <1>1, SyncInvariantHolds, PTL

----------------------------------------------------------------------------
(* What follows from it.                                                   *)

LEMMA PullResidueFollows == SyncInvariant => PullResidue
<1> SUFFICES ASSUME SyncInvariant, Clean("pull") PROVE PullResidue
  BY DEF PullResidue
<1>1. /\ TypeOK /\ RowsAreWhole /\ PlanFollowsDiff /\ LoadsAreCurrent /\ PullIsOnCourse
      /\ job.phase = "done" /\ job.form.kind = "pull" /\ "done" \in Working
  BY DEF SyncInvariant, Clean, Working
<1>2. PICK v \in Vdoms, routes \in BOOLEAN : v = job.form.vdom /\ routes = job.form.routes
  BY <1>1, JobIs
<1>3. todo.write = {} /\ todo.delete = {}
  BY <1>1, TodoIs DEF PlanFollowsDiff
<1>4. /\ anchor /\ scope = IF dst[Host] = Absent THEN src[Host] ELSE dst[Host]
      /\ \A i \in Ifaces : InterfaceOnCourse(i)
      /\ routes => \A s \in Seqs : RouteOnCourse(s)
  BY <1>1, <1>2, <1>3 DEF PullIsOnCourse, DeviceOnCourse
<1>5. PICK asked \in {routes, FALSE} : src = ReadFgt(v, asked)
  BY <1>1, <1>2 DEF LoadsAreCurrent, DeviceReads
<1> DEFINE source == ReadFgt(v, routes)
           target == ReadOrm(v, routes)
<1>6. \A i \in Ifaces : src[i] = source[i]
  BY <1>5, ReadFgtIs
<1>7. \A s \in Seqs : src[s] # Absent => routes /\ src[s] = source[s]
  <2>1. ASSUME NEW s \in Seqs, src[s] # Absent PROVE routes /\ src[s] = source[s]
    <3>1. asked
      BY <1>5, <2>1, ReadFgtIs
    <3> QED
      BY <1>5, <3>1
  <2> QED
    BY <2>1
<1>8. \A s \in Seqs : target[s] = IF routes THEN rowRt[v][s] ELSE Absent
  BY <1>4, ReadOrmIs
<1>9. ASSUME NEW i \in Ifaces
      PROVE  /\ target[i] = Absent <=> rowIf[i] = Absent
             /\ rowIf[i] # Absent => RowSays(i, target[i])
  BY <1>1, OrmInterface
<1>13. target[Host] = IF dst[Host] = Absent THEN source[Host] ELSE dst[Host]
  BY <1>4, <1>5, ReadFgtIs, ReadOrmIs
<1>14. \A i \in Ifaces : source[i] # Absent =>
          ifs[i] \in DeviceInterface /\ ifs[i].type # "tunnel" /\ source[i] = ReadInterface(ifs[i])
  BY <1>1, ReadFgtIs DEF Readable, TypeOK
<1>15. \A i \in Ifaces : rowIf[i] # Absent => target[i] = ReadRow(rowIf[i])
  BY <1>4, ReadOrmIs
<1> HIDE DEF source, target
<1>10. Deletes(src, target) = {}
  <2>1. src[Host] # Absent
    BY <1>1, <1>5, JobIs, ReadFgtIs, RecordsAreSomething DEF GivenScope
  <2>2. ASSUME NEW i \in Ifaces, src[i] = Absent PROVE target[i] = Absent
    BY <1>3, <1>4, <1>9, <2>2 DEF InterfaceOnCourse
  <2>3. ASSUME NEW s \in Seqs, src[s] = Absent PROVE target[s] = Absent
    BY <1>2, <1>3, <1>4, <1>8, <2>3 DEF RouteOnCourse
  <2> QED
    BY <2>1, <2>2, <2>3, Kinds DEF Deletes
<1>11. ASSUME NEW i \in Ifaces, source[i] # Absent, ~LostItsParent(i)
       PROVE  /\ target[i] # Absent
              /\ source[i].type = target[i].type /\ source[i].text = target[i].text
              /\ source[i].vlan # target[i].vlan => source[i].vlan = None
              /\ source[i].mode # target[i].mode => ifs[i].type = "port" /\ target[i].vlan # None
              /\ source[i].parent # target[i].parent =>
                    \/ source[i].parent = None \/ rowIf[source[i].parent] = Absent
                    \/ dst[source[i].parent] = Absent
              /\ HostsOf(source[i].ips) = HostsOf(target[i].ips)
  <2>1. src[i] = source[i] /\ InterfaceSettled(i)
    BY <1>3, <1>4, <1>6, <1>11 DEF InterfaceOnCourse
  <2>2. /\ rowIf[i] # Absent
        /\ rowIf[i].type = source[i].type /\ rowIf[i].text = source[i].text
        /\ rowIf[i].hosts = HostsOf(source[i].ips)
        /\ rowIf[i].vlan # source[i].vlan => source[i].vlan = None
        /\ rowIf[i].parent # source[i].parent =>
                \/ source[i].parent = None
                \/ rowIf[source[i].parent] = Absent \/ dst[source[i].parent] = Absent
    BY <1>11, <2>1 DEF InterfaceSettled
  <2>3. /\ rowIf[i].type = target[i].type /\ rowIf[i].parent = target[i].parent
        /\ rowIf[i].vlan = target[i].vlan /\ rowIf[i].text = target[i].text
        /\ rowIf[i].hosts = HostsOf(target[i].ips)
    BY <1>9, <2>2 DEF RowSays
  <2>4. PICK r \in DeviceInterface : /\ r = ifs[i] /\ r.type # "tunnel"
                                    /\ source[i] = ReadInterface(r)
    BY <1>11, <1>14
  <2>5. target[i].mode = IF rowIf[i].vlan # None THEN rowIf[i].mode ELSE None
    <3>1. PICK d : d = target[i] /\ d = ReadRow(rowIf[i])
      BY <1>15, <2>2
    <3>2. d.mode = IF rowIf[i].vlan # None THEN rowIf[i].mode ELSE None
      BY <3>1 DEF ReadRow
    <3> QED
      BY <3>1, <3>2
  <2>6. source[i].mode # target[i].mode => r.type = "port" /\ rowIf[i].vlan # None
    <3>1. CASE r.type = "virtual"
      <4>1. source[i].mode = "tagged" /\ source[i].vlan # None
        BY <2>4, <3>1, ReadInterfaceIs, DeviceInterfaceIs
      <4>2. rowIf[i].mode = "tagged" /\ rowIf[i].vlan # None
        BY <2>1, <2>2, <4>1, <1>11 DEF InterfaceSettled
      <4> QED
        BY <2>5, <4>1, <4>2
    <3>2. CASE r.type # "virtual"
      <4>1. r.type = "port" /\ source[i].mode = None
        BY <2>4, <3>2, ReadInterfaceIs, DeviceInterfaceIs
      <4> QED
        BY <2>5, <4>1
    <3> QED
      BY <3>1, <3>2
  <2> QED
    BY <1>9, <2>2, <2>3, <2>4, <2>6
<1>12. ASSUME NEW s \in Seqs, src[s] # Absent
       PROVE  /\ target[s] # Absent
              /\ [source[s] EXCEPT !.via = None] = [target[s] EXCEPT !.via = None]
              /\ source[s].via # target[s].via => rowIf[source[s].via] = Absent
  <2>1. routes /\ src[s] = source[s] /\ target[s] = rowRt[v][s]
    BY <1>7, <1>8, <1>12
  <2>2. RouteSays(s, source[s])
    BY <1>3, <1>4, <1>12, <2>1 DEF RouteOnCourse
  <2>3. PICK d \in Route : d = source[s]
    BY <1>1, <1>12, <2>1, Planned
  <2>4. PICK r \in Route : r = target[s]
    BY <1>1, <1>2, <2>1, <2>2 DEF RouteSays, TypeOK
  <2>5. /\ r.dest = d.dest /\ r.gateway = d.gateway
        /\ r.blackhole = d.blackhole /\ r.text = d.text
        /\ r.via # d.via => rowIf[d.via] = Absent
    BY <1>2, <2>1, <2>2, <2>3, <2>4 DEF RouteSays
  <2>6. [d EXCEPT !.via = None] = [r EXCEPT !.via = None]
    <3>1. /\ d = [dest |-> d.dest, gateway |-> d.gateway, via |-> d.via,
                  blackhole |-> d.blackhole, text |-> d.text]
          /\ r = [dest |-> r.dest, gateway |-> r.gateway, via |-> r.via,
                  blackhole |-> r.blackhole, text |-> r.text]
      BY DEF Route
    <3>2. /\ [d EXCEPT !.via = None] =
                 [dest |-> d.dest, gateway |-> d.gateway, via |-> None,
                  blackhole |-> d.blackhole, text |-> d.text]
          /\ [r EXCEPT !.via = None] =
                 [dest |-> r.dest, gateway |-> r.gateway, via |-> None,
                  blackhole |-> r.blackhole, text |-> r.text]
      BY DEF Route
    <3> QED
      BY <2>5, <3>2
  <2>7. r # Absent
    BY RouteIs
  <2> QED
    BY <2>3, <2>4, <2>5, <2>6, <2>7
<1> USE DEF source, target
<1> QED
  BY <1>2, <1>10, <1>11, <1>12, <1>13 DEF PullResidue

\* A clean pull leaves the two sides apart in no way but those PullResidue
\* names, whatever the tables, their nesting and the order of the writes.
THEOREM CleanPullResidue == Spec => []PullResidue
BY SyncInvariantHolds, PullResidueFollows, PTL

LEMMA PushDeliversFollows == SyncInvariant => PushDelivers
<1> SUFFICES ASSUME SyncInvariant, Clean("push") PROVE PushDelivers
  BY DEF PushDelivers
<1>1. /\ TypeOK /\ PlanFollowsDiff /\ PushIsOnCourse
      /\ job.phase = "done" /\ job.form.kind = "push" /\ "done" \in Working
  BY DEF SyncInvariant, Clean, Working
<1>2. todo.write = {}
  BY <1>1, TodoIs DEF PlanFollowsDiff
<1> QED
  BY <1>1, <1>2 DEF PushIsOnCourse, PushDelivers

\* After a clean push every VLAN and route that differed and may be pushed is
\* on the device: no later write or deletion of the run takes it away.
THEOREM CleanPushDelivers == Spec => []PushDelivers
BY SyncInvariantHolds, PushDeliversFollows, PTL

\* Only a push changes the device, apart from its operators.
LEMMA DeviceChanges ==
    ASSUME TypeOK, RowsAreWhole, PlanFollowsDiff, [Next]_vars, JobStep
    PROVE  UNCHANGED deviceVars \/ (Push /\ ~Raised)
<1>1. ~Operators
  <2>1. Operators => edits' = edits + 1
    BY TypedWorld, OperatorsWhole DEF Edited
  <2>2. edits \in Nat
    BY ConstantsAssumption DEF TypeOK
  <2> QED
    BY <2>1, <2>2 DEF JobStep
<1>2. Pull => UNCHANGED deviceVars
  BY PullStep, InterfaceWritten, RouteWritten
     DEF PullDeviceCreate, PullDeviceUpdate, Skipped, PullInterfaceDelete, PullRouteDelete
<1>3. Start \/ LoadSource \/ LoadTarget \/ ExecuteSync \/ Finish \/ Crash \/ Raised
      => UNCHANGED deviceVars
  BY DEF Start, LoadSource, LoadTarget, ExecuteSync, Finish, Crash, Raised
<1>4. UNCHANGED vars => UNCHANGED deviceVars
  BY DEF vars, deviceVars
<1> QED
  BY <1>1, <1>2, <1>3, <1>4 DEF Next

LEMMA PushInBoundsStep ==
    ASSUME SyncInvariant, [Next]_vars, JobStep, job.form.kind = "push"
    PROVE  /\ \A s \in Seqs : s < MIN_PUSHABLE_SEQ_NUM => rts'[s] = rts[s]
           /\ \A i \in Ifaces : ~touched /\ ifs'[i] # ifs[i] /\ ifs[i] # Absent =>
                Readable(job.form.vdom, i) /\ IsPushableVlan(ifs[i])
           /\ \A s \in Seqs :
                ~touched /\ rts[s] # Absent /\ rts[s].blackhole /\ rts'[s] # rts[s] =>
                   ~src[s].blackhole /\ rts'[s] # Absent /\ rts'[s].blackhole
<1>1. /\ TypeOK /\ RowsAreWhole /\ PlanFollowsDiff
      /\ ~touched => PushIsOnCourse
  BY DEF SyncInvariant
<1>2. World /\ (UNCHANGED deviceVars \/ (Push /\ ~Raised))
  BY <1>1, TypedWorld, DeviceChanges
<1>3. CASE UNCHANGED deviceVars
  BY <1>3 DEF deviceVars
<1>4. ASSUME NEW s \in Seqs, NEW r, IsPushableRoute(s, r) PROVE ~(s < MIN_PUSHABLE_SEQ_NUM)
  <2>1. s \in Nat
    BY ConstantsAssumption
  <2> QED
    BY <1>4, <2>1 DEF IsPushableRoute, MIN_PUSHABLE_SEQ_NUM
<1>5. ASSUME NEW i \in Ifaces, i \in Left, job.phase = "syncing", dst[i] # Absent, ~touched
      PROVE  Readable(job.form.vdom, i) /\ dst[i] = ReadInterface(ifs[i])
             /\ ifs[i] \in DeviceInterface
  <2>1. Readable(job.form.vdom, i) /\ dst[i] = ReadInterface(ifs[i])
    BY <1>1, <1>5 DEF PushIsOnCourse, Working
  <2> QED
    BY <1>1, <2>1 DEF Readable, TypeOK
<1>6. ASSUME NEW i \in Ifaces, PushInterfaceCreate(i) \/ PushInterfaceUpdate(i), ~Raised
      PROVE  /\ rts' = rts
             /\ \A k \in Ifaces : ~touched /\ ifs'[k] # ifs[k] /\ ifs[k] # Absent =>
                   Readable(job.form.vdom, k) /\ IsPushableVlan(ifs[k])
  <2>1. job.phase = "syncing" /\ i \in Left
    BY <1>1, <1>6, InterfacePushed, TurnIs DEF Left
  <2>2. CASE Skipped
    BY <2>2 DEF Skipped, deviceVars
  <2>3. CASE ~Skipped
    <3>1. PICK p \in DeviceInterface :
             /\ PutInterface(i, p)
             /\ ifs[i] = Absent \/ (dst[i] # Absent /\ ifs[i].type = "virtual")
      BY <1>1, <1>6, <2>3, InterfacePushed
    <3>2. rts' = rts /\ \A k \in Ifaces : k # i => ifs'[k] = ifs[k]
      BY <1>2, <3>1, DevicePut
    <3>3. ASSUME ~touched, ifs[i] # Absent
          PROVE  Readable(job.form.vdom, i) /\ IsPushableVlan(ifs[i])
      <4>1. ifs[i].type = "virtual" /\ Readable(job.form.vdom, i) /\ ifs[i] \in DeviceInterface
        BY <1>5, <2>1, <3>1, <3>3
      <4> QED
        BY <4>1, DeviceInterfaceIs DEF IsPushableVlan
    <3> QED
      BY <3>2, <3>3
  <2> QED
    BY <2>2, <2>3
<1>7. ASSUME NEW i \in Ifaces, PushInterfaceDelete(i), ~Raised
      PROVE  /\ rts' = rts
             /\ \A k \in Ifaces : ~touched /\ ifs'[k] # ifs[k] /\ ifs[k] # Absent =>
                   Readable(job.form.vdom, k) /\ IsPushableVlan(ifs[k])
  <2>1. Turn("push", "delete", i) /\ PutInterface(i, Absent) /\ IsPushableVlan(dst[i])
    BY <1>7, InterfaceUnpushed
  <2>2. job.phase = "syncing" /\ i \in Left /\ dst[i] # Absent
    BY <1>1, <2>1, TurnIs, Planned DEF Left
  <2>3. rts' = rts /\ \A k \in Ifaces : k # i => ifs'[k] = ifs[k]
    BY <1>2, <2>1, DevicePut
  <2>4. ASSUME ~touched PROVE Readable(job.form.vdom, i) /\ IsPushableVlan(ifs[i])
    <3>1. Readable(job.form.vdom, i) /\ dst[i] = ReadInterface(ifs[i]) /\ ifs[i] \in DeviceInterface
      BY <1>5, <2>2, <2>4
    <3>2. /\ ReadInterface(ifs[i]).type = ifs[i].type /\ ReadInterface(ifs[i]).parent = ifs[i].parent
          /\ ReadInterface(ifs[i]).vlan = ifs[i].vlan
      BY <3>1, ReadInterfaceIs
    <3> QED
      BY <2>1, <3>1, <3>2 DEF IsPushableVlan
  <2> QED
    BY <2>3, <2>4
<1>8. ASSUME NEW s \in Seqs, PushRouteCreate(s) \/ PushRouteUpdate(s), ~Raised
      PROVE  /\ ifs' = ifs
             /\ \A t \in Seqs : rts'[t] # rts[t] =>
                   /\ ~(t < MIN_PUSHABLE_SEQ_NUM)
                   /\ rts[t] # Absent /\ rts[t].blackhole =>
                         ~src[t].blackhole /\ rts'[t] # Absent /\ rts'[t].blackhole
  <2>1. CASE Skipped
    BY <2>1 DEF Skipped, deviceVars
  <2>2. CASE ~Skipped
    <3>1. IsPushableRoute(s, src[s])
      BY <1>1, <1>8, <2>2, RoutePushed
    <3>2. PICK p \in DeviceRoute :
             PutRoute(s, p) /\ (rts[s] # Absent => p.blackhole = rts[s].blackhole)
      BY <1>1, <1>8, <2>2, RoutePushed
    <3>3. ifs' = ifs /\ rts'[s] = p /\ \A t \in Seqs : t # s => rts'[t] = rts[t]
      BY <1>2, <3>2, DevicePut
    <3>4. ~(s < MIN_PUSHABLE_SEQ_NUM) /\ ~src[s].blackhole
      BY <1>4, <3>1 DEF IsPushableRoute
    <3>5. p # Absent
      BY RecordsAreSomething
    <3> QED
      BY <3>2, <3>3, <3>4, <3>5
  <2> QED
    BY <2>1, <2>2
<1>9. ASSUME NEW s \in Seqs, PushRouteDelete(s), ~Raised
      PROVE  /\ ifs' = ifs
             /\ \A t \in Seqs : rts'[t] # rts[t] =>
                   /\ ~(t < MIN_PUSHABLE_SEQ_NUM)
                   /\ ~(~touched /\ rts[t] # Absent /\ rts[t].blackhole)
  <2>1. Turn("push", "delete", s) /\ PutRoute(s, Absent) /\ IsPushableRoute(s, dst[s])
    BY <1>9, RouteUnpushed
  <2>2. job.phase = "syncing" /\ job.form.kind = "push" /\ s \in Left /\ dst[s] # Absent
    BY <1>1, <2>1, TurnIs, Planned DEF Left
  <2>3. ifs' = ifs /\ \A t \in Seqs : t # s => rts'[t] = rts[t]
    BY <1>2, <2>1, DevicePut
  <2>4. ~(s < MIN_PUSHABLE_SEQ_NUM) /\ ~dst[s].blackhole
    BY <1>4, <2>1 DEF IsPushableRoute
  <2>5. ASSUME ~touched, rts[s] # Absent PROVE ~rts[s].blackhole
    <3>1. dst[s] = ReadRoute(rts[s]) /\ rts[s] \in DeviceRoute
      BY <1>1, <2>2, <2>5 DEF PushIsOnCourse, Working, TypeOK
    <3>2. ReadRoute(rts[s]).blackhole = rts[s].blackhole
      BY <3>1, ReadRouteIs
    <3> QED
      BY <2>4, <3>1, <3>2
  <2> QED
    BY <2>3, <2>4, <2>5
<1>10. CASE Push /\ ~Raised
  <2>1. CASE \E i \in Ifaces : PushInterfaceCreate(i) \/ PushInterfaceUpdate(i)
    BY <1>6, <1>10, <2>1
  <2>2. CASE \E i \in Ifaces : PushInterfaceDelete(i)
    BY <1>7, <1>10, <2>2
  <2>3. CASE \E s \in Seqs : PushRouteCreate(s) \/ PushRouteUpdate(s)
    BY <1>8, <1>10, <2>3
  <2>4. CASE \E s \in Seqs : PushRouteDelete(s)
    BY <1>9, <1>10, <2>4
  <2>5. CASE PushDevice
    BY <2>5 DEF PushDevice, Skipped, deviceVars
  <2> QED
    BY <1>10, <2>1, <2>2, <2>3, <2>4, <2>5, PushStep
<1> QED
  BY <1>2, <1>3, <1>10

\* No push ever alters a route below the threshold, or, undisturbed, an
\* interface that is not a VLAN of its VDOM, or what makes a route a blackhole.
THEOREM PushInBounds == Spec => PushStaysInBounds
<1>1. SyncInvariant /\ [Next]_vars =>
         [JobStep /\ job.form.kind = "push" =>
          /\ \A s \in Seqs : s < MIN_PUSHABLE_SEQ_NUM => rts'[s] = rts[s]
          /\ \A i \in Ifaces : ~touched /\ ifs'[i] # ifs[i] /\ ifs[i] # Absent =>
                Readable(job.form.vdom, i) /\ IsPushableVlan(ifs[i])
          /\ \A s \in Seqs :
                ~touched /\ rts[s] # Absent /\ rts[s].blackhole /\ rts'[s] # rts[s] =>
                   ~src[s].blackhole /\ rts'[s] # Absent /\ rts'[s].blackhole]_vars
  BY PushInBoundsStep
<1> QED
  BY <1>1, SyncInvariantHolds, PTL DEF Spec, PushStaysInBounds

LEMMA RoutesAreSparedStep ==
    ASSUME SyncInvariant, [Next]_vars, JobStep, ~job.form.routes
    PROVE  /\ rts' = rts
           /\ \A v \in Vdoms, s \in Seqs : rowRt[v][s] # rowRt'[v][s] =>
                rowRt'[v][s] = [rowRt[v][s] EXCEPT !.via = None]
<1>1. TypeOK /\ RowsAreWhole /\ PlanFollowsDiff /\ World
  BY TypedWorld DEF SyncInvariant
<1>2. \A s \in Seqs : s \notin todo.write /\ s \notin todo.delete
  BY <1>1, Planned
<1>3. CASE Push /\ ~Raised
  <2>1. ~\E s \in Seqs : PushRouteCreate(s) \/ PushRouteUpdate(s)
    BY <1>1, <1>2, RoutePushed, TurnIs
  <2>2. ~\E s \in Seqs : PushRouteDelete(s)
    BY <1>2, RouteUnpushed, TurnIs
  <2>3. UNCHANGED rowVars
    BY <1>1, <1>3, <2>1, <2>2, PushStep, InterfacePushed, InterfaceUnpushed
       DEF PushDevice, Skipped
  <2>4. rts' = rts
    BY <1>1, <1>3, <2>1, <2>2, PushStep, InterfacePushed, InterfaceUnpushed
       DEF PushDevice, Skipped, deviceVars, PutInterface
  <2> QED
    BY <2>3, <2>4 DEF rowVars
<1>4. CASE Pull
  <2>1. ~\E s \in Seqs : PullRouteCreate(s) \/ PullRouteUpdate(s)
    BY <1>1, <1>2, RouteWritten, TurnIs
  <2>2. ~\E s \in Seqs : PullRouteDelete(s)
    BY <1>2, TurnIs DEF PullRouteDelete
  <2>3. CASE \E i \in Ifaces : PullInterfaceDelete(i)
    <3>1. PICK i \in Ifaces : PullInterfaceDelete(i)
      BY <2>3
    <3>2. rts' = rts
      BY <3>1 DEF PullInterfaceDelete, deviceVars
    <3>3. CASE RemoveRow(i)
      BY <1>1, <3>2, <3>3, RemoveRowIs
    <3>4. CASE UNCHANGED rowRt
      BY <3>2, <3>4
    <3> QED
      BY <3>1, <3>3, <3>4 DEF PullInterfaceDelete
  <2>4. CASE \/ PullDeviceCreate \/ PullDeviceUpdate
            \/ \E i \in Ifaces : PullInterfaceCreate(i) \/ PullInterfaceUpdate(i)
    <3>1. rts' = rts /\ rowRt' = rowRt
      BY <1>1, <2>4, InterfaceWritten
         DEF PullDeviceCreate, PullDeviceUpdate, Skipped, deviceVars, rowVars
    <3> QED
      BY <3>1
  <2> QED
    BY <1>4, <2>1, <2>2, <2>3, <2>4, PullStep
<1>5. CASE Start \/ LoadSource \/ LoadTarget \/ ExecuteSync \/ Finish \/ Crash \/ Raised
           \/ UNCHANGED vars
  <2>1. rts' = rts /\ rowRt' = rowRt
    BY <1>5 DEF Start, LoadSource, LoadTarget, ExecuteSync, Finish, Crash, Raised, vars,
         deviceVars, rowVars
  <2> QED
    BY <2>1
<1>6. ~Operators
  <2>1. Operators => edits' = edits + 1
    BY <1>1, OperatorsWhole DEF Edited
  <2>2. edits \in Nat
    BY <1>1, ConstantsAssumption DEF TypeOK
  <2> QED
    BY <2>1, <2>2 DEF JobStep
<1> QED
  BY <1>3, <1>4, <1>5, <1>6 DEF Next

\* A job whose form does not ask for routes changes none, on either side, but
\* for the egress that goes with an interface row.
THEOREM RoutesAreSpared == Spec => RoutesOnlyOnRequest
<1>1. SyncInvariant /\ [Next]_vars =>
         [JobStep /\ ~job.form.routes =>
          /\ rts' = rts
          /\ \A v \in Vdoms, s \in Seqs : rowRt[v][s] # rowRt'[v][s] =>
                rowRt'[v][s] = [rowRt[v][s] EXCEPT !.via = None]]_vars
  BY RoutesAreSparedStep
<1> QED
  BY <1>1, SyncInvariantHolds, PTL DEF Spec, RoutesOnlyOnRequest
=============================================================================
