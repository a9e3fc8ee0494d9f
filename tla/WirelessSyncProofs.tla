------------------------- MODULE WirelessSyncProofs -------------------------
(***************************************************************************)
(* Proofs about WirelessSync: its inductive invariant, and from it each    *)
(* property its run checks.  The argument is that of PolicySyncProofs,     *)
(* with two things of its own: the mode of an SSID is a maximum over the   *)
(* profiles that serve it, and a radio may be there before its turn, as    *)
(* one of a profile that was posted for another.                           *)
(***************************************************************************)
EXTENDS WirelessSync, FiniteSetTheorems, FunctionTheorems, WellFoundedInduction, TLAPS

----------------------------------------------------------------------------
(* The elements, and their kinds.                                          *)

LEMMA ElementsAre ==
    /\ \A v \in Vaps : v \in Elements /\ v \notin Radios /\ v \notin Serials \cup {Blank}
    /\ \A r \in Radios : r \in Elements /\ r \notin Vaps /\ r \notin Serials \cup {Blank}
    /\ \A s \in Serials \cup {Blank} : s \in Elements /\ s \notin Vaps /\ s \notin Radios
    /\ \A s \in Serials : s # Blank /\ s \in Hosts /\ s \notin Blanks
    /\ \A d \in Blanks : d \in Hosts /\ d \notin Serials
BY ConstantsAssumption DEF Elements, Hosts

LEMMA KindIs ==
    /\ \A v \in Vaps : KindOf(v) = 1
    /\ \A r \in Radios : KindOf(r) = 2
    /\ \A s \in Serials \cup {Blank} : KindOf(s) = 3
<1>1. /\ DOMAIN TopLevel = 1..3
      /\ TopLevel[1] = Vaps /\ TopLevel[2] = Radios /\ TopLevel[3] = Serials \cup {Blank}
  BY DEF TopLevel
<1>2. \A e, k : k \in 1..3 /\ e \in TopLevel[k] => KindOf(e) \in 1..3 /\ e \in TopLevel[KindOf(e)]
  BY <1>1 DEF KindOf
<1>3. \A k \in 1..3 : k = 1 \/ k = 2 \/ k = 3
  OBVIOUS
<1> QED
  BY <1>1, <1>2, <1>3, ElementsAre

\* A radio is a profile and a slot of it.
LEMMA RadiosAre ==
    /\ \A r \in Radios : r[1] \in Profiles /\ r[2] \in Slots /\ r = <<r[1], r[2]>>
    /\ \A p \in Profiles, n \in Slots :
          <<p, n>> \in Radios /\ <<p, n>>[1] = p /\ <<p, n>>[2] = n
BY DEF Radios

----------------------------------------------------------------------------
(* Names, texts and codes.                                                 *)

LEMMA SecuritiesReadBack ==
    ASSUME NEW a \in Auths
    PROVE  /\ AuthToFortios(a) \in Securities /\ AuthToFortios(a) \notin Lossy
           /\ AuthOf(AuthToFortios(a)) = a
<1>1. DOMAIN KeyedSecurity = {"personal", "enterprise", "sae", "personal3", "enterprise3", "enterprise192", "enhanced"}
  BY DEF KeyedSecurity
<1>2. CASE a = "open"
  <2>1. AuthToFortios(a) = "open"
    BY <1>2 DEF AuthToFortios, ToFortios
  <2>2. \A b \in DOMAIN KeyedSecurity : "open" \notin KeyedSecurity[b]
    BY <1>1 DEF KeyedSecurity
  <2> QED
    BY <1>2, <2>1, <2>2 DEF AuthOf, Securities, Lossy
<1>3. CASE a \in DOMAIN KeyedSecurity
  <2>1. AuthToFortios(a) \in KeyedSecurity[a] /\ AuthToFortios(a) \notin Lossy
    BY <1>1, <1>3 DEF AuthToFortios, ToFortios, KeyedSecurity, Lossy
  <2>2. \A b \in DOMAIN KeyedSecurity : AuthToFortios(a) \in KeyedSecurity[b] => b = a
    BY <1>1, <1>3 DEF AuthToFortios, ToFortios, KeyedSecurity
  <2>3. AuthOf(AuthToFortios(a)) = a
    BY <1>3, <2>1, <2>2 DEF AuthOf
  <2>4. AuthToFortios(a) \in Securities
    BY <1>3, <2>1 DEF Securities
  <2> QED
    BY <2>1, <2>3, <2>4
<1> QED
  BY <1>2, <1>3 DEF Auths

LEMMA AuthTyped == \A s : AuthOf(s) \in Auths
BY DEF AuthOf, Auths

LEMMA FrequenciesReadBack ==
    /\ DOMAIN BandOf = {"2.4GHz", "5GHz", "6GHz"}
    /\ \A f \in DOMAIN BandOf : BandOf[f] \in Bands /\ Frequency(BandOf[f]) = f
    /\ \A b : Frequency(b) # Absent => Frequency(b) \in DOMAIN BandOf
<1>1. DOMAIN BandOf = {"2.4GHz", "5GHz", "6GHz"}
  BY DEF BandOf
<1>2. BandOf["2.4GHz"] = "802.11n,g-only" /\ BandOf["5GHz"] = "802.11ax-5G" /\ BandOf["6GHz"] = "802.11ax-6G"
  BY DEF BandOf
<1>3. \A b : Frequency(b) # Absent => Frequency(b) \in {"2.4GHz", "5GHz", "6GHz"}
  BY DEF Frequency
<1> QED
  BY <1>1, <1>2, <1>3 DEF Bands, Frequency

LEMMA TextsReadBack ==
    ASSUME NEW v \in Vaps, NEW text \in Seq(Pieces)
    PROVE  /\ Compose(v, text) \in Seq(Pieces) /\ Strip(v, Compose(v, text)) = text
           /\ Strip(v, text) \in Seq(Pieces)
<1>1. v \in Pieces
  BY DEF Pieces
<1>2. <<v>> \o text \in Seq(Pieces) /\ <<v>> \o text # <<>> /\ Head(<<v>> \o text) = v
  BY <1>1
<1>3. Tail(<<v>> \o text) = text
  BY <1>1
<1>4. Strip(v, text) \in Seq(Pieces)
  BY DEF Strip
<1> QED
  BY <1>2, <1>3, <1>4 DEF Compose, Strip

----------------------------------------------------------------------------
(* The mode of an SSID.                                                    *)

World ==
    /\ vap \in [Vaps -> Vap \cup {Absent}] /\ prof \in [Profiles -> Profile \cup {Absent}]
    /\ wtp \in [Serials -> ApNames \cup {Absent}]
    /\ vapRow \in [Vaps -> Network \cup {Absent}]
    /\ radioRow \in [Radios -> RadioProfile \cup {Absent}]
    /\ apRow \in [Hosts -> Ap \cup {Absent}]

LEMMA SmallestExists ==
    ASSUME NEW T, T \subseteq Nat, T # {}
    PROVE  \E x \in T : \A y \in T : x <= y
<1>1. PICK less : less = OpToRel(<, Nat)
  OBVIOUS
<1>2. IsWellFoundedOn(less, Nat)
  BY <1>1, NatLessThanWellFounded
<1>3. PICK x \in T : \A y \in T : ~(<<y, x>> \in less)
  BY <1>2, WFMin
<1>4. ASSUME NEW y \in T PROVE x <= y
  <2>1. x \in Nat /\ y \in Nat
    OBVIOUS
  <2>2. ~(y < x)
    BY <1>1, <1>3, <2>1 DEF OpToRel
  <2> QED
    BY <2>1, <2>2
<1> QED
  BY <1>4

LEMMA ImageIsFinite ==
    ASSUME NEW S, IsFiniteSet(S), NEW f, f = [x \in S |-> f[x]]
    PROVE  IsFiniteSet({f[x] : x \in S})
<1> DEFINE T == {f[x] : x \in S}
<1>1. f \in [S -> T] /\ \A t \in T : \E x \in S : f[x] = t
  OBVIOUS
<1>2. f \in Surjection(S, T)
  BY <1>1, Fun_IsSurj
<1> QED
  BY <1>2, FS_Surjection

LEMMA ProfilesAreFinite ==
    /\ IsFiniteSet(Profiles)
    /\ \A p \in Profiles : Position(p) \in Nat
<1>1. PICK n \in Nat : DOMAIN ProfileOrder = 1..n
  BY ConstantsAssumption
<1>2. IsFiniteSet(1..n)
  BY <1>1, FS_Interval
<1>3. IsFiniteSet({ProfileOrder[i] : i \in 1..n})
  <2>1. ProfileOrder = [i \in 1..n |-> ProfileOrder[i]]
    BY <1>1, ConstantsAssumption
  <2> QED
    BY <1>2, <2>1, ImageIsFinite
<1>4. IsFiniteSet(Profiles)
  BY <1>1, <1>3 DEF Profiles
<1>5. ASSUME NEW p \in Profiles PROVE Position(p) \in Nat
  <2>1. \E i \in 1..n : ProfileOrder[i] = p
    BY <1>1 DEF Profiles
  <2>2. Position(p) \in 1..n
    BY <1>1, <2>1 DEF Position
  <2> QED
    BY <2>2
<1> QED
  BY <1>4, <1>5

\* The radios of any profile that serve a VAP bound those of one mode.
LEMMA UsesAreBounded ==
    ASSUME World, NEW v \in Vaps
    PROVE  \E bound \in Nat : \A m : UsesOf(v, m) \in 0..bound
<1> DEFINE Served(p) == {p} \X (1..prof[p].uses[v])
           All == UNION {Served(p) : p \in Users(v)}
           Those(m) == UNION {Served(p) : p \in {q \in Users(v) : prof[q].mode = m}}
<1>1. IsFiniteSet(Users(v))
  BY ProfilesAreFinite, FS_Subset DEF Users
<1>2. ASSUME NEW p \in Users(v) PROVE IsFiniteSet(Served(p))
  <2>1. prof[p].uses[v] \in Nat
    BY DEF World, Users, Profile
  <2>2. IsFiniteSet(1..prof[p].uses[v])
    BY <2>1, FS_Interval
  <2>3. IsFiniteSet({p})
    BY FS_Singleton
  <2> QED
    BY <2>2, <2>3, FS_Product
<1>3. IsFiniteSet({Served(p) : p \in Users(v)})
  <2>1. PICK f : f = [p \in Users(v) |-> Served(p)]
    OBVIOUS
  <2>2. IsFiniteSet({f[p] : p \in Users(v)})
    <3>1. f = [p \in Users(v) |-> f[p]]
      BY <2>1
    <3> HIDE DEF Served
    <3> QED
      BY <1>1, <3>1, ImageIsFinite
  <2>3. {f[p] : p \in Users(v)} = {Served(p) : p \in Users(v)}
    BY <2>1
  <2> QED
    BY <2>2, <2>3
<1>4. IsFiniteSet(All)
  BY <1>2, <1>3, FS_UNION
<1>5. ASSUME NEW m PROVE UsesOf(v, m) \in 0..Cardinality(All)
  <2>1. Those(m) \subseteq All
    OBVIOUS
  <2>2. IsFiniteSet(Those(m)) /\ Cardinality(Those(m)) <= Cardinality(All)
    BY <1>4, <2>1, FS_Subset
  <2>3. UsesOf(v, m) = Cardinality(Those(m))
    BY DEF UsesOf
  <2>4. Cardinality(Those(m)) \in Nat /\ Cardinality(All) \in Nat
    BY <1>4, <2>2, FS_CardinalityType
  <2> QED
    BY <2>2, <2>3, <2>4
<1>6. Cardinality(All) \in Nat
  BY <1>4, FS_CardinalityType
<1> QED
  BY <1>5, <1>6

\* A VAP that profiles serve has one whose mode is the most common, and of
\* those one that comes first.
LEMMA SomeModeIsMostCommon ==
    ASSUME World, NEW v \in Vaps, Users(v) # {}
    PROVE  \E p \in Users(v) :
              /\ \A q \in Users(v) : UsesOf(v, prof[q].mode) <= UsesOf(v, prof[p].mode)
              /\ ModeOf(v) = NetworkMode(prof[p].mode)
<1> DEFINE Uses(p) == UsesOf(v, prof[p].mode)
           Most == {p \in Users(v) : \A q \in Users(v) : Uses(q) <= Uses(p)}
<1>1. PICK bound \in Nat : \A p \in Users(v) : Uses(p) \in 0..bound
  BY UsesAreBounded
<1>2. Most # {}
  <2> DEFINE Missing == {bound - Uses(p) : p \in Users(v)}
  <2>1. Missing # {} /\ Missing \subseteq Nat
    BY <1>1
  <2>2. PICK least \in Missing : \A n \in Missing : least <= n
    BY <2>1, SmallestExists
  <2>3. PICK p \in Users(v) : least = bound - Uses(p)
    BY <2>2
  <2>4. \A q \in Users(v) : bound - Uses(p) <= bound - Uses(q)
    BY <2>2, <2>3
  <2>5. \A q \in Users(v) : Uses(q) <= Uses(p)
    BY <1>1, <2>4
  <2> QED
    BY <2>5
<1>3. \E p \in Most : \A q \in Most : Position(p) <= Position(q)
  <2> DEFINE Places == {Position(p) : p \in Most}
  <2>1. Places # {} /\ Places \subseteq Nat
    BY <1>2, ProfilesAreFinite DEF Users
  <2>2. PICK least \in Places : \A n \in Places : least <= n
    BY <2>1, SmallestExists
  <2> QED
    BY <2>2
<1>4. PICK p : p = CHOOSE m \in Most : \A q \in Most : Position(m) <= Position(q)
  OBVIOUS
<1>5. p \in Most
  BY <1>3, <1>4
<1>6. ModeOf(v) = NetworkMode(prof[p].mode)
  BY <1>4 DEF ModeOf
<1> QED
  BY <1>5, <1>6

LEMMA ModeIsMostCommon ==
    ASSUME World, NEW v \in Vaps
    PROVE  IsMostCommon(v, ModeOf(v)) /\ ModeOf(v) \in {NetworkMode(m) : m \in Modes}
<1>1. CASE Users(v) = {}
  <2>1. ModeOf(v) = "Central" /\ NetworkMode("FortiAP-tunnel-mode") = "Central"
    BY <1>1 DEF ModeOf, NetworkMode
  <2> QED
    BY <1>1, <2>1 DEF IsMostCommon, Modes
<1>2. CASE Users(v) # {}
  <2>1. PICK p \in Users(v) :
           /\ \A q \in Users(v) : UsesOf(v, prof[q].mode) <= UsesOf(v, prof[p].mode)
           /\ ModeOf(v) = NetworkMode(prof[p].mode)
    BY <1>2, SomeModeIsMostCommon
  <2>2. prof[p].mode \in Modes
    BY DEF World, Users, Profile
  <2> QED
    BY <1>2, <2>1, <2>2 DEF IsMostCommon
<1> QED
  BY <1>1, <1>2

----------------------------------------------------------------------------
(* What the adapters read.                                                 *)

LEMMA RecordsAreThere ==
    /\ \A x \in Vap \cup DeviceRadio \cup Profile \cup Network \cup RadioProfile \cup Ap : x # Absent
    /\ \A x \in ApNames \cup DOMAIN BandOf : x # Absent
BY NothingAssumption

LEMMA FgtNetworkRead ==
    ASSUME World, NEW v \in Vaps, vap[v] # Absent
    PROVE  /\ vap[v] \in Vap /\ FgtNetwork(v) \in Network /\ FgtNetwork(v) # Absent
           /\ FgtNetwork(v).look = vap[v].look /\ FgtNetwork(v).auth = AuthOf(vap[v].security)
           /\ FgtNetwork(v).mode = ModeOf(v)
           /\ vap[v].security \notin Lossy /\ ~vap[v].vlan => FgtNetwork(v).text = vap[v].comment
<1>1. vap[v] \in Vap
  BY DEF World
<1>2. PICK comment \in Seq(Pieces) : comment = vap[v].comment
  BY <1>1 DEF Vap
<1>3. Marker.vlan \in Pieces /\ Marker.auth \in Pieces
  BY DEF Pieces
<1>4. /\ <<>> \in Seq(Pieces) /\ <<Marker.vlan>> \in Seq(Pieces) /\ <<Marker.auth>> \in Seq(Pieces)
      /\ comment \o <<>> = comment
  BY <1>3
<1> DEFINE first == IF vap[v].vlan THEN <<Marker.vlan>> ELSE <<>>
           second == IF vap[v].security \in Lossy THEN <<Marker.auth>> ELSE <<>>
<1>5. FgtNetwork(v).text = comment \o first \o second
  BY <1>2 DEF FgtNetwork
<1>6. first \in Seq(Pieces) /\ second \in Seq(Pieces)
  BY <1>4
<1>7. ~vap[v].vlan => first = <<>>
  OBVIOUS
<1>8. vap[v].security \notin Lossy => second = <<>>
  OBVIOUS
<1> HIDE DEF first, second
<1>9. FgtNetwork(v).text \in Seq(Pieces)
  BY <1>5, <1>6
<1>10. vap[v].security \notin Lossy /\ ~vap[v].vlan => FgtNetwork(v).text = comment
  BY <1>4, <1>5, <1>7, <1>8
<1>11. /\ FgtNetwork(v).look = vap[v].look /\ FgtNetwork(v).auth = AuthOf(vap[v].security)
       /\ FgtNetwork(v).mode = ModeOf(v)
       /\ FgtNetwork(v) = [look |-> FgtNetwork(v).look, mode |-> FgtNetwork(v).mode,
                           auth |-> FgtNetwork(v).auth, text |-> FgtNetwork(v).text]
  BY DEF FgtNetwork
<1>12. vap[v].look \in Looks
  BY <1>1 DEF Vap
<1>13. FgtNetwork(v) \in Network
  BY <1>9, <1>11, <1>12, AuthTyped, ModeIsMostCommon DEF Network
<1> QED
  BY <1>1, <1>2, <1>10, <1>11, <1>13, RecordsAreThere

LEMMA RowNetworkRead ==
    ASSUME World, NEW v \in Vaps, vapRow[v] # Absent
    PROVE  /\ vapRow[v] \in Network /\ RowNetwork(v) \in Network /\ RowNetwork(v) # Absent
           /\ RowNetwork(v).look = vapRow[v].look /\ RowNetwork(v).mode = vapRow[v].mode
           /\ RowNetwork(v).auth = vapRow[v].auth /\ RowNetwork(v).text = Strip(v, vapRow[v].text)
<1>1. vapRow[v] \in Network
  BY DEF World
<1>2. Strip(v, vapRow[v].text) \in Seq(Pieces)
  <2>1. vapRow[v].text \in Seq(Pieces)
    BY <1>1 DEF Network
  <2> QED
    BY <2>1, TextsReadBack
<1>3. RowNetwork(v) \in Network /\ RowNetwork(v).text = Strip(v, vapRow[v].text)
  BY <1>1, <1>2 DEF RowNetwork, Network
<1>4. /\ RowNetwork(v).look = vapRow[v].look /\ RowNetwork(v).mode = vapRow[v].mode
      /\ RowNetwork(v).auth = vapRow[v].auth
  BY <1>1 DEF RowNetwork, Network
<1> QED
  BY <1>1, <1>3, <1>4, RecordsAreThere

LEMMA FgtRadioRead ==
    ASSUME World, NEW r \in Radios, Readable(r)
    PROVE  LET radio == prof[r[1]].radio[r[2]] IN
           /\ FgtRadio(r) \in RadioProfile /\ FgtRadio(r) # Absent
           /\ prof[r[1]] # Absent /\ prof[r[1]] \in Profile /\ radio # Absent /\ radio \in DeviceRadio
           /\ FgtRadio(r) = [freq |-> Frequency(radio.band), power |-> radio.power,
                             channels |-> IF radio.objects THEN {} ELSE radio.channels]
<1> DEFINE radio == prof[r[1]].radio[r[2]]
<1>1. /\ prof[r[1]] # Absent /\ radio # Absent /\ Frequency(radio.band) # Absent
      /\ r[1] \in Profiles /\ r[2] \in Slots
  BY RadiosAre DEF Readable
<1>2. prof[r[1]] \in Profile
  BY <1>1 DEF World
<1>3. radio \in DeviceRadio
  BY <1>1, <1>2 DEF Profile
<1>4. FgtRadio(r) = [freq |-> Frequency(radio.band), power |-> radio.power,
                     channels |-> IF radio.objects THEN {} ELSE radio.channels]
  BY DEF FgtRadio
<1>5. /\ Frequency(radio.band) \in DOMAIN BandOf /\ radio.power \in Powers
      /\ (IF radio.objects THEN {} ELSE radio.channels) \in SUBSET Channels
  BY <1>1, <1>3, FrequenciesReadBack DEF DeviceRadio
<1>6. FgtRadio(r) \in RadioProfile
  BY <1>4, <1>5 DEF RadioProfile
<1> QED
  BY <1>1, <1>2, <1>3, <1>4, <1>6, RecordsAreThere

LEMMA DeviceStoreRead ==
    ASSUME NEW aps \in BOOLEAN
    PROVE  /\ Loaded("device", aps) = [e \in Elements |-> Loaded("device", aps)[e]]
           /\ \A v \in Vaps : Loaded("device", aps)[v] = IF vap[v] = Absent THEN Absent ELSE FgtNetwork(v)
           /\ \A r \in Radios : Loaded("device", aps)[r] = IF Readable(r) THEN FgtRadio(r) ELSE Absent
           /\ \A s \in Serials : Loaded("device", aps)[s] = IF aps THEN wtp[s] ELSE Absent
           /\ Loaded("device", aps)[Blank] = Absent
<1>1. \A v \in Vaps : Loaded("device", aps)[v] = IF vap[v] = Absent THEN Absent ELSE FgtNetwork(v)
  BY ElementsAre DEF Loaded
<1>2. \A r \in Radios : Loaded("device", aps)[r] = IF Readable(r) THEN FgtRadio(r) ELSE Absent
  BY ElementsAre DEF Loaded
<1>3. \A s \in Serials : Loaded("device", aps)[s] = IF aps THEN wtp[s] ELSE Absent
  BY ElementsAre DEF Loaded, LoadedAps
<1>4. Loaded("device", aps)[Blank] = Absent
  BY ElementsAre, ConstantsAssumption DEF Loaded, Hosts
<1>5. Loaded("device", aps) = [e \in Elements |-> Loaded("device", aps)[e]]
  BY DEF Loaded
<1> QED
  BY <1>1, <1>2, <1>3, <1>4, <1>5

\* The Device without a serial that a store of rows has the name of.
BlankName == apRow[CHOOSE d \in ScopedBlanks : TRUE].name

LEMMA RowStoreRead ==
    ASSUME NEW aps \in BOOLEAN
    PROVE  /\ Loaded("rows", aps) = [e \in Elements |-> Loaded("rows", aps)[e]]
           /\ \A v \in Vaps : Loaded("rows", aps)[v] = IF vapRow[v] = Absent THEN Absent ELSE RowNetwork(v)
           /\ \A r \in Radios : Loaded("rows", aps)[r] = radioRow[r]
           /\ \A s \in Serials : Loaded("rows", aps)[s] =
                 IF aps /\ apRow[s] # Absent /\ apRow[s].scoped THEN apRow[s].name ELSE Absent
           /\ Loaded("rows", aps)[Blank] = IF aps /\ ScopedBlanks # {} THEN BlankName ELSE Absent
<1>1. \A v \in Vaps : Loaded("rows", aps)[v] = IF vapRow[v] = Absent THEN Absent ELSE RowNetwork(v)
  BY ElementsAre DEF Loaded
<1>2. \A r \in Radios : Loaded("rows", aps)[r] = radioRow[r]
  BY ElementsAre DEF Loaded
<1>3. ASSUME NEW s \in Serials
      PROVE  Loaded("rows", aps)[s] =
                IF aps /\ apRow[s] # Absent /\ apRow[s].scoped THEN apRow[s].name ELSE Absent
  <2>1. Loaded("rows", aps)[s] = IF aps THEN LoadedAps("rows")[s] ELSE Absent
    BY ElementsAre DEF Loaded
  <2>2. LoadedAps("rows")[s] = IF apRow[s] # Absent /\ apRow[s].scoped THEN apRow[s].name ELSE Absent
    BY DEF LoadedAps
  <2> QED
    BY <2>1, <2>2
<1>4. Loaded("rows", aps)[Blank] = IF aps /\ ScopedBlanks # {} THEN BlankName ELSE Absent
  BY ElementsAre, ConstantsAssumption DEF Loaded, Hosts, BlankName
<1>5. Loaded("rows", aps) = [e \in Elements |-> Loaded("rows", aps)[e]]
  BY DEF Loaded
<1> QED
  BY <1>1, <1>2, <1>3, <1>4, <1>5

LEMMA StoreTyped ==
    ASSUME World, NEW kind \in {"device", "rows"}, NEW aps \in BOOLEAN
    PROVE  IsStore(Loaded(kind, aps))
<1>1. CASE kind = "device"
  <2>1. \A v \in Vaps : Loaded(kind, aps)[v] \in Network \cup {Absent}
    BY <1>1, DeviceStoreRead, FgtNetworkRead
  <2>2. \A r \in Radios : Loaded(kind, aps)[r] \in RadioProfile \cup {Absent}
    BY <1>1, DeviceStoreRead, FgtRadioRead
  <2>3. \A s \in Serials \cup {Blank} : Loaded(kind, aps)[s] \in ApNames \cup {Absent}
    BY <1>1, DeviceStoreRead DEF World
  <2> QED
    BY <1>1, <2>1, <2>2, <2>3, DeviceStoreRead DEF IsStore
<1>2. CASE kind = "rows"
  <2>1. \A v \in Vaps : Loaded(kind, aps)[v] \in Network \cup {Absent}
    BY <1>2, RowStoreRead, RowNetworkRead
  <2>2. \A r \in Radios : Loaded(kind, aps)[r] \in RadioProfile \cup {Absent}
    BY <1>2, RowStoreRead DEF World
  <2>3. \A d \in Hosts : apRow[d] # Absent => apRow[d].name \in ApNames
    BY DEF World, Ap
  <2>4. ScopedBlanks # {} => BlankName \in ApNames
    BY <2>3 DEF ScopedBlanks, BlankName, Hosts
  <2>5. \A s \in Serials \cup {Blank} : Loaded(kind, aps)[s] \in ApNames \cup {Absent}
    BY <1>2, <2>3, <2>4, RowStoreRead, ElementsAre
  <2> QED
    BY <1>2, <2>1, <2>2, <2>5, RowStoreRead DEF IsStore
<1> QED
  BY <1>1, <1>2

LEMMA EmptyStoreTyped == IsStore(EmptyStore)
BY ElementsAre DEF IsStore, EmptyStore

----------------------------------------------------------------------------
(* What calls and operators write.                                         *)

LEMMA TypedWorld == TypeOK => World
BY DEF TypeOK, World

LEMMA SameWorldTyped == World /\ UNCHANGED worldVars => World'
BY DEF World, worldVars, deviceVars, rowVars

LEMMA PutsTyped ==
    ASSUME World
    PROVE  /\ \A v \in Vaps, x \in Network \cup {Absent} : PutVapRow(v, x) => World'
           /\ \A r \in Radios, x \in RadioProfile \cup {Absent} : PutRadioRow(r, x) => World'
           /\ \A x \in [Hosts -> Ap \cup {Absent}] : PutApRows(x) => World'
           /\ \A v \in Vaps, x \in Vap \cup {Absent} : PutVap(v, x) => World'
           /\ \A p \in Profiles, x \in Profile \cup {Absent} : PutProfile(p, x) => World'
<1>1. ASSUME NEW v \in Vaps, NEW x \in Network \cup {Absent}, PutVapRow(v, x) PROVE World'
  BY <1>1 DEF PutVapRow, World, deviceVars
<1>2. ASSUME NEW r \in Radios, NEW x \in RadioProfile \cup {Absent}, PutRadioRow(r, x) PROVE World'
  BY <1>2 DEF PutRadioRow, World, deviceVars
<1>3. ASSUME NEW x \in [Hosts -> Ap \cup {Absent}], PutApRows(x) PROVE World'
  BY <1>3 DEF PutApRows, World, deviceVars
<1>4. ASSUME NEW v \in Vaps, NEW x \in Vap \cup {Absent}, PutVap(v, x) PROVE World'
  BY <1>4 DEF PutVap, World, rowVars
<1>5. ASSUME NEW p \in Profiles, NEW x \in Profile \cup {Absent}, PutProfile(p, x) PROVE World'
  BY <1>5 DEF PutProfile, World, rowVars
<1> QED
  BY <1>1, <1>2, <1>3, <1>4, <1>5

LEMMA ChangedFields ==
    ASSUME NEW e, NEW was, NEW row, NEW f \in DOMAIN row
    PROVE  Changed(e, was, row)[f] = IF e[f] = was[f] THEN row[f] ELSE e[f]
BY DEF Changed

LEMMA NetworkWritten ==
    ASSUME NEW v \in Vaps, NEW e \in Network
    PROVE  /\ [e EXCEPT !.text = Compose(v, @)] \in Network
           /\ [e EXCEPT !.text = Compose(v, @)].look = e.look
           /\ [e EXCEPT !.text = Compose(v, @)].mode = e.mode
           /\ [e EXCEPT !.text = Compose(v, @)].auth = e.auth
           /\ Strip(v, [e EXCEPT !.text = Compose(v, @)].text) = e.text
<1>1. e.text \in Seq(Pieces) /\ Compose(v, e.text) \in Seq(Pieces) /\ Strip(v, Compose(v, e.text)) = e.text
  BY TextsReadBack DEF Network
<1> QED
  BY <1>1 DEF Network

\* The fields in which the stores agree, the row keeps; the others it gets.
LEMMA NetworkUpdated ==
    ASSUME NEW v \in Vaps, NEW e \in Network, NEW was \in Network, NEW row \in Network
    PROVE  LET is == UpdatedNetwork(v, e, was, row) IN
           /\ is \in Network
           /\ is.look = (IF e.look = was.look THEN row.look ELSE e.look)
           /\ is.mode = (IF e.mode = was.mode THEN row.mode ELSE e.mode)
           /\ is.auth = (IF e.auth = was.auth THEN row.auth ELSE e.auth)
           /\ Strip(v, is.text) = (IF e.text = was.text THEN Strip(v, row.text) ELSE e.text)
<1> DEFINE fields == {"look", "mode", "auth", "text"}
           text == IF e.text = was.text THEN row.text ELSE Compose(v, e.text)
           is == UpdatedNetwork(v, e, was, row)
<1>1. DOMAIN row = fields
  BY DEF Network
<1>2. text \in Seq(Pieces) /\ Strip(v, text) = (IF e.text = was.text THEN Strip(v, row.text) ELSE e.text)
  <2>1. row.text \in Seq(Pieces) /\ e.text \in Seq(Pieces)
    BY DEF Network
  <2> QED
    BY <2>1, TextsReadBack
<1>3. PICK changed : changed = Changed(e, was, row)
  OBVIOUS
<1>4. /\ changed = [f \in fields |-> changed[f]]
      /\ changed["look"] = (IF e["look"] = was["look"] THEN row["look"] ELSE e["look"])
      /\ changed["mode"] = (IF e["mode"] = was["mode"] THEN row["mode"] ELSE e["mode"])
      /\ changed["auth"] = (IF e["auth"] = was["auth"] THEN row["auth"] ELSE e["auth"])
  BY <1>1, <1>3 DEF Changed
<1>5. is = [changed EXCEPT !.text = text]
  BY <1>3 DEF UpdatedNetwork
<1> HIDE DEF text, is
<1>6. /\ is = [f \in fields |-> is[f]] /\ is["text"] = text
      /\ is["look"] = changed["look"] /\ is["mode"] = changed["mode"] /\ is["auth"] = changed["auth"]
  BY <1>4, <1>5
<1>7. is = [look |-> is["look"], mode |-> is["mode"], auth |-> is["auth"], text |-> is["text"]]
  BY <1>6
<1>8. /\ is.look = (IF e.look = was.look THEN row.look ELSE e.look)
      /\ is.mode = (IF e.mode = was.mode THEN row.mode ELSE e.mode)
      /\ is.auth = (IF e.auth = was.auth THEN row.auth ELSE e.auth)
      /\ is.text = text
  BY <1>4, <1>6
<1>9. is \in Network
  BY <1>2, <1>7, <1>8 DEF Network
<1> QED
  BY <1>2, <1>8, <1>9 DEF is

LEMMA RadioUpdated ==
    ASSUME NEW e \in RadioProfile, NEW was \in RadioProfile
    PROVE  Changed(e, was, was) = e
<1>1. PICK changed : changed = Changed(e, was, was)
  OBVIOUS
<1>2. DOMAIN was = {"freq", "power", "channels"}
  BY DEF RadioProfile
<1>3. /\ changed = [f \in {"freq", "power", "channels"} |-> changed[f]]
      /\ changed["freq"] = e["freq"] /\ changed["power"] = e["power"] /\ changed["channels"] = e["channels"]
  BY <1>1, <1>2 DEF Changed
<1> QED
  BY <1>1, <1>3 DEF RadioProfile

LEMMA RadioChangedTyped ==
    ASSUME NEW e \in RadioProfile, NEW was, NEW row \in RadioProfile
    PROVE  Changed(e, was, row) \in RadioProfile
<1>1. PICK changed : changed = Changed(e, was, row)
  OBVIOUS
<1>2. DOMAIN row = {"freq", "power", "channels"}
  BY DEF RadioProfile
<1>3. /\ changed = [f \in {"freq", "power", "channels"} |-> changed[f]]
      /\ changed["freq"] \in {e["freq"], row["freq"]}
      /\ changed["power"] \in {e["power"], row["power"]}
      /\ changed["channels"] \in {e["channels"], row["channels"]}
  BY <1>1, <1>2 DEF Changed
<1>4. changed = [freq |-> changed["freq"], power |-> changed["power"], channels |-> changed["channels"]]
  BY <1>3
<1> QED
  BY <1>1, <1>3, <1>4 DEF RadioProfile

\* A VAP as it is sent.
LEMMA PostedVapRead ==
    ASSUME NEW e \in Network
    PROVE  /\ PostedVap(e) \in Vap /\ PostedVap(e).look = e.look /\ PostedVap(e).comment = e.text
           /\ PostedVap(e).security = AuthToFortios(e.auth) /\ ~PostedVap(e).vlan
<1>1. e.look \in Looks /\ e.auth \in Auths /\ e.text \in Seq(Pieces)
  BY DEF Network
<1> QED
  BY <1>1, SecuritiesReadBack DEF PostedVap, Vap

LEMMA UpdatedVapRead ==
    ASSUME NEW e \in Network, NEW was \in Vap
    PROVE  /\ UpdatedVap(e, was) \in Vap
           /\ UpdatedVap(e, was).look = e.look /\ UpdatedVap(e, was).comment = e.text
           /\ UpdatedVap(e, was).security = AuthToFortios(e.auth)
           /\ UpdatedVap(e, was).vlan = was.vlan /\ UpdatedVap(e, was).held = was.held
<1>1. e.look \in Looks /\ e.auth \in Auths /\ e.text \in Seq(Pieces)
  BY DEF Network
<1>2. AuthToFortios(e.auth) \in Securities
  BY <1>1, SecuritiesReadBack
<1>3. PICK security \in Securities : security = AuthToFortios(e.auth)
  BY <1>2
<1>4. UpdatedVap(e, was) = [was EXCEPT !.look = e.look, !.security = security, !.comment = e.text]
  BY <1>3 DEF UpdatedVap
<1> QED
  BY <1>1, <1>3, <1>4 DEF Vap

\* A radio as it is sent.
LEMMA PayloadRead ==
    ASSUME NEW e \in RadioProfile, NEW power \in Powers
    PROVE  /\ Payload(e, power) \in DeviceRadio /\ Payload(e, power) # Absent
           /\ Payload(e, power).band = BandOf[e.freq]
           /\ e.power # Unset => Payload(e, power).power = e.power
           /\ Payload(e, power).channels = e.channels
           /\ Payload(e, power).objects = (e.channels # {})
<1>1. /\ e.freq \in DOMAIN BandOf /\ e.power \in Powers \cup {Unset} /\ e.channels \in SUBSET Channels
      /\ BandOf[e.freq] \in Bands
  BY FrequenciesReadBack DEF RadioProfile
<1>2. PICK band \in Bands : band = BandOf[e.freq]
  BY <1>1
<1>3. Payload(e, power) = [band |-> band, power |-> IF e.power = Unset THEN power ELSE e.power,
                           channels |-> e.channels, objects |-> e.channels # {}]
  BY <1>2 DEF Payload
<1>4. Payload(e, power) \in DeviceRadio
  BY <1>1, <1>3 DEF DeviceRadio
<1> QED
  BY <1>1, <1>2, <1>3, <1>4, RecordsAreThere

\* A PUT of one radio of a profile leaves its others.
LEMMA RadioPut ==
    ASSUME World, NEW r \in Radios, NEW e \in RadioProfile, prof[r[1]] # Absent, PutRadio(r, e)
    PROVE  /\ World' /\ UNCHANGED <<vap, wtp, rowVars>>
           /\ prof'[r[1]] \in Profile
           /\ prof'[r[1]].mode = prof[r[1]].mode /\ prof'[r[1]].uses = prof[r[1]].uses
           /\ \A n \in Slots \ {r[2]} : prof'[r[1]].radio[n] = prof[r[1]].radio[n]
           /\ \A p \in Profiles \ {r[1]} : prof'[p] = prof[p]
           /\ RadioIs(r, e)'
<1>1. r[1] \in Profiles /\ r[2] \in Slots
  BY RadiosAre
<1>2. PICK p \in Profiles, n \in Slots : p = r[1] /\ n = r[2]
  BY <1>1
<1>3. PICK was \in Profile : was = prof[p]
  BY <1>2 DEF World
<1>4. was.radio \in [Slots -> DeviceRadio \cup {Absent}]
  BY DEF Profile
<1> DEFINE power == IF was.radio[n] = Absent THEN FactoryPower ELSE was.radio[n].power
<1>5. power \in Powers
  BY <1>4, ConstantsAssumption DEF DeviceRadio
<1>6. PICK sent \in DeviceRadio : sent = Payload(e, power)
  BY <1>5, PayloadRead
<1>7. prof' = [prof EXCEPT ![p] = [was EXCEPT !.radio[n] = sent]] /\ UNCHANGED <<vap, wtp, rowVars>>
  BY <1>2, <1>3, <1>6 DEF PutRadio, PutProfile
<1>8. [was EXCEPT !.radio[n] = sent] \in Profile
  BY <1>4 DEF Profile
<1>9. /\ prof'[p] = [was EXCEPT !.radio[n] = sent]
      /\ \A q \in Profiles \ {p} : prof'[q] = prof[q]
  BY <1>7 DEF World
<1>10. /\ prof'[p].mode = was.mode /\ prof'[p].uses = was.uses
       /\ \A m \in Slots \ {n} : prof'[p].radio[m] = was.radio[m]
       /\ prof'[p].radio[n] = sent
  BY <1>4, <1>9 DEF Profile
<1>11. /\ sent # Absent /\ sent.band = BandOf[e.freq] /\ sent.channels = e.channels
       /\ e.power # Unset => sent.power = e.power
       /\ sent.objects = (e.channels # {})
  BY <1>5, <1>6, PayloadRead
<1>12. prof'[p] # Absent
  BY <1>8, <1>9, RecordsAreThere
<1>13. RadioIs(r, e)'
  BY <1>2, <1>10, <1>11, <1>12 DEF RadioIs
<1>14. World'
  BY <1>7, <1>8 DEF World, rowVars
<1> QED
  BY <1>2, <1>3, <1>7, <1>8, <1>9, <1>10, <1>13, <1>14

\* A posted profile has the radios that have a row, as they are sent.
LEMMA ProfilePosted ==
    ASSUME World, NEW j \in Jobs, IsStore(src[j]), NEW p \in Profiles,
           UNCHANGED src, PutProfile(p, PostedProfile(j, p))
    PROVE  /\ World' /\ UNCHANGED <<vap, wtp, rowVars>>
           /\ \A q \in Profiles \ {p} : prof'[q] = prof[q]
           /\ \A r \in Radios : r[1] = p =>
                 /\ src[j][r] = Absent => prof'[p].radio[r[2]] = Absent
                 /\ src[j][r] # Absent => RadioIs(r, src[j][r])'
<1> DEFINE radio == [n \in Slots |-> IF src[j][<<p, n>>] = Absent THEN Absent
                                     ELSE Payload(src[j][<<p, n>>], FactoryPower)]
           uses == [v \in Vaps |-> 0]
<1>1. ASSUME NEW n \in Slots
      PROVE  /\ radio[n] \in DeviceRadio \cup {Absent}
             /\ src[j][<<p, n>>] = Absent => radio[n] = Absent
             /\ src[j][<<p, n>>] # Absent =>
                   LET e == src[j][<<p, n>>] IN
                   /\ radio[n] # Absent /\ radio[n].band = BandOf[e.freq]
                   /\ e.power # Unset => radio[n].power = e.power
                   /\ radio[n].channels = e.channels /\ radio[n].objects = (e.channels # {})
  <2>1. <<p, n>> \in Radios
    BY RadiosAre
  <2>2. src[j][<<p, n>>] \in RadioProfile \cup {Absent}
    BY <2>1 DEF IsStore
  <2>3. radio[n] = IF src[j][<<p, n>>] = Absent THEN Absent ELSE Payload(src[j][<<p, n>>], FactoryPower)
    OBVIOUS
  <2> HIDE DEF radio
  <2>4. CASE src[j][<<p, n>>] = Absent
    BY <2>3, <2>4
  <2>5. CASE src[j][<<p, n>>] # Absent
    <3>1. PICK e \in RadioProfile : e = src[j][<<p, n>>]
      BY <2>2, <2>5
    <3>2. radio[n] = Payload(e, FactoryPower)
      BY <2>3, <2>5, <3>1
    <3> QED
      BY <2>5, <3>1, <3>2, PayloadRead, ConstantsAssumption
  <2> QED
    BY <2>4, <2>5
<1>2. radio \in [Slots -> DeviceRadio \cup {Absent}]
  BY <1>1
<1>3. uses \in [Vaps -> Nat]
  OBVIOUS
<1>4. PostedProfile(j, p) = [mode |-> "FortiAP-tunnel-mode", uses |-> uses, radio |-> radio]
  BY DEF PostedProfile
<1> HIDE DEF radio, uses
<1>5. PICK posted \in Profile : posted = PostedProfile(j, p) /\ posted.radio = radio
  BY <1>2, <1>3, <1>4 DEF Profile, Modes
<1>6. prof' = [prof EXCEPT ![p] = posted] /\ UNCHANGED <<vap, wtp, rowVars>>
  BY <1>5 DEF PutProfile
<1>7. /\ prof'[p] = posted /\ posted # Absent
      /\ \A q \in Profiles \ {p} : prof'[q] = prof[q]
  BY <1>6, RecordsAreThere DEF World
<1>8. World'
  BY <1>5, <1>6 DEF World, rowVars
<1>9. ASSUME NEW r \in Radios, r[1] = p
      PROVE  /\ src[j][r] = Absent => prof'[p].radio[r[2]] = Absent
             /\ src[j][r] # Absent => RadioIs(r, src[j][r])'
  <2>1. r[2] \in Slots /\ r = <<p, r[2]>>
    BY <1>9, RadiosAre
  <2>2. PICK n \in Slots : n = r[2] /\ r = <<p, n>>
    BY <2>1
  <2>3. UNCHANGED src
    OBVIOUS
  <2>4. prof'[p].radio[n] = radio[n]
    BY <1>5, <1>7
  <2>5. src[j][r] = Absent => prof'[p].radio[r[2]] = Absent
    BY <1>1, <2>2, <2>4
  <2>6. ASSUME src[j][r] # Absent PROVE RadioIs(r, src[j][r])'
    BY <1>1, <1>7, <1>9, <2>2, <2>3, <2>4, <2>6 DEF RadioIs
  <2> QED
    BY <2>5, <2>6
<1> QED
  BY <1>6, <1>7, <1>8, <1>9

----------------------------------------------------------------------------
(* Type correctness.                                                       *)

CourseOf(k) ==
    /\ PlanFollowsDiff(k) /\ SourceIsCurrent(k) /\ TargetIsCurrent(k)
    /\ PullIsOnCourse(k) /\ PushIsOnCourse(k)

LEMMA StartTyped ==
    ASSUME TypeOK, NEW j \in Jobs, Start(j)
    PROVE  TypeOK'
<1>1. World'
  BY SameWorldTyped, TypedWorld DEF Start
<1>2. /\ phase' \in [Jobs -> Idle \cup Running] /\ req' \in [Jobs -> Requests]
      /\ src' = [i \in Jobs |-> src'[i]] /\ dst' = [i \in Jobs |-> dst'[i]]
      /\ todo' \in [Jobs -> [write : SUBSET Elements, delete : SUBSET Elements]]
      /\ touched' \subseteq Jobs
  BY DEF TypeOK, Start, Advance, NoWork, Running
<1>3. \A i \in Jobs : IsStore(src'[i]) /\ IsStore(dst'[i])
  BY EmptyStoreTyped DEF TypeOK, Start
<1>4. edits' \in 0..MaxEdits /\ runs' \in 0..MaxRuns
  BY ConstantsAssumption DEF TypeOK, Start
<1> QED
  BY <1>1, <1>2, <1>3, <1>4 DEF TypeOK, World

LEMMA RestTyped ==
    ASSUME TypeOK, NEW j \in Jobs, Finish(j) \/ Crash(j) \/ Raised(j)
    PROVE  TypeOK'
<1>1. World'
  BY TypedWorld, SameWorldTyped DEF Finish, Crash, Raised
<1>2. phase' \in [Jobs -> Idle \cup Running]
  BY DEF TypeOK, Finish, Crash, Raised, Advance, Idle
<1> QED
  BY <1>1, <1>2 DEF TypeOK, Finish, Crash, Raised, World

LEMMA LoadTyped ==
    ASSUME TypeOK, NEW j \in Jobs, Load(j), ~Raised(j)
    PROVE  TypeOK'
<1>1. World'
  BY TypedWorld, SameWorldTyped DEF Load, LoadSource, LoadTarget
<1>2. /\ phase' \in [Jobs -> Idle \cup Running] /\ req' \in [Jobs -> Requests]
      /\ src' = [i \in Jobs |-> src'[i]] /\ dst' = [i \in Jobs |-> dst'[i]]
      /\ todo' \in [Jobs -> [write : SUBSET Elements, delete : SUBSET Elements]]
      /\ touched' \subseteq Jobs /\ edits' \in 0..MaxEdits /\ runs' \in 0..MaxRuns
  BY DEF TypeOK, Load, LoadSource, LoadTarget, Advance, Running
<1>3. \A i \in Jobs : IsStore(src'[i]) /\ IsStore(dst'[i])
  <2>1. \A i \in Jobs : IsStore(src[i]) /\ IsStore(dst[i])
    BY DEF TypeOK
  <2>2. /\ SourceKind(j) \in {"device", "rows"} /\ TargetKind(j) \in {"device", "rows"}
        /\ req[j].aps \in BOOLEAN
    BY DEF SourceKind, TargetKind, TypeOK, Requests
  <2>3. IsStore(Loaded(SourceKind(j), req[j].aps)) /\ IsStore(Loaded(TargetKind(j), req[j].aps))
    BY <2>2, TypedWorld, StoreTyped
  <2>4. CASE LoadSource(j)
    BY <2>1, <2>3, <2>4 DEF TypeOK, LoadSource
  <2>5. CASE LoadTarget(j)
    BY <2>1, <2>3, <2>5 DEF TypeOK, LoadTarget
  <2> QED
    BY <2>4, <2>5 DEF Load
<1> QED
  BY <1>1, <1>2, <1>3 DEF TypeOK, World

LEMMA ExecuteSyncTyped ==
    ASSUME TypeOK, NEW j \in Jobs, ExecuteSync(j)
    PROVE  TypeOK'
<1>1. World'
  BY TypedWorld, SameWorldTyped DEF ExecuteSync
<1>2. /\ phase' \in [Jobs -> Idle \cup Running]
      /\ todo' \in [Jobs -> [write : SUBSET Elements, delete : SUBSET Elements]]
  BY DEF TypeOK, ExecuteSync, Advance, Running, Writes, Deletes
<1> QED
  BY <1>1, <1>2 DEF TypeOK, ExecuteSync, World

LEMMA AppliedTyped ==
    ASSUME TypeOK, NEW j \in Jobs, NEW e, Applied(j, e), World'
    PROVE  TypeOK'
<1>1. todo' \in [Jobs -> [write : SUBSET Elements, delete : SUBSET Elements]] /\ touched' \subseteq Jobs
  BY DEF TypeOK, Applied
<1> QED
  BY <1>1 DEF TypeOK, Applied, World

\* What the plan of a job names, it has to say something about.
LEMMA Planned ==
    ASSUME SyncInvariant, NEW j \in Jobs, phase[j] = "syncing"
    PROVE  /\ \A e \in todo[j].write :
                 e \in Elements /\ src[j][e] # Absent /\ src[j][e] # dst[j][e] /\ e \notin todo[j].delete
           /\ \A e \in todo[j].delete :
                 e \in Elements /\ src[j][e] = Absent /\ dst[j][e] # Absent /\ req[j].delete
           /\ \A v \in Vaps : v \in todo[j].write => src[j][v] \in Network
           /\ \A v \in Vaps : dst[j][v] # Absent => dst[j][v] \in Network
           /\ \A r \in Radios : r \in todo[j].write => src[j][r] \in RadioProfile
           /\ \A r \in Radios : dst[j][r] # Absent => dst[j][r] \in RadioProfile
           /\ \A s \in Serials : s \in todo[j].write => src[j][s] \in ApNames
           /\ Pending(j) \subseteq Differs(j)
<1>1. /\ todo[j].write \subseteq Writes(src[j], dst[j])
      /\ todo[j].delete \subseteq Deletes(src[j], dst[j])
      /\ ~req[j].delete => todo[j].delete = {}
  BY DEF SyncInvariant, PlanFollowsDiff, Applying
<1>2. IsStore(src[j]) /\ IsStore(dst[j])
  BY DEF SyncInvariant, TypeOK
<1>3. Pending(j) \subseteq Differs(j)
  BY <1>1 DEF Pending, Differs
<1> QED
  BY <1>1, <1>2, <1>3 DEF Writes, Deletes, IsStore

----------------------------------------------------------------------------
(* A call takes an element off the plan, or raises.                        *)

CallOn(j, e) ==
    /\ phase[j] = "syncing" /\ e \in Pending(j)
    /\ \A f \in Pending(j) : KindOf(e) <= KindOf(f)

LEMMA TurnIs ==
    ASSUME NEW j \in Jobs, NEW kind, NEW e,
           Turn(j, kind, "write", e) \/ Turn(j, kind, "delete", e)
    PROVE  CallOn(j, e) /\ req[j].kind = kind
BY DEF Turn, CallOn, Pending

LEMMA PullCalls ==
    ASSUME NEW j \in Jobs, Pull(j)
    PROVE  /\ phase[j] = "syncing" /\ req[j].kind = "pull" /\ UNCHANGED deviceVars
           /\ \E e \in Elements : CallOn(j, e) /\ Applied(j, e)
<1> DEFINE Called(e) ==
              CallOn(j, e) /\ req[j].kind = "pull" /\ UNCHANGED deviceVars /\ Applied(j, e)
<1>1. ASSUME NEW v \in Vaps,
             PullNetworkCreate(j, v) \/ PullNetworkUpdate(j, v) \/ PullNetworkDelete(j, v)
      PROVE  Called(v)
  <2>1. CallOn(j, v) /\ req[j].kind = "pull"
    BY <1>1, TurnIs DEF PullNetworkCreate, PullNetworkUpdate, PullNetworkDelete
  <2>2. UNCHANGED deviceVars /\ Applied(j, v)
    BY <1>1 DEF PullNetworkCreate, PullNetworkUpdate, PullNetworkDelete, PutVapRow, worldVars
  <2> QED
    BY <2>1, <2>2
<1>2. ASSUME NEW r \in Radios,
             PullRadioCreate(j, r) \/ PullRadioUpdate(j, r) \/ PullRadioDelete(j, r)
      PROVE  Called(r)
  <2>1. CallOn(j, r) /\ req[j].kind = "pull"
    BY <1>2, TurnIs DEF PullRadioCreate, PullRadioUpdate, PullRadioDelete
  <2>2. UNCHANGED deviceVars /\ Applied(j, r)
    BY <1>2 DEF PullRadioCreate, PullRadioUpdate, PullRadioDelete, PutRadioRow, worldVars
  <2> QED
    BY <2>1, <2>2
<1>3. ASSUME NEW s \in Serials \cup {Blank},
             PullApCreate(j, s) \/ PullApUpdate(j, s) \/ PullApDelete(j, s)
      PROVE  Called(s)
  <2>1. CallOn(j, s) /\ req[j].kind = "pull"
    BY <1>3, TurnIs DEF PullApCreate, PullApUpdate, PullApDelete
  <2>2. UNCHANGED deviceVars /\ Applied(j, s)
    BY <1>3 DEF PullApCreate, PullApUpdate, PullApDelete, PutApRows, worldVars
  <2> QED
    BY <2>1, <2>2
<1>4. \E e \in Elements : Called(e)
  BY <1>1, <1>2, <1>3 DEF Pull, Elements
<1> QED
  BY <1>4 DEF CallOn

LEMMA PushCalls ==
    ASSUME NEW j \in Jobs, Push(j)
    PROVE  /\ phase[j] = "syncing" /\ req[j].kind = "push" /\ UNCHANGED rowVars
           /\ Raised(j) \/ \E e \in Elements : CallOn(j, e) /\ Applied(j, e)
<1> DEFINE Called(e) ==
              /\ CallOn(j, e) /\ req[j].kind = "push" /\ UNCHANGED rowVars
              /\ Raised(j) \/ Applied(j, e)
<1>1. ASSUME NEW v \in Vaps,
             PushNetworkCreate(j, v) \/ PushNetworkUpdate(j, v) \/ PushNetworkDelete(j, v)
      PROVE  Called(v)
  <2>1. CallOn(j, v) /\ req[j].kind = "push"
    BY <1>1, TurnIs DEF PushNetworkCreate, PushNetworkUpdate, PushNetworkDelete
  <2>2. UNCHANGED rowVars /\ (Raised(j) \/ Applied(j, v))
    BY <1>1 DEF PushNetworkCreate, PushNetworkUpdate, PushNetworkDelete, Call, PutVap, Raised, worldVars
  <2> QED
    BY <2>1, <2>2
<1>2. ASSUME NEW r \in Radios,
             PushRadioCreate(j, r) \/ PushRadioUpdate(j, r) \/ PushRadioDelete(j, r)
      PROVE  Called(r)
  <2>1. CallOn(j, r) /\ req[j].kind = "push"
    BY <1>2, TurnIs DEF PushRadioCreate, PushRadioUpdate, PushRadioDelete
  <2>2. UNCHANGED rowVars /\ (Raised(j) \/ Applied(j, r))
    BY <1>2 DEF PushRadioCreate, PushRadioUpdate, PushRadioDelete, Call, PutRadio, PutProfile,
                Raised, worldVars
  <2> QED
    BY <2>1, <2>2
<1>3. \E e \in Elements : Called(e)
  BY <1>1, <1>2 DEF Push, Elements
<1> QED
  BY <1>3 DEF CallOn

LEMMA PulledIsTyped ==
    ASSUME SyncInvariant, NEW j \in Jobs, Pull(j)
    PROVE  World'
<1>0. phase[j] = "syncing" /\ World
  BY PullCalls, TypedWorld DEF SyncInvariant
<1>1. ASSUME NEW v \in Vaps, PullNetworkCreate(j, v) PROVE World'
  <2>1. v \in todo[j].write /\ PutVapRow(v, [src[j][v] EXCEPT !.text = Compose(v, @)])
    BY <1>1 DEF PullNetworkCreate, Turn
  <2>2. [src[j][v] EXCEPT !.text = Compose(v, @)] \in Network
    BY <1>0, <2>1, Planned, NetworkWritten
  <2> QED
    BY <1>0, <2>1, <2>2, PutsTyped
<1>2. ASSUME NEW v \in Vaps, PullNetworkUpdate(j, v) PROVE World'
  <2>1. /\ v \in todo[j].write /\ dst[j][v] # Absent
        /\ \/ UNCHANGED worldVars
           \/ /\ vapRow[v] # Absent
              /\ PutVapRow(v, UpdatedNetwork(v, src[j][v], dst[j][v], vapRow[v]))
    BY <1>2 DEF PullNetworkUpdate, Turn
  <2>2. src[j][v] \in Network /\ dst[j][v] \in Network /\ (vapRow[v] # Absent => vapRow[v] \in Network)
    BY <1>0, <2>1, Planned DEF World
  <2>3. vapRow[v] # Absent => UpdatedNetwork(v, src[j][v], dst[j][v], vapRow[v]) \in Network
    BY <2>2, NetworkUpdated
  <2> QED
    BY <1>0, <2>1, <2>3, PutsTyped, SameWorldTyped
<1>3. ASSUME NEW v \in Vaps, PullNetworkDelete(j, v) PROVE World'
  BY <1>0, <1>3, PutsTyped DEF PullNetworkDelete
<1>4. ASSUME NEW r \in Radios, PullRadioCreate(j, r) PROVE World'
  <2>1. r \in todo[j].write /\ PutRadioRow(r, src[j][r])
    BY <1>4 DEF PullRadioCreate, Turn
  <2> QED
    BY <1>0, <2>1, Planned, PutsTyped
<1>5. ASSUME NEW r \in Radios, PullRadioUpdate(j, r) PROVE World'
  <2>1. /\ r \in todo[j].write
        /\ \/ UNCHANGED worldVars
           \/ radioRow[r] # Absent /\ PutRadioRow(r, Changed(src[j][r], dst[j][r], radioRow[r]))
    BY <1>5 DEF PullRadioUpdate, Turn
  <2>2. src[j][r] \in RadioProfile /\ (radioRow[r] # Absent => radioRow[r] \in RadioProfile)
    BY <1>0, <2>1, Planned DEF World
  <2>3. radioRow[r] # Absent => Changed(src[j][r], dst[j][r], radioRow[r]) \in RadioProfile
    BY <2>2, RadioChangedTyped
  <2> QED
    BY <1>0, <2>1, <2>3, PutsTyped, SameWorldTyped
<1>6. ASSUME NEW r \in Radios, PullRadioDelete(j, r) PROVE World'
  BY <1>0, <1>6, PutsTyped DEF PullRadioDelete
<1>7. ASSUME NEW s \in Serials \cup {Blank}, PullApCreate(j, s) PROVE World'
  <2>1. /\ s \in todo[j].write /\ s \in Serials
        /\ PutApRows([apRow EXCEPT ![s] = [name |-> src[j][s], scoped |-> TRUE]])
    BY <1>7 DEF PullApCreate, Turn
  <2>2. src[j][s] \in ApNames
    BY <1>0, <2>1, Planned
  <2>3. [name |-> src[j][s], scoped |-> TRUE] \in Ap
    BY <2>2 DEF Ap
  <2>4. [apRow EXCEPT ![s] = [name |-> src[j][s], scoped |-> TRUE]] \in [Hosts -> Ap \cup {Absent}]
    BY <1>0, <2>3 DEF World
  <2> QED
    BY <1>0, <2>1, <2>4, PutsTyped
<1>8. ASSUME NEW s \in Serials \cup {Blank}, PullApUpdate(j, s) PROVE World'
  <2>1. /\ s \in todo[j].write /\ s \in Serials
        /\ \/ UNCHANGED worldVars
           \/ apRow[s] # Absent /\ PutApRows([apRow EXCEPT ![s].name = src[j][s]])
    BY <1>8 DEF PullApUpdate, Turn
  <2>2. src[j][s] \in ApNames
    BY <1>0, <2>1, Planned
  <2>3. apRow[s] # Absent => [apRow EXCEPT ![s].name = src[j][s]] \in [Hosts -> Ap \cup {Absent}]
    BY <1>0, <2>1, <2>2 DEF World, Ap, Hosts
  <2> QED
    BY <1>0, <2>1, <2>3, PutsTyped, SameWorldTyped
<1>9. ASSUME NEW s \in Serials \cup {Blank}, PullApDelete(j, s) PROVE World'
  <2>1. PutApRows([d \in Hosts |-> IF d = s \/ (s = Blank /\ d \in Blanks) THEN Absent ELSE apRow[d]])
    BY <1>9 DEF PullApDelete
  <2>2. [d \in Hosts |-> IF d = s \/ (s = Blank /\ d \in Blanks) THEN Absent ELSE apRow[d]]
          \in [Hosts -> Ap \cup {Absent}]
    BY <1>0 DEF World
  <2> QED
    BY <1>0, <2>1, <2>2, PutsTyped
<1> QED
  BY <1>1, <1>2, <1>3, <1>4, <1>5, <1>6, <1>7, <1>8, <1>9 DEF Pull

LEMMA PushedIsTyped ==
    ASSUME SyncInvariant, NEW j \in Jobs, Push(j), ~Raised(j)
    PROVE  World'
<1>0. phase[j] = "syncing" /\ World
  BY PushCalls, TypedWorld DEF SyncInvariant
<1>1. ASSUME NEW v \in Vaps, PushNetworkCreate(j, v) PROVE World'
  <2>1. v \in todo[j].write /\ PutVap(v, PostedVap(src[j][v]))
    BY <1>1 DEF PushNetworkCreate, Turn, Call
  <2>2. PostedVap(src[j][v]) \in Vap
    BY <1>0, <2>1, Planned, PostedVapRead
  <2> QED
    BY <1>0, <2>1, <2>2, PutsTyped
<1>2. ASSUME NEW v \in Vaps, PushNetworkUpdate(j, v) PROVE World'
  <2>1. v \in todo[j].write /\ vap[v] # Absent /\ PutVap(v, UpdatedVap(src[j][v], vap[v]))
    BY <1>2 DEF PushNetworkUpdate, Turn, Call
  <2>2. src[j][v] \in Network /\ vap[v] \in Vap
    BY <1>0, <2>1, Planned DEF World
  <2>3. UpdatedVap(src[j][v], vap[v]) \in Vap
    BY <2>2, UpdatedVapRead
  <2> QED
    BY <1>0, <2>1, <2>3, PutsTyped
<1>3. ASSUME NEW v \in Vaps, PushNetworkDelete(j, v) PROVE World'
  BY <1>0, <1>3, PutsTyped DEF PushNetworkDelete, Call
<1>4. ASSUME NEW r \in Radios, PushRadioCreate(j, r) \/ PushRadioUpdate(j, r) PROVE World'
  <2>1. /\ r \in todo[j].write /\ UNCHANGED src
        /\ \/ prof[r[1]] # Absent /\ PutRadio(r, src[j][r])
           \/ PutProfile(r[1], PostedProfile(j, r[1]))
    BY <1>4 DEF PushRadioCreate, PushRadioUpdate, Turn, Call, Applied
  <2>2. src[j][r] \in RadioProfile /\ IsStore(src[j]) /\ r[1] \in Profiles
    BY <1>0, <2>1, Planned, RadiosAre DEF SyncInvariant, TypeOK
  <2>3. CASE prof[r[1]] # Absent /\ PutRadio(r, src[j][r])
    BY <1>0, <2>2, <2>3, RadioPut
  <2>4. CASE PutProfile(r[1], PostedProfile(j, r[1]))
    BY <1>0, <2>1, <2>2, <2>4, ProfilePosted
  <2> QED
    BY <2>1, <2>3, <2>4
<1>5. ASSUME NEW r \in Radios, PushRadioDelete(j, r) PROVE World'
  BY <1>0, <1>5, SameWorldTyped DEF PushRadioDelete
<1> QED
  BY <1>1, <1>2, <1>3, <1>4, <1>5 DEF Push

LEMMA OperatorsTyped ==
    ASSUME TypeOK, Operators
    PROVE  TypeOK' /\ Edited
<1>0. World
  BY TypedWorld
<1>1. ASSUME NEW e \in DeviceEdits,
             \/ e.key \in Vaps /\ VapEdit(e.key, e.record)
             \/ e.key \in Profiles /\ ProfileEdit(e.key, e.record)
             \/ e.key \in Serials /\ WtpEdit(e.key, e.record)
      PROVE  World' /\ Edited
  <2>1. CASE e.key \in Vaps /\ VapEdit(e.key, e.record)
    BY <1>0, <2>1, PutsTyped, WorldsAssumption DEF VapEdit
  <2>2. CASE e.key \in Profiles /\ ProfileEdit(e.key, e.record)
    BY <1>0, <2>2, PutsTyped, WorldsAssumption DEF ProfileEdit
  <2>3. CASE e.key \in Serials /\ WtpEdit(e.key, e.record)
    <3>1. e.record \in ApNames \cup {Absent}
      BY <2>3, WorldsAssumption
    <3> QED
      BY <1>0, <2>3, <3>1 DEF WtpEdit, World, rowVars
  <2> QED
    BY <1>1, <2>1, <2>2, <2>3
<1>2. ASSUME NEW e \in RowEdits,
             \/ e.key \in Vaps /\ NetworkRowEdit(e.key, e.record)
             \/ e.key \in Radios /\ RadioRowEdit(e.key, e.record)
             \/ e.key \in Hosts /\ DeviceRowEdit(e.key, e.record)
      PROVE  World' /\ Edited
  <2>1. CASE e.key \in Vaps /\ NetworkRowEdit(e.key, e.record)
    BY <1>0, <2>1, PutsTyped, WorldsAssumption DEF NetworkRowEdit
  <2>2. CASE e.key \in Radios /\ RadioRowEdit(e.key, e.record)
    BY <1>0, <2>2, PutsTyped, WorldsAssumption DEF RadioRowEdit
  <2>3. CASE e.key \in Hosts /\ DeviceRowEdit(e.key, e.record)
    <3>1. e.record \in Ap \cup {Absent}
      BY <2>3, WorldsAssumption
    <3>2. [apRow EXCEPT ![e.key] = e.record] \in [Hosts -> Ap \cup {Absent}]
      BY <1>0, <3>1 DEF World
    <3> QED
      BY <1>0, <2>3, <3>2, PutsTyped DEF DeviceRowEdit
  <2> QED
    BY <1>2, <2>1, <2>2, <2>3
<1>3. World' /\ Edited
  BY <1>1, <1>2 DEF Operators
<1>4. /\ touched' \subseteq Jobs /\ edits' \in 0..MaxEdits
      /\ UNCHANGED <<phase, req, src, dst, todo, runs>>
  BY <1>3, ConstantsAssumption DEF Edited, TypeOK
<1> QED
  BY <1>3, <1>4 DEF TypeOK, World

LEMMA StepTyped ==
    ASSUME SyncInvariant, [Next]_vars
    PROVE  TypeOK'
<1>0. TypeOK
  BY DEF SyncInvariant
<1>1. ASSUME NEW j \in Jobs,
             Start(j) \/ ExecuteSync(j) \/ Finish(j) \/ Crash(j) \/ Raised(j)
      PROVE  TypeOK'
  BY <1>0, <1>1, StartTyped, ExecuteSyncTyped, RestTyped
<1>2. ASSUME NEW j \in Jobs, Load(j), ~Raised(j) PROVE TypeOK'
  BY <1>0, <1>2, LoadTyped
<1>3. ASSUME NEW j \in Jobs, Pull(j) \/ Push(j), ~Raised(j)
      PROVE  TypeOK'
  <2>1. \E e : Applied(j, e)
    BY <1>3, PullCalls, PushCalls
  <2>2. World'
    BY <1>3, PulledIsTyped, PushedIsTyped
  <2> QED
    BY <1>0, <2>1, <2>2, AppliedTyped
<1>4. CASE UNCHANGED vars
  <2>1. World'
    BY <1>0, <1>4, TypedWorld, SameWorldTyped DEF vars, worldVars, deviceVars, rowVars
  <2> QED
    BY <1>0, <1>4, <2>1 DEF vars, TypeOK, World
<1> QED
  BY <1>0, <1>1, <1>2, <1>3, <1>4, OperatorsTyped DEF Next, Work

----------------------------------------------------------------------------
(* Steps that are not the job's own.                                       *)

StepOf(k) ==
    Start(k) \/ Load(k) \/ ExecuteSync(k) \/ Pull(k) \/ Push(k) \/ Finish(k) \/ Crash(k)

\* What job k knows and has to do.
SameJob(k) ==
    /\ phase'[k] = phase[k] /\ req'[k] = req[k]
    /\ src'[k] = src[k] /\ dst'[k] = dst[k] /\ todo'[k] = todo[k]

\* Nobody else alters what a job knows; and if it still counts as undisturbed,
\* nobody else has altered the device or a row.
LEMMA OthersStep ==
    ASSUME SyncInvariant, [Next]_vars, NEW k \in Jobs, ~StepOf(k)
    PROVE  SameJob(k) /\ (k \notin touched' => k \notin touched /\ UNCHANGED worldVars)
<1> DEFINE Goal == SameJob(k) /\ (k \notin touched' => k \notin touched /\ UNCHANGED worldVars)
<1>0. /\ phase \in [Jobs -> Idle \cup Running] /\ req \in [Jobs -> Requests]
      /\ src = [j \in Jobs |-> src[j]] /\ dst = [j \in Jobs |-> dst[j]]
      /\ todo \in [Jobs -> [write : SUBSET Elements, delete : SUBSET Elements]]
  BY DEF SyncInvariant, TypeOK
<1>1. ASSUME NEW j \in Jobs, j # k, Start(j) PROVE Goal
  BY <1>0, <1>1 DEF Start, Advance, SameJob
<1>2. ASSUME NEW j \in Jobs, j # k, ExecuteSync(j) \/ Finish(j) \/ Crash(j) \/ Raised(j) PROVE Goal
  BY <1>0, <1>2 DEF ExecuteSync, Finish, Crash, Raised, Advance, SameJob
<1>3. ASSUME NEW j \in Jobs, j # k, Load(j) PROVE Goal
  <2>1. CASE Raised(j)
    BY <1>2, <1>3, <2>1
  <2>2. CASE ~Raised(j)
    BY <1>0, <1>3, <2>2 DEF Load, LoadSource, LoadTarget, Advance, SameJob
  <2> QED
    BY <2>1, <2>2
<1>4. ASSUME NEW j \in Jobs, j # k, NEW e, Applied(j, e) PROVE Goal
  BY <1>0, <1>4 DEF Applied, SameJob
<1>5. ASSUME NEW j \in Jobs, Pull(j) \/ Push(j)
      PROVE  Raised(j) \/ \E e : Applied(j, e)
  BY <1>5, PullCalls, PushCalls
<1>6. CASE Operators
  <2>1. Edited
    BY <1>6, OperatorsTyped DEF SyncInvariant
  <2> QED
    BY <2>1 DEF Edited, SameJob
<1>7. CASE UNCHANGED vars
  BY <1>7 DEF vars, worldVars, deviceVars, rowVars, SameJob
<1> QED
  BY <1>1, <1>2, <1>3, <1>4, <1>5, <1>6, <1>7 DEF Next, Work, StepOf

----------------------------------------------------------------------------
(* What a job has loaded, while nobody writes it.                          *)

LEMMA SameModes ==
    ASSUME UNCHANGED prof
    PROVE  /\ \A v : Users(v)' = Users(v) /\ ModeOf(v)' = ModeOf(v)
           /\ \A r : (Readable(r)' <=> Readable(r)) /\ FgtRadio(r)' = FgtRadio(r)
<1>1. \A v : Users(v)' = Users(v)
  BY DEF Users
<1>2. \A v, m : UsesOf(v, m)' = UsesOf(v, m)
  BY <1>1 DEF UsesOf, Users
<1>3. \A v : ModeOf(v)' = ModeOf(v)
  BY <1>1, <1>2 DEF ModeOf, UsesOf, Users
<1>4. \A r : (Readable(r)' <=> Readable(r)) /\ FgtRadio(r)' = FgtRadio(r)
  BY DEF Readable, FgtRadio
<1> QED
  BY <1>1, <1>3, <1>4

LEMMA SameStore ==
    ASSUME NEW kind \in {"device", "rows"},
           kind = "device" => UNCHANGED deviceVars, kind = "rows" => UNCHANGED rowVars
    PROVE  /\ \A aps : Loaded(kind, aps)' = Loaded(kind, aps)
           /\ \A aps : LoadRaises(kind, aps)' <=> LoadRaises(kind, aps)
<1>1. ASSUME kind = "device", NEW aps
      PROVE  Loaded(kind, aps)' = Loaded(kind, aps) /\ (LoadRaises(kind, aps)' <=> LoadRaises(kind, aps))
  <2>1. UNCHANGED <<vap, prof, wtp>>
    BY <1>1 DEF deviceVars
  <2>2. \A v : FgtNetwork(v)' = FgtNetwork(v)
    BY <2>1, SameModes DEF FgtNetwork
  <2>3. LoadedAps("device")' = LoadedAps("device")
    BY <2>1 DEF LoadedAps
  <2> QED
    BY <1>1, <2>1, <2>2, <2>3, SameModes DEF Loaded, LoadRaises
<1>2. ASSUME kind = "rows", NEW aps
      PROVE  Loaded(kind, aps)' = Loaded(kind, aps) /\ (LoadRaises(kind, aps)' <=> LoadRaises(kind, aps))
  <2>1. UNCHANGED <<vapRow, radioRow, apRow>>
    BY <1>2 DEF rowVars
  <2>2. \A v : RowNetwork(v)' = RowNetwork(v)
    BY <2>1 DEF RowNetwork
  <2>3. LoadedAps("rows")' = LoadedAps("rows") /\ ScopedBlanks' = ScopedBlanks /\ BlankName' = BlankName
    BY <2>1 DEF LoadedAps, ScopedBlanks, BlankName
  <2> QED
    BY <1>2, <2>1, <2>2, <2>3 DEF Loaded, LoadRaises, BlankName
<1> QED
  BY <1>1, <1>2

Stopped == {"idle", "source", "failed", "crashed"}

\* A job whose source nobody writes still has it as it is.
LEMMA SourceKept ==
    ASSUME NEW k \in Jobs, SourceIsCurrent(k), k \notin touched' => k \notin touched,
           req'[k] = req[k], src'[k] = src[k],
           phase[k] \in {"target", "loaded"} \cup Applying,
           k \notin touched' /\ SourceKind(k) = "device" => UNCHANGED deviceVars,
           k \notin touched' /\ SourceKind(k) = "rows" => UNCHANGED rowVars
    PROVE  SourceIsCurrent(k)'
<1> SUFFICES ASSUME k \notin touched'
             PROVE  src'[k] = Loaded(SourceKind(k), req[k].aps)'
  BY DEF SourceIsCurrent
<1>1. PICK kind \in {"device", "rows"} : kind = SourceKind(k)
  BY DEF SourceKind
<1>2. PICK aps : aps = req[k].aps
  OBVIOUS
<1>3. src[k] = Loaded(kind, aps)
  BY <1>1, <1>2 DEF SourceIsCurrent
<1>4. Loaded(kind, aps)' = Loaded(kind, aps)
  BY <1>1, SameStore
<1>5. SourceKind(k)' = kind /\ req'[k].aps = aps
  BY <1>1, <1>2 DEF SourceKind
<1>6. Loaded(SourceKind(k), req[k].aps)' = Loaded(kind, aps)'
  BY <1>5
<1> QED
  BY <1>3, <1>4, <1>6

\* What a plan says stays what it says while the plan, and what the job has
\* loaded, are the same.
LEMMA SamePlan ==
    ASSUME NEW k \in Jobs,
           req'[k] = req[k], src'[k] = src[k], dst'[k] = dst[k], todo'[k] = todo[k]
    PROVE  /\ Pending(k)' = Pending(k) /\ Differs(k)' = Differs(k) /\ WorkedOff(k)' = WorkedOff(k)
           /\ \A e : Outcome(k, e)' = Outcome(k, e)
<1>1. Pending(k)' = Pending(k) /\ Differs(k)' = Differs(k) /\ WorkedOff(k)' = WorkedOff(k)
  BY DEF Pending, Differs, WorkedOff, Writes, Deletes
<1> QED
  BY <1>1 DEF Outcome

\* VAP v and radio r read as they did while the device and what the job knows
\* of them are the same.
LEMMA SamePushed ==
    ASSUME NEW k \in Jobs, UNCHANGED deviceVars, src'[k] = src[k], dst'[k] = dst[k],
           WorkedOff(k)' = WorkedOff(k)
    PROVE  /\ \A v : PushedVap(k, v)' <=> PushedVap(k, v)
           /\ \A r : PushedRadio(k, r)' <=> PushedRadio(k, r)
<1>1. UNCHANGED <<vap, prof, wtp>>
  BY DEF deviceVars
<1>2. ASSUME NEW v PROVE PushedVap(k, v)' <=> PushedVap(k, v)
  <2>1. FgtNetwork(v)' = FgtNetwork(v)
    BY <1>1, SameModes DEF FgtNetwork
  <2> QED
    BY <1>1, <2>1 DEF PushedVap
<1>3. ASSUME NEW r PROVE PushedRadio(k, r)' <=> PushedRadio(k, r)
  <2>1. Loaded("device", FALSE)' = Loaded("device", FALSE)
    BY SameStore
  <2>2. \A e : RadioIs(r, e)' <=> RadioIs(r, e)
    BY <1>1 DEF RadioIs
  <2> HIDE DEF RadioIs
  <2>3. /\ RadioIs(r, src[k][r])' <=> RadioIs(r, src[k][r])
        /\ src'[k][r] = src[k][r] /\ dst'[k][r] = dst[k][r]
    BY <2>2, <1>1 DEF RadioIs
  <2> QED
    BY <2>1, <2>3 DEF PushedRadio
<1> QED
  BY <1>2, <1>3

LEMMA SameOnCourse ==
    ASSUME NEW k \in Jobs, UNCHANGED worldVars,
           req'[k] = req[k], src'[k] = src[k], dst'[k] = dst[k], todo'[k] = todo[k],
           k \notin touched' => k \notin touched, phase'[k] \in Applying => phase[k] \in Applying,
           PullIsOnCourse(k), PushIsOnCourse(k)
    PROVE  PullIsOnCourse(k)' /\ PushIsOnCourse(k)'
<1>1. UNCHANGED deviceVars /\ UNCHANGED rowVars
  BY DEF worldVars, deviceVars, rowVars
<1>2. WorkedOff(k)' = WorkedOff(k) /\ \A e : Outcome(k, e)' = Outcome(k, e)
  BY SamePlan
<1>3. \A aps : Loaded("rows", aps)' = Loaded("rows", aps)
  BY <1>1, SameStore
<1>4. PICK aps : aps = req[k].aps
  OBVIOUS
<1>5. req'[k].aps = aps /\ Loaded("rows", req[k].aps)' = Loaded("rows", aps)
  BY <1>3, <1>4
<1>6. PullIsOnCourse(k)'
  BY <1>2, <1>4, <1>5 DEF PullIsOnCourse
<1>7. /\ \A v : PushedVap(k, v)' <=> PushedVap(k, v)
      /\ \A r : PushedRadio(k, r)' <=> PushedRadio(k, r)
  BY <1>1, <1>2, SamePushed
<1>8. PushIsOnCourse(k)'
  BY <1>7 DEF PushIsOnCourse
<1> QED
  BY <1>6, <1>8

LEMMA SameCourse ==
    ASSUME NEW k \in Jobs, SameJob(k), CourseOf(k),
           k \notin touched' => k \notin touched /\ UNCHANGED worldVars
    PROVE  CourseOf(k)'
<1>1. PlanFollowsDiff(k)'
  BY DEF SameJob, CourseOf, PlanFollowsDiff, Differs, WorkedOff, Writes, Deletes, Pending, NoWork
<1>2. CASE k \in touched'
  BY <1>1, <1>2 DEF CourseOf, SourceIsCurrent, TargetIsCurrent, PullIsOnCourse, PushIsOnCourse
<1>3. CASE k \notin touched'
  <2>0. /\ k \notin touched /\ UNCHANGED worldVars
        /\ UNCHANGED deviceVars /\ UNCHANGED rowVars
        /\ phase'[k] = phase[k] /\ req'[k] = req[k]
        /\ src'[k] = src[k] /\ dst'[k] = dst[k] /\ todo'[k] = todo[k]
    BY <1>3 DEF SameJob, worldVars, deviceVars, rowVars
  <2>1. SourceIsCurrent(k)'
    <3>1. CASE phase[k] \notin {"target", "loaded"} \cup Applying
      BY <2>0, <3>1 DEF SourceIsCurrent
    <3>2. CASE phase[k] \in {"target", "loaded"} \cup Applying
      BY <2>0, <3>2, SourceKept DEF CourseOf
    <3> QED
      BY <3>1, <3>2
  <2>2. TargetIsCurrent(k)'
    <3> SUFFICES ASSUME phase[k] = "loaded"
                 PROVE  dst[k] = Loaded(TargetKind(k), req[k].aps)'
      BY <2>0 DEF TargetIsCurrent
    <3>1. PICK kind \in {"device", "rows"}, aps \in {req[k].aps} : kind = TargetKind(k) /\ aps = req[k].aps
      BY DEF TargetKind
    <3>2. TargetKind(k)' = kind /\ req'[k].aps = aps
      BY <2>0, <3>1 DEF TargetKind
    <3>3. Loaded(kind, aps)' = Loaded(kind, aps)
      BY <2>0, SameStore
    <3>4. Loaded(TargetKind(k), req[k].aps)' = Loaded(kind, aps)
      BY <3>2, <3>3
    <3> QED
      BY <2>0, <3>1, <3>4 DEF CourseOf, TargetIsCurrent
  <2> QED
    BY <1>1, <2>0, <2>1, <2>2, SameOnCourse DEF CourseOf
<1> QED
  BY <1>2, <1>3

----------------------------------------------------------------------------
(* The job's own steps, up to the diff.                                    *)

LEMMA StartCourse ==
    ASSUME SyncInvariant, NEW k \in Jobs, Start(k)
    PROVE  CourseOf(k)'
<1>1. phase'[k] = "source"
  BY DEF SyncInvariant, TypeOK, Start, Advance
<1> QED
  BY <1>1 DEF CourseOf, PlanFollowsDiff, SourceIsCurrent, TargetIsCurrent, PullIsOnCourse,
              PushIsOnCourse, Applying

LEMMA EndCourse ==
    ASSUME SyncInvariant, NEW k \in Jobs, CourseOf(k), Finish(k) \/ Crash(k) \/ Raised(k)
    PROVE  CourseOf(k)'
<1>1. /\ UNCHANGED worldVars /\ UNCHANGED <<req, src, dst, todo, touched>>
      /\ \/ phase'[k] \in {"crashed", "failed"}
         \/ phase[k] = "syncing" /\ phase'[k] = "done" /\ todo[k] = NoWork
  BY DEF SyncInvariant, TypeOK, Finish, Crash, Raised, Advance
<1>2. CASE phase'[k] \in {"crashed", "failed"}
  BY <1>2 DEF CourseOf, PlanFollowsDiff, SourceIsCurrent, TargetIsCurrent, PullIsOnCourse,
              PushIsOnCourse, Applying
<1>3. CASE phase[k] = "syncing" /\ phase'[k] = "done" /\ todo[k] = NoWork
  <2>1. PlanFollowsDiff(k)'
    <3>1. Pending(k)' = Pending(k) /\ WorkedOff(k)' = WorkedOff(k)
      BY <1>1, SamePlan
    <3> QED
      BY <1>1, <1>3, <3>1 DEF CourseOf, PlanFollowsDiff, Applying, Writes, Deletes, NoWork
  <2>2. SourceIsCurrent(k)'
    BY <1>1, <1>3, SourceKept DEF CourseOf, worldVars, Applying
  <2>3. TargetIsCurrent(k)'
    BY <1>3 DEF TargetIsCurrent
  <2>4. PullIsOnCourse(k)' /\ PushIsOnCourse(k)'
    BY <1>1, <1>3, SameOnCourse DEF CourseOf, Applying
  <2> QED
    BY <2>1, <2>2, <2>3, <2>4 DEF CourseOf
<1> QED
  BY <1>1, <1>2, <1>3

LEMMA LoadCourse ==
    ASSUME SyncInvariant, NEW k \in Jobs, Load(k), ~Raised(k), CourseOf(k)
    PROVE  CourseOf(k)'
<1>0. /\ phase \in [Jobs -> Idle \cup Running]
      /\ src = [j \in Jobs |-> src[j]] /\ dst = [j \in Jobs |-> dst[j]]
  BY DEF SyncInvariant, TypeOK
<1>1. UNCHANGED worldVars /\ UNCHANGED deviceVars /\ UNCHANGED rowVars /\ UNCHANGED <<req, touched>>
  BY DEF Load, LoadSource, LoadTarget, worldVars, deviceVars, rowVars
<1>2. PICK from \in {"device", "rows"}, to \in {"device", "rows"}, aps \in {req[k].aps} :
         from = SourceKind(k) /\ to = TargetKind(k) /\ aps = req[k].aps
  BY DEF SourceKind, TargetKind
<1>3. /\ SourceKind(k)' = from /\ TargetKind(k)' = to /\ req'[k].aps = aps
  BY <1>1, <1>2 DEF SourceKind, TargetKind
<1>4. Loaded(from, aps)' = Loaded(from, aps) /\ Loaded(to, aps)' = Loaded(to, aps)
  BY <1>1, SameStore
<1>5. /\ Loaded(SourceKind(k), req[k].aps)' = Loaded(from, aps)
      /\ Loaded(TargetKind(k), req[k].aps)' = Loaded(to, aps)
  BY <1>3, <1>4
<1>6. \/ /\ phase[k] = "source" /\ phase'[k] = "target"
         /\ src'[k] = Loaded(from, aps)
      \/ /\ phase[k] = "target" /\ phase'[k] = "loaded"
         /\ src'[k] = src[k] /\ dst'[k] = Loaded(to, aps)
  BY <1>0, <1>2 DEF Load, LoadSource, LoadTarget, Advance
<1>7. SourceIsCurrent(k)'
  BY <1>1, <1>2, <1>5, <1>6 DEF CourseOf, SourceIsCurrent
<1>8. TargetIsCurrent(k)'
  BY <1>5, <1>6 DEF TargetIsCurrent
<1>9. PlanFollowsDiff(k)' /\ PullIsOnCourse(k)' /\ PushIsOnCourse(k)'
  BY <1>6 DEF PlanFollowsDiff, PullIsOnCourse, PushIsOnCourse, Applying
<1> QED
  BY <1>7, <1>8, <1>9 DEF CourseOf

LEMMA ExecuteSyncCourse ==
    ASSUME SyncInvariant, NEW k \in Jobs, ExecuteSync(k), CourseOf(k)
    PROVE  CourseOf(k)'
<1>0. /\ phase \in [Jobs -> Idle \cup Running] /\ req[k] \in Requests
      /\ todo \in [Jobs -> [write : SUBSET Elements, delete : SUBSET Elements]]
      /\ World
  BY TypedWorld DEF SyncInvariant, TypeOK
<1>1. /\ UNCHANGED worldVars /\ req' = req /\ touched' = touched /\ src' = src /\ dst' = dst
      /\ phase[k] = "loaded" /\ phase'[k] = "syncing"
      /\ todo'[k] = [write |-> Writes(src[k], dst[k]),
                     delete |-> IF req[k].delete THEN Deletes(src[k], dst[k]) ELSE {}]
  BY <1>0 DEF ExecuteSync, Advance
<1>2. UNCHANGED deviceVars /\ UNCHANGED rowVars /\ UNCHANGED <<vap, prof, wtp>>
  BY <1>1 DEF worldVars, deviceVars, rowVars
<1>3. WorkedOff(k)' = {} /\ \A e : Outcome(k, e)' = dst[k][e]
  BY <1>1 DEF WorkedOff, Differs, Pending, Writes, Deletes, Outcome
<1>4. PlanFollowsDiff(k)'
  BY <1>1, <1>3 DEF PlanFollowsDiff, Writes, Deletes
<1>5. SourceIsCurrent(k)'
  BY <1>1, <1>2, SourceKept DEF CourseOf
<1>6. TargetIsCurrent(k)'
  BY <1>1 DEF TargetIsCurrent
<1>7. k \notin touched => dst[k] = Loaded(TargetKind(k), req[k].aps)
  BY <1>1 DEF CourseOf, TargetIsCurrent
<1>8. PullIsOnCourse(k)'
  <2> SUFFICES ASSUME k \notin touched, req[k].kind = "pull"
               PROVE  \A e \in Elements : Loaded("rows", req[k].aps)'[e] = dst[k][e]
    BY <1>1, <1>3 DEF PullIsOnCourse
  <2>1. PICK aps : aps = req[k].aps
    OBVIOUS
  <2>2. dst[k] = Loaded("rows", aps)
    BY <1>7, <2>1 DEF TargetKind
  <2>3. Loaded("rows", aps)' = Loaded("rows", aps)
    BY <1>2, SameStore
  <2>4. Loaded("rows", req[k].aps)' = Loaded("rows", aps)
    BY <1>1, <2>1, <2>3
  <2> QED
    BY <2>2, <2>4
<1>9. PushIsOnCourse(k)'
  <2> SUFFICES ASSUME k \notin touched, req[k].kind = "push"
               PROVE  (\A v \in Vaps : PushedVap(k, v)') /\ (\A r \in Radios : PushedRadio(k, r)')
    BY <1>1 DEF PushIsOnCourse
  <2>1. dst[k] = Loaded("device", FALSE)
    BY <1>0, <1>7 DEF TargetKind, Requests
  <2>2. /\ \A v \in Vaps : dst[k][v] = IF vap[v] = Absent THEN Absent ELSE FgtNetwork(v)
        /\ \A r \in Radios : dst[k][r] = Loaded("device", FALSE)[r]
    BY <2>1, DeviceStoreRead
  <2>3. ASSUME NEW v \in Vaps PROVE PushedVap(k, v)'
    <3>1. v \notin WorkedOff(k)' /\ dst'[k] = dst[k] /\ vap' = vap
      BY <1>1, <1>2, <1>3
    <3>2. FgtNetwork(v)' = FgtNetwork(v)
      BY <1>2, SameModes DEF FgtNetwork
    <3>3. CASE vap[v] = Absent
      BY <2>2, <3>1, <3>3 DEF PushedVap
    <3>4. CASE vap[v] # Absent
      <4>1. /\ FgtNetwork(v) # Absent /\ FgtNetwork(v).look = vap[v].look
            /\ FgtNetwork(v).auth = AuthOf(vap[v].security)
        BY <1>0, <3>4, FgtNetworkRead
      <4> QED
        BY <2>2, <3>1, <3>2, <3>4, <4>1 DEF PushedVap
    <3> QED
      BY <3>3, <3>4
  <2>4. ASSUME NEW r \in Radios PROVE PushedRadio(k, r)'
    <3>1. Loaded("device", FALSE)' = Loaded("device", FALSE)
      BY <1>2, SameStore
    <3> QED
      BY <1>1, <1>3, <2>2, <3>1 DEF PushedRadio
  <2> QED
    BY <2>3, <2>4
<1> QED
  BY <1>4, <1>5, <1>6, <1>8, <1>9 DEF CourseOf

----------------------------------------------------------------------------
(* A call takes one element off the plan.                                  *)

\* The element worked off has its outcome now, the others keep theirs.
LEMMA AppliedOutcome ==
    ASSUME SyncInvariant, NEW k \in Jobs, NEW e, CallOn(k, e), Applied(k, e)
    PROVE  /\ e \in Elements /\ e \notin WorkedOff(k) /\ Outcome(k, e) = dst[k][e]
           /\ Outcome(k, e)' = src[k][e]
           /\ \A d : d # e => Outcome(k, d)' = Outcome(k, d)
           /\ WorkedOff(k)' = WorkedOff(k) \cup {e} /\ Pending(k)' = Pending(k) \ {e}
           /\ UNCHANGED <<phase, req, src, dst>> /\ (k \notin touched' => k \notin touched)
           /\ todo'[k] = [write |-> todo[k].write \ {e}, delete |-> todo[k].delete \ {e}]
<1>1. /\ todo'[k] = [write |-> todo[k].write \ {e}, delete |-> todo[k].delete \ {e}]
      /\ UNCHANGED <<phase, req, src, dst>> /\ (k \notin touched' => k \notin touched)
      /\ e \in Pending(k) /\ e \in Elements /\ phase[k] = "syncing"
  BY DEF Applied, SyncInvariant, TypeOK, Pending, CallOn
<1>2. Pending(k) \subseteq Differs(k)
  BY <1>1, Planned
<1>3. Pending(k)' = Pending(k) \ {e} /\ Differs(k)' = Differs(k)
  BY <1>1 DEF Pending, Differs, Writes, Deletes
<1>4. WorkedOff(k)' = WorkedOff(k) \cup {e} /\ e \notin WorkedOff(k)
  BY <1>1, <1>2, <1>3 DEF WorkedOff
<1> QED
  BY <1>1, <1>3, <1>4 DEF Outcome

LEMMA AppliedPlan ==
    ASSUME SyncInvariant, NEW k \in Jobs, CourseOf(k), NEW e, CallOn(k, e), Applied(k, e)
    PROVE  PlanFollowsDiff(k)'
<1>1. /\ todo'[k] = [write |-> todo[k].write \ {e}, delete |-> todo[k].delete \ {e}]
      /\ UNCHANGED <<phase, src, dst, req>> /\ phase[k] = "syncing"
      /\ WorkedOff(k)' = WorkedOff(k) \cup {e} /\ Pending(k)' = Pending(k) \ {e}
  BY AppliedOutcome DEF CallOn
<1>2. /\ todo[k].write \subseteq Writes(src[k], dst[k])
      /\ todo[k].delete \subseteq Deletes(src[k], dst[k])
      /\ ~req[k].delete => todo[k].delete = {}
      /\ \A d \in WorkedOff(k), f \in Pending(k) : KindOf(d) <= KindOf(f)
  BY <1>1 DEF CourseOf, PlanFollowsDiff, Applying
<1>3. /\ Writes(src[k], dst[k])' = Writes(src[k], dst[k])
      /\ Deletes(src[k], dst[k])' = Deletes(src[k], dst[k])
  BY <1>1 DEF Writes, Deletes
<1>4. \A d \in WorkedOff(k)', f \in Pending(k)' : KindOf(d) <= KindOf(f)
  BY <1>1, <1>2 DEF CallOn
<1> QED
  BY <1>1, <1>2, <1>3, <1>4 DEF PlanFollowsDiff

\* top_level: while a VAP is to do, no radio is done; when a radio's turn has
\* come, no VAP is left.
LEMMA KindsInOrder ==
    ASSUME SyncInvariant, NEW k \in Jobs, CourseOf(k), NEW e, CallOn(k, e)
    PROVE  /\ e \in Vaps => \A r \in Radios : r \notin WorkedOff(k)
           /\ e \in Radios => \A v \in Vaps : v \notin Pending(k)
<1>1. e \in Pending(k) /\ \A f \in Pending(k) : KindOf(e) <= KindOf(f)
  BY DEF CallOn
<1>2. \A d \in WorkedOff(k) : KindOf(d) <= KindOf(e)
  BY <1>1 DEF CallOn, CourseOf, PlanFollowsDiff, Applying
<1>3. (\A v \in Vaps : KindOf(v) = 1) /\ (\A r \in Radios : KindOf(r) = 2)
  BY KindIs
<1> QED
  BY <1>1, <1>2, <1>3

----------------------------------------------------------------------------
(* Pulling.                                                                *)

LEMMA RowStoreReadNext ==
    ASSUME NEW aps \in BOOLEAN
    PROVE  /\ Loaded("rows", aps)' = [e \in Elements |-> Loaded("rows", aps)'[e]]
           /\ \A v \in Vaps : Loaded("rows", aps)'[v] = IF vapRow'[v] = Absent THEN Absent ELSE RowNetwork(v)'
           /\ \A r \in Radios : Loaded("rows", aps)'[r] = radioRow'[r]
           /\ \A s \in Serials : Loaded("rows", aps)'[s] =
                 IF aps /\ apRow'[s] # Absent /\ apRow'[s].scoped THEN apRow'[s].name ELSE Absent
           /\ Loaded("rows", aps)'[Blank] = IF aps /\ ScopedBlanks' # {} THEN BlankName' ELSE Absent
<1>1. \A v \in Vaps : Loaded("rows", aps)'[v] = IF vapRow'[v] = Absent THEN Absent ELSE RowNetwork(v)'
  BY ElementsAre DEF Loaded
<1>2. \A r \in Radios : Loaded("rows", aps)'[r] = radioRow'[r]
  BY ElementsAre DEF Loaded
<1>3. ASSUME NEW s \in Serials
      PROVE  Loaded("rows", aps)'[s] =
                IF aps /\ apRow'[s] # Absent /\ apRow'[s].scoped THEN apRow'[s].name ELSE Absent
  <2>1. Loaded("rows", aps)'[s] = IF aps THEN LoadedAps("rows")'[s] ELSE Absent
    BY ElementsAre DEF Loaded
  <2>2. LoadedAps("rows")'[s] = IF apRow'[s] # Absent /\ apRow'[s].scoped THEN apRow'[s].name ELSE Absent
    BY DEF LoadedAps
  <2> QED
    BY <2>1, <2>2
<1>4. Loaded("rows", aps)'[Blank] = IF aps /\ ScopedBlanks' # {} THEN BlankName' ELSE Absent
  BY ElementsAre, ConstantsAssumption DEF Loaded, Hosts, BlankName
<1>5. Loaded("rows", aps)' = [e \in Elements |-> Loaded("rows", aps)'[e]]
  BY DEF Loaded
<1> QED
  BY <1>1, <1>2, <1>3, <1>4, <1>5

\* A network that is written is the only element that reads differently.
LEMMA PutVapRowReads ==
    ASSUME World, NEW v \in Vaps, NEW x, PutVapRow(v, x), NEW aps \in BOOLEAN
    PROVE  /\ \A d \in Elements \ {v} : Loaded("rows", aps)'[d] = Loaded("rows", aps)[d]
           /\ x = Absent => Loaded("rows", aps)'[v] = Absent
           /\ x # Absent => Loaded("rows", aps)'[v] = [x EXCEPT !.text = Strip(v, @)]
<1>1. /\ vapRow'[v] = x /\ \A w \in Vaps \ {v} : vapRow'[w] = vapRow[w]
      /\ UNCHANGED <<radioRow, apRow>>
  BY DEF PutVapRow, World
<1>2. RowNetwork(v)' = [x EXCEPT !.text = Strip(v, @)]
  BY <1>1 DEF RowNetwork
<1>3. ASSUME NEW w \in Vaps \ {v} PROVE Loaded("rows", aps)'[w] = Loaded("rows", aps)[w]
  <2>1. RowNetwork(w)' = RowNetwork(w)
    BY <1>1 DEF RowNetwork
  <2> QED
    BY <1>1, <2>1, RowStoreRead, RowStoreReadNext
<1>4. ScopedBlanks' = ScopedBlanks /\ BlankName' = BlankName
  BY <1>1 DEF ScopedBlanks, BlankName
<1>5. \A d \in Radios \cup Serials \cup {Blank} : Loaded("rows", aps)'[d] = Loaded("rows", aps)[d]
  BY <1>1, <1>4, RowStoreRead, RowStoreReadNext
<1> QED
  BY <1>1, <1>2, <1>3, <1>5, RowStoreReadNext DEF Elements

LEMMA PutRadioRowReads ==
    ASSUME World, NEW r \in Radios, NEW x, PutRadioRow(r, x), NEW aps \in BOOLEAN
    PROVE  /\ \A d \in Elements \ {r} : Loaded("rows", aps)'[d] = Loaded("rows", aps)[d]
           /\ Loaded("rows", aps)'[r] = x
<1>1. /\ radioRow'[r] = x /\ \A q \in Radios \ {r} : radioRow'[q] = radioRow[q]
      /\ UNCHANGED <<vapRow, apRow>>
  BY DEF PutRadioRow, World
<1>2. \A v : RowNetwork(v)' = RowNetwork(v)
  BY <1>1 DEF RowNetwork
<1>3. ScopedBlanks' = ScopedBlanks /\ BlankName' = BlankName
  BY <1>1 DEF ScopedBlanks, BlankName
<1>4. \A d \in Vaps \cup Serials \cup {Blank} : Loaded("rows", aps)'[d] = Loaded("rows", aps)[d]
  BY <1>1, <1>2, <1>3, RowStoreRead, RowStoreReadNext
<1>5. \A q \in Radios \ {r} : Loaded("rows", aps)'[q] = Loaded("rows", aps)[q]
  BY <1>1, RowStoreRead, RowStoreReadNext
<1> QED
  BY <1>1, <1>4, <1>5, RowStoreReadNext DEF Elements

\* Writing the Device with serial s, or all of those without one.
LEMMA PutApRowsReads ==
    ASSUME World, NEW rows, PutApRows(rows), NEW aps \in BOOLEAN, NEW s \in Serials \cup {Blank},
           \A d \in Hosts : d # s /\ ~(s = Blank /\ d \in Blanks) => rows[d] = apRow[d],
           s = Blank => \A d \in Blanks : rows[d] = Absent
    PROVE  /\ \A d \in Elements \ {s} : Loaded("rows", aps)'[d] = Loaded("rows", aps)[d]
           /\ s \in Serials => Loaded("rows", aps)'[s] =
                 IF aps /\ rows[s] # Absent /\ rows[s].scoped THEN rows[s].name ELSE Absent
           /\ s = Blank => Loaded("rows", aps)'[s] = Absent
<1>1. apRow' = rows /\ UNCHANGED <<vapRow, radioRow>>
  BY DEF PutApRows
<1>2. \A v : RowNetwork(v)' = RowNetwork(v)
  BY <1>1 DEF RowNetwork
<1>3. \A d \in Vaps \cup Radios : Loaded("rows", aps)'[d] = Loaded("rows", aps)[d]
  BY <1>1, <1>2, RowStoreRead, RowStoreReadNext
<1>4. \A d \in Serials \ {s} : Loaded("rows", aps)'[d] = Loaded("rows", aps)[d]
  <2>1. \A d \in Serials \ {s} : apRow'[d] = apRow[d]
    BY <1>1, ElementsAre
  <2> QED
    BY <2>1, RowStoreRead, RowStoreReadNext
<1>5. ASSUME s \in Serials PROVE Loaded("rows", aps)'[Blank] = Loaded("rows", aps)[Blank]
  <2>1. \A d \in Blanks : apRow'[d] = apRow[d]
    BY <1>1, <1>5, ElementsAre
  <2>2. ScopedBlanks' = ScopedBlanks
    BY <2>1 DEF ScopedBlanks
  <2>3. ScopedBlanks # {} => BlankName' = BlankName
    BY <2>1, <2>2 DEF ScopedBlanks, BlankName
  <2> QED
    BY <2>2, <2>3, RowStoreRead, RowStoreReadNext
<1>6. ASSUME s = Blank PROVE Loaded("rows", aps)'[s] = Absent
  <2>1. ScopedBlanks' = {}
    BY <1>1, <1>6 DEF ScopedBlanks
  <2> QED
    BY <1>6, <2>1, RowStoreReadNext
<1>7. s \in Serials => Loaded("rows", aps)'[s] =
         IF aps /\ rows[s] # Absent /\ rows[s].scoped THEN rows[s].name ELSE Absent
  BY <1>1, RowStoreReadNext
<1> QED
  BY <1>3, <1>4, <1>5, <1>6, <1>7 DEF Elements

\* What an undisturbed pull knows of the rows, and of its inputs.
LEMMA PullKnows ==
    ASSUME SyncInvariant, NEW k \in Jobs, CourseOf(k), k \notin touched,
           phase[k] \in Applying, req[k].kind = "pull"
    PROVE  /\ req[k].aps \in BOOLEAN
           /\ \A e \in Elements : Loaded("rows", req[k].aps)[e] = Outcome(k, e)
           /\ src[k] = Loaded("device", req[k].aps)
           /\ \A s \in Serials : src[k][s] # Absent => req[k].aps
<1>1. req[k].aps \in BOOLEAN
  BY DEF SyncInvariant, TypeOK, Requests
<1>2. src[k] = Loaded("device", req[k].aps)
  BY DEF CourseOf, SourceIsCurrent, SourceKind
<1>3. \A e \in Elements : Loaded("rows", req[k].aps)[e] = Outcome(k, e)
  BY DEF CourseOf, PullIsOnCourse
<1> QED
  BY <1>1, <1>2, <1>3, DeviceStoreRead

LEMMA PulledCourse ==
    ASSUME SyncInvariant, NEW k \in Jobs, CourseOf(k), k \notin touched, req[k].kind = "pull",
           NEW e, CallOn(k, e), Applied(k, e), NEW aps, aps = req[k].aps,
           Loaded("rows", aps)'[e] = src[k][e],
           \A d \in Elements \ {e} : Loaded("rows", aps)'[d] = Loaded("rows", aps)[d]
    PROVE  PullIsOnCourse(k)'
<1>1. /\ e \in Elements /\ Outcome(k, e)' = src[k][e]
      /\ \A d : d # e => Outcome(k, d)' = Outcome(k, d)
      /\ UNCHANGED req
  BY AppliedOutcome
<1>2. \A d \in Elements : Loaded("rows", aps)[d] = Outcome(k, d)
  BY PullKnows DEF CallOn, Applying
<1>3. \A d \in Elements : Loaded("rows", aps)'[d] = Outcome(k, d)'
  BY <1>1, <1>2
<1>4. req'[k].aps = aps
  BY <1>1
<1>5. Loaded("rows", req[k].aps)' = Loaded("rows", aps)'
  BY <1>4
<1> QED
  BY <1>3, <1>5 DEF PullIsOnCourse

\* The element whose turn it is reads as it was loaded.
LEMMA PulledAsLoaded ==
    ASSUME SyncInvariant, NEW k \in Jobs, CourseOf(k), k \notin touched,
           phase[k] \in Applying, req[k].kind = "pull",
           NEW e \in Elements, CallOn(k, e), Applied(k, e)
    PROVE  Loaded("rows", req[k].aps)[e] = dst[k][e]
<1>1. Outcome(k, e) = dst[k][e]
  BY AppliedOutcome
<1>2. Loaded("rows", req[k].aps)[e] = Outcome(k, e)
  BY PullKnows
<1> QED
  BY <1>1, <1>2

LEMMA NetworkStepCourse ==
    ASSUME SyncInvariant, NEW k \in Jobs, CourseOf(k), k \notin touched, NEW v \in Vaps,
           PullNetworkCreate(k, v) \/ PullNetworkUpdate(k, v) \/ PullNetworkDelete(k, v)
    PROVE  PullIsOnCourse(k)'
<1>0. World
  BY TypedWorld DEF SyncInvariant
<1>1. CallOn(k, v) /\ req[k].kind = "pull"
  BY TurnIs DEF PullNetworkCreate, PullNetworkUpdate, PullNetworkDelete
<1>2. Applied(k, v) /\ phase[k] = "syncing" /\ phase[k] \in Applying
  BY <1>1 DEF PullNetworkCreate, PullNetworkUpdate, PullNetworkDelete, CallOn, Applying
<1>3. PICK aps \in BOOLEAN : aps = req[k].aps
  BY <1>1, <1>2, PullKnows
<1>4. Loaded("rows", aps)[v] = dst[k][v]
  BY <1>1, <1>2, <1>3, PulledAsLoaded, ElementsAre
<1>5. CASE PullNetworkCreate(k, v)
  <2>1. v \in todo[k].write /\ PutVapRow(v, [src[k][v] EXCEPT !.text = Compose(v, @)])
    BY <1>5 DEF PullNetworkCreate, Turn
  <2>2. PICK x : x = [src[k][v] EXCEPT !.text = Compose(v, @)]
    OBVIOUS
  <2>3. src[k][v] \in Network
    BY <1>2, <2>1, Planned
  <2>4. /\ x \in Network /\ x.look = src[k][v].look /\ x.mode = src[k][v].mode
        /\ x.auth = src[k][v].auth /\ Strip(v, x.text) = src[k][v].text
    BY <2>2, <2>3, NetworkWritten
  <2>5. [x EXCEPT !.text = Strip(v, @)] = src[k][v]
    BY <2>3, <2>4 DEF Network
  <2>6. x # Absent /\ PutVapRow(v, x)
    BY <2>1, <2>2, <2>4, RecordsAreThere
  <2>7. /\ Loaded("rows", aps)'[v] = src[k][v]
        /\ \A d \in Elements \ {v} : Loaded("rows", aps)'[d] = Loaded("rows", aps)[d]
    BY <1>0, <2>5, <2>6, PutVapRowReads
  <2> QED
    BY <1>1, <1>2, <1>3, <2>7, PulledCourse
<1>6. CASE PullNetworkUpdate(k, v)
  <2>1. /\ v \in todo[k].write /\ dst[k][v] # Absent
        /\ vapRow[v] # Absent => PutVapRow(v, UpdatedNetwork(v, src[k][v], dst[k][v], vapRow[v]))
    BY <1>6 DEF PullNetworkUpdate, Turn
  <2>2. vapRow[v] # Absent /\ RowNetwork(v) = dst[k][v]
    BY <1>4, <2>1, RowStoreRead
  <2>3. PICK e \in Network, was \in Network, row \in Network :
           e = src[k][v] /\ was = dst[k][v] /\ row = vapRow[v]
    BY <1>2, <2>1, <2>2, Planned, RowNetworkRead, <1>0
  <2>4. /\ row.look = was.look /\ row.mode = was.mode /\ row.auth = was.auth
        /\ Strip(v, row.text) = was.text
    BY <1>0, <2>2, <2>3, RowNetworkRead
  <2>5. PICK x : x = UpdatedNetwork(v, e, was, row)
    OBVIOUS
  <2>6. /\ x \in Network /\ x.look = e.look /\ x.mode = e.mode
        /\ x.auth = e.auth /\ Strip(v, x.text) = e.text
    BY <2>4, <2>5, NetworkUpdated
  <2>7. [x EXCEPT !.text = Strip(v, @)] = e
    BY <2>6 DEF Network
  <2>8. x # Absent /\ PutVapRow(v, x)
    BY <2>1, <2>2, <2>3, <2>5, <2>6, RecordsAreThere
  <2>9. /\ Loaded("rows", aps)'[v] = src[k][v]
        /\ \A d \in Elements \ {v} : Loaded("rows", aps)'[d] = Loaded("rows", aps)[d]
    BY <1>0, <2>3, <2>7, <2>8, PutVapRowReads
  <2> QED
    BY <1>1, <1>2, <1>3, <2>9, PulledCourse
<1>7. CASE PullNetworkDelete(k, v)
  <2>1. v \in todo[k].delete /\ PutVapRow(v, Absent)
    BY <1>7 DEF PullNetworkDelete, Turn
  <2>2. src[k][v] = Absent
    BY <1>2, <2>1, Planned
  <2>3. /\ Loaded("rows", aps)'[v] = src[k][v]
        /\ \A d \in Elements \ {v} : Loaded("rows", aps)'[d] = Loaded("rows", aps)[d]
    BY <1>0, <2>1, <2>2, PutVapRowReads
  <2> QED
    BY <1>1, <1>2, <1>3, <2>3, PulledCourse
<1> QED
  BY <1>5, <1>6, <1>7

LEMMA RadioStepCourse ==
    ASSUME SyncInvariant, NEW k \in Jobs, CourseOf(k), k \notin touched, NEW r \in Radios,
           PullRadioCreate(k, r) \/ PullRadioUpdate(k, r) \/ PullRadioDelete(k, r)
    PROVE  PullIsOnCourse(k)'
<1>0. World
  BY TypedWorld DEF SyncInvariant
<1>1. CallOn(k, r) /\ req[k].kind = "pull"
  BY TurnIs DEF PullRadioCreate, PullRadioUpdate, PullRadioDelete
<1>2. Applied(k, r) /\ phase[k] = "syncing" /\ phase[k] \in Applying
  BY <1>1 DEF PullRadioCreate, PullRadioUpdate, PullRadioDelete, CallOn, Applying
<1>3. PICK aps \in BOOLEAN : aps = req[k].aps
  BY <1>1, <1>2, PullKnows
<1>4. radioRow[r] = dst[k][r]
  <2>1. Loaded("rows", aps)[r] = dst[k][r]
    BY <1>1, <1>2, <1>3, PulledAsLoaded, ElementsAre
  <2> QED
    BY <2>1, RowStoreRead
<1>5. PutRadioRow(r, src[k][r])
  <2>1. CASE PullRadioCreate(k, r)
    BY <2>1 DEF PullRadioCreate
  <2>2. CASE PullRadioUpdate(k, r)
    <3>1. /\ r \in todo[k].write /\ dst[k][r] # Absent
          /\ PutRadioRow(r, Changed(src[k][r], dst[k][r], radioRow[r]))
      BY <1>4, <2>2 DEF PullRadioUpdate, Turn
    <3>2. src[k][r] \in RadioProfile /\ dst[k][r] \in RadioProfile
      BY <1>2, <3>1, Planned
    <3>3. Changed(src[k][r], dst[k][r], radioRow[r]) = src[k][r]
      BY <1>4, <3>2, RadioUpdated
    <3> QED
      BY <3>1, <3>3
  <2>3. CASE PullRadioDelete(k, r)
    <3>1. r \in todo[k].delete /\ PutRadioRow(r, Absent)
      BY <2>3 DEF PullRadioDelete, Turn
    <3> QED
      BY <1>2, <3>1, Planned
  <2> QED
    BY <2>1, <2>2, <2>3
<1>6. /\ Loaded("rows", aps)'[r] = src[k][r]
      /\ \A d \in Elements \ {r} : Loaded("rows", aps)'[d] = Loaded("rows", aps)[d]
  BY <1>0, <1>5, PutRadioRowReads
<1> QED
  BY <1>1, <1>2, <1>3, <1>6, PulledCourse

LEMMA ApStepCourse ==
    ASSUME SyncInvariant, NEW k \in Jobs, CourseOf(k), k \notin touched, NEW s \in Serials \cup {Blank},
           PullApCreate(k, s) \/ PullApUpdate(k, s) \/ PullApDelete(k, s)
    PROVE  PullIsOnCourse(k)'
<1>0. World
  BY TypedWorld DEF SyncInvariant
<1>1. CallOn(k, s) /\ req[k].kind = "pull"
  BY TurnIs DEF PullApCreate, PullApUpdate, PullApDelete
<1>2. Applied(k, s) /\ phase[k] = "syncing" /\ phase[k] \in Applying
  BY <1>1 DEF PullApCreate, PullApUpdate, PullApDelete, CallOn, Applying
<1>3. PICK aps \in BOOLEAN : aps = req[k].aps
  BY <1>1, <1>2, PullKnows
<1>4. Loaded("rows", aps)[s] = dst[k][s]
  BY <1>1, <1>2, <1>3, PulledAsLoaded, ElementsAre
<1>5. \A t \in Serials : src[k][t] # Absent => aps
  BY <1>1, <1>2, <1>3, PullKnows
<1>6. CASE PullApCreate(k, s)
  <2>1. /\ s \in todo[k].write /\ s \in Serials
        /\ PutApRows([apRow EXCEPT ![s] = [name |-> src[k][s], scoped |-> TRUE]])
    BY <1>6 DEF PullApCreate, Turn
  <2>2. src[k][s] \in ApNames /\ src[k][s] # Absent
    BY <1>2, <2>1, Planned
  <2>3. [name |-> src[k][s], scoped |-> TRUE] # Absent
    BY <2>2, RecordsAreThere DEF Ap
  <2>4. PICK rows : rows = [apRow EXCEPT ![s] = [name |-> src[k][s], scoped |-> TRUE]]
    OBVIOUS
  <2>5. /\ rows[s] = [name |-> src[k][s], scoped |-> TRUE]
        /\ \A d \in Hosts : d # s => rows[d] = apRow[d]
    BY <1>0, <2>1, <2>4 DEF World, Hosts
  <2>6. /\ PutApRows(rows) /\ s # Blank
        /\ \A d \in Hosts : d # s /\ ~(s = Blank /\ d \in Blanks) => rows[d] = apRow[d]
    BY <2>1, <2>4, <2>5, ElementsAre
  <2>7. /\ Loaded("rows", aps)'[s] =
              IF aps /\ rows[s] # Absent /\ rows[s].scoped THEN rows[s].name ELSE Absent
        /\ \A d \in Elements \ {s} : Loaded("rows", aps)'[d] = Loaded("rows", aps)[d]
    BY <1>0, <2>1, <2>6, PutApRowsReads
  <2>8. Loaded("rows", aps)'[s] = src[k][s]
    BY <1>5, <2>1, <2>2, <2>3, <2>5, <2>7
  <2> QED
    BY <1>1, <1>2, <1>3, <2>7, <2>8, PulledCourse
<1>7. CASE PullApUpdate(k, s)
  <2>1. /\ s \in todo[k].write /\ s \in Serials /\ dst[k][s] # Absent
        /\ apRow[s] # Absent => PutApRows([apRow EXCEPT ![s].name = src[k][s]])
    BY <1>7 DEF PullApUpdate, Turn
  <2>2. aps /\ apRow[s] # Absent /\ apRow[s].scoped
    BY <1>4, <2>1, RowStoreRead
  <2>3. PICK rows : rows = [apRow EXCEPT ![s].name = src[k][s]]
    OBVIOUS
  <2>4. src[k][s] \in ApNames
    BY <1>2, <2>1, Planned
  <2>5. /\ rows[s] \in Ap /\ rows[s].name = src[k][s] /\ rows[s].scoped
        /\ \A d \in Hosts : d # s => rows[d] = apRow[d]
    BY <1>0, <2>1, <2>2, <2>3, <2>4 DEF World, Hosts, Ap
  <2>6. PutApRows(rows) /\ s # Blank
    BY <2>1, <2>2, <2>3, ElementsAre
  <2>7. /\ Loaded("rows", aps)'[s] =
              IF aps /\ rows[s] # Absent /\ rows[s].scoped THEN rows[s].name ELSE Absent
        /\ \A d \in Elements \ {s} : Loaded("rows", aps)'[d] = Loaded("rows", aps)[d]
    BY <1>0, <2>1, <2>5, <2>6, PutApRowsReads
  <2>8. Loaded("rows", aps)'[s] = src[k][s]
    BY <2>2, <2>5, <2>7, RecordsAreThere
  <2> QED
    BY <1>1, <1>2, <1>3, <2>7, <2>8, PulledCourse
<1>8. CASE PullApDelete(k, s)
  <2> DEFINE rows == [d \in Hosts |-> IF d = s \/ (s = Blank /\ d \in Blanks) THEN Absent ELSE apRow[d]]
  <2>1. s \in todo[k].delete /\ PutApRows(rows)
    BY <1>8 DEF PullApDelete, Turn
  <2>2. src[k][s] = Absent
    BY <1>2, <2>1, Planned
  <2>3. /\ \A d \in Hosts : d # s /\ ~(s = Blank /\ d \in Blanks) => rows[d] = apRow[d]
        /\ s = Blank => \A d \in Blanks : rows[d] = Absent
        /\ s \in Serials => rows[s] = Absent
    BY ElementsAre
  <2> HIDE DEF rows
  <2>4. /\ \A d \in Elements \ {s} : Loaded("rows", aps)'[d] = Loaded("rows", aps)[d]
        /\ s \in Serials => Loaded("rows", aps)'[s] =
              IF aps /\ rows[s] # Absent /\ rows[s].scoped THEN rows[s].name ELSE Absent
        /\ s = Blank => Loaded("rows", aps)'[s] = Absent
    BY <1>0, <2>1, <2>3, PutApRowsReads
  <2>5. Loaded("rows", aps)'[s] = src[k][s]
    BY <2>2, <2>3, <2>4
  <2> QED
    BY <1>1, <1>2, <1>3, <2>4, <2>5, PulledCourse
<1> QED
  BY <1>6, <1>7, <1>8

LEMMA PullCourse ==
    ASSUME SyncInvariant, NEW k \in Jobs, CourseOf(k), Pull(k)
    PROVE  CourseOf(k)'
<1>1. /\ phase[k] = "syncing" /\ req[k].kind = "pull" /\ UNCHANGED deviceVars
      /\ \E e \in Elements : CallOn(k, e) /\ Applied(k, e)
  BY PullCalls
<1>2. PICK e \in Elements : CallOn(k, e) /\ Applied(k, e)
  BY <1>1
<1>3. UNCHANGED <<phase, req, src, dst>> /\ (k \notin touched' => k \notin touched)
  BY <1>2, AppliedOutcome
<1>4. PlanFollowsDiff(k)'
  BY <1>2, AppliedPlan
<1>5. SourceKind(k) = "device" /\ phase[k] \in {"target", "loaded"} \cup Applying
  BY <1>1 DEF SourceKind, Applying
<1>6. SourceIsCurrent(k)'
  BY <1>1, <1>3, <1>5, SourceKept DEF CourseOf
<1>7. TargetIsCurrent(k)' /\ PushIsOnCourse(k)'
  BY <1>1, <1>3 DEF TargetIsCurrent, PushIsOnCourse
<1>8. PullIsOnCourse(k)'
  <2>1. CASE k \in touched'
    BY <2>1 DEF PullIsOnCourse
  <2>2. CASE k \notin touched
    BY <2>2, NetworkStepCourse, RadioStepCourse, ApStepCourse DEF Pull
  <2> QED
    BY <1>3, <2>1, <2>2
<1> QED
  BY <1>4, <1>6, <1>7, <1>8 DEF CourseOf

----------------------------------------------------------------------------
(* Pushing.                                                                *)

\* What an undisturbed push knows of the device.
LEMMA PushKnows ==
    ASSUME SyncInvariant, NEW k \in Jobs, CourseOf(k), k \notin touched,
           phase[k] \in Applying, req[k].kind = "push"
    PROVE  /\ \A v \in Vaps : PushedVap(k, v)
           /\ \A r \in Radios : PushedRadio(k, r)
           /\ src[k] = Loaded("rows", FALSE) /\ IsStore(src[k]) /\ IsStore(dst[k])
<1>1. req[k].aps = FALSE /\ IsStore(src[k]) /\ IsStore(dst[k])
  BY DEF SyncInvariant, TypeOK, Requests
<1>2. src[k] = Loaded("rows", FALSE)
  BY <1>1 DEF CourseOf, SourceIsCurrent, SourceKind
<1> QED
  BY <1>1, <1>2 DEF CourseOf, PushIsOnCourse

\* A radio the step does not write reads as it did.
LEMMA RadioKept ==
    ASSUME NEW k \in Jobs, NEW q \in Radios, PushedRadio(k, q), UNCHANGED <<src, dst>>,
           prof'[q[1]] = Absent <=> prof[q[1]] = Absent,
           prof'[q[1]].radio[q[2]] = prof[q[1]].radio[q[2]],
           NEW e, WorkedOff(k)' = WorkedOff(k) \cup {e}, q # e \/ src[k][q] = Absent
    PROVE  PushedRadio(k, q)'
<1>1. (Readable(q)' <=> Readable(q)) /\ FgtRadio(q)' = FgtRadio(q)
  BY DEF Readable, FgtRadio
<1>2. Loaded("device", FALSE)[q] = IF Readable(q) THEN FgtRadio(q) ELSE Absent
  BY ElementsAre DEF Loaded
<1>3. Loaded("device", FALSE)'[q] = IF Readable(q)' THEN FgtRadio(q)' ELSE Absent
  BY ElementsAre DEF Loaded
<1>4. Loaded("device", FALSE)'[q] = Loaded("device", FALSE)[q]
  BY <1>1, <1>2, <1>3
<1>5. RadioIs(q, src[k][q])' <=> RadioIs(q, src[k][q])
  BY DEF RadioIs
<1>6. q \in WorkedOff(k)' /\ src[k][q] # Absent <=> q \in WorkedOff(k) /\ src[k][q] # Absent
  OBVIOUS
<1>7. ASSUME q \in WorkedOff(k), src[k][q] # Absent PROVE PushedRadio(k, q)'
  BY <1>5, <1>6, <1>7 DEF PushedRadio
<1>8. ASSUME ~(q \in WorkedOff(k) /\ src[k][q] # Absent) PROVE PushedRadio(k, q)'
  <2>1. \/ dst[k][q] = Loaded("device", FALSE)[q]
        \/ /\ dst[k][q] = Absent /\ src[k][q] # Absent /\ RadioIs(q, src[k][q])
           /\ \E s \in Radios \ {q} : s[1] = q[1] /\ s \in WorkedOff(k) /\ src[k][s] # Absent
    BY <1>8 DEF PushedRadio
  <2>2. \/ dst'[k][q] = Loaded("device", FALSE)'[q]
        \/ /\ dst'[k][q] = Absent /\ src'[k][q] # Absent /\ RadioIs(q, src[k][q])'
           /\ \E s \in Radios \ {q} : s[1] = q[1] /\ s \in WorkedOff(k)' /\ src'[k][s] # Absent
    BY <1>4, <1>5, <2>1
  <2>3. ~(q \in WorkedOff(k)' /\ src'[k][q] # Absent)
    BY <1>6, <1>8
  <2> QED
    BY <2>2, <2>3 DEF PushedRadio
<1> QED
  BY <1>7, <1>8

\* Neither does a VAP, whatever becomes of the profiles.
LEMMA VapKept ==
    ASSUME NEW k \in Jobs, NEW v \in Vaps, PushedVap(k, v), UNCHANGED <<src, dst>>,
           vap'[v] = vap[v],
           NEW e, WorkedOff(k)' = WorkedOff(k) \cup {e}, v # e
    PROVE  PushedVap(k, v)'
<1>1. FgtNetwork(v)'.text = FgtNetwork(v).text
  BY DEF FgtNetwork
<1>2. v \in WorkedOff(k)' <=> v \in WorkedOff(k)
  OBVIOUS
<1> QED
  BY <1>1, <1>2 DEF PushedVap

LEMMA NetworkPushCourse ==
    ASSUME SyncInvariant, NEW k \in Jobs, CourseOf(k), k \notin touched, ~Raised(k), NEW v \in Vaps,
           PushNetworkCreate(k, v) \/ PushNetworkUpdate(k, v) \/ PushNetworkDelete(k, v)
    PROVE  PushIsOnCourse(k)'
<1>0. World
  BY TypedWorld DEF SyncInvariant
<1>1. CallOn(k, v) /\ req[k].kind = "push"
  BY TurnIs DEF PushNetworkCreate, PushNetworkUpdate, PushNetworkDelete
<1>2. Applied(k, v) /\ phase[k] = "syncing" /\ phase[k] \in Applying
  BY <1>1 DEF PushNetworkCreate, PushNetworkUpdate, PushNetworkDelete, Call, CallOn, Applying
<1>3. WorkedOff(k)' = WorkedOff(k) \cup {v} /\ UNCHANGED <<phase, req, src, dst>>
  BY <1>1, <1>2, AppliedOutcome
<1>4. /\ \A w \in Vaps : PushedVap(k, w)
      /\ \A r \in Radios : PushedRadio(k, r)
  BY <1>1, <1>2, PushKnows
<1>5. /\ UNCHANGED <<prof, wtp>> /\ \A w \in Vaps \ {v} : vap'[w] = vap[w]
      /\ PushedVap(k, v)'
  <2>1. CASE PushNetworkCreate(k, v)
    <3>1. v \in todo[k].write /\ PutVap(v, PostedVap(src[k][v]))
      BY <2>1 DEF PushNetworkCreate, Turn, Call
    <3>2. src[k][v] \in Network /\ src[k][v] # Absent
      BY <1>2, <3>1, Planned
    <3>3. PICK x : x = PostedVap(src[k][v])
      OBVIOUS
    <3>4. /\ x \in Vap /\ x.look = src[k][v].look /\ x.comment = src[k][v].text
          /\ x.security = AuthToFortios(src[k][v].auth)
      BY <3>2, <3>3, PostedVapRead
    <3>5. vap'[v] = x /\ x # Absent /\ UNCHANGED <<prof, wtp>> /\ \A w \in Vaps \ {v} : vap'[w] = vap[w]
      BY <1>0, <3>1, <3>3, <3>4, RecordsAreThere DEF PutVap, World
    <3> QED
      BY <1>3, <3>2, <3>4, <3>5 DEF PushedVap
  <2>2. CASE PushNetworkUpdate(k, v)
    <3>1. v \in todo[k].write /\ vap[v] # Absent /\ PutVap(v, UpdatedVap(src[k][v], vap[v]))
      BY <2>2 DEF PushNetworkUpdate, Turn, Call
    <3>2. src[k][v] \in Network /\ src[k][v] # Absent /\ vap[v] \in Vap
      BY <1>0, <1>2, <3>1, Planned DEF World
    <3>3. PICK x : x = UpdatedVap(src[k][v], vap[v])
      OBVIOUS
    <3>4. /\ x \in Vap /\ x.look = src[k][v].look /\ x.comment = src[k][v].text
          /\ x.security = AuthToFortios(src[k][v].auth)
      BY <3>2, <3>3, UpdatedVapRead
    <3>5. vap'[v] = x /\ x # Absent /\ UNCHANGED <<prof, wtp>> /\ \A w \in Vaps \ {v} : vap'[w] = vap[w]
      BY <1>0, <3>1, <3>3, <3>4, RecordsAreThere DEF PutVap, World
    <3> QED
      BY <1>3, <3>2, <3>4, <3>5 DEF PushedVap
  <2>3. CASE PushNetworkDelete(k, v)
    <3>1. v \in todo[k].delete /\ PutVap(v, Absent)
      BY <2>3 DEF PushNetworkDelete, Turn, Call
    <3>2. src[k][v] = Absent
      BY <1>2, <3>1, Planned
    <3>3. vap'[v] = Absent /\ UNCHANGED <<prof, wtp>> /\ \A w \in Vaps \ {v} : vap'[w] = vap[w]
      BY <1>0, <3>1 DEF PutVap, World
    <3> QED
      BY <1>3, <3>2, <3>3 DEF PushedVap
  <2> QED
    BY <2>1, <2>2, <2>3
<1>6. \A w \in Vaps \ {v} : PushedVap(k, w)'
  BY <1>3, <1>4, <1>5, VapKept
<1>7. \A r \in Radios : PushedRadio(k, r)'
  BY <1>3, <1>4, <1>5, RadioKept, ElementsAre
<1> QED
  BY <1>5, <1>6, <1>7 DEF PushIsOnCourse

LEMMA RadioDeleteCourse ==
    ASSUME SyncInvariant, NEW k \in Jobs, CourseOf(k), k \notin touched, NEW r \in Radios,
           PushRadioDelete(k, r)
    PROVE  PushIsOnCourse(k)'
<1>1. /\ CallOn(k, r) /\ req[k].kind = "push" /\ Applied(k, r) /\ r \in todo[k].delete
      /\ UNCHANGED <<vap, prof, wtp>>
  BY TurnIs DEF PushRadioDelete, Turn, worldVars, deviceVars
<1>2. phase[k] = "syncing" /\ phase[k] \in Applying
  BY <1>1 DEF CallOn, Applying
<1>3. WorkedOff(k)' = WorkedOff(k) \cup {r} /\ UNCHANGED <<phase, req, src, dst>>
  BY <1>1, AppliedOutcome
<1>4. /\ \A v \in Vaps : PushedVap(k, v)
      /\ \A q \in Radios : PushedRadio(k, q)
  BY <1>1, <1>2, PushKnows
<1>5. src[k][r] = Absent
  BY <1>1, <1>2, Planned
<1>6. \A v \in Vaps : PushedVap(k, v)'
  BY <1>1, <1>3, <1>4, VapKept, ElementsAre
<1>7. \A q \in Radios : PushedRadio(k, q)'
  BY <1>1, <1>3, <1>4, <1>5, RadioKept
<1> QED
  BY <1>6, <1>7 DEF PushIsOnCourse

\* One radio of a profile that is there.
LEMMA RadioPutCourse ==
    ASSUME SyncInvariant, NEW k \in Jobs, CourseOf(k), k \notin touched, NEW r \in Radios,
           CallOn(k, r), req[k].kind = "push", Applied(k, r), r \in todo[k].write,
           prof[r[1]] # Absent, PutRadio(r, src[k][r])
    PROVE  PushIsOnCourse(k)'
<1>0. World
  BY TypedWorld DEF SyncInvariant
<1>1. phase[k] = "syncing" /\ phase[k] \in Applying
  BY DEF CallOn, Applying
<1>2. WorkedOff(k)' = WorkedOff(k) \cup {r} /\ UNCHANGED <<phase, req, src, dst>>
  BY AppliedOutcome
<1>3. /\ \A v \in Vaps : PushedVap(k, v)
      /\ \A q \in Radios : PushedRadio(k, q)
  BY <1>1, PushKnows
<1>4. PICK e \in RadioProfile : e = src[k][r]
  BY <1>1, Planned
<1>5. /\ UNCHANGED vap /\ prof'[r[1]] \in Profile
      /\ \A n \in Slots \ {r[2]} : prof'[r[1]].radio[n] = prof[r[1]].radio[n]
      /\ \A p \in Profiles \ {r[1]} : prof'[p] = prof[p]
      /\ RadioIs(r, e)'
  BY <1>0, <1>4, RadioPut
<1>6. \A v \in Vaps : PushedVap(k, v)'
  BY <1>2, <1>3, <1>5, VapKept, ElementsAre
<1>7. PushedRadio(k, r)'
  <2>1. RadioIs(r, src[k][r])'
    BY <1>2, <1>4, <1>5 DEF RadioIs
  <2>2. r \in WorkedOff(k)' /\ src'[k][r] # Absent
    BY <1>2, <1>4, RecordsAreThere
  <2> QED
    BY <2>1, <2>2 DEF PushedRadio
<1>8. ASSUME NEW q \in Radios, q # r PROVE PushedRadio(k, q)'
  <2>1. q[1] \in Profiles /\ q[2] \in Slots /\ (q[1] # r[1] \/ q[2] # r[2])
    BY <1>8, RadiosAre
  <2>2. prof'[r[1]] # Absent
    BY <1>5, RecordsAreThere
  <2>3. /\ prof'[q[1]] = Absent <=> prof[q[1]] = Absent
        /\ prof'[q[1]].radio[q[2]] = prof[q[1]].radio[q[2]]
    BY <1>5, <2>1, <2>2
  <2> QED
    BY <1>2, <1>3, <1>8, <2>3, RadioKept
<1> QED
  BY <1>6, <1>7, <1>8 DEF PushIsOnCourse

\* A profile with all its radios.
LEMMA ProfilePostedCourse ==
    ASSUME SyncInvariant, NEW k \in Jobs, CourseOf(k), k \notin touched, NEW r \in Radios,
           CallOn(k, r), req[k].kind = "push", Applied(k, r), r \in todo[k].write,
           prof[r[1]] = Absent, PutProfile(r[1], PostedProfile(k, r[1]))
    PROVE  PushIsOnCourse(k)'
<1>0. World
  BY TypedWorld DEF SyncInvariant
<1>1. phase[k] = "syncing" /\ phase[k] \in Applying
  BY DEF CallOn, Applying
<1>2. WorkedOff(k)' = WorkedOff(k) \cup {r} /\ UNCHANGED <<phase, req, src, dst>>
  BY AppliedOutcome
<1>3. /\ \A v \in Vaps : PushedVap(k, v)
      /\ \A q \in Radios : PushedRadio(k, q)
      /\ IsStore(src[k])
  BY <1>1, PushKnows
<1>4. src[k][r] # Absent
  BY <1>1, Planned
<1>5. PICK p \in Profiles : p = r[1]
  BY RadiosAre
<1>6. /\ UNCHANGED vap
      /\ \A q \in Profiles \ {p} : prof'[q] = prof[q]
      /\ \A q \in Radios : q[1] = p =>
            /\ src[k][q] = Absent => prof'[p].radio[q[2]] = Absent
            /\ src[k][q] # Absent => RadioIs(q, src[k][q])'
  BY <1>0, <1>2, <1>3, <1>5, ProfilePosted
<1>7. \A v \in Vaps : PushedVap(k, v)'
  BY <1>2, <1>3, <1>6, VapKept, ElementsAre
<1>8. PushedRadio(k, r)'
  <2>1. RadioIs(r, src[k][r])'
    BY <1>4, <1>5, <1>6
  <2>2. r \in WorkedOff(k)' /\ src'[k][r] # Absent
    BY <1>2, <1>4
  <2> QED
    BY <2>1, <2>2 DEF PushedRadio
<1>9. ASSUME NEW q \in Radios, q[1] # p PROVE PushedRadio(k, q)'
  <2>1. prof'[q[1]] = prof[q[1]] /\ q # r
    BY <1>5, <1>6, <1>9, RadiosAre
  <2> QED
    BY <1>2, <1>3, <2>1, RadioKept
<1>10. ASSUME NEW q \in Radios, q[1] = p, q # r PROVE PushedRadio(k, q)'
  <2>1. ~Readable(q) /\ \A e : ~RadioIs(q, e)
    BY <1>5, <1>10 DEF Readable, RadioIs
  <2>2. Loaded("device", FALSE)[q] = Absent
    BY <2>1, DeviceStoreRead
  <2>3. dst[k][q] = Absent /\ ~(q \in WorkedOff(k) /\ src[k][q] # Absent)
    BY <1>3, <2>1, <2>2 DEF PushedRadio
  <2>4. CASE src[k][q] = Absent
    <3>1. prof'[q[1]].radio[q[2]] = Absent
      BY <1>6, <1>10, <2>4
    <3>2. ~Readable(q)'
      BY <3>1 DEF Readable
    <3>3. Loaded("device", FALSE)'[q] = Absent
      BY <3>2, ElementsAre DEF Loaded
    <3> QED
      BY <1>2, <2>3, <2>4, <3>3 DEF PushedRadio
  <2>5. CASE src[k][q] # Absent
    <3>1. RadioIs(q, src[k][q])'
      BY <1>6, <1>10, <2>5
    <3>2. /\ r \in Radios \ {q} /\ r[1] = q[1] /\ r \in WorkedOff(k)' /\ src'[k][r] # Absent
          /\ dst'[k][q] = Absent /\ src'[k][q] # Absent /\ ~(q \in WorkedOff(k)')
      BY <1>2, <1>4, <1>5, <1>10, <2>3, <2>5
    <3> QED
      BY <3>1, <3>2 DEF PushedRadio
  <2> QED
    BY <2>4, <2>5
<1> QED
  BY <1>7, <1>8, <1>9, <1>10 DEF PushIsOnCourse

LEMMA PushCourse ==
    ASSUME SyncInvariant, NEW k \in Jobs, CourseOf(k), Push(k), ~Raised(k)
    PROVE  CourseOf(k)'
<1>1. /\ phase[k] = "syncing" /\ req[k].kind = "push" /\ UNCHANGED rowVars
      /\ \E e \in Elements : CallOn(k, e) /\ Applied(k, e)
  BY PushCalls
<1>2. PICK e \in Elements : CallOn(k, e) /\ Applied(k, e)
  BY <1>1
<1>3. UNCHANGED <<phase, req, src, dst>> /\ (k \notin touched' => k \notin touched)
  BY <1>2, AppliedOutcome
<1>4. PlanFollowsDiff(k)'
  BY <1>2, AppliedPlan
<1>5. SourceKind(k) = "rows" /\ phase[k] \in {"target", "loaded"} \cup Applying
  BY <1>1 DEF SourceKind, Applying
<1>6. SourceIsCurrent(k)'
  BY <1>1, <1>3, <1>5, SourceKept DEF CourseOf
<1>7. TargetIsCurrent(k)' /\ PullIsOnCourse(k)'
  BY <1>1, <1>3 DEF TargetIsCurrent, PullIsOnCourse
<1>8. PushIsOnCourse(k)'
  <2>1. CASE k \in touched'
    BY <2>1 DEF PushIsOnCourse
  <2>2. ASSUME k \notin touched, NEW r \in Radios, PushRadioCreate(k, r) \/ PushRadioUpdate(k, r)
        PROVE  PushIsOnCourse(k)'
    <3>1. CallOn(k, r) /\ r \in todo[k].write
      BY <2>2, TurnIs DEF PushRadioCreate, PushRadioUpdate, Turn
    <3>2. /\ Applied(k, r)
          /\ \/ prof[r[1]] # Absent /\ PutRadio(r, src[k][r])
             \/ prof[r[1]] = Absent /\ PutProfile(r[1], PostedProfile(k, r[1]))
      BY <2>2 DEF PushRadioCreate, PushRadioUpdate, Call
    <3>3. CASE prof[r[1]] # Absent /\ PutRadio(r, src[k][r])
      BY <1>1, <2>2, <3>1, <3>2, <3>3, RadioPutCourse
    <3>4. CASE prof[r[1]] = Absent /\ PutProfile(r[1], PostedProfile(k, r[1]))
      BY <1>1, <2>2, <3>1, <3>2, <3>4, ProfilePostedCourse
    <3> QED
      BY <3>2, <3>3, <3>4
  <2>3. CASE k \notin touched
    BY <2>2, <2>3, NetworkPushCourse, RadioDeleteCourse DEF Push
  <2> QED
    BY <1>3, <2>1, <2>3
<1> QED
  BY <1>4, <1>6, <1>7, <1>8 DEF CourseOf

----------------------------------------------------------------------------
(* The inductive invariant.                                                *)

LEMMA InitTyped == Init => TypeOK
<1> SUFFICES ASSUME Init PROVE TypeOK
  OBVIOUS
<1>1. World
  BY WorldsAssumption DEF Init, World
<1>2. /\ phase \in [Jobs -> Idle \cup Running] /\ req \in [Jobs -> Requests]
      /\ src = [j \in Jobs |-> src[j]] /\ dst = [j \in Jobs |-> dst[j]]
      /\ todo \in [Jobs -> [write : SUBSET Elements, delete : SUBSET Elements]]
  BY DEF Init, Idle, Requests, NoWork
<1>3. \A j \in Jobs : IsStore(src[j]) /\ IsStore(dst[j])
  BY EmptyStoreTyped DEF Init
<1>4. touched \subseteq Jobs /\ edits \in 0..MaxEdits /\ runs \in 0..MaxRuns
  BY ConstantsAssumption DEF Init
<1> QED
  BY <1>1, <1>2, <1>3, <1>4 DEF TypeOK, World

LEMMA OwnStepCourse ==
    ASSUME SyncInvariant, NEW k \in Jobs, CourseOf(k), StepOf(k)
    PROVE  CourseOf(k)'
<1>1. CASE Finish(k) \/ Crash(k) \/ Raised(k)
  BY <1>1, EndCourse
<1>2. CASE ~Raised(k)
  BY <1>2, StartCourse, LoadCourse, ExecuteSyncCourse, PullCourse, PushCourse, EndCourse DEF StepOf
<1> QED
  BY <1>1, <1>2

\* In every behaviour, whatever jobs and operators do in between: the side an
\* undisturbed job writes reads, element by element, as its plan has it so far.
THEOREM SyncInvariantHolds == Spec => []SyncInvariant
<1>1. Init => SyncInvariant
  <2> SUFFICES ASSUME Init, NEW j \in Jobs PROVE CourseOf(j)
    BY InitTyped DEF SyncInvariant, CourseOf
  <2>1. phase[j] = "idle"
    BY DEF Init
  <2> QED
    BY <2>1 DEF CourseOf, PlanFollowsDiff, SourceIsCurrent, TargetIsCurrent, PullIsOnCourse,
                PushIsOnCourse, Applying
<1>2. SyncInvariant /\ [Next]_vars => SyncInvariant'
  <2> SUFFICES ASSUME SyncInvariant, [Next]_vars, NEW k \in Jobs PROVE CourseOf(k)'
    BY StepTyped DEF SyncInvariant, CourseOf
  <2>0. CourseOf(k)
    BY DEF SyncInvariant, CourseOf
  <2>1. CASE StepOf(k)
    BY <2>0, <2>1, OwnStepCourse
  <2>2. CASE ~StepOf(k)
    BY <2>0, <2>2, OthersStep, SameCourse
  <2> QED
    BY <2>1, <2>2
<1> QED
  BY <1>1, <1>2, PTL DEF Spec

\* Every variable keeps its type: whatever Nautobot has not set, no radio of
\* the device is ever left without power limits.
THEOREM TypesHold == Spec => []TypeOK
<1>1. SyncInvariant => TypeOK
  BY DEF SyncInvariant
<1> QED
  BY <1>1, SyncInvariantHolds, PTL

----------------------------------------------------------------------------
(* Why an undisturbed job dies.                                            *)

Explained(j) ==
    \/ req[j].kind = "pull" /\ req[j].aps /\ Cardinality(ScopedBlanks) > 1
    \/ /\ req[j].kind = "push"
       /\ \/ \E v \in todo[j].write \cap Vaps :
                Keyed(src[j][v].auth)
                /\ (vap[v] = Absent \/ AuthOf(vap[v].security) # src[j][v].auth)
          \/ \E v \in todo[j].delete \cap Vaps :
                InUse(v) /\ Writes(src[j], dst[j]) \cap Radios \subseteq todo[j].write
          \/ \E r \in todo[j].write \cap Radios :
                prof[r[1]] # Absent /\ \A n \in Slots : ~Readable(<<r[1], n>>)

LEMMA SameExplanation ==
    ASSUME NEW k \in Jobs, Explained(k), UNCHANGED worldVars,
           req'[k] = req[k], todo'[k] = todo[k], src'[k] = src[k], dst'[k] = dst[k]
    PROVE  Explained(k)'
<1>1. UNCHANGED <<vap, prof, apRow>>
  BY DEF worldVars, deviceVars, rowVars
<1>2. ScopedBlanks' = ScopedBlanks /\ Writes(src[k], dst[k])' = Writes(src[k], dst[k])
  BY <1>1 DEF ScopedBlanks, Writes
<1>3. (\A v : InUse(v)' <=> InUse(v)) /\ (\A r : Readable(r)' <=> Readable(r))
  BY <1>1, SameModes DEF InUse
<1> QED
  BY <1>1, <1>2, <1>3 DEF Explained

LEMMA NetworkRefused ==
    ASSUME SyncInvariant, NEW k \in Jobs, k \notin touched, phase[k] = "syncing", NEW v \in Vaps,
           Raised(k), PushNetworkCreate(k, v) \/ PushNetworkUpdate(k, v) \/ PushNetworkDelete(k, v)
    PROVE  Explained(k)
<1>0. CourseOf(k) /\ phase[k] \in Applying
  BY DEF SyncInvariant, CourseOf, Applying
<1>1. CallOn(k, v) /\ req[k].kind = "push"
  BY TurnIs DEF PushNetworkCreate, PushNetworkUpdate, PushNetworkDelete
<1>2. PushedVap(k, v) /\ v \notin WorkedOff(k)
  BY <1>0, <1>1, PushKnows DEF CallOn, WorkedOff
<1>3. dst[k][v] = Absent <=> vap[v] = Absent
  BY <1>2 DEF PushedVap
<1>4. ~Applied(k, v)
  BY DEF Raised, Applied, Advance, SyncInvariant, TypeOK
<1>5. CASE PushNetworkCreate(k, v)
  <2>1. v \in todo[k].write /\ dst[k][v] = Absent /\ (vap[v] # Absent \/ Keyed(src[k][v].auth))
    BY <1>4, <1>5 DEF PushNetworkCreate, Turn, Call
  <2> QED
    BY <1>1, <1>3, <2>1 DEF Explained
<1>6. CASE PushNetworkUpdate(k, v)
  <2>1. /\ v \in todo[k].write /\ dst[k][v] # Absent
        /\ vap[v] = Absent \/ (Keyed(src[k][v].auth) /\ AuthOf(vap[v].security) # src[k][v].auth)
    BY <1>4, <1>6 DEF PushNetworkUpdate, Turn, Call
  <2> QED
    BY <1>1, <1>3, <2>1 DEF Explained
<1>7. CASE PushNetworkDelete(k, v)
  <2>1. v \in todo[k].delete /\ (vap[v] = Absent \/ InUse(v))
    BY <1>4, <1>7 DEF PushNetworkDelete, Turn, Call
  <2>2. dst[k][v] # Absent
    BY <2>1, Planned
  <2>3. ASSUME NEW r \in Writes(src[k], dst[k]) \cap Radios PROVE r \in todo[k].write
    <3>1. r \notin WorkedOff(k) /\ r \in Differs(k)
      BY <1>0, <1>1, KindsInOrder DEF Differs
    <3>2. r \notin todo[k].delete
      BY Planned DEF Writes
    <3> QED
      BY <3>1, <3>2 DEF WorkedOff, Pending
  <2> QED
    BY <1>1, <1>3, <2>1, <2>2, <2>3 DEF Explained
<1> QED
  BY <1>5, <1>6, <1>7

\* A radio of the profile that was there, or that this push has made, says
\* that the profile is there.
LEMMA SiblingHasProfile ==
    ASSUME SyncInvariant, NEW k \in Jobs, CourseOf(k), k \notin touched, phase[k] = "syncing",
           req[k].kind = "push", NEW s \in Radios,
           dst[k][s] # Absent \/ (src[k][s] # Absent /\ s \notin todo[k].write)
    PROVE  prof[s[1]] # Absent
<1>1. PushedRadio(k, s)
  BY PushKnows DEF Applying
<1>2. CASE s \in WorkedOff(k) /\ src[k][s] # Absent
  BY <1>1, <1>2 DEF PushedRadio, RadioIs
<1>3. CASE ~(s \in WorkedOff(k) /\ src[k][s] # Absent)
  <2>1. dst[k][s] # Absent
    <3> SUFFICES ASSUME dst[k][s] = Absent PROVE FALSE
      OBVIOUS
    <3>1. s \in Differs(k) /\ s \notin Pending(k)
      BY Planned, ElementsAre DEF Differs, Writes, Pending
    <3> QED
      BY <1>3, <3>1 DEF WorkedOff
  <2>2. dst[k][s] = Loaded("device", FALSE)[s]
    BY <1>1, <1>3, <2>1 DEF PushedRadio
  <2>3. Readable(s)
    BY <2>1, <2>2, DeviceStoreRead
  <2> QED
    BY <2>3 DEF Readable
<1> QED
  BY <1>2, <1>3

LEMMA RadioRefused ==
    ASSUME SyncInvariant, NEW k \in Jobs, k \notin touched, phase[k] = "syncing", NEW r \in Radios,
           Raised(k), PushRadioCreate(k, r) \/ PushRadioUpdate(k, r) \/ PushRadioDelete(k, r)
    PROVE  Explained(k)
<1>0. CourseOf(k) /\ phase[k] \in Applying
  BY DEF SyncInvariant, CourseOf, Applying
<1>1. CallOn(k, r) /\ req[k].kind = "push"
  BY TurnIs DEF PushRadioCreate, PushRadioUpdate, PushRadioDelete
<1>2. ~Applied(k, r)
  BY DEF Raised, Applied, Advance, SyncInvariant, TypeOK
<1>3. \A q \in Radios : PushedRadio(k, q)
  BY <1>0, <1>1, PushKnows
<1>4. r \notin WorkedOff(k)
  BY <1>1 DEF CallOn, WorkedOff
<1>5. ~PushRadioDelete(k, r)
  BY <1>2 DEF PushRadioDelete
<1>6. CASE PushRadioUpdate(k, r)
  <2>1. dst[k][r] # Absent /\ prof[r[1]] = Absent
    BY <1>2, <1>6 DEF PushRadioUpdate, Call
  <2> QED
    BY <1>0, <1>1, <2>1, SiblingHasProfile
<1>7. CASE PushRadioCreate(k, r) /\ Siblings(k, r) # {}
  <2>1. prof[r[1]] = Absent
    BY <1>2, <1>7 DEF PushRadioCreate, Call
  <2>2. PICK s \in Radios : /\ s[1] = r[1]
                            /\ dst[k][s] # Absent \/ (src[k][s] # Absent /\ s \notin todo[k].write)
    BY <1>7 DEF Siblings
  <2> QED
    BY <1>0, <1>1, <2>1, <2>2, SiblingHasProfile
<1>8. CASE PushRadioCreate(k, r) /\ Siblings(k, r) = {}
  <2>1. r \in todo[k].write /\ dst[k][r] = Absent /\ prof[r[1]] # Absent
    BY <1>2, <1>8 DEF PushRadioCreate, Turn, Call
  <2>2. \A s \in Radios \ {r} : s[1] = r[1] =>
           dst[k][s] = Absent /\ (src[k][s] = Absent \/ s \in todo[k].write)
    BY <1>8 DEF Siblings
  <2>3. \A s \in Radios : s[1] = r[1] => ~(s \in WorkedOff(k) /\ src[k][s] # Absent)
    BY <1>4, <2>2 DEF WorkedOff, Pending
  <2>4. ASSUME NEW n \in Slots PROVE ~Readable(<<r[1], n>>)
    <3>0. PICK p \in Profiles : p = r[1]
      BY RadiosAre
    <3>1. PICK s \in Radios : s = <<r[1], n>> /\ s[1] = r[1]
      <4>1. <<p, n>> \in Radios /\ <<p, n>>[1] = p
        BY RadiosAre
      <4>2. <<r[1], n>> \in Radios /\ <<r[1], n>>[1] = r[1]
        BY <3>0, <4>1
      <4> QED
        BY <4>2
    <3>2. dst[k][s] = Absent
      BY <2>1, <2>2, <3>1
    <3>3. ~(s \in WorkedOff(k) /\ src[k][s] # Absent)
      BY <2>3, <3>1
    <3>4. ~(\E q \in Radios \ {s} : q[1] = s[1] /\ q \in WorkedOff(k) /\ src[k][q] # Absent)
      BY <2>3, <3>1
    <3>5. dst[k][s] = Loaded("device", FALSE)[s]
      BY <1>3, <3>3, <3>4 DEF PushedRadio
    <3>6. Readable(s) => FgtRadio(s) # Absent
      BY TypedWorld, FgtRadioRead DEF SyncInvariant
    <3>7. Loaded("device", FALSE)[s] = IF Readable(s) THEN FgtRadio(s) ELSE Absent
      BY DeviceStoreRead
    <3> QED
      BY <3>1, <3>2, <3>5, <3>6, <3>7
  <2> QED
    BY <1>1, <2>1, <2>4 DEF Explained
<1> QED
  BY <1>5, <1>6, <1>7, <1>8

LEMMA RaisedIsExplained ==
    ASSUME SyncInvariant, NEW k \in Jobs, StepOf(k), phase'[k] = "failed", k \notin touched'
    PROVE  UNCHANGED worldVars /\ UNCHANGED <<req, src, dst, todo>> /\ Explained(k)
<1>0. phase \in [Jobs -> Idle \cup Running]
  BY DEF SyncInvariant, TypeOK
<1>1. Load(k) \/ Pull(k) \/ Push(k)
  BY <1>0 DEF StepOf, Start, ExecuteSync, Finish, Crash, Advance
<1>2. CASE Load(k)
  <2>1. Raised(k) /\ LoadRaises(TargetKind(k), req[k].aps)
    BY <1>0, <1>2 DEF Load, LoadSource, LoadTarget, Advance
  <2>2. req[k].kind = "pull" /\ req[k].aps /\ Cardinality(ScopedBlanks) > 1
    <3>1. req[k].kind \in {"pull", "push"}
      BY DEF SyncInvariant, TypeOK, Requests
    <3> QED
      BY <2>1, <3>1 DEF LoadRaises, TargetKind
  <2> QED
    BY <2>1, <2>2 DEF Explained, Raised
<1>3. CASE Pull(k)
  BY <1>0, <1>3, PullCalls DEF Applied
<1>4. CASE Push(k)
  <2>1. phase[k] = "syncing" /\ Raised(k)
    BY <1>0, <1>4, PushCalls DEF Applied
  <2>2. k \notin touched
    BY <2>1 DEF Raised
  <2>3. Explained(k)
    BY <1>4, <2>1, <2>2, NetworkRefused, RadioRefused DEF Push
  <2> QED
    BY <2>1, <2>3 DEF Raised
<1> QED
  BY <1>1, <1>2, <1>3, <1>4

\* A job that nobody disturbed dies only for the reasons AbortsAreExplained
\* lists: two Devices without a serial, a key only the device's administrator
\* has, a VAP in use, or a profile none of whose radios can be read.
THEOREM AbortsHaveAReason == Spec => []AbortsAreExplained
<1>0. AbortsAreExplained <=> \A j \in Jobs : phase[j] = "failed" /\ j \notin touched => Explained(j)
  BY DEF AbortsAreExplained, Explained
<1>1. Init => AbortsAreExplained
  BY DEF Init, AbortsAreExplained
<1>2. SyncInvariant /\ AbortsAreExplained /\ [Next]_vars => AbortsAreExplained'
  <2>0. (\A j \in Jobs : phase'[j] = "failed" /\ j \notin touched' => Explained(j)') => AbortsAreExplained'
    BY DEF AbortsAreExplained, Explained
  <2> SUFFICES ASSUME SyncInvariant, AbortsAreExplained, [Next]_vars, NEW k \in Jobs,
                      phase'[k] = "failed", k \notin touched'
               PROVE  Explained(k)'
    BY <2>0
  <2>1. CASE StepOf(k)
    BY <2>1, RaisedIsExplained, SameExplanation
  <2>2. CASE ~StepOf(k)
    <3>1. SameJob(k) /\ k \notin touched /\ UNCHANGED worldVars
      BY <2>2, OthersStep
    <3> QED
      BY <1>0, <3>1, SameExplanation DEF SameJob
  <2> QED
    BY <2>1, <2>2
<1> QED
  BY <1>1, <1>2, SyncInvariantHolds, PTL DEF Spec

----------------------------------------------------------------------------
(* What follows for runs that nobody disturbs.                             *)

\* The end of a clean run in terms of its adapters: the plan is worked off.
LEMMA CleanRunEnds ==
    ASSUME SyncInvariant, NEW j \in Jobs, NEW kind, Clean(j, kind)
    PROVE  /\ World /\ phase[j] \in Applying /\ j \notin touched /\ req[j].kind = kind /\ CourseOf(j)
           /\ \A e \in Elements : Outcome(j, e) =
                 IF src[j][e] # Absent THEN src[j][e]
                 ELSE IF req[j].delete THEN Absent ELSE dst[j][e]
           /\ \A e \in Elements : e \notin WorkedOff(j) =>
                 /\ src[j][e] # Absent => dst[j][e] = src[j][e]
                 /\ src[j][e] = Absent /\ req[j].delete => dst[j][e] = Absent
<1>1. World /\ phase[j] = "done" /\ j \notin touched /\ req[j].kind = kind /\ CourseOf(j)
  BY TypedWorld DEF SyncInvariant, Clean, CourseOf
<1>2. todo[j] = NoWork
  BY <1>1 DEF SyncInvariant, PlanFollowsDiff, Applying
<1>3. WorkedOff(j) = Differs(j)
  BY <1>2 DEF WorkedOff, Pending, NoWork
<1> QED
  BY <1>1, <1>3 DEF Outcome, Differs, Writes, Deletes, Applying

\* After every clean pull the rows say what the device says, with the mode
\* most of a VAP's radios have, and a destructive one leaves no others.
THEOREM CleanPullMirrors == Spec => []PullMirrorsWireless
<1>1. SyncInvariant => PullMirrorsWireless
  <2> SUFFICES ASSUME SyncInvariant, NEW j \in Jobs, Clean(j, "pull")
               PROVE  /\ \A v \in Vaps : vap[v] # Absent =>
                            LET row == vapRow[v] IN
                            /\ row # Absent
                            /\ row.look = vap[v].look /\ row.auth = AuthOf(vap[v].security)
                            /\ IsMostCommon(v, row.mode)
                            /\ Strip(v, row.text) = FgtNetwork(v).text
                      /\ \A r \in Radios : Readable(r) =>
                            LET radio == prof[r[1]].radio[r[2]] IN
                            radioRow[r] = [freq |-> Frequency(radio.band), power |-> radio.power,
                                           channels |-> IF radio.objects THEN {} ELSE radio.channels]
                      /\ req[j].aps => \A s \in Serials : wtp[s] # Absent =>
                            apRow[s] = [name |-> wtp[s], scoped |-> TRUE]
                      /\ req[j].delete =>
                            /\ \A v \in Vaps : vap[v] = Absent => vapRow[v] = Absent
                            /\ \A r \in Radios : ~Readable(r) => radioRow[r] = Absent
                            /\ req[j].aps => \A d \in Hosts :
                                  apRow[d] # Absent /\ apRow[d].scoped => d \in Serials /\ wtp[d] # Absent
    BY DEF PullMirrorsWireless
  <2>0. /\ World /\ phase[j] \in Applying /\ j \notin touched /\ req[j].kind = "pull" /\ CourseOf(j)
        /\ \A e \in Elements : Outcome(j, e) =
              IF src[j][e] # Absent THEN src[j][e]
              ELSE IF req[j].delete THEN Absent ELSE dst[j][e]
    BY CleanRunEnds
  <2>1. PICK aps \in BOOLEAN : aps = req[j].aps
    BY <2>0, PullKnows
  <2>2. src[j] = Loaded("device", aps) /\ \A e \in Elements : Loaded("rows", aps)[e] = Outcome(j, e)
    BY <2>0, <2>1, PullKnows
  <2>3. \A e \in Elements :
           /\ Loaded("device", aps)[e] # Absent => Loaded("rows", aps)[e] = Loaded("device", aps)[e]
           /\ Loaded("device", aps)[e] = Absent /\ req[j].delete => Loaded("rows", aps)[e] = Absent
    BY <2>0, <2>2
  <2>4. ASSUME NEW v \in Vaps, vap[v] # Absent
        PROVE  /\ vapRow[v] # Absent
               /\ vapRow[v].look = vap[v].look /\ vapRow[v].auth = AuthOf(vap[v].security)
               /\ IsMostCommon(v, vapRow[v].mode)
               /\ Strip(v, vapRow[v].text) = FgtNetwork(v).text
    <3>1. /\ FgtNetwork(v) # Absent /\ FgtNetwork(v).look = vap[v].look
          /\ FgtNetwork(v).auth = AuthOf(vap[v].security) /\ FgtNetwork(v).mode = ModeOf(v)
      BY <2>0, <2>4, FgtNetworkRead
    <3>2. Loaded("rows", aps)[v] = FgtNetwork(v)
      BY <2>3, <2>4, <3>1, DeviceStoreRead, ElementsAre
    <3>3. vapRow[v] # Absent /\ RowNetwork(v) = FgtNetwork(v)
      BY <3>1, <3>2, RowStoreRead
    <3>4. /\ RowNetwork(v).look = vapRow[v].look /\ RowNetwork(v).mode = vapRow[v].mode
          /\ RowNetwork(v).auth = vapRow[v].auth /\ RowNetwork(v).text = Strip(v, vapRow[v].text)
      BY <2>0, <3>3, RowNetworkRead
    <3>5. IsMostCommon(v, ModeOf(v))
      BY <2>0, ModeIsMostCommon
    <3>6. vapRow[v].mode = ModeOf(v)
      BY <3>1, <3>3, <3>4
    <3> QED
      BY <3>1, <3>3, <3>4, <3>5, <3>6
  <2>5. ASSUME NEW r \in Radios, Readable(r) PROVE radioRow[r] = FgtRadio(r)
    BY <2>0, <2>3, <2>5, FgtRadioRead, DeviceStoreRead, RowStoreRead, ElementsAre
  <2>6. ASSUME aps, NEW s \in Serials, wtp[s] # Absent
        PROVE  apRow[s] = [name |-> wtp[s], scoped |-> TRUE]
    <3>1. Loaded("rows", aps)[s] = wtp[s]
      BY <2>3, <2>6, DeviceStoreRead, ElementsAre
    <3>2. apRow[s] # Absent /\ apRow[s].scoped /\ apRow[s].name = wtp[s]
      BY <2>6, <3>1, RowStoreRead
    <3>3. apRow[s] \in Ap
      BY <2>0, <3>2, ElementsAre DEF World
    <3> QED
      BY <3>2, <3>3 DEF Ap
  <2>7. ASSUME req[j].delete, NEW v \in Vaps, vap[v] = Absent PROVE vapRow[v] = Absent
    <3>1. Loaded("rows", aps)[v] = Absent
      BY <2>3, <2>7, DeviceStoreRead, ElementsAre
    <3> QED
      BY <2>0, <3>1, RowStoreRead, RowNetworkRead
  <2>8. ASSUME req[j].delete, NEW r \in Radios, ~Readable(r) PROVE radioRow[r] = Absent
    BY <2>3, <2>8, DeviceStoreRead, RowStoreRead, ElementsAre
  <2>9. ASSUME req[j].delete, aps, NEW d \in Hosts, apRow[d] # Absent, apRow[d].scoped
        PROVE  d \in Serials /\ wtp[d] # Absent
    <3>1. \A b \in Hosts : apRow[b] # Absent => apRow[b].name # Absent
      BY <2>0, RecordsAreThere DEF World, Ap
    <3>2. CASE d \in Serials
      <4>1. Loaded("rows", aps)[d] # Absent
        BY <2>9, <3>1, <3>2, RowStoreRead
      <4> QED
        BY <2>3, <2>9, <3>2, <4>1, DeviceStoreRead, ElementsAre
    <3>3. CASE d \in Blanks
      <4>1. ScopedBlanks # {} /\ ScopedBlanks \subseteq Hosts /\ \A b \in ScopedBlanks : apRow[b] # Absent
        BY <2>9, <3>3 DEF ScopedBlanks, Hosts
      <4>2. BlankName # Absent
        BY <3>1, <4>1 DEF BlankName
      <4>3. Loaded("rows", aps)[Blank] = Absent
        BY <2>3, <2>9, DeviceStoreRead, ElementsAre
      <4> QED
        BY <2>9, <4>1, <4>2, <4>3, RowStoreRead
    <3> QED
      BY <3>2, <3>3 DEF Hosts
  <2>10. \A r \in Radios : Readable(r) =>
            LET radio == prof[r[1]].radio[r[2]] IN
            radioRow[r] = [freq |-> Frequency(radio.band), power |-> radio.power,
                           channels |-> IF radio.objects THEN {} ELSE radio.channels]
    BY <2>5 DEF FgtRadio
  <2>11. \A v \in Vaps : vap[v] # Absent =>
            LET row == vapRow[v] IN
            /\ row # Absent
            /\ row.look = vap[v].look /\ row.auth = AuthOf(vap[v].security)
            /\ IsMostCommon(v, row.mode)
            /\ Strip(v, row.text) = FgtNetwork(v).text
    BY <2>4
  <2>12. req[j].aps => \A s \in Serials : wtp[s] # Absent =>
            apRow[s] = [name |-> wtp[s], scoped |-> TRUE]
    BY <2>1, <2>6
  <2> QED
    BY <2>1, <2>7, <2>8, <2>9, <2>10, <2>11, <2>12
<1> QED
  BY <1>1, SyncInvariantHolds, PTL

LEMMA FrequencyKnown ==
    ASSUME NEW e \in RadioProfile
    PROVE  Frequency(BandOf[e.freq]) = e.freq /\ e.freq # Absent
<1>1. e.freq \in DOMAIN BandOf
  BY DEF RadioProfile
<1> QED
  BY <1>1, FrequenciesReadBack, RecordsAreThere

\* After every clean push the device reads as the rows do, but for what is
\* never sent, cannot be unset or does not read back.
THEOREM CleanPushLeaves == Spec => []PushResidue
<1>1. SyncInvariant => PushResidue
  <2> SUFFICES ASSUME SyncInvariant, NEW j \in Jobs, Clean(j, "push")
               PROVE  /\ \A v \in Vaps : vapRow[v] # Absent =>
                            /\ vap[v] # Absent
                            /\ Differing(FgtNetwork(v), RowNetwork(v))
                                  \subseteq {"mode"} \cup (IF vap[v].vlan THEN {"text"} ELSE {})
                      /\ \A r \in Radios : radioRow[r] # Absent =>
                            LET differing == Differing(FgtRadio(r), radioRow[r]) IN
                            /\ Readable(r)
                            /\ "freq" \notin differing
                            /\ "power" \in differing => radioRow[r].power = Unset
                            /\ "channels" \in differing =>
                                  radioRow[r].channels = prof[r[1]].radio[r[2]].channels
                      /\ req[j].delete => \A v \in Vaps : vapRow[v] = Absent => vap[v] = Absent
    BY DEF PushResidue
  <2>0. /\ World /\ phase[j] \in Applying /\ j \notin touched /\ req[j].kind = "push" /\ CourseOf(j)
        /\ \A e \in Elements : e \notin WorkedOff(j) =>
              /\ src[j][e] # Absent => dst[j][e] = src[j][e]
              /\ src[j][e] = Absent /\ req[j].delete => dst[j][e] = Absent
    BY CleanRunEnds
  <2>1. /\ \A v \in Vaps : PushedVap(j, v)
        /\ \A r \in Radios : PushedRadio(j, r)
        /\ src[j] = Loaded("rows", FALSE)
    BY <2>0, PushKnows
  <2>2. /\ \A v \in Vaps : src[j][v] = IF vapRow[v] = Absent THEN Absent ELSE RowNetwork(v)
        /\ \A r \in Radios : src[j][r] = radioRow[r]
    BY <2>1, RowStoreRead
  <2>3. ASSUME NEW v \in Vaps, vapRow[v] # Absent
        PROVE  /\ vap[v] # Absent
               /\ Differing(FgtNetwork(v), RowNetwork(v))
                     \subseteq {"mode"} \cup (IF vap[v].vlan THEN {"text"} ELSE {})
    <3>1. PICK e \in Network : e = RowNetwork(v) /\ e = src[j][v] /\ e # Absent
      BY <2>0, <2>2, <2>3, RowNetworkRead
    <3>2. /\ vap[v] # Absent /\ vap[v].look = e.look /\ AuthOf(vap[v].security) = e.auth
          /\ ~vap[v].vlan => FgtNetwork(v).text = e.text
      <4>1. CASE v \in WorkedOff(j)
        <5>1. /\ vap[v] # Absent /\ vap[v].look = e.look /\ vap[v].comment = e.text
              /\ vap[v].security = AuthToFortios(e.auth)
          BY <2>1, <3>1, <4>1 DEF PushedVap
        <5>2. e.auth \in Auths
          BY DEF Network
        <5>3. vap[v].security \notin Lossy /\ AuthOf(vap[v].security) = e.auth
          BY <5>1, <5>2, SecuritiesReadBack
        <5>4. ~vap[v].vlan => FgtNetwork(v).text = vap[v].comment
          BY <2>0, <5>1, <5>3, FgtNetworkRead
        <5> QED
          BY <5>1, <5>3, <5>4
      <4>2. CASE v \notin WorkedOff(j)
        <5>1. dst[j][v] = e
          BY <2>0, <3>1, <4>2, ElementsAre
        <5> QED
          BY <2>1, <3>1, <4>2, <5>1 DEF PushedVap
      <4> QED
        BY <4>1, <4>2
    <3>3. /\ FgtNetwork(v) \in Network
          /\ FgtNetwork(v).look = e.look /\ FgtNetwork(v).auth = e.auth
      BY <2>0, <3>2, FgtNetworkRead
    <3>4. PICK is \in Network : is = FgtNetwork(v)
      BY <3>3
    <3>5. Differing(is, e) \subseteq {"mode"} \cup (IF vap[v].vlan THEN {"text"} ELSE {})
      <4>1. DOMAIN is = {"look", "mode", "auth", "text"}
        BY DEF Network
      <4>2. is["look"] = e["look"] /\ is["auth"] = e["auth"] /\ (~vap[v].vlan => is["text"] = e["text"])
        BY <3>2, <3>3, <3>4
      <4> QED
        BY <4>1, <4>2 DEF Differing
    <3> QED
      BY <3>1, <3>2, <3>4, <3>5
  <2>4. ASSUME NEW r \in Radios, radioRow[r] # Absent
        PROVE  LET differing == Differing(FgtRadio(r), radioRow[r]) IN
               /\ Readable(r)
               /\ "freq" \notin differing
               /\ "power" \in differing => radioRow[r].power = Unset
               /\ "channels" \in differing =>
                     radioRow[r].channels = prof[r[1]].radio[r[2]].channels
    <3>1. PICK e \in RadioProfile : e = radioRow[r] /\ e = src[j][r] /\ e # Absent
      BY <2>0, <2>2, <2>4 DEF World
    <3>2. CASE r \in WorkedOff(j)
      <4>1. RadioIs(r, e)
        BY <2>1, <3>1, <3>2 DEF PushedRadio
      <4>2. PICK radio : radio = prof[r[1]].radio[r[2]]
        OBVIOUS
      <4>3. /\ prof[r[1]] # Absent /\ radio # Absent /\ radio.band = BandOf[e.freq]
            /\ e.power # Unset => radio.power = e.power
            /\ radio.channels = e.channels
        BY <4>1, <4>2 DEF RadioIs
      <4>4. Frequency(radio.band) = e.freq /\ e.freq # Absent
        BY <4>3, FrequencyKnown
      <4>5. Readable(r)
        BY <4>2, <4>3, <4>4 DEF Readable
      <4>6. FgtRadio(r)["freq"] = e["freq"] /\ (e.power # Unset => FgtRadio(r)["power"] = e["power"])
        BY <4>2, <4>3, <4>4 DEF FgtRadio
      <4>7. /\ "freq" \notin Differing(FgtRadio(r), e)
            /\ "power" \in Differing(FgtRadio(r), e) => e.power = Unset
        BY <4>6 DEF Differing
      <4> QED
        BY <3>1, <4>2, <4>3, <4>5, <4>7
    <3>3. CASE r \notin WorkedOff(j)
      <4>1. dst[j][r] = e
        BY <2>0, <3>1, <3>3, ElementsAre
      <4>2. Loaded("device", FALSE)[r] = e
        BY <2>1, <3>1, <3>3, <4>1 DEF PushedRadio
      <4>3. Readable(r) /\ FgtRadio(r) = e
        BY <3>1, <4>2, DeviceStoreRead
      <4>4. \A f : f \notin Differing(FgtRadio(r), e)
        BY <4>3 DEF Differing
      <4> QED
        BY <3>1, <4>3, <4>4
    <3> QED
      BY <3>2, <3>3
  <2>5. ASSUME req[j].delete, NEW v \in Vaps, vapRow[v] = Absent PROVE vap[v] = Absent
    <3>1. src[j][v] = Absent
      BY <2>2, <2>5
    <3>2. v \notin WorkedOff(j) => dst[j][v] = Absent
      BY <2>0, <2>5, <3>1, ElementsAre
    <3> QED
      BY <2>1, <3>1, <3>2 DEF PushedVap
  <2> QED
    BY <2>3, <2>4, <2>5
<1> QED
  BY <1>1, SyncInvariantHolds, PTL

----------------------------------------------------------------------------
(* What a step of an undisturbed job leaves alone.                         *)

\* What a push may do to VAPs.
LEMMA NetworkPushed ==
    ASSUME SyncInvariant, NEW j \in Jobs, j \notin touched, ~Raised(j), NEW v \in Vaps,
           PushNetworkCreate(j, v) \/ PushNetworkUpdate(j, v) \/ PushNetworkDelete(j, v),
           NEW w \in Vaps, vap[w] # Absent, vap'[w] # Absent, vap'[w] # vap[w]
    PROVE  /\ vap'[w].vlan = vap[w].vlan
           /\ AuthOf(vap'[w].security) = vapRow[w].auth
           /\ dst[j][w].auth = vapRow[w].auth => AuthOf(vap'[w].security) = AuthOf(vap[w].security)
<1>0. World /\ CourseOf(j)
  BY TypedWorld DEF SyncInvariant, CourseOf
<1>1. CallOn(j, v) /\ req[j].kind = "push"
  BY TurnIs DEF PushNetworkCreate, PushNetworkUpdate, PushNetworkDelete
<1>2. phase[j] = "syncing" /\ phase[j] \in Applying /\ v \notin WorkedOff(j)
  BY <1>1 DEF CallOn, Applying, WorkedOff
<1>3. PushedVap(j, v) /\ src[j] = Loaded("rows", FALSE)
  BY <1>0, <1>1, <1>2, PushKnows
<1>4. PushNetworkUpdate(j, v) /\ v = w
  <2>1. ASSUME NEW x, PutVap(v, x) PROVE v = w /\ vap'[w] = x
    BY <1>0, <2>1 DEF PutVap, World
  <2>2. ~PushNetworkCreate(j, v)
    <3> SUFFICES ASSUME PushNetworkCreate(j, v) PROVE FALSE
      OBVIOUS
    <3>1. vap[v] = Absent /\ \E x : PutVap(v, x)
      BY DEF PushNetworkCreate, Call
    <3> QED
      BY <2>1, <3>1
  <2>3. ~PushNetworkDelete(j, v)
    BY <2>1 DEF PushNetworkDelete, Call
  <2>4. ASSUME PushNetworkUpdate(j, v) PROVE v = w
    <3>1. \E x : PutVap(v, x)
      BY <2>4 DEF PushNetworkUpdate, Call
    <3> QED
      BY <2>1, <3>1
  <2> QED
    BY <2>2, <2>3, <2>4
<1>5. v \in todo[j].write /\ dst[j][v] # Absent /\ PutVap(v, UpdatedVap(src[j][v], vap[v]))
  BY <1>4 DEF PushNetworkUpdate, Turn, Call
<1>6. PICK e \in Network, was \in Vap : e = src[j][v] /\ was = vap[v]
  BY <1>0, <1>2, <1>4, <1>5, Planned DEF World
<1>7. PICK x : x = UpdatedVap(e, was)
  OBVIOUS
<1>8. vap'[v] = x
  BY <1>0, <1>5, <1>6, <1>7 DEF PutVap, World
<1>9. x.security = AuthToFortios(e.auth) /\ x.vlan = was.vlan
  BY <1>7, UpdatedVapRead
<1>10. e.auth \in Auths
  BY DEF Network
<1>11. AuthOf(x.security) = e.auth
  BY <1>9, <1>10, SecuritiesReadBack
<1>12. e.auth = vapRow[v].auth
  <2>1. src[j][v] = IF vapRow[v] = Absent THEN Absent ELSE RowNetwork(v)
    BY <1>3, RowStoreRead
  <2>2. src[j][v] # Absent
    BY <1>6, RecordsAreThere
  <2> QED
    BY <1>0, <1>6, <2>1, <2>2, RowNetworkRead
<1>13. dst[j][v].auth = AuthOf(vap[v].security)
  BY <1>2, <1>3, <1>4 DEF PushedVap
<1> QED
  BY <1>4, <1>6, <1>8, <1>9, <1>11, <1>12, <1>13

\* What a push may do to profiles.
LEMMA RadioPushed ==
    ASSUME SyncInvariant, NEW j \in Jobs, ~Raised(j), NEW r \in Radios,
           PushRadioCreate(j, r) \/ PushRadioUpdate(j, r) \/ PushRadioDelete(j, r),
           NEW p \in Profiles, prof[p] # Absent, prof'[p] # prof[p]
    PROVE  /\ prof'[p] # Absent
           /\ prof'[p].mode = prof[p].mode /\ prof'[p].uses = prof[p].uses
           /\ \E n \in Slots : \A m \in Slots \ {n} : prof'[p].radio[m] = prof[p].radio[m]
<1>0. World
  BY TypedWorld DEF SyncInvariant
<1>1. CallOn(j, r)
  BY TurnIs DEF PushRadioCreate, PushRadioUpdate, PushRadioDelete
<1>2. ~PushRadioDelete(j, r)
  BY DEF PushRadioDelete, worldVars, deviceVars
<1>3. /\ r \in todo[j].write
      /\ \/ prof[r[1]] # Absent /\ PutRadio(r, src[j][r])
         \/ prof[r[1]] = Absent /\ PutProfile(r[1], PostedProfile(j, r[1]))
  BY <1>2 DEF PushRadioCreate, PushRadioUpdate, Turn, Call
<1>4. ~(prof[r[1]] = Absent /\ PutProfile(r[1], PostedProfile(j, r[1])))
  BY <1>0 DEF PutProfile, World
<1>5. PICK e \in RadioProfile : e = src[j][r]
  BY <1>1, <1>3, Planned DEF CallOn
<1>6. prof[r[1]] # Absent /\ PutRadio(r, e)
  BY <1>3, <1>4, <1>5
<1>7. /\ prof'[r[1]] \in Profile
      /\ prof'[r[1]].mode = prof[r[1]].mode /\ prof'[r[1]].uses = prof[r[1]].uses
      /\ \A n \in Slots \ {r[2]} : prof'[r[1]].radio[n] = prof[r[1]].radio[n]
      /\ \A q \in Profiles \ {r[1]} : prof'[q] = prof[q]
  BY <1>0, <1>6, RadioPut
<1>8. p = r[1] /\ r[2] \in Slots
  BY <1>7, RadiosAre
<1> QED
  BY <1>7, <1>8, RecordsAreThere

\* However often a push that nobody disturbs rewrites a VAP, the VAP keeps its
\* VLAN and the security that no row asks to change; a profile keeps its mode,
\* its VAPs and all radios but the one that is pushed.
THEOREM UnsentIsKept == Spec => PushKeepsUnsent
<1>1. SyncInvariant /\ [Next]_vars =>
        [\A j \in Jobs : Undisturbed(j) =>
          /\ \A v \in Vaps :
                vap[v] # Absent /\ vap'[v] # Absent /\ vap'[v] # vap[v] =>
                   /\ vap'[v].vlan = vap[v].vlan
                   /\ AuthOf(vap'[v].security) = vapRow[v].auth
                   /\ dst[j][v].auth = vapRow[v].auth =>
                         AuthOf(vap'[v].security) = AuthOf(vap[v].security)
          /\ \A p \in Profiles :
                prof[p] # Absent /\ prof'[p] # prof[p] =>
                   /\ prof'[p] # Absent
                   /\ prof'[p].mode = prof[p].mode /\ prof'[p].uses = prof[p].uses
                   /\ \E n \in Slots :
                         \A m \in Slots \ {n} : prof'[p].radio[m] = prof[p].radio[m]]_vars
  <2> SUFFICES ASSUME SyncInvariant, [Next]_vars, NEW j \in Jobs, todo'[j] # todo[j], j \notin touched
               PROVE  /\ \A v \in Vaps :
                            vap[v] # Absent /\ vap'[v] # Absent /\ vap'[v] # vap[v] =>
                               /\ vap'[v].vlan = vap[v].vlan
                               /\ AuthOf(vap'[v].security) = vapRow[v].auth
                               /\ dst[j][v].auth = vapRow[v].auth =>
                                     AuthOf(vap'[v].security) = AuthOf(vap[v].security)
                      /\ \A p \in Profiles :
                            prof[p] # Absent /\ prof'[p] # prof[p] =>
                               /\ prof'[p] # Absent
                               /\ prof'[p].mode = prof[p].mode /\ prof'[p].uses = prof[p].uses
                               /\ \E n \in Slots :
                                     \A m \in Slots \ {n} : prof'[p].radio[m] = prof[p].radio[m]
    BY DEF Undisturbed
  <2>1. StepOf(j) /\ ~Raised(j)
    BY OthersStep DEF SameJob, Raised
  <2>2. CASE Push(j)
    <3>1. ASSUME NEW v \in Vaps,
                 PushNetworkCreate(j, v) \/ PushNetworkUpdate(j, v) \/ PushNetworkDelete(j, v)
          PROVE  UNCHANGED prof
      BY <2>1, <3>1 DEF PushNetworkCreate, PushNetworkUpdate, PushNetworkDelete, Call, PutVap
    <3>2. ASSUME NEW r \in Radios,
                 PushRadioCreate(j, r) \/ PushRadioUpdate(j, r) \/ PushRadioDelete(j, r)
          PROVE  UNCHANGED vap
      BY <2>1, <3>2 DEF PushRadioCreate, PushRadioUpdate, PushRadioDelete, Call, PutRadio, PutProfile,
                        worldVars, deviceVars
    <3>3. CASE \E v \in Vaps :
                  PushNetworkCreate(j, v) \/ PushNetworkUpdate(j, v) \/ PushNetworkDelete(j, v)
      BY <2>1, <3>1, <3>3, NetworkPushed
    <3>4. CASE \E r \in Radios :
                  PushRadioCreate(j, r) \/ PushRadioUpdate(j, r) \/ PushRadioDelete(j, r)
      BY <2>1, <3>2, <3>4, RadioPushed
    <3> QED
      BY <2>2, <3>3, <3>4 DEF Push
  <2>3. CASE ~Push(j)
    <3>1. UNCHANGED <<vap, prof>>
      BY <2>1, <2>3, PullCalls DEF StepOf, Start, Load, LoadSource, LoadTarget, ExecuteSync, Finish,
                                   Crash, worldVars, deviceVars
    <3> QED
      BY <3>1
  <2> QED
    BY <2>2, <2>3
<1> QED
  BY <1>1, SyncInvariantHolds, PTL DEF Spec, PushKeepsUnsent

\* A pull that nobody disturbs removes a Device only on request and only of
\* its own scope, and takes over only the Device of an access point.
THEOREM DevicesAreKept == Spec => PullKeepsDevices
<1>1. SyncInvariant /\ [Next]_vars =>
        [\A j \in Jobs, d \in Hosts :
          Undisturbed(j) /\ apRow[d] # Absent /\ apRow'[d] # apRow[d] =>
             IF apRow'[d] = Absent
             THEN /\ req[j].delete
                  /\ IF d \in Serials THEN apRow[d].scoped /\ wtp[d] = Absent
                     ELSE ScopedBlanks # {}
             ELSE d \in Serials /\ wtp[d] # Absent]_vars
  <2> SUFFICES ASSUME SyncInvariant, [Next]_vars, NEW j \in Jobs, NEW d \in Hosts,
                      todo'[j] # todo[j], j \notin touched, apRow[d] # Absent, apRow'[d] # apRow[d]
               PROVE  IF apRow'[d] = Absent
                      THEN /\ req[j].delete
                           /\ IF d \in Serials THEN apRow[d].scoped /\ wtp[d] = Absent
                              ELSE ScopedBlanks # {}
                      ELSE d \in Serials /\ wtp[d] # Absent
    BY DEF Undisturbed
  <2>0. World /\ CourseOf(j)
    BY TypedWorld DEF SyncInvariant, CourseOf
  <2>1. StepOf(j) /\ ~Raised(j)
    BY OthersStep DEF SameJob, Raised
  <2>2. Pull(j)
    BY <2>1, PushCalls DEF StepOf, Start, Load, LoadSource, LoadTarget, ExecuteSync, Finish, Crash,
                           worldVars, rowVars
  <2>3. phase[j] = "syncing" /\ phase[j] \in Applying /\ req[j].kind = "pull"
    BY <2>2, PullCalls DEF Applying
  <2>4. PICK aps \in BOOLEAN : aps = req[j].aps
    BY <2>0, <2>3, PullKnows
  <2>5. PICK s \in Serials \cup {Blank} : PullApCreate(j, s) \/ PullApUpdate(j, s) \/ PullApDelete(j, s)
    BY <2>2 DEF Pull, PullNetworkCreate, PullNetworkUpdate, PullNetworkDelete, PullRadioCreate,
                PullRadioUpdate, PullRadioDelete, PutVapRow, PutRadioRow, worldVars, rowVars
  <2>6. \A t \in Serials : src[j][t] = IF aps THEN wtp[t] ELSE Absent
    BY <2>0, <2>3, <2>4, PullKnows, DeviceStoreRead
  <2>7. CASE PullApDelete(j, s)
    <3>1. /\ apRow' = [b \in Hosts |-> IF b = s \/ (s = Blank /\ b \in Blanks) THEN Absent ELSE apRow[b]]
          /\ s \in todo[j].delete /\ CallOn(j, s) /\ Applied(j, s)
      BY <2>7, TurnIs DEF PullApDelete, PutApRows, Turn
    <3>2. apRow'[d] = Absent /\ (d = s \/ (s = Blank /\ d \in Blanks))
      BY <3>1
    <3>3. req[j].delete /\ src[j][s] = Absent /\ dst[j][s] # Absent
      BY <2>3, <3>1, Planned
    <3>4. Loaded("rows", aps)[s] = dst[j][s]
      BY <2>0, <2>3, <2>4, <3>1, PulledAsLoaded, ElementsAre
    <3>5. CASE s \in Serials
      <4>1. aps /\ apRow[s].scoped
        BY <3>3, <3>4, <3>5, RowStoreRead
      <4>2. d = s
        BY <3>2, <3>5, ElementsAre
      <4> QED
        BY <2>6, <3>2, <3>3, <3>5, <4>1, <4>2
    <3>6. CASE s = Blank
      <4>1. ScopedBlanks # {}
        BY <3>3, <3>4, <3>6, RowStoreRead
      <4>2. d \notin Serials
        BY <3>2, <3>6, ElementsAre
      <4> QED
        BY <3>2, <3>3, <4>1, <4>2
    <3> QED
      BY <3>5, <3>6
  <2>8. CASE PullApCreate(j, s) \/ PullApUpdate(j, s)
    <3>1. /\ s \in todo[j].write /\ s \in Serials
          /\ \/ apRow' = [apRow EXCEPT ![s] = [name |-> src[j][s], scoped |-> TRUE]]
             \/ apRow[s] # Absent /\ apRow' = [apRow EXCEPT ![s].name = src[j][s]]
      BY <2>8 DEF PullApCreate, PullApUpdate, PutApRows, Turn, worldVars, rowVars
    <3>2. d = s /\ src[j][s] \in ApNames /\ src[j][s] # Absent
      BY <2>0, <2>3, <3>1, Planned DEF World
    <3>3. apRow'[d] \in Ap
      <4>1. PICK name \in ApNames, was \in Ap : name = src[j][d] /\ was = apRow[d]
        BY <2>0, <3>2 DEF World
      <4>2. \/ apRow'[d] = [name |-> name, scoped |-> TRUE]
            \/ apRow'[d] = [was EXCEPT !.name = name]
        BY <2>0, <3>1, <3>2, <4>1 DEF World
      <4>3. [name |-> name, scoped |-> TRUE] \in Ap /\ [was EXCEPT !.name = name] \in Ap
        BY DEF Ap
      <4> QED
        BY <4>2, <4>3
    <3>4. apRow'[d] # Absent
      BY <3>3, RecordsAreThere
    <3> QED
      BY <2>6, <3>1, <3>2, <3>4
  <2> QED
    BY <2>5, <2>7, <2>8
<1> QED
  BY <1>1, SyncInvariantHolds, PTL DEF Spec, PullKeepsDevices
=============================================================================
