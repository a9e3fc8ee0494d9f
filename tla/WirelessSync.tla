---------------------------- MODULE WirelessSync ----------------------------
(***************************************************************************)
(* Synchronisation of SSIDs, radio profiles and access points between a    *)
(* FortiGate and Nautobot: the wireless jobs on wireless-controller/vap,   *)
(* wtp-profile and wtp.                                                    *)
(*                                                                         *)
(* The two sides cut the world differently.  A wtp-profile of the device   *)
(* holds up to three radios and a platform mode; Nautobot has one          *)
(* RadioProfile per radio and keeps the mode with the SSIDs.  A push thus  *)
(* makes a profile out of all its radios at once, and changes one radio at *)
(* a time afterwards.                                                      *)
(*                                                                         *)
(* Left out: the cut of a comment at 255 characters, names FortiOS leaves  *)
(* empty, RadioProfiles whose name does not end in __radio<N> (no job sees *)
(* them), and the profile of an access point, which only the device has:   *)
(* it makes every pull save the Device again, unchanged.                   *)
(***************************************************************************)
EXTENDS Naturals, Sequences, FiniteSets

CONSTANTS
    Vaps,
    ProfileOrder,     \* the wtp-profiles, in the order of the device's table
    Slots,            \* radio-1 .. radio-3
    Serials,          \* of access points
    Blanks,           \* Devices of Nautobot without a serial
    Looks,            \* SSID, broadcast and status, which change together
    Powers,           \* power limits and country, which change together
    Unset,            \* no power limits and no country
    FactoryPower,     \* what FortiOS gives a radio that was sent none
    Channels,         \* the channels
    ApNames, Texts,
    Marker,           \* what a read appends to the comment of a VAP
    Blank,            \* the empty serial
    Absent,
    Jobs,
    InitialWorlds, DeviceEdits, RowEdits,
    MaxEdits, MaxRuns

Profiles == {ProfileOrder[i] : i \in DOMAIN ProfileOrder}
Radios == Profiles \X Slots
Hosts == Serials \cup Blanks
Elements == Vaps \cup Radios \cup Serials \cup {Blank}

ASSUME ConstantsAssumption ==
    /\ ProfileOrder \in Seq(Profiles)
    /\ Slots \subseteq 1..3
    /\ Unset \notin Powers /\ FactoryPower \in Powers
    /\ Serials \cap Blanks = {} /\ Blank \notin Hosts
    /\ Vaps \cap Radios = {} /\ (Vaps \cup Radios) \cap (Serials \cup {Blank}) = {}
    /\ DOMAIN Marker = {"vlan", "auth"}
    /\ MaxEdits \in Nat /\ MaxRuns \in Nat

VARIABLES
    vap,       \* vap[v]: the device's VAP, or Absent
    prof,      \* prof[p]: its wtp-profile, or Absent
    wtp,       \* wtp[s]: the name of its access point, or Absent
    vapRow,    \* vapRow[v]: Nautobot's WirelessNetwork, or Absent
    radioRow,  \* radioRow[<<p, n>>]: its RadioProfile, or Absent
    apRow,     \* apRow[d]: its Device, or Absent
    phase, req, src, dst, todo, touched, edits, runs   \* the jobs, as in AddressSync

deviceVars == <<vap, prof, wtp>>
rowVars == <<vapRow, radioRow, apRow>>
worldVars == <<deviceVars, rowVars>>
vars == <<vap, prof, wtp, vapRow, radioRow, apRow,
          phase, req, src, dst, todo, touched, edits, runs>>

----------------------------------------------------------------------------
(* What FortiOS and Nautobot call things.                                  *)

\* FORTIOS_VAP_SECURITY_MAP; what it does not know is open as well.
KeyedSecurity ==
    [personal |-> {"wpa-personal", "wpa-personal+pmf", "wpa2-only-personal"},
     enterprise |-> {"wpa-enterprise", "wpa2-only-enterprise"},
     sae |-> {"wpa3-sae", "wpa3-sae-transition"},
     personal3 |-> {"wpa3-only-personal", "wpa3-personal"},
     enterprise3 |-> {"wpa3-enterprise", "wpa3-only-enterprise"},
     enterprise192 |-> {"wpa3-enterprise-192", "wpa3-only-enterprise-192"},
     enhanced |-> {"owe", "osen"}]
Lossy == {"captive-portal", "wep64", "wep128", "unknown"}
Securities == {"open"} \cup Lossy \cup UNION {KeyedSecurity[a] : a \in DOMAIN KeyedSecurity}
Auths == {"open"} \cup DOMAIN KeyedSecurity

AuthOf(s) ==
    IF \E a \in DOMAIN KeyedSecurity : s \in KeyedSecurity[a]
    THEN CHOOSE a \in DOMAIN KeyedSecurity : s \in KeyedSecurity[a]
    ELSE "open"

ToFortios ==
    [open |-> "open", personal |-> "wpa2-only-personal", enterprise |-> "wpa2-only-enterprise",
     sae |-> "wpa3-sae", personal3 |-> "wpa3-only-personal",
     enterprise3 |-> "wpa3-only-enterprise", enterprise192 |-> "wpa3-only-enterprise-192",
     enhanced |-> "owe"]

\* Defect: WPA3 Personal is sent as the other WPA3 with a passphrase.
AuthToFortiosMixed(a) == IF a = "personal3" THEN "wpa3-sae" ELSE ToFortios[a]

\* NAUTOBOT_AUTH_TO_FORTIOS_SECURITY.
AuthToFortios(a) == ToFortios[a]

\* FORTIOS_PLATFORM_MODE_MAP.
NetworkMode(m) ==
    CASE m \in {"FortiAP-local-mode", "local-mode"} -> "Local (Flex)"
      [] m \in {"wpa-mesh-mode", "mesh"} -> "Mesh"
      [] m = "bridge-mode" -> "Bridge"
      [] OTHER -> "Central"

\* fortios_band_to_frequency, and the band that stands for a frequency.
Bands == {"802.11n,g-only", "802.11n", "802.11ac", "802.11ax", "802.11ax-5G", "802.11ax-6G", "disabled"}
Frequency(b) ==
    CASE b = "802.11ax-6G" -> "6GHz"
      [] b \in {"802.11ax-5G", "802.11ac", "802.11ax"} -> "5GHz"
      [] b \in {"802.11n,g-only", "802.11n"} -> "2.4GHz"
      [] OTHER -> Absent
BandOf == [f \in {"2.4GHz", "5GHz", "6GHz"} |->
              CASE f = "2.4GHz" -> "802.11n,g-only" [] f = "5GHz" -> "802.11ax-5G"
                [] f = "6GHz" -> "802.11ax-6G"]

----------------------------------------------------------------------------
(* Records of the device and of Nautobot.  A comment is a sequence of      *)
(* pieces: Nautobot puts the VAP's name in front, a read of the device     *)
(* appends markers.  Channels are a list, as the adapter expects, or a     *)
(* list of {"chan": ...} objects, as FortiOS has it.                       *)

Pieces == Vaps \cup Texts \cup {Marker.vlan, Marker.auth}
Vap == [look : Looks, security : Securities, comment : Seq(Pieces), vlan : BOOLEAN, held : BOOLEAN]
DeviceRadio == [band : Bands, power : Powers, channels : SUBSET Channels, objects : BOOLEAN]
Modes == {"FortiAP-tunnel-mode", "FortiAP-local-mode", "bridge-mode", "mesh"}
Profile == [mode : Modes, uses : [Vaps -> Nat], radio : [Slots -> DeviceRadio \cup {Absent}]]

Network == [look : Looks, mode : {NetworkMode(m) : m \in Modes}, auth : Auths, text : Seq(Pieces)]
RadioProfile == [freq : DOMAIN BandOf, power : Powers \cup {Unset}, channels : SUBSET Channels]
Ap == [name : ApNames, scoped : BOOLEAN]  \* of the type, role and location of the job

ASSUME NothingAssumption ==
    /\ Absent \notin Vap \cup DeviceRadio \cup Profile \cup Network \cup RadioProfile \cup Ap
    /\ Absent \notin ApNames \cup DOMAIN BandOf

ASSUME WorldsAssumption ==
    /\ \A w \in InitialWorlds :
          /\ w.vap \in [Vaps -> Vap \cup {Absent}] /\ w.prof \in [Profiles -> Profile \cup {Absent}]
          /\ w.wtp \in [Serials -> ApNames \cup {Absent}]
          /\ w.vapRow \in [Vaps -> Network \cup {Absent}]
          /\ w.radioRow \in [Radios -> RadioProfile \cup {Absent}]
          /\ w.apRow \in [Hosts -> Ap \cup {Absent}]
    /\ \A e \in DeviceEdits :
          /\ e.key \in Vaps => e.record \in Vap \cup {Absent}
          /\ e.key \in Profiles => e.record \in Profile \cup {Absent}
          /\ e.key \in Serials => e.record \in ApNames \cup {Absent}
    /\ \A e \in RowEdits :
          /\ e.key \in Vaps => e.record \in Network \cup {Absent}
          /\ e.key \in Radios => e.record \in RadioProfile \cup {Absent}
          /\ e.key \in Hosts => e.record \in Ap \cup {Absent}

----------------------------------------------------------------------------
(* What the adapters load.                                                 *)

Position(p) == CHOOSE i \in DOMAIN ProfileOrder : ProfileOrder[i] = p
Users(v) == {p \in Profiles : prof[p] # Absent /\ prof[p].uses[v] > 0}

\* The radios, counted in the profiles of mode m, that serve VAP v.
UsesOf(v, m) ==
    Cardinality(UNION {{p} \X (1..prof[p].uses[v]) : p \in {q \in Users(v) : prof[q].mode = m}})

\* Defect: the mode of the first profile that uses the VAP, whatever others have.
FirstModeOf(v) ==
    IF Users(v) = {} THEN "Central"
    ELSE NetworkMode(prof[CHOOSE p \in Users(v) :
                             \A q \in Users(v) : Position(p) <= Position(q)].mode)

\* _build_vap_mode_index: most_common takes the first of those that are tied.
ModeOf(v) ==
    LET Most == {p \in Users(v) :
                    \A q \in Users(v) : UsesOf(v, prof[q].mode) <= UsesOf(v, prof[p].mode)}
    IN IF Users(v) = {} THEN "Central"
       ELSE NetworkMode(prof[CHOOSE p \in Most : \A q \in Most : Position(p) <= Position(q)].mode)

\* _load_vaps.
FgtNetwork(v) ==
    [look |-> vap[v].look, mode |-> ModeOf(v), auth |-> AuthOf(vap[v].security),
     text |-> vap[v].comment \o (IF vap[v].vlan THEN <<Marker.vlan>> ELSE <<>>)
                             \o (IF vap[v].security \in Lossy THEN <<Marker.auth>> ELSE <<>>)]

\* _radio_profiles_from_wtp_profiles: a radio whose band has no frequency is
\* skipped, and an object is not a number, so no channel is read from a list of them.
Readable(r) ==
    /\ prof[r[1]] # Absent
    /\ prof[r[1]].radio[r[2]] # Absent
    /\ Frequency(prof[r[1]].radio[r[2]].band) # Absent
FgtRadio(r) ==
    LET radio == prof[r[1]].radio[r[2]] IN
    [freq |-> Frequency(radio.band), power |-> radio.power,
     channels |-> IF radio.objects THEN {} ELSE radio.channels]

\* _compose_description, and _strip_description_prefix.
Compose(v, text) == <<v>> \o text
Strip(v, text) == IF text # <<>> /\ Head(text) = v THEN Tail(text) ELSE text

RowNetwork(v) == [vapRow[v] EXCEPT !.text = Strip(v, @)]

\* Defect: Devices are loaded whatever their type, role and location.
LoadedAnyAps(kind) ==
    IF kind = "device" THEN wtp
    ELSE [s \in Serials |-> IF apRow[s] # Absent THEN apRow[s].name ELSE Absent]

\* _load_wtps and _load_access_points.
LoadedAps(kind) ==
    IF kind = "device" THEN wtp
    ELSE [s \in Serials |-> IF apRow[s] # Absent /\ apRow[s].scoped THEN apRow[s].name ELSE Absent]

ScopedBlanks == {d \in Blanks : apRow[d] # Absent /\ apRow[d].scoped}

\* Two Devices without a serial are the same record, which add() does not allow.
LoadRaises(kind, aps) == kind = "rows" /\ aps /\ Cardinality(ScopedBlanks) > 1

Loaded(kind, aps) ==
    [e \in Elements |->
        IF e \in Vaps THEN
            IF kind = "device" THEN IF vap[e] = Absent THEN Absent ELSE FgtNetwork(e)
            ELSE IF vapRow[e] = Absent THEN Absent ELSE RowNetwork(e)
        ELSE IF e \in Radios THEN
            IF kind = "device" THEN IF Readable(e) THEN FgtRadio(e) ELSE Absent ELSE radioRow[e]
        ELSE IF ~aps THEN Absent
        ELSE IF e \in Serials THEN LoadedAps(kind)[e]
        ELSE IF kind = "rows" /\ ScopedBlanks # {}
             THEN apRow[CHOOSE d \in ScopedBlanks : TRUE].name ELSE Absent]

SourceKind(j) == IF req[j].kind = "pull" THEN "device" ELSE "rows"
TargetKind(j) == IF req[j].kind = "pull" THEN "rows" ELSE "device"

----------------------------------------------------------------------------
(* The job.  aps: the three inputs for access points are filled in, which  *)
(* the push job does not have.                                             *)

Idle == {"idle", "done", "failed", "crashed"}
Running == {"source", "target", "loaded", "syncing"}
Requests ==
    [kind : {"pull"}, delete : BOOLEAN, aps : BOOLEAN]
    \cup [kind : {"push"}, delete : BOOLEAN, aps : {FALSE}]
NoWork == [write |-> {}, delete |-> {}]
EmptyStore == [e \in Elements |-> Absent]

Init ==
    /\ \E w \in InitialWorlds :
          /\ vap = w.vap /\ prof = w.prof /\ wtp = w.wtp
          /\ vapRow = w.vapRow /\ radioRow = w.radioRow /\ apRow = w.apRow
    /\ phase = [j \in Jobs |-> "idle"]
    /\ req = [j \in Jobs |-> [kind |-> "pull", delete |-> FALSE, aps |-> FALSE]]
    /\ src = [j \in Jobs |-> EmptyStore]
    /\ dst = [j \in Jobs |-> EmptyStore]
    /\ todo = [j \in Jobs |-> NoWork]
    /\ touched = {}
    /\ edits = 0 /\ runs = 0

Advance(j, p) == phase' = [phase EXCEPT ![j] = p]

Start(j) ==
    /\ phase[j] \in Idle
    /\ runs < MaxRuns
    /\ \E r \in Requests : req' = [req EXCEPT ![j] = r]
    /\ Advance(j, "source")
    /\ src' = [src EXCEPT ![j] = EmptyStore]
    /\ dst' = [dst EXCEPT ![j] = EmptyStore]
    /\ todo' = [todo EXCEPT ![j] = NoWork]
    /\ touched' = touched \ {j}
    /\ runs' = runs + 1
    /\ UNCHANGED <<worldVars, edits>>

Raised(j) ==
    /\ Advance(j, "failed")
    /\ UNCHANGED <<worldVars, req, src, dst, todo, touched, edits, runs>>

LoadSource(j) ==
    /\ phase[j] = "source"
    /\ src' = [src EXCEPT ![j] = Loaded(SourceKind(j), req[j].aps)]
    /\ Advance(j, "target")
    /\ UNCHANGED <<worldVars, req, dst, todo, touched, edits, runs>>

LoadTarget(j) ==
    /\ phase[j] = "target"
    /\ IF LoadRaises(TargetKind(j), req[j].aps) THEN Raised(j)
       ELSE /\ dst' = [dst EXCEPT ![j] = Loaded(TargetKind(j), req[j].aps)]
            /\ Advance(j, "loaded")
            /\ UNCHANGED <<worldVars, req, src, todo, touched, edits, runs>>

Writes(from, to) == {e \in Elements : from[e] # Absent /\ from[e] # to[e]}
Deletes(from, to) == {e \in Elements : from[e] = Absent /\ to[e] # Absent}

ExecuteSync(j) ==
    /\ phase[j] = "loaded"
    /\ todo' = [todo EXCEPT ![j] =
          [write |-> Writes(src[j], dst[j]),
           delete |-> IF req[j].delete THEN Deletes(src[j], dst[j]) ELSE {}]]
    /\ Advance(j, "syncing")
    /\ UNCHANGED <<worldVars, req, src, dst, touched, edits, runs>>

TopLevel == <<Vaps, Radios, Serials \cup {Blank}>>
KindOf(e) == CHOOSE k \in DOMAIN TopLevel : e \in TopLevel[k]

\* top_level's order; within a kind, what the source has goes first.
Turn(j, kind, op, e) ==
    /\ phase[j] = "syncing" /\ req[j].kind = kind
    /\ e \in todo[j][op]
    /\ \A f \in todo[j].write \cup todo[j].delete : KindOf(e) <= KindOf(f)
    /\ op = "delete" => todo[j].write \cap TopLevel[KindOf(e)] = {}

Applied(j, e) ==
    /\ todo' = [todo EXCEPT ![j] = [write |-> @.write \ {e}, delete |-> @.delete \ {e}]]
    /\ touched' = touched \cup (Jobs \ {j})
    /\ UNCHANGED <<phase, req, src, dst, edits, runs>>

Finish(j) ==
    /\ phase[j] = "syncing"
    /\ todo[j] = NoWork
    /\ Advance(j, "done")
    /\ UNCHANGED <<worldVars, req, src, dst, todo, touched, edits, runs>>

Crash(j) ==
    /\ phase[j] \in Running
    /\ Advance(j, "crashed")
    /\ UNCHANGED <<worldVars, req, src, dst, todo, touched, edits, runs>>

----------------------------------------------------------------------------
(* Pulling.                                                                *)

PutVapRow(v, row) ==
    vapRow' = [vapRow EXCEPT ![v] = row] /\ UNCHANGED <<deviceVars, radioRow, apRow>>
PutRadioRow(r, row) ==
    radioRow' = [radioRow EXCEPT ![r] = row] /\ UNCHANGED <<deviceVars, vapRow, apRow>>
PutApRows(rows) == apRow' = rows /\ UNCHANGED <<deviceVars, vapRow, radioRow>>

\* update() sets the fields in which the two stores differ.
Changed(e, was, row) == [f \in DOMAIN row |-> IF e[f] = was[f] THEN row[f] ELSE e[f]]

PullNetworkCreate(j, v) ==
    /\ Turn(j, "pull", "write", v)
    /\ dst[j][v] = Absent
    /\ PutVapRow(v, [src[j][v] EXCEPT !.text = Compose(v, @)])
    /\ Applied(j, v)

UpdatedNetwork(v, e, was, row) ==
    [Changed(e, was, row) EXCEPT !.text = IF e.text = was.text THEN row.text ELSE Compose(v, e.text)]

PullNetworkUpdate(j, v) ==
    /\ Turn(j, "pull", "write", v)
    /\ dst[j][v] # Absent
    /\ IF vapRow[v] = Absent THEN UNCHANGED worldVars
       ELSE PutVapRow(v, UpdatedNetwork(v, src[j][v], dst[j][v], vapRow[v]))
    /\ Applied(j, v)

PullNetworkDelete(j, v) ==
    /\ Turn(j, "pull", "delete", v)
    /\ PutVapRow(v, Absent)
    /\ Applied(j, v)

PullRadioCreate(j, r) ==
    /\ Turn(j, "pull", "write", r)
    /\ dst[j][r] = Absent
    /\ PutRadioRow(r, src[j][r])
    /\ Applied(j, r)

PullRadioUpdate(j, r) ==
    /\ Turn(j, "pull", "write", r)
    /\ dst[j][r] # Absent
    /\ IF radioRow[r] = Absent THEN UNCHANGED worldVars
       ELSE PutRadioRow(r, Changed(src[j][r], dst[j][r], radioRow[r]))
    /\ Applied(j, r)

PullRadioDelete(j, r) ==
    /\ Turn(j, "pull", "delete", r)
    /\ PutRadioRow(r, Absent)
    /\ Applied(j, r)

\* update_or_create by serial: a Device kept elsewhere is made this job's.
PullApCreate(j, s) ==
    /\ Turn(j, "pull", "write", s)
    /\ s \in Serials /\ dst[j][s] = Absent
    /\ PutApRows([apRow EXCEPT ![s] = [name |-> src[j][s], scoped |-> TRUE]])
    /\ Applied(j, s)

PullApUpdate(j, s) ==
    /\ Turn(j, "pull", "write", s)
    /\ s \in Serials /\ dst[j][s] # Absent
    /\ IF apRow[s] = Absent THEN UNCHANGED worldVars
       ELSE PutApRows([apRow EXCEPT ![s].name = src[j][s]])
    /\ Applied(j, s)

\* Every Device of that serial goes, whatever its type, role and location;
\* of the empty serial there may be many.
PullApDelete(j, s) ==
    /\ Turn(j, "pull", "delete", s)
    /\ s \in Serials \cup {Blank}
    /\ PutApRows([d \in Hosts |-> IF d = s \/ (s = Blank /\ d \in Blanks) THEN Absent ELSE apRow[d]])
    /\ Applied(j, s)

----------------------------------------------------------------------------
(* Pushing.                                                                *)

PutVap(v, record) == vap' = [vap EXCEPT ![v] = record] /\ UNCHANGED <<prof, wtp, rowVars>>
PutProfile(p, record) == prof' = [prof EXCEPT ![p] = record] /\ UNCHANGED <<vap, wtp, rowVars>>

Call(j, e, accepted, write) ==
    \/ accepted /\ write /\ Applied(j, e)
    \/ ~accepted /\ Raised(j)

\* No payload has a passphrase or a RADIUS server: FortiOS may refuse one whose
\* security needs what the VAP does not have.
Keyed(auth) == auth \notin {"open", "enhanced"}

\* _vap_payload; FortiOS makes a quarantine interface with each VAP.
PostedVap(e) ==
    [look |-> e.look, security |-> AuthToFortios(e.auth), comment |-> e.text,
     vlan |-> FALSE, held |-> TRUE]

PushNetworkCreate(j, v) ==
    LET e == src[j][v] IN
    /\ Turn(j, "push", "write", v)
    /\ dst[j][v] = Absent
    /\ \/ Call(j, v, vap[v] = Absent, PutVap(v, PostedVap(e)))
       \/ Keyed(e.auth) /\ Raised(j)

\* Defect: a PUT replaces the VAP.
ReplacedVap(e, was) == PostedVap(e)

\* A PUT of the whole payload keeps what the payload has no word for.
UpdatedVap(e, was) ==
    [was EXCEPT !.look = e.look, !.security = AuthToFortios(e.auth), !.comment = e.text]

PushNetworkUpdate(j, v) ==
    LET e == src[j][v] IN
    /\ Turn(j, "push", "write", v)
    /\ dst[j][v] # Absent
    /\ \/ Call(j, v, vap[v] # Absent, PutVap(v, UpdatedVap(e, vap[v])))
       \/ vap[v] # Absent /\ Keyed(e.auth) /\ AuthOf(vap[v].security) # e.auth /\ Raised(j)

\* A VAP is in use while a profile, or its quarantine interface, refers to it.
InUse(v) == vap[v].held \/ Users(v) # {}

PushNetworkDelete(j, v) ==
    /\ Turn(j, "push", "delete", v)
    /\ Call(j, v, vap[v] # Absent /\ ~InUse(v), PutVap(v, Absent))

\* Defect: a power limit that is not set is sent all the same.
PayloadBlindly(e, power) ==
    [band |-> BandOf[e.freq], power |-> e.power, channels |-> e.channels, objects |-> e.channels # {}]

\* _radio_payload, on a radio of that power: band and channels are always sent.
Payload(e, power) ==
    [band |-> BandOf[e.freq], power |-> IF e.power = Unset THEN power ELSE e.power,
     channels |-> e.channels, objects |-> e.channels # {}]

\* A partial PUT of one radio, which the profile may not have had.
PutRadio(r, e) ==
    PutProfile(r[1], [prof[r[1]] EXCEPT !.radio[r[2]] =
        Payload(e, IF @ = Absent THEN FactoryPower ELSE @.power)])

\* Defect: only radios that were there when the job loaded the device count.
SiblingsAtLoad(j, r) == {s \in Radios \ {r} : s[1] = r[1] /\ dst[j][s] # Absent}

\* The other radios of the profile in the target's store: those the device
\* had and those this push has created.
Siblings(j, r) ==
    {s \in Radios \ {r} :
        s[1] = r[1] /\ (dst[j][s] # Absent \/ (src[j][s] # Absent /\ s \notin todo[j].write))}

\* The profile with all the radios that Nautobot has of it.
PostedProfile(j, p) ==
    [mode |-> "FortiAP-tunnel-mode", uses |-> [v \in Vaps |-> 0],
     radio |-> [n \in Slots |-> IF src[j][<<p, n>>] = Absent THEN Absent
                                ELSE Payload(src[j][<<p, n>>], FactoryPower)]]

PushRadioCreate(j, r) ==
    /\ Turn(j, "push", "write", r)
    /\ dst[j][r] = Absent
    /\ IF Siblings(j, r) # {}
       THEN Call(j, r, prof[r[1]] # Absent, PutRadio(r, src[j][r]))
       ELSE Call(j, r, prof[r[1]] = Absent, PutProfile(r[1], PostedProfile(j, r[1])))

PushRadioUpdate(j, r) ==
    /\ Turn(j, "push", "write", r)
    /\ dst[j][r] # Absent
    /\ Call(j, r, prof[r[1]] # Absent, PutRadio(r, src[j][r]))

\* A single radio cannot be deleted: the device keeps it.
PushRadioDelete(j, r) ==
    /\ Turn(j, "push", "delete", r)
    /\ r \in Radios
    /\ UNCHANGED worldVars
    /\ Applied(j, r)

----------------------------------------------------------------------------
(* Operators.                                                              *)

Edited ==
    /\ edits < MaxEdits
    /\ edits' = edits + 1
    /\ touched' = Jobs
    /\ UNCHANGED <<phase, req, src, dst, todo, runs>>

VapEdit(v, record) == Edited /\ record # vap[v] /\ PutVap(v, record)
ProfileEdit(p, record) == Edited /\ record # prof[p] /\ PutProfile(p, record)
WtpEdit(s, name) ==
    /\ Edited
    /\ name # wtp[s]
    /\ wtp' = [wtp EXCEPT ![s] = name] /\ UNCHANGED <<vap, prof, rowVars>>
NetworkRowEdit(v, row) == Edited /\ row # vapRow[v] /\ PutVapRow(v, row)
RadioRowEdit(r, row) == Edited /\ row # radioRow[r] /\ PutRadioRow(r, row)
DeviceRowEdit(d, row) == Edited /\ row # apRow[d] /\ PutApRows([apRow EXCEPT ![d] = row])

Operators ==
    \/ \E e \in DeviceEdits :
          \/ e.key \in Vaps /\ VapEdit(e.key, e.record)
          \/ e.key \in Profiles /\ ProfileEdit(e.key, e.record)
          \/ e.key \in Serials /\ WtpEdit(e.key, e.record)
    \/ \E e \in RowEdits :
          \/ e.key \in Vaps /\ NetworkRowEdit(e.key, e.record)
          \/ e.key \in Radios /\ RadioRowEdit(e.key, e.record)
          \/ e.key \in Hosts /\ DeviceRowEdit(e.key, e.record)

Load(j) == LoadSource(j) \/ LoadTarget(j)

Pull(j) ==
    \/ \E v \in Vaps : PullNetworkCreate(j, v) \/ PullNetworkUpdate(j, v) \/ PullNetworkDelete(j, v)
    \/ \E r \in Radios : PullRadioCreate(j, r) \/ PullRadioUpdate(j, r) \/ PullRadioDelete(j, r)
    \/ \E s \in Serials \cup {Blank} : PullApCreate(j, s) \/ PullApUpdate(j, s) \/ PullApDelete(j, s)

Push(j) ==
    \/ \E v \in Vaps : PushNetworkCreate(j, v) \/ PushNetworkUpdate(j, v) \/ PushNetworkDelete(j, v)
    \/ \E r \in Radios : PushRadioCreate(j, r) \/ PushRadioUpdate(j, r) \/ PushRadioDelete(j, r)

Work(j) == Load(j) \/ ExecuteSync(j) \/ Pull(j) \/ Push(j) \/ Finish(j)

Next ==
    \/ \E j \in Jobs : Start(j) \/ Work(j) \/ Crash(j)
    \/ Operators

Spec == Init /\ [][Next]_vars

----------------------------------------------------------------------------
(* Properties.                                                             *)

IsStore(f) ==
    /\ f = [e \in Elements |-> f[e]]
    /\ \A v \in Vaps : f[v] \in Network \cup {Absent}
    /\ \A r \in Radios : f[r] \in RadioProfile \cup {Absent}
    /\ \A s \in Serials \cup {Blank} : f[s] \in ApNames \cup {Absent}

\* Every variable has its type; in particular no radio of the device is ever
\* without its power limits, whatever Nautobot has not set.
TypeOK ==
    /\ vap \in [Vaps -> Vap \cup {Absent}] /\ prof \in [Profiles -> Profile \cup {Absent}]
    /\ wtp \in [Serials -> ApNames \cup {Absent}]
    /\ vapRow \in [Vaps -> Network \cup {Absent}]
    /\ radioRow \in [Radios -> RadioProfile \cup {Absent}]
    /\ apRow \in [Hosts -> Ap \cup {Absent}]
    /\ phase \in [Jobs -> Idle \cup Running]
    /\ req \in [Jobs -> Requests]
    /\ src = [j \in Jobs |-> src[j]] /\ dst = [j \in Jobs |-> dst[j]]
    /\ \A j \in Jobs : IsStore(src[j]) /\ IsStore(dst[j])
    /\ todo \in [Jobs -> [write : SUBSET Elements, delete : SUBSET Elements]]
    /\ touched \subseteq Jobs /\ edits \in 0..MaxEdits /\ runs \in 0..MaxRuns

(***************************************************************************)
(* What holds of an undisturbed run on its way.                            *)
(***************************************************************************)
Applying == {"syncing", "done"}
Pending(j) == todo[j].write \cup todo[j].delete
Differs(j) ==
    Writes(src[j], dst[j]) \cup (IF req[j].delete THEN Deletes(src[j], dst[j]) ELSE {})
WorkedOff(j) == Differs(j) \ Pending(j)

\* What remains of the diff is part of the diff, and of kinds that top_level
\* does not name before what is already done.
PlanFollowsDiff(j) ==
    phase[j] \in Applying =>
        /\ todo[j].write \subseteq Writes(src[j], dst[j])
        /\ todo[j].delete \subseteq Deletes(src[j], dst[j])
        /\ ~req[j].delete => todo[j].delete = {}
        /\ \A e \in WorkedOff(j), f \in Pending(j) : KindOf(e) <= KindOf(f)
        /\ phase[j] = "done" => todo[j] = NoWork

\* A job does not write its source: what it has loaded is still there.
SourceIsCurrent(j) ==
    j \notin touched /\ phase[j] \in {"target", "loaded"} \cup Applying =>
        src[j] = Loaded(SourceKind(j), req[j].aps)

TargetIsCurrent(j) ==
    j \notin touched /\ phase[j] = "loaded" =>
        dst[j] = Loaded(TargetKind(j), req[j].aps)

\* An element reads as it was loaded until its turn has come, and then as the source.
Outcome(j, e) == IF e \in WorkedOff(j) THEN src[j][e] ELSE dst[j][e]
PullIsOnCourse(j) ==
    j \notin touched /\ phase[j] \in Applying /\ req[j].kind = "pull" =>
        \A e \in Elements : Loaded("rows", req[j].aps)[e] = Outcome(j, e)

\* Until its turn VAP v reads as it was loaded, up to the mode, which is that
\* of profiles the push may write; then it is as it was sent.
PushedVap(j, v) ==
    LET e == src[j][v]
        was == dst[j][v]
    IN
    IF v \notin WorkedOff(j)
    THEN /\ was = Absent <=> vap[v] = Absent
         /\ vap[v] # Absent =>
               /\ was.look = vap[v].look /\ was.auth = AuthOf(vap[v].security)
               /\ was.text = FgtNetwork(v).text
    ELSE IF e = Absent THEN vap[v] = Absent
    ELSE /\ vap[v] # Absent
         /\ vap[v].look = e.look /\ vap[v].comment = e.text
         /\ vap[v].security = AuthToFortios(e.auth)

\* What the device has of radio r once it was sent as e.
RadioIs(r, e) ==
    LET radio == prof[r[1]].radio[r[2]] IN
    /\ prof[r[1]] # Absent /\ radio # Absent
    /\ radio.band = BandOf[e.freq]
    /\ e.power # Unset => radio.power = e.power
    /\ radio.channels = e.channels /\ radio.objects = (e.channels # {})

\* Until its turn, and for ever if no row has it, radio r reads as it was
\* loaded; but a radio to be made may be there already, as one of a profile
\* that was posted for another of its radios.
PushedRadio(j, r) ==
    LET e == src[j][r]
        was == dst[j][r]
    IN
    IF r \in WorkedOff(j) /\ e # Absent THEN RadioIs(r, e)
    ELSE \/ was = Loaded("device", FALSE)[r]
         \/ /\ was = Absent /\ e # Absent /\ RadioIs(r, e)
            /\ \E s \in Radios \ {r} : s[1] = r[1] /\ s \in WorkedOff(j) /\ src[j][s] # Absent

PushIsOnCourse(j) ==
    j \notin touched /\ phase[j] \in Applying /\ req[j].kind = "push" =>
        /\ \A v \in Vaps : PushedVap(j, v)
        /\ \A r \in Radios : PushedRadio(j, r)

\* The inductive invariant.
SyncInvariant ==
    /\ TypeOK
    /\ \A j \in Jobs :
          /\ PlanFollowsDiff(j) /\ SourceIsCurrent(j) /\ TargetIsCurrent(j)
          /\ PullIsOnCourse(j) /\ PushIsOnCourse(j)

JobStep == edits' = edits
Undisturbed(j) == JobStep /\ todo'[j] # todo[j] /\ j \notin touched
Clean(j, kind) == phase[j] = "done" /\ j \notin touched /\ req[j].kind = kind

\* No platform mode serves the VAP on more radios than one that is called m.
IsMostCommon(v, m) ==
    IF Users(v) = {} THEN m = "Central"
    ELSE \E p \in Users(v) :
            NetworkMode(prof[p].mode) = m
            /\ \A q \in Users(v) : UsesOf(v, prof[q].mode) <= UsesOf(v, prof[p].mode)

\* After a clean pull every VAP, readable radio and, if asked for, access
\* point of the device has a row that says of it what the device does, with
\* the mode that most of a VAP's radios have, and of the channels only a plain
\* list.  A destructive pull leaves no other network or radio profile, and of
\* the Devices in its scope only those of the FortiGate's access points.
PullMirrorsWireless ==
    \A j \in Jobs : Clean(j, "pull") =>
        /\ \A v \in Vaps : vap[v] # Absent =>
              LET row == vapRow[v] IN
              /\ row # Absent
              /\ row.look = vap[v].look /\ row.auth = AuthOf(vap[v].security)
              /\ IsMostCommon(v, row.mode)
              /\ Strip(v, row.text) = FgtNetwork(v).text
        /\ \A r \in Radios : Readable(r) =>
              LET radio == prof[r[1]].radio[r[2]] IN
              radioRow[r] = [freq |-> Frequency(radio.band), power |-> radio.power,
                             channels |-> IF radio.objects THEN {} ELSE radio.channels]
        /\ req[j].aps => \A s \in Serials : wtp[s] # Absent =>
              apRow[s] = [name |-> wtp[s], scoped |-> TRUE]
        /\ req[j].delete =>
              /\ \A v \in Vaps : vap[v] = Absent => vapRow[v] = Absent
              /\ \A r \in Radios : ~Readable(r) => radioRow[r] = Absent
              /\ req[j].aps => \A d \in Hosts :
                    apRow[d] # Absent /\ apRow[d].scoped => d \in Serials /\ wtp[d] # Absent

Differing(a, b) == {f \in DOMAIN a : a[f] # b[f]}

\* After a clean push the device reads as Nautobot's rows do, but for this: an
\* SSID's mode, which is never sent; the comment of a VAP with a VLAN, to which
\* each read appends the VLAN again; limits that Nautobot has not set; and
\* channels, which the device has as sent and which do not read as numbers.
\* A destructive push leaves no VAP without a row, and every radio.
PushResidue ==
    \A j \in Jobs : Clean(j, "push") =>
        /\ \A v \in Vaps : vapRow[v] # Absent =>
              /\ vap[v] # Absent
              /\ Differing(FgtNetwork(v), RowNetwork(v))
                    \subseteq {"mode"} \cup (IF vap[v].vlan THEN {"text"} ELSE {})
        /\ \A r \in Radios : radioRow[r] # Absent =>
              LET differing == Differing(FgtRadio(r), radioRow[r]) IN
              /\ Readable(r)
              /\ "freq" \notin differing
              /\ "power" \in differing => radioRow[r].power = Unset
              /\ "channels" \in differing =>
                    radioRow[r].channels = prof[r[1]].radio[r[2]].channels
        /\ req[j].delete => \A v \in Vaps : vapRow[v] = Absent => vap[v] = Absent

\* Why a job that nobody disturbed can die.  A pull: there are two Devices of
\* its scope without a serial.  A push: an SSID needs a key that only the
\* device's administrator has; it is destructive and met a VAP in use, in
\* which case no radio was pushed; or a profile it took for missing has no
\* radio that can be read.
AbortsAreExplained ==
    \A j \in Jobs : phase[j] = "failed" /\ j \notin touched =>
        \/ req[j].kind = "pull" /\ req[j].aps /\ Cardinality(ScopedBlanks) > 1
        \/ /\ req[j].kind = "push"
           /\ \/ \E v \in todo[j].write \cap Vaps :
                    Keyed(src[j][v].auth)
                    /\ (vap[v] = Absent \/ AuthOf(vap[v].security) # src[j][v].auth)
              \/ \E v \in todo[j].delete \cap Vaps :
                    InUse(v) /\ Writes(src[j], dst[j]) \cap Radios \subseteq todo[j].write
              \/ \E r \in todo[j].write \cap Radios :
                    prof[r[1]] # Absent /\ \A n \in Slots : ~Readable(<<r[1], n>>)

\* What a push nobody disturbs may do to what the device has.  A VAP keeps its
\* VLAN, and its security stays in the class that Nautobot reads it as unless
\* the row was given another, however often a push rewrites it.  A profile
\* keeps its mode, the VAPs it serves and all radios but one.
PushKeepsUnsent ==
    [][\A j \in Jobs : Undisturbed(j) =>
          /\ \A v \in Vaps :
                vap[v] # Absent /\ vap'[v] # Absent /\ vap'[v] # vap[v] =>
                   /\ vap'[v].vlan = vap[v].vlan
                   /\ AuthOf(vap'[v].security) = vapRow[v].auth
                   /\ dst[j][v].auth = vapRow[v].auth =>
                         AuthOf(vap'[v].security) = AuthOf(vap[v].security)
          /\ \A p \in Profiles :
                prof[p] # Absent /\ prof'[p] # prof[p] =>
                   /\ prof'[p] # Absent
                   /\ prof'[p].mode = prof[p].mode /\ prof'[p].uses = prof[p].uses
                   /\ \E n \in Slots :
                         \A m \in Slots \ {n} : prof'[p].radio[m] = prof[p].radio[m]]_vars

\* What a pull nobody disturbs may do to Devices.  It removes one only if it
\* is destructive, and only one of its type, role and location that is not an
\* access point of the FortiGate, or one without a serial because another
\* such is in its scope.  It takes over only a Device with the serial of an
\* access point of the FortiGate.
PullKeepsDevices ==
    [][\A j \in Jobs, d \in Hosts :
          Undisturbed(j) /\ apRow[d] # Absent /\ apRow'[d] # apRow[d] =>
             IF apRow'[d] = Absent
             THEN /\ req[j].delete
                  /\ IF d \in Serials THEN apRow[d].scoped /\ wtp[d] = Absent
                     ELSE ScopedBlanks # {}
             ELSE d \in Serials /\ wtp[d] # Absent]_vars

\* What the comment in _radio_payload promises: a push that has no change of
\* channels to bring leaves the channels of the device's radio as they are.
PushKeepsChannels ==
    [][\A j \in Jobs, r \in Radios :
          /\ Undisturbed(j) /\ prof[r[1]] # Absent /\ prof'[r[1]] # prof[r[1]]
          /\ Readable(r) /\ src[j][r] # Absent /\ dst[j][r] # Absent
          /\ src[j][r].channels = dst[j][r].channels
          => prof'[r[1]].radio[r[2]].channels = prof[r[1]].radio[r[2]].channels]_vars
=============================================================================
