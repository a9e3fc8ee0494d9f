--------------------------- MODULE MCWirelessSync ---------------------------
(***************************************************************************)
(* Instances of WirelessSync for TLC: two SSIDs, two profiles of up to two *)
(* radios, two access points and two Devices without a serial.             *)
(***************************************************************************)
EXTENDS WirelessSync, TLC

CONSTANTS j1, j2, corp, guest, main, annex, fap1, fap2, rack, switch,
          look1, look2, low, high, c36, c40, n1, n2, t1, vlanMark, authMark

Order == <<main, annex>>
Marks == [vlan |-> vlanMark, auth |-> authMark]

Ssid(look, security, vlan, held) ==
    [look |-> look, security |-> security, comment |-> <<t1>>, vlan |-> vlan, held |-> held]
Radio(band, power, channels, objects) ==
    [band |-> band, power |-> power, channels |-> channels, objects |-> objects]
Prof(mode, inCorp, inGuest, r1, r2) ==
    [mode |-> mode, uses |-> [v \in Vaps |-> IF v = corp THEN inCorp ELSE inGuest],
     radio |-> [n \in Slots |-> IF n = 1 THEN r1 ELSE r2]]
NetRow(look, mode, auth, text) == [look |-> look, mode |-> mode, auth |-> auth, text |-> text]
RadRow(freq, power, channels) == [freq |-> freq, power |-> power, channels |-> channels]

PerVap(a, b) == [v \in Vaps |-> IF v = corp THEN a ELSE b]
PerProfile(a, b) == [p \in Profiles |-> IF p = main THEN a ELSE b]
PerSerial(a, b) == [s \in Serials |-> IF s = fap1 THEN a ELSE b]
PerRadio(a, b, c, d) ==
    [r \in Radios |-> IF r[1] = main THEN IF r[2] = 1 THEN a ELSE b ELSE IF r[2] = 1 THEN c ELSE d]
PerHost(a, b, c, d) ==
    [h \in Hosts |-> CASE h = fap1 -> a [] h = fap2 -> b [] h = rack -> c [] h = switch -> d]
Dev(name, scoped) == [name |-> name, scoped |-> scoped]

\* Nothing pulled yet: two profiles disagree about the mode of corp; a radio
\* is off, and guest has no profile; fap1 is kept elsewhere in Nautobot.
Fresh ==
    [vap |-> PerVap(Ssid(look1, "wpa-personal", TRUE, TRUE), Ssid(look1, "captive-portal", FALSE, FALSE)),
     prof |-> PerProfile(
        Prof("FortiAP-tunnel-mode", 1, 0, Radio("802.11ac", high, {c36, c40}, FALSE),
             Radio("disabled", low, {}, FALSE)),
        Prof("bridge-mode", 2, 0, Radio("802.11n", low, {c36}, TRUE), Absent)),
     wtp |-> PerSerial(n1, n2),
     vapRow |-> PerVap(Absent, Absent), radioRow |-> PerRadio(Absent, Absent, Absent, Absent),
     apRow |-> PerHost(Dev(n2, FALSE), Absent, Absent, Absent)]

\* Pulled, and edited in Nautobot since: SSIDs and a radio changed, a radio of
\* main made; the Device of an access point that is gone, and two without a serial.
Edits ==
    [Fresh EXCEPT
        !.wtp = PerSerial(n1, Absent),
        !.vapRow = PerVap(NetRow(look2, "Bridge", "personal", <<corp, t1, vlanMark>>),
                          NetRow(look1, "Central", "open", <<guest, t1, authMark>>)),
        !.radioRow = PerRadio(RadRow("5GHz", low, {c36, c40}), RadRow("2.4GHz", Unset, {c40}),
                              RadRow("2.4GHz", low, {}), Absent),
        !.apRow = PerHost(Dev(n2, TRUE), Dev(n2, TRUE), Dev(n1, TRUE), Dev(n1, FALSE))]

\* Made in Nautobot: annex is not on the device, main has no readable radio,
\* and guest is a WPA3 network there.
Ahead ==
    [vap |-> PerVap(Absent, Ssid(look1, "wpa3-personal", FALSE, TRUE)),
     prof |-> PerProfile(Prof("mesh", 0, 0, Absent, Radio("disabled", low, {}, FALSE)), Absent),
     wtp |-> PerSerial(n1, Absent),
     vapRow |-> PerVap(NetRow(look1, "Mesh", "open", <<t1>>), NetRow(look2, "Mesh", "personal3", <<guest>>)),
     radioRow |-> PerRadio(Absent, Absent, RadRow("5GHz", Unset, {c36}), RadRow("6GHz", high, {})),
     apRow |-> PerHost(Dev(n1, TRUE), Dev(n1, FALSE), Dev(n1, TRUE), Dev(n2, TRUE))]

Worlds == {Fresh, Edits, Ahead}

DeviceChanges ==
    {[key |-> guest, record |-> Absent], [key |-> annex, record |-> Absent],
     [key |-> main, record |-> Prof("FortiAP-local-mode", 1, 1, Radio("802.11ax", high, {c36}, TRUE), Absent)],
     [key |-> fap2, record |-> n1]}
RowChanges ==
    {[key |-> corp, record |-> NetRow(look1, "Central", "sae", <<corp, t1>>)],
     [key |-> guest, record |-> Absent],
     [key |-> <<main, 1>>, record |-> RadRow("6GHz", low, {})],
     [key |-> <<annex, 1>>, record |-> Absent],
     [key |-> fap2, record |-> Dev(n2, FALSE)], [key |-> rack, record |-> Dev(n2, TRUE)]}

\* A pull, an edit of the limits of a radio in Nautobot, and a push.
Pulled ==
    [Fresh EXCEPT !.radioRow = PerRadio(RadRow("5GHz", high, {c36, c40}), Absent,
                                        RadRow("2.4GHz", low, {}), Absent)]
AfterPull == {Pulled}
LimitEdit == {[key |-> <<annex, 1>>, record |-> RadRow("2.4GHz", high, {})]}

Workers == {j1, j2}
Symmetry == Permutations(Workers)
=============================================================================
