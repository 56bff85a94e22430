----------------------------- MODULE DevDBProof -----------------------------
(***************************************************************************)
(* Theorems about the device database: DevDB, what it knows and shows, and *)
(* DevDBFile, how it gets to the disk.                                     *)
(***************************************************************************)
EXTENDS DevDB, DevDBFile, SelectionProof

-----------------------------------------------------------------------------
(* Names and types.                                                        *)

LEMMA NamesNamed ==
  /\ NoName \in Names
  /\ \A k : /\ NameIn(HostName, k) \in Names /\ NameIn(MDNSName, k) \in Names
            /\ NameIn(Ethers, k) \in Names /\ NameIn(DNS, k) \in Names
  /\ Labels \subseteq Names
BY DEF NameIn, Names, Labels, Range

Vendors == {NoName} \cup Range(VendorOf)
LEMMA VendorsNamed == \A k : NameIn(VendorOf, k) \in Vendors
BY DEF NameIn, Vendors, Range

Types == {TypeUnknown} \cup {HostRules[i].type : i \in DOMAIN HostRules}
           \cup {VendorRules[i].type : i \in DOMAIN VendorRules}

LEMMA FirstTypes ==
  \A name : FirstType(HostRules, name) \in Types /\ FirstType(VendorRules, name) \in Types
<1> TAKE name
<1>1. ASSUME NEW rules, NEW n \in Nat, DOMAIN rules = 1 .. n
      PROVE  FirstType(rules, name) \in {TypeUnknown} \cup {rules[i].type : i \in DOMAIN rules}
  <2> DEFINE fitting == {i \in DOMAIN rules : Fits(rules[i], name)}
  <2>1. fitting \subseteq Nat
    BY <1>1
  <2>2. fitting # {} => Min(fitting) \in fitting
    <3> HIDE DEF fitting
    <3> QED BY <2>1, LeastIsIn
  <2> QED BY <2>2 DEF FirstType
<1>2. DOMAIN HostRules = 1 .. 21
  BY DEF HostRules
<1>3. DOMAIN VendorRules = 1 .. 11
  BY DEF VendorRules
<1>4. FirstType(HostRules, name) \in {TypeUnknown} \cup {HostRules[i].type : i \in DOMAIN HostRules}
  BY <1>1, <1>2
<1>5. FirstType(VendorRules, name)
        \in {TypeUnknown} \cup {VendorRules[i].type : i \in DOMAIN VendorRules}
  BY <1>1, <1>3
<1> QED BY <1>4, <1>5 DEF Types

LEMMA TypesNamed ==
  /\ TypeUnknown \in Types /\ "" \notin Types
  /\ \A host, vendor : InferDeviceType(host, vendor) \in Types
<1>1. \A i \in 1 .. 21 : HostRules[i].type # ""
  <2>1. \A i \in 1 .. 21 :
          i = 1 \/ i = 2 \/ i = 3 \/ i = 4 \/ i = 5 \/ i = 6 \/ i = 7 \/ i = 8 \/ i = 9
          \/ i = 10 \/ i = 11 \/ i = 12 \/ i = 13 \/ i = 14 \/ i = 15 \/ i = 16
          \/ i = 17 \/ i = 18 \/ i = 19 \/ i = 20 \/ i = 21
    OBVIOUS
  <2>2. /\ HostRules[1].type # "" /\ HostRules[2].type # "" /\ HostRules[3].type # ""
        /\ HostRules[4].type # "" /\ HostRules[5].type # "" /\ HostRules[6].type # ""
        /\ HostRules[7].type # "" /\ HostRules[8].type # "" /\ HostRules[9].type # ""
        /\ HostRules[10].type # "" /\ HostRules[11].type # ""
    BY DEF HostRules, Begins, Has
  <2>3. /\ HostRules[12].type # "" /\ HostRules[13].type # "" /\ HostRules[14].type # ""
        /\ HostRules[15].type # "" /\ HostRules[16].type # "" /\ HostRules[17].type # ""
        /\ HostRules[18].type # "" /\ HostRules[19].type # "" /\ HostRules[20].type # ""
        /\ HostRules[21].type # ""
    BY DEF HostRules, Begins, Has
  <2> QED BY <2>1, <2>2, <2>3
<1>2. \A i \in 1 .. 11 : VendorRules[i].type # ""
  <2>1. \A i \in 1 .. 11 :
          i = 1 \/ i = 2 \/ i = 3 \/ i = 4 \/ i = 5 \/ i = 6 \/ i = 7 \/ i = 8 \/ i = 9
          \/ i = 10 \/ i = 11
    OBVIOUS
  <2>2. /\ VendorRules[1].type # "" /\ VendorRules[2].type # "" /\ VendorRules[3].type # ""
        /\ VendorRules[4].type # "" /\ VendorRules[5].type # "" /\ VendorRules[6].type # ""
        /\ VendorRules[7].type # "" /\ VendorRules[8].type # "" /\ VendorRules[9].type # ""
        /\ VendorRules[10].type # "" /\ VendorRules[11].type # ""
    BY DEF VendorRules, Has
  <2> QED BY <2>1, <2>2
<1>3. DOMAIN HostRules = 1 .. 21
  BY DEF HostRules
<1>4. DOMAIN VendorRules = 1 .. 11
  BY DEF VendorRules
<1>5. TypeUnknown # ""
  BY DEF TypeUnknown
<1>6. TypeUnknown \in Types /\ "" \notin Types
  BY <1>1, <1>2, <1>3, <1>4, <1>5 DEF Types
<1>7. \A host, vendor : InferDeviceType(host, vendor) \in Types
  BY FirstTypes DEF InferDeviceType
<1> QED BY <1>6, <1>7

-----------------------------------------------------------------------------
(* Constants.                                                              *)

LEMMA Addresses ==
  /\ LanIPs \subseteq Nat \ {NoIP} /\ GatewayIP \in Nat /\ GatewayIP \notin LanIPs
  /\ IPs \subseteq 1 .. GatewayIP /\ NoIP \notin IPs /\ GatewayIP \in IPs /\ LanIPs \subseteq IPs
<1>1. LanIPs \subseteq Nat /\ LanIPs # {} /\ \A x \in LanIPs : x > 0
  BY LanAssumption DEF NoIP
<1>2. PICK b \in Nat : \A x \in LanIPs : x <= b
  BY <1>1, LanAssumption, FiniteIsBounded
<1>3. Max(LanIPs) \in LanIPs /\ \A x \in LanIPs : x <= Max(LanIPs)
  BY <1>1, <1>2, GreatestIsIn
<1>4. GatewayIP \in Nat /\ \A x \in LanIPs : x < GatewayIP
  <2> DEFINE m == Max(LanIPs)
  <2>1. m \in Nat /\ \A x \in LanIPs : x <= m
    BY <1>1, <1>3
  <2> HIDE DEF m
  <2>2. GatewayIP = m + 1
    BY DEF GatewayIP, m
  <2>3. \A x \in LanIPs : x \in Nat
    BY <1>1
  <2> QED BY <2>1, <2>2, <2>3
<1>5. GatewayIP \notin LanIPs
  BY <1>1, <1>4
<1>6. GatewayIP > 0
  <2>1. PICK x \in LanIPs : x > 0 /\ x \in Nat /\ x < GatewayIP
    BY <1>1, <1>4
  <2> QED BY <2>1, <1>4
<1>7. \A x \in LanIPs : x \in 1 .. GatewayIP /\ x \in Nat \ {0}
  BY <1>1, <1>4
<1>8. \A x \in IPs : x \in 1 .. GatewayIP
  BY <1>4, <1>6, <1>7 DEF IPs
<1> QED BY <1>4, <1>5, <1>7, <1>8 DEF IPs, NoIP

\* A sequence of the elements of a finite set, each once.
LEMMA InSequence ==
  ASSUME NEW S, IsFiniteSet(S)
  PROVE  /\ SetToSeq(S) \in Seq(S)
         /\ \A i, j \in DOMAIN SetToSeq(S) : i # j => SetToSeq(S)[i] # SetToSeq(S)[j]
<1>1. PICK n \in Nat : ExistsBijection(1 .. n, S)
  BY FS_NatBijection
<1>2. Cardinality(S) = n
  BY <1>1, FS_CountingElements
<1>3. PICK f : f \in Bijection(1 .. n, S)
  BY <1>1 DEF ExistsBijection
<1>4. f \in [1 .. Cardinality(S) -> S] /\ IsInjective(f)
  BY <1>2, <1>3 DEF Bijection, Injection
<1>5. SetToSeq(S) \in [1 .. Cardinality(S) -> S] /\ IsInjective(SetToSeq(S))
  BY <1>4 DEF SetToSeq
<1>6. SetToSeq(S) \in Seq(S)
  BY <1>2, <1>5, SeqDef
<1> QED BY <1>5, <1>6 DEF IsInjective

-----------------------------------------------------------------------------
(* What a scan reads: the ARP table and the leases.                        *)

\* What the proofs need of the network.
NetworkTyped == /\ arp \in [IPs -> Macs \cup {ZeroMAC, NoMAC}]
                /\ lease \in [LanIPs -> Clients \cup {NoMAC}]

Ifaces == {LanIface, "wan"}
Entries == {e \in [ip : 1 .. GatewayIP, mac : Macs \cup {ZeroMAC, NoMAC}, iface : Ifaces,
                   complete : BOOLEAN] :
              e.complete => e.ip \in IPs /\ e.mac \in Macs /\ e.mac = arp[e.ip]}

\* No address twice.
Distinct(t) == \A i, j \in DOMAIN t : i # j => t[i].ip # t[j].ip

LEMMA PickedDistinct ==
  ASSUME NEW S, NEW s \in Seq(S), NEW kept, Distinct(s)
  PROVE  Distinct(Picked(s, kept))
<1> DEFINE t == Picked(s, kept)
<1>1. PICK where : Where(s, kept, where, Len(s), t)
  BY PickedWhere
<1>2. DOMAIN t = 1 .. Len(t) /\ DOMAIN s = 1 .. Len(s) /\ Len(t) \in Nat /\ Len(s) \in Nat
  BY PickedType, LenProperties
<1> HIDE DEF t
<1>3. ASSUME NEW i \in DOMAIN t, NEW j \in DOMAIN t, i # j
      PROVE  t[i].ip # t[j].ip
  <2>1. where[i] \in DOMAIN s /\ where[j] \in DOMAIN s /\ where[i] # where[j]
    BY <1>1, <1>2, <1>3 DEF Where
  <2>2. t[i] = s[where[i]] /\ t[j] = s[where[j]]
    BY <1>1, <1>2 DEF Where
  <2> QED BY <2>1, <2>2 DEF Distinct
<1> QED BY <1>3 DEF Distinct, t

LEMMA TableRows ==
  ASSUME NetworkTyped
  PROVE  ARPTable \in Seq(Entries) /\ Distinct(ARPTable)
<1>1. GatewayIP \in Nat /\ IPs \subseteq 1 .. GatewayIP
  BY Addresses
<1>2. ASSUME NEW i \in 1 .. GatewayIP
      PROVE  Table[i] \in Entries /\ Table[i].ip = i
  <2>1. Table[i] = [ip |-> i, mac |-> IF i \in IPs THEN arp[i] ELSE NoMAC,
                    iface |-> IF i = GatewayIP THEN "wan" ELSE LanIface,
                    complete |-> i \in IPs /\ arp[i] \in Macs]
    BY DEF Table
  <2>2. i \in IPs => arp[i] \in Macs \cup {ZeroMAC, NoMAC}
    BY DEF NetworkTyped
  <2>3. Table[i].iface \in Ifaces
    BY <2>1 DEF Ifaces
  <2>4. Table[i].mac \in Macs \cup {ZeroMAC, NoMAC}
    BY <2>1, <2>2
  <2>5. Table[i] \in [ip : 1 .. GatewayIP, mac : Macs \cup {ZeroMAC, NoMAC}, iface : Ifaces,
                      complete : BOOLEAN]
    BY <2>1, <2>3, <2>4
  <2>6. Table[i].complete => i \in IPs /\ Table[i].mac = arp[i] /\ arp[i] \in Macs
    <3>1. Table[i].complete = (i \in IPs /\ arp[i] \in Macs)
      BY <2>1
    <3>2. Table[i].mac = IF i \in IPs THEN arp[i] ELSE NoMAC
      BY <2>1
    <3> QED BY <3>1, <3>2
  <2> QED BY <2>1, <2>5, <2>6 DEF Entries
<1>3. Table \in Seq(Entries) /\ DOMAIN Table = 1 .. GatewayIP
  <2>1. Table \in [1 .. GatewayIP -> Entries]
    BY <1>2 DEF Table
  <2> QED BY <1>1, <2>1, SeqDef
<1>4. Distinct(Table)
  BY <1>2, <1>3 DEF Distinct
<1> QED BY <1>3, <1>4, PickedType, PickedDistinct DEF ARPTable

\* The entries a scan lists are complete, and no two have an address in common.
LEMMA Parsed ==
  ASSUME NetworkTyped, NEW iface
  PROVE  LET t == parseARP(ARPTable, iface)
         IN t \in Seq(Entries) /\ Distinct(t) /\ \A i \in DOMAIN t : t[i].complete
<1> DEFINE s == ARPTable
           kept == {i \in DOMAIN s : s[i].complete /\ (iface = NoIface \/ s[i].iface = iface)}
           t == Picked(s, kept)
<1>1. s \in Seq(Entries) /\ Distinct(s)
  BY TableRows
<1>2. \A i \in kept : s[i].complete
  OBVIOUS
<1> HIDE DEF s, kept
<1>3. t \in Seq(Entries) /\ Distinct(t)
  BY <1>1, PickedType, PickedDistinct
<1>4. PICK where : Where(s, kept, where, Len(s), t)
  BY <1>1, PickedWhere
<1>5. DOMAIN t = 1 .. Len(t)
  BY <1>3, LenProperties
<1>6. \A i \in DOMAIN t : t[i].complete
  <2> HIDE DEF t
  <2> QED BY <1>2, <1>4, <1>5 DEF Where
<1> QED BY <1>3, <1>6 DEF parseARP, s, kept

LEMMA ReadRows ==
  ASSUME NetworkTyped
  PROVE  LET t == readARP(ARPTable, LanIface)
         IN t \in Seq(Entries) /\ Distinct(t) /\ \A i \in DOMAIN t : t[i].complete
BY Parsed DEF readARP

Leased(ip) == [mac |-> lease[ip], ip |-> ip, host |-> NameIn(HostName, lease[ip])]
LeaseRows == {Leased(ip) : ip \in {k \in LanIPs : lease[k] # NoMAC}}

LEMMA LeasesRead == Leases \in Seq(LeaseRows) /\ Distinct(Leases)
<1> DEFINE H == {ip \in LanIPs : lease[ip] # NoMAC}
           held == SetToSeq(H)
<1>1. IsFiniteSet(H)
  BY LanAssumption, FS_Subset
<1>2. held \in Seq(H) /\ \A i, j \in DOMAIN held : i # j => held[i] # held[j]
  <2> HIDE DEF H
  <2> QED BY <1>1, InSequence
<1>3. Leases = [i \in DOMAIN held |-> Leased(held[i])]
  BY DEF Leases, Leased
<1> HIDE DEF held
<1>4. DOMAIN held = 1 .. Len(held) /\ Len(held) \in Nat /\ \A i \in DOMAIN held : held[i] \in H
  BY <1>2, LenProperties, ElementOfSeq
<1>5. Leases \in [1 .. Len(held) -> LeaseRows]
  BY <1>3, <1>4 DEF LeaseRows
<1>6. Leases \in Seq(LeaseRows) /\ DOMAIN Leases = DOMAIN held
  BY <1>4, <1>5, SeqDef
<1>7. \A i \in DOMAIN held : Leases[i].ip = held[i]
  BY <1>3 DEF Leased
<1> QED BY <1>2, <1>6, <1>7 DEF Distinct

\* What a lease calls a device is what the device calls itself.
LEMMA LeaseNames ==
  \A mac : LeaseHost(mac, Leases) \in {NoName, NameIn(HostName, mac)}
<1> TAKE mac
<1> DEFINE at == {i \in DOMAIN Leases : Leases[i].mac = mac}
<1>1. DOMAIN Leases = 1 .. Len(Leases) /\ Len(Leases) \in Nat
  BY LeasesRead, LenProperties
<1>2. at \subseteq Nat /\ \A x \in at : x <= Len(Leases)
  BY <1>1
<1>3. CASE at = {}
  BY <1>3 DEF LeaseHost
<1>4. CASE at # {}
  <2>1. Max(at) \in at
    <3> HIDE DEF at
    <3> QED BY <1>1, <1>2, <1>4, GreatestIsIn
  <2>2. LeaseHost(mac, Leases) = Leases[Max(at)].host
    BY <1>4 DEF LeaseHost
  <2> DEFINE k == Max(at)
  <2>3. k \in 1 .. Len(Leases) /\ Leases[k].mac = mac
    BY <1>1, <2>1
  <2> HIDE DEF k
  <2>4. Leases[k] \in LeaseRows
    BY <2>3, LeasesRead, ElementOfSeq
  <2>5. Leases[k].host = NameIn(HostName, mac)
    BY <2>3, <2>4 DEF LeaseRows, Leased
  <2> QED BY <2>2, <2>5 DEF k
<1> QED BY <1>3, <1>4

\* The leases of devices that the ARP table does not have.
LEMMA RestRead ==
  ASSUME NEW t
  PROVE  LET r == Rest(t, Leases)
         IN /\ r \in Seq(LeaseRows) /\ Distinct(r)
            /\ \A i \in DOMAIN r, j \in DOMAIN t : t[j].mac # r[i].mac
<1> DEFINE s == Leases
           kept == {j \in DOMAIN s : \A i \in DOMAIN t : t[i].mac # s[j].mac}
           r == Picked(s, kept)
<1>1. s \in Seq(LeaseRows) /\ Distinct(s)
  BY LeasesRead
<1>2. \A i \in kept : \A j \in DOMAIN t : t[j].mac # s[i].mac
  OBVIOUS
<1> HIDE DEF s, kept
<1>3. r \in Seq(LeaseRows) /\ Distinct(r)
  BY <1>1, PickedType, PickedDistinct
<1>4. PICK where : Where(s, kept, where, Len(s), r)
  BY <1>1, PickedWhere
<1>5. DOMAIN r = 1 .. Len(r)
  BY <1>3, LenProperties
<1> HIDE DEF r
<1>6. \A i \in DOMAIN r : where[i] \in kept \cap DOMAIN s /\ r[i] = s[where[i]]
  BY <1>4, <1>5 DEF Where
<1>8. \A i \in DOMAIN r, j \in DOMAIN t : t[j].mac # r[i].mac
  BY <1>2, <1>6
<1>9. Rest(t, Leases) = r
  BY DEF Rest, r, s, kept
<1> QED BY <1>3, <1>8, <1>9 DEF r

-----------------------------------------------------------------------------
(* What a scan makes of it.                                                *)

Row == [ip : IPs, mac : Macs, iface : Ifaces \cup {NoIface}, host : Names, vendor : Vendors,
        type : Types, note : {NoNote}]

\* Where the name in a row comes from.
OwnName(d, dns) ==
  d.host \in {NoName, NameIn(HostName, d.mac), NameIn(Ethers, d.mac), NameIn(mdns, d.ip),
              NameIn(dns, d.ip)}

\* Why a row has its address.
HasAddress(d) == \/ arp[d.ip] = d.mac
                 \/ d.ip \in LanIPs /\ lease[d.ip] = d.mac

CacheTyped == \A ip : NameIn(mdns, ip) \in Names

\* The device a row begins with.
Bare == {NewDevice(ip, mac, iface, host) : ip \in IPs, mac \in Macs,
                                           iface \in Ifaces \cup {NoIface}, host \in Names}
LEMMA BareMade ==
  ASSUME NEW ip \in IPs, NEW mac \in Macs, NEW iface \in Ifaces \cup {NoIface}, NEW host \in Names
  PROVE  NewDevice(ip, mac, iface, host) \in Bare
BY DEF Bare

BareName(d) == d.host \in {NoName, NameIn(HostName, d.mac), NameIn(Ethers, d.mac)}
Finished(d, dns) == LET i == Inferred(d, VendorOf) IN Renamed(i, EnrichedName(i, mdns, dns))

LEMMA RowMade ==
  ASSUME CacheTyped, NEW d \in Bare, BareName(d), NEW dns, \A ip : NameIn(dns, ip) \in Names
  PROVE  LET r == Finished(d, dns)
         IN /\ r \in Row /\ r.ip = d.ip /\ r.mac = d.mac /\ r.iface = d.iface
            /\ OwnName(r, dns)
<1> DEFINE v == NameIn(VendorOf, d.mac)
           i == Inferred(d, VendorOf)
           name == EnrichedName(i, mdns, dns)
           r == Renamed(i, name)
<1>1. d \in [ip : IPs, mac : Macs, iface : Ifaces \cup {NoIface}, host : Names,
             vendor : {NoName}, type : {TypeUnknown}, note : {NoNote}]
  BY DEF Bare, NewDevice
<1>2. v \in Vendors /\ InferDeviceType(d.host, v) \in Types
  BY VendorsNamed, TypesNamed
<1>3. i = [d EXCEPT !.vendor = v, !.type = InferDeviceType(d.host, v)]
  BY DEF Inferred
<1>4. i \in Row /\ i.ip = d.ip /\ i.mac = d.mac /\ i.iface = d.iface /\ i.host = d.host
  BY <1>1, <1>2, <1>3 DEF Row
<1> HIDE DEF v, i
<1>5. name \in Names /\ name \in {i.host, NameIn(mdns, i.ip), NameIn(dns, i.ip)}
  <2>1. NameIn(mdns, i.ip) # NoName => mdns[i.ip] = NameIn(mdns, i.ip)
    BY DEF NameIn
  <2>2. i.host \in Names /\ NameIn(mdns, i.ip) \in Names /\ NameIn(dns, i.ip) \in Names
    BY <1>4 DEF CacheTyped, Row
  <2> QED BY <2>1, <2>2 DEF EnrichedName
<1> HIDE DEF name
<1>6. InferDeviceType(name, i.vendor) \in Types
  BY TypesNamed
<1>7. r \in Row /\ r.ip = i.ip /\ r.mac = i.mac /\ r.iface = i.iface /\ r.host = name
  BY <1>4, <1>5, <1>6 DEF Renamed, Row
<1> HIDE DEF r
<1>8. OwnName(r, dns)
  BY <1>4, <1>5, <1>7 DEF OwnName, BareName
<1> QED BY <1>4, <1>7, <1>8 DEF Finished, r, name, i

\* What a scan lists.
Scanned(list, dns) ==
  /\ list \in Seq(Row)
  /\ \A i \in DOMAIN list : OwnName(list[i], dns) /\ HasAddress(list[i])
  /\ \A i, j \in DOMAIN list :
       i # j /\ list[i].mac = list[j].mac =>
         list[i].ip # list[j].ip /\ (list[i].iface = NoIface <=> list[j].iface = NoIface)

LEMMA KnownRows ==
  ASSUME NetworkTyped, NEW e \in Entries, e.complete
  PROVE  LET d == NewDevice(e.ip, e.mac, e.iface,
                            HostOf(e.mac, LeaseHost(e.mac, Leases), Ethers))
         IN /\ d \in Bare /\ BareName(d) /\ HasAddress(d) /\ d.mac = e.mac /\ d.ip = e.ip
            /\ d.iface # NoIface
<1> DEFINE host == HostOf(e.mac, LeaseHost(e.mac, Leases), Ethers)
           d == NewDevice(e.ip, e.mac, e.iface, host)
<1>1. /\ e.ip \in IPs /\ e.mac \in Macs /\ e.mac = arp[e.ip] /\ e.iface \in Ifaces
  BY DEF Entries
<1>2. host \in {NoName, NameIn(HostName, e.mac), NameIn(Ethers, e.mac)}
  BY LeaseNames DEF HostOf, NameIn
<1>3. host \in Names
  BY <1>2, NamesNamed
<1> HIDE DEF host
<1>4. d.mac = e.mac /\ d.ip = e.ip /\ d.iface = e.iface /\ d.host = host
  BY DEF NewDevice
<1>a. e.iface # NoIface
  BY <1>1, LanAssumption DEF Ifaces, NoIface
<1>5. d \in Bare
  BY <1>1, <1>3, BareMade
<1> HIDE DEF d
<1> QED BY <1>1, <1>2, <1>4, <1>5, <1>a DEF BareName, HasAddress, d, host

LEMMA RestRows ==
  ASSUME NetworkTyped, NEW e \in LeaseRows
  PROVE  LET d == NewDevice(e.ip, e.mac, NoIface, HostOf(e.mac, e.host, Ethers))
         IN /\ d \in Bare /\ BareName(d) /\ HasAddress(d) /\ d.mac = e.mac /\ d.ip = e.ip
            /\ d.iface = NoIface
<1> DEFINE host == HostOf(e.mac, e.host, Ethers)
           d == NewDevice(e.ip, e.mac, NoIface, host)
<1>1. PICK ip \in LanIPs : e = Leased(ip) /\ lease[ip] # NoMAC
  BY DEF LeaseRows
<1>2. e.mac = lease[ip] /\ e.ip = ip /\ e.host = NameIn(HostName, e.mac)
  BY <1>1 DEF Leased
<1>3. e.ip \in IPs /\ e.mac \in Macs
  BY <1>1, <1>2, Addresses DEF NetworkTyped, Macs
<1>4. host \in {NoName, NameIn(HostName, e.mac), NameIn(Ethers, e.mac)}
  BY <1>2 DEF HostOf, NameIn
<1>5. host \in Names
  BY <1>4, NamesNamed
<1> HIDE DEF host
<1>6. d.mac = e.mac /\ d.ip = e.ip /\ d.iface = NoIface /\ d.host = host
  BY DEF NewDevice
<1>b. NoIface \in Ifaces \cup {NoIface}
  OBVIOUS
<1>7. d \in Bare
  BY <1>3, <1>5, <1>b, BareMade
<1> HIDE DEF d
<1>a. d.mac = lease[ip] /\ d.ip = ip /\ d.host \in {NoName, NameIn(HostName, d.mac), NameIn(Ethers, d.mac)}
  BY <1>2, <1>4, <1>6
<1>8. BareName(d) /\ HasAddress(d)
  BY <1>a DEF BareName, HasAddress
<1>9. d.mac = e.mac /\ d.ip = e.ip /\ d.iface = NoIface
  BY <1>6
<1> QED BY <1>7, <1>8, <1>9 DEF d, host

LEMMA ScanReads ==
  ASSUME NetworkTyped, CacheTyped, NEW dns, \A ip : NameIn(dns, ip) \in Names
  PROVE  Scanned(ReadDevices(dns), dns)
<1> DEFINE t == readARP(ARPTable, LanIface)
           rest == Rest(t, Leases)
           known == [i \in DOMAIN t |->
                       NewDevice(t[i].ip, t[i].mac, t[i].iface,
                                 HostOf(t[i].mac, LeaseHost(t[i].mac, Leases), Ethers))]
           leased == [i \in DOMAIN rest |->
                        NewDevice(rest[i].ip, rest[i].mac, NoIface,
                                  HostOf(rest[i].mac, rest[i].host, Ethers))]
           all == known \o leased
           list == [i \in DOMAIN all |-> Finished(all[i], dns)]
<1>1. ReadDevices(dns) = list
  BY DEF ReadDevices, mergeDevices, Finished
<1>2. /\ t \in Seq(Entries) /\ Distinct(t) /\ \A i \in DOMAIN t : t[i].complete
  BY ReadRows
<1>3. /\ rest \in Seq(LeaseRows) /\ Distinct(rest)
      /\ \A i \in DOMAIN rest, j \in DOMAIN t : t[j].mac # rest[i].mac
  BY RestRead
<1> HIDE DEF t, rest
<1>4. /\ DOMAIN t = 1 .. Len(t) /\ Len(t) \in Nat /\ \A i \in DOMAIN t : t[i] \in Entries
      /\ DOMAIN rest = 1 .. Len(rest) /\ Len(rest) \in Nat
      /\ \A i \in DOMAIN rest : rest[i] \in LeaseRows
  BY <1>2, <1>3, LenProperties, ElementOfSeq
<1> DEFINE Good(d) == d \in Bare /\ BareName(d) /\ HasAddress(d)
<1>5. \A i \in DOMAIN t :
        /\ Good(known[i]) /\ known[i].mac = t[i].mac /\ known[i].ip = t[i].ip
        /\ known[i].iface # NoIface
  BY <1>2, <1>4, KnownRows
<1>6. \A i \in DOMAIN rest :
        /\ Good(leased[i]) /\ leased[i].mac = rest[i].mac /\ leased[i].ip = rest[i].ip
        /\ leased[i].iface = NoIface
  BY <1>3, <1>4, RestRows
<1>7. DOMAIN known = DOMAIN t /\ DOMAIN leased = DOMAIN rest
  OBVIOUS
<1> HIDE DEF known, leased
<1>8. known \in Seq(Bare) /\ Len(known) = Len(t) /\ leased \in Seq(Bare) /\ Len(leased) = Len(rest)
  <2>1. known \in [1 .. Len(t) -> Bare] /\ leased \in [1 .. Len(rest) -> Bare]
    BY <1>4, <1>5, <1>6, <1>7 DEF known, leased
  <2>2. known \in Seq(Bare) /\ leased \in Seq(Bare)
    BY <1>4, <2>1, SeqDef
  <2> QED BY <1>4, <1>7, <2>2, LenProperties
<1>9. /\ all \in Seq(Bare) /\ Len(all) = Len(t) + Len(rest)
      /\ DOMAIN all = 1 .. Len(t) + Len(rest)
      /\ \A i \in 1 .. Len(t) + Len(rest) :
           all[i] = IF i <= Len(t) THEN known[i] ELSE leased[i - Len(t)]
  <2>1. /\ known \o leased \in Seq(Bare)
        /\ Len(known \o leased) = Len(known) + Len(leased)
        /\ \A i \in 1 .. Len(known) + Len(leased) :
             (known \o leased)[i] = IF i <= Len(known) THEN known[i] ELSE leased[i - Len(known)]
    BY <1>8, ConcatProperties
  <2> HIDE DEF all
  <2>2. all \in Seq(Bare)
    BY <2>1 DEF all
  <2>3. DOMAIN all = 1 .. Len(all)
    BY <2>2, LenProperties
  <2>4. Len(all) = Len(t) + Len(rest)
    BY <1>8, <2>1 DEF all
  <2>5. \A i \in 1 .. Len(t) + Len(rest) :
          all[i] = IF i <= Len(t) THEN known[i] ELSE leased[i - Len(t)]
    BY <1>8, <2>1 DEF all
  <2> QED BY <2>2, <2>3, <2>4, <2>5
<1> HIDE DEF all
\* Which part a row comes from.
<1>10. ASSUME NEW i \in DOMAIN all
       PROVE  \/ i \in DOMAIN t /\ all[i] = known[i]
              \/ i > Len(t) /\ i - Len(t) \in DOMAIN rest /\ all[i] = leased[i - Len(t)]
  <2>1. i \in 1 .. Len(t) + Len(rest)
    BY <1>9
  <2>2. CASE i <= Len(t)
    BY <1>4, <1>9, <2>1, <2>2
  <2>3. CASE ~(i <= Len(t))
    BY <1>4, <1>9, <2>1, <2>3
  <2> QED BY <2>2, <2>3
<1>11. \A i \in DOMAIN all : Good(all[i])
  BY <1>5, <1>6, <1>10
<1>12. \A i \in DOMAIN all : LET r == list[i]
                             IN /\ r \in Row /\ r.ip = all[i].ip /\ r.mac = all[i].mac
                                /\ r.iface = all[i].iface /\ OwnName(r, dns)
  BY <1>11, RowMade
<1>13. ASSUME NEW i \in DOMAIN all, NEW j \in DOMAIN all, i # j, all[i].mac = all[j].mac
       PROVE  all[i].ip # all[j].ip /\ (all[i].iface = NoIface <=> all[j].iface = NoIface)
  <2>1. CASE i \in DOMAIN t /\ all[i] = known[i]
    <3>1. CASE j \in DOMAIN t /\ all[j] = known[j]
      BY <1>2, <1>5, <1>13, <2>1, <3>1 DEF Distinct
    <3>2. CASE j > Len(t) /\ j - Len(t) \in DOMAIN rest /\ all[j] = leased[j - Len(t)]
      BY <1>3, <1>5, <1>6, <1>13, <2>1, <3>2
    <3> QED BY <1>10, <3>1, <3>2
  <2>2. CASE i > Len(t) /\ i - Len(t) \in DOMAIN rest /\ all[i] = leased[i - Len(t)]
    <3>1. CASE j \in DOMAIN t /\ all[j] = known[j]
      BY <1>3, <1>5, <1>6, <1>13, <2>2, <3>1
    <3>2. CASE j > Len(t) /\ j - Len(t) \in DOMAIN rest /\ all[j] = leased[j - Len(t)]
      <4>1. i - Len(t) # j - Len(t)
        BY <1>4, <1>9, <1>13
      <4> QED BY <1>3, <1>6, <2>2, <3>2, <4>1 DEF Distinct
    <3> QED BY <1>10, <3>1, <3>2
  <2> QED BY <1>10, <2>1, <2>2
<1>14. DOMAIN list = DOMAIN all /\ list \in Seq(Row)
  <2>1. list \in [1 .. Len(t) + Len(rest) -> Row]
    BY <1>9, <1>12
  <2> QED BY <1>4, <1>9, <2>1, SeqDef
<1> HIDE DEF list
<1>15. \A i \in DOMAIN list : HasAddress(list[i])
  BY <1>11, <1>12, <1>14 DEF HasAddress
<1>16. Scanned(list, dns)
  BY <1>12, <1>13, <1>14, <1>15 DEF Scanned
<1> QED BY <1>1, <1>16

-----------------------------------------------------------------------------
(* What the database makes of a list.                                      *)

Recs == [known : BOOLEAN, host : Names, vendor : Vendors,
         type : (Types \ {TypeUnknown}) \cup {""}, note : Notes \cup {NoNote},
         lastIP : IPs \cup {NoIP}]

\* What the first n rows of a list have done to the record of m.
Grown(m, old, list, n, r) ==
  /\ r.note = old.note
  /\ old.known => r.known
  /\ old.host.len <= r.host.len
  /\ old.type # "" => r.type # ""
  /\ \A i \in 1 .. n : list[i].mac = m => /\ r.known
                                          /\ list[i].host.len <= r.host.len
                                          /\ list[i].type # TypeUnknown => r.type # ""
  /\ \/ r = old /\ \A i \in 1 .. n : list[i].mac # m
     \/ \E i \in 1 .. n : list[i].mac = m /\ r.lastIP = list[i].ip
  /\ \/ r.host = old.host
     \/ \E i \in 1 .. n : list[i].mac = m /\ r.host = list[i].host

LEMMA NumbersOfNames == \A name \in Names : name.len \in Nat
BY LanAssumption

LEMMA Ordered ==
  /\ \A a \in Nat : a <= a
  /\ \A a, b \in Nat : a > b => b <= a
  /\ \A a, b \in Nat : ~(a > b) => a <= b
OBVIOUS

LEMMA NoShorter ==
  ASSUME NEW a \in Names, NEW b \in Names, NEW c \in Names, a.len <= b.len, b.len <= c.len
  PROVE  a.len <= c.len
BY NumbersOfNames

LEMMA UpsertOnce ==
  ASSUME NEW r \in Recs, NEW d \in Row
  PROVE  LET u == Upsert(r, d)
         IN /\ u \in Recs /\ u.known /\ u.note = r.note /\ u.lastIP = d.ip
            /\ u.host \in {r.host, d.host}
            /\ r.host.len <= u.host.len /\ d.host.len <= u.host.len
            /\ r.type # "" => u.type # ""
            /\ d.type # TypeUnknown => u.type # ""
<1> DEFINE host == IF d.host.len > r.host.len THEN d.host ELSE r.host
           vendor == IF r.vendor = NoName THEN d.vendor ELSE r.vendor
           type == IF r.type = "" /\ d.type # TypeUnknown THEN d.type ELSE r.type
           u == [r EXCEPT !.known = TRUE, !.lastIP = d.ip, !.host = host, !.vendor = vendor,
                          !.type = type]
<1>1. Upsert(r, d) = u
  BY DEF Upsert
<1>2. /\ r.host \in Names /\ d.host \in Names /\ r.host.len \in Nat /\ d.host.len \in Nat
      /\ r.vendor \in Vendors /\ d.vendor \in Vendors /\ d.type \in Types
      /\ r.type \in (Types \ {TypeUnknown}) \cup {""} /\ d.ip \in IPs
  BY NumbersOfNames DEF Recs, Row
<1>3. /\ host \in Names /\ host \in {r.host, d.host}
      /\ r.host.len <= host.len /\ d.host.len <= host.len
  <2>1. CASE d.host.len > r.host.len
    <3>1. host = d.host
      BY <2>1
    <3>2. r.host.len <= d.host.len /\ d.host.len <= d.host.len
      BY <1>2, <2>1, Ordered, Zenon
    <3> HIDE DEF host
    <3> QED BY <1>2, <3>1, <3>2
  <2>2. CASE ~(d.host.len > r.host.len)
    <3>1. host = r.host
      BY <2>2
    <3>2. d.host.len <= r.host.len /\ r.host.len <= r.host.len
      BY <1>2, <2>2, Ordered, Zenon
    <3> HIDE DEF host
    <3> QED BY <1>2, <3>1, <3>2
  <2> QED BY <2>1, <2>2
<1>4. vendor \in Vendors
  BY <1>2
<1>5. /\ type \in (Types \ {TypeUnknown}) \cup {""}
      /\ r.type # "" => type # ""
      /\ d.type # TypeUnknown => type # ""
  BY <1>2, TypesNamed
<1> HIDE DEF host, vendor, type
<1>6. u \in Recs
  BY <1>2, <1>3, <1>4, <1>5 DEF Recs
<1>7. u.known /\ u.note = r.note /\ u.lastIP = d.ip /\ u.host = host /\ u.type = type
  BY DEF Recs
<1> HIDE DEF u
<1> QED BY <1>1, <1>3, <1>5, <1>6, <1>7

LEMMA UpsertLoop ==
  ASSUME recs \in [Macs -> Recs], NEW list \in Seq(Row)
  PROVE  \E after \in [0 .. Len(list) -> [Macs -> Recs]] :
           /\ UpsertDevices(list) = after[Len(list)]
           /\ after[0] = recs
           /\ \A n \in 1 .. Len(list) :
                after[n] = [after[n - 1] EXCEPT
                              ![list[n].mac] = Upsert(after[n - 1][list[n].mac], list[n])]
<1> DEFINE F == [Macs -> Recs]
           step == [p \in (1 .. Len(list)) \X F |->
                      [p[2] EXCEPT ![list[p[1]].mac] = Upsert(p[2][list[p[1]].mac], list[p[1]])]]
           Body(g) == [n \in 0 .. Len(list) |->
                         IF n = 0 THEN recs
                         ELSE [g[n - 1] EXCEPT
                                 ![list[n].mac] = Upsert(g[n - 1][list[n].mac], list[n])]]
           after == CHOOSE g : g = Body(g)
<1>1. Len(list) \in Nat /\ \A n \in 1 .. Len(list) : list[n] \in Row /\ list[n].mac \in Macs
  <2>1. Len(list) \in Nat
    BY LenProperties
  <2>2. \A n \in 1 .. Len(list) : list[n] \in Row
    BY ElementOfSeq
  <2>3. \A d \in Row : d.mac \in Macs
    BY DEF Row
  <2> QED BY <2>1, <2>2, <2>3
<1>2. ASSUME NEW n \in 1 .. Len(list), NEW f \in F
      PROVE  /\ step[<<n, f>>] = [f EXCEPT ![list[n].mac] = Upsert(f[list[n].mac], list[n])]
             /\ step[<<n, f>>] \in F
  <2>1. step[<<n, f>>] = [f EXCEPT ![list[n].mac] = Upsert(f[list[n].mac], list[n])]
    OBVIOUS
  <2>2. Upsert(f[list[n].mac], list[n]) \in Recs
    BY <1>1, UpsertOnce
  <2> HIDE DEF step
  <2> QED BY <1>1, <2>1, <2>2
<1> HIDE DEF step
<1>3. \E g : ByRecursion(g, F, Len(list), recs, step)
  <2>1. Steps(F, Len(list), step)
    BY <1>2 DEF Steps
  <2>2. recs \in F
    OBVIOUS
  <2> HIDE DEF F
  <2> QED BY <1>1, <2>1, <2>2, Recursion
<1>4. PICK g : ByRecursion(g, F, Len(list), recs, step)
  BY <1>3
<1>5. g = Body(g)
  <2>1. ASSUME NEW n \in 0 .. Len(list) PROVE g[n] = Body(g)[n]
    <3>1. CASE n = 0
      BY <1>4, <3>1 DEF ByRecursion
    <3>2. CASE n # 0
      <4>1. n \in 1 .. Len(list) /\ n - 1 \in 0 .. Len(list)
        BY <1>1, <3>2
      <4>2. g[n - 1] \in F
        BY <1>4, <4>1 DEF ByRecursion
      <4>3. g[n] = step[<<n, g[n - 1]>>]
        BY <1>4, <4>1 DEF ByRecursion
      <4>4. g[n] = [g[n - 1] EXCEPT
                      ![list[n].mac] = Upsert(g[n - 1][list[n].mac], list[n])]
        BY <1>2, <4>1, <4>2, <4>3
      <4> QED BY <3>2, <4>4
    <3> QED BY <3>1, <3>2
  <2>2. g = [n \in 0 .. Len(list) |-> g[n]]
    BY <1>4 DEF ByRecursion
  <2>3. Body(g) = [n \in 0 .. Len(list) |-> Body(g)[n]]
    OBVIOUS
  <2> QED BY <2>1, <2>2, <2>3
<1>6. after = Body(after)
  BY <1>5
<1>7. UpsertDevices(list) = after[Len(list)]
  BY DEF UpsertDevices
<1> HIDE DEF after
<1>8. after[0] = recs
  BY <1>1, <1>6
<1>9. \A n \in 1 .. Len(list) :
        after[n] = [after[n - 1] EXCEPT
                      ![list[n].mac] = Upsert(after[n - 1][list[n].mac], list[n])]
  <2> TAKE n \in 1 .. Len(list)
  <2>1. n \in 0 .. Len(list) /\ n # 0
    BY <1>1
  <2>2. after[n] = Body(after)[n]
    BY <1>6
  <2> QED BY <2>1, <2>2
<1>10. \A n \in 0 .. Len(list) : after[n] \in F
  <2> DEFINE T == {n \in 0 .. Len(list) : after[n] \in F}
  <2>1. 0 \in T
    BY <1>1, <1>8
  <2>2. ASSUME NEW n \in 0 .. Len(list) - 1, n \in T
        PROVE  n + 1 \in T
    <3>1. n + 1 \in 1 .. Len(list) /\ (n + 1) - 1 = n /\ after[n] \in F
      BY <1>1, <2>2
    <3> DEFINE f == after[n]
               d == list[n + 1]
    <3>a. after[n + 1] = [f EXCEPT ![d.mac] = Upsert(f[d.mac], d)]
      BY <1>9, <3>1
    <3>b. step[<<n + 1, f>>] = [f EXCEPT ![d.mac] = Upsert(f[d.mac], d)]
      BY <1>2, <3>1
    <3>2. after[n + 1] = step[<<n + 1, after[n]>>]
      BY <3>a, <3>b
    <3>3. step[<<n + 1, after[n]>>] \in F
      BY <1>2, <3>1
    <3> HIDE DEF F, step
    <3>4. after[n + 1] \in F
      BY <3>2, <3>3
    <3>5. n + 1 \in 0 .. Len(list)
      BY <1>1, <3>1
    <3> QED BY <3>4, <3>5
  <2>3. 0 .. Len(list) \subseteq T
    <3> HIDE DEF T
    <3> QED BY <1>1, <2>1, <2>2, SetInduction
  <2> QED BY <2>3
<1>11. after \in [0 .. Len(list) -> F]
  <2>1. after = [n \in 0 .. Len(list) |-> after[n]]
    BY <1>6
  <2> QED BY <2>1, <1>10
<1> QED BY <1>7, <1>8, <1>9, <1>11

LEMMA UpsertGrows ==
  ASSUME recs \in [Macs -> Recs], NEW list \in Seq(Row)
  PROVE  /\ UpsertDevices(list) \in [Macs -> Recs]
         /\ \A m \in Macs : Grown(m, recs[m], list, Len(list), UpsertDevices(list)[m])
<1>1. PICK after \in [0 .. Len(list) -> [Macs -> Recs]] :
        /\ UpsertDevices(list) = after[Len(list)]
        /\ after[0] = recs
        /\ \A n \in 1 .. Len(list) :
             after[n] = [after[n - 1] EXCEPT
                           ![list[n].mac] = Upsert(after[n - 1][list[n].mac], list[n])]
  BY UpsertLoop
<1>2. Len(list) \in Nat
  BY LenProperties
<1>3. \A n \in 1 .. Len(list) : list[n] \in Row
  BY ElementOfSeq
<1>4. \A d \in Row : d.mac \in Macs /\ d.host \in Names
  BY DEF Row
<1> DEFINE T == {n \in 0 .. Len(list) : \A m \in Macs : Grown(m, recs[m], list, n, after[n][m])}
<1>5. 0 \in T
  <2>1. 0 \in 0 .. Len(list) /\ 1 .. 0 = {}
    BY <1>2
  <2>2. \A m \in Macs : recs[m].host.len \in Nat
    BY NumbersOfNames DEF Recs
  <2>3. ASSUME NEW m \in Macs PROVE Grown(m, recs[m], list, 0, recs[m])
    <3>1. recs[m].host.len <= recs[m].host.len
      BY <2>2, Ordered, Zenon
    <3> QED BY <2>1, <3>1 DEF Grown
  <2> QED BY <1>1, <2>1, <2>3
<1>6. ASSUME NEW n \in 0 .. Len(list) - 1, n \in T
      PROVE  n + 1 \in T
  <2> DEFINE f == after[n]
             d == list[n + 1]
  <2>1. n + 1 \in 1 .. Len(list) /\ (n + 1) - 1 = n /\ n \in 0 .. Len(list) /\ n \in Nat
    BY <1>2
  <2>2. d \in Row /\ d.mac \in Macs /\ f \in [Macs -> Recs] /\ d.host.len \in Nat
    BY <1>1, <1>3, <1>4, <2>1, NumbersOfNames
  <2>3. after[n + 1] = [f EXCEPT ![d.mac] = Upsert(f[d.mac], d)]
    BY <1>1, <2>1
  <2>4. \A m \in Macs : Grown(m, recs[m], list, n, f[m])
    BY <1>6
  <2>5. \A i \in 1 .. n + 1 : i \in 1 .. n \/ i = n + 1
    BY <2>1
  <2>6. \A i \in 1 .. n : i \in 1 .. n + 1
    BY <2>1
  <2>7. n + 1 \in 1 .. n + 1
    BY <2>1
  <2>8. \A i \in 1 .. n + 1 : list[i].host \in Names
    <3> TAKE i \in 1 .. n + 1
    <3>1. i \in 1 .. Len(list)
      BY <1>2, <2>1
    <3>2. list[i] \in Row
      BY <1>3, <3>1
    <3> QED BY <1>4, <3>2
  <2>9. d = list[n + 1]
    OBVIOUS
  <2> HIDE DEF f, d
  <2>10. ASSUME NEW m \in Macs
         PROVE  Grown(m, recs[m], list, n + 1, after[n + 1][m])
    <3> DEFINE old == recs[m]
               r == f[m]
               u == after[n + 1][m]
    <3>1. Grown(m, old, list, n, r)
      BY <2>4
    <3>2. CASE m # d.mac
      <4>1. u = r
        BY <2>2, <2>3, <3>2
      <4>2. list[n + 1].mac # m
        BY <2>9, <3>2
      <4> HIDE DEF old, r, u
      <4>3. Grown(m, old, list, n + 1, u)
        BY <2>5, <2>6, <3>1, <4>1, <4>2 DEF Grown
      <4> QED BY <4>3 DEF old, u
    <3>3. CASE m = d.mac
      <4>1. u = Upsert(r, d) /\ r \in Recs /\ old \in Recs
        BY <2>2, <2>3, <3>3
      <4> HIDE DEF old, r, u
      <4>2. /\ u \in Recs /\ u.known /\ u.note = r.note /\ u.lastIP = d.ip
            /\ u.host \in {r.host, d.host}
            /\ r.host.len <= u.host.len /\ d.host.len <= u.host.len
            /\ r.type # "" => u.type # ""
            /\ d.type # TypeUnknown => u.type # ""
        BY <2>2, <4>1, UpsertOnce
      <4>3. old.host \in Names /\ r.host \in Names /\ u.host \in Names
        BY <4>1, <4>2 DEF Recs
      <4>a. r.note = old.note /\ old.host.len <= r.host.len
        BY <3>1 DEF Grown
      <4>b. old.host.len <= u.host.len
        BY <4>2, <4>3, <4>a, NoShorter
      <4>4. u.note = old.note /\ u.known /\ old.host.len <= u.host.len
        BY <4>2, <4>a, <4>b
      <4>5. old.type # "" => u.type # ""
        BY <3>1, <4>2 DEF Grown
      <4>6. ASSUME NEW i \in 1 .. n + 1, list[i].mac = m
            PROVE  list[i].host.len <= u.host.len /\ (list[i].type # TypeUnknown => u.type # "")
        <5>1. CASE i \in 1 .. n
          <6>1. list[i].host.len <= r.host.len /\ (list[i].type # TypeUnknown => r.type # "")
            BY <3>1, <4>6, <5>1 DEF Grown
          <6>2. list[i].host.len <= u.host.len
            BY <2>8, <4>2, <4>3, <6>1, NoShorter
          <6> QED BY <4>2, <6>1, <6>2
        <5>2. CASE i = n + 1
          BY <2>9, <4>2, <5>2
        <5> QED BY <2>5, <5>1, <5>2
      <4>7. \E i \in 1 .. n + 1 : list[i].mac = m /\ u.lastIP = list[i].ip
        BY <2>7, <2>9, <3>3, <4>2
      <4>8. \/ u.host = old.host
            \/ \E i \in 1 .. n + 1 : list[i].mac = m /\ u.host = list[i].host
        <5>1. CASE u.host = d.host
          BY <2>7, <2>9, <3>3, <5>1
        <5>2. CASE u.host = r.host
          BY <2>6, <3>1, <5>2 DEF Grown
        <5> QED BY <4>2, <5>1, <5>2
      <4>9. Grown(m, old, list, n + 1, u)
        BY <4>4, <4>5, <4>6, <4>7, <4>8 DEF Grown
      <4> QED BY <4>9 DEF old, u
    <3> QED BY <3>2, <3>3
  <2>11. n + 1 \in 0 .. Len(list)
    BY <1>2, <2>1
  <2> QED BY <2>10, <2>11
<1>7. 0 .. Len(list) \subseteq T
  <2> HIDE DEF T
  <2> QED BY <1>2, <1>5, <1>6, SetInduction
<1>8. Len(list) \in T
  BY <1>2, <1>7
<1>9. after[Len(list)] \in [Macs -> Recs]
  BY <1>1, <1>2
<1> QED BY <1>1, <1>8, <1>9

-----------------------------------------------------------------------------
(* The invariant.                                                          *)

DTyped == /\ addr \in [Clients -> LanIPs \cup {NoIP}]
          /\ lease \in [LanIPs -> Clients \cup {NoMAC}]
          /\ arp \in [IPs -> Macs \cup {ZeroMAC, NoMAC}]
          /\ DOMAIN mdns \subseteq IPs /\ \A ip \in DOMAIN mdns : mdns[ip] \in Names
          /\ snapshot \in Seq(Row)
          /\ recs \in [Macs -> Recs] /\ disk \in [Macs -> Recs] /\ saving \in Nat
          /\ been \in [Clients -> SUBSET LanIPs] /\ heard \in [LanIPs -> SUBSET Names]
          /\ noted \in [Macs -> Notes \cup {NoNote}]

\* Whoever uses an address, has a lease for it, is in the ARP table with it or
\* is named for it has had it.
Traced ==
  /\ \A m \in Clients : addr[m] # NoIP => addr[m] \in been[m]
  /\ \A ip \in LanIPs : lease[ip] # NoMAC => ip \in been[lease[ip]]
  /\ \A ip \in IPs : arp[ip] \in Clients => ip \in been[arp[ip]]
  /\ \A ip \in DOMAIN mdns :
       \/ \E k \in Clients : ip \in been[k] /\ mdns[ip] = NameIn(MDNSName, k)
       \/ ip \in LanIPs /\ mdns[ip] \in heard[ip]

\* NamesAreOwn, for the records in memory and for those on the disk.
OwnHost(m, host) == host \in OwnNames(m) \cup UNION {heard[ip] : ip \in been[m]}
Owned == \A m \in Clients : OwnHost(m, recs[m].host) /\ OwnHost(m, disk[m].host)

NotesKept == \A m \in Macs : recs[m].note = noted[m]

\* The database knows at least as much of a device as the last list.
Covered(d, r) == /\ r.known
                 /\ d.host.len <= r.host.len
                 /\ d.type # TypeUnknown => r.type # ""
Recorded ==
  \A i \in DOMAIN snapshot :
    /\ Covered(snapshot[i], recs[snapshot[i].mac])
    /\ \E j \in DOMAIN snapshot : /\ snapshot[j].mac = snapshot[i].mac
                                  /\ snapshot[j].ip = recs[snapshot[i].mac].lastIP

DInv == DTyped /\ Traced /\ Owned /\ NotesKept /\ Recorded /\ ListedOnce

LEMMA Listed == DTyped => \A i \in DOMAIN snapshot : snapshot[i] \in Row /\ snapshot[i].mac \in Macs
<1> SUFFICES ASSUME DTyped, NEW i \in DOMAIN snapshot
             PROVE  snapshot[i] \in Row /\ snapshot[i].mac \in Macs
  OBVIOUS
<1>1. snapshot \in Seq(Row)
  BY DEF DTyped
<1>2. snapshot[i] \in Row
  BY <1>1, LenProperties, ElementOfSeq
<1> QED BY <1>2 DEF Row

LEMMA InitDInv == Init => DInv
<1> SUFFICES ASSUME Init PROVE DInv
  OBVIOUS
<1> USE DEF Init
<1>1. NoRecord \in Recs
  <2>1. NoName \in Vendors /\ NoName \in Names
    BY NamesNamed DEF Vendors
  <2> QED BY <2>1 DEF NoRecord, Recs
<1>2. NoRecord.host = NoName /\ NoRecord.note = NoNote
  BY DEF NoRecord
<1>3. recs \in [Macs -> Recs] /\ disk \in [Macs -> Recs]
  BY <1>1 DEF Fresh
<1>4. arp \in [IPs -> Macs \cup {ZeroMAC, NoMAC}]
  BY DEF Macs
<1>5. DTyped
  BY <1>3, <1>4 DEF DTyped
<1>6. \A ip \in IPs : arp[ip] \notin Clients
  BY LanAssumption
<1>7. Traced
  BY <1>6 DEF Traced
<1>8. \A m \in Macs : recs[m] = NoRecord /\ disk[m] = NoRecord /\ noted[m] = NoNote
  BY DEF Fresh
<1>9. Owned
  BY <1>2, <1>8 DEF Owned, OwnHost, OwnNames, Macs
<1>10. NotesKept
  BY <1>2, <1>8 DEF NotesKept
<1>11. Recorded /\ ListedOnce
  BY DEF Recorded, ListedOnce
<1> QED BY <1>5, <1>7, <1>9, <1>10, <1>11 DEF DInv

-----------------------------------------------------------------------------
(* Each step keeps it: first the steps of the network.                     *)

\* What was had stays had, and what was heard stays heard.
LEMMA HostStays ==
  ASSUME DTyped, \A m \in Clients : been[m] \subseteq been'[m],
         \A ip \in LanIPs : heard[ip] \subseteq heard'[ip],
         NEW m \in Clients, NEW host, OwnHost(m, host)
  PROVE  OwnHost(m, host)'
<1>1. been[m] \subseteq LanIPs
  BY DEF DTyped
<1>2. ASSUME host \in OwnNames(m) PROVE host \in OwnNames(m)'
  <2>1. CASE host \in {NoName, NameIn(HostName, m), NameIn(MDNSName, m), NameIn(Ethers, m)}
    BY <2>1 DEF OwnNames
  <2>2. CASE \E ip \in been[m] : host = NameIn(DNS, ip)
    BY <2>2 DEF OwnNames
  <2>3. CASE \E k \in Clients : been[k] \cap been[m] # {} /\ host = NameIn(MDNSName, k)
    BY <2>3 DEF OwnNames
  <2> QED BY <1>2, <2>1, <2>2, <2>3 DEF OwnNames
<1>3. ASSUME NEW ip \in been[m], host \in heard[ip] PROVE host \in UNION {heard[k] : k \in been[m]}'
  BY <1>1, <1>3
<1> QED BY <1>2, <1>3 DEF OwnHost

LEMMA OwnedStays ==
  ASSUME DTyped, Owned, UNCHANGED <<recs, disk>>,
         \A m \in Clients : been[m] \subseteq been'[m],
         \A ip \in LanIPs : heard[ip] \subseteq heard'[ip]
  PROVE  Owned'
BY HostStays DEF Owned

LEMMA JoinKeeps ==
  ASSUME DInv, NEW m \in Clients, NEW ip \in LanIPs, Join(m, ip)
  PROVE  DInv'
<1>1. /\ DTyped /\ Traced /\ Owned
  BY DEF DInv
<1>2. /\ addr' = [addr EXCEPT ![m] = ip] /\ lease' = [lease EXCEPT ![ip] = m]
      /\ arp' = [arp EXCEPT ![ip] = m] /\ been' = [been EXCEPT ![m] = @ \cup {ip}]
      /\ UNCHANGED <<mdns, heard, snapshot, recs, saving, disk, noted>>
  BY DEF Join, cache, saves
<1>3. ip \in IPs /\ m \in Macs
  BY Addresses DEF Macs
<1>4. /\ addr' \in [Clients -> LanIPs \cup {NoIP}] /\ lease' \in [LanIPs -> Clients \cup {NoMAC}]
      /\ arp' \in [IPs -> Macs \cup {ZeroMAC, NoMAC}]
      /\ been' \in [Clients -> SUBSET LanIPs]
  BY <1>1, <1>2, <1>3 DEF DTyped
<1>5. DTyped'
  BY <1>1, <1>2, <1>4 DEF DTyped
<1>6. ip \in been'[m] /\ \A k \in Clients : been[k] \subseteq been'[k]
  BY <1>1, <1>2 DEF DTyped
<1>7. Traced'
  <2>1. ASSUME NEW k \in Clients, addr'[k] # NoIP PROVE addr'[k] \in been'[k]
    <3>1. addr'[k] = IF k = m THEN ip ELSE addr[k]
      BY <1>1, <1>2 DEF DTyped
    <3> QED BY <1>1, <1>6, <2>1, <3>1 DEF Traced
  <2>a. ASSUME NEW a \in LanIPs, lease'[a] # NoMAC PROVE a \in been'[lease'[a]]
    <3>1. lease'[a] = IF a = ip THEN m ELSE lease[a]
      BY <1>1, <1>2 DEF DTyped
    <3>2. CASE a = ip
      BY <1>6, <3>1, <3>2
    <3>3. CASE a # ip
      <4>1. lease'[a] = lease[a] /\ lease[a] # NoMAC /\ lease[a] \in Clients
        BY <1>1, <2>a, <3>1, <3>3 DEF DTyped
      <4> QED BY <1>1, <1>6, <4>1 DEF Traced
    <3> QED BY <3>2, <3>3
  <2>2. ASSUME NEW a \in IPs, arp'[a] \in Clients PROVE a \in been'[arp'[a]]
    <3>1. CASE a = ip
      BY <1>1, <1>2, <1>6, <3>1 DEF DTyped
    <3>2. CASE a # ip
      <4>1. arp'[a] = arp[a]
        BY <1>1, <1>2, <3>2 DEF DTyped
      <4> QED BY <1>1, <1>6, <2>2, <4>1 DEF Traced
    <3> QED BY <3>1, <3>2
  <2>3. \A a \in DOMAIN mdns :
          \/ \E k \in Clients : a \in been'[k] /\ mdns[a] = NameIn(MDNSName, k)
          \/ a \in LanIPs /\ mdns[a] \in heard[a]
    BY <1>1, <1>6 DEF Traced
  <2> QED BY <1>2, <2>1, <2>a, <2>2, <2>3 DEF Traced
<1>8. Owned'
  BY <1>1, <1>2, <1>6, OwnedStays
<1>9. NotesKept' /\ Recorded' /\ ListedOnce'
  BY <1>2 DEF DInv, NotesKept, Recorded, ListedOnce
<1> QED BY <1>5, <1>7, <1>8, <1>9 DEF DInv

\* Other steps of the network forget.
LEMMA NetworkKeeps ==
  ASSUME DInv, \/ \E m \in Clients : Leave(m)
               \/ \E ip \in LanIPs : LeaseEnds(ip) \/ ArpAges(ip)
               \/ UNCHANGED vars
  PROVE  DInv'
<1>1. DTyped /\ Traced /\ Owned
  BY DEF DInv
<1>2. UNCHANGED <<mdns, heard, snapshot, recs, saving, disk, noted, been>>
  BY DEF Leave, LeaseEnds, ArpAges, vars, network, cache, saves
<1>3. /\ addr' \in [Clients -> LanIPs \cup {NoIP}] /\ lease' \in [LanIPs -> Clients \cup {NoMAC}]
      /\ \A k \in Clients : addr'[k] \in {addr[k], NoIP}
      /\ \A a \in LanIPs : lease'[a] \in {lease[a], NoMAC}
      /\ arp' \in [IPs -> Macs \cup {ZeroMAC, NoMAC}]
      /\ \A a \in IPs : arp'[a] \in {arp[a], ZeroMAC}
  <2>1. CASE \E m \in Clients : Leave(m)
    BY <1>1, <2>1 DEF Leave, DTyped
  <2>2. CASE \E ip \in LanIPs : LeaseEnds(ip)
    BY <1>1, <2>2 DEF LeaseEnds, DTyped
  <2>3. CASE \E ip \in LanIPs : ArpAges(ip)
    BY <1>1, <2>3 DEF ArpAges, DTyped
  <2>4. CASE UNCHANGED vars
    BY <1>1, <2>4 DEF vars, network, DTyped
  <2> QED BY <2>1, <2>2, <2>3, <2>4
<1>4. DTyped'
  BY <1>1, <1>2, <1>3 DEF DTyped
<1>5. ZeroMAC \notin Clients
  BY LanAssumption
<1>6. Traced'
  BY <1>1, <1>2, <1>3, <1>5 DEF Traced
<1>7. Owned'
  BY <1>1, <1>2, OwnedStays
<1>8. NotesKept' /\ Recorded' /\ ListedOnce'
  BY <1>2 DEF DInv, NotesKept, Recorded, ListedOnce
<1> QED BY <1>4, <1>6, <1>7, <1>8 DEF DInv

\* A record is stored for an address the named client has had, or for that of the
\* sender, who is heard.
LEMMA AnnounceKeeps ==
  ASSUME DInv, NEW m \in Clients, NEW rr \in Answers, Announce(m, rr)
  PROVE  DInv'
<1>1. DTyped /\ Traced /\ Owned
  BY DEF DInv
<1>2. /\ addr[m] # NoIP /\ addr[m] \in been[m] /\ addr[m] \in LanIPs
      /\ UNCHANGED <<addr, lease, arp, been, snapshot, recs, saving, disk, noted>>
  BY <1>1 DEF Announce, Traced, DTyped, saves
<1>3. /\ mdns' = parseMDNSPacket(rr, addr[m])
      /\ heard' = IF rr.kind = "PTR" /\ rr.fits
                  THEN [heard EXCEPT ![addr[m]] = @ \cup {rr.name}] ELSE heard
  BY DEF Announce
<1>4. \A k \in Clients : been[k] \subseteq LanIPs
  BY <1>1 DEF DTyped
<1>5. /\ rr.name \in Names
      /\ \/ /\ rr.kind = "A" /\ rr.ip \in LanIPs
            /\ \E k \in Clients : rr.ip \in been[k] /\ rr.name = NameIn(MDNSName, k)
         \/ rr.kind = "PTR"
  <2>1. ASSUME NEW f \in BOOLEAN, NEW k \in Clients, NEW ip \in been[k],
               rr = [kind |-> "A", fits |-> f, ip |-> ip, name |-> NameIn(MDNSName, k)]
        PROVE  /\ rr.name \in Names /\ rr.kind = "A" /\ rr.ip \in LanIPs
               /\ rr.ip \in been[k] /\ rr.name = NameIn(MDNSName, k)
    BY <1>4, <2>1, NamesNamed
  <2>2. ASSUME NEW f \in BOOLEAN, NEW name \in Labels,
               rr = [kind |-> "PTR", fits |-> f, ip |-> NoIP, name |-> name]
        PROVE  rr.name \in Names /\ rr.kind = "PTR"
    BY <2>2, NamesNamed
  <2> QED BY <2>1, <2>2 DEF Answers
<1>6. /\ heard' \in [LanIPs -> SUBSET Names]
      /\ \A ip \in LanIPs : heard[ip] \subseteq heard'[ip]
  BY <1>1, <1>2, <1>3, <1>5 DEF DTyped
<1>7. \/ mdns' = mdns
      \/ \E ip \in LanIPs :
           /\ mdns' = storeMDNS(ip, rr.name)
           /\ \/ \E k \in Clients : ip \in been[k] /\ rr.name = NameIn(MDNSName, k)
              \/ rr.name \in heard'[ip]
  <2>1. CASE ~rr.fits
    BY <1>3, <2>1 DEF parseMDNSPacket
  <2>2. CASE rr.fits /\ rr.kind = "A"
    BY <1>3, <1>5, <2>2 DEF parseMDNSPacket
  <2>3. CASE rr.fits /\ rr.kind = "PTR"
    <3>1. mdns' = storeMDNS(addr[m], rr.name)
      BY <1>3, <2>3 DEF parseMDNSPacket
    <3>2. rr.name \in heard'[addr[m]]
      BY <1>1, <1>2, <1>3, <2>3 DEF DTyped
    <3> QED BY <1>2, <3>1, <3>2
  <2> QED BY <1>5, <2>1, <2>2, <2>3
<1>8. /\ DOMAIN mdns' \subseteq IPs /\ \A a \in DOMAIN mdns' : mdns'[a] \in Names
      /\ \A a \in DOMAIN mdns' :
           \/ \E k \in Clients : a \in been[k] /\ mdns'[a] = NameIn(MDNSName, k)
           \/ a \in LanIPs /\ mdns'[a] \in heard'[a]
  <2>1. CASE mdns' = mdns
    BY <1>1, <1>6, <2>1 DEF DTyped, Traced
  <2>2. ASSUME NEW ip \in LanIPs, mdns' = storeMDNS(ip, rr.name),
               \/ \E k \in Clients : ip \in been[k] /\ rr.name = NameIn(MDNSName, k)
               \/ rr.name \in heard'[ip]
        PROVE  /\ DOMAIN mdns' \subseteq IPs /\ \A a \in DOMAIN mdns' : mdns'[a] \in Names
               /\ \A a \in DOMAIN mdns' :
                    \/ \E k \in Clients : a \in been[k] /\ mdns'[a] = NameIn(MDNSName, k)
                    \/ a \in LanIPs /\ mdns'[a] \in heard'[a]
    <3> DEFINE name == rr.name
    <3>a. mdns' = storeMDNS(ip, name)
      BY <2>2
    <3> HIDE DEF name
    <3>b. /\ DOMAIN storeMDNS(ip, name) = DOMAIN mdns \cup {ip}
          /\ storeMDNS(ip, name)[ip] = name
          /\ \A a \in DOMAIN mdns \ {ip} : storeMDNS(ip, name)[a] = mdns[a]
      BY DEF storeMDNS
    <3>1. /\ DOMAIN mdns' = DOMAIN mdns \cup {ip} /\ mdns'[ip] = rr.name
          /\ \A a \in DOMAIN mdns \ {ip} : mdns'[a] = mdns[a]
      BY <3>a, <3>b DEF name
    <3>2. ip \in IPs
      BY Addresses
    <3> QED BY <1>1, <1>5, <1>6, <2>2, <3>1, <3>2 DEF DTyped, Traced
  <2> QED BY <1>7, <2>1, <2>2
<1>9. DTyped'
  BY <1>1, <1>2, <1>6, <1>8 DEF DTyped
<1>10. Traced'
  BY <1>1, <1>2, <1>8 DEF Traced
<1>11. Owned'
  BY <1>1, <1>2, <1>6, OwnedStays
<1>12. NotesKept' /\ Recorded' /\ ListedOnce'
  BY <1>2 DEF DInv, NotesKept, Recorded, ListedOnce
<1> QED BY <1>9, <1>10, <1>11, <1>12 DEF DInv

-----------------------------------------------------------------------------
(* A scan.                                                                 *)

\* What DNS may answer within a scan.
Answered == {Restrict(DNS, names) : names \in SUBSET DOMAIN DNS}
LEMMA AnsweredNames ==
  \A dns \in Answered : \A ip : NameIn(dns, ip) \in {NoName, NameIn(DNS, ip)}
BY DEF Answered, Restrict, NameIn

\* The name in a row is the device's own.
LEMMA RowsAreOwn ==
  ASSUME DTyped, Traced, NEW m \in Clients, NEW d \in Row, d.mac = m, HasAddress(d),
         NEW dns \in Answered, OwnName(d, dns)
  PROVE  OwnHost(m, d.host)
<1>1. d.ip \in IPs /\ d.ip # NoIP
  BY Addresses DEF Row
<1>2. d.ip \in been[m]
  <2>1. CASE arp[d.ip] = d.mac
    BY <1>1, <2>1 DEF Traced
  <2>2. CASE d.ip \in LanIPs /\ lease[d.ip] = d.mac
    BY <2>2, LanAssumption DEF Traced
  <2> QED BY <2>1, <2>2 DEF HasAddress
<1>3. CASE d.host \in {NoName, NameIn(HostName, m), NameIn(Ethers, m)}
  BY <1>3 DEF OwnHost, OwnNames
<1>4. CASE d.host = NameIn(mdns, d.ip)
  <2>1. CASE d.ip \notin DOMAIN mdns
    BY <1>3, <1>4, <2>1 DEF NameIn
  <2>2. ASSUME NEW k \in Clients, d.ip \in been[k], d.host = NameIn(MDNSName, k)
        PROVE  OwnHost(m, d.host)
    <3>1. been[k] \cap been[m] # {}
      BY <1>2, <2>2
    <3> QED BY <2>2, <3>1 DEF OwnHost, OwnNames
  <2>3. CASE d.host \in heard[d.ip]
    BY <1>2, <2>3 DEF OwnHost
  <2> QED BY <1>4, <2>1, <2>2, <2>3 DEF Traced, NameIn
<1>5. CASE d.host = NameIn(dns, d.ip)
  <2>1. d.host \in {NoName, NameIn(DNS, d.ip)}
    BY <1>5, AnsweredNames
  <2> QED BY <1>2, <2>1 DEF OwnHost, OwnNames
<1> QED BY <1>3, <1>4, <1>5 DEF OwnName

\* What a scan finds and what the records become.
LEMMA Collected ==
  ASSUME DTyped, CollectSlow
  PROVE  /\ \E dns \in Answered : Scanned(snapshot', dns)
         /\ recs' \in [Macs -> Recs]
         /\ \A m \in Macs : Grown(m, recs[m], snapshot', Len(snapshot'), recs'[m])
<1>1. PICK dns \in Answered : snapshot' = ReadDevices(dns)
  BY DEF CollectSlow, Answered
<1>2. Scanned(snapshot', dns)
  <2>1. NetworkTyped
    BY DEF DTyped, NetworkTyped
  <2>2. CacheTyped
    BY NamesNamed DEF DTyped, CacheTyped, NameIn
  <2>3. \A ip : NameIn(dns, ip) \in Names
    BY AnsweredNames, NamesNamed
  <2> QED BY <1>1, <2>1, <2>2, <2>3, ScanReads
<1> DEFINE list == snapshot'
<1>3. list \in Seq(Row) /\ recs' = UpsertDevices(list)
  BY <1>2 DEF Scanned, CollectSlow
<1>4. /\ recs' \in [Macs -> Recs]
      /\ \A m \in Macs : Grown(m, recs[m], list, Len(list), recs'[m])
  <2> HIDE DEF list
  <2> QED BY <1>3, UpsertGrows DEF DTyped
<1> QED BY <1>2, <1>4

LEMMA CollectKeeps == DInv /\ CollectSlow => DInv'
<1> SUFFICES ASSUME DInv, CollectSlow PROVE DInv'
  OBVIOUS
<1>1. DTyped /\ Traced /\ Owned /\ NotesKept
  BY DEF DInv
<1>2. /\ UNCHANGED <<network, mdns, heard, disk, noted>>
      /\ saving' \in {saving, saving + 1}
  BY DEF CollectSlow, SaveStarts, cache, saves
<1> DEFINE list == snapshot'
           new == recs'
<1>3. PICK dns \in Answered : Scanned(list, dns)
  BY <1>1, Collected
<1>4. list \in Seq(Row) /\ DOMAIN list = 1 .. Len(list) /\ \A i \in DOMAIN list : list[i] \in Row
  BY <1>3, LenProperties, ElementOfSeq DEF Scanned
<1>5. /\ new \in [Macs -> Recs]
      /\ \A m \in Macs : Grown(m, recs[m], list, Len(list), new[m])
  BY <1>1, Collected
<1>6. DTyped'
  BY <1>1, <1>2, <1>4, <1>5 DEF DTyped, network
<1>7. Traced'
  BY <1>1, <1>2 DEF Traced, network
<1>8. \A m \in Clients : \A host : OwnHost(m, host)' = OwnHost(m, host)
  BY <1>2 DEF OwnHost, OwnNames, network
<1>9. \A m \in Clients : OwnHost(m, new[m].host)
  <2> TAKE m \in Clients
  <2>1. m \in Macs /\ OwnHost(m, recs[m].host)
    BY <1>1 DEF Macs, Owned
  <2>2. \/ new[m].host = recs[m].host
        \/ \E i \in DOMAIN list : list[i].mac = m /\ new[m].host = list[i].host
    BY <1>4, <1>5, <2>1 DEF Grown
  <2>3. ASSUME NEW i \in DOMAIN list, list[i].mac = m
        PROVE  OwnHost(m, list[i].host)
    <3>1. HasAddress(list[i]) /\ OwnName(list[i], dns) /\ list[i] \in Row
      BY <1>3, <1>4 DEF Scanned
    <3> QED BY <1>1, <2>3, <3>1, RowsAreOwn
  <2> QED BY <2>1, <2>2, <2>3
<1>10. Owned'
  <2> SUFFICES ASSUME NEW m \in Clients
               PROVE  OwnHost(m, recs[m].host)' /\ OwnHost(m, disk[m].host)'
    BY DEF Owned
  <2>1. OwnHost(m, disk[m].host) /\ OwnHost(m, recs'[m].host)
    BY <1>1, <1>9 DEF Owned
  <2>2. OwnHost(m, disk'[m].host)
    BY <1>2, <2>1
  <2> QED BY <1>8, <2>1, <2>2
<1>11. NotesKept'
  <2>1. \A m \in Macs : new[m].note = recs[m].note
    BY <1>5 DEF Grown
  <2> QED BY <1>1, <1>2, <2>1 DEF NotesKept
<1>12. Recorded'
  <2> SUFFICES ASSUME NEW i \in DOMAIN list
               PROVE  /\ Covered(list[i], new[list[i].mac])
                      /\ \E j \in DOMAIN list : /\ list[j].mac = list[i].mac
                                                /\ list[j].ip = new[list[i].mac].lastIP
    BY DEF Recorded, Covered
  <2> DEFINE m == list[i].mac
  <2>1. m \in Macs
    BY <1>4 DEF Row
  <2>2. Grown(m, recs[m], list, Len(list), new[m]) /\ i \in 1 .. Len(list)
    BY <1>4, <1>5, <2>1
  <2> QED BY <1>4, <2>2 DEF Grown, Covered
<1>13. ListedOnce'
  BY <1>3 DEF Scanned, ListedOnce
<1> QED BY <1>6, <1>7, <1>10, <1>11, <1>12, <1>13 DEF DInv

-----------------------------------------------------------------------------
(* Notes and restarts.                                                     *)

LEMMA SetNoteKeeps ==
  ASSUME DInv, NEW key, NEW note \in Notes \cup {NoNote}, SetNote(key, note)
  PROVE  DInv'
<1>1. DTyped /\ Traced /\ Owned /\ NotesKept /\ Recorded
  BY DEF DInv
<1>2. PICK m \in Target(key) :
        /\ recs' = [recs EXCEPT ![m].note = note]
        /\ noted' = [noted EXCEPT ![m] = note]
        /\ saving' = saving + 1
        /\ UNCHANGED <<network, mdns, heard, snapshot, disk>>
  BY DEF SetNote, SaveStarts, cache
<1>3. m \in Macs
  BY DEF Target
<1> DEFINE r == [recs[m] EXCEPT !.note = note]
<1>a. recs \in [Macs -> Recs] /\ recs[m] \in Recs
  BY <1>1, <1>3 DEF DTyped
<1>b. /\ r \in Recs /\ r.known = recs[m].known /\ r.host = recs[m].host
      /\ r.type = recs[m].type /\ r.lastIP = recs[m].lastIP /\ r.note = note
  BY <1>a DEF Recs
<1>c. recs' = [recs EXCEPT ![m] = r]
  BY <1>2
<1> HIDE DEF r
<1>4. recs' \in [Macs -> Recs] /\ \A k \in Macs : recs'[k] = IF k = m THEN r ELSE recs[k]
  BY <1>3, <1>a, <1>b, <1>c
<1>5. \A k \in Macs : /\ recs'[k].known = recs[k].known /\ recs'[k].host = recs[k].host
                      /\ recs'[k].type = recs[k].type /\ recs'[k].lastIP = recs[k].lastIP
                      /\ recs'[k].note = IF k = m THEN note ELSE recs[k].note
  BY <1>4, <1>b
<1>6. DTyped'
  BY <1>1, <1>2, <1>3, <1>4 DEF DTyped, network
<1>7. Traced'
  BY <1>1, <1>2 DEF Traced, network
<1>8. Owned'
  <2>1. \A k \in Clients : \A host : OwnHost(k, host)' = OwnHost(k, host)
    BY <1>2 DEF OwnHost, OwnNames, network
  <2> SUFFICES ASSUME NEW k \in Clients
               PROVE  OwnHost(k, recs[k].host)' /\ OwnHost(k, disk[k].host)'
    BY DEF Owned
  <2>2. k \in Macs /\ OwnHost(k, recs[k].host) /\ OwnHost(k, disk[k].host)
    BY <1>1 DEF Macs, Owned
  <2>3. OwnHost(k, recs'[k].host) /\ OwnHost(k, disk'[k].host)
    BY <1>2, <1>5, <2>2
  <2> QED BY <2>1, <2>3
<1>9. NotesKept'
  BY <1>1, <1>2, <1>3, <1>5 DEF NotesKept, DTyped
<1>10. Recorded'
  <2>1. \A i \in DOMAIN snapshot : snapshot[i].mac \in Macs
    BY <1>1, Listed
  <2>0. snapshot' = snapshot
    BY <1>2
  <2> SUFFICES ASSUME NEW i \in DOMAIN snapshot
               PROVE  /\ Covered(snapshot[i], recs'[snapshot[i].mac])
                      /\ \E j \in DOMAIN snapshot :
                           /\ snapshot[j].mac = snapshot[i].mac
                           /\ snapshot[j].ip = recs'[snapshot[i].mac].lastIP
    BY <2>0 DEF Recorded, Covered
  <2> DEFINE k == snapshot[i].mac
  <2>2. k \in Macs
    BY <2>1
  <2>3. /\ Covered(snapshot[i], recs[k])
        /\ \E j \in DOMAIN snapshot : snapshot[j].mac = k /\ snapshot[j].ip = recs[k].lastIP
    BY <1>1 DEF Recorded
  <2>4. /\ recs'[k].known = recs[k].known /\ recs'[k].host = recs[k].host
        /\ recs'[k].type = recs[k].type /\ recs'[k].lastIP = recs[k].lastIP
    BY <1>5, <2>2
  <2> QED BY <2>3, <2>4 DEF Covered
<1>11. ListedOnce'
  BY <1>2 DEF DInv, ListedOnce
<1> QED BY <1>6, <1>7, <1>8, <1>9, <1>10, <1>11 DEF DInv

LEMMA SaveKeeps == DInv /\ Save => DInv'
<1> SUFFICES ASSUME DInv, Save PROVE DInv'
  OBVIOUS
<1>1. DTyped /\ Traced /\ Owned /\ NotesKept
  BY DEF DInv
<1>2. /\ disk' \in {recs, disk, Fresh} /\ saving > 0 /\ saving' = saving - 1
      /\ UNCHANGED <<network, mdns, heard, snapshot, recs, noted>>
  BY DEF Save, cache
<1>3. NoRecord \in Recs /\ NoRecord.host = NoName
  <2>1. NoName \in Vendors /\ NoName \in Names
    BY NamesNamed DEF Vendors
  <2> QED BY <2>1 DEF NoRecord, Recs
<1>4. DTyped'
  <2>1. saving' \in Nat
    BY <1>1, <1>2 DEF DTyped
  <2>2. Fresh \in [Macs -> Recs]
    BY <1>3 DEF Fresh
  <2> QED BY <1>1, <1>2, <2>1, <2>2 DEF DTyped, network
<1>5. Traced'
  BY <1>1, <1>2 DEF Traced, network
<1>6. Owned'
  <2>1. \A m \in Clients : \A host : OwnHost(m, host)' = OwnHost(m, host)
    BY <1>2 DEF OwnHost, OwnNames, network
  <2>2. \A m \in Clients : m \in Macs /\ OwnHost(m, Fresh[m].host)
    BY <1>3 DEF Fresh, OwnHost, OwnNames, Macs
  <2> SUFFICES ASSUME NEW m \in Clients
               PROVE  OwnHost(m, recs[m].host)' /\ OwnHost(m, disk[m].host)'
    BY DEF Owned
  <2>3. OwnHost(m, recs'[m].host) /\ OwnHost(m, disk'[m].host)
    BY <1>1, <1>2, <2>2 DEF Owned
  <2> QED BY <2>1, <2>3
<1>7. NotesKept' /\ Recorded' /\ ListedOnce'
  BY <1>2 DEF DInv, NotesKept, Recorded, ListedOnce
<1> QED BY <1>4, <1>5, <1>6, <1>7 DEF DInv

LEMMA RestartKeeps == DInv /\ Restart => DInv'
<1> SUFFICES ASSUME DInv, Restart PROVE DInv'
  OBVIOUS
<1>1. DTyped /\ Traced /\ Owned
  BY DEF DInv
<1>2. /\ recs' = disk /\ noted' = [m \in Macs |-> disk[m].note]
      /\ mdns' = <<>> /\ snapshot' = <<>> /\ saving' = 0
      /\ UNCHANGED <<network, heard, disk>>
  BY DEF Restart
<1>3. DTyped'
  <2>1. noted' \in [Macs -> Notes \cup {NoNote}]
    BY <1>1, <1>2 DEF DTyped, Recs
  <2> QED BY <1>1, <1>2, <2>1 DEF DTyped, network
<1>4. Traced'
  BY <1>1, <1>2 DEF Traced, network
<1>5. Owned'
  BY <1>1, <1>2 DEF Owned, OwnHost, OwnNames, network
<1>6. NotesKept' /\ Recorded' /\ ListedOnce'
  BY <1>2 DEF NotesKept, Recorded, ListedOnce
<1> QED BY <1>3, <1>4, <1>5, <1>6 DEF DInv

LEMMA NextDInv == DInv /\ [Next]_vars => DInv'
<1> SUFFICES ASSUME DInv, [Next]_vars PROVE DInv'
  OBVIOUS
<1>1. CASE \E m \in Clients : Leave(m)
  BY <1>1, NetworkKeeps
<1>2. CASE \E m \in Clients, rr \in Answers : Announce(m, rr)
  BY <1>2, AnnounceKeeps
<1>3. CASE \E m \in Clients, ip \in LanIPs : Join(m, ip)
  BY <1>3, JoinKeeps
<1>4. CASE \E ip \in LanIPs : LeaseEnds(ip) \/ ArpAges(ip)
  BY <1>4, NetworkKeeps
<1>5. CASE CollectSlow
  BY <1>5, CollectKeeps
<1>6. CASE \E key \in Keys, note \in Notes \cup {NoNote} : SetNote(key, note)
  BY <1>6, SetNoteKeeps
<1>7. CASE Restart
  BY <1>7, RestartKeeps
<1>8. CASE UNCHANGED vars
  BY <1>8, NetworkKeeps
<1>9. CASE Save
  BY <1>9, SaveKeeps
<1> QED BY <1>1, <1>2, <1>3, <1>4, <1>5, <1>6, <1>7, <1>8, <1>9 DEF Next

LEMMA DInvariant == Spec => []DInv
BY InitDInv, NextDInv, PTL DEF Spec

-----------------------------------------------------------------------------
(* What is shown.                                                          *)

\* A list shows what the record knows.
Shown ==
  \A i \in DOMAIN snapshot :
    LET e == Enriched(snapshot[i])  r == recs[snapshot[i].mac]
    IN /\ e.note = r.note
       /\ e.host.len = r.host.len
       /\ e.type # TypeUnknown <=> r.type # ""

LEMMA RecordsShown == DInv => Shown
<1> SUFFICES ASSUME DInv, NEW i \in DOMAIN snapshot
             PROVE  LET e == Enriched(snapshot[i])  r == recs[snapshot[i].mac]
                    IN /\ e.note = r.note
                       /\ e.host.len = r.host.len
                       /\ e.type # TypeUnknown <=> r.type # ""
  BY DEF Shown
<1> DEFINE d == snapshot[i]
           r == recs[d.mac]
           note == IF r.note # NoNote THEN r.note ELSE d.note
           host == IF r.host.len > d.host.len THEN r.host ELSE d.host
           type == IF d.type = TypeUnknown /\ r.type # "" THEN r.type ELSE d.type
<1>1. snapshot \in Seq(Row) /\ recs \in [Macs -> Recs] /\ Recorded
  BY DEF DInv, DTyped
<1>2. d \in Row
  BY Listed DEF DInv
<1>3. r \in Recs
  BY <1>1, <1>2 DEF Row
<1>4. Covered(d, r)
  BY <1>1 DEF Recorded
<1> HIDE DEF d, r
<1>5. d.note = NoNote /\ d.host.len \in Nat /\ r.host.len \in Nat
  BY <1>2, <1>3, NumbersOfNames DEF Row, Recs
<1>6. r.known /\ d.host.len <= r.host.len /\ (d.type # TypeUnknown => r.type # "")
  BY <1>4 DEF Covered
<1>7. note = r.note
  BY <1>5
<1>8. host.len = r.host.len
  <2>1. CASE r.host.len > d.host.len
    BY <2>1
  <2>2. CASE ~(r.host.len > d.host.len)
    <3>1. host = d.host
      BY <2>2
    <3>2. d.host.len = r.host.len
      <4>1. \A a, b \in Nat : a <= b /\ ~(b > a) => a = b
        OBVIOUS
      <4> QED BY <1>5, <1>6, <2>2, <4>1
    <3> HIDE DEF host
    <3> QED BY <3>1, <3>2
  <2> QED BY <2>1, <2>2
<1>9. type # TypeUnknown <=> r.type # ""
  BY <1>3, <1>6, TypesNamed DEF Recs
<1>10. Enriched(d) = [d EXCEPT !.note = note, !.host = host, !.type = type]
  BY <1>6 DEF Enriched, r
<1> HIDE DEF note, host, type
<1>11. Enriched(d).note = note /\ Enriched(d).host = host /\ Enriched(d).type = type
  BY <1>2, <1>10 DEF Row
<1> QED BY <1>7, <1>8, <1>9, <1>11 DEF d, r

\* Every variable keeps its type: addresses, names and notes are those of the
\* network and of the users, and a list has no MAC the database has not.
THEOREM DevicesTypeCorrect == Spec => []DevicesTypeOK
<1>1. DInv => DevicesTypeOK
  <2> SUFFICES ASSUME DInv PROVE DevicesTypeOK
    OBVIOUS
  <2>1. DTyped
    BY DEF DInv
  <2>2. \A i \in DOMAIN snapshot : snapshot[i] \in Row
    BY <2>1, Listed
  <2>3. Range(mdns) \subseteq Names
    BY <2>1 DEF DTyped, Range
  <2> QED BY <2>1, <2>2, <2>3 DEF DTyped, DevicesTypeOK, Row, Recs
<1> QED BY <1>1, DInvariant, PTL

\* Whatever scans, answers, new addresses, saves and restarts come in between, the
\* record of a client has a name of its own, one that came with an address it has
\* had, or one that a pointer sent from there has named.
THEOREM NamesStayOwn == Spec => []NamesAreOwn
<1>1. DInv => NamesAreOwn
  BY DEF DInv, Owned, OwnHost, NamesAreOwn
<1> QED BY <1>1, DInvariant, PTL

\* A row of /devices shows the note that was set last, or was loaded, whatever
\* comes in between, unless the configuration names the device.
THEOREM ListsShowNotes == Spec => []NotesShown
<1>1. DInv => NotesShown
  <2> SUFFICES ASSUME DInv, NEW i \in DOMAIN snapshot, noted[snapshot[i].mac] # NoNote,
                      NameIn(ConfigName, snapshot[i].mac) = NoName
               PROVE  ListName(snapshot[i]) = <<"note", noted[snapshot[i].mac]>>
    BY DEF NotesShown
  <2>1. snapshot[i].mac \in Macs
    BY Listed DEF DInv
  <2>2. Enriched(snapshot[i]).note = noted[snapshot[i].mac]
    BY <2>1, RecordsShown DEF DInv, NotesKept, Shown
  <2> QED BY <2>2 DEF ListName, DisplayName
<1> QED BY <1>1, DInvariant, PTL

\* Two rows of a list for one device are two entries of the ARP table, or two
\* leases, with two addresses.
THEOREM OneRowPerAddress == Spec => []ListedOnce
<1>1. DInv => ListedOnce
  BY DEF DInv
<1> QED BY <1>1, DInvariant, PTL

\* A row of /arp shows the note of the device at the address.
THEOREM ARPShowsNotes == Spec => []RowsShowNotes
<1>1. DInv => RowsShowNotes
  <2> SUFFICES ASSUME DInv, NEW ip \in LanIPs, arp[ip] \in Clients
               PROVE  LET m == arp[ip]
                      IN \/ \E i \in DOMAIN snapshot :
                              snapshot[i].ip = ip /\ snapshot[i].mac # m
                         \/ noted[m] = NoNote
                         \/ ARPRow(ip, m) = <<"note", noted[m]>>
    BY DEF RowsShowNotes
  <2> DEFINE m == arp[ip]
             at == {i \in DOMAIN snapshot : snapshot[i].ip = ip}
  <2>1. m \in Macs /\ recs[m].note = noted[m]
    BY DEF DInv, NotesKept, Macs
  <2>2. CASE at = {}
    BY <2>1, <2>2 DEF ARPRow
  <2>3. CASE at # {}
    <3>1. DOMAIN snapshot = 1 .. Len(snapshot) /\ Len(snapshot) \in Nat
      BY LenProperties DEF DInv, DTyped
    <3>2. at \subseteq Nat /\ \A x \in at : x <= Len(snapshot)
      BY <3>1
    <3>3. Max(at) \in at
      <4> HIDE DEF at
      <4> QED BY <2>3, <3>1, <3>2, GreatestIsIn
    <3>4. ARPRow(ip, m) = DisplayName(Enriched(snapshot[Max(at)]))
      BY <2>3 DEF ARPRow
    <3> DEFINE i == Max(at)
    <3>5. i \in DOMAIN snapshot /\ snapshot[i].ip = ip
      BY <3>3
    <3> HIDE DEF i
    <3>6. Enriched(snapshot[i]).note = recs[snapshot[i].mac].note
      BY <3>5, RecordsShown DEF Shown
    <3>7. ARPRow(ip, m) = DisplayName(Enriched(snapshot[i]))
      BY <3>4 DEF i
    <3> QED BY <2>1, <3>5, <3>6, <3>7 DEF DisplayName
  <2> QED BY <2>2, <2>3
<1> QED BY <1>1, DInvariant, PTL

\* A note for an address goes to the one device that had it in the last scan,
\* when no other record has the address.
THEOREM NotesReachHolders == Spec => []NoteReachesHolder
<1>1. DInv => NoteReachesHolder
  <2> SUFFICES ASSUME DInv, NEW m \in Clients, NEW ip \in LanIPs,
                      NEW i \in DOMAIN snapshot, snapshot[i].mac = m, Only(ip, m),
                      \A k \in Macs \ {m} : recs[k].lastIP # ip
               PROVE  Target(ip) = {m}
    BY DEF NoteReachesHolder
  <2>1. ip \notin Macs /\ m \in Macs
    BY Addresses, LanAssumption DEF Macs
  <2>2. recs[m].known /\ recs[m].lastIP = ip
    BY DEF DInv, Recorded, Covered, Only
  <2> QED BY <2>1, <2>2 DEF Target
<1> QED BY <1>1, DInvariant, PTL

\* A record gets no shorter name and does not lose its type, except in a restart.
LEMMA RecordsGrow ==
  ASSUME DInv, [Next]_vars, ~Restart, NEW m \in Macs
  PROVE  recs[m].host.len <= recs'[m].host.len /\ (recs[m].type # "" => recs'[m].type # "")
<1>1. recs \in [Macs -> Recs]
  BY DEF DInv, DTyped
<1>2. recs[m] \in Recs /\ recs[m].host.len <= recs[m].host.len
  BY <1>1, NumbersOfNames, Ordered, Zenon DEF Recs
<1>3. CASE CollectSlow
  BY <1>3, Collected DEF DInv, Grown
<1>4. ASSUME NEW key, NEW note, SetNote(key, note)
      PROVE  recs'[m].host = recs[m].host /\ recs'[m].type = recs[m].type
  <2>1. PICK k \in Macs : recs' = [recs EXCEPT ![k].note = note]
    BY <1>4 DEF SetNote, Target
  <2> QED BY <1>1, <2>1 DEF Recs
<1>5. CASE UNCHANGED recs
  BY <1>2, <1>5
<1>6. \/ CollectSlow \/ UNCHANGED recs
      \/ \E key \in Keys, note \in Notes \cup {NoNote} : SetNote(key, note)
  BY DEF Next, Join, Leave, LeaseEnds, Announce, ArpAges, Save, vars
<1> QED BY <1>2, <1>3, <1>4, <1>5, <1>6

\* No step shows less of a device than the list before it.
THEOREM ListsNeverPoorer == Spec => NeverPoorer
<1> DEFINE Richer ==
      \A i \in DOMAIN snapshot, j \in DOMAIN snapshot' :
        snapshot[i].mac = snapshot'[j].mac =>
          LET old == Enriched(snapshot[i])  new == Enriched(snapshot[j])'
          IN /\ old.host.len <= new.host.len
             /\ old.type # TypeUnknown => new.type # TypeUnknown
<1>1. DInv /\ DInv' /\ Shown /\ Shown' /\ [Next]_vars => Richer
  <2> SUFFICES ASSUME DInv, DInv', Shown, Shown', [Next]_vars,
                      NEW i \in DOMAIN snapshot, NEW j \in DOMAIN snapshot',
                      snapshot[i].mac = snapshot'[j].mac
               PROVE  LET old == Enriched(snapshot[i])  new == Enriched(snapshot[j])'
                      IN /\ old.host.len <= new.host.len
                         /\ old.type # TypeUnknown => new.type # TypeUnknown
    OBVIOUS
  <2> DEFINE m == snapshot[i].mac
  <2>1. ~Restart
    BY DEF Restart
  <2>2. m \in Macs
    BY Listed DEF DInv
  <2>3. recs[m].host.len <= recs'[m].host.len /\ (recs[m].type # "" => recs'[m].type # "")
    BY <2>1, <2>2, RecordsGrow
  <2>4. /\ Enriched(snapshot[i]).host.len = recs[m].host.len
        /\ Enriched(snapshot[i]).type # TypeUnknown <=> recs[m].type # ""
    BY DEF Shown
  <2>5. /\ Enriched(snapshot[j])'.host.len = recs'[m].host.len
        /\ Enriched(snapshot[j])'.type # TypeUnknown <=> recs'[m].type # ""
    BY DEF Shown
  <2> QED BY <2>3, <2>4, <2>5
<1>2. DInv /\ DInv' /\ [Next]_vars => [Richer]_vars
  BY <1>1, RecordsShown, PTL
<1> QED BY <1>2, DInvariant, PTL DEF Spec, NeverPoorer

-----------------------------------------------------------------------------
(* The way to the disk, for any number of records, notes, files and        *)
(* savers, whose saves may overlap: MCDevDBFile_overlap.cfg shows what     *)
(* they do then.                                                           *)

LEMMA BlankTyped == Blank \in Texts
BY NoteAssumption DEF Blank, Texts, NoteValues

LEMMA FileTyped ==
  ASSUME NEW d \in Texts, NEW old \in [len : Nat, json : BOOLEAN, text : Texts]
  PROVE  /\ Empty \in [len : Nat, json : BOOLEAN, text : Texts]
         /\ NotJSON(LenOf(d)) \in [len : Nat, json : BOOLEAN, text : Texts]
         /\ Overwrite(old, d) \in [len : Nat, json : BOOLEAN, text : Texts]
BY BlankTyped, LenAssumption DEF Empty, NotJSON, Overwrite

LEMMA NoneTyped == /\ {} \in SUBSET [rec : Records, note : NoteValues]
                   /\ Cardinality({}) <= 1
<1>1. Cardinality({}) = 0
  BY FS_EmptySet
<1> QED
  BY <1>1

LEMMA InitTyped == FileInit => FileTypeOK
<1> SUFFICES ASSUME FileInit PROVE FileTypeOK
  OBVIOUS
<1>1. file \in [Inodes -> [len : Nat, json : BOOLEAN, text : Texts]]
  BY BlankTyped DEF FileInit, Empty, NotJSON
<1>2. editing \in SUBSET [rec : Records, note : NoteValues] /\ Cardinality(editing) <= 1
  BY NoneTyped DEF FileInit
<1> QED
  BY <1>1, <1>2, BlankTyped DEF FileInit, FileTypeOK

LEMMA NextTyped == FileTypeOK /\ [FileNext]_fileVars => FileTypeOK'
<1> SUFFICES ASSUME FileTypeOK, [FileNext]_fileVars PROVE FileTypeOK'
  OBVIOUS
<1> USE DEF FileTypeOK
<1>1. ASSUME NEW r \in Records, NEW note \in NoteValues, BeginNote(r, note)
      PROVE  FileTypeOK'
  <2>1. editing' \in SUBSET [rec : Records, note : NoteValues]
    BY <1>1 DEF BeginNote
  <2>2. Cardinality(editing') = 1
    BY <1>1, FS_Singleton DEF BeginNote
  <2> QED
    BY <1>1, <2>1, <2>2 DEF BeginNote, savers, files, history
<1>2. ASSUME NEW s \in Savers, EndNote(s) \/ ScanSaves(s)
      PROVE  FileTypeOK'
  <2>1. mem' \in Texts
    BY <1>2 DEF EndNote, ScanSaves, memory, Texts
  <2>2. editing' \in SUBSET [rec : Records, note : NoteValues] /\ Cardinality(editing') <= 1
    BY <1>2, NoneTyped DEF EndNote, ScanSaves, memory
  <2> QED
    BY <1>2, <2>1, <2>2 DEF EndNote, ScanSaves, StartSave, files
<1>3. ASSUME NEW s \in Savers, Snapshot(s)
      PROVE  FileTypeOK'
  BY <1>3 DEF Snapshot, memory, files, history
<1>4. ASSUME NEW s \in Savers, NEW r \in Records, Marshal(s, r)
      PROVE  FileTypeOK'
  <2>1. PICK note \in Readable(r) : data' = [data EXCEPT ![s][r] = note]
    BY <1>4 DEF Marshal
  <2>2. note \in NoteValues \union {Torn}
    BY <2>1 DEF Readable, Texts
  <2>3. data' \in [Savers -> Texts]
    BY <2>1, <2>2 DEF Texts
  <2> QED
    BY <1>4, <2>3 DEF Marshal, memory, files, history
<1>5. ASSUME NEW s \in Savers, Open(s)
      PROVE  FileTypeOK'
  <2>1. PICK i \in IF tmp = NoFile THEN Unused ELSE {tmp} :
          tmp' = i /\ file' = [file EXCEPT ![i] = Empty] /\ fd' = [fd EXCEPT ![s] = i]
    BY <1>5 DEF Open
  <2>2. i \in Inodes
    BY <2>1 DEF Unused
  <2>3. file' \in [Inodes -> [len : Nat, json : BOOLEAN, text : Texts]]
    BY <2>1, <2>2, BlankTyped DEF Empty, NotJSON
  <2> QED
    BY <1>5, <2>1, <2>2, <2>3 DEF Open, memory, history
<1>6. ASSUME NEW s \in Savers, Write(s)
      PROVE  FileTypeOK'
  <2>1. file' \in [Inodes -> [len : Nat, json : BOOLEAN, text : Texts]]
    BY <1>6, FileTyped DEF Write
  <2> QED
    BY <1>6, <2>1 DEF Write, memory, history
<1>7. ASSUME NEW s \in Savers, Rename(s)
      PROVE  FileTypeOK'
  <2>1. pc' \in [Savers -> {"idle", "snapshot", "marshal", "open", "write", "rename"}]
    BY <1>7 DEF Rename, Ends
  <2>2. data' \in [Savers -> Texts] /\ apart' \in SUBSET Savers
    BY <1>7, BlankTyped DEF Rename, Ends
  <2>3. intact' \in BOOLEAN /\ failed' \in BOOLEAN
    <3>1. \A x \in Savers : (x \in apart) \in BOOLEAN
      OBVIOUS
    <3>2. intact' = (IF tmp = NoFile THEN intact ELSE s \in apart) /\ failed' = (tmp = NoFile)
      BY <1>7 DEF Rename
    <3> QED BY <3>1, <3>2, Zenon
  <2>4. path' \in Inodes \union {NoFile} /\ tmp' = NoFile
    BY <1>7 DEF Rename
  <2> QED
    BY <1>7, <2>1, <2>2, <2>3, <2>4 DEF Rename, memory
<1>8. ASSUME NEW s \in Savers, Fail(s)
      PROVE  FileTypeOK'
  <2>1. file' \in [Inodes -> [len : Nat, json : BOOLEAN, text : Texts]]
    BY <1>8, FileTyped DEF Fail
  <2> QED
    BY <1>8, <2>1, BlankTyped DEF Fail, Ends, memory
<1>9. CASE Reload
  <2>1. Loaded \in Texts
    BY BlankTyped DEF Loaded
  <2> QED
    BY <1>9, <2>1, BlankTyped, NoneTyped DEF Reload, files
<1>10. CASE UNCHANGED fileVars
  BY <1>10 DEF fileVars, memory, savers, files, history
<1> QED
  BY <1>1, <1>2, <1>3, <1>4, <1>5, <1>6, <1>7, <1>8, <1>9, <1>10 DEF FileNext, SaverStep

\* Every variable keeps its type, however many saves overlap.
THEOREM FileTypeCorrect == FileSpec => []FileTypeOK
BY InitTyped, NextTyped, PTL DEF FileSpec

-----------------------------------------------------------------------------
(* A save that no other overlaps writes what is in memory, into a file     *)
(* that nobody has under the name devices.json.                            *)

\* There is one such save, or none.
Apart == \A s \in apart : pc[s] # "idle" /\ \A other \in Savers \ {s} : pc[other] = "idle"

\* The file under the final name is out of reach for every saver.
OutOfReach ==
  /\ \A s \in Savers : pc[s] # "write" => fd[s] = NoFile
  /\ tmp # NoFile => tmp # path
  /\ intact => \A s \in Savers : fd[s] # NoFile => fd[s] # path

\* How far such a save has come: as long as no note is being set, what it has
\* marshalled is in memory.
Marshalled(s) ==
  /\ editing = {} => \A r \in Records \ todo[s] : data[s][r] = mem[r]
  /\ pc[s] \in {"open", "write", "rename"} => todo[s] = {}
Written(s) ==
  /\ pc[s] = "write" => fd[s] = tmp /\ tmp # NoFile /\ file[tmp].len = 0
  /\ pc[s] = "rename" => tmp # NoFile /\ file[tmp].json /\ file[tmp].text = data[s]
Saved == \A s \in apart : /\ pc[s] # "snapshot" => Marshalled(s)
                          /\ Written(s)

FileInv == FileTypeOK /\ Apart /\ OutOfReach /\ Saved /\ Loadable /\ NotesOnDisk

\* A step of one saver is a step of the only one, or nobody is apart.
LEMMA OnlyOne ==
  ASSUME FileInv, NEW s \in Savers, pc[s] # "idle"
  PROVE  apart \subseteq {s}
BY DEF FileInv, Apart, FileTypeOK

\* While a save is under way there is nothing to be said about the notes.
LEMMA UnderWay ==
  ASSUME NEW s \in Savers, pc'[s] # "idle"
  PROVE  NotesOnDisk'
BY DEF NotesOnDisk, Quiescent

\* A save begins: it is apart if there is no other, and then there was none before.
LEMMA StartKeeps ==
  ASSUME FileInv, NEW s \in Savers, EndNote(s) \/ ScanSaves(s)
  PROVE  FileInv'
<1>1. /\ pc[s] = "idle" /\ pc' = [pc EXCEPT ![s] = "snapshot"]
      /\ apart' = IF \A other \in Savers : pc[other] = "idle" THEN {s} ELSE {}
      /\ UNCHANGED <<todo, data, fd, files, intact, failed>>
  BY DEF EndNote, ScanSaves, StartSave
<1>2. pc'[s] = "snapshot" /\ \A other \in Savers \ {s} : pc'[other] = pc[other]
  BY <1>1 DEF FileInv, FileTypeOK
<1>3. FileTypeOK'
  BY NextTyped DEF FileInv, FileNext
<1>4. Apart' /\ OutOfReach' /\ Saved' /\ Loadable'
  BY <1>1, <1>2 DEF FileInv, Apart, OutOfReach, Saved, Written, Loadable, files
<1> QED BY <1>2, <1>3, <1>4, UnderWay DEF FileInv

LEMMA MarshalKeeps ==
  ASSUME FileInv, NEW s \in Savers, NEW r \in Records, Marshal(s, r)
  PROVE  FileInv'
<1>1. /\ pc[s] = "marshal" /\ pc'[s] \in {"marshal", "open"}
      /\ pc'[s] = "open" => todo[s] = {r}
      /\ todo'[s] = todo[s] \ {r}
      /\ \A other \in Savers \ {s} : pc'[other] = pc[other]
      /\ UNCHANGED <<memory, fd, files, history>>
  BY DEF Marshal, FileInv, FileTypeOK
<1>2. FileTypeOK' /\ FileTypeOK /\ apart \subseteq {s}
  BY <1>1, NextTyped, OnlyOne DEF FileInv, FileNext, SaverStep
<1>3. PICK note \in Readable(r) : data' = [data EXCEPT ![s][r] = note]
  BY DEF Marshal
<1>4. editing = {} => note = mem[r]
  BY <1>3 DEF Readable
<1>5. \A x \in Records : data'[s][x] = IF x = r THEN note ELSE data[s][x]
  BY <1>2, <1>3 DEF FileTypeOK, Texts
<1>6. Apart' /\ OutOfReach' /\ Loadable'
  BY <1>1 DEF FileInv, Apart, OutOfReach, Loadable, files, history
<1>7. Saved'
  <2> SUFFICES ASSUME s \in apart PROVE Marshalled(s)' /\ Written(s)'
    BY <1>1, <1>2 DEF Saved, history
  <2>1. Marshalled(s)
    BY <1>1 DEF FileInv, Saved
  <2> QED BY <1>1, <1>4, <1>5, <2>1 DEF Marshalled, Written, memory, files
<1> QED BY <1>1, <1>2, <1>6, <1>7, UnderWay DEF FileInv

LEMMA OpenKeeps ==
  ASSUME FileInv, NEW s \in Savers, Open(s)
  PROVE  FileInv'
<1>1. PICK i \in IF tmp = NoFile THEN Unused ELSE {tmp} :
        tmp' = i /\ file' = [file EXCEPT ![i] = Empty] /\ fd' = [fd EXCEPT ![s] = i]
  BY DEF Open
<1>2. /\ pc[s] = "open" /\ pc' = [pc EXCEPT ![s] = "write"]
      /\ UNCHANGED <<memory, todo, data, path, history>>
  BY DEF Open
<1>3. FileTypeOK' /\ FileTypeOK /\ apart \subseteq {s}
  BY <1>2, NextTyped, OnlyOne DEF FileInv, FileNext, SaverStep
<1>4. i \in Inodes /\ i # path /\ i # NoFile
  BY <1>1, <1>3, InodeAssumption DEF Unused, FileInv, OutOfReach, FileTypeOK
<1>5. /\ pc'[s] = "write" /\ fd'[s] = i /\ file'[i].len = 0
      /\ \A other \in Savers \ {s} : pc'[other] = pc[other] /\ fd'[other] = fd[other]
      /\ path # NoFile => file'[path] = file[path]
  BY <1>1, <1>2, <1>3, <1>4 DEF FileTypeOK, Empty, NotJSON
<1>6. Apart' /\ OutOfReach' /\ Loadable'
  BY <1>1, <1>2, <1>4, <1>5 DEF FileInv, Apart, OutOfReach, Loadable, history
<1>7. Saved'
  <2> SUFFICES ASSUME s \in apart PROVE Marshalled(s)' /\ Written(s)'
    BY <1>2, <1>3 DEF Saved, history
  <2>1. Marshalled(s)
    BY <1>2 DEF FileInv, Saved
  <2> QED BY <1>1, <1>2, <1>4, <1>5, <2>1 DEF Marshalled, Written, memory
<1> QED BY <1>3, <1>5, <1>6, <1>7, UnderWay DEF FileInv

LEMMA WriteKeeps ==
  ASSUME FileInv, NEW s \in Savers, Write(s)
  PROVE  FileInv'
<1>1. /\ pc[s] = "write" /\ pc' = [pc EXCEPT ![s] = "rename"]
      /\ file' = [file EXCEPT ![fd[s]] = Overwrite(@, data[s])]
      /\ fd' = [fd EXCEPT ![s] = NoFile]
      /\ UNCHANGED <<memory, todo, data, tmp, path, history>>
  BY DEF Write
<1>2. FileTypeOK' /\ FileTypeOK /\ apart \subseteq {s}
  BY <1>1, NextTyped, OnlyOne DEF FileInv, FileNext, SaverStep
<1>3. /\ pc'[s] = "rename" /\ fd'[s] = NoFile
      /\ \A other \in Savers \ {s} : pc'[other] = pc[other] /\ fd'[other] = fd[other]
  BY <1>1, <1>2 DEF FileTypeOK
<1>4. intact /\ path # NoFile => file'[path] = file[path]
  BY <1>1, <1>2, InodeAssumption DEF FileInv, OutOfReach, FileTypeOK
<1>5. Apart' /\ OutOfReach' /\ Loadable'
  BY <1>1, <1>3, <1>4 DEF FileInv, Apart, OutOfReach, Loadable, history
<1>6. Saved'
  <2> SUFFICES ASSUME s \in apart PROVE Marshalled(s)' /\ Written(s)'
    BY <1>1, <1>2 DEF Saved, history
  <2>1. Marshalled(s) /\ fd[s] = tmp /\ tmp \in Inodes /\ file[tmp].len = 0 /\ tmp # NoFile
    BY <1>1, <1>2 DEF FileInv, Saved, Written, FileTypeOK
  <2>2. Overwrite(file[tmp], data[s]) = [len |-> LenOf(data[s]), json |-> TRUE, text |-> data[s]]
    BY <1>2, <2>1, LenAssumption DEF Overwrite, FileTypeOK
  <2>3. file'[tmp].json /\ file'[tmp].text = data[s]
    BY <1>1, <1>2, <2>1, <2>2 DEF FileTypeOK
  <2> QED BY <1>1, <1>3, <2>1, <2>3 DEF Marshalled, Written, memory
<1> QED BY <1>2, <1>3, <1>5, <1>6, UnderWay DEF FileInv

LEMMA RenameKeeps ==
  ASSUME FileInv, NEW s \in Savers, Rename(s)
  PROVE  FileInv'
<1>1. /\ pc[s] = "rename" /\ pc' = [pc EXCEPT ![s] = "idle"]
      /\ path' = IF tmp = NoFile THEN path ELSE tmp
      /\ tmp' = NoFile /\ failed' = (tmp = NoFile)
      /\ intact' = IF tmp = NoFile THEN intact ELSE s \in apart
      /\ apart' = apart \ {s}
      /\ UNCHANGED <<memory, todo, fd, file>>
  BY DEF Rename, Ends
<1>2. FileTypeOK' /\ FileTypeOK /\ apart' = {}
  BY <1>1, NextTyped, OnlyOne DEF FileInv, FileNext, SaverStep
<1>3. Apart' /\ Saved'
  BY <1>2 DEF Apart, Saved
<1>4. CASE tmp = NoFile
  BY <1>1, <1>2, <1>3, <1>4 DEF FileInv, OutOfReach, Loadable, NotesOnDisk, FileTypeOK
<1>5. CASE tmp # NoFile /\ s \notin apart
  <2>1. ~intact'
    BY <1>1, <1>5
  <2>2. OutOfReach'
    BY <1>1, <1>2, <2>1 DEF FileInv, OutOfReach, FileTypeOK
  <2> QED BY <1>2, <1>3, <2>1, <2>2 DEF FileInv, Loadable, NotesOnDisk
<1>6. CASE tmp # NoFile /\ s \in apart
  <2>1. /\ Marshalled(s) /\ file[tmp].json /\ file[tmp].text = data[s] /\ todo[s] = {}
        /\ \A other \in Savers : fd[other] = NoFile
    BY <1>1, <1>6 DEF FileInv, Saved, Written, Marshalled, Apart, OutOfReach
  <2>2. OutOfReach' /\ Loadable'
    BY <1>1, <1>6, <2>1 DEF OutOfReach, Loadable
  <2>3. editing = {} => data[s] = mem
    BY <1>2, <2>1 DEF Marshalled, FileTypeOK, Texts
  <2>4. NotesOnDisk'
    BY <1>1, <1>6, <2>1, <2>3 DEF NotesOnDisk, Quiescent, Loaded, memory
  <2> QED BY <1>2, <1>3, <2>2, <2>4 DEF FileInv
<1> QED BY <1>4, <1>5, <1>6

LEMMA FailKeeps ==
  ASSUME FileInv, NEW s \in Savers, Fail(s)
  PROVE  FileInv'
<1>1. /\ pc[s] # "idle" /\ pc' = [pc EXCEPT ![s] = "idle"]
      /\ file' = IF pc[s] = "write"
                 THEN [file EXCEPT ![fd[s]] = NotJSON(LenOf(data[s]))]
                 ELSE file
      /\ fd' = [fd EXCEPT ![s] = NoFile]
      /\ failed' /\ apart' = apart \ {s}
      /\ UNCHANGED <<tmp, path, intact>>
  BY DEF Fail, Ends
<1>2. FileTypeOK' /\ FileTypeOK /\ apart' = {}
  BY <1>1, NextTyped, OnlyOne DEF FileInv, FileNext, SaverStep
<1>3. /\ pc'[s] = "idle" /\ fd'[s] = NoFile
      /\ \A other \in Savers \ {s} : pc'[other] = pc[other] /\ fd'[other] = fd[other]
  BY <1>1, <1>2 DEF FileTypeOK
<1>4. intact /\ path # NoFile => file'[path] = file[path]
  BY <1>1, <1>2, InodeAssumption DEF FileInv, OutOfReach, FileTypeOK
<1>5. Apart' /\ Saved' /\ OutOfReach' /\ Loadable' /\ NotesOnDisk'
  BY <1>1, <1>2, <1>3, <1>4 DEF FileInv, Apart, Saved, OutOfReach, Loadable, NotesOnDisk
<1> QED BY <1>2, <1>5 DEF FileInv

LEMMA NextFileInv == FileInv /\ [FileNext]_fileVars => FileInv'
<1> SUFFICES ASSUME FileInv, [FileNext]_fileVars PROVE FileInv'
  OBVIOUS
<1>0. FileTypeOK /\ FileTypeOK'
  BY NextTyped DEF FileInv
<1>1. ASSUME NEW r \in Records, NEW note \in NoteValues, BeginNote(r, note)
      PROVE  FileInv'
  <2>1. editing' # {} /\ UNCHANGED <<mem, savers, files, history>>
    BY <1>1 DEF BeginNote
  <2>2. Apart' /\ OutOfReach' /\ Loadable' /\ NotesOnDisk'
    BY <2>1 DEF FileInv, Apart, OutOfReach, Loadable, NotesOnDisk, Quiescent, savers, files,
       history
  <2>3. Saved'
    BY <2>1 DEF FileInv, Saved, Marshalled, Written, savers, files, history
  <2> QED BY <1>0, <2>2, <2>3 DEF FileInv
<1>2. ASSUME NEW s \in Savers, EndNote(s) \/ ScanSaves(s)
      PROVE  FileInv'
  BY <1>2, StartKeeps
<1>3. ASSUME NEW s \in Savers, Snapshot(s)
      PROVE  FileInv'
  <2>1. /\ pc[s] = "snapshot" /\ pc'[s] = "marshal" /\ todo'[s] = Records
        /\ \A other \in Savers \ {s} : pc'[other] = pc[other]
        /\ UNCHANGED <<memory, data, fd, files, history>>
    BY <1>0, <1>3 DEF Snapshot, FileTypeOK
  <2>2. apart \subseteq {s}
    BY <2>1, OnlyOne
  <2>3. Apart' /\ OutOfReach' /\ Loadable'
    BY <2>1 DEF FileInv, Apart, OutOfReach, Loadable, files, history
  <2>4. Saved'
    BY <2>1, <2>2 DEF Saved, Marshalled, Written, history
  <2> QED BY <1>0, <2>1, <2>3, <2>4, UnderWay DEF FileInv
<1>4. ASSUME NEW s \in Savers, NEW r \in Records, Marshal(s, r)
      PROVE  FileInv'
  BY <1>4, MarshalKeeps
<1>5. ASSUME NEW s \in Savers, Open(s) \/ Write(s) \/ Rename(s) \/ Fail(s)
      PROVE  FileInv'
  BY <1>5, OpenKeeps, WriteKeeps, RenameKeeps, FailKeeps
<1>6. CASE Reload
  <2>1. /\ apart' = {} /\ mem' = Loaded /\ UNCHANGED <<files, intact>>
        /\ \A s \in Savers : fd'[s] = NoFile
    BY <1>6 DEF Reload
  <2>2. Apart' /\ Saved' /\ OutOfReach' /\ Loadable'
    BY <2>1 DEF FileInv, Apart, Saved, OutOfReach, Loadable, files
  <2>3. NotesOnDisk'
    BY <2>1 DEF NotesOnDisk, Loaded, files
  <2> QED BY <1>0, <2>2, <2>3 DEF FileInv
<1>7. CASE UNCHANGED fileVars
  <2>1. UNCHANGED <<mem, editing, pc, todo, data, fd, tmp, path, file, apart, intact, failed>>
    BY <1>7 DEF fileVars, memory, savers, files, history
  <2> QED BY <1>0, <2>1 DEF FileInv, Apart, OutOfReach, Saved, Marshalled, Written, Loadable,
             NotesOnDisk, Quiescent, Loaded
<1> QED
  BY <1>1, <1>2, <1>3, <1>4, <1>5, <1>6, <1>7 DEF FileNext, SaverStep

LEMMA FileInvariant == FileSpec => []FileInv
<1>1. FileInit => FileInv
  BY InitTyped
  DEF FileInit, FileInv, Apart, OutOfReach, Saved, Loadable, NotesOnDisk, Loaded
<1> QED
  BY <1>1, NextFileInv, PTL DEF FileSpec

\* A file that was put there by a save that overlapped no other can be parsed,
\* whatever other saves do afterwards, whatever fails and whenever the process
\* dies, for any number of saves (devdb.go:77-85).
THEOREM ApartLoadable == FileSpec => []Loadable
<1>1. FileInv => Loadable
  BY DEF FileInv
<1> QED
  BY <1>1, FileInvariant, PTL

\* When all is quiet after a save that overlapped no other and did not fail, the
\* notes users have set are on disk, however saves overlapped and failed before
\* (devdb.go:60-85, 145, 152).
THEOREM ApartKeepsNotes == FileSpec => []NotesOnDisk
<1>1. FileInv => NotesOnDisk
  BY DEF FileInv
<1> QED
  BY <1>1, FileInvariant, PTL
=============================================================================
