------------------------------- MODULE DevDB -------------------------------
(***************************************************************************)
(* The device database of internal/collector/devdb.go in memory, the scans *)
(* of the collector that feed it, the mDNS listener, and what /devices and *)
(* /arp show, on a network whose devices come, go and get new addresses.   *)
(* Saves run on their own, may fail, and are lost when the process dies;   *)
(* the files they write are module DevDBFile.  The network is external.    *)
(***************************************************************************)
EXTENDS Devices

CONSTANTS
  Clients,     \* the devices of the LAN
  Gateway,     \* the neighbour on the WAN side
  ZeroMAC,     \* the MAC of an entry that is being resolved
  LanIPs,      \* addresses of the LAN, above NoIP; the gateway's comes next
  NoMAC,       \* no entry
  LanIface,
  HostName,    \* HostName[m]: what client m calls itself in DHCP
  MDNSName,    \* MDNSName[m]: what it calls itself in mDNS
  ServiceNames,\* what the names of service types begin with
  Ethers,      \* Ethers[m]: its name in /etc/ethers
  VendorOf,    \* VendorOf[m]: the vendor of its MAC, as a name
  DNS,         \* DNS[ip]: the name the local DNS server has for an address
  ConfigName,  \* ConfigName[m]: its name under [devices] in the configuration
  Notes, Keys, \* what users note, and the MACs and addresses they note it for
  MaxActs,     \* bound on what devices do: join, and send mDNS records
  MaxSaves     \* bound on the saves under way

Macs == Clients \cup {Gateway}
GatewayIP == Max(LanIPs) + 1
IPs == LanIPs \cup {GatewayIP}

\* What an mDNS name may begin with.
Labels == Range(MDNSName) \cup ServiceNames
Names == {NoName} \cup Range(HostName) \cup Labels \cup Range(Ethers) \cup Range(DNS)

ASSUME LanAssumption == /\ IsFiniteSet(LanIPs) /\ LanIPs # {} /\ LanIPs \subseteq Nat \ {NoIP}
                        /\ IsFiniteSet(Clients) /\ Macs \cap IPs = {}
                        /\ {Gateway, ZeroMAC, NoMAC} \cap Clients = {}
                        /\ Gateway \notin {ZeroMAC, NoMAC}
                        /\ LanIface # NoIface /\ NoNote \notin Notes
                        /\ \A name \in Names : name.len \in Nat

VARIABLES
  addr,     \* addr[m]: the address client m is using, or NoIP
  lease,    \* lease[ip]: the client the lease file has for an address, or NoMAC
  arp,      \* arp[ip]: the MAC in the ARP table, complete unless it is ZeroMAC
  acts,     \* how often devices have joined or sent a record
  mdns,     \* mdnsCache
  snapshot, \* Devices of the collector's snapshot
  recs,     \* recs[m]: the record of DevDB, or NoRecord
  saving,   \* how many saves have been started and not ended
  disk,     \* the records in devices.json
  been,     \* history: the addresses a client has had
  heard,    \* history: what pointers from an address have named
  noted     \* history: the note set last, or the one this process has loaded

network == <<addr, lease, arp, acts, been>>
cache == <<mdns, heard>>
saves == <<saving, disk>>
vars == <<network, cache, snapshot, recs, saves, noted>>

NoRecord == [known |-> FALSE, host |-> NoName, vendor |-> NoName, type |-> "",
             note |-> NoNote, lastIP |-> NoIP]

\* Without a file, or with one that is not JSON, a database starts fresh.
Fresh == [m \in Macs |-> NoRecord]

Init ==
  /\ addr = [m \in Clients |-> NoIP]
  /\ lease = [ip \in LanIPs |-> NoMAC]
  /\ arp = [ip \in IPs |-> IF ip = GatewayIP THEN Gateway ELSE NoMAC]
  /\ acts = 0
  /\ mdns = <<>>
  /\ snapshot = <<>>
  /\ recs = Fresh
  /\ saving = 0 /\ disk = Fresh
  /\ been = [m \in Clients |-> {}]
  /\ heard = [ip \in LanIPs |-> {}]
  /\ noted = [m \in Macs |-> NoNote]

-----------------------------------------------------------------------------
(* The network.                                                            *)

\* A client gets an address it has a lease for, or one that nobody has.
Join(m, ip) ==
  /\ acts < MaxActs /\ acts' = acts + 1
  /\ addr[m] = NoIP /\ lease[ip] \in {NoMAC, m}
  /\ addr' = [addr EXCEPT ![m] = ip]
  /\ lease' = [lease EXCEPT ![ip] = m]
  /\ arp' = [arp EXCEPT ![ip] = m]
  /\ been' = [been EXCEPT ![m] = @ \cup {ip}]
  /\ UNCHANGED <<cache, snapshot, recs, saves, noted>>

Leave(m) ==
  /\ addr[m] # NoIP
  /\ addr' = [addr EXCEPT ![m] = NoIP]
  /\ UNCHANGED <<lease, arp, acts, been, cache, snapshot, recs, saves, noted>>

LeaseEnds(ip) ==
  /\ lease[ip] # NoMAC /\ addr[lease[ip]] # ip
  /\ lease' = [lease EXCEPT ![ip] = NoMAC]
  /\ UNCHANGED <<addr, arp, acts, been, cache, snapshot, recs, saves, noted>>

\* The entry of an absent device stays until the kernel asks for its address
\* again and gets no answer.
ArpAges(ip) ==
  /\ arp[ip] \in Clients
  /\ \A m \in Clients : addr[m] # ip
  /\ arp' = [arp EXCEPT ![ip] = ZeroMAC]
  /\ UNCHANGED <<addr, lease, acts, been, cache, snapshot, recs, saves, noted>>

-----------------------------------------------------------------------------
(* The mDNS listener.  A resource record gives a name its address (A), or  *)
(* points to a service or to a type of services (PTR): it fits if it is    *)
(* about a plain name in .local, or about a service.  Records of IPv6      *)
(* addresses are stored under keys that nobody looks up.                   *)

storeMDNS(ip, name) ==
  [k \in DOMAIN mdns \cup {ip} |-> IF k = ip THEN name ELSE mdns[k]]

\* Every name is stored for the sender's address.
parseMDNSBySender(rr, src) == IF rr.fits THEN storeMDNS(src, rr.name) ELSE mdns

\* What a pointer names is stored for the sender's address, whether the packet
\* is a query or a response, and whoever offers the service.
parseMDNSPacket(rr, src) ==
  IF ~rr.fits THEN mdns ELSE storeMDNS(IF rr.kind = "A" THEN rr.ip ELSE src, rr.name)

\* A client announces itself, stands in for another one that sleeps, or lists in
\* a query what it knows already; addresses may be those of some time ago.
Answers ==
  {[kind |-> "A", fits |-> f, ip |-> at[2], name |-> NameIn(MDNSName, at[1])] :
     f \in BOOLEAN, at \in {x \in Clients \X LanIPs : x[2] \in been[x[1]]}}
  \cup {[kind |-> "PTR", fits |-> f, ip |-> NoIP, name |-> name] :
           f \in BOOLEAN, name \in Labels}

Announce(m, rr) ==
  /\ acts < MaxActs /\ acts' = acts + 1
  /\ addr[m] # NoIP /\ rr.name # NoName
  /\ mdns' = parseMDNSPacket(rr, addr[m])
  /\ heard' = IF rr.kind = "PTR" /\ rr.fits
              THEN [heard EXCEPT ![addr[m]] = @ \cup {rr.name}] ELSE heard
  /\ UNCHANGED <<addr, lease, arp, been, snapshot, recs, saves, noted>>

-----------------------------------------------------------------------------
(* Scans.                                                                  *)

Table == [i \in 1 .. GatewayIP |->
            [ip |-> i, mac |-> IF i \in IPs THEN arp[i] ELSE NoMAC,
             iface |-> IF i = GatewayIP THEN "wan" ELSE LanIface,
             complete |-> i \in IPs /\ arp[i] \in Macs]]
ARPTable == Picked(Table, {i \in DOMAIN Table : Table[i].mac # NoMAC})

Leases == LET held == SetToSeq({ip \in LanIPs : lease[ip] # NoMAC})
          IN [i \in DOMAIN held |-> [mac |-> lease[held[i]], ip |-> held[i],
                                     host |-> NameIn(HostName, lease[held[i]])]]

ReadDevices(dns) ==
  mergeDevices(readARP(ARPTable, LanIface), Leases, Ethers, VendorOf, mdns, dns)

\* A record that is written anew with every scan.
UpsertAnew(r, d) ==
  [known |-> TRUE, host |-> d.host, vendor |-> d.vendor, type |-> d.type,
   note |-> NoNote, lastIP |-> d.ip]

\* The address is recorded once, like the vendor.
UpsertFirstIP(r, d) ==
  [r EXCEPT !.known = TRUE,
            !.lastIP = IF @ = NoIP THEN d.ip ELSE @,
            !.host = IF d.host.len > @.len THEN d.host ELSE @,
            !.vendor = IF @ = NoName THEN d.vendor ELSE @,
            !.type = IF @ = "" /\ d.type # TypeUnknown THEN d.type ELSE @]

\* The first name stays, like the vendor.
UpsertFirstName(r, d) ==
  [r EXCEPT !.known = TRUE, !.lastIP = d.ip,
            !.host = IF @ = NoName THEN d.host ELSE @,
            !.vendor = IF @ = NoName THEN d.vendor ELSE @,
            !.type = IF @ = "" /\ d.type # TypeUnknown THEN d.type ELSE @]

\* Longer names replace shorter ones; vendor and type stay as first known.
Upsert(r, d) ==
  [r EXCEPT !.known = TRUE, !.lastIP = d.ip,
            !.host = IF d.host.len > @.len THEN d.host ELSE @,
            !.vendor = IF @ = NoName THEN d.vendor ELSE @,
            !.type = IF @ = "" /\ d.type # TypeUnknown THEN d.type ELSE @]

UpsertDevices(devices) ==
  LET after[n \in 0 .. Len(devices)] ==
        IF n = 0 THEN recs
        ELSE [after[n - 1] EXCEPT ![devices[n].mac] = Upsert(@, devices[n])]
  IN after[Len(devices)]

\* A new address alone does not count as a change.
Changed(old, new) ==
  \E m \in Macs : [old[m] EXCEPT !.lastIP = NoIP] # [new[m] EXCEPT !.lastIP = NoIP]

\* go db.save()
SaveStarts == saving < MaxSaves /\ saving' = saving + 1 /\ UNCHANGED disk

\* The part of collectSlow that is about devices.  Each name is looked up in DNS
\* for one second only.
CollectSlow ==
  /\ \E answered \in SUBSET DOMAIN DNS : snapshot' = ReadDevices(Restrict(DNS, answered))
  /\ recs' = UpsertDevices(snapshot')
  /\ IF Changed(recs, recs') THEN SaveStarts ELSE UNCHANGED saves
  /\ UNCHANGED <<network, cache, noted>>

-----------------------------------------------------------------------------
(* Notes, saves, restarts and lists.                                       *)

\* A MAC, or an address that is the last one of a record: of any of several.
Target(key) ==
  IF key \in Macs THEN {m \in {key} : recs[m].known}
  ELSE {m \in Macs : recs[m].known /\ recs[m].lastIP = key}

\* The answer "not found" changes nothing.
SetNote(key, note) ==
  \E m \in Target(key) :
    /\ recs' = [recs EXCEPT ![m].note = note]
    /\ SaveStarts
    /\ noted' = [noted EXCEPT ![m] = note]
    /\ UNCHANGED <<network, cache, snapshot>>

\* save: the records of now are in the file; or it failed; or the file is not
\* JSON, by a loss of power or because other saves have written it as well.  One
\* that is overtaken by a later one is as if the later one had failed.
Save ==
  /\ saving > 0 /\ saving' = saving - 1
  /\ disk' \in {recs, disk, Fresh}
  /\ UNCHANGED <<network, cache, snapshot, recs, noted>>

\* The process dies, and the next one loads the file.
Restart ==
  /\ recs' = disk
  /\ noted' = [m \in Macs |-> disk[m].note]
  /\ mdns' = <<>>
  /\ snapshot' = <<>>
  /\ saving' = 0
  /\ UNCHANGED <<network, heard, disk>>

\* EnrichDevices, for one device.
Enriched(d) ==
  LET r == recs[d.mac]
  IN IF ~r.known THEN d
     ELSE [d EXCEPT !.note = IF r.note # NoNote THEN r.note ELSE @,
                    !.host = IF r.host.len > @.len THEN r.host ELSE @,
                    !.type = IF @ = TypeUnknown /\ r.type # "" THEN r.type ELSE @]

\* The name of a row of /devices.
ListName(d) ==
  IF NameIn(ConfigName, d.mac) # NoName THEN <<"config", ConfigName[d.mac]>>
  ELSE DisplayName(Enriched(d))

\* A row of /arp names whoever had the address in the last scan, and only then
\* asks for the MAC in the neighbour table; this one does not ask the database.
ARPRowVendor(ip, mac) ==
  LET at == {i \in DOMAIN snapshot : snapshot[i].ip = ip}
  IN IF at # {} THEN DisplayName(Enriched(snapshot[Max(at)]))
     ELSE IF NameIn(VendorOf, mac) # NoName THEN <<"vendor", VendorOf[mac]>> ELSE <<"ip", ip>>

\* The name in a row of /arp: that of the device the last scan had at the
\* address, else of the MAC in the neighbour table.
ARPRow(ip, mac) ==
  LET at == {i \in DOMAIN snapshot : snapshot[i].ip = ip}
      r == recs[mac]
  IN IF at # {} THEN DisplayName(Enriched(snapshot[Max(at)]))
     ELSE IF r.note # NoNote THEN <<"note", r.note>>
     ELSE IF r.host # NoName THEN <<"host", r.host>>
     ELSE IF NameIn(VendorOf, mac) # NoName THEN <<"vendor", VendorOf[mac]>> ELSE <<"ip", ip>>

Next ==
  \/ \E m \in Clients : Leave(m) \/ \E rr \in Answers : Announce(m, rr)
  \/ \E m \in Clients, ip \in LanIPs : Join(m, ip)
  \/ \E ip \in LanIPs : LeaseEnds(ip) \/ ArpAges(ip)
  \/ CollectSlow
  \/ \E key \in Keys, note \in Notes \cup {NoNote} : SetNote(key, note)
  \/ Save \/ Restart

Spec == Init /\ [][Next]_vars

-----------------------------------------------------------------------------
(* Properties.                                                             *)

DevicesTypeOK ==
  /\ addr \in [Clients -> LanIPs \cup {NoIP}] /\ lease \in [LanIPs -> Clients \cup {NoMAC}]
  /\ arp \in [IPs -> Macs \cup {ZeroMAC, NoMAC}]
  /\ DOMAIN mdns \subseteq IPs /\ Range(mdns) \subseteq Names
  /\ \A i \in DOMAIN snapshot : /\ snapshot[i].mac \in Macs /\ snapshot[i].ip \in IPs
                                /\ snapshot[i].host \in Names
  /\ saving \in Nat
  /\ \A all \in {recs, disk}, m \in Macs :
       /\ all[m].host \in Names /\ all[m].lastIP \in IPs \cup {NoIP}
       /\ all[m].note \in Notes \cup {NoNote}

\* Names that come with a client's MAC, with an address it has had from DNS, or
\* from an mDNS record that says whose address it is.
OwnNames(m) ==
  {NoName, NameIn(HostName, m), NameIn(MDNSName, m), NameIn(Ethers, m)}
  \cup {NameIn(DNS, ip) : ip \in been[m]}
  \cup {NameIn(MDNSName, k) : k \in {x \in Clients : been[x] \cap been[m] # {}}}

\* The record of a client never takes the name of a device that has had none of
\* its addresses, unless a pointer that was sent from one of them named it: names
\* follow the MAC or the address they came with, through any scans, saves and
\* restarts (mdns.go:75, 108, devices_type.go:256, devdb.go:111).
NamesAreOwn ==
  \A m \in Clients :
    recs[m].host \in OwnNames(m) \cup UNION {heard[ip] : ip \in been[m]}

\* A row of /devices shows the note that was set last for the device while this
\* process has run, else the one it has loaded, whatever scans and new addresses
\* came in between, unless the configuration names the device (devdb.go:88-157,
\* 195-210, card.go:273-277).
NotesShown ==
  \A i \in DOMAIN snapshot :
    LET m == snapshot[i].mac
    IN noted[m] # NoNote /\ NameIn(ConfigName, m) = NoName
       => ListName(snapshot[i]) = <<"note", noted[m]>>

\* A device is listed from the ARP table or from the lease file, never from both,
\* and again only with another address: two rows are two entries of one of them
\* (devices.go:62, 86-90).
ListedOnce ==
  \A i, j \in DOMAIN snapshot :
    i # j /\ snapshot[i].mac = snapshot[j].mac =>
      /\ snapshot[i].ip # snapshot[j].ip
      /\ snapshot[i].iface = NoIface <=> snapshot[j].iface = NoIface

\* /arp names a device by its note, unless the last scan had another device at
\* the address (card.go:467-489).
RowsShowNotes ==
  \A ip \in LanIPs :
    LET m == arp[ip]
    IN m \in Clients =>
         \/ \E i \in DOMAIN snapshot : snapshot[i].ip = ip /\ snapshot[i].mac # m
         \/ noted[m] = NoNote
         \/ ARPRow(ip, m) = <<"note", noted[m]>>

\* A note for the one address a device had in the last scan is set on this
\* device, unless another record still has the address: DHCP has given it to a
\* second device, and SetNote takes either (devdb.go:149).
Only(ip, m) == \A i \in DOMAIN snapshot : snapshot[i].ip = ip <=> snapshot[i].mac = m
NoteReachesHolder ==
  \A m \in Clients, ip \in LanIPs :
    /\ \E i \in DOMAIN snapshot : snapshot[i].mac = m
    /\ Only(ip, m)
    /\ \A k \in Macs \ {m} : recs[k].lastIP # ip
    => Target(ip) = {m}

\* What a list shows of a device does not become poorer with the next scan of the
\* same process: no shorter name, and no unknown type (devdb.go:111-122, 212-218).
NeverPoorer ==
  [][\A i \in DOMAIN snapshot, j \in DOMAIN snapshot' :
       snapshot[i].mac = snapshot'[j].mac =>
         LET old == Enriched(snapshot[i])  new == Enriched(snapshot[j])'
         IN /\ old.host.len <= new.host.len
            /\ old.type # TypeUnknown => new.type # TypeUnknown]_vars
=============================================================================
