------------------------------ MODULE Devices ------------------------------
(***************************************************************************)
(* How internal/collector/devices.go and devices_type.go make one list of  *)
(* devices out of the ARP table, the DHCP leases, /etc/ethers, the mDNS    *)
(* cache and the local DNS server.  A name is its length and the words     *)
(* InferDeviceType looks for in it, those it begins with apart.  MACs,     *)
(* which the code compares in lower case, are written in one case.         *)
(***************************************************************************)
EXTENDS Integers, Sequences, SequencesExt, FiniteSets, FiniteSetsExt, Functions, Selection

NoName == [len |-> 0, has |-> {}, begins |-> {}]
NoIP == 0
NoIface == "none"
TypeUnknown == "unknown"
NoNote == ""

\* A map of names: none for a key it does not have.
NameIn(names, key) == IF key \in DOMAIN names THEN names[key] ELSE NoName

-----------------------------------------------------------------------------
(* InferDeviceType: the first rule that fits.                              *)

Begins(words, type) == [begins |-> words, has |-> {}, type |-> type]
Has(words, type) == [begins |-> {}, has |-> words, type |-> type]

HostRules == <<
  Begins({"iphone"}, "phone"), Begins({"ipad"}, "tablet"), Has({"macbook"}, "laptop"),
  Has({"imac", "mac-mini", "mac-pro", "mac-studio"}, "desktop"),
  Has({"appletv", "apple-tv"}, "tv"), Has({"homepod"}, "iot"), Has({"android"}, "phone"),
  Begins({"desktop-", "desktop_", "pc-"}, "desktop"),
  Has({"thinkpad", "ideapad", "thinkbook", "yoga", "latitude", "pavilion", "elitebook"},
      "laptop"),
  Has({"diskstation"}, "nas"), Has({"qnap", "nas"}, "nas"),
  Has({"openwrt", "ubnt", "unifi", "mikrotik"}, "router"),
  Begins({"raspberrypi", "raspberry-pi"}, "sbc"),
  Has({"firetv", "fire-tv", "fire_tv", "androidtv"}, "tv"), Has({"chromecast"}, "tv"),
  Has({"echo-", "echo_"}, "iot"), Has({"nintendo-switch", "switch-"}, "gaming"),
  Has({"playstation", "ps4-", "ps5-"}, "gaming"), Begins({"xbox-"}, "gaming"),
  Has({"printer", "printserver"}, "printer"), Has({"proxmox", "pve-", "qemu"}, "vm") >>

VendorRules == <<
  Has({"tp-link", "tplink", "netgear", "mikrotik", "ubiquiti", "aruba", "d-link", "dlink",
       "zyxel", "cisco", "ruckus", "linksys", "zte"}, "router"),
  Has({"synology", "qnap", "drobo", "buffalo"}, "nas"), Has({"raspberry"}, "sbc"),
  Has({"proxmox"}, "vm"), Has({"nintendo", "sony"}, "gaming"),
  Has({"xiaomi", "oppo", "vivo", "oneplus", "samsung", "huawei"}, "phone"),
  Has({"apple"}, "apple"),
  Has({"intel", "realtek", "dell", "lenovo", "hp inc", "hewlett", "acer", "msi", "asus"},
      "laptop"),
  Has({"amazon"}, "iot"), Has({"google"}, "phone"),
  Has({"philips", "yeelight", "tuya", "espressif", "shelly"}, "iot") >>

Fits(rule, name) ==
  rule.begins \cap name.begins # {} \/ rule.has \cap (name.has \cup name.begins) # {}

FirstType(rules, name) ==
  LET fitting == {i \in DOMAIN rules : Fits(rules[i], name)}
  IN IF fitting = {} THEN TypeUnknown ELSE rules[Min(fitting)].type

InferDeviceType(host, vendor) ==
  LET byHost == FirstType(HostRules, host)
  IN IF byHost # TypeUnknown THEN byHost ELSE FirstType(VendorRules, vendor)

-----------------------------------------------------------------------------
(* Reading and merging.  An ARP entry is its ip, mac, iface and complete   *)
(* flag, a lease its mac, ip and host, an empty one for "*".               *)

NewDevice(ip, mac, iface, host) ==
  [ip |-> ip, mac |-> mac, iface |-> iface, host |-> host, vendor |-> NoName,
   type |-> TypeUnknown, note |-> NoNote]

\* Entries that are not complete are read as well.
parseAllARP(table, lanIface) ==
  Picked(table, {i \in DOMAIN table : lanIface = NoIface \/ table[i].iface = lanIface})

parseARP(table, lanIface) ==
  Picked(table, {i \in DOMAIN table : /\ table[i].complete
                                      /\ lanIface = NoIface \/ table[i].iface = lanIface})

\* With a wrong interface name, or an idle LAN, the entries of all interfaces.
readARP(table, lanIface) ==
  LET lan == parseARP(table, lanIface)
  IN IF lan = <<>> /\ lanIface # NoIface THEN parseARP(table, NoIface) ELSE lan

\* The host name of /etc/ethers wins over that of the lease.
HostOf(mac, lease, ethers) ==
  IF NameIn(ethers, mac) # NoName THEN ethers[mac] ELSE lease

Inferred(d, vendorOf) ==
  LET vendor == NameIn(vendorOf, d.mac)
  IN [d EXCEPT !.vendor = vendor, !.type = InferDeviceType(d.host, vendor)]

\* The name an address has in the mDNS cache, else in the local DNS server.
EnrichedName(d, mdns, dns) ==
  IF d.host # NoName THEN d.host
  ELSE IF NameIn(mdns, d.ip) # NoName THEN mdns[d.ip] ELSE NameIn(dns, d.ip)

\* The type is inferred again only for a device that had none.
Renamed(d, name) ==
  [d EXCEPT !.host = name,
            !.type = IF @ = TypeUnknown /\ name # NoName
                     THEN InferDeviceType(name, d.vendor) ELSE @]

\* The leases of devices the ARP table has are listed as well.
RestAll(arp, leases) == leases

\* The leases of devices the ARP table does not have.
Rest(arp, leases) ==
  Picked(leases, {j \in DOMAIN leases : \A i \in DOMAIN arp : arp[i].mac # leases[j].mac})

\* The last lease of a MAC is the one that counts.
LeaseHost(mac, leases) ==
  LET at == {i \in DOMAIN leases : leases[i].mac = mac}
  IN IF at = {} THEN NoName ELSE leases[Max(at)].host

mergeDevices(arp, leases, ethers, vendorOf, mdns, dns) ==
  LET rest == Rest(arp, leases)
      known == [i \in DOMAIN arp |->
                  NewDevice(arp[i].ip, arp[i].mac, arp[i].iface,
                            HostOf(arp[i].mac, LeaseHost(arp[i].mac, leases), ethers))]
      leased == [i \in DOMAIN rest |->
                   NewDevice(rest[i].ip, rest[i].mac, NoIface,
                             HostOf(rest[i].mac, rest[i].host, ethers))]
      all == known \o leased
  IN [i \in DOMAIN all |-> LET d == Inferred(all[i], vendorOf)
                           IN Renamed(d, EnrichedName(d, mdns, dns))]

\* DisplayName.
DisplayName(d) ==
  IF d.note # NoNote THEN <<"note", d.note>>
  ELSE IF d.host # NoName THEN <<"host", d.host>>
  ELSE IF d.vendor # NoName THEN <<"vendor", d.vendor>> ELSE <<"mac", d.mac>>
=============================================================================
