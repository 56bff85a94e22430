----------------------------- MODULE MCDevices -----------------------------
(***************************************************************************)
(* DevDB with two clients and two addresses: a phone with a short name in  *)
(* DHCP and a long one in mDNS, and a computer that gives no name.  A note *)
(* is shown whatever the name, so notes are checked without the names of   *)
(* mDNS and DNS, and with a neighbour table that forgets nobody.           *)
(***************************************************************************)
EXTENDS DevDB

CONSTANTS Phone, Computer, Modem

VARIABLE focus

Named(len, has, begins) == [len |-> len, has |-> has, begins |-> begins]

MCHostName == Phone :> Named(2, {}, {})
MCMDNSName == Phone :> Named(6, {"iphone"}, {"iphone"})
MCServiceNames == {Named(5, {}, {})}
MCConfigName == Computer :> Named(4, {}, {})
MCEthers == Modem :> Named(3, {}, {})
MCVendorOf == Computer :> Named(5, {"apple"}, {"apple"})
MCKeys == {Phone, 1}
MCDNS == 2 :> Named(3, {"nas"}, {"nas"})

MCInit == Init /\ focus \in {"names", "notes"}

MCNext == /\ Next
          /\ UNCHANGED focus
          /\ focus = "names" => UNCHANGED noted
          /\ focus = "notes" =>
               /\ UNCHANGED mdns
               /\ \A ip \in LanIPs : arp'[ip] # ZeroMAC
               /\ \A i \in DOMAIN snapshot' : snapshot'[i].host \notin Range(DNS)

MCSpec == MCInit /\ [][MCNext]_<<vars, focus>>
=============================================================================
