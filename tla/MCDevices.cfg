SPECIFICATION MCSpec
CONSTANTS
  Phone = Phone
  Computer = Computer
  Modem = Modem
  Clients = {Phone, Computer}
  Gateway = Modem
  ZeroMAC = ZeroMAC
  NoMAC = NoMAC
  LanIPs = {1, 2}
  LanIface = "br-lan"
  HostName <- MCHostName
  MDNSName <- MCMDNSName
  ServiceNames <- MCServiceNames
  ConfigName <- MCConfigName
  Ethers <- MCEthers
  VendorOf <- MCVendorOf
  DNS <- MCDNS
  Notes = {"mine"}
  Keys <- MCKeys
  MaxActs = 3
  MaxSaves = 1
INVARIANTS DevicesTypeOK NamesAreOwn NotesShown ListedOnce RowsShowNotes NoteReachesHolder
PROPERTY NeverPoorer
CHECK_DEADLOCK FALSE
