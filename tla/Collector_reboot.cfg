SPECIFICATION FairSpec
CONSTANTS
  Gauges = {}
  CooldownSecs = 0
  AlertDefault = 1
  IfaceCooldown = 1
  Macs = {}
  WANs = {}
  Ifaces = {}
  Services = {"dnsmasq"}
  IPs = {}
  Sustained = 1
  FastEvery = 1
  SlowEvery = 2
PROPERTY RebootReported
