SPECIFICATION MCSpec
CONSTANTS
  Gauges = {"high_cpu"}
  CooldownSecs = 3
  AlertDefault = 4
  IfaceCooldown = 1
  Macs = {"mac"}
  WANs = {"wan"}
  Ifaces = {"lan"}
  Services = {"dnsmasq"}
  IPs = {"ip1", "ip2"}
  Sustained = 2
  FastEvery = 1
  SlowEvery = 1
INVARIANTS TypeOK AlertIsSustained ToldWhatWasSeen
PROPERTIES LoadKeepsAlerting SlowTickServed
