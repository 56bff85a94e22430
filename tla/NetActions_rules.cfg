SPECIFICATION Spec
CONSTANTS
  Clicks = {"c1", "c2"}
  MaxRules = 4
  Bands = {"2.4"}
  Services = {"dnsmasq", "../sh"}
  Proper = {"dnsmasq"}
  Whitelist = {"dnsmasq", "../sh"}
INVARIANT InputFollowsReport
