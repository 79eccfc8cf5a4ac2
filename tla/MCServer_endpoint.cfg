SPECIFICATION Spec
CONSTANTS
  c1 = c1
  c2 = c2
  c3 = c3
  a = a
  b = b
  Conns = {c1, c2, c3}
  Ips = {a, b}
  IpOf <- MCIpOf
  MaxTotal = 2
  MaxPerIp = 1
  ProxyIps = {a}
  UseSsl = FALSE
  Hosts = {}
INVARIANT NothingRethrown
