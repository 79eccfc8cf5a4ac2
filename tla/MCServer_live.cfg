SPECIFICATION FairSpec
CONSTANTS
  c1 = c1
  c2 = c2
  c3 = c3
  a = a
  b = b
  Conns = {c1, c2, c3}
  Ips = {a, b}
  IpOf <- MCIpOf
  MaxTotal = 2
  MaxPerIp = 1
  ProxyIps = {a}
  UseSsl = TRUE
  Hosts = {}
PROPERTY HandshakeReclaimed
PROPERTY ShutdownCompletes
CHECK_DEADLOCK FALSE
