\* Servers answer two callers; requests and lookups fail, hosts move, for one.
SPECIFICATION Spec
CONSTANTS
  c1 = c1
  c2 = c2
  w1 = w1
  k1 = k1
  local = local
  spare = spare
  remote = remote
  near = near
  far = far
  home = home
  host = host
  None = None
  Callers = {c1, c2}
  Active <- OneIfFaulty
  Workers = {w1}
  Keys = {k1}
  Pools = {local, spare, remote}
  Lookup <- TwoPools
  CachePools = {local, spare}
  Servers = {near, far, home}
  Covers <- CoversCaches
  Stored <- Few
  HostOf <- OneHost
  Hosts = {host}
  Addrs = {1, 2}
  DnsTimeout = 2
  MaxMoves = 1
  FaultSets = {{}, {"net"}, {"time"}, {"net", "time"}}
  Retries = 2
  MaxActive = 1
INVARIANTS
  TypeOK
  ConnsHeld
PROPERTIES
  ImplementsStore
  CachesFilled
  FreshAddress
