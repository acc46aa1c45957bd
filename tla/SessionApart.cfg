SPECIFICATION Spec
CONSTANTS
  a = a
  b = b
  c1 = c1
  c2 = c2
  h1 = h1
  h2 = h2
  Users = {a, b}
  Registered = {a}
  Clients = {c1, c2}
  HostOf <- OwnHosts
  LoginAs <- OwnUsers
  UdpClients = {c2}
  NoUser = NoUser
  NoHost = NoHost
  MaxLogins = 2
  MaxRestarts = 1
INVARIANTS TypeOK NoGhostSession OnlineIsLoggedIn
PROPERTY SessionEndsWithItsOwner
