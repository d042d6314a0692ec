CONSTANTS
    c1 = c1  c2 = c2  c3 = c3
    i1 = i1  i2 = i2  i3 = i3
    u1 = u1
    BadHash = BadHash
    Conns <- MCConns
    IPs <- MCIPs
    Users <- MCUsers
    ConnIP <- MCConnIPDistinct
    Requests <- MCRequests
    IPLimit = 2
    ChanCap = 1
    BufSize = 128
SPECIFICATION Spec

INVARIANT NoLeakedIP
