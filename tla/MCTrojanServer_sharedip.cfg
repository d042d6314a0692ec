\* One user with ip_limit 1, two connections from one IP and one from
\* another, every client well-formed: the first of the two to close gives
\* back the IP the other still uses.
CONSTANTS
    c1 = c1  c2 = c2  c3 = c3
    i1 = i1  i2 = i2  i3 = i3
    u1 = u1
    BadHash = BadHash
    Conns <- MCConns
    IPs <- MCIPs
    Users <- MCUsers
    ConnIP <- MCConnIPShared
    Requests <- MCWellFormedRequests
    IPLimit = 1
    ChanCap = 1
    BufSize = 128
SPECIFICATION Spec

INVARIANT IPLimitRespected
