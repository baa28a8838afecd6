SPECIFICATION AuthSpec
CONSTANTS
    t1 = t1
    t2 = t2
    h1 = h1
    h2 = h2
    ip0 = ip0
    ip1 = ip1
    None = None
    Tokens = {t1, t2}
    Requests = {r1, r2}
    Calls = {c1}
    AgentIds = {a1, a2}
    Hosts = {h1, h2}
    Ips = {ip0, ip1}
    UnspecifiedIp = ip0
    EnrollRequests <- MCEnrollRequests
SYMMETRY Symmetry
PROPERTIES RevokedCertRefused
CHECK_DEADLOCK FALSE
