\* disconnect() leaves the socket of a connection that has just been reset.
SPECIFICATION Spec
CONSTANTS
    s1 = s1
    s2 = s2
    s3 = s3
    x1 = x1
    x2 = x2
    x3 = x3
    None = None
    Sock <- MCSock
    Sess <- MCSess
PROPERTIES
    DisconnectClosesSocket
