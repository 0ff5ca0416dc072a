\* Stores one after the other, each with any calls on its client, and a peer
\* that breaks connections.
SPECIFICATION StoreSpec
CONSTANTS
    Sock = {s1, s2, s3}
    Sess = {x1, x2, x3}
    None = None
INVARIANTS
    StoreTypeOK
    ChannelHasSession
    NothingLeftBehind
PROPERTIES
    ConnectMeansUsable
    DisconnectClears
    NewStoreUsable
    StoreCloses
