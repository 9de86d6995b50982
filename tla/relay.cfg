SPECIFICATION FairSpec
CONSTANTS
    ConnKinds = {"tcp", "channel"}
    Deadline = TRUE
    EndErrors = {"broken", "pipe"}
    PeerKinds = {"sending", "waiting"}
    Chunks = 3
INVARIANTS NoSilentTruncation NoSilentInputLoss
PROPERTIES RelayReturns ExchangeCompletes
