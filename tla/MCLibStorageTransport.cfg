\* Two of two uploads and a download, over a node that may refuse to start or
\* report twice; one callback reports progress.  Timers are fair (so no symmetry).
SPECIFICATION FairTransportSpec
CONSTANTS
    Uploads = {u1, u2}
    Downloads = {d1}
    MaxCalls = 2
    MaxProgress = 1
    NoRequest = NoRequest
    Empty = Empty
    ErrorText = ErrorText
INVARIANTS
    TransportTypeOK
    ContextsOwned
    OwnCidUnlessProgress
PROPERTIES
    ImplementsClient
    TimedRequestsAnswered
\* After the destructor there is nothing left to do.
CHECK_DEADLOCK FALSE
