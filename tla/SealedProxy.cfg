SPECIFICATION FairProxySpec
CONSTANT Conns = {c1, c2, c3}
INVARIANT ProxyTypeOK
INVARIANT ActiveCounts
PROPERTY QuietIsIdle
PROPERTY ImplementsLog
PROPERTY QueuedIsServed
CHECK_DEADLOCK FALSE
