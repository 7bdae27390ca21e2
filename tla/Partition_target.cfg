\* Two pairs of routines which nothing connects are to become one cluster: two
\* are reported.
SPECIFICATION PartitionSpec
CONSTANTS
    CodeGraph <- PairGraphs
    Option <- OneCluster
    NoK = NoK
    NoGamma = NoGamma
    Few = 2
    Many = 2
INVARIANT TargetIsReached
CHECK_DEADLOCK FALSE
