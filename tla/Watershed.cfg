\* Two files of up to five items in buffers of two with one worker for both, and the
\* inputs of MCWatershed for the stages.
SPECIFICATION MCSpec
CONSTANTS
    Source = {s1, s2}
    Key = {1, 2}
    MaxSize = 5
    CacheLen = 2
    NoThreads = 1
    High = 4
    Low = 2
    DustLow = 1
    DustMerge = 1
    DustSize = 3
    Inner = 5
    Around <- MCAround
    Edge <- MCEdge
    Affinities <- MCAffinities
    Segments <- MCSegments
    Chunks = 2
    Domains <- MCDomains
\* The segmentation ends.
CHECK_DEADLOCK FALSE
INVARIANTS SourcesExact SleeperAwaited SegmentsAreBasins BorderLeftOpen ForestSpans MergersMade DendrogramSpans
PROPERTIES MergesInOrder PopReturns
