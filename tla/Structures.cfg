\* Heaps that grow from two slots to eight and shrink again, two small surfaces and
\* forests of up to six elements.
SPECIFICATION MCSpec
CONSTANTS
    Element <- MCElement
    InitReserved = 2
    ShrinkAbove = 2
    Meshes <- MCMeshes
    NoVertices = 6
    Sizes = {0, 3, 6}
\* Simplification ends.
CHECK_DEADLOCK FALSE
INVARIANTS HeapSound MeshSound
PROPERTIES ImplementsQueue ImplementsPartition SurfaceKept OptimizeReturns
