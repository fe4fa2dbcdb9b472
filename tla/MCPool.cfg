CONSTANTS
    Classes <- MCClasses
    NodesPerBlock = 2
    MaxBlocks = 2
    NoNode = NoNode
SPECIFICATION Spec
INVARIANT TypeOK
INVARIANT FreeListSound
 

    
