-------------------------------- MODULE Pool --------------------------------
(***************************************************************************)
(* The slab allocator of src/src/fig/pool.c.  Each size class keeps a      *)
(* list of blocks (first_block) and a free list of nodes (first_node); a   *)
(* block is malloc'd when the free list is empty and is only freed when    *)
(* the pool is destroyed.  A node is named <<class, block, index>>, the    *)
(* block by its ordinal.  held is the environment: the nodes callers hold, *)
(* which are the only ones they hand back.  heap is the malloc'd memory:   *)
(* the pool struct and the blocks.  The DBR_DEBUG_ALLOC counters are not   *)
(* modelled.                                                               *)
(***************************************************************************)
EXTENDS Integers, Sequences, SequencesExt, Functions

CONSTANTS
    Classes,        \* {"small", "large"}: FigSmallNode and FigLargeNode
    NodesPerBlock,  \* nodes_per_block, computed from the page size
    MaxBlocks,      \* bound on the blocks malloc will give a class
    NoNode          \* NULL

ASSUME NodesPerBlock \in Nat \ {0} /\ MaxBlocks \in Nat \ {0}

NodeIds(c) == {c} \X (1..MaxBlocks) \X (0..NodesPerBlock - 1)
PoolStruct == <<"pool", 0>>

VARIABLES
    up,      \* dbr_pool_create returned a pool not yet destroyed
    blocks,  \* blocks[c]: the first_block list of class c, newest first
    free,    \* free[c]: the first_node list of class c, head first
    held,    \* held[c]: the nodes of class c handed out and not freed
    ret,     \* the node the last allocation returned, or NoNode
    heap     \* malloc'd chunks: PoolStruct and <<c, b>> for each block

vars == <<up, blocks, free, held, ret, heap>>

(***************************************************************************)
(* alloc_small_nodes / alloc_large_nodes (pool.c:30-104): the new block is *)
(* pushed on the block list and its nodes, linked 0 .. last, go in front   *)
(* of whatever the free list holds.                                        *)
(***************************************************************************)
\* Fault model: last = nodes_per_block, one node past the block.
BlockChainPastEnd(c, b) == [i \in 1..NodesPerBlock + 1 |-> <<c, b, i - 1>>]

BlockChain(c, b) == [i \in 1..NodesPerBlock |-> <<c, b, i - 1>>]

BlocksOf(c) == {<<c, b>> : b \in ToSet(blocks[c])}

(***************************************************************************)
(* dbr_pool_create with fig_pool_init (pool.c:106-159, 307-322).          *)
(***************************************************************************)
\* malloc of the pool struct fails: NULL, nothing allocated.
CreateNoMemory == ~up /\ UNCHANGED vars

\* fig_pool_init's first alloc_small_nodes fails: fail1, then
\* dbr_pool_create's fail2 frees the pool struct.
CreateSmallFails == ~up /\ UNCHANGED vars

CreateLargeFails == ~up /\ UNCHANGED vars

CreateOk ==
    /\ ~up
    /\ up' = TRUE
    /\ blocks' = [c \in Classes |-> <<1>>]
    /\ free' = [c \in Classes |-> BlockChain(c, 1)]
    /\ heap' = {PoolStruct} \cup {<<c, 1>> : c \in Classes}
    /\ UNCHANGED <<held, ret>>

(***************************************************************************)
(* fig_pool_alloc_small / fig_pool_alloc_large (pool.c:206-251).          *)
(***************************************************************************)
\* The caller receives node n.
HandOut(c, n) ==
    /\ ret' = n
    /\ held' = [held EXCEPT ![c] = @ \cup {n}]

AllocNode(c) ==
    /\ up
    /\ \/ /\ free[c] # <<>>
          /\ free' = [free EXCEPT ![c] = Tail(@)]
          /\ HandOut(c, Head(free[c]))
          /\ UNCHANGED <<up, blocks, heap>>
       \/ \* the free list is empty and alloc_*_nodes mallocs block b
          LET b == Len(blocks[c]) + 1
              grown == BlockChain(c, b) \o free[c]
          IN /\ free[c] = <<>>
             /\ b <= MaxBlocks
             /\ blocks' = [blocks EXCEPT ![c] = <<b>> \o @]
             /\ heap' = heap \cup {<<c, b>>}
             /\ free' = [free EXCEPT ![c] = Tail(grown)]
             /\ HandOut(c, Head(grown))
             /\ UNCHANGED up
       \/ \* the free list is empty and malloc fails: ENOMEM, NULL
          /\ free[c] = <<>>
          /\ ret' = NoNode
          /\ UNCHANGED <<up, blocks, free, held, heap>>

(***************************************************************************)
(* fig_pool_free_small / fig_pool_free_large (pool.c:253-291): push the    *)
(* node on the free list.  free(NULL) does nothing.                        *)
(***************************************************************************)
\* Fault model: node->next is not linked, dropping the rest of the list.
FreeNodeUnlinked(c, n) ==
    /\ up
    /\ n \in held[c]
    /\ free' = [free EXCEPT ![c] = <<n>>]
    /\ held' = [held EXCEPT ![c] = @ \ {n}]
    /\ UNCHANGED <<up, blocks, ret, heap>>

FreeNode(c, n) ==
    /\ up
    /\ n \in held[c]
    /\ free' = [free EXCEPT ![c] = <<n>> \o @]
    /\ held' = [held EXCEPT ![c] = @ \ {n}]
    /\ UNCHANGED <<up, blocks, ret, heap>>

(***************************************************************************)
(* dbr_pool_destroy with fig_pool_term (pool.c:161-203, 324-331): free     *)
(* every block of both classes and the pool struct.                        *)
(***************************************************************************)
Destroy ==
    /\ up
    /\ up' = FALSE
    /\ blocks' = [c \in Classes |-> <<>>]
    /\ free' = [c \in Classes |-> <<>>]
    /\ held' = [c \in Classes |-> {}]
    /\ heap' = {}
    /\ ret' = NoNode

Init ==
    /\ up = FALSE
    /\ blocks = [c \in Classes |-> <<>>]
    /\ free = [c \in Classes |-> <<>>]
    /\ held = [c \in Classes |-> {}]
    /\ ret = NoNode
    /\ heap = {}

Next ==
    \/ CreateNoMemory \/ CreateSmallFails \/ CreateLargeFails \/ CreateOk
    \/ Destroy
    \/ \E c \in Classes :
          \/ AllocNode(c)
          \/ \E n \in held[c] : FreeNode(c, n)

Spec == Init /\ [][Next]_vars

(***************************************************************************)
(* Properties.                                                             *)
(***************************************************************************)
TypeOK ==
    /\ up \in BOOLEAN
    /\ blocks \in [Classes -> Seq(1..MaxBlocks)]
    /\ \A c \in Classes : free[c] \in Seq(NodeIds(c)) /\ held[c] \subseteq NodeIds(c)
    /\ ret \in UNION {NodeIds(c) : c \in Classes} \cup {NoNode}

\* Every node of every block of a class is on the free list exactly once or
\* held by a caller, never both and never lost: the free-list pushes and
\* pops of alloc, free and block growth conserve nodes.
FreeListSound ==
    \A c \in Classes :
        /\ IsInjective(free[c])
        /\ ToSet(free[c]) \cap held[c] = {}
        /\ ToSet(free[c]) \cup held[c] =
              {n \in NodeIds(c) : <<c, n[2]>> \in BlocksOf(c)}

Abstract == INSTANCE PoolSpec WITH
    Nodes <- [c \in Classes |-> NodeIds(c)], allocated <- held
=============================================================================
