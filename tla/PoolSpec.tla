------------------------------ MODULE PoolSpec ------------------------------
(***************************************************************************)
(* What the pool allocator promises its callers (spec.md 4.1): per size    *)
(* class, an allocation returns a node no caller holds, or fails with      *)
(* nothing allocated; a free returns a held node; destroying the pool      *)
(* releases everything.                                                    *)
(***************************************************************************)
CONSTANTS
    Classes,   \* the size classes ("small", "large")
    Nodes,     \* Nodes[c]: every node class c can ever hand out
    NoNode     \* the NULL an allocation returns on failure

VARIABLES
    up,         \* a pool exists (dbr_pool_create succeeded, not yet destroyed)
    allocated,  \* allocated[c]: the nodes of class c callers hold
    ret         \* what the last allocation returned

Create ==
    /\ ~up
    /\ up' = TRUE
    /\ allocated' = [c \in Classes |-> {}]
    /\ UNCHANGED ret

Alloc(c) ==
    /\ up
    /\ \/ \E n \in Nodes[c] \ allocated[c] :
             /\ allocated' = [allocated EXCEPT ![c] = @ \cup {n}]
             /\ ret' = n
       \/ /\ ret' = NoNode
          /\ UNCHANGED allocated
    /\ UNCHANGED up

Free(c, n) ==
    /\ up
    /\ n \in allocated[c]
    /\ allocated' = [allocated EXCEPT ![c] = @ \ {n}]
    /\ UNCHANGED <<up, ret>>

Destroy ==
    /\ up
    /\ up' = FALSE
    /\ allocated' = [c \in Classes |-> {}]
    /\ ret' = NoNode

Init == ~up /\ allocated = [c \in Classes |-> {}] /\ ret = NoNode

Next ==
    \/ Create
    \/ Destroy
    \/ \E c \in Classes : Alloc(c) \/ \E n \in Nodes[c] : Free(c, n)

Spec == Init /\ [][Next]_<<up, allocated, ret>>
=============================================================================
