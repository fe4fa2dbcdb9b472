------------------------------- MODULE MuxSpec --------------------------------
(***************************************************************************)
(* What the poll multiplexer promises its caller (the Muxer<PollPolicy>    *)
(* interface of src/src/swirly/sys/Muxer.cpp): a registration per fd, with *)
(* the caller's sid and event mask; insert refuses a registered fd, update *)
(* and erase an unregistered one (a refused call changes nothing); wait    *)
(* fills the caller's buffer with as many ready registrations as fit, each *)
(* with its own sid and the ready events it asked for.                     *)
(*                                                                         *)
(* The environment makes fds ready; the caller handles each reported event *)
(* before it waits again, draining the fd.                                 *)
(***************************************************************************)
EXTENDS Naturals, FiniteSets, TLC

CONSTANTS
    Fds,      \* the file descriptors
    Sids,     \* the caller's subscription ids
    Masks,    \* the event masks a caller registers
    Size      \* the capacity of the caller's Event buffer

Events == {"in", "out"}

VARIABLES
    reg,      \* fd -> [sid, mask], for the registered fds
    ready,    \* the events pending on each fd
    out       \* the events the last wait returned and the caller has not handled

vars == <<reg, ready, out>>

Entry(fd, ev, sid) == [fd |-> fd, events |-> ev, sid |-> sid]

\* The registrations wait may report now.
Reportable == {fd \in DOMAIN reg : reg[fd].mask \cap ready[fd] # {}}

Init == reg = <<>> /\ ready = [fd \in Fds |-> {}] /\ out = {}

Insert(sid, fd, mask) ==
    /\ fd \notin DOMAIN reg
    /\ reg' = reg @@ (fd :> [sid |-> sid, mask |-> mask])
    /\ UNCHANGED <<ready, out>>

Update(fd, mask) ==
    /\ fd \in DOMAIN reg
    /\ reg' = [reg EXCEPT ![fd].mask = mask]
    /\ UNCHANGED <<ready, out>>

Erase(fd) ==
    /\ fd \in DOMAIN reg
    /\ reg' = [f \in DOMAIN reg \ {fd} |-> reg[f]]
    /\ UNCHANGED <<ready, out>>

\* The buffer holds min(ready, Size) entries, any of the reportable ones.
Wait ==
    /\ out = {}
    /\ \E fs \in SUBSET Reportable :
          /\ Cardinality(fs) = IF Cardinality(Reportable) < Size
                               THEN Cardinality(Reportable) ELSE Size
          /\ out' = {Entry(fd, reg[fd].mask \cap ready[fd], reg[fd].sid) : fd \in fs}
    /\ UNCHANGED <<reg, ready>>

Handle(e) ==
    /\ e \in out
    /\ out' = out \ {e}
    /\ ready' = [ready EXCEPT ![e.fd] = {}]
    /\ UNCHANGED reg

Arrive(fd, ev) ==
    /\ ev \notin ready[fd]
    /\ ready' = [ready EXCEPT ![fd] = @ \cup {ev}]
    /\ UNCHANGED <<reg, out>>

Next ==
    \/ \E sid \in Sids, fd \in Fds, mask \in Masks : Insert(sid, fd, mask)
    \/ \E fd \in Fds, mask \in Masks : Update(fd, mask)
    \/ \E fd \in Fds : Erase(fd)
    \/ Wait
    \/ \E e \in out : Handle(e)
    \/ \E fd \in Fds, ev \in UNION Masks : Arrive(fd, ev)

Spec == Init /\ [][Next]_vars

====
