-------------------------------- MODULE Muxer ---------------------------------
(***************************************************************************)
(* PollPolicy of src/src/swirly/sys/Muxer.cpp: the registrations are two   *)
(* parallel vectors, pfds (pollfd, sorted by fd) and sids, kept aligned by *)
(* inserting and erasing at the same distance from their starts.  wait    *)
(* polls, clamps the count to the buffer, and copies the first ready       *)
(* entries, in fd order, into the caller's buffer.                         *)
(*                                                                         *)
(* A refused call (EEXIST, ENOENT) throws before it changes anything, so   *)
(* it is a stuttering step.  poll is taken to succeed and to set revents   *)
(* to the requested events that are pending (POLLERR, POLLHUP and POLLNVAL *)
(* are not modelled); sys::poll is not in the repository.  The caller and  *)
(* the environment are those of MuxSpec.                                   *)
(***************************************************************************)
EXTENDS Integers, Sequences, FiniteSets, SequencesExt

CONSTANTS Fds, Sids, Masks, Size

Events == {"in", "out"}

VARIABLES
    pfds,     \* md->pfds: <<[fd, events, revents]>>
    sids,     \* md->sids
    ready,    \* the events pending on each fd (the environment)
    out,      \* the caller's buffer, as far as wait filled it
    ret       \* the value the last wait returned

vars == <<pfds, sids, ready, out, ret>>

Entry(fd, ev, sid) == [fd |-> fd, events |-> ev, sid |-> sid]

\* std::lower_bound by fd: the first position whose fd is not less.
LowerBound(fd) == Cardinality({i \in 1..Len(pfds) : pfds[i].fd < fd}) + 1

Registered(fd) == \E i \in 1..Len(pfds) : pfds[i].fd = fd

Init == pfds = <<>> /\ sids = <<>> /\ ready = [fd \in Fds |-> {}] /\ out = <<>> /\ ret = 0

\* Fault model: the new pollfd appended instead of inserted at lower_bound.
InsertAppend(sid, fd, mask) ==
    /\ ~Registered(fd)
    /\ pfds' = Append(pfds, [fd |-> fd, events |-> mask, revents |-> {}])
    /\ sids' = Append(sids, sid)
    /\ UNCHANGED <<ready, out, ret>>

\* Fault model: the sid appended instead of inserted at the same distance.
InsertSidAtEnd(sid, fd, mask) ==
    /\ ~Registered(fd)
    /\ pfds' = InsertAt(pfds, LowerBound(fd), [fd |-> fd, events |-> mask, revents |-> {}])
    /\ sids' = Append(sids, sid)
    /\ UNCHANGED <<ready, out, ret>>

\* insert (Muxer.cpp:24-38).
Insert(sid, fd, mask) ==
    /\ ~Registered(fd)
    /\ pfds' = InsertAt(pfds, LowerBound(fd), [fd |-> fd, events |-> mask, revents |-> {}])
    /\ sids' = InsertAt(sids, LowerBound(fd), sid)
    /\ UNCHANGED <<ready, out, ret>>

\* update (Muxer.cpp:40-50).
Update(fd, mask) ==
    /\ Registered(fd)
    /\ pfds' = [pfds EXCEPT ![LowerBound(fd)].events = mask]
    /\ UNCHANGED <<sids, ready, out, ret>>

\* Fault model: erase forgetting the parallel vector.
EraseKeepSid(fd) ==
    /\ Registered(fd)
    /\ pfds' = RemoveAt(pfds, LowerBound(fd))
    /\ UNCHANGED <<sids, ready, out, ret>>

\* erase (Muxer.cpp:52-66).
Erase(fd) ==
    /\ Registered(fd)
    /\ pfds' = RemoveAt(pfds, LowerBound(fd))
    /\ sids' = RemoveAt(sids, LowerBound(fd))
    /\ UNCHANGED <<ready, out, ret>>

\* poll: each revents is the requested events that are pending.
Polled == [i \in 1..Len(pfds) |-> [pfds[i] EXCEPT !.revents = pfds[i].events \cap ready[pfds[i].fd]]]
PollCount(pr) == Cardinality({i \in 1..Len(pr) : pr[i].revents # {}})

\* The copy loop of wait (Muxer.cpp:77-86), from index i with buf written
\* so far, until buf reaches end = buf + n or the entries run out.
RECURSIVE Scan(_, _, _, _)
Scan(pr, i, buf, n) ==
    IF Len(buf) = n \/ i > Len(pr) THEN buf
    ELSE Scan(pr, i + 1,
              IF pr[i].revents # {} THEN Append(buf, Entry(pr[i].fd, pr[i].revents, sids[i]))
              ELSE buf,
              n)

Wait ==
    /\ out = <<>>
    /\ pfds' = Polled
    /\ ret' = IF PollCount(Polled) < Size THEN PollCount(Polled) ELSE Size
    /\ out' = Scan(Polled, 1, <<>>, ret')
    /\ UNCHANGED <<sids, ready>>

\* The caller dispatches one returned event and drains its fd.
Handle(e) ==
    /\ out' = Remove(out, e)
    /\ ready' = [ready EXCEPT ![e.fd] = {}]
    /\ UNCHANGED <<pfds, sids, ret>>

\* A peer makes an event pending on fd.
Arrive(fd, ev) ==
    /\ ev \notin ready[fd]
    /\ ready' = [ready EXCEPT ![fd] = @ \cup {ev}]
    /\ UNCHANGED <<pfds, sids, out, ret>>

Next ==
    \/ \E sid \in Sids, fd \in Fds, mask \in Masks : Insert(sid, fd, mask)
    \/ \E fd \in Fds, mask \in Masks : Update(fd, mask)
    \/ \E fd \in Fds : Erase(fd)
    \/ Wait
    \/ \E e \in ToSet(out) : Handle(e)
    \/ \E fd \in Fds, ev \in UNION Masks : Arrive(fd, ev)

Spec == Init /\ [][Next]_vars

\* The caller loops on wait and dispatches every event it returns.
FairSpec == Spec /\ WF_vars(Wait) /\ WF_vars(\E e \in ToSet(out) : Handle(e))

(***************************************************************************)
(* Properties.                                                             *)
(***************************************************************************)
TypeOK ==
    /\ pfds \in Seq([fd : Fds, events : SUBSET Events, revents : SUBSET Events])
    /\ sids \in Seq(Sids) /\ Len(sids) = Len(pfds)
    /\ ready \in [Fds -> SUBSET Events] /\ ret \in Nat

\* pfds stays strictly sorted by fd through any sequence of inserts,
\* updates and erases, so lower_bound finds a registered fd where it is.
Sorted == \A i \in 1..Len(pfds) - 1 : pfds[i].fd < pfds[i + 1].fd

RegOf == [fd \in {pfds[i].fd : i \in 1..Len(pfds)} |->
            [sid |-> sids[LowerBound(fd)], mask |-> pfds[LowerBound(fd)].events]]

Abstract == INSTANCE MuxSpec WITH reg <- RegOf, out <- ToSet(out)

\* PollPolicy implements the multiplexer contract: every insert, update
\* and erase acts on the registration of its own fd, and every event wait
\* reports carries the sid registered with that fd.
MuxRefinement == Abstract!Spec

\* An fd that has events it asked for pending is eventually reported to
\* the caller, or stops being reportable (drained, updated or erased).
ReadyReported ==
    \A fd \in Fds :
        (Registered(fd) /\ pfds[LowerBound(fd)].events \cap ready[fd] # {})
            ~> (\E e \in ToSet(out) : e.fd = fd)
               \/ ~(Registered(fd) /\ pfds[LowerBound(fd)].events \cap ready[fd] # {})

====
