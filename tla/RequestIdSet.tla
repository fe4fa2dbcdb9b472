----------------------------- MODULE RequestIdSet -----------------------------
(***************************************************************************)
(* RequestIdSet<RequestT> (src/include/swirly/elm/Request.hpp:124-288): an *)
(* intrusive boost set of refcounted requests, unique by (market, id).     *)
(* The set holds one reference per member; callers hold intrusive_ptrs     *)
(* (ValuePtr), each one reference.  A request is deleted when its count    *)
(* drops to zero (RefCounted::release, not in the repository).             *)
(*                                                                         *)
(* find and findHint change nothing and are not actions; begin and end     *)
(* likewise.  The hint of insertHint only speeds the search in a unique    *)
(* set, so it is not modelled.                                             *)
(***************************************************************************)
EXTENDS Naturals, FiniteSets

CONSTANTS
    Objs,     \* the requests that may be created
    Key(_),   \* (market(), id()) of a request
    MaxPtrs,  \* bound on the intrusive_ptrs callers hold to one request
    MaxRefs,  \* bound on a reference count
    CheckedHints  \* callers insert with a hint only after findHint found no equal

VARIABLES
    made,     \* the requests created so far (makeRefCounted)
    refs,     \* the reference count of each request
    ptrs,     \* the caller-held intrusive_ptrs to each request
    members,  \* set_
    open      \* the RequestIdSet is not yet destroyed

vars == <<made, refs, ptrs, members, open>>

\* A request is deleted when its count reaches zero.
Deleted(o) == o \in made /\ refs[o] = 0

\* intrusive_ptr_release: one reference fewer.
Release(r, o) == [r EXCEPT ![o] = @ - 1]
AddRef(r, o) == [r EXCEPT ![o] = @ + 1]

\* The member of ms with the key of o, if there is one.
Equal(ms, o) == {m \in ms : Key(m) = Key(o)}

\* Each insertion maps the set and the counts [ms, r] to new ones.
S(ms, r) == [ms |-> ms, r |-> r]

\* insert (Request.hpp:186-196): take ownership only if inserted.
Insert(ms, r, o) ==
    IF Equal(ms, o) # {} THEN S(ms, r) ELSE S(ms \cup {o}, AddRef(r, o))

\* insertHint (Request.hpp:197-203): the unique set inserts only if no
\* equal member exists, and ownership is taken either way.
InsertHint(ms, r, o) ==
    S(IF Equal(ms, o) # {} THEN ms ELSE ms \cup {o}, AddRef(r, o))

\* Fault model: insertOrReplace taking ownership only on insertion, as
\* insert does.
InsertOrReplaceRefIfInserted(ms, r, o) ==
    IF Equal(ms, o) = {} THEN Insert(ms, r, o)
    ELSE LET prev == CHOOSE m \in Equal(ms, o) : TRUE
         IN S((ms \ {prev}) \cup {o}, Release(r, prev))

\* insertOrReplace (Request.hpp:204-218): an equal member is replaced in
\* place and released when prev leaves its scope; then take ownership.
InsertOrReplace(ms, r, o) ==
    IF Equal(ms, o) = {} THEN S(ms \cup {o}, AddRef(r, o))
    ELSE LET prev == CHOOSE m \in Equal(ms, o) : TRUE
         IN S((ms \ {prev}) \cup {o}, AddRef(Release(r, prev), o))

\* findHint (Request.hpp:272-285): lower_bound by (market, id), and
\* whether the request there has the key.
FindHint(ms, o) == [found |-> Equal(ms, o) # {}]

\* The hint protocol findHint is for: insertHint and emplaceHint only with
\* a hint for which findHint answered not found.  Without it, any call.
HintAllowed(op, o) == op = "insertHint" /\ CheckedHints => ~FindHint(members, o).found

Ops == {"insert", "insertHint", "insertOrReplace"}

Apply(op, ms, r, o) ==
    CASE op = "insert" -> Insert(ms, r, o)
      [] op = "insertHint" -> InsertHint(ms, r, o)
      [] op = "insertOrReplace" -> InsertOrReplace(ms, r, o)

Init ==
    /\ made = {} /\ refs = [o \in Objs |-> 0] /\ ptrs = [o \in Objs |-> 0]
    /\ members = {} /\ open = TRUE

\* makeRefCounted<RequestT>: a new request and the caller's pointer to it.
Make(o) ==
    /\ o \notin made
    /\ made' = made \cup {o}
    /\ refs' = [refs EXCEPT ![o] = 1]
    /\ ptrs' = [ptrs EXCEPT ![o] = 1]
    /\ UNCHANGED <<members, open>>

\* A caller copies an intrusive_ptr (intrusive_ptr_add_ref).
CopyPtr(o) ==
    /\ ptrs[o] > 0 /\ ptrs[o] < MaxPtrs /\ refs[o] < MaxRefs
    /\ ptrs' = [ptrs EXCEPT ![o] = @ + 1]
    /\ refs' = [refs EXCEPT ![o] = @ + 1]
    /\ UNCHANGED <<made, members, open>>

\* Fault model: a pointer dropped without checking the caller holds one.
DropPtrUnchecked(o) ==
    /\ o \in made
    /\ ptrs' = [ptrs EXCEPT ![o] = @ - 1]
    /\ refs' = Release(refs, o)
    /\ UNCHANGED <<made, members, open>>

\* A caller's intrusive_ptr goes out of scope.
DropPtr(o) ==
    /\ ptrs[o] > 0
    /\ ptrs' = [ptrs EXCEPT ![o] = @ - 1]
    /\ refs' = Release(refs, o)
    /\ UNCHANGED <<made, members, open>>

\* insert, insertHint or insertOrReplace of a request the caller points to.
InsertPtr(op, o) ==
    /\ open /\ ptrs[o] > 0 /\ refs[o] < MaxRefs /\ HintAllowed(op, o)
    /\ LET res == Apply(op, members, refs, o)
       IN members' = res.ms /\ refs' = res.r
    /\ UNCHANGED <<made, ptrs, open>>

\* emplace, emplaceHint, emplaceOrReplace (Request.hpp:219-233): make a
\* request, insert it, and release the temporary pointer.
Emplace(op, o) ==
    /\ open /\ o \notin made /\ HintAllowed(op, o)
    /\ made' = made \cup {o}
    /\ LET res == Apply(op, members, [refs EXCEPT ![o] = 1], o)
       IN members' = res.ms /\ refs' = Release(res.r, o)
    /\ UNCHANGED <<ptrs, open>>

\* Fault model: the destructor calling clear() instead of clear_and_dispose.
DestroyClearOnly ==
    /\ open
    /\ open' = FALSE
    /\ members' = {}
    /\ UNCHANGED <<made, ptrs, refs>>

\* ~RequestIdSet (Request.hpp:173-176): clear_and_dispose releases every
\* member.
Destroy ==
    /\ open
    /\ open' = FALSE
    /\ members' = {}
    /\ refs' = [o \in Objs |-> IF o \in members THEN refs[o] - 1 ELSE refs[o]]
    /\ UNCHANGED <<made, ptrs>>

Next ==
    \/ \E o \in Objs : Make(o) \/ CopyPtr(o) \/ DropPtr(o)
    \/ \E op \in Ops, o \in Objs : InsertPtr(op, o) \/ Emplace(op, o)
    \/ Destroy

Spec == Init /\ [][Next]_vars

TypeOK ==
    /\ made \subseteq Objs /\ members \subseteq made /\ open \in BOOLEAN
    /\ refs \in [Objs -> 0..MaxRefs] /\ ptrs \in [Objs -> 0..MaxPtrs]

\* No request is deleted while a caller or the set still refers to it:
\* every count covers the caller-held pointers and the set's own
\* reference, across any interleaving of the insertions, replacements,
\* pointer copies and drops, and the destructor.
RefsCover ==
    \A o \in made : refs[o] >= ptrs[o] + (IF o \in members THEN 1 ELSE 0)

\* The comments of the insertions say the set takes ownership: once the set
\* is destroyed and every caller has dropped its pointers, every request
\* it ever held has been deleted.  It needs every insertion, replacement
\* and pointer drop, and the destructor's dispose, to balance the counts.
\* It holds under the findHint protocol and fails without it.
NoLeakAtEnd ==
    (~open /\ \A o \in Objs : ptrs[o] = 0) => \A o \in made : Deleted(o)

====
