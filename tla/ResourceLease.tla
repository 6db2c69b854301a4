--------------------------- MODULE ResourceLease ---------------------------
(***************************************************************************)
(* The live resource leases of vera_core                                   *)
(* (packages/vera_core/src/vera_core/resource_lease.py).                   *)
(*                                                                         *)
(* Threads of one process open, renew and close leases on hierarchical     *)
(* resources and run operations under them.  Every method holds the        *)
(* registry's RLock, so every method is one action; hold() is two, around  *)
(* the body of its `with`.  Each call brings its own reading of the clock, *)
(* and readings need not be ordered.  Callers keep the lease they were     *)
(* given and may use it long after it expired.                             *)
(***************************************************************************)
EXTENDS Naturals, Sequences, FiniteSets

CONSTANTS
    LeaseIds, Tasks,
    Operations,     \* threads that may be inside hold()
    Keys,           \* resource keys: a namespace and the segments of a path
    Ceiling,        \* the registry's capability_ceiling
    Nil,            \* no lease, no operation, no resource
    MaxLeases,      \* the registry's max_leases
    MaxFence,       \* bound: fencing tokens
    MaxTime         \* bound: clock readings and times to live

ASSUME LeaseAssumption ==
    /\ IsFiniteSet(Operations)
    /\ Keys \subseteq Seq(STRING)
    /\ MaxLeases \in Nat \ {0} /\ MaxFence \in Nat /\ MaxTime \in Nat

Claim == [key : Keys, mode : {"read", "write"}]

Lease == [task : Tasks, caps : SUBSET Ceiling, claims : SUBSET Claim,
          token : 1..MaxFence, expires : 0..2 * MaxTime]

\* What the caller of open_lease keeps.
Handle == [task : Tasks, id : LeaseIds, token : 1..MaxFence]

\* An operation inside hold(): what it was authorized for.
Operation == [handle : Handle, cap : Ceiling, probe : Claim \cup {Nil}]

ASSUME NilAssumption == Nil \notin Lease \cup Claim \cup Operation

VARIABLES
    leases,      \* leases[id]: the live lease, or Nil
    inflight,    \* inflight[id]: operations that pin the lease
    lastFence,   \* the last fencing token allocated
    handles,     \* leases handed out, stale ones included
    ops          \* ops[o]: the handle, capability and resource o works with, or Nil

vars == <<leases, inflight, lastFence, handles, ops>>

----------------------------------------------------------------------------
\* `inner` is `outer` or lies below it in the hierarchy of one namespace.
Below(inner, outer) ==
    Len(outer) <= Len(inner) /\ \A i \in 1..Len(outer) : inner[i] = outer[i]

Overlap(a, b) == Below(a, b) \/ Below(b, a)

\* _first_conflict: readers may share.
Conflict(a, b) == Overlap(a.key, b.key) /\ "write" \in {a.mode, b.mode}

Covers(claim, probe) ==
    /\ probe.mode = "write" => claim.mode = "write"
    /\ Below(probe.key, claim.key)

Live == {id \in LeaseIds : leases[id] # Nil}

\* Mutation: expiry releases the claims of a lease that is in use.
Expired_InUse(now) == {id \in Live : now >= leases[id].expires}

\* The leases _reap_expired_locked removes.
Expired(now) == {id \in Live : now >= leases[id].expires /\ inflight[id] = 0}

Reaped(now) == [id \in LeaseIds |-> IF id \in Expired(now) THEN Nil ELSE leases[id]]

\* Mutation: the fencing token is not compared.
Fenced_AnyToken(h) == h.id \in Live

\* _lookup_fenced_locked: the handle still names the live lease.
Fenced(h) == h.id \in Live /\ leases[h.id].token = h.token

----------------------------------------------------------------------------
Init ==
    /\ leases = [id \in LeaseIds |-> Nil]
    /\ inflight = [id \in LeaseIds |-> 0]
    /\ lastFence = 0
    /\ handles = {}
    /\ ops = [o \in Operations |-> Nil]

\* open_lease.  The allocator may skip tokens; it never repeats one.
OpenLease(id, task, caps, claims, ttl, now, token) ==
    LET kept == Reaped(now)
        live == {i \in LeaseIds : kept[i] # Nil}
    IN  /\ token > lastFence
        /\ id \notin live
        /\ Cardinality(live) < MaxLeases
        /\ \A i \in live : \A a \in claims, b \in kept[i].claims : ~Conflict(a, b)
        /\ lastFence' = token
        /\ leases' = [kept EXCEPT ![id] =
                        [task |-> task, caps |-> caps, claims |-> claims,
                         token |-> token, expires |-> now + ttl]]
        /\ handles' = handles \cup {[task |-> task, id |-> id, token |-> token]}
        /\ UNCHANGED <<inflight, ops>>

\* reap_expired, snapshot, and an open_lease that is refused after reaping.
Reap(now) ==
    /\ leases' = Reaped(now)
    /\ UNCHANGED <<inflight, lastFence, handles, ops>>

\* Mutation: the time to live is added to the old expiry, not to the clock.
Renew_Adds(h, ttl, now) ==
    /\ Fenced(h)
    /\ now < leases[h.id].expires
    /\ leases' = [leases EXCEPT ![h.id].expires = @ + ttl]
    /\ UNCHANGED <<inflight, lastFence, handles, ops>>

Renew(h, ttl, now) ==
    /\ Fenced(h)
    /\ now < leases[h.id].expires
    /\ leases' = [leases EXCEPT ![h.id].expires = now + ttl]
    /\ UNCHANGED <<inflight, lastFence, handles, ops>>

\* renew, authorize or hold finds the lease expired and drops it if it is idle.
DropExpired(h, now) ==
    /\ Fenced(h)
    /\ h.id \in Expired(now)
    /\ leases' = [leases EXCEPT ![h.id] = Nil]
    /\ UNCHANGED <<inflight, lastFence, handles, ops>>

\* close, of an expired lease too (that call also raises).
CloseLease(h) ==
    /\ Fenced(h)
    /\ inflight[h.id] = 0
    /\ leases' = [leases EXCEPT ![h.id] = Nil]
    /\ UNCHANGED <<inflight, lastFence, handles, ops>>

\* _authorize_locked, without a resource (probe = Nil) or with one.
Authorized(h, cap, probe, now) ==
    /\ Fenced(h)
    /\ now < leases[h.id].expires
    /\ cap \in leases[h.id].caps
    /\ probe # Nil => \E c \in leases[h.id].claims : Covers(c, probe)

HoldBegin(o, h, cap, probe, now) ==
    /\ ops[o] = Nil
    /\ Authorized(h, cap, probe, now)
    /\ inflight' = [inflight EXCEPT ![h.id] = @ + 1]
    /\ ops' = [ops EXCEPT ![o] = [handle |-> h, cap |-> cap, probe |-> probe]]
    /\ UNCHANGED <<leases, lastFence, handles>>

\* The body of `with hold(...)` ends, by return or by exception.
HoldEnd(o) ==
    /\ ops[o] # Nil
    /\ inflight' = [inflight EXCEPT ![ops[o].handle.id] = @ - 1]
    /\ ops' = [ops EXCEPT ![o] = Nil]
    /\ UNCHANGED <<leases, lastFence, handles>>

Next ==
    \/ \E now \in 0..MaxTime :
           \/ \E id \in LeaseIds, task \in Tasks, caps \in SUBSET Ceiling,
                 claims \in SUBSET Claim, ttl \in 1..MaxTime, token \in 1..MaxFence :
                     OpenLease(id, task, caps, claims, ttl, now, token)
           \/ Reap(now)
           \/ \E h \in handles :
                  \/ \E ttl \in 1..MaxTime : Renew(h, ttl, now)
                  \/ DropExpired(h, now)
                  \/ \E o \in Operations, cap \in Ceiling, probe \in Claim \cup {Nil} :
                         HoldBegin(o, h, cap, probe, now)
    \/ \E h \in handles : CloseLease(h)
    \/ \E o \in Operations : HoldEnd(o)

Spec == Init /\ [][Next]_vars

----------------------------------------------------------------------------
TypeOK ==
    /\ leases \in [LeaseIds -> Lease \cup {Nil}]
    /\ inflight \in [LeaseIds -> Nat]
    /\ lastFence \in 0..MaxFence
    /\ handles \subseteq Handle
    /\ ops \in [Operations -> Operation \cup {Nil}]

(***************************************************************************)
(* hold(): "prevents close and expiry reaping from releasing the lease's   *)
(* claims until the operation exits".  An operation in flight works under  *)
(* the very lease it was admitted with, granted to its own task and still  *)
(* giving the capability and the claim it uses, however late it is and     *)
(* whoever reused the lease id meanwhile.                                  *)
(***************************************************************************)
HoldsPinned ==
    \A o \in Operations :
        ops[o] # Nil =>
            LET h == ops[o].handle
            IN  /\ Fenced(h)
                /\ leases[h.id].task = h.task
                /\ ops[o].cap \in leases[h.id].caps
                /\ ops[o].probe # Nil =>
                       \E c \in leases[h.id].claims : Covers(c, ops[o].probe)

(***************************************************************************)
(* Operations in flight under two leases never touch overlapping resources *)
(* when one of them writes, even when a lease has expired in between.      *)
(***************************************************************************)
HoldsExclusive ==
    \A o, q \in Operations :
        (/\ ops[o] # Nil /\ ops[o].probe # Nil
         /\ ops[q] # Nil /\ ops[q].probe # Nil
         /\ ops[o].handle.id # ops[q].handle.id)
        => ~Conflict(ops[o].probe, ops[q].probe)
=============================================================================
