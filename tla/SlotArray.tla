----------------------------- MODULE SlotArray -----------------------------
(***************************************************************************)
(* What `GrowableArray::get` promises its callers (spec sec. 4.1): every   *)
(* index names one slot, the same one for every caller and for ever, and   *)
(* no two indices share a slot.  A slot comes into being (is bound) at     *)
(* some step, possibly together with others, and a call returns the slot   *)
(* its index is bound to.                                                  *)
(***************************************************************************)
CONSTANTS Threads, Indices, SlotIds, None, NoCall, Pending

VARIABLES slot,  \* index -> the slot it is bound to, or None
          req,   \* thread -> the index of its call
          ret    \* thread -> NoCall, Pending or the returned slot

Init ==
    /\ slot = [i \in Indices |-> None]
    /\ req \in [Threads -> Indices]
    /\ ret = [t \in Threads |-> NoCall]

\* A thread calls get(i).
Begin(t) ==
    /\ ret[t] = NoCall
    /\ req' \in [Threads -> Indices]
    /\ \A u \in Threads \ {t} : req'[u] = req[u]
    /\ ret' = [ret EXCEPT ![t] = Pending]
    /\ UNCHANGED slot

\* Some unbound indices get slots no other index has; bound ones keep theirs.
Bind ==
    /\ slot' \in [Indices -> SlotIds \cup {None}]
    /\ \A i \in Indices : slot[i] # None => slot'[i] = slot[i]
    /\ \A i, j \in Indices : i # j /\ slot'[i] # None => slot'[i] # slot'[j]
    /\ UNCHANGED <<req, ret>>

\* get(i) returns the slot i is bound to.
Return(t) ==
    /\ ret[t] = Pending
    /\ slot[req[t]] # None
    /\ ret' = [ret EXCEPT ![t] = slot[req[t]]]
    /\ UNCHANGED <<slot, req>>

\* The caller is done with the slot it was given.
Release(t) ==
    /\ ret[t] \notin {NoCall, Pending}
    /\ ret' = [ret EXCEPT ![t] = NoCall]
    /\ UNCHANGED <<slot, req>>

Next == Bind \/ \E t \in Threads : Begin(t) \/ Return(t) \/ Release(t)

Spec == Init /\ [][Next]_<<slot, req, ret>>
=============================================================================
