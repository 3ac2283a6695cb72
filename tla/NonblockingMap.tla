--------------------------- MODULE NonblockingMap ---------------------------
(***************************************************************************)
(* What a `NonblockingMap<usize, V>` promises its callers                  *)
(* (src/homework/src/hash_table/split_ordered_list.rs, the trait impl):    *)
(* every call takes effect atomically at one instant between its           *)
(* invocation and its return, on a map from keys to values.               *)
(*                                                                         *)
(*   lookup(k) returns the value of k, or None;                            *)
(*   insert(k, v) adds k |-> v and returns Ok, or returns Err(v) if k is   *)
(*     already present;                                                    *)
(*   delete(k) removes k and returns Ok(its value), or Err if absent.     *)
(*                                                                         *)
(* `call[t]` is thread t's invoked call that has not yet taken effect,     *)
(* `ret[t]` the result of its last call (Pending while it is outstanding). *)
(***************************************************************************)
CONSTANTS Threads, Keys, Values,
          InitialMap, \* the map's contents when the threads start
          Absent,   \* the map has no entry for a key; lookup's None
          NoCall,   \* no outstanding call
          Pending,  \* the call has not taken effect yet
          OkRet,    \* insert's Ok(())
          ErrRet    \* insert's Err(v) and delete's Err(())

VARIABLES amap, call, ret

Calls == [op : {"insert"}, key : Keys, val : Values]
         \union [op : {"lookup", "delete"}, key : Keys, val : {0}]

Init ==
    /\ amap = InitialMap
    /\ call = [t \in Threads |-> NoCall]
    /\ ret = [t \in Threads |-> NoCall]

Invoke(t) ==
    /\ call[t] = NoCall
    /\ \E c \in Calls : call' = [call EXCEPT ![t] = c]
    /\ ret' = [ret EXCEPT ![t] = Pending]
    /\ UNCHANGED amap

\* The instant at which t's outstanding call takes effect and its result
\* is fixed.
TakeEffect(t) ==
    /\ call[t] # NoCall
    /\ LET k == call[t].key IN
       CASE call[t].op = "lookup" ->
              /\ ret' = [ret EXCEPT ![t] = amap[k]]
              /\ UNCHANGED amap
         [] call[t].op = "insert" /\ amap[k] = Absent ->
              /\ amap' = [amap EXCEPT ![k] = call[t].val]
              /\ ret' = [ret EXCEPT ![t] = OkRet]
         [] call[t].op = "insert" /\ amap[k] # Absent ->
              /\ ret' = [ret EXCEPT ![t] = ErrRet]
              /\ UNCHANGED amap
         [] call[t].op = "delete" /\ amap[k] = Absent ->
              /\ ret' = [ret EXCEPT ![t] = ErrRet]
              /\ UNCHANGED amap
         [] call[t].op = "delete" /\ amap[k] # Absent ->
              /\ amap' = [amap EXCEPT ![k] = Absent]
              /\ ret' = [ret EXCEPT ![t] = amap[k]]
    /\ call' = [call EXCEPT ![t] = NoCall]

Next == \E t \in Threads : Invoke(t) \/ TakeEffect(t)

Spec == Init /\ [][Next]_<<amap, call, ret>>
=============================================================================
