------------------------------ MODULE MapQueue ------------------------------
(***************************************************************************)
(* libs/map_queue: a map whose keys are also kept in the order they came   *)
(* in (cache_) and, of these, the ones that may still become the maximum   *)
(* (max_cache_). pop_last reads a key through a reference after it popped  *)
(* it; the value is still there, since nothing is stored in between.       *)
(***************************************************************************)
EXTENDS Integers, FiniteSets, Sequences

CONSTANTS
    QueueKeys,   \* the keys
    QueueSizes   \* the cache sizes that are set

ASSUME MapQueueAssumption == QueueKeys \subseteq Int /\ QueueSizes \subseteq Nat

VARIABLES data_, max_cache_, cache_, max_cache_size_

mapQueueVars == <<data_, max_cache_, cache_, max_cache_size_>>

InitMapQueue ==
    /\ data_ = {} /\ max_cache_ = <<>> /\ cache_ = <<>>
    /\ max_cache_size_ \in QueueSizes

getMaxKey == Head(max_cache_)

\* What is left of the candidates when a key comes in.
NotLess(s, k) == SelectSeq(s, LAMBDA x : x >= k)

\* Variant: one candidate is given up, and the others are not compared.
set_once(k) ==
    /\ k \notin data_
    /\ cache_' = Append(cache_, k)
    /\ max_cache_' = Append(IF max_cache_ # <<>> /\ max_cache_[Len(max_cache_)] < k
                            THEN SubSeq(max_cache_, 1, Len(max_cache_) - 1) ELSE max_cache_, k)
    /\ data_' = data_ \cup {k}
    /\ UNCHANGED max_cache_size_

\* A key that is there is left alone. The candidates fall from front to back, so that
\* the loop over the back takes the smaller ones. The size is not looked at.
set(k) ==
    /\ k \notin data_
    /\ cache_' = Append(cache_, k)
    /\ max_cache_' = Append(NotLess(max_cache_, k), k)
    /\ data_' = data_ \cup {k}
    /\ UNCHANGED max_cache_size_

\* pop_last on the record of the three members: the key that came in first goes.
pop_last(q) ==
    LET k == Head(q.cache) IN
    [data |-> q.data \ {k}, cache |-> Tail(q.cache),
     max_cache |-> IF Head(q.max_cache) = k THEN Tail(q.max_cache) ELSE q.max_cache]

\* The loop of set_cache_size: pop_last until the size is kept.
PopTo(size) ==
    LET popped[n \in 0 .. Cardinality(data_)] ==
            IF n = 0 THEN [data |-> data_, cache |-> cache_, max_cache |-> max_cache_]
            ELSE pop_last(popped[n - 1])
    IN  popped[IF Cardinality(data_) > size THEN Cardinality(data_) - size ELSE 0]

set_cache_size(size) ==
    /\ max_cache_size_' = size
    /\ data_' = PopTo(size).data
    /\ cache_' = PopTo(size).cache
    /\ max_cache_' = PopTo(size).max_cache

clear ==
    /\ data_' = {} /\ max_cache_' = <<>> /\ cache_' = <<>>
    /\ UNCHANGED max_cache_size_

NextMapQueue ==
    \/ \E k \in QueueKeys : set(k)
    \/ \E size \in QueueSizes : set_cache_size(size)
    \/ clear
-----------------------------------------------------------------------------
(* Properties                                                              *)

\* Over every sequence of insertions, evictions and clears, getMaxKey returns the
\* greatest key of the map, and throws only where the map is empty; and cache_ has
\* every key of the map once, so that pop_last erases a key that is there.
MaxKeyIsMax ==
    /\ max_cache_ = <<>> <=> data_ = {}
    /\ data_ # {} => getMaxKey \in data_ /\ \A k \in data_ : k <= getMaxKey
    /\ {cache_[i] : i \in DOMAIN cache_} = data_ /\ Len(cache_) = Cardinality(data_)
=============================================================================
