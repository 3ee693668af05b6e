------------------------------ MODULE LruCache ------------------------------
(***************************************************************************)
(* The LRU cache of src/utils/cache/lru.c: a hash table for lookup, a      *)
(* doubly linked list in the order of use, and two limits, the number of   *)
(* keys and the memory.  A hash node and a list node point at each other   *)
(* and are named by their key here.  Every malloc may fail.                *)
(***************************************************************************)
EXTENDS ListOps, Functions

CONSTANTS
  Keys,
  Data,         \* what is stored
  Size,         \* [Data -> Nat \ {0}], icd->sz of the data
  NodeSize,     \* [Keys -> Nat], the two nodes, the key and the cache_item_t
  MaxKeyNum,
  MaxMem

ASSUME LruAssumption ==
  /\ IsFiniteSet(Keys)
  /\ Size \in [Data -> Nat \ {0}]
  /\ NodeSize \in [Keys -> Nat]
  /\ MaxKeyNum \in Nat \ {0}
  /\ MaxMem \in Nat \ {0}

VARIABLES
  alive,     \* between new_lru_cache and delete_lru_cache
  hash,      \* the hash table: from the keys in it to their data
  list,      \* the list: keys, most recently used first
  used_mem,
  recent     \* history: all keys by their last successful put or get

vars == <<alive, hash, list, used_mem, recent>>

TypeOK ==
  /\ alive \in BOOLEAN
  /\ DOMAIN hash \subseteq Keys
  /\ \A k \in DOMAIN hash : hash[k] \in Data
  /\ list \in Seq(Keys)
  /\ used_mem \in Nat
  /\ recent \in Seq(Keys)

Empty == [k \in {} |-> {}]

Init ==
  /\ alive = FALSE
  /\ hash = Empty
  /\ list = <<>>
  /\ used_mem = 0
  /\ recent = <<>>

-----------------------------------------------------------------------------
MoveToHeadKept(s, k) == s
MoveToHead(s, k) == <<k>> \o Without(s, {k})

Touch(k) == recent' = <<k>> \o Without(recent, {k})

NewLruCache ==
  /\ ~alive
  /\ alive' = TRUE
  /\ hash' = Empty
  /\ list' = <<>>
  /\ used_mem' = 0
  /\ UNCHANGED recent

(* used_mem stays as it is: the object has to go through new_lru_cache     *)
(* before it is used again.                                                *)
DeleteLruCache ==
  /\ alive
  /\ alive' = FALSE
  /\ hash' = Empty
  /\ list' = <<>>
  /\ UNCHANGED <<used_mem, recent>>

(* lru_cache_get; a key that is not there changes nothing.                 *)
Get(k) ==
  /\ alive
  /\ k \in DOMAIN hash
  /\ list' = MoveToHead(list, k)
  /\ Touch(k)
  /\ UNCHANGED <<alive, hash, used_mem>>

ChargeForgotten(new, old) == 0
ChargeReversed(new, old) == Size[old] - Size[new]
Charge(new, old) == Size[new] - Size[old]

(* lru_cache_put of a key that is there: update_data, which changes        *)
(* nothing when its malloc fails, then move_to_head.                       *)
Update(k, d) ==
  /\ alive
  /\ k \in DOMAIN hash
  /\ hash' = [hash EXCEPT ![k] = d]
  /\ list' = MoveToHead(list, k)
  /\ used_mem' = used_mem + Charge(d, hash[k])
  /\ Touch(k)
  /\ UNCHANGED alive

IsFullOverLimit == used_mem >= MaxMem \/ Len(list) > MaxKeyNum
IsFull == used_mem >= MaxMem \/ Len(list) >= MaxKeyNum

Weight(k, d) == NodeSize[k] + Size[d]

(* The cache as it is, and after delete_data of the key k.                 *)
Whole == [hash |-> hash, list |-> list, used |-> used_mem]
Deleted(k) ==
  [hash |-> Restrict(hash, DOMAIN hash \ {k}),
   list |-> Without(list, {k}),
   used |-> used_mem - Weight(k, hash[k])]

(* What delete_tail_data takes from a full cache.                          *)
VictimHead == Head(list)
Victim == list[Len(list)]

(* lru_cache_put of a new key.  The eviction comes before create_data,     *)
(* whose mallocs may fail: then a key is lost and none is added.           *)
Insert(k, d) ==
  /\ alive
  /\ k \notin DOMAIN hash
  /\ LET kept == IF IsFull THEN Deleted(Victim) ELSE Whole
     IN \/ /\ hash' = [x \in DOMAIN kept.hash \cup {k} |->
                         IF x = k THEN d ELSE kept.hash[x]]
           /\ list' = <<k>> \o kept.list
           /\ used_mem' = kept.used + Weight(k, d)
           /\ Touch(k)
        \/ /\ hash' = kept.hash
           /\ list' = kept.list
           /\ used_mem' = kept.used
           /\ UNCHANGED recent
  /\ UNCHANGED alive

(* lru_cache_remove.                                                       *)
RemoveKey(k) ==
  /\ alive
  /\ k \in DOMAIN hash
  /\ hash' = Deleted(k).hash
  /\ list' = Deleted(k).list
  /\ used_mem' = Deleted(k).used
  /\ UNCHANGED <<alive, recent>>

Next ==
  \/ NewLruCache
  \/ DeleteLruCache
  \/ \E k \in Keys :
       \/ Get(k)
       \/ RemoveKey(k)
       \/ \E d \in Data : Update(k, d) \/ Insert(k, d)

Spec == Init /\ [][Next]_vars

-----------------------------------------------------------------------------
(* Properties.                                                             *)

(* The list holds every key of the hash table once, and no other, and      *)
(* there are never more than max_key_num of them, whatever sequence of     *)
(* puts, removals and failed insertions came before.                       *)
WithinKeyLimit ==
  /\ Range(list) = DOMAIN hash
  /\ Len(list) = Cardinality(DOMAIN hash)
  /\ Len(list) <= MaxKeyNum

(* The counter that is_full looks at is the memory of the entries, the     *)
(* number of their bytes: what put, update, eviction and removal add and   *)
(* subtract cancels out.                                                   *)
Bytes(h) == UNION {{k} \X (1 .. Weight(k, h[k])) : k \in DOMAIN h}

UsedMemExact == alive => used_mem = Cardinality(Bytes(hash))

(* The last use of j was before that of k.                                 *)
UsedBefore(j, k) ==
  \E m, n \in DOMAIN recent : m > n /\ recent[m] = j /\ recent[n] = k

(* The list is in the order of use, the last used key first.               *)
LruOrder ==
  \A m, n \in DOMAIN list : m < n => UsedBefore(list[n], list[m])

(* A put that pushes a key out takes the one used longest ago.             *)
EvictsOldest ==
  [][\A new \in DOMAIN hash' \ DOMAIN hash, gone \in DOMAIN hash \ DOMAIN hash',
       kept \in DOMAIN hash \cap DOMAIN hash' : UsedBefore(gone, kept)]_vars
=============================================================================
