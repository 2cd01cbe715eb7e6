------------------------------ MODULE LRUCache ------------------------------
(***************************************************************************)
(* The size-bounded LRU cache (internal/cache/lru/lru.go) behind the file  *)
(* info cache, the stat cache and the type cache.  Every public method     *)
(* takes the cache's lock for its whole body, so a method is a function    *)
(* from cache to cache.  A cache is the record of the Go struct:           *)
(*   max    maxSize;                                                       *)
(*   size   currentSize, a counter of its own and not the sum it should    *)
(*          equal, modulo Word as an unsigned integer is;                  *)
(*   order  the list of keys, most recently used first;                    *)
(*   val    the index: the value of each key, NoEntry where there is none. *)
(***************************************************************************)
EXTENDS Integers, Sequences, FiniteSets

CONSTANTS
  Keys,          \* the keys
  NoEntry,       \* the value of a key that is not in the cache (nil)
  Size(_),       \* ValueType.Size
  Word           \* 2^64, the modulus of currentSize

NewCache(max) ==
  [max |-> max, size |-> 0, order |-> << >>, val |-> [k \in Keys |-> NoEntry]]

Indexed(c) == {k \in Keys : c.val[k] # NoEntry}
Without(s, k) == SelectSeq(s, LAMBDA x : x # k)

\* evictOne: the tail of the list goes, and its size is taken off the counter.
evictOne(c) ==
  LET k == c.order[Len(c.order)] IN
  [c EXCEPT !.size = (@ - Size(c.val[k])) % Word,
            !.order = SubSeq(@, 1, Len(@) - 1),
            !.val[k] = NoEntry]

\* The loop of Insert, "for c.currentSize > c.maxSize { evictOne() }": c after
\* as many evictions as it takes.  With the list empty and the counter still
\* above maxSize, evictOne dereferences the nil tail: Panics.
Evicted(c) == [n \in 0..Len(c.order) |-> SubSeq(c.order, Len(c.order) - n + 1, Len(c.order))]
AfterEvicting(c) ==
  LET after[n \in 0..Len(c.order)] == IF n = 0 THEN c ELSE evictOne(after[n - 1])
  IN  after
Enough(c) == {n \in 0..Len(c.order) : AfterEvicting(c)[n].size <= c.max}
Rounds(c) == CHOOSE n \in Enough(c) : \A m \in Enough(c) : n <= m
Panics(c) == Enough(c) = {}

\* Insert before the eviction loop: the entry is replaced or added, in front.
Front(c, k, v) ==
  [c EXCEPT !.size = (@ - (IF k \in Indexed(c) THEN Size(c.val[k]) ELSE 0) + Size(v)) % Word,
            !.order = <<k>> \o Without(@, k),
            !.val[k] = v]

InsertFails(c, v) == Size(v) > c.max
Insert(c, k, v) == AfterEvicting(Front(c, k, v))[Rounds(Front(c, k, v))]
\* The keys Insert evicts, in the order it evicts them.
InsertEvicts(c, k, v) ==
  LET f == Front(c, k, v)
      gone == Evicted(f)[Rounds(f)]
  IN  [i \in 1..Len(gone) |-> gone[Len(gone) + 1 - i]]

\* Mutant: the counter keeps the size of the erased entry.
Erase_KeepsSize(c, k) ==
  IF k \notin Indexed(c) THEN c
  ELSE [c EXCEPT !.order = Without(@, k), !.val[k] = NoEntry]
Erase(c, k) ==
  IF k \notin Indexed(c) THEN c
  ELSE [c EXCEPT !.size = (@ - Size(c.val[k])) % Word,
                 !.order = Without(@, k),
                 !.val[k] = NoEntry]

LookUp(c, k) == IF k \notin Indexed(c) THEN c ELSE [c EXCEPT !.order = <<k>> \o Without(@, k)]
LookUpWithoutChangingOrder(c, k) == c.val[k]

UpdateFails(c, k, v) ==
  CASE k \notin Indexed(c)             -> "ErrEntryNotExist"
    [] Size(v) # Size(c.val[k])        -> "ErrInvalidUpdateEntrySize"
    [] OTHER                           -> "ok"
UpdateWithoutChangingOrder(c, k, v) == [c EXCEPT !.val[k] = v]

\* UpdateSize: only the counter moves, and no entry is evicted.
UpdateSize(c, k, delta) == [c EXCEPT !.size = (@ + delta) % Word]

\* checkInvariants: the list holds every key of the index once.
Consistent(c) ==
  /\ Cardinality(Indexed(c)) = Len(c.order)
  /\ \A k \in Indexed(c) : \E i \in 1..Len(c.order) : c.order[i] = k
=============================================================================
