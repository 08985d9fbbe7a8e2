------------------------------ MODULE HashTable ------------------------------
(***************************************************************************)
(* ciel::hashtable, and ciel::unordered_set above it.                      *)
(*                                                                         *)
(* A bucket is the chain of nodes that its entry of bucket_list_ begins,   *)
(* written as the sequence of their keys. A member function is one action  *)
(* with all its outcomes: it completes, or an allocation, a constructor or *)
(* a comparison throws in it. Functions are operators from a table to the  *)
(* next one.                                                               *)
(***************************************************************************)
EXTENDS Integers, Sequences

SE == INSTANCE SequencesExt

CONSTANTS
  Tables,         (* variables of type hashtable                           *)
  Keys,           (* what an element can hold; equal keys are identical    *)
  Hash,           (* hasher_                                               *)
  MaxLoads,       (* what mlf_ can be, as fractions <<n, d>>               *)
  Multi,          (* is the table used through its functions for equal keys? *)
  Gone,           (* a variable outside its lifetime                       *)
  MaxBuckets,     (* bound: bucket lists beyond it are not tried           *)
  BucketCounts,   (* bound: the numbers of buckets that calls ask for      *)
  MaxSize,        (* bound: elements of a table                            *)
  MaxRange,       (* bound: elements a call brings along                   *)
  MaxLost,        (* bound: nodes lost                                     *)
  EqualThrows,    (* may ke_ throw in emplace?                             *)
  RangeThrows     (* may inserting throw in the constructor of a range?    *)

ASSUME HashAssumption ==
  /\ Hash \in [Keys -> Nat]
  /\ MaxLoads \subseteq (Nat \ {0}) \X (Nat \ {0})
  /\ <<1, 1>> \in MaxLoads
  /\ Multi \in BOOLEAN /\ EqualThrows \in BOOLEAN /\ RangeThrows \in BOOLEAN
  /\ BucketCounts \subseteq Nat
  /\ {MaxBuckets, MaxSize, MaxRange, MaxLost} \subseteq Nat

VARIABLES
  table,   (* bucket_list_, size_ and mlf_ of each variable                *)
  lost,    (* nodes that are allocated and in no table                     *)
  call     (* the last call: what, with which keys, whether it threw       *)

vars == <<table, lost, call>>

Table == [bucket : Seq(Seq(Keys)), size : Nat, mlf : MaxLoads]
Calls == {"construct", "destroy", "assign", "insert", "insert all", "erase",
          "keep", "take", "swap"}

TypeOK ==
  /\ table \in [Tables -> Table \cup {Gone}]
  /\ lost \in Nat
  /\ call \in Calls \X (SUBSET Keys) \X BOOLEAN

Init ==
  /\ table = [t \in Tables |-> Gone]
  /\ lost = 0
  /\ call = <<"keep", {}, FALSE>>

-----------------------------------------------------------------------------
(* The beginning of PrimeNumberArray.                                      *)
PrimeNumberArray == {2, 3, 5, 7, 11, 13, 17, 19, 23, 29, 31}

(* upper_bound: the first prime beyond n, or n itself from the last one on. *)
next_prime(n) ==
  IF \A q \in PrimeNumberArray : n >= q THEN n
  ELSE CHOOSE p \in PrimeNumberArray :
         p > n /\ \A q \in PrimeNumberArray : q > n => p <= q

bucket_count(t) == Len(t.bucket)
BucketOf(k, n)  == (Hash[k] % n) + 1

(* The elements of a table in the order of its iterator.                   *)
Elements(t) == SE!FlattenSeq(t.bucket)
KeysOf(s)   == {s[i] : i \in DOMAIN s}
KeysIn(t)   == KeysOf(Elements(t))

NoBuckets(n) == [j \in 1 .. n |-> <<>>]
Fresh(n, mlf) == [bucket |-> NoBuckets(n), size |-> 0, mlf |-> mlf]

(* Mutant: the list grows only when the load exceeds its maximum.          *)
LoadedLate(t) == t.size * t.mlf[2] > t.mlf[1] * bucket_count(t)

(* load_factor() >= max_load_factor(), and sizes divided by mlf_.          *)
Loaded(t)       == t.size * t.mlf[2] >= t.mlf[1] * bucket_count(t)
Floor(size, t)  == (size * t.mlf[2]) \div t.mlf[1]
Ceil(size, t)   == (size * t.mlf[2] + t.mlf[1] - 1) \div t.mlf[1]
Larger(m, n)    == IF m > n THEN m ELSE n

(* Mutant: the nodes keep the index of their old bucket.                   *)
RehashedInPlace(t, n) ==
  [t EXCEPT !.bucket =
     [j \in 1 .. n |-> IF j <= bucket_count(t) THEN t.bucket[j] ELSE <<>>]]

(* Bucket j becomes b, with by more nodes than before.                     *)
Relinked(t, j, b, by) ==
  [t EXCEPT !.bucket = [i \in DOMAIN @ |-> IF i = j THEN b ELSE @[i]],
            !.size = @ + by]

(* do_rehash: the nodes go one by one to the front of their new buckets.   *)
Rehashed(t, n) ==
  LET s == Elements(t)
      moved[i \in 0 .. Len(s)] ==
        IF i = 0 THEN [t EXCEPT !.bucket = NoBuckets(n)]
        ELSE LET u == moved[i - 1]
                 j == BucketOf(s[i], n)
             IN Relinked(u, j, <<s[i]>> \o u.bucket[j], 0)
  IN moved[Len(s)]

(* Both kinds of emplace make room first.                                  *)
NeedsRoom(t) == bucket_count(t) = 0 \/ Loaded(t)
Room(t) ==
  IF NeedsRoom(t) THEN Rehashed(t, next_prime(bucket_count(t))) ELSE t

(* range_insert makes room for all elements of a forward range.            *)
RoomForAll(t, len) ==
  LET n == Floor(t.size + len, t)
  IN IF n > bucket_count(t) THEN Rehashed(t, next_prime(n)) ELSE t

(* Mutant: an element that is there already is inserted again.             *)
LinkUniqueAgain(t, k) ==
  LET j == BucketOf(k, bucket_count(t)) IN Relinked(t, j, <<k>> \o t.bucket[j], 1)

(* emplace_unique after its rehash: a new node goes to the front unless    *)
(* its bucket has an equal one.                                            *)
LinkUnique(t, k) ==
  LET j == BucketOf(k, bucket_count(t))
  IN IF k \in KeysOf(t.bucket[j]) THEN t
     ELSE Relinked(t, j, <<k>> \o t.bucket[j], 1)

(* emplace_multi after its rehash: a new node goes behind the first node   *)
(* that is last or followed by an equal one.                               *)
LinkMulti(t, k) ==
  LET j == BucketOf(k, bucket_count(t))
      b == t.bucket[j]
      at == IF b = <<>> THEN 0
            ELSE CHOOSE i \in 1 .. Len(b) :
                   /\ i = Len(b) \/ b[i + 1] = k
                   /\ \A h \in 1 .. i - 1 : b[h + 1] # k
  IN Relinked(t, j, SE!InsertAt(b, at + 1, k), 1)

Link(t, k, multi) == IF multi THEN LinkMulti(t, k) ELSE LinkUnique(t, k)

(* Every emplace of a range makes its own room.                            *)
EmplacedAll(t, s, multi) ==
  LET after[i \in 0 .. Len(s)] ==
        IF i = 0 THEN t ELSE Link(Room(after[i - 1]), s[i], multi)
  IN after[Len(s)]

(* clear: every node is freed and discounted.                              *)
Cleared(t) ==
  [t EXCEPT !.bucket = NoBuckets(bucket_count(t)), !.size = @ - Len(Elements(t))]

-----------------------------------------------------------------------------
Lives(t) == table[t] # Gone

InBound(t) == t.size <= MaxSize /\ bucket_count(t) <= MaxBuckets

Ranges == UNION {[1 .. n -> Keys] : n \in 0 .. MaxRange}

(* A range insertion into t that breaks off has inserted the beginning of   *)
(* s, and may have made room for the next element.                         *)
Initials(s) == {SubSeq(s, 1, i) : i \in 0 .. Len(s) - 1}
Broken(t, s, multi) ==
  LET done == {EmplacedAll(t, p, multi) : p \in Initials(s)}
  IN done \cup {Room(u) : u \in done}

Completes(t, new, what, S) ==
  /\ new # Gone => InBound(new)
  /\ table' = [table EXCEPT ![t] = new]
  /\ call' = <<what, S, FALSE>>
  /\ UNCHANGED lost

(* A throw that leaves n nodes to nobody.                                  *)
Loses(t, new, what, S, n) ==
  /\ new # Gone => InBound(new)
  /\ table' = [table EXCEPT ![t] = new]
  /\ call' = <<what, S, TRUE>>
  /\ lost + n <= MaxLost
  /\ lost' = lost + n

Throws(t, new, what, S) == Loses(t, new, what, S, 0)

-----------------------------------------------------------------------------
(* Lifetime.                                                               *)

(* The constructor with a number of buckets.                               *)
Construct(t, n) ==
  /\ ~Lives(t)
  /\ \/ Completes(t, Fresh(n, <<1, 1>>), "construct", {})
     \/ n > 0 /\ Throws(t, Gone, "construct", {})

(* The constructors that insert: when one of the insertions throws, the    *)
(* destructor does not run and the nodes so far are not freed.             *)
ConstructFrom(t, fresh, s, forward, multi) ==
  /\ ~Lives(t)
  /\ LET empty == IF forward THEN RoomForAll(fresh, Len(s)) ELSE fresh
     IN \/ Completes(t, EmplacedAll(empty, s, multi), "construct", KeysOf(s))
        \/ /\ bucket_count(fresh) > 0 \/ s # <<>>
           /\ Throws(t, Gone, "construct", {})
        \/ /\ RangeThrows
           /\ \E part \in Broken(empty, s, multi) :
                Loses(t, Gone, "construct", {}, part.size)

ConstructRange(t, s, forward, n) ==
  ConstructFrom(t, Fresh(n, <<1, 1>>), s, forward, Multi)

CopyConstruct(t, u) ==
  /\ Lives(u)
  /\ ConstructFrom(t, Fresh(bucket_count(table[u]), table[u].mlf),
                   Elements(table[u]), TRUE, TRUE)

MovedFrom(t) == Fresh(0, t.mlf)

MoveConstruct(t, u) ==
  /\ ~Lives(t) /\ Lives(u)
  /\ table' = [table EXCEPT ![t] = table[u], ![u] = MovedFrom(table[u])]
  /\ call' = <<"take", {}, FALSE>>
  /\ UNCHANGED lost

(* clear, then the bucket list goes with its owner.                        *)
Destruct(t) ==
  /\ Lives(t)
  /\ Completes(t, Gone, "destroy", {})

-----------------------------------------------------------------------------
(* Assignment: clear, then insert.                                         *)

Reassign(t, s, multi) ==
  LET room == RoomForAll(Cleared(table[t]), Len(s))
  IN \/ Completes(t, EmplacedAll(room, s, multi), "assign", KeysOf(s))
     \/ /\ s # <<>>
        /\ \E new \in {Cleared(table[t])} \cup Broken(room, s, multi) :
             Throws(t, new, "assign", KeysOf(s))

CopyAssign(t, u) ==
  /\ Lives(t) /\ Lives(u)
  /\ t # u
  /\ Reassign(t, Elements(table[u]), TRUE)

(* unordered_set::operator=(initializer_list).                             *)
AssignList(t, s) ==
  /\ Lives(t)
  /\ ~Multi
  /\ Reassign(t, s, FALSE)

(* Mutant: the source of a move keeps its size.                            *)
MoveAssignKeepsSize(t, u) ==
  /\ Lives(t) /\ Lives(u)
  /\ t # u
  /\ table' = [table EXCEPT ![t] = table[u],
                            ![u] = [MovedFrom(table[u]) EXCEPT !.size = table[u].size]]
  /\ call' = <<"take", {}, FALSE>>
  /\ UNCHANGED lost

MoveAssign(t, u) ==
  /\ Lives(t) /\ Lives(u)
  /\ t # u
  /\ table' = [table EXCEPT ![t] = table[u], ![u] = MovedFrom(table[u])]
  /\ call' = <<"take", {}, FALSE>>
  /\ UNCHANGED lost

Swap(t, u) ==
  /\ Lives(t) /\ Lives(u)
  /\ table' = [table EXCEPT ![t] = table[u], ![u] = table[t]]
  /\ call' = <<"swap", {}, FALSE>>
  /\ UNCHANGED lost

Clear(t) ==
  /\ Lives(t)
  /\ Completes(t, Cleared(table[t]), "assign", {})

-----------------------------------------------------------------------------
(* Insertion.                                                              *)

(* emplace_unique, emplace_multi: left at a throw of the rehash, of the    *)
(* node's allocation and construction, or of a comparison with the nodes   *)
(* of the bucket, when the new node has been counted but is not linked.    *)
Emplace(t, k) ==
  /\ Lives(t)
  /\ LET room == Room(table[t])
     IN \/ Completes(t, Link(room, k, Multi), "insert", {k})
        \/ Throws(t, table[t], "insert", {k})
        \/ Throws(t, room, "insert", {k})
        \/ /\ EqualThrows
           /\ Len(room.bucket[BucketOf(k, bucket_count(room))]) > (IF Multi THEN 1 ELSE 0)
           /\ Loses(t, [room EXCEPT !.size = @ + 1], "insert", {k}, 1)

(* range_insert_unique, range_insert_multi; only a forward range is        *)
(* measured in advance.                                                    *)
RangeInsert(t, s, forward) ==
  /\ Lives(t)
  /\ LET room == IF forward THEN RoomForAll(table[t], Len(s)) ELSE table[t]
     IN \/ Completes(t, EmplacedAll(room, s, Multi), "insert", KeysOf(s))
        \/ \E new \in Broken(room, s, Multi) :
             Throws(t, new, "insert all", KeysOf(s))
        \/ /\ room # table[t]
           /\ Throws(t, table[t], "insert all", KeysOf(s))

-----------------------------------------------------------------------------
(* Removal.                                                                *)

(* Mutant: erase and the function that frees the node both discount it.    *)
UnlinkTwice(t, j, i) == Relinked(t, j, SE!RemoveAt(t.bucket[j], i), -2)

(* Mutant: the search for the node before is left out.                     *)
UnlinkHead(t, j, i) == Relinked(t, j, SE!RemoveAt(t.bucket[j], 1), -1)

(* erase: the i-th node of bucket j is unlinked.                           *)
Unlink(t, j, i) == Relinked(t, j, SE!RemoveAt(t.bucket[j], i), -1)

(* erase at the p-th position of the iterator.                             *)
UnlinkAt(t, p) ==
  LET Before(j) == Len(SE!FlattenSeq(SubSeq(t.bucket, 1, j - 1)))
      j == CHOOSE j \in DOMAIN t.bucket :
             Before(j) < p /\ p <= Before(j) + Len(t.bucket[j])
  IN Unlink(t, j, p - Before(j))

(* erase of the positions first to last, one after the other.              *)
WithoutFrom(t, first, last) ==
  LET n == last - first + 1
      erased[i \in 0 .. n] == IF i = 0 THEN t ELSE UnlinkAt(erased[i - 1], first)
  IN erased[n]

EraseRange(t, first, last) ==
  /\ Lives(t)
  /\ 1 <= first /\ first <= last /\ last <= Len(Elements(table[t]))
  /\ LET new == WithoutFrom(table[t], first, last)
     IN Completes(t, new, "erase", KeysIn(table[t]) \ KeysIn(new))

(* erase_if: the iterator is at position `at' of what is left of t.         *)
WithoutAll(t, S) ==
  LET n == Len(Elements(t))
      visited[i \in 0 .. n] ==
        IF i = 0 THEN [left |-> t, at |-> 1]
        ELSE LET u == visited[i - 1]
             IN IF Elements(u.left)[u.at] \in S
                THEN [u EXCEPT !.left = UnlinkAt(u.left, u.at)]
                ELSE [u EXCEPT !.at = u.at + 1]
  IN visited[n].left

EraseIf(t, S) ==
  /\ Lives(t)
  /\ Completes(t, WithoutAll(table[t], S), "erase", S)

(* How many elements equal to k follow each other from the first one on:   *)
(* what count_multi returns, equal_range spans and erase_multi erases.     *)
FirstOf(t, k) == SE!SelectInSeq(Elements(t), LAMBDA e : e = k)
RunOf(t, k) ==
  LET s == Elements(t)
      f == FirstOf(t, k)
  IN IF f = 0 THEN 0
     ELSE CHOOSE n \in 1 .. Len(s) :
            /\ \A i \in f .. f + n - 1 : i \in DOMAIN s /\ s[i] = k
            /\ f + n \in DOMAIN s => s[f + n] # k

(* erase_unique and erase_multi.                                           *)
EraseKey(t, k) ==
  /\ Lives(t)
  /\ LET old == table[t]
         run == IF Multi \/ RunOf(old, k) = 0 THEN RunOf(old, k) ELSE 1
     IN Completes(t, IF run = 0 THEN old
                     ELSE WithoutFrom(old, FirstOf(old, k), FirstOf(old, k) + run - 1),
                  "erase", {k})

-----------------------------------------------------------------------------
(* The bucket list.                                                        *)

SetMaxLoad(t, mlf) ==
  /\ Lives(t)
  /\ Completes(t, [table[t] EXCEPT !.mlf = mlf], "keep", {})

Rehash(t, n) ==
  /\ Lives(t)
  /\ \/ Completes(t, Rehashed(table[t],
                              next_prime(Larger(n, Ceil(table[t].size, table[t])))),
                  "keep", {})
     \/ Throws(t, table[t], "keep", {})

Reserve(t, n) == Lives(t) /\ Rehash(t, Ceil(n, table[t]))

-----------------------------------------------------------------------------
Lifetime(t) ==
  \/ Destruct(t)
  \/ \E n \in BucketCounts : Construct(t, n)
  \/ \E s \in Ranges, forward \in BOOLEAN, n \in BucketCounts :
       ConstructRange(t, s, forward, n)
  \/ \E u \in Tables : CopyConstruct(t, u) \/ MoveConstruct(t, u)

Assignment(t) ==
  \/ Clear(t)
  \/ \E s \in Ranges : AssignList(t, s)
  \/ \E u \in Tables : CopyAssign(t, u) \/ MoveAssign(t, u) \/ Swap(t, u)

Insertion(t) ==
  \/ \E k \in Keys : Emplace(t, k)
  \/ \E s \in Ranges, forward \in BOOLEAN : RangeInsert(t, s, forward)

Removal(t) ==
  \/ \E first, last \in 1 .. MaxSize : EraseRange(t, first, last)
  \/ \E S \in SUBSET Keys : EraseIf(t, S)
  \/ \E k \in Keys : EraseKey(t, k)

Capacity(t) ==
  \/ \E mlf \in MaxLoads : SetMaxLoad(t, mlf)
  \/ \E n \in BucketCounts : Rehash(t, n) \/ Reserve(t, n)

Next == \E t \in Tables :
  Lifetime(t) \/ Assignment(t) \/ Insertion(t) \/ Removal(t) \/ Capacity(t)

Spec == Init /\ [][Next]_vars

-----------------------------------------------------------------------------
(* Every element is in the bucket that find looks for it in: no rehash,    *)
(* insertion, copy or swap separates a key from its hash and the length of *)
(* the bucket list.                                                        *)
InBucket ==
  \A t \in Tables : Lives(t) =>
    \A j \in 1 .. bucket_count(table[t]) :
      \A k \in KeysOf(table[t].bucket[j]) : BucketOf(k, bucket_count(table[t])) = j

(* size_ is the number of nodes in the buckets, except for nodes that were *)
(* counted and lost when a comparison threw.                               *)
NodesAccounted ==
  \A t \in Tables : Lives(t) =>
    LET nodes == Len(Elements(table[t])) IN table[t].size \in nodes .. nodes + lost

(* Unique keys are unique, also in tables that were copied with            *)
(* range_insert_multi.                                                     *)
UniqueKeys ==
  ~Multi => \A t \in Tables : Lives(t) => SE!IsInjective(Elements(table[t]))

(* count_multi, equal_range and erase_multi see all elements equal to a    *)
(* key: these are adjacent.                                                *)
EqualAdjacent ==
  \A t \in Tables : Lives(t) =>
    \A k \in Keys :
      RunOf(table[t], k) = Len(SelectSeq(Elements(table[t]), LAMBDA e : e = k))

(* Tables within their maximal load stay so: whoever adds elements grows   *)
(* the bucket list enough for them, until max_load_factor is lowered.      *)
WithinLoad(t) == t.size * t.mlf[2] <= t.mlf[1] * bucket_count(t)
Lowered(t) ==
  Lives(t) /\ Lives(t)' /\ table'[t] = [table[t] EXCEPT !.mlf = table'[t].mlf]
LoadKept ==
  [][(\A t \in Tables : Lives(t) => WithinLoad(table[t]) /\ ~Lowered(t)) =>
       \A t \in Tables : Lives(t)' => WithinLoad(table'[t])]_vars

-----------------------------------------------------------------------------
(* What a table of unique keys shows is a set of keys, all with the same   *)
(* value.                                                                  *)
Map == INSTANCE KeyMap WITH
         Containers <- Tables,
         contents   <- [t \in Tables |-> IF Lives(t) THEN KeysIn(table[t]) \X {0} ELSE Gone],
         call       <- <<call[1], call[2] \X {0}, call[3]>>

(* Every call does to the set what it promises, whatever throws in it.     *)
ImplementsSet == Map!MapSpec
=============================================================================
