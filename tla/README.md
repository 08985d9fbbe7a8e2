# cielutils in TLA+

A verification project for [cielutils](../src/README.md), a header-only C++20 library that
rewrites the containers, smart pointers and algorithms of the standard library
(`src/include/ciel/`, namespace `ciel`). The modules model the parts whose behaviour is more
than a computation of types; the `MC*` modules and `*.cfg` files check them with TLC; the
`*_proofs` modules prove theorems about them with TLAPS. `PROJECT.json` is the index: which
definition stands for which lines, which run checks what.

## The system

The library has no process of its own: its components are classes, a client's calls are what
happens. Three things make it hard. **Threads**: `shared_ptr` is the one component whose objects
(the control blocks) are used from several threads at once, with two separate atomic counters per
block. **Exceptions**: every container calls an allocator and the constructors of its elements,
and each of these calls may throw in the middle of an operation. **Hand-made structure**:
rings, split buffers, hash chains and threaded balanced trees keep redundant pointers that every
operation must keep consistent.

| component (src/include/ciel/) | state | operations | interacts with | must be right about |
|---|---|---|---|---|
| `memory_impl/shared_ptr.hpp` | control block with `shared_count_`, `shared_and_weak_count_`, deleter; `ptr_`, `count_` per pointer; `weak_this_` per object | copy, move, swap, reset, destroy, `lock`, promotion, `shared_from_this` | threads share blocks; deleter calls the object's destructor, which may release `weak_this_` | objects destroyed once, when unowned; block freed once, after everything; expired stays expired |
| `memory_impl/unique_ptr.hpp` | one pointer and a deleter | move, reset, release, swap | an object's own `unique_ptr` members; feeds `shared_ptr` | deleted once, also when the deletion reaches the pointer at work |
| `vector.hpp` | `begin_`, `end_`, `end_cap_` | construct, assign, insert, emplace, erase, resize, reserve, shrink, swap | allocator, element constructors (throw) | elements live exactly in [begin, end); storage owned once; strong guarantee; arguments that refer to own elements |
| `split_buffer.hpp` | four pointers: room at both ends | the same at both ends, sliding and growing | allocator, elements; is the map of `deque` | the same, plus the slides between the two spare regions |
| `circular_buffer.hpp` | ring `begin_cap_..end_cap_`, `begin_`, `end_`; one cell stays free | the same at both ends | allocator, elements | the same, plus wrap-around |
| `deque.hpp` | split buffer of blocks of fixed size, `begin_offset_`, `size_` | the same | split buffer, allocator | map and blocks consistent, elements stay where they are while it grows |
| `deprecated/deque.hpp` | list of blocks | the same | list, allocator | the same |
| `list.hpp`, `forward_list.hpp` | linked nodes; the end node (before-begin node) is a member of the list | insert, emplace, erase, assign, resize, move, swap | allocator, elements | links form one chain in both directions; no node lost or shared; links to the member follow a move |
| `hashtable.hpp`, `unordered_set.hpp` | bucket list, a chain of nodes per bucket, `size_`, `mlf_` | emplace unique/multi, erase, rehash, swap | hash, equality and element constructors (throw) | every key in its bucket; nodes counted and freed; load factor |
| `avl.hpp`, `set.hpp`, `map.hpp` | tree with parent pointers, heights, `start_`, an end node inside the tree object | insert unique/multi/with hint, erase, move, swap | comparator, elements | order, balance, heights, parents, iteration both ways |
| `any.hpp`, `functional_impl/function.hpp` | small buffer or heap pointer, handler or virtual table | assign, emplace, swap, reset | held value's constructors (throw) | one live value in the right storage |
| `variant.hpp` | buffer, `index_`, handler; never without a value | construct, assign, swap | alternatives' constructors (throw) | index agrees with storage |
| `queue.hpp`, `stack.hpp` | a container (and a comparator) | push, pop | container, heap algorithms | heap order |
| `algorithm_impl/` | none | sort, stable_sort, heaps, rotate, permutations, search, merge | iterators | result is the specified one for every input |
| `array`, `span`, `tuple`, `pair`, iterators, traits, concepts, numeric, function objects | none or forwarded | - | - | types |

Hazards, each at its line, are listed in `PROJECT.json` (`hazards`) with the properties that catch
them, or why none does.

## How the modules are composed

| layer | modules |
|---|---|
| promises | `Ownership`, `SequenceContainer`, `KeyMap`, `OptionalValue`, `RangeContract` |
| memory | `Heap`, `Removal`; `Container` (variables of a sequence container over it), `Holder` (variables of a class that holds one value) |
| sequences | `Vector`, `SplitBuffer`, `CircularBuffer`, `List`, `ForwardList`; `Subarrays`, which `Deque` and `DeprecatedDeque` extend |
| keys | `HashTable`, `Avl` |
| values | `Any`, `Function`, `Variant`, `UniquePtr` |
| threads | `SharedPtr` |
| algorithms | `Ranges`, `HeapOrder`, `Introsort`, `StableSort`, composed in `Algorithms` |
| instances | `MCSharedPtr`, `MCSequences`, `MCHashTable`, `MCAvl`, `MCValues`, `MCAlgorithms` |
| proofs | `SharedPtr_proofs`, `SharedPtrLife_proofs`, `SharedPtrOwnership_proofs`; `Heap_proofs`, `Vector_proofs`; `HashTable_proofs`; `Holders_proofs`, `Values_proofs` |

Except for `SharedPtr` the classes are not meant to be shared between threads, so a member function
is one action, with all its outcomes: it completes, or an allocation, a constructor or a comparison
throws at each place where the code calls one, and the state is what the handlers make of it. `call`
records what the last call was and whether it threw; with it each promise says what that call may
have done. Inside, a function is a chain of operators from one state of the objects to the next,
in the order of the code.

## Plan

1. `SharedPtr` with the abstract `Ownership`: the only concurrent component. **Done, proved.**
2. `Heap`, `Vector` with `SequenceContainer`: exception safety. **Done, proved.**
3. `HashTable` with `KeyMap`. **Done, proved.**
4. `Avl` with `KeyMap`. **Done.**
5. `SplitBuffer`, `CircularBuffer`, `Deque`, `DeprecatedDeque`. **Done.**
6. `List`, `ForwardList`. **Done.**
7. `Any`, `Function`, `Variant`, `UniquePtr` with `OptionalValue`. **Done, proved.**
8. Algorithms with `RangeContract`. **Done.**
9. To be proved next: `SplitBuffer` and `CircularBuffer`, whose storage is one block like that of
   `Vector`, from the lemmas of `Heap_proofs`. `Avl` and the algorithms are recursive operators over
   trees and ranges and stay with TLC.
10. Left to model: capacity arithmetic modulo 2^w, several unequal allocators, iterators that
    outlive a change of their container, the one-pass algorithms.

## SharedPtr and Ownership

**State.** A control block is named by the object it was created for. `shared_count_` and
`shared_and_weak_count_` are the two atomics of `shared_weak_count`; `block` and `object` say
whether the block is allocated and the object alive; `count_` is the block each `shared_ptr` and
`weak_ptr` variable refers to; `weak_this_` that of each object's `enable_shared_from_this` base.
Threads have a program counter `pc`, the temporary of the copy-and-swap idiom (`tmp`) and the
variables they read and write (`src`, `dst`). Two more record a second destruction: `left_[o]` is
what the destroyed `weak_this_` of `o` still shows (`~weak_ptr` does not null its pointer), and
`overdrawn`, a history variable, counts the units of each second counter that were released a second time.

**Actions.** One action per access to a counter. `CopyShared`, `SharedFromThis`, `FromWeak` and
`Lock`/`Promote` are the first increment of `add_ref`, `AddTotal` is the second together with the swap
into the target; the destructor of the temporary is `Release` (first decrement), `Destroy` (the
deleter), `DropSelf` (the object's `weak_this_`) and `DecTotal` (second decrement, which frees the
block). An object that was brought back by `lock` or a promotion is destroyed again, and so is its
`weak_this_`: `DropSelf` then takes another unit from the block that `left_` refers to. Weak references
take one access: `CopyWeak`, `WeakFromThis`, `MoveWeak`, `ResetWeak`, then `DecTotal`. `Adopt` is a
constructor from a raw pointer or a `unique_ptr` with `enable_weak_this` (which nobody else can see
happening), `AdoptFails` the one whose allocation throws. `reset(Y*)` is `Adopt` into a temporary and
`MoveShared`. A `shared_ptr(unique_ptr)` whose allocation throws changes nothing. `Clone`, `MoveClone`,
`AssignObject` and `MoveAssignObject` are the client's `new T(*s)`, `new T(std::move(*s))`, `*d = *s`
and `*d = std::move(*s)`, whose defaulted members of `enable_shared_from_this` copy, take and assign
`weak_this_`: after an assignment it refers to the block of the other object.

**The client** obeys the language's rules: a variable that is written is not accessed by another
thread (`Readable`, `Writable`), members of an object are called while it lives (`Pointee`), and an object
is written while no other thread reads a variable that refers to it (`Unread`). The
constants say which threads use the operations that are unsafe in this implementation: `Lockers`
call `weak_ptr::lock`, `Promoters` construct from a `weak_ptr`, `Cloners` copy objects that derive
from `enable_shared_from_this`, `Assigners` move them and assign to them.

**Atomics** are sequentially consistent in the model; the weaker orders of the code are not
modelled. Pointers to null with a control block, stored pointers and
`owner_before` are left out: no counter depends on them.

**Abstract specification.** `Ownership` has no counters and no threads: owners, observers,
lives, storage. `ImplementsOwnership` maps `count_` to what owners own and observers observe.

| run | instance | shows |
|---|---|---|
| `shared_threads` | 3 threads, 3 + 2 variables, 2 objects | `OwnedAlive`, `DestroyedOnce`, `DestroyedBeforeFreed`, `QuiescentUseCount`, `SelfReference`, `ExpiredForever`, refinement of `Ownership` |
| `shared_blocks` | 2 threads, 2 + 2 variables, 2 objects, one of them `Enabled`; all of `lock` and promotion, `MaxOverdrawn` 2 | `SharedCountExact`; `TotalCountExact`: the second counter is the number of references less the units that second destructions took; `BlockPinned`: no block is freed under a reference but one that lost such a unit; `BlockNotLeaked` |
| `shared_live` | 2 threads, 2 + 1 variables, 3 objects, two of them copied, moved and assigned to, `FairSpec` | `TotalCountExact` and `BlockNotLeaked` when `weak_this_` refers to a foreign block or to none; `UnownedDies`, `UnreachableFreed` |
| `shared_lock_race` | violation of `DestroyedOnce` | `lock` is a test and then an unconditional increment |

A second destruction is the code's consequence of the lock race: the object is destroyed again, its
`~weak_this_` releases a unit that is not its own any more, and the block may be freed under a live
reference. `TotalCountExact` and `BlockPinned` say exactly how far that goes: each such unit is one of
`overdrawn`, nothing else is lost, and blocks that lost none (those of objects that died once, or do not
derive from `enable_shared_from_this`) are safe. What a program does after it touched a freed block is
undefined; the model lets the counters go on.

**Bounds.** Without second destructions nothing in the actions counts beyond the numbers of variables
and threads. With them, each round of promotion and destruction takes one unit more, without end;
`Followed` stops promotions of an object whose destructor has overdrawn its block `MaxOverdrawn` times.
Two are enough for a block that is freed too early and for a counter below zero. Two threads interleave
every pair of operations; the third is there because a release races with a copy *and* a release. Three
variables let a thread copy while both others hold the same block; two objects are needed for
assignments that change the object; the third in `shared_live` makes a chain of copies. Symmetry is used
where the sets of special threads or objects are empty or full (in `shared_blocks` that of threads and
variables), and never with liveness.

**Fairness** is `WF_vars(Continue(t))`: no member function waits for another thread, so a thread
that is scheduled completes the one it is in. Nothing makes a client call a function.

**Proved** for all finite sets of threads, variables and objects.

| module | assumes | theorems |
|---|---|---|
| `SharedPtr_proofs` | `CopiesOrPromotions` | `CountersNeverNegative`, `OwnersExact`, `CountersExact`, `BlocksPinned`, `NoBlockLeaks` |
| `SharedPtrLife_proofs` | `OwnersOnly` | `ObjectsLiveWhileOwned`, `ObjectsDieOnce`, `ObjectsDieBeforeBlocks`, `UseCountExact`, `SelfReferenceHolds`, `ExpiryIsFinal` |
| `SharedPtrOwnership_proofs` | `OwnersOnly` | `CountingImplementsOwnership` |

* *Counters and blocks.* The first counter is the number of owners; the second is the number of
  references less what was taken twice, every block with a reference that lost no unit is allocated and
  every allocated block is referenced. None of these is inductive by itself. `Inv` adds what a thread at
  each `pc` holds (`ThreadInv`, with `Lent`: the block a thread is about to count again is pinned by the
  variable it reads, or by `weak_this_` of the object that variable owns), that a variable being written
  is read by nobody (`Exclusive`), that what a thread is about to release for a destroyed object is what
  `weak_this_` of that object still shows (`Dropping`), that a block which anything refers to, or
  referred to, was allocated (`Allocated`), and that blocks come after their objects (`Born`). For
  clients that copy objects of `enable_shared_from_this` it adds that the `weak_this_` of a copy refers
  to an object that refers to itself (`OneDeep`), and that a copy lives while it has an owner
  (`CopiesOwned`). Counters are cardinalities of sets of holders: an action adds or removes one holder,
  or adds to `overdrawn`; a block freed at count one has no other holder, or was overdrawn.
* *Objects.* `LifeInv` adds that whoever increments holds an owner (`FromOwner`), that a counted object
  lives (`CountedAlive`), that one thread at most destroys it (`OneDestroyer`), that a live object with
  a block has an owner or a destroyer (`NotForgotten`, `Adopted`), and that an owned object's
  `weak_this_` is its own block (`SelfOwned`, `OwnBlock`). `OneDropper` and `NothingOverdrawn` are
  consequences: where objects die once, every unit of the second counter is released once.
* *Refinement.* Every step is a step of `Ownership` or a stutter, action by action, from `LifeInv`.

The assumptions are needed. `CopiesOrPromotions` says that nobody moves or assigns to objects of
`enable_shared_from_this` (`Assigners`), and that the client does not both copy them (`Cloners`) and
promote weak references (`Lockers`, `Promoters`): with both, a promotion brings back a copy whose
destructor is about to release its `weak_this_`, the block that `weak_this_` refers to goes with it, and
TLC finds `BlockPinned` violated; it does so with `Assigners` and promotions as well. `OwnersOnly` says
that the client does none of this. With `Lockers`, `DestroyedOnce` is false (`shared_lock_race`); with
one thread in `Promoters` it is too, because an expired reference that is promoted owns a dead object;
with `Cloners` or `Assigners`, `SelfReference` is false, because a copied `weak_this_` that has not
expired stays with the original (`shared_ptr.hpp:184`). Only model-checked: the counters with
`Assigners` (`shared_live`), and liveness, which is out of the prover's reach.

## The sequence containers

**Memory.** `Heap` is the memory behind `allocator_traits`: blocks of cells, each raw or holding an
object. Each operator that touches memory checks what the language and the `CIEL_PRECONDITION`s
demand and records a `fault` otherwise: access out of a block or to a raw cell, construction over
an object, a second `deallocate`, one with the wrong size or with live objects inside. After a
fault nothing happens any more. A cell of an element that was moved from holds `Moved`.

**State.** `obj[v]` has the members of variable `v`: for `Vector`, `SplitBuffer` and
`CircularBuffer` a block and offsets in it; for the deques the map as a sequence of blocks,
`begin_offset_` and `size_`; for the lists the addresses in `end_node_` or `before_begin_`, where
the address of that member is the variable itself, and a node is a block of two or three cells.
Elements do not throw when moved; the classes assert that. A reference argument is read when the
code reads it, so that `emplace_back(v[0])` and `insert(pos, n, v[i])` are told apart from calls
with an outside value.

**Actions.** One per member function, in `Lifetime`, `Assignment`, `Capacity`, `Insertion` and
`Removal` of each module; an overload that does the same with another kind of argument (count,
forward range, initializer list) is the same action, an input range is another one. Vector's
`insert` is in place, by a new block, or by `emplace_back`s and a rotation; `SplitBuffer` chooses
between shifting left or right, using the spare of the other end, and growing; `CircularBuffer` works
on at most two stretches of the ring; `Subarrays` turns a block without elements round to the end that
needs it, or allocates, and `Deque` inserts and erases from the nearer end. The lists link nodes one
by one and unlink what they had linked when a constructor throws.

**Properties** (`MCSequences`). `NoFault`; `ElementsInPlace`: the elements live exactly where the
members say, none of them moved from, and for lists both directions visit the same `size_` nodes;
`StorageOwned`: every allocated block belongs to exactly one variable; `ImplementsSequences`: what the
memory shows is a sequence to which each call does exactly what it was asked: `call` says what, between
which positions and with which elements, and what the sequence becomes follows from that alone; an
argument that refers to an element stands for what that element held when the call was made. A call that
throws leaves the sequence alone (insert, emplace, resize, reserve, shrink_to_fit: header comment at
`vector.hpp:20-23`), or, for assignment and for insertion in the middle of a `split_buffer`, ring or
deque, leaves some sequence of values. `shown`, a history variable, is that sequence.

| run | instance | shows |
|---|---|---|
| `sequences_one` | one container of each class, capacity up to 4 (ring: 6), ranges up to 2, blocks of 3 | all throws: `NoFault`, `ElementsInPlace`, `ImplementsSequences` |
| `sequences_two` | two containers of the same class, capacity up to 3, ranges up to 1 | `NoFault`, `StorageOwned`, `ImplementsSequences` across copies, moves, swaps |
| `sequences_throwing_constructor` | violation of `NoFault` | a throw in a delegating constructor of `vector` frees twice |

**Bounds.** Capacity 4 has all the cases of growth (0 to 1, doubling, several doublings in one
insert, in place with one and with two spare cells) and of shifts shorter and longer than the size;
the ring has one cell more than its elements and triples, so that 6 is what lets it grow twice.
Ranges of two let the throw come before, between and after; two values tell an old element from a
new one. Blocks of three cells are the least the deque works with: with one or two, the first
`emplace_front` leaves `end()` outside of the only block. States that differ in which blocks hold the
elements are one state (`Shape`); the properties see every step.

**Switches** keep calls out that break the containers; each TRUE makes TLC report a violated
`NoFault` (for the classes named):

* `Constructing` (vector, split_buffer, circular_buffer): see `sequences_throwing_constructor`.
* `StaleArguments` (vector, circular_buffer, split_buffer): `resize(n, v[0])` that grows reads freed
  memory; so do `emplace_back`, `emplace_front` and `insert` of a `split_buffer` that shifts its
  elements first. With FALSE an argument may still refer to an element wherever the code reads it
  before it moves: growth by `emplace_back` and `insert` is written with that in mind.
* `ReserveNothing` (circular_buffer): `reserve(0)` without storage asks for a ring of one cell,
  against `CIEL_PRECONDITION(new_cap > 1)`.
* `InsertInputs` (deque): `insert` of an input range rotates from an iterator into the old map.
  (The deprecated deque: with an empty range at its first cell, the result is an iterator before it.)
* `MoveEmpty` (list): a move or swap of an empty list leaves links to the other one's end node.

**Proved** for `Vector`, for any sets of variables, values and blocks (`Vector_proofs`, with the
lemmas on `Heap` in `Heap_proofs`): `VectorNoFault`, `VectorTypes`, `VectorElementsInPlace`,
`VectorStorageOwned` and `VectorImplementsSequences`, the refinement of `SequenceContainer`.

* The argument follows a call. `Sound(r, s)`: memory and members in the middle of a call show the
  elements of `s` where the members say, raw cells behind them, and there is a block to spare.
  `Leads(p, q, s)`: from `p` the call came to `q`, sound for `s`, and is `Local`: only its own old
  and new storage changed. Every private function has a lemma that it leads from any sound state
  to one that shows the sequence it should, or, when an element throws in it, back to the old one
  (`EmplacedBackHolds`, `RotateHolds`, `InsertFailsHolds`, ...); a member function is a chain of them.
* The inductive invariant `Inv` then needs no more than `Typed`, `InOrder` (the elements of every
  variable), `Apart` (no two variables have the same block) and `Owned` (every block has a
  variable): locality carries all four over a call. `NoFault` and `StorageOwned` are not inductive
  without `InOrder` and `Apart`.
* `Excluded` assumes `Constructing = FALSE` and `StaleArguments = FALSE`: with either TRUE `NoFault`
  is false, as the switches above say. `EnoughBlocks`, one block more than the variables can own,
  stands for an allocator that has memory: that it throws is an outcome of its own. `GoneOutside`
  says that a variable outside its lifetime is no vector and no sequence.
* The proof found an error in the model: `ShrinkToFit` was a `CASE` of overlapping arms, of which
  TLC takes the first and TLA+ any. It is a nested `IF` now, and so are the others of that kind.

`AllInPlace` and `StorageOwned` of `Container` are what `MCSequences` checks of all kinds of
containers; of the others there is no proof yet.

**Seen on the way**, where no property depends on it: `deprecated::deque::insert` returns the last
inserted element, `list::insert` of n elements or a range and `list::emplace_back` return the wrong
position; the header comment of `split_buffer.hpp:20-27` says that growth puts the elements in the
middle, and the code keeps the spare of one end; `circular_buffer` allocates a block of one cell when it
is assigned an empty range, which its comment at 778 excludes; `erase` and `erase_if` of the two
lists call a member `remove_if` that does not exist.

## HashTable and KeyMap

**State.** `table[t]` is a variable of type `hashtable`: `bucket` is the bucket list, each bucket
the sequence of the keys in the chain of nodes that begins there; `size` is `size_`, a field of
its own because the code counts nodes when it allocates and frees them; `mlf` is `mlf_` as a
fraction. `lost` counts nodes that are allocated and linked nowhere. A chain is never shared or
cyclic by construction of the model; that `do_rehash` and `erase` read `next_` before they write
it is what makes a chain a sequence.

**Actions.** One per member function of `hashtable` and for `erase_if` and the assignment of a list in
`unordered_set`, which has no other code of its own. `Rehashed` is `do_rehash`, which walks the elements
and puts each in front of its new bucket, so it reverses those that stay together; `Room` is the growth
by one prime before an `emplace`, `RoomForAll` that by the length of a forward range, in constructors
and insertions (an input range is not measured). `LinkUnique` and `LinkMulti` are the two insertions. A
range insertion that throws leaves the elements so far (`Broken`), with or without the rehash for the
next one. `WithoutAll` is the loop of `erase_if`, one element at a time. `CopyConstruct` and
`CopyAssign` go through `range_insert_multi` also for unique keys, as the code does.

`Multi` says whether the client calls the functions for unique or for equal keys (a table of one
kind never gets calls of the other: `unordered_set` wraps the first; nothing in the repository
wraps the second yet). `EqualThrows` and `RangeThrows` switch on two throws that lose
nodes: a comparison in `emplace` (the node is counted, linked nowhere, and `size_` stays one too
large, also after `clear`), and anything in a constructor that inserts (the destructor, which would
free the nodes, does not run).

**Properties.** `InBucket`: every key is in the bucket where `find` looks. `NodesAccounted`:
`size_` is the number of linked nodes, up to the nodes lost. `UniqueKeys`.
`LoadKept`: tables within `max_load_factor()` stay so until it is lowered. `ImplementsSet`: the
set of keys of each table behaves as `KeyMap` promises; an insertion of one key that throws leaves
it unchanged, one of several inserts some, an assignment that throws leaves some of the new keys.
`EqualAdjacent` is for equal keys: the run of equal elements that `count_multi`, `equal_range` and
`erase_multi` see is all of them. It is in no run: with `Multi = TRUE` it is violated, because
`emplace_multi` never compares the first node of a bucket.

| run | instance | shows |
|---|---|---|
| `hash` | two tables, 3 keys, lists of 2, 3 and 5 buckets, loads 1 and 2, up to 3 elements, ranges of up to 1 (`MaxRange`), both throws that lose a node | all of the above; where a node is lost, the sets are right and sizes off by no more than the nodes lost |

**Bounds.** Two of the three keys share a bucket in a list of two, all in a list of three and
none in a list of five, so that rehashes join and separate chains. The loads 1 and 2 have the list
grow at different sizes. Below 1, `LoadKept` does not hold: with a maximal load of 1/2, growth by
one prime is too little for one more element. `PrimeNumberArray` is cut off after 31, beyond every
size these bounds reach. Nothing is assumed to be fair: the calls are the client's. A range that a
client brings has one element at most, so that what a longer one does is seen in copies and assignments,
which insert up to three; it and the single `emplace` make room in different ways (`RoomForAll`, `Room`).
The functions for equal keys are checked where copies of tables of unique keys use them.

**Proved** for any number of tables, any keys, hash function, maximal loads and bounds
(`HashTable_proofs`): `HashTableTypes`, `ElementsInBuckets`, `SizesAccounted` and `KeysAreUnique`,
from nothing but `HashAssumption`, for unique and for equal keys; and `HashTableImplementsSet`, the
refinement of `KeyMap`, for unique keys (`UniqueTables`) and a `Gone` that is neither a table nor a
set (`GoneOutside`).

* The inductive invariant is that every living table is `Right`: `Sound` (each key in the bucket
  of its hash), nodes and `size_` apart by no more than the nodes lost, and for unique keys
  `Distinct` (no bucket has a key twice). `Distinct` with `Sound` is `UniqueKeys`; the weaker
  `UniqueKeys` alone would not carry over a rehash. The type of `size` needs the relation between
  `size` and nodes, because `clear` and `erase` subtract.
* `Rehashed`, `EmplacedAll`, `WithoutFrom` and `WithoutAll` are loops, written as recursive
  functions over the steps of the loop. Each is shown to be defined (`Iterates`), and its result to
  be an invariant of the loop (`Induction`, from the well-foundedness of the naturals): a rehash
  `Rearranges`, an insertion `Joins` one key or finds it, a range is `Collects`, an erasure
  `Sheds`. `EmplacingAll` is where a copy through `range_insert_multi` keeps keys unique: what is
  copied has no key twice, and the target is empty (`Fits`).
* `next_prime` of a number beyond the last prime is that number, as in the code; the lemma `NextPrime`
  needs no bound on the bucket counts.
* For the refinement one lemma per action of `KeyMap` says which changes of one table are that action
  (`Begins`, `Inserts`, `Renews`, `Erases`, `Refuses`, `Breaks`, ...), and one lemma per group of
  member functions that each outcome is one of those changes.

Only model-checked: `LoadKept`, which is false for a maximal load below 1 and for lists beyond the
last prime, so that its theorem would have to assume what the bounds of the run say.

## Avl and KeyMap

**State.** `heap` has `left`, `right`, `parent`, `height` and the mapped `value` of every node,
and `start` and `size` of every tree; the end node of a tree, whose `left_` is the root, has the
name of the variable. An address is a key and a number, so that a node keeps its key.

**Actions.** `Grown` and `Shrunk` are `insert_node_at` and `destroy_and_deallocate_node`: the walk
upwards that adjusts heights and rotates, with the rotation chosen as the code does, from the new
element when the tree grows and from the heights when it shrinks. `Rotated` and `DoublyRotated`
write the six pointers in the code's order. `Emplace`, `EmplaceHint`, `RangeInsert` (which keeps a hint
between two elements), `TryEmplace` and `InsertOrAssign` of `map`, erasures by position, range, key
and predicate, copies (through the functions for equal keys), moves and swaps, which turn the root's
parent and `start_` to the other object. What an erasure erased is recorded from its argument, the key,
the positions or the predicate, and not from the nodes it freed.

**Properties.** `Balanced`: stored heights are the heights, and balances are -1, 0 or 1.
`IterationOrder`: `operator++` from `start_` visits ascending keys up to `end()`, and `operator--` the
same way back. `SearchExact`: `lower_bound`, `upper_bound`, `find` and `count` agree with their
definitions. `NodesOwned`: no null pointer is followed, no node freed twice and no `end()` read, and
every live node is counted in one tree. `ImplementsMap`: the refinement of `KeyMap`, with every throw of
an allocation, of an element's constructor and of the assignment of a mapped value.

| run | instance | shows |
|---|---|---|
| `tree_one` | one tree, keys 1 to 7 | `Balanced`, `IterationOrder`, `SearchExact`, `ImplementsMap` |
| `tree_two` | two trees, 2 keys with 2 mapped values, 3 nodes of each key | `TypeOK`, `NodesOwned`, `ImplementsMap` |

**Bounds.** With seven keys every rotation happens, single and double, on
both sides, in insertions and in erasures, and erasures reach inner nodes with children on both
sides. Two keys with two mapped values suffice for what passes between trees; three nodes of a
key are one in each tree and one that is under construction.

**Switch.** `EmptyRanges`: `range_insert_unique` and `range_insert_multi` look up `*first` of a sorted
forward range before they test for its end (`avl.hpp:622`, `645`), and an empty range is sorted. So an
empty range of forward iterators, or an empty initializer list, reads what `last` points to; and since
copies go the same way (`avl.hpp:497`, `502`, `541`, `548`, `559`), the copy of an empty tree reads the
key of an `end()`. With TRUE, `NodesOwned` is violated; FALSE keeps these calls out of the runs, and a copy
or an assignment in them is one of a tree or range with elements.

**Seen on the way:** with equal keys the third equal element of a sequence of insertions rotates
through a null pointer, because the rotation is chosen by comparing keys; move assignment does not
move `comp_` and a copy has a default comparator; `map::insert_or_assign` moves from its argument also if
that is an lvalue.

## The classes that hold one value

**State.** A place of memory is a block of one cell. The buffer of a variable is the block with
its name; `Nodes` are what the allocator hands out; `Temp` and `Spare` are the temporaries of the
copy-and-swap and `swap` functions, so that their constructors and destructors count. `Small` has
the values that fit into the buffer and do not throw when moved. In `UniquePtr` every object has a
`unique_ptr` member, and an object may own the variable's object, itself, or a chain back to the
pointer at work.

**Actions.** One per member function of `any`, `function`, `variant` and `unique_ptr`; assigning the
value that the variable holds itself is a case of its own (`Held`). The deleter of `unique_ptr` calls
itself through the member of the object that it deletes: `DeleteObject` runs over the stack of the
calls that have not returned (`open`), where `Entered` is the destructor of an object with the
beginning of the `reset` of its member, and `Returned` frees the block. `MaxCalls`, two per object and
two more, is the bound of that run; the proof shows that it is never cut off.

**Properties.** `OwnedOnce`: no fault, every object that lives is owned by one variable or member,
no block is without an object, and the handler, index or pointer says what the buffer holds.
`ImplementsOptional`: to the outside each variable is a value or nothing (`OptionalValue`), a call that
throws leaves it as it was, or, after `emplace` and in the copy assignment of `function`, empty.

| run | instance | shows |
|---|---|---|
| `values` | two variables of each class, one small and one large value, four nodes | `TypeOK`, `OwnedOnce`, `ImplementsOptional` |

**Bounds.** Every combination of empty, small and large on both sides of an assignment or swap
occurs; four nodes are one per variable and temporary, and make chains and cycles of up to four
owning objects.

**Proved** for any variables, values, sizes of values and any finite `Nodes` (`Holders_proofs` for the
first three classes, `Values_proofs`): `ValuesTypes`, `ValuesOwnedOnce` and
`ValuesImplementOptional`, the theorems of the three properties of the run; and `DeletesObject`, that
a deletion ends.

* The inductive invariant `ValuesInv` is that memory and members are a *picture*: a function `s`
  from variables and temporaries to the values that they show. For `any` and `function` that is a
  `Shape` of the memory (each value in the buffer of its slot or in a node that is no other's, the rest
  raw or free) with members that say where; for `variant`, that each buffer is `Filled` with what `s`
  says and index and handler fit it; for `unique_ptr`, `Owning` (each living node has one owner) and
  `Stocked` (the memory beside it). `OwnedOnce` alone is not inductive: it does not say that a variable
  has a buffer as long as it lives, which the next constructor needs.
* The same predicates hold *within* a call, with temporaries that live, so that each helper (`Create`,
  `MoveValue`, `SwapOf`, `CopyStorage`, ...) has one lemma, from picture to picture, and a member
  function is a chain of them. What the picture has become at the end is one of nine outcomes
  (`Outcome`), and each outcome is a step of `OptionalValue` (`OutcomeIsOptional`).
* `DeletesObject`: between two calls of the deleter the living nodes are owned once, but for the one
  that is to be deleted next; the open calls are distinct nodes that are no longer alive (`Undone`). Each
  step makes `Left`, two for each living node and one for each open call, less, so the run ends within
  `MaxCalls`, whatever cycles there are. That `ptr_` is changed before the deleter is called is what
  keeps the node that is deleted next without a second owner.
* `ToldApart` (no value is nullptr, an address or `Gone`) is an assumption of `MCValues`, which TLC
  evaluates. `Excluded` leaves out, for each class, the switch below that breaks it: a theorem about
  `function` and `variant` where elements do not throw inside an assignment, about `variant` where it
  is not assigned from itself, about `unique_ptr` with a deleter that has no state.

**Switches**; each TRUE is a violation of `OwnedOnce`, or of `ImplementsOptional`:

* `AssignThrows`: `variant`'s assignments destroy the old value before they copy the new one and
  there is no state without a value, so a throw leaves a buffer that is destroyed again;
  `function`'s copy assignment leaves `f_` at a dead buffer.
* `AliasAssign`: a variant that is assigned the value it holds, or swapped with itself, copies
  from the destroyed value.
* `StatefulDeleter`: `reset` in the move assignment of `unique_ptr` may delete the object whose
  member the assignment is at work on; the deleter is moved afterwards, into a dead object.

**Seen on the way:** `variant`'s `emplace`, move assignment and comparisons do not compile when
they are instantiated; `function` decides by `sizeof(F)` what fits into the buffer and stores an
object with a virtual table pointer besides; its `noexcept` move and swap copy the callable.

## Algorithms

`range` is the client's range, of keys; a step is a call of one algorithm on it. Each element carries
its position, so that what an algorithm did with equal elements can be seen. Every algorithm is written
as its source is, with the walks that test for no end (`WalkUp`, `WalkDown`): one that nothing stops
reads beyond the range, its algorithm leaves no range, and `KeepsContract` fails. `RangeContract` says
what each promises: sorted and a permutation, stable, the next permutation in the lexicographic order,
the offsets of an equal range, and so on.

`HeapOrder` has sift up and down, `make_heap`, `sort_heap`, `partial_sort` and the heap of
`priority_queue`; `Introsort` is `sort` with its depth limit, for every limit, so that the change to
`heap_sort` happens at any point, and both insertion sorts; `StableSort` is the merge of natural
runs with galloping, its stack and its invariant on lengths.

| run | instance | shows |
|---|---|---|
| `algorithms` | ranges of up to 8 elements with 3 keys | `KeepsContract` for 15 algorithms |

**Bounds.** `Threshold` and `MinMerge` are 3, instead of the 16 and 32 of the code, so that eight
elements are enough for several partitions and for several runs on the stack. Three keys give equal
elements, ascents and descents. `next_permutation` and `prev_permutation` are limited to five
elements, as their contract looks at all arrangements.

**Switches**; each TRUE violates `KeepsContract`:

* `PartialRanges`: `partial_sort` up to a middle inside the range. `partial_sort.hpp:18` exchanges
  the element behind the middle with `*middle`, and not with the greatest one, which `pop_heap` left
  before it. The elements behind the middle may be less than those before.
* `EmptyRanges`: `is_heap_until` of an empty range returns its end + 1.

## Not modelled

* **Threads**: orders of atomics weaker than sequential consistency.
* **Memory**: unequal or stateful allocators (what `propagate_on_container_*` chooses between),
  with `list(list&&, alloc)`, which works on uninitialized members; moves out of a container's own
  elements; iterators that outlive a change; iterators into a container as range arguments of its own
  functions (the client's error).
* **Numbers**: overflow of `size_t` in capacities, the rounding of `float` in loads.
* **Classes**: `queue` and `stack` forward each call to the container below; `array`, `span`,
  `tuple` and `pair` have no state changes of their own; `unique_ptr<T[]>` has the functions of
  `unique_ptr<T>`; variants of trivially destructible types only copy bytes.
* **Algorithms** of one pass (`find`, `count`, `copy`, `fill`, `transform`, `equal`, ...): their loop
  is their definition.
* **Compile time**: traits, concepts, iterators adaptors, allocator traits, limits.

Proofs exist for `SharedPtr`, `Vector`, `HashTable`, `Any`, `Function`, `Variant` and `UniquePtr`, each
with the refinement of what it promises. `SplitBuffer`, `CircularBuffer`, the deques, the lists, `Avl`
and the algorithms are model-checked within the bounds above.

**Limits of the prover.** Liveness, `ENABLED` and theorems with an operator as a parameter are out of
its reach; induction is done on sets of naturals instead (`Induction` in `HashTable_proofs` and
`Heap_proofs`). Its translation of `Len` to the SMT solver says `DOMAIN s = 1 .. n => Len(s) = n`
of every value `s`, also of one that is no sequence. The obligations of all proof modules were also
discharged with that axiom restricted to functions, so that no theorem rests on it.
