# A verification development for libshl

libshl (`src/`, tests in `test/`) is a collection of small C helpers that are
meant to be copied into applications. This directory holds TLA+ models of the
parts that carry state and control, TLC runs on small instances of them, and
TLAPS proofs, for all values of the constants, about the ring buffers, the pty
and its bridge, `shl_pty_open()`, `shl_edbus`, the list and its loops, the trie,
the buffer, rate limits and the creation of directories. Every module is written from the code; `PROJECT.json`
gives for each definition the lines it models.

## The system

| Part | State it keeps | Operations | What is hard about it |
|---|---|---|---|
| `shl_ring.c` | buffer, size, `start`, `used` | push, pull, peek, copy, flush, clear | wrap-around, moving a wrapped content to a larger buffer, `size_t` overflow, failing `malloc()` |
| ring in `shl_pty.c` | buffer, size, `start`, `end` | push, peek, pop | the same, and `end == start` may only mean empty |
| `shl_pty_open()` | descriptors of two processes, a pipe | fork, terminal setup, handshake | every call can fail, the child can die at any time, descriptor numbers 0-2 are special |
| pty objects and bridge in `shl_pty.c` | references, fd, output ring, an epoll set | ref, unref, close, write, dispatch, bridge add, remove, dispatch | edge-triggered events, callbacks that call back, a limit on reads, the child runs concurrently |
| `shl_edbus.c` | one source per watch or timeout of libdbus, a free list, an epoll set | callbacks of libdbus (add, remove, toggle), dispatch, free | objects vanish while a batch of events still points to them; one socket with several watches |
| `shl_htable.c` | table of words, masks, counters | insert, remove, lookup, clear, visit | deletion markers, rehashing in place, bits of the pointers replaced by bits of the hash |
| `shl_dlist.h` | `next`, `prev` | link, unlink, six loops | loops whose bodies change the list |
| `shl_trie.c` | nodes with child pointers, mark bits in the pointers | insert, remove, lookup, visit, clear | crit-bit order, keys that begin with other keys, a traversal that keeps its way back in the child pointers |
| `shl_buf.h`, greedy reallocation | linear buffer, size, `used` | push, pop, pull, flush, clear; grow, grow with zeros | failing `realloc()`, what is zeroed and when |
| `shl_util.c`: numbers, strings | none | `shl_atoi_*()`, split, tokenise, decode, encode, join | overflow at every base, decoding in place, estimates of sizes |
| `shl_util.c`: rate limits, directories | `begin`, `num`; the file system | `shl_ratelimit_test()`; `shl_mkdir_p()` | boundaries of intervals; other processes between two system calls |
| `shl_log.c`, `shl_llog.h`, `shl_macro.h`, `shl_githead.*` | severity, start time | logging, macros | little |

How the parts interact: a pty buffers its output in its own ring
(`shl_pty_write()` pushes, `pty_write()` peeks and pops); `shl_pty_dispatch()`
calls the caller's input callback, which may call any function of the library;
the bridge is an epoll set whose members point to ptys. `shl_edbus` is driven
from both sides: the application calls dispatch, libdbus calls back. The other
parts are used by the application only; `shl_buf` uses the greedy allocator of
`shl_util.c`, and both rings and the allocator round sizes up to powers of two.
Nothing in the library starts threads. Concurrency comes from child processes,
from the kernel, from the peer of a connection, and from callbacks in the
middle of an operation.

What makes each part correct: the rings are FIFO queues of bytes that never
show uninitialised memory; `shl_pty_open()` leaks nothing, never hangs, and
reports success exactly for a child that is set up; a pty in the bridge neither
loses input nor keeps output back, and lets the bridge sleep; `shl_edbus` never
touches a freed source and handles every event; the hash table finds exactly
what was inserted; the list and its loops see exactly what was linked; the trie
finds every key, visits them in order, and is whole again after each visit;
parsing gives the number that a string denotes, quoting and tokenising undo each
other; a rate limit neither lets through more than it says nor refuses without
need; and a process that asks for a directory gets it, however many others ask.

## Modules

| Module | Models | Correspondence |
|---|---|---|
| `ByteQueue` | what a ring promises | abstract specification: `queue` and the return value `ret` of the last push |
| `RingMemory` | memory and words below both rings | `Malloc` gives cells `Undef`, `Memcpy`, `Word` (wraps at `SizeMax`), `RING_MASK`, `NextPow2` |
| `ShlRing` | `shl_ring.c` | variables are the fields of `struct shl_ring`; one action per function; `shl_ring_push` splits into its four ways to end |
| `PtyRing` | `struct ring` of `shl_pty.c` | likewise, with `(start, end)` |
| `ShlPtyOpen` | `shl_pty_open()`, `pty_init_child()`, `pty_setup_child()`, `pty_send()`, `pty_recv()` | a program counter and a descriptor table for each process; every system call that can fail has a failing branch; `Killed` lets the child die anywhere |
| `ShlPty` | the rest of `shl_pty.c` | `call` is the dispatch in progress (read, callback, write, re-arm); between its steps children and kernel run; while it is in a callback the caller may call everything else. The output ring is the queue that `PtyRing` implements |
| `ShlEdbus` | `shl_edbus.c` | sources with their `dead` flag, the free list, the epoll set and the batch; libdbus acts whenever `DbusRuns` |
| `ShlHtable` | `shl_htable.c`, `shl_htable.h` | a word is the set of its 1-bits; growing and rehashing are folds over the slots; `stored` records what the caller has inserted, `kept` the hashes it keeps between calls of the string wrappers of `shl_htable.h` |
| `ShlDlist` | `shl_dlist.h` | `next`, `prev` and the loop in progress; `order` records what the caller has linked |
| `ShlTrie` | `shl_trie.c`, `shl_trie.h` | `childs`, `byte`, `otherbits` of the nodes, `live` for the allocated ones; each round of the loop of `shl_trie_traverse()` is a step, and `trav` its local variables; `stored` records what the caller has inserted. A byte is the set of its 1-bits |
| `ShlNumbers` | `shl_atoi_*()` | operators on a string that grows by one character per step; `Digit` is one round of the loop |
| `ShlStrings` | `shl_strsplit_n()`, `shl_qstr_*()` | operators on a growing text; each loop is a fold of its body; the memory that is made is part of the result |
| `ShlBuf` | `shl_buf.h`, `shl_greedy_realloc*()` | fields of `struct shl_buf` and an array, on `RingMemory` |
| `ShlRatelimit` | `shl_ratelimit_test()` | fields of `struct shl_ratelimit`, and a clock |
| `ShlMkdir` | `shl_mkdir_p()`, `shl_mkdir_p_prefix()` | a program counter per process, a step per system call, and somebody who creates files and removes directories |
| `ShlHelpers` | | composes `ShlDlist` and the modules from `ShlNumbers` to `ShlMkdir`: they share no state, so a behaviour runs one of them |
| `*Proofs` | | theorems and lemmas about the module of that name |
| `MC*` | | instances for TLC |

What is outside of the code is marked external in `PROJECT.json`: `malloc()`
and `memcpy()`, descriptor tables and pipes, epoll, terminals, timers, the child
processes, libdbus and its peer. They are modelled by what the code relies on.
`EPOLL_CTL_ADD` of a descriptor that is in the set fails; an edge-triggered
member becomes ready when data arrives, when a full terminal becomes writable,
or when the terminal is hung up; closing the only descriptor of a file removes
it from the set; a new descriptor is the lowest free one.

Definitions whose comment begins with "Mutant of" are faulty variants of the
definition behind them. No specification uses them; each one is listed in
`PROJECT.json` with the property that notices it, which is how we know that the
property can fail.

## Runs

| Run | Instance | Checks |
|---|---|---|
| `shl_ring` | 2 byte values, sizes 2, 4, 8, pushes of up to 3 bytes, words of 5 bits | `BufferValid` (indices inside the buffer, no uninitialised byte), `ReadsExact` (peek and copy), `OperationsExact`, `RefinesQueue` |
| `pty_ring` | the same, sizes 1 to 8 | the same, with `PeekExact` for `ReadsExact`: this ring has no copy |
| `pty_open` | descriptors 0 to 6; the caller has 0, 1, 2 and any set of others open, or any subset of 0, 1, 2 alone | `ParentLeaksNothing`, `HandshakeAgrees`, `ChildFilesClean`, `ParentReturns` |
| `pty_bridge` | 2 ptys, 2 reads per dispatch, a terminal that holds 1 byte; the child of one pty writes 3 bytes and is sent 2 | `EventsAlive`, `NoEdgeIsLost`, `OutputInOrder`, `OutputFlushed`, `BridgeSleeps` |
| `pty_bridge_input` | 1 pty, 3 bytes of input | `InputDelivered` is violated |
| `edbus` | 2 watches, 1 timeout, 3 sources, batches of 2 | `DeferredFreeExact`, `SourcesMatchObjects`, `EnabledIsWatched`, `FreeLeaksNothing`, `EventsHandled` |
| `htable` | 4 objects with 3 keys, the hash of one of them kept between calls, words of 4 bits, tables of 1 to 8 slots | `ProbesEnd`, `ContentsExact`, `LookupExact` |
| `htable_far` | 2 pointers that differ in the highest bit only | `LookupExact` is violated |
| `trie` | 6 keys of up to 2 bytes, a second object for one of them, and one that is misaligned; bytes of 2 bits | `TrieExact`, `VisitExact`, `TraversalSafe`, `TraversalEnds` |
| `trie_visit_all` | the same | `VisitsWholeTrie` is violated |
| `helpers` | lists: 2 lists, 3 elements; numbers: up to 4 characters, bases 0, 2, 10, 16, 36 and 37, words of 6 and 12 bits; strings: every text of up to 5 of 8 characters; buffers of up to 4 bytes; a clock of 10 ticks with intervals of 3; 3 processes that create 4 directories | `ListsExact`, `LoopExact`, `LoopEnds`, `AtoiExact`, `SplitExact`, `QuotingExact`, `BufExact`, `RateLimited`, `MkdirDone` |
| `atoi_overflow` | the numbers of `helpers` | `OverflowReported` is violated |

The type invariants are conjuncts of these properties, except for the rings,
where `TypeOK` is checked (and proved) by name. What the less obvious ones say:

* `HandshakeAgrees`: if `shl_pty_open()` returns success, the child has finished
  its setup; and a child that goes on to run is one that the parent was told of,
  provided that the caller had its standard descriptors open.
* `NoEdgeIsLost`: whenever a pty in the bridge has input to read, or output and
  room for it, epoll will report it, a dispatch is at it, or the bridge has
  just failed to re-arm it.
* `DeferredFreeExact`: the events of a batch, the one that is handled included,
  point to sources that are not freed, the free list holds exactly the dead
  sources, each once.
* `EventsHandled`: an event of an enabled object leads to a call of the handler of
  that very object, unless it loses its event, is disabled or is removed first.
  Handlers of other objects do not count; an expired timer, whose descriptor stays
  ready for ever, must not keep the others from their turn.
* `TrieExact`: between calls each key leads to its object, no mark is left in
  any pointer, and there is one node less than there are objects.
* `LoopExact`: a loop over a list stays in it, and at its end has visited each
  element that was in the list all the time once, in the order (or against the
  order) in which the elements are around the circle behind its start.
* `VisitExact`: a visit with a prefix, and a clear, call back once for each
  object that they are meant for, in the order of the keys. The reference is the
  set of the stored objects that are still to be visited: each callback must be
  for the first of them, and at the end none may be left. It does not look at
  nodes.
* `AtoiExact`: every string is parsed as far as its digits go and to the number
  they denote (a sum of powers). For the 64-bit type and a base that is no power
  of two, numbers beyond the type are left to `OverflowReported`.
* `SplitExact`: splitting returns the pieces between separators. If the vector
  cannot be allocated, or has to grow (`shl_util.c:376`) and cannot, there is an
  error, nothing is stored for the caller and nothing stays allocated. Which
  allocations are those of the vector is counted from the sizes alone. Nothing is
  promised for the `malloc()` of an entry (`shl_util.c:380`), which is not checked:
  `Push` has the crash as an outcome of its own.
* `QuotingExact`: joining a vector and tokenising the line gives the vector back,
  and the line stays inside of its memory.
* `RateLimited`: no interval, wherever it begins, sees more than two bursts, and
  a call is refused only after a full burst within the last interval.

**Bounds.** The rings take every state they can reach with buffers of up to
`MaxAlloc` bytes (`malloc()` fails beyond that): three growth steps, every
position of `start` in every size, and pushes longer than the room before the
end. Two byte values tell an order apart from its reversal, and `Undef` is a
third. The default size is small instead of 4096, and the proofs show that the
number does not matter. For `shl_pty_open()` the descriptor table can be full at
each of the calls, and the new descriptors can fall into gaps. The read limit of
`pty_read()` is 2 instead of 50: what matters is whether a dispatch ends before
it or at it. One byte of terminal room makes partial writes happen. In `edbus`
a batch is smaller than the number of objects, and there is a source more than
needed by two objects, so an object can be removed and added again within one
batch. In `htable` two keys share a bucket, a third one is in the bucket behind
it, two objects have the same key, and one pointer is odd, so that the perfect
bit is lost and found again; four elements are enough to double the table three
times and to rehash it. The keys of `trie` differ in either bit of either byte,
and some begin with others; five nodes give every shape of a trie over them,
with nodes that decide at the same byte by different bits above each other. The
lists of `helpers` have enough elements for a loop to have elements before, at
and behind its position, and a second list to stray into. Its numbers are shorter
words, so that both the step from the small to the large accumulator and the
overflow of the large one happen within four digits; the sizes of vectors and
lines start small, so that they grow; two processes that create directories
share a parent, a prefix may be missing, and another one does not fit. Three
pieces fit into a text of five characters: the vector grows at the first two and
has room for the third, so that both kinds of pushes happen.

Two tests of the code are modelled and never true, neither in a run nor under the
assumptions of the proofs: that `used + add` wraps around (`shl_ring.c:134`,
`shl_buf.h:56`), and that no power of two is left above a size (`shl_util.c:240`,
`shl_ring.c:141`). They need an object, or two of them together, that take up half
of the address space. Nothing is claimed about what happens then:
`SHL_ALIGN_POWER2()` shifts by the width of the word, and `AlignOverflow` is what a
build may make of it.

`MaxPush`, `MaxIn`, `MaxOut`, `MaxRef`, `MaxMsg`, `MaxStored`, `MaxFd`, `Source`,
`MaxChars`, `MaxText`, `MaxNeed` and `MaxTime` are bounds of the models and named
as such where they are declared.

**Symmetry** is not used: most runs have temporal properties.

**Deadlock** is checked where the component can always go on (the rings, the
hash table, the trie). `shl_pty_open()` ends, a context of `shl_edbus` is freed,
ptys are closed and freed, inputs have a longest length and clocks a last tick,
so those runs do not check it.

**Fairness.** `ShlPtyOpen`: the kernel runs both processes. `ShlPty`: steps of a
dispatch follow each other and callbacks return; the caller dispatches the
bridge when it is ready, and epoll serves ready members in turn, hence strong
fairness for each pty; a caller who writes outside of a callback dispatches the
pty afterwards, as `test/test_pty.c` does; a child reads what it is sent.
Children are never obliged to write or to hang up. `ShlEdbus`: the caller
dispatches when the descriptor is readable, as `src/shl_edbus.h` asks for, and
handlers return. Descriptors that stay ready and do not fit into one batch are
served in turn by epoll, which puts a level-triggered member that it has reported
at the end of its ready list, hence strong fairness for each object; no fairness
puts an event at the front of its batch, and none makes `dbus_connection_dispatch()`
find enough memory. `ShlTrie`: a traversal waits
for nothing and its callbacks return. `ShlHelpers`: the body of a loop over a
list returns.

## Findings

Four runs show that the code does not do what a comment or a document next to it
says.

* `pty_bridge_input` (`src/shl_pty.c:645`): after `-EAGAIN` the bridge uses
  `EPOLL_CTL_ADD` where the comment wants the descriptor modified. The call fails
  with `EEXIST`, and input behind the read limit waits until the child writes
  again. `NoEdgeIsLost`, which holds, says that this is the only way to lose an
  event.
* `htable_far` (`src/shl_htable.c:282`): the bit that is kept in the slots is a
  bit of the first pointer; a second pointer may have only zeros in what is
  kept, and is stored as an empty slot. With addresses that share their highest
  bit, as in `htable`, this does not happen.
* `trie_visit_all` (`src/shl_trie.c:536`): a visit without a prefix is given the
  trie head instead of the root. It is taken for an entry, and the callback is
  called once, with something that is no key.
* `atoi_overflow` (`src/shl_util.c:145`): if the last digit overflows the
  addition, and not the multiplication before it, it is dropped, and the number
  is returned as if nothing had happened.

Three more disagreements are in the models without a run of their own. In a
caller with a closed standard descriptor the pipe of `shl_pty_open()` may be one
of 0, 1 and 2; `dup2()` replaces it, and although the comment at
`src/shl_pty.c:434` says "wake parent", the parent reports failure for a child
that runs (hence the condition in `HandshakeAgrees` and `ChildFilesClean`).
Messages that a blocking call of libdbus has queued wait until something else
makes the descriptor of `shl_edbus` readable, so a caller who follows
`src/shl_edbus.h:30-32` does not see them until then (`BlockingCall` in
`ShlEdbus`). Strings with blanks or single quotes do not survive
`shl_qstr_join()` and `shl_qstr_tokenize()`, because the tokeniser never opens a
quote (`src/shl_util.c:620`, hence `Quotable` in `ShlStrings`).

## Proofs

All theorems are proved by `tlapm` for every value of the constants that
satisfies the assumptions next to their declarations:

* `ConstantsAssumption` (`RingMemory`): sizes are natural numbers, the default
  size is a power of two, `Undef` is not a byte;
* `AddressSpaceAssumption` (`RingMemory`): there is a power of two above the
  largest buffer plus the longest push. Two objects of that size cannot both be
  in memory otherwise;
* `AlignOverflowAssumption` (`ShlRing`): what the undefined shift in
  `SHL_ALIGN_POWER2()` can leave, also in `SizesAssumption` below;
* `BoundsAssumption` (`ShlPty`): a dispatch reads at least once and a byte, a terminal
  has room for a byte, a pty may have a reference;
* `ConstantsAssumption` (`ShlEdbus`): watches are no timeouts, a batch has room for an
  event;
* `FdAssumption` (`ShlPtyOpen`): a process has room for the descriptors 0, 1 and 2;
* `TrieAssumption` (`ShlTrie`): bytes have bits, keys are strings of bytes that are not
  zero, there are finitely many nodes, and nodes, objects, the trie head and NULL are
  different things;
* `HelpersAssumption`, `SizesAssumption`, `PathsAssumption` (`ShlHelpers`): list heads
  are no elements, zero is a byte, `Undef` is none, a rate limit has an interval and a
  burst that are not 0 (`shl_ratelimit_test()` lets everything through otherwise), sizes
  fit into `size_t` with a power of two above them, no path is empty, and what exists
  at first is a tree.

| Module | Theorem | States |
|---|---|---|
| `ShlRingProofs`, `PtyRingProofs` | `TypeCorrect` | `Spec => []TypeOK` |
| | `BufferStaysValid` | `Spec => []BufferValid` |
| | `OperationsAreExact` | `Spec => OperationsExact` |
| | `ImplementsQueue` | `Spec => RefinesQueue` |
| `ShlRingProofs` | `ReadsAreExact` | `Spec => []ReadsExact` |
| `PtyRingProofs` | `PeeksAreExact` | `Spec => []PeekExact` |
| `ShlPtyProofs` | `EventsStayAlive`, `OutputStaysInOrder`, `EdgesAreKept` | `EventsAlive`, `OutputInOrder`, `NoEdgeIsLost` are invariants |
| `ShlEdbusProofs` | `DeferredFreeIsExact`, `SourcesAlwaysMatch`, `EnabledIsAlwaysWatched`, `FreeNeverLeaks` | `DeferredFreeExact`, `SourcesMatchObjects`, `EnabledIsWatched`, `FreeLeaksNothing` are invariants |
| `ShlPtyOpenProofs` | `ParentNeverLeaks`, `HandshakeIsReliable`, `ChildFilesAreClean` | `ParentLeaksNothing`, `HandshakeAgrees`, `ChildFilesClean` are invariants |
| `ShlHelpersProofs` | `MkdirIsHonest`, `BufferIsExact`, `RateIsLimited` | `MkdirDone`, `BufExact`, `RateLimited` are invariants |
| | `ListsAreExact`, `LoopsAreExact` | `ListsExact`, `LoopExact` are invariants |
| `ShlTrieProofs` | `TrieIsExact` | `Spec => []TrieExact` |
| | `VisitsAreExact` | `Spec => []VisitExact` |
| | `TraversalIsSafe` | `Spec => []TraversalSafe` |
| | `TraversalsLeaveNoTraces` | between two calls `NoTraces`, the part of `TrieExact` about marks, holds |
| | `TypeCorrect` | `Spec => []TypeOK` |

Each rests on an inductive invariant that is stronger than what it says; there is
one lemma for every action that it survives.

**Rings.** The invariant is `TypeOK /\ IndicesValid /\ OnlyPushedBytes`; the last
two together are `BufferValid`. None of
the three is inductive alone: the cells a push writes are right only if the
indices are inside the buffer, and the indices stay there only if the size is a
power of two that the mask can be used with. The argument has two layers.
`RingMemoryProofs` is about memory: what `Around` reads after a `Memcpy`, that
positions behind the content are distinct from those in it (the modulus of a
sum, which the provers are led through case by case), that one stretch or two
make up the content, and that `NextPow2` gives
a power of two that is large enough. The ring modules use these lemmas to show
what each operation does to the content: a push that fits, a push that grows, a
pull. From that follow the invariant, the action property, the reads and the
refinement, with one step per action. For `PtyRing` the extra fact is that the
free byte survives growth, so that `end = start` still means empty.

**Pty and bridge.** `NoEdgeIsLost` allows a pty to be in a dispatch, so the
invariant must say what the dispatch still owes (`CallOK`): while it reads, it
has rounds left; when it comes to `pty_write()` with rounds left it has read
everything that came without leaving an edge, and when it returns, the ring is
empty or the terminal was full. `PtyOK` holds for each pty: its bounds, its
order of output, that members of the epoll set are open and referenced, and that
what nobody is at is announced. `Frame` carries it over every step
that concerns another pty.

**edbus.** `Graph` ties the objects of libdbus, the sources, the descriptors and the
epoll set together: each object and its source point to each other, each live
source has a descriptor that no other has, and the free list holds the dead
sources without repetition. `Control` says that batches hold allocated sources only,
and that the list is drained where no batch is being worked through. The three
kinds of steps are one that adds a source, one that kills it, and the drain.

**`shl_pty_open()`.** The invariant lists for each place of the parent and of the
child which descriptors are the master, the slave and the two ends of the pipe, and
that all others are those of the caller. It says when the pipe or the terminal may
hold a message: `SHL_PTY_SETUP` is sent by a child whose standard files are the
slave. What makes it work is that a new descriptor is one that was closed before,
so none of the parts can coincide unless the caller had closed a standard
descriptor.

**Directories.** What exists is below directories (`TreeOK`), what a process has
passed exists unless somebody has removed a directory, and a process past its
prefix has found all of it. Removals are remembered by `removed`, and files stay.

**Buffer.** The content is the prefix of the buffer of length `used`, and of the
array what is beyond the elements that were set is zero: growth has to
zero everything that it gained, not only what was asked for.

**Lists.** `order` gives each list as a sequence without repetition, disjoint from
the others; `Linked` says that the pointers of each circle agree with it in both
directions, and `Unlinked` that nothing else points anywhere. Both are
expressed by positions (`Nth`, `After`), since linking and unlinking move the
positions behind by one. For the loops the current node or, in the safe loops, the
next one, and the start, are positions of their list (`LoopInv`). What they visit is
`VisitInv`: the elements that have stayed and were visited are those that a walk around
the circle from the start comes to before the next node or, where the body may still
change that, up to the current one. "Before" (`Comes`) is about the nodes and not their
positions, because a body that links or unlinks moves the positions; `OrderKept` says
that it never lets two of the other nodes pass each other.

**Rate limits.** `RateInv`: the calls that were let through fall into windows, each of
at most a burst of calls within an interval after its first one, and the first calls of
two windows are more than an interval apart. `begin` and `num` are the first call and
the number of calls of the last window. Two bursts and one more call in a row belong to
three windows at least, so a whole interval lies between the first and the last.

**Trie.** Between two calls the invariant says that the pointers are those of a
forest: no two slots hold the same node, nodes have a larger rank than the nodes
above them, no pointer is marked and none leads to a freed node (`IdleOK`). While a
traversal runs the pointers are something else, so `OnTheWay` says what they are: there
is a forest as before, and a stack of nodes, each of which has one child replaced by a
marked pointer to the node above it; the child it hides is the next one in the stack.
The traversal either goes down from the top of the stack or has come back to it. A step
to the left pushes a node, a step to the right turns the top round, and a node that is
done is popped, when it gets its child back or, in `shl_trie_clear()`, is freed; what is
freed is below or left of the stack, where the traversal does not come again
(`Reachable`). Ranks show that a node that is pushed is not in the stack already. That
paths lead to slots of the trie needs that the recursive function `Path` is what its
definition says; this is proved from the well-foundedness of the numbers, for sets
instead of predicates, which is the form the provers can use.

Where keys lead to is in `Keyed`, about the forest, the set of objects below each slot
and the bit that each node decides: no child of a node is empty (`Splits`), the objects
below a node agree in all bits before the one it decides, and that one separates those
on its left from those on its right (`Shares`, `Splits`), each object is at one place,
and there is one node less than there are objects. A lookup of a stored key goes with
its object at each node, and that is why it finds it; a lookup of another key ends at an
object, too, whose key is compared. An insertion compares the new key with the object
that the lookup of the key ends at, since below the place of the new node all keys agree
with that object up to the bit in which the new key differs from it (`Joins`, `Parts`).
During a traversal this trie is frozen (`Frozen`) while its nodes hold marked pointers
and are freed. What a traversal has yet to visit (`Todo`) is what is below its position
and below the right children of the nodes of the stack that it has left to the left, and
these are in the order of the keys because the bits that the nodes decide come later
the deeper they are. `Owed` says that this is the set that `VisitExact` counts down: a
visit with a prefix starts at the place below which all objects have it (`AllMatch`),
and no others do. The same invariant makes `shl_trie_clear()`
end with no node left.

Only model-checked:

* liveness (`ParentReturns`, `OutputFlushed`, `BridgeSleeps`, `EventsHandled`,
  `TraversalEnds`, `LoopEnds`): out of reach of the prover;
* `ProbesEnd`, `ContentsExact` and `LookupExact` of `ShlHtable`: growing and rehashing
  are folds over the slots, and what a fold computes for a table of any size needs an
  induction over data with an operator as its parameter. `LookupExact` moreover holds
  only for addresses like those of the run, as `htable_far` shows;
* `AtoiExact`, `SplitExact` and `QuotingExact`: each says what a fold over a text or a
  string of any length computes, so the same applies.

## What is not modelled

Logging (`shl_log`, `shl_llog`): text that goes to stderr, with a severity, a
start time and a lock around each message; the macros other than
`SHL_ALIGN_POWER2()` and the checked multiplications; the version string; from
`shl_util.c` concatenation (`shl_strcat()`, `shl_strjoin()`), freeing of vectors,
escapes other than the tabulator
(they have the same path through the code), binary zeros inside of strings, and
modes and slashes of paths. Inside of the other modelled parts: terminal attributes,
window sizes and signals to the child (`shl_pty_signal()`, `shl_pty_resize()`),
creation of the bridge, callbacks that dispatch again or drop the last reference
of their own pty, other processes that inherit the master; in `shl_edbus` the
ownership of the connection, error events of disabled watches, intervals of
timeouts, and the memory that a failing `shl_edbus_new()` leaves behind; in
`shl_htable` what the hash functions compute, which is the constant `Hash`; in
`shl_trie` callbacks that call the trie, which its header forbids, and the
wrappers for strings, which only cast.

Hazards of the code that lie outside of the models, beyond those that
`PROJECT.json` lists: a process that was forked and has not yet executed another
program keeps the master of a pty alive in the epoll set (`shl_pty.c:488`); the
child of a failed handshake cannot be reaped, since its pid is dropped
(`shl_pty.c:457`), and leaves through `exit()`, which writes out the stdio buffers
of the parent a second time (`shl_pty.c:424`); an enabled timeout with the
interval 0 disarms its timer (`shl_edbus.c:212`); `1 << (bits + 1)` is an `int`
(`shl_htable.c:215`); `shl__split_push()` and `shl__qstr_push()` use the result of
`malloc()` unchecked (`shl_util.c:380`), so a program that runs out of memory there
crashes; the descriptor of a timer that has expired stays readable until the timer is
set again, and a caller who waits for it spins (`shl_edbus.c:417`); the product of count and size in
`shl_greedy_realloc_t()` may wrap around (`shl_util.c:281`);
`SHL_RATELIMIT_DEFINE()` gives its values in another order than the fields have
(`shl_util.h:150`); and a clock that is set back can make a time stamp of
`shl_log` negative (`shl_log.c:57`).

## Plan

Done: the survey; the rings, the pty, edbus, the hash table, the list, the trie, the
buffer and the algorithms of `shl_util.c` with their runs; proofs of every invariant
and action property of the runs but those of the hash table and of the pure algorithms
on strings.

Left:

1. A hash table: that it always has an empty slot (`ProbesEnd`) follows from counting
   the slots that are not empty, once it is shown what the folds of `double_table()`
   and `rehash_table()` keep.
2. An abstract specification of the bridge (a pty in it is either announced or
   drained) that `ShlPty` implements.
