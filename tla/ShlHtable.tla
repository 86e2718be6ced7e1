----------------------------- MODULE ShlHtable -----------------------------
(***************************************************************************)
(* The hash table of src/shl_htable.c: open addressing with linear probing *)
(* and deletion markers.  A slot holds one word: the bits in which the     *)
(* stored pointers differ, and in the place of the bits they have in       *)
(* common some bits of the hash and a mark for pointers that are in their  *)
(* own bucket.                                                             *)
(*                                                                         *)
(* A word is the set of its 1-bits, so that & is \cap, | is \cup and ~ is  *)
(* the complement.                                                         *)
(***************************************************************************)
EXTENDS Integers, Sequences, SequencesExt, FiniteSetsExt

CONSTANTS
    Width,       \* bits of a word
    Ptr,         \* the objects of the caller: the words of their addresses
    KeyOf,       \* the key stored in an object
    Hash,        \* the hash of a key
    KeptKey,     \* the keys whose hash the caller keeps between calls
    MaxStored    \* elements in the table (bound of the model)

Bit  == 0..(Width - 1)
Word == SUBSET Bit
Key  == {KeyOf[p] : p \in Ptr}

ASSUME ConstantsAssumption ==
    /\ Width \in Nat \ {0}
    /\ Ptr \subseteq Word \ {{}, {0}}
    /\ Key \subseteq DOMAIN Hash
    /\ \A k \in Key : Hash[k] \in Word
    /\ KeptKey \subseteq Key
    /\ MaxStored \in Nat

VARIABLES
    ht,       \* struct htable
    stored,   \* how often each pointer has been inserted and not yet removed
    ret,      \* what the last insertion returned
    kept      \* the hash kept for each of these keys; 0 is none yet

vars == <<ht, stored, ret, kept>>

ENOMEM == 12

(***************************************************************************)
(* Words and slots                                                         *)
(***************************************************************************)

Shr(w, n) == {b - n : b \in {c \in w : c >= n}}
Xor(v, w) == (v \ w) \cup (w \ v)
Value(w)  == MapThenSumSet(LAMBDA b : 2^b, w)

\* A slot that is empty, and the marker of one whose entry was deleted.
HTABLE_EMPTY   == {}
HTABLE_DELETED == {0}

entry_is_valid(e) == e \notin {HTABLE_EMPTY, HTABLE_DELETED}

get_extra_ptr_bits(t, e) == e \cap t.common_mask

get_raw_ptr(t, e) == (e \ t.common_mask) \cup t.common_bits

make_hval(t, p, bits) == (p \ t.common_mask) \cup bits

get_hash_ptr_bits(t, hash) ==
    (Xor(hash, Shr(hash, t.bits)) \cap t.common_mask) \ t.perfect_bit

Size(t)  == 2^t.bits
Slots(t) == 0..(Size(t) - 1)
Valid(t) == {i \in Slots(t) : entry_is_valid(t.table[i])}

hash_bucket(t, hash) == Value({b \in hash : b < t.bits})

\* The slot k steps behind the bucket of a hash.
Probe(t, hash, k) == (hash_bucket(t, hash) + k) % Size(t)

\* shl_htable_rehash_uint() and the like, and shl_htable_compare_uint().
rehash(p) == Hash[KeyOf[p]]
compare(key, p) == p \in Ptr /\ KeyOf[p] = key

(***************************************************************************)
(* Looking up                                                              *)
(***************************************************************************)

\* The slot k steps behind the bucket may hold the hash: only the entry in
\* the bucket itself carries the perfect bit.
htable_val(t, hash, k) ==
    LET e == t.table[Probe(t, hash, k)]
    IN  /\ e # HTABLE_DELETED
        /\ get_extra_ptr_bits(t, e) =
             get_hash_ptr_bits(t, hash) \cup (IF k = 0 THEN t.perfect_bit ELSE {})

\* How far the loops of shl_htable_lookup() and shl_htable_remove() go: to
\* an empty slot, or to a candidate with the key.
ProbeLength(t, key, hash) ==
    Min({k \in Slots(t) :
           LET e == t.table[Probe(t, hash, k)]
           IN  \/ e = HTABLE_EMPTY
               \/ htable_val(t, hash, k) /\ compare(key, get_raw_ptr(t, e))})

\* The slot where they end.
Find(t, key, hash) == Probe(t, hash, ProbeLength(t, key, hash))

shl_htable_lookup(t, key, hash) == t.table[Find(t, key, hash)] # HTABLE_EMPTY

(***************************************************************************)
(* Adding                                                                  *)
(***************************************************************************)

\* The first slot that is empty or deleted.
ht_add(t, p, hash) ==
    LET k == Min({j \in Slots(t) : ~entry_is_valid(t.table[Probe(t, hash, j)])})
        perfect == IF k = 0 THEN t.perfect_bit ELSE {}
    IN  [t EXCEPT !.table[Probe(t, hash, k)] =
                      make_hval(t, p, get_hash_ptr_bits(t, hash) \cup perfect)]

Empty(bits) == [i \in 0..(2^bits - 1) |-> HTABLE_EMPTY]

\* All slots of a table in their order, beginning with start.
From(t, start) == [i \in 1..Size(t) |-> (start + i - 1) % Size(t)]

\* All entries move to a table of twice the size.  A lost perfect bit is
\* replaced by another bit the pointers have in common.
double_table(t) ==
    LET bits  == t.bits + 1
        fresh == [t EXCEPT !.bits = bits,
                           !.max = (3 * 2^bits) \div 4,
                           !.max_with_deleted = (9 * 2^bits) \div 10,
                           !.perfect_bit = IF @ = {} /\ t.common_mask # {}
                                           THEN {Min(t.common_mask)} ELSE @,
                           !.table = Empty(bits),
                           !.deleted = 0]
        Move(n, i) == IF entry_is_valid(t.table[i])
                      THEN LET p == get_raw_ptr(t, t.table[i]) IN ht_add(n, p, rehash(p))
                      ELSE n
    IN  FoldLeft(Move, fresh, From(t, 0))

\* Mutant of rehash_table: it starts with the first slot, which may hold an
\* entry that wrapped around.
RehashFromZero(t) ==
    LET Clean(n, i) ==
            LET e == n.table[i]
                c == [n EXCEPT !.table[i] = HTABLE_EMPTY]
                p == get_raw_ptr(n, e)
            IN  CASE e = HTABLE_EMPTY -> n
                  [] e = HTABLE_DELETED -> c
                  [] OTHER -> IF e \cap n.perfect_bit # {} THEN n ELSE ht_add(c, p, rehash(p))
    IN  [FoldLeft(Clean, t, From(t, 0)) EXCEPT !.deleted = 0]

\* Deletion markers are dropped, and the entries that are not in their own
\* bucket move closer to it.
rehash_table(t) ==
    LET start == Min({i \in Slots(t) : t.table[i] = HTABLE_EMPTY})
        Clean(n, i) ==
            LET e == n.table[i]
                c == [n EXCEPT !.table[i] = HTABLE_EMPTY]
                p == get_raw_ptr(n, e)
            IN  CASE e = HTABLE_EMPTY -> n
                  [] e = HTABLE_DELETED -> c
                  [] OTHER -> IF e \cap n.perfect_bit # {} THEN n ELSE ht_add(c, p, rehash(p))
    IN  [FoldLeft(Clean, t, From(t, start)) EXCEPT !.deleted = 0]

\* Mutant of update_common: the bits that are no longer common are not put
\* back into the slots.
UpdateWithoutBits(t, p) ==
    IF t.elems = 0
    THEN LET mask == Bit \ {Max(p)}
         IN  [t EXCEPT !.common_mask = mask, !.common_bits = p \cap mask, !.perfect_bit = {0}]
    ELSE LET maskdiff == Xor(t.common_bits, p \cap t.common_mask)
         IN  [t EXCEPT !.table = [i \in Slots(t) |->
                                    IF entry_is_valid(@[i]) THEN @[i] \ maskdiff ELSE @[i]],
                       !.common_mask = @ \ maskdiff,
                       !.common_bits = @ \ maskdiff,
                       !.perfect_bit = @ \ maskdiff]

\* p differs from the other pointers in a bit they have in common.  The first
\* pointer has all bits in common with itself, but one is kept in the slot.
update_common(t, p) ==
    IF t.elems = 0
    THEN LET mask == Bit \ {Max(p)}
         IN  [t EXCEPT !.common_mask = mask, !.common_bits = p \cap mask, !.perfect_bit = {0}]
    ELSE LET maskdiff == Xor(t.common_bits, p \cap t.common_mask)
             bitsdiff == t.common_bits \cap maskdiff
         IN  [t EXCEPT !.table = [i \in Slots(t) |->
                                    IF entry_is_valid(@[i]) THEN (@[i] \ maskdiff) \cup bitsdiff
                                    ELSE @[i]],
                       !.common_mask = @ \ maskdiff,
                       !.common_bits = @ \ maskdiff,
                       !.perfect_bit = @ \ maskdiff]

\* Mutant of htable_add: deletion markers are never cleaned up.
AddWithoutRehash(t, p, hash) ==
    LET shared == IF p \cap t.common_mask # t.common_bits THEN update_common(t, p) ELSE t
    IN  [ht_add(shared, p, hash) EXCEPT !.elems = @ + 1]

\* htable_add() behind the allocation.
htable_add(t, p, hash) ==
    LET cleaned == IF t.elems + 1 + t.deleted > t.max_with_deleted THEN rehash_table(t) ELSE t
        shared  == IF p \cap cleaned.common_mask # cleaned.common_bits
                   THEN update_common(cleaned, p) ELSE cleaned
    IN  [ht_add(shared, p, hash) EXCEPT !.elems = @ + 1]

MustDouble(t) == t.elems + 1 > t.max

(***************************************************************************)
(* The operations                                                          *)
(***************************************************************************)

\* The table is an alias of perfect_bit, which is 0, until the first pointer
\* is added.
htable_init ==
    [bits |-> 0, elems |-> 0, deleted |-> 0, max |-> 0, max_with_deleted |-> 0,
     common_mask |-> Bit, common_bits |-> {}, perfect_bit |-> {}, table |-> Empty(0)]

InsertWorks(p, hash) ==
    /\ ht' = htable_add(IF MustDouble(ht) THEN double_table(ht) ELSE ht, p, hash)
    /\ stored' = [stored EXCEPT ![p] = @ + 1]
    /\ ret' = 0

\* calloc() fails.
InsertFails ==
    /\ MustDouble(ht)
    /\ ret' = -ENOMEM
    /\ UNCHANGED <<ht, stored>>

shl_htable_insert(p, hash) ==
    /\ MapThenSumSet(LAMBDA q : stored[q], Ptr) < MaxStored
    /\ InsertWorks(p, hash) \/ InsertFails

htable_delval(t, i) ==
    [t EXCEPT !.elems = @ - 1, !.table[i] = HTABLE_DELETED, !.deleted = @ + 1]

\* The pointer in the slot is returned to the caller.
shl_htable_remove(key, hash) ==
    LET i == Find(ht, key, hash)
    IN  IF shl_htable_lookup(ht, key, hash)
        THEN /\ ht' = htable_delval(ht, i)
             /\ stored' = [stored EXCEPT ![get_raw_ptr(ht, ht.table[i])] = @ - 1]
             /\ UNCHANGED ret
        ELSE UNCHANGED <<ht, stored, ret>>

shl_htable_clear ==
    /\ ht' = htable_init
    /\ stored' = [p \in Ptr |-> 0]
    /\ UNCHANGED ret

\* How often shl_htable_visit(), SHL_HTABLE_FOREACH() and shl_htable_clear()
\* report a pointer.
Visits(p) == Cardinality({i \in Valid(ht) : get_raw_ptr(ht, ht.table[i]) = p})

(***************************************************************************)
(* The wrappers for keys of one type                                       *)
(***************************************************************************)

\* The wrappers for numbers compute the hash in every call.
NumberCall ==
    /\ \/ \E p \in Ptr : shl_htable_insert(p, Hash[KeyOf[p]])
       \/ \E key \in Key : shl_htable_remove(key, Hash[key])
       \/ shl_htable_clear
    /\ UNCHANGED kept

\* The wrappers for strings take the hash the caller has kept for the string.
shl_htable_hash_str(key) ==
    IF key \in KeptKey /\ kept[key] # {} THEN kept[key] ELSE Hash[key]

\* They write it back for the next call.
KeepHash(key) == kept' = [kept EXCEPT ![key] = shl_htable_hash_str(key)]

shl_htable_lookup_str(key) == KeepHash(key) /\ UNCHANGED <<ht, stored, ret>>

shl_htable_insert_str(p) ==
    /\ KeepHash(KeyOf[p])
    /\ shl_htable_insert(p, shl_htable_hash_str(KeyOf[p]))

shl_htable_remove_str(key) ==
    /\ KeepHash(key)
    /\ shl_htable_remove(key, shl_htable_hash_str(key))

Init ==
    /\ ht = htable_init
    /\ stored = [p \in Ptr |-> 0]
    /\ ret = 0
    /\ kept = [k \in KeptKey |-> {}]

\* A call of the string wrappers with no place for the hash is a NumberCall.
Next ==
    \/ NumberCall
    \/ \E key \in KeptKey : shl_htable_lookup_str(key) \/ shl_htable_remove_str(key)
    \/ \E p \in Ptr : KeyOf[p] \in KeptKey /\ shl_htable_insert_str(p)

Spec == Init /\ [][Next]_vars

(***************************************************************************)
(* Properties                                                              *)
(***************************************************************************)

TypeOK ==
    /\ ht.bits \in Nat
    /\ ht.table \in [Slots(ht) -> Word]
    /\ ht.elems \in 0..ht.max
    /\ ht.deleted \in 0..ht.max_with_deleted
    /\ ht.common_mask \in Word
    /\ ht.common_bits \in SUBSET ht.common_mask
    /\ ht.perfect_bit \in SUBSET ht.common_mask
    /\ stored \in [Ptr -> 0..MaxStored]
    /\ ret \in {0, -ENOMEM}
    /\ kept \in [KeptKey -> Word]

\* Every probe of htable_val() and ht_add() comes to an end: as long as there
\* is a table, one of its slots is really empty, however many entries were
\* deleted; and the counters that decide when to rehash and to grow are within
\* their limits.
ProbesEnd == TypeOK /\ \E i \in Slots(ht) : ht.table[i] = HTABLE_EMPTY

\* The table holds the pointers it was given, each as often as it was
\* inserted and not removed, although it stores only parts of them: a visit,
\* an iteration and the callback of shl_htable_clear() get to see exactly
\* these.
ContentsExact ==
    /\ \A p \in Ptr : Visits(p) = stored[p]
    /\ \A i \in Valid(ht) : get_raw_ptr(ht, ht.table[i]) \in Ptr

\* shl_htable_lookup() and shl_htable_remove() find a key exactly if an object
\* with that key is stored, wherever collisions, deletions, rehashing and the
\* perfect bit have put it, and whether the hash is computed or was kept since
\* an earlier call on a smaller table.
LookupExact ==
    \A key \in Key : \A hash \in {Hash[key], shl_htable_hash_str(key)} :
        shl_htable_lookup(ht, key, hash) <=> \E p \in Ptr : KeyOf[p] = key /\ stored[p] > 0
=============================================================================
