---------------------------- MODULE CFDictionary ----------------------------
(***************************************************************************)
(* The wrappers of core-foundation around CFDictionary and                 *)
(* CFMutableDictionary (vendor/core-foundation/src/dictionary.rs), with    *)
(* the objects of Core Foundation behind them.                             *)
(*                                                                         *)
(* The wrappers hold no data: every method is one call of the C library.   *)
(* What they add is ownership.  A wrapper owns one reference of its        *)
(* object and releases it when it is dropped; a method that takes a key or *)
(* a value by value drops it on return; a dictionary made with the kCFType *)
(* call-backs retains what it takes in and releases what it lets go.  The  *)
(* model keeps the retain count of every object and who owns a reference   *)
(* of it.                                                                  *)
(*                                                                         *)
(* Taken from the documentation of Core Foundation and of the crate, not   *)
(* from src/: a function with Create or Copy in its name returns a         *)
(* reference the caller owns; wrap_under_create_rule takes that reference  *)
(* over, wrap_under_get_rule retains one of its own; keys are compared     *)
(* with CFEqual.  Which of two equal keys CFDictionaryCreate keeps is not  *)
(* documented and is left open.  The capacity of a dictionary is a hint    *)
(* and is left out.  Keys and values are wrappers of objects (K, V:        *)
(* TCFType), not the raw pointers that the type parameters default to.     *)
(***************************************************************************)
EXTENDS Integers, Sequences, FiniteSets, FiniteSetsExt, SequencesExt

CONSTANTS
    Keys,           \* the objects used as keys
    Values,         \* the objects used as values
    Text,           \* Text[k]: what CFEqual compares of a key
    PairLists,      \* the slices from_CFType_pairs is given
    Dicts,          \* bound: the dictionaries allocated at a time
    MaxHeld         \* bound: the wrappers of one value the program holds

Items   == Keys \cup Values
Objects == Items \cup Dicts

ASSUME
    /\ Keys \cap Values = {} /\ Items \cap Dicts = {}
    /\ \A pairs \in PairLists : pairs \in Seq(Keys \X Values)

None      == [some |-> FALSE]
Some(v)   == [some |-> TRUE, val |-> v]
Panicked  == [panicked |-> TRUE]

VARIABLES
    retains,    \* the retain count of every object; 0: not allocated
    entries,    \* the <<key, value>> pairs of every dictionary
    wrapper,    \* the type of the wrapper the program holds of a dictionary
    held,       \* the wrappers the program holds of every key and value
    copies,     \* history: the dictionaries made by copy_with_capacity
    result      \* what the last call returned

vars == <<retains, entries, wrapper, held, copies, result>>

-----------------------------------------------------------------------------
(* Core Foundation.                                                        *)

\* The references a dictionary with the entries c holds of the object o.
Slots(c, o) ==
    Quantify(c, LAMBDA e : e[1] = o) + Quantify(c, LAMBDA e : e[2] = o)

\* The entries whose key is equal to k.
Matching(c, k) == {e \in c : Text[e[1]] = Text[k]}

WithValue(c, k, v) == (c \ Matching(c, k)) \cup {<<e[1], v>> : e \in Matching(c, k)}

CFDictionaryAddValue(c, k, v) ==
    IF Matching(c, k) = {} THEN c \cup {<<k, v>>} ELSE c

CFDictionarySetValue(c, k, v) ==
    IF Matching(c, k) = {} THEN c \cup {<<k, v>>} ELSE WithValue(c, k, v)

CFDictionaryReplaceValue(c, k, v) ==
    IF Matching(c, k) = {} THEN c ELSE WithValue(c, k, v)

CFDictionaryRemoveValue(c, k) == c \ Matching(c, k)

\* CFDictionaryCreate: an entry for every key, of one of the pairs with a
\* key equal to it.
CFDictionaryCreate(pairs) ==
    {c \in SUBSET ToSet(pairs) :
        \A p \in ToSet(pairs) : Cardinality(Matching(c, p[1])) = 1}

\* CFRelease in the heap h: the last reference of a dictionary deallocates
\* it, and the dictionary releases its keys and values.
CFRelease(h, o) ==
    IF o \in Dicts /\ h.retains[o] = 1
    THEN [retains |-> [x \in Objects |->
                          IF x = o THEN 0 ELSE h.retains[x] - Slots(h.entries[o], x)],
          entries |-> [h.entries EXCEPT ![o] = {}]]
    ELSE [h EXCEPT !.retains[o] = @ - 1]

Heap == [retains |-> retains, entries |-> entries]

Becomes(h) == retains' = h.retains /\ entries' = h.entries

-----------------------------------------------------------------------------
(* The wrappers.                                                           *)

Running == result # Panicked

\* The dictionary the next constructor makes.
Free == {d \in Dicts : retains[d] = 0}

Fresh(d) == Running /\ Free # {} /\ d = CHOOSE e \in Free : TRUE

\* A new dictionary d with the entries c, `count` references of it, and a
\* wrapper of the type given.
Made(d, c, count, type) ==
    /\ retains' = [o \in Objects |-> IF o = d THEN count ELSE retains[o] + Slots(c, o)]
    /\ entries' = [entries EXCEPT ![d] = c]
    /\ wrapper' = [wrapper EXCEPT ![d] = type]
    /\ result' = None

\* The program holds a wrapper of every object of the slice.
Holds(pairs) == \A p \in ToSet(pairs) : held[p[1]] > 0 /\ held[p[2]] > 0

\* Mutant: the new dictionary is wrapped under the get rule.
FromPairsUnderGetRule(d, pairs) ==
    /\ Fresh(d) /\ pairs \in PairLists /\ Holds(pairs)
    /\ \E c \in CFDictionaryCreate(pairs) : Made(d, c, 2, "CFDictionary")
    /\ UNCHANGED <<held, copies>>

\* CFDictionary::from_CFType_pairs
FromPairs(d, pairs) ==
    /\ Fresh(d) /\ pairs \in PairLists /\ Holds(pairs)
    /\ \E c \in CFDictionaryCreate(pairs) : Made(d, c, 1, "CFDictionary")
    /\ UNCHANGED <<held, copies>>

\* CFMutableDictionary::new, with_capacity
WithCapacity(d) ==
    /\ Fresh(d)
    /\ Made(d, {}, 1, "CFMutableDictionary")
    /\ UNCHANGED <<held, copies>>

\* CFMutableDictionary::from_CFType_pairs: with_capacity, and add for
\* every pair in its turn.
MutableFromPairs(d, pairs) ==
    /\ Fresh(d) /\ pairs \in PairLists /\ Holds(pairs)
    /\ Made(d, FoldLeft(LAMBDA c, p : CFDictionaryAddValue(c, p[1], p[2]), {}, pairs),
            1, "CFMutableDictionary")
    /\ UNCHANGED <<held, copies>>

Mutable(d) == Running /\ d \in Dicts /\ wrapper[d] = "CFMutableDictionary"

\* copy_with_capacity: CFDictionaryCreateMutableCopy returns a reference
\* the caller owns, and wrap_under_get_rule retains another.
CopyWithCapacity(d, e) ==
    /\ Mutable(d) /\ Fresh(e)
    /\ Made(e, entries[d], 2, "CFMutableDictionary")
    /\ copies' = copies \cup {e}
    /\ UNCHANGED held

\* A call that leaves the dictionary d with the entries c and drops the
\* wrappers it was given by value.
Left(d, c, dropped) ==
    LET gone(o) == Quantify(DOMAIN dropped, LAMBDA i : dropped[i] = o) IN
    /\ \A o \in Items : held[o] >= gone(o)
    /\ held' = [o \in Items |-> held[o] - gone(o)]
    /\ retains' = [o \in Objects |->
                      retains[o] + Slots(c, o) - Slots(entries[d], o)
                          - (IF o \in Items THEN gone(o) ELSE 0)]
    /\ entries' = [entries EXCEPT ![d] = c]
    /\ result' = None
    /\ UNCHANGED <<wrapper, copies>>

\* add(&mut self, key: &K, value: &V)
Add(d, k, v) ==
    /\ Mutable(d) /\ held[k] > 0 /\ held[v] > 0
    /\ Left(d, CFDictionaryAddValue(entries[d], k, v), <<>>)

\* set(&mut self, key: K, value: V)
Set(d, k, v) ==
    /\ Mutable(d)
    /\ Left(d, CFDictionarySetValue(entries[d], k, v), <<k, v>>)

\* replace(&mut self, key: K, value: V)
Replace(d, k, v) ==
    /\ Mutable(d)
    /\ Left(d, CFDictionaryReplaceValue(entries[d], k, v), <<k, v>>)

\* remove(&mut self, key: K)
RemoveKey(d, k) ==
    /\ Mutable(d)
    /\ Left(d, CFDictionaryRemoveValue(entries[d], k), <<k>>)

\* remove_all
RemoveAll(d) ==
    /\ Mutable(d)
    /\ Left(d, {}, <<>>)

Wrapped(d) == Running /\ d \in Dicts /\ wrapper[d] # "none"

Returns(value) == result' = value /\ UNCHANGED <<retains, entries, wrapper, held, copies>>

\* len, and is_empty, which compares it with 0
Count(d) == Wrapped(d) /\ Returns([len |-> Cardinality(entries[d])])

\* contains_key
ContainsKey(d, k) ==
    Wrapped(d) /\ held[k] > 0 /\ Returns([contains |-> Matching(entries[d], k) # {}])

\* What CFDictionaryGetValueIfPresent leaves in `value`.
Found(d, k) == {e[2] : e \in Matching(entries[d], k)}

\* find: the ItemRef of the value, or None
Find(d, k) ==
    /\ Wrapped(d) /\ held[k] > 0
    /\ Returns(IF Found(d, k) = {} THEN None ELSE Some(CHOOSE v \in Found(d, k) : TRUE))

\* find(..).unwrap().clone(), as the test does: a wrapper of the value.
FindClone(d, k) ==
    /\ Wrapped(d) /\ held[k] > 0
    /\ \E v \in Found(d, k) :
          /\ held[v] < MaxHeld
          /\ held' = [held EXCEPT ![v] = @ + 1]
          /\ retains' = [retains EXCEPT ![v] = @ + 1]
          /\ result' = Some(v)
    /\ UNCHANGED <<entries, wrapper, copies>>

\* get, with the key in the dictionary
Get(d, k) ==
    /\ Wrapped(d) /\ held[k] > 0
    /\ \E v \in Found(d, k) : Returns(Some(v))

\* get, without: expect panics, and the wrappers of the thread are dropped
\* as it unwinds.
GetPanics(d, k) ==
    /\ Wrapped(d) /\ held[k] > 0 /\ Found(d, k) = {}
    /\ LET dropped == FoldLeft(CFRelease, Heap, SetToSeq({e \in Dicts : wrapper[e] # "none"}))
       IN  Becomes([dropped EXCEPT !.retains =
                       [o \in Objects |-> IF o \in Items THEN @[o] - held[o] ELSE @[o]]])
    /\ wrapper' = [e \in Dicts |-> "none"]
    /\ held' = [o \in Items |-> 0]
    /\ result' = Panicked
    /\ UNCHANGED copies

\* get_keys_and_values: two vectors of len() pointers, in an order of the
\* dictionary's choice, the same for both.
GetKeysAndValues(d) ==
    /\ Wrapped(d)
    /\ \E order \in SetToSeqs(entries[d]) :
          Returns([keys   |-> [i \in DOMAIN order |-> order[i][1]],
                   values |-> [i \in DOMAIN order |-> order[i][2]]])

\* Drop for CFDictionary and for CFMutableDictionary
Drop(d) ==
    /\ Wrapped(d)
    /\ Becomes(CFRelease(Heap, d))
    /\ wrapper' = [wrapper EXCEPT ![d] = "none"]
    /\ result' = None
    /\ UNCHANGED <<held, copies>>

\* The program drops a wrapper of a key or a value.
DropItem(o) ==
    /\ Running /\ o \in Items /\ held[o] > 0
    /\ Becomes(CFRelease(Heap, o))
    /\ held' = [held EXCEPT ![o] = @ - 1]
    /\ result' = None
    /\ UNCHANGED <<wrapper, copies>>

Init ==
    /\ retains = [o \in Objects |-> IF o \in Items THEN 1 ELSE 0]
    /\ entries = [d \in Dicts |-> {}]
    /\ wrapper = [d \in Dicts |-> "none"]
    /\ held = [o \in Items |-> 1]
    /\ copies = {}
    /\ result = None

Next ==
    \/ \E d \in Dicts, pairs \in PairLists :
          FromPairs(d, pairs) \/ MutableFromPairs(d, pairs)
    \/ \E d, e \in Dicts : WithCapacity(d) \/ CopyWithCapacity(d, e)
    \/ \E d \in Dicts, k \in Keys, v \in Values :
          Add(d, k, v) \/ Set(d, k, v) \/ Replace(d, k, v)
    \/ \E d \in Dicts, k \in Keys :
          \/ RemoveKey(d, k) \/ ContainsKey(d, k)
          \/ Find(d, k) \/ FindClone(d, k) \/ Get(d, k) \/ GetPanics(d, k)
    \/ \E d \in Dicts : RemoveAll(d) \/ Count(d) \/ GetKeysAndValues(d) \/ Drop(d)
    \/ \E o \in Items : DropItem(o)

Spec == Init /\ [][Next]_vars

-----------------------------------------------------------------------------
(* Properties.                                                             *)

TypeOK ==
    /\ retains \in [Objects -> Nat]
    /\ entries \in [Dicts -> SUBSET (Keys \X Values)]
    /\ wrapper \in [Dicts -> {"none", "CFDictionary", "CFMutableDictionary"}]
    /\ held \in [Items -> 0 .. MaxHeld]
    /\ copies \subseteq Dicts
    /\ \A d \in Dicts : \A e, f \in entries[d] : Text[e[1]] = Text[f[1]] => e = f

\* The references of an object that someone owns: a wrapper of the program
\* one, and a dictionary one for every place the object has in it.
Owned(o) ==
    IF o \in Dicts THEN IF wrapper[o] = "none" THEN 0 ELSE 1
    ELSE held[o] + MapThenSumSet(LAMBDA d : Slots(entries[d], o), Dicts)

\* An object is alive exactly as long as someone owns a reference of it:
\* no wrapper and no dictionary is left with an object that was
\* deallocated, and nothing stays allocated that nobody can release,
\* whatever the program adds, sets, replaces and removes with keys that are
\* equal and not the same, drops in whatever order, and also when get
\* panics and the thread unwinds.  The exception are the dictionaries made
\* by copy_with_capacity, which carry one reference that nobody owns: they
\* are never deallocated, and neither is what they hold.
AliveWhileOwned ==
    \A o \in Objects : retains[o] = Owned(o) + (IF o \in copies THEN 1 ELSE 0)

=============================================================================
