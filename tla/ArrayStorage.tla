----------------------------- MODULE ArrayStorage -----------------------------
(***************************************************************************)
(* Reference-counted values and shared append storage (src/vm/value.c).    *)
(* Appending to an array yields a new array.  When the backing store has   *)
(* room and no other view, the new array becomes a second view of it, one  *)
(* element longer; otherwise the elements are copied to a store of their   *)
(* own.                                                                    *)
(*                                                                         *)
(* Identifiers stand for addresses and are reused.  release is recursive   *)
(* in the code; here the calls and the work left after them are a stack,   *)
(* and nothing else happens until it is empty.  A failed allocation leaves *)
(* the heap as it was and is a stuttering step.                            *)
(***************************************************************************)
EXTENDS Integers, Sequences, FiniteSets, FiniteSetsExt, SequencesExt

CONSTANTS
    MaxValues,          \* values alive at once
    MaxStores,          \* append stores alive at once
    MaxRoots,           \* bound: references the program holds when it takes another
    MaxLength,          \* elements of an array
    InitialCapacity,    \* slots of a new store (8 in the code)
    Budget              \* values append_independent looks at (64 in the code)

ASSUME StorageAssumption ==
    /\ {MaxValues, MaxStores, MaxRoots, MaxLength, Budget} \subseteq Nat
    /\ InitialCapacity \in Nat \ {0}

Values == 1 .. MaxValues
Stores == 1 .. MaxStores

\* "plain" owns its items, "opaque" is an HTTP resource that may own any, "array"
\* is a view of the first count items of a store.
\* A value whose last reference has gone is "dying" until it is freed.
VARIABLES
    value,      \* id -> [kind, refs, items, storage, count]
    store,      \* id -> [refs, count, items], refs 0 when it is not allocated
    roots,      \* id -> references the program holds
    stack,      \* release calls under way, innermost first
    created     \* id -> the elements the value was created with

vars == <<value, store, roots, stack, created>>

NoValue == [kind |-> "free", refs |-> 0, items |-> << >>, storage |-> 0, count |-> 0]
NoStore == [refs |-> 0, count |-> 0, items |-> << >>]

Live(v) == value[v].kind \notin {"free", "dying"}
Held == {v \in Values : roots[v] > 0}
FreeValues == {v \in Values : value[v].kind = "free"}
FreeStores == {s \in Stores : store[s].refs = 0 /\ store[s].items = << >>}
Capacity(s) == Len(store[s].items)

\* The elements a reader of v sees.
Elements(v) ==
    IF value[v].storage = 0 THEN value[v].items
    ELSE SubSeq(store[value[v].storage].items, 1, value[v].count)

\* Every value v keeps alive, a shared view's hidden suffix included.
Owned(v) ==
    IF value[v].storage = 0 THEN value[v].items
    ELSE SubSeq(store[value[v].storage].items, 1, store[value[v].storage].count)

\* The heap in which each value of s has one more reference per occurrence.
Retained(heap, s) ==
    [v \in Values |-> [heap[v] EXCEPT !.refs = @ + Cardinality({i \in DOMAIN s : s[i] = v})]]

Init ==
    /\ value = [v \in Values |-> NoValue]
    /\ store = [s \in Stores |-> NoStore]
    /\ roots = [v \in Values |-> 0]
    /\ stack = << >>
    /\ created = [v \in Values |-> << >>]

-----------------------------------------------------------------------------
(* Making values, and holding them.                                         *)

\* The program gets the one reference to the new value v.
Deliver(v, elements) ==
    /\ roots' = [roots EXCEPT ![v] = 1]
    /\ created' = [created EXCEPT ![v] = elements]

\* value_sequence, and likewise records, variants, iterators and resources; a
\* value that owns nothing is a sequence of no items.
value_sequence(kind, s) ==
    /\ stack = << >> /\ FreeValues # {}
    /\ LET v == Min(FreeValues) IN
        /\ value' = [Retained(value, s) EXCEPT
                        ![v] = [NoValue EXCEPT !.kind = kind, !.refs = 1, !.items = s]]
        /\ Deliver(v, s)
    /\ UNCHANGED <<store, stack>>

retain(v) ==
    /\ stack = << >>
    /\ roots[v] > 0 /\ MapThenSumSet(LAMBDA w : roots[w], Held) < MaxRoots
    /\ roots' = [roots EXCEPT ![v] = @ + 1]
    /\ value' = Retained(value, <<v>>)
    /\ UNCHANGED <<store, stack, created>>

-----------------------------------------------------------------------------
(* value_array_append.                                                      *)

\* The values append_independent may still look at after it has looked at v
\* with b left; negative if it gave up or met the store s.
RECURSIVE LeftAfter(_, _, _)
LeftAfter(v, s, b) ==
    IF b <= 0 \/ value[v].kind = "opaque" \/ value[v].storage = s THEN -1
    ELSE FoldLeft(LAMBDA left, w : IF left < 0 THEN -1 ELSE LeftAfter(w, s, left),
                  b - 1, Owned(v))

\* Mutant: only the item itself is looked at.
append_independent_shallow(item, s) == value[item].storage # s

append_independent(item, s) == LeftAfter(item, s, Budget) >= 0

\* May the new array be a second view of the store of array?
Shares(array, item) ==
    LET s == value[array].storage IN
        /\ s # 0
        /\ store[s].refs = 1
        /\ value[array].count < Capacity(s)
        /\ append_independent(item, s)

\* The new array v becomes a view of n elements of store s.
NewView(heap, v, s, n) ==
    [heap EXCEPT ![v] = [NoValue EXCEPT !.kind = "array", !.refs = 1,
                                        !.storage = s, !.count = n]]

\* The longer view shares the store.
AppendShared(array, item) ==
    /\ stack = << >> /\ FreeValues # {}
    /\ Shares(array, item)
    /\ LET v == Min(FreeValues)
           s == value[array].storage
           n == value[array].count + 1
       IN  /\ store' = [store EXCEPT ![s].items[n] = item, ![s].count = n, ![s].refs = @ + 1]
           /\ value' = NewView(Retained(value, <<item>>), v, s, n)
           /\ Deliver(v, Append(Elements(array), item))
    /\ UNCHANGED stack

\* The elements are copied to a store of their own.
AppendCopied(array, item) ==
    /\ stack = << >> /\ FreeValues # {} /\ FreeStores # {}
    /\ ~Shares(array, item)
    /\ LET v == Min(FreeValues)
           s == Min(FreeStores)
           elements == Append(Elements(array), item)
           n == Len(elements)
           capacity == IF n - 1 < InitialCapacity THEN InitialCapacity ELSE 2 * (n - 1)
       IN  /\ store' = [store EXCEPT ![s] =
                            [refs |-> 1, count |-> n,
                             items |-> elements \o [i \in 1 .. capacity - n |-> 0]]]
           /\ value' = NewView(Retained(value, elements), v, s, n)
           /\ Deliver(v, elements)
    /\ UNCHANGED stack

-----------------------------------------------------------------------------
(* release.                                                                 *)

Releases(s) == [i \in DOMAIN s |-> [do |-> "release", id |-> s[i]]]
Task(do, id) == <<[do |-> do, id |-> id]>>

\* The program gives up a reference.
Drop(v) ==
    /\ stack = << >>
    /\ roots[v] > 0
    /\ roots' = [roots EXCEPT ![v] = @ - 1]
    /\ stack' = Task("release", v)
    /\ UNCHANGED <<value, store, created>>

\* Mutants: the hidden suffix stays when the longer view goes; it goes with
\* whichever view goes first.
HidesSuffix_never(v) == FALSE
HidesSuffix_any(v) == TRUE

\* Does the store of v keep an element that only v shows?
HidesSuffix(v) == value[v].count = store[value[v].storage].count

\* One call of release: the last reference starts the teardown.
release(v) ==
    /\ stack # << >> /\ Head(stack) = [do |-> "release", id |-> v]
    /\ LET rest == Tail(stack)
           s == value[v].storage
           gone == [value EXCEPT ![v].refs = 0, ![v].kind = "dying"]
       IN  \/ /\ value[v].refs > 1
              /\ value' = [value EXCEPT ![v].refs = @ - 1]
              /\ stack' = rest
              /\ UNCHANGED store
           \/ /\ value[v].refs = 1 /\ s = 0
              /\ value' = gone
              /\ stack' = Releases(value[v].items) \o Task("free", v) \o rest
              /\ UNCHANGED store
           \/ /\ value[v].refs = 1 /\ s # 0 /\ store[s].refs = 1
              /\ value' = gone
              /\ store' = [store EXCEPT ![s].refs = 0]
              /\ stack' = Releases(Owned(v)) \o Task("freeStore", s) \o Task("free", v) \o rest
           \/ /\ value[v].refs = 1 /\ s # 0 /\ store[s].refs > 1 /\ HidesSuffix(v)
              /\ value' = gone
              /\ store' = [store EXCEPT ![s].refs = @ - 1, ![s].count = @ - 1]
              /\ stack' = Task("release", store[s].items[store[s].count])
                            \o Task("clear", s) \o Task("free", v) \o rest
           \/ /\ value[v].refs = 1 /\ s # 0 /\ store[s].refs > 1 /\ ~HidesSuffix(v)
              /\ value' = gone
              /\ store' = [store EXCEPT ![s].refs = @ - 1]
              /\ stack' = Task("free", v) \o rest
    /\ UNCHANGED <<roots, created>>

\* What is left to do after the inner calls have returned.
Teardown ==
    /\ stack # << >>
    /\ LET id == Head(stack).id IN
        \/ /\ Head(stack).do = "clear"
           /\ store' = [store EXCEPT ![id].items[store[id].count + 1] = 0]
           /\ UNCHANGED <<value, created>>
        \/ /\ Head(stack).do = "freeStore"
           /\ store' = [store EXCEPT ![id] = NoStore]
           /\ UNCHANGED <<value, created>>
        \/ /\ Head(stack).do = "free"
           /\ value' = [value EXCEPT ![id] = NoValue]
           /\ created' = [created EXCEPT ![id] = << >>]
           /\ UNCHANGED store
    /\ stack' = Tail(stack)
    /\ UNCHANGED roots

-----------------------------------------------------------------------------
IsSequence(v) == value[v].kind \in {"plain", "array"} /\ Len(Elements(v)) < MaxLength

Next ==
    \/ \E s \in SeqOf(Held, 1) : value_sequence("plain", s)
    \/ \E v \in Held : value_sequence("opaque", <<v>>)      \* one that owns nothing leads to no store
    \/ \E v \in Held : retain(v) \/ Drop(v)
    \/ \E array, item \in Held :
            IsSequence(array) /\ (AppendShared(array, item) \/ AppendCopied(array, item))
    \/ \E v \in Values : release(v)
    \/ Teardown

Spec == Init /\ [][Next]_vars

-----------------------------------------------------------------------------
(* Properties.                                                              *)

Times(v, s) == Cardinality({i \in DOMAIN s : s[i] = v})

\* The references to v: from the program, from values that own their items,
\* from stores, and from calls of release that are still to run.
References(v) ==
    roots[v]
     + MapThenSumSet(LAMBDA w : Times(v, value[w].items), {w \in Values : Live(w)})
     + MapThenSumSet(LAMBDA s : Times(v, SubSeq(store[s].items, 1, store[s].count)),
                     {s \in Stores : store[s].refs > 0})
     + Times([do |-> "release", id |-> v], stack)

\* No dangling reference and no forgotten one: a live value counts exactly the
\* references there are to it, and there are none to a freed one, at every
\* step of every release.  A store counts its live views, and "at most two array
\* views share append storage: a prefix and its one-element extension" (value.c).
ReferencesCounted ==
    /\ \A v \in Values : References(v) = (IF Live(v) THEN value[v].refs ELSE 0)
    /\ \A s \in Stores :
        LET views == {v \in Values : Live(v) /\ value[v].storage = s}
        IN  /\ store[s].refs = Cardinality(views)
            /\ store[s].refs <= 2
            /\ {value[v].count : v \in views} =
                    store[s].count - store[s].refs + 1 .. store[s].count

\* Arrays are immutable: appending to one view, or dropping one, never changes
\* the elements another shows.
ArraysPersist == \A v \in Values : Live(v) => Elements(v) = created[v]

\* "Sharing is safe only when the appended item cannot retain this backing
\* store" (value.c): releasing the hidden suffix may release other values in
\* turn, but never the store whose slot release clears afterwards.
StorageOutlivesRelease ==
    \A i \in DOMAIN stack :
        stack[i].do = "clear" => store[stack[i].id].refs > 0
===============================================================================
