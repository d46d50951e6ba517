---------------------------- MODULE ListSymbols ----------------------------
(***************************************************************************)
(* The symbols of a list's elements, the list methods that move them, and  *)
(* what the targets of an unpacking and the elements of a new list get     *)
(* from them.                                                              *)
(*                                                                         *)
(* A list that the notebook uses has a namespace, in which the symbol of an *)
(* element is kept under the element's index.  When a statement calls a    *)
(* list method, the tracer only records a handler; the handlers run when   *)
(* the statement has finished, in the order of the calls, and read the     *)
(* list as it is by then.                                                  *)
(*                                                                         *)
(* Elements are distinct objects.  One variable names the list.            *)
(***************************************************************************)
EXTENDS Integers, Sequences, FiniteSets, SequencesExt, Functions

CONSTANTS
    Elems,     \* the objects the list may hold: numbers
    MaxLen,    \* bound: length of the list
    MaxCalls   \* bound: method calls in a statement

ASSUME ListAssumption ==
    /\ IsFiniteSet(Elems) /\ Elems \subseteq Nat
    /\ MaxLen \in Nat /\ MaxCalls \in Nat

VARIABLES
    list,       \* the list
    syms,       \* _subscript_symbol_by_name: index |-> the object the symbol denotes
    updated,    \* the indices whose symbols the last statement has refreshed
    pending,    \* external_calls: handlers recorded by the current statement
    before,     \* history: the list before the current statement
    disturbed,  \* history: has a statement done what the handlers do not follow?
    bound       \* what the last statement bound: which places got which object,
                \* and what the parents of the symbols of these places denote

namespace == <<list, syms, updated, pending, before, disturbed>>
vars == <<namespace, bound>>

Unbound == [got |-> {}, from |-> {}, skipped |-> FALSE]

Indices == -MaxLen..(2 * MaxLen)
Item(i) == list[i + 1]
InList(i) == i \in 0..(Len(list) - 1)

\* An index as Python reads it.
Norm(i) == IF i < 0 THEN Len(list) + i ELSE i

\* The elements that symbols were created for when the list was: all those of a
\* literal, those used so far of another list.
Init ==
    /\ \E n \in 0..MaxLen : list = [i \in 1..n |-> i]
    /\ \E D \in SUBSET (0..(Len(list) - 1)) : syms = [i \in D |-> Item(i)]
    /\ updated = {} /\ pending = << >> /\ before = list /\ disturbed = FALSE
    /\ bound = Unbound

-----------------------------------------------------------------------------
(* Moving symbols.  `s` is the namespace as a handler leaves it.           *)

Put(s, i, obj) ==
    [s EXCEPT !.syms = [j \in DOMAIN s.syms \cup {i} |-> IF j = i THEN obj ELSE s.syms[j]],
              !.updated = @ \cup {i}]
Drop(s, i) ==
    [s EXCEPT !.syms = [j \in DOMAIN s.syms \ {i} |-> s.syms[j]],
              !.updated = @ \ {i}]

RemapQuietly(s, from, to) ==  \* mutant: the moved symbol keeps its timestamp
    IF from \notin DOMAIN s.syms THEN s
    ELSE [Put(Drop(s, from), to, s.syms[from]) EXCEPT !.updated = s.updated \ {from}]
Remap(s, from, to) ==
    IF from \notin DOMAIN s.syms THEN s ELSE Put(Drop(s, from), to, s.syms[from])

\* After an insertion, from the end of the list down to the position.
ShuffleUpOnward(s, pos) ==  \* mutant: from the position on
    FoldLeft(LAMBDA t, i : Remap(t, i - 1, i), s, [k \in 1..(Len(list) - 1 - pos) |-> pos + k])
ShuffleUp(s, pos) ==
    FoldLeft(LAMBDA t, i : Remap(t, i - 1, i), s,
             [k \in 1..(Len(list) - 1 - pos) |-> Len(list) - k])

\* After a deletion, from the position up to the end.
ShuffleDown(s, pos, n) ==
    FoldLeft(LAMBDA t, i : Remap(t, i, i - 1), s, [k \in 1..(n - pos) |-> pos + k])

\* delete_symbol_for_name; n is the length the list has by now.
Delete(s, pos, n) ==
    LET last == pos = -1 /\ pos \notin DOMAIN s.syms
        name == IF last THEN n ELSE pos
    IN  ShuffleDown(Drop(s, name), name, n)

-----------------------------------------------------------------------------
(* The handlers.  One that raises an error ends the processing.            *)

HandleExtend(s, h) ==
    FoldLeft(LAMBDA t, i : Put(t, i, Item(i)), s,
             [k \in 1..(Len(list) - h.from) |-> h.from + k - 1])

HandleInsert(s, h) ==
    LET shifted == ShuffleUp(s, h.pos)
    IN  IF Norm(h.pos) \in 0..(Len(list) - 1)
        THEN Put(shifted, h.pos, Item(Norm(h.pos)))
        ELSE [shifted EXCEPT !.failed = TRUE]

HandleClear(s) ==
    FoldLeft(LAMBDA t, i : Delete(t, i, Len(list)), s, SetToSortSeq(DOMAIN s.syms, >))

Handled(s, h) ==
    CASE s.failed             -> s
      [] h.kind = "extend"    -> HandleExtend(s, h)
      [] h.kind = "insert"    -> HandleInsert(s, h)
      [] h.kind = "remove"    -> Delete(s, h.pos, Len(list))
      [] h.kind = "pop_last"  -> s   \* pop() has no argument to learn a position from
      [] h.kind = "clear"     -> HandleClear(s)

\* The namespace of the list.
Namespace == [syms |-> syms, updated |-> {}, failed |-> FALSE]
Finished == FoldLeft(Handled, Namespace, pending)

-----------------------------------------------------------------------------
(* What a statement does to the list while it runs.                        *)

Unused == Elems \ (Range(list) \cup Range(syms) \cup Range(before))
Fresh == CHOOSE e \in Unused : \A d \in Unused : e <= d

\* The handler has its arguments when the last of them has been evaluated.
Argument(h) == pending' = Append(pending, h)

Calls(h, newList) ==
    /\ Len(pending) < MaxCalls
    /\ Argument(h) /\ list' = newList /\ updated' = {}
    /\ UNCHANGED <<syms, before, disturbed>>

CallExtend ==
    /\ Unused # {} /\ Len(list) < MaxLen
    /\ Calls([kind |-> "extend", from |-> Len(list)], Append(list, Fresh))

\* A position beyond the ends means the end; a negative one counts from the end.
CallInsert(pos) ==
    /\ Unused # {} /\ Len(list) < MaxLen
    /\ LET at == IF Norm(pos) < 0 THEN 0 ELSE IF pos > Len(list) THEN Len(list) ELSE Norm(pos)
       IN  Calls([kind |-> "insert", pos |-> pos, safe |-> pos \in 0..Len(list)],
                 InsertAt(list, at + 1, Fresh))

CallPopLast == list # << >> /\ Calls([kind |-> "pop_last"], Front(list))

\* pop(pos), and remove(v), which looks up the position before the call.
CallRemove(pos) ==
    /\ InList(Norm(pos))
    /\ Calls([kind |-> "remove", pos |-> pos, safe |-> pos >= -1], RemoveAt(list, Norm(pos) + 1))

CallClear == Calls([kind |-> "clear"], << >>)

Shifts(h) == h.kind \in {"insert", "remove"}
LeftOver == {i \in DOMAIN syms : i >= Len(before)}

\* finished_execution_hook of a statement with calls.
Finish ==
    /\ pending # << >>
    /\ LET s == Finished
           unsafe == \E h \in Range(pending) :
                        Shifts(h) /\ \/ Len(pending) > 1 \/ ~h.safe
                                     \/ h.kind = "insert" /\ LeftOver # {}
       IN  /\ syms' = s.syms /\ updated' = s.updated
           /\ disturbed' = (disturbed \/ unsafe)
    /\ pending' = << >> /\ before' = list /\ UNCHANGED list

DelItem(pos) ==
    /\ pending = << >> /\ InList(Norm(pos))
    /\ list' = RemoveAt(list, Norm(pos) + 1)
    /\ LET s == Delete(Namespace, pos, Len(list) - 1)
       IN  syms' = s.syms /\ updated' = s.updated
    /\ disturbed' = (disturbed \/ pos < -1)
    /\ before' = list' /\ UNCHANGED pending

\* lst[pos] = v.  A negative index gets a symbol of its own.
SetItem(pos) ==
    /\ pending = << >> /\ InList(Norm(pos)) /\ Unused # {}
    /\ list' = [list EXCEPT ![Norm(pos) + 1] = Fresh]
    /\ LET s == Put(Namespace, pos, Fresh)
       IN  syms' = s.syms /\ updated' = s.updated
    /\ disturbed' = (disturbed \/ pos < 0)
    /\ before' = list' /\ UNCHANGED pending

\* A use of lst[pos] creates the symbol if there is none, and corrects the
\* object it denotes, but does not refresh it.
Load(pos) ==
    /\ pending = << >> /\ InList(Norm(pos))
    /\ LET name == IF pos \notin DOMAIN syms /\ Norm(pos) \in DOMAIN syms
                   THEN Norm(pos) ELSE pos
       IN  /\ syms' = Put(Namespace, name, Item(Norm(pos))).syms
           /\ disturbed' = (disturbed \/ name < 0)
    /\ updated' = {} /\ UNCHANGED <<list, pending, before>>

-----------------------------------------------------------------------------
(* Unpacking, `a, *b, c = lst`, and new lists, `[a, *lst, c]`.  Either is a  *)
(* sequence of elts, of which at most one is starred.  Objects from outside *)
(* the list are negative.                                                  *)

Patterns == {p \in UNION {[1..n -> {"plain", "starred"}] : n \in 1..(MaxLen + 1)} :
                Cardinality({j \in DOMAIN p : p[j] = "starred"}) <= 1}
Starred(p, j) == p[j] = "starred"

\* Python's rule.  The place of object i of n: its elt, and its rank in a
\* starred one.  The elts behind a starred one are counted from the end.
Place(p, n, i) ==
    LET star == {j \in DOMAIN p : Starred(p, j)}
    IN  CASE \A j \in star : i < j            -> <<i>>
          [] \E j \in star : n - i < Len(p) - j -> <<Len(p) - (n - i)>>
          [] OTHER -> LET j == CHOOSE j \in star : TRUE IN <<j, i - j + 1>>
Fits(p, n) == IF \E j \in DOMAIN p : Starred(p, j) THEN n >= Len(p) - 1 ELSE n = Len(p)

\* match_container_obj_or_namespace_with_literal_nodes: the elt for each object.
MatchGreedy(p, n) ==  \* mutant: a starred elt takes all that is left
    LET m[i \in 0..n] ==
            IF i = 0 THEN 0
            ELSE LET elt == m[i - 1]
                 IN  IF elt = 0 \/ ~Starred(p, elt) THEN elt + 1 ELSE elt
    IN  [i \in 1..n |-> m[i]]
Match(p, n) ==
    LET m[i \in 0..n] ==
            IF i = 0 THEN 0
            ELSE LET elt == m[i - 1]
                 IN  IF elt = 0 \/ ~Starred(p, elt) \/ Len(p) - elt >= n - i + 1
                     THEN elt + 1 ELSE elt
    IN  [i \in 1..n |-> m[i]]
RankOf(m, i) == Cardinality({k \in 1..i : m[k] = m[i]})

\* The object that the symbol of element i denotes; none without a symbol.
Lookup(i) == {syms[k] : k \in {i - 1} \cap DOMAIN syms}

\* The element symbols of a starred target.
StarredTarget(m, i) == {<<<<m[i], RankOf(m, i)>>, o>> : o \in Lookup(i)}

\* Does a starred elt get nothing, with another elt behind it?
Skips(p, n) == n = Len(p) - 1 /\ \E j \in 1..(Len(p) - 1) : Starred(p, j)

Unpack(p) ==
    /\ pending = << >> /\ Fits(p, Len(list))
    /\ LET n == Len(list)
           m == Match(p, n)
       IN  bound' = [got |-> {<<Place(p, n, i), list[i]>> : i \in 1..n},
                     from |-> UNION {IF Starred(p, m[i]) THEN StarredTarget(m, i)
                                     ELSE {<<<<m[i]>>, o>> : o \in Lookup(i)} : i \in 1..n},
                     skipped |-> Skips(p, n)]
    /\ UNCHANGED namespace

\* A new list of p's elts, the list itself for the starred one.  The symbol of
\* a new element depends on that of its elt, or on the next one of the list.
NewList(p) ==
    /\ pending = << >> /\ \E j \in DOMAIN p : Starred(p, j)
    /\ LET n == Len(p) - 1 + Len(list)
           m == Match(p, n)
           object(place) == IF Len(place) = 1 THEN -place[1] ELSE list[place[2]]
       IN  bound' = [got |-> {<<i, object(Place(p, n, i))>> : i \in 1..n},
                     from |-> UNION {{<<i, o>> : o \in IF Starred(p, m[i]) THEN Lookup(RankOf(m, i))
                                                       ELSE {-m[i]}} : i \in 1..n},
                     skipped |-> Skips(p, n)]
    /\ UNCHANGED namespace

\* Bound: a run ends with the first statement the handlers do not follow.
Followed == ~disturbed

Update ==
    \/ CallExtend \/ CallPopLast \/ CallClear \/ Finish
    \/ \E pos \in Indices : CallInsert(pos) \/ CallRemove(pos)
                            \/ DelItem(pos) \/ SetItem(pos) \/ Load(pos)

Next ==
    \/ Update /\ bound' = Unbound
    \/ \E p \in Patterns : Unpack(p) \/ NewList(p)

Spec == Init /\ [][Next]_vars

-----------------------------------------------------------------------------
(* Properties.                                                             *)

\* The types, and: an object has one symbol.
TypeOK ==
    /\ list \in Seq(Elems) /\ Len(list) <= MaxLen
    /\ DOMAIN syms \subseteq Indices /\ Range(syms) \subseteq Elems
    /\ updated \subseteq DOMAIN syms
    /\ Len(pending) <= MaxCalls /\ disturbed \in BOOLEAN
    /\ pending = << >> /\ ~disturbed => IsInjective(syms)

\* Between statements, the symbol kept under an index of the list denotes the
\* element at that index, whatever was inserted, removed or popped: unless a
\* statement moved elements twice, or moved them at a position counted from the
\* end or beyond it, or inserted one while pop() had left a symbol over.  (shuffle_symbols_upward_from, _shuffle_symbols_downward_to.)
Aligned ==
    pending = << >> /\ ~disturbed
        => \A i \in DOMAIN syms : InList(i) => syms[i] = Item(i)

\* A statement refreshes the symbol under an index exactly if the element at that
\* index is another one than before: a cell that used lst[i] is told if and only
\* if lst[i] has changed.  (invalidate_cached in _remap_sym.)
RefreshedIffChanged ==
    [][pending' = << >> /\ before' # before /\ ~disturbed'
          => \A i \in DOMAIN syms' \cap 0..(Len(before') - 1) :
                i \in updated' <=> (i >= Len(before) \/ before[i + 1] # before'[i + 1])]_vars

\* Each target of an unpacking, and each element of a new list, depends on the
\* symbol of the element it got and on no other, if that element has one, after
\* any calls and wherever the starred elt is: unless it got nothing and others
\* follow it.  (match_container_obj_or_namespace_with_literal_nodes.)
BoundFromOwn ==
    ~disturbed /\ ~bound.skipped =>
        bound.from = {g \in bound.got : g[2] < 0 \/ \E i \in DOMAIN syms : InList(i) /\ syms[i] = g[2]}
=============================================================================
