----------------------------- MODULE MemoProofs -----------------------------
(***************************************************************************)
(* Type correctness of Memo, and what a reuse yields, for any cells, names, *)
(* contents and values and for any number of runs.                         *)
(***************************************************************************)
EXTENDS Memo, FiniteSetTheorems, SequenceTheorems, WellFoundedInduction, TLAPS

\* The edges of a run that a content was memoized for are for what it reads.
RunsRead ==
    \A k \in 1..now : ran[k].content \in Contents
        => \A e \in parents[k] : e[2] = ran[k].content[2]

\* An input of a record is what the content reads and does not write; its
\* timestamp names its object; unless a run has written the variable since, its
\* timestamp is the recorded one, or a reuse has put back an object that has one
\* of its own; and the record's output was computed from the value it has a copy
\* of or from its object, as can still be seen if neither has been updated in place.
InputOK(r, in) ==
    /\ in.sym = r.content[2] /\ in.sym # r.content[1]
    /\ in.obj \in 1..Len(heap) /\ in.inTs <= r.ctr
    /\ ts[in.sym] = in.inTs => obj[in.sym] = in.obj
    /\ in.memTs = memoTs[in.sym][in.obj]
    /\ wrote[in.sym] < r.ctr
          => ts[in.sym] = in.inTs \/ memoTs[in.sym][obj[in.sym]] # 0
    /\ heap[r.out].touched = 0 =>
          /\ \A v \in in.val : heap[r.out].val = Compute[v]
          /\ in.val = {} /\ heap[in.obj].touched <= r.ctr
                => heap[r.out].val = Compute[heap[in.obj].val]

RecordOK(r) ==
    /\ ran[r.ctr].content = r.content
    /\ memoTs[r.content[1]][r.out] = r.ctr
    /\ r.shown \in SUBSET Seq(Values)
    /\ heap[r.out].touched = 0 => r.shown = {<<heap[r.out].val>>}
    /\ \A in \in r.inputs : InputOK(r, in)

Records ==
    /\ \A r \in memo : RecordOK(r)
    /\ \A q, r \in memo : q.ctr = r.ctr => q = r

\* A variable's timestamp is no older than the last update of its object.
Stamps == \A n \in Names : obj[n] # 0 => heap[obj[n]].touched <= ts[n]

IInv == TypeOK /\ RunsRead /\ Records /\ Stamps /\ ReuseGivesResult

-----------------------------------------------------------------------------
(* Numbers and sequences.                                                  *)

\* A set of naturals has a least element: the intervals below its elements are
\* finite sets, which inclusion orders well.
LEMMA MinExists ==
    ASSUME NEW S \in SUBSET Nat, S # {}
    PROVE  Min(S) \in S /\ \A k \in S : Min(S) <= k
  <1> DEFINE T == {0..k : k \in S}
  <1>1. T \subseteq FiniteSubsetsOf(Nat) /\ T # {}
    <2>1. \A k \in S : IsFiniteSet(0..k) /\ 0..k \in SUBSET Nat
      BY FS_Interval
    <2> QED BY <2>1 DEF FiniteSubsetsOf
  <1>2. PICK t \in T : \A u \in T : ~(<<u, t>> \in StrictSubsetOrdering(Nat))
    BY <1>1, FS_StrictSubsetOrderingWellFounded, WFMin
  <1>3. PICK m \in S : t = 0..m
    OBVIOUS
  <1>4. ASSUME NEW k \in S PROVE m <= k
    <2>1. ~(<<0..k, 0..m>> \in StrictSubsetOrdering(Nat))
      BY <1>2, <1>3
    <2>2. k < m => 0..k \subseteq 0..m /\ m \notin 0..k /\ m \in 0..m
      OBVIOUS
    <2>3. 0..k \in SUBSET Nat /\ 0..m \in SUBSET Nat
      OBVIOUS
    <2> QED BY <2>1, <2>2, <2>3 DEF StrictSubsetOrdering
  <1> QED BY <1>4 DEF Min

\* A set of naturals with a bound has a greatest element.
LEMMA MaxExists ==
    ASSUME NEW n \in Nat, NEW S \in SUBSET (0..n), S # {}
    PROVE  Max(S) \in S
  <1> DEFINE T == {n - k : k \in S}
  <1>1. T \in SUBSET Nat
    OBVIOUS
  <1>2. PICK m \in T : \A k \in T : m <= k
    <2>1. T # {}
      OBVIOUS
    <2> HIDE DEF T
    <2> QED BY <1>1, <2>1, MinExists
  <1>3. PICK s \in S : m = n - s
    OBVIOUS
  <1>4. \A k \in S : n - k \in T /\ n - s <= n - k
    BY <1>2, <1>3
  <1>5. \A k \in S : s >= k
    <2> HIDE DEF T
    <2>1. \A k \in S : k \in 0..n
      OBVIOUS
    <2> QED BY <1>4, <2>1
  <1> QED BY <1>5 DEF Max

\* The values are closed under what contents and updates do, and a value is taken
\* for itself.
LEMMA ValueType ==
    \A v \in Values : Compute[v] \in Values /\ Updated[v] \in Values /\ Alike(v, v)
  <1>1. \A v \in Values : Compute[v] \in Values /\ Updated[v] \in Values
    BY MemoAssumption
  <1>2. ASSUME NEW v \in Values PROVE Alike(v, v)
    <2>1. SameForm(v.type, v.type) /\ ArrayEqual(v.items, v.items)
      BY DEF SameForm, ArrayEqual
    <2> QED BY <2>1 DEF Alike, Sequential, Broadcast
  <1> QED BY <1>1, <1>2

\* What Append yields, for a sequence whose elements' type may widen.
LEMMA AppendFacts ==
    ASSUME NEW S, NEW T, S \subseteq T, NEW s \in Seq(S), NEW e \in T
    PROVE  /\ Append(s, e) \in Seq(T)
           /\ Len(Append(s, e)) = Len(s) + 1
           /\ \A i \in 1..Len(s) : Append(s, e)[i] = s[i]
           /\ Append(s, e)[Len(s) + 1] = e
  <1>1. s \in Seq(T)
    OBVIOUS
  <1> QED BY <1>1, AppendProperties

\* A memoized content is not the one that stands for the others.
LEMMA PlainType == Plain \notin Contents
  BY MemoAssumption DEF Plain

-----------------------------------------------------------------------------
(* What the parts of an action do.                                         *)

\* A new version follows the others.  Its edges are for what was asked for.
LEMMA TrackFacts ==
    ASSUME TypeOK, RunsRead, NEW c \in Cells, NEW content \in Contents \cup {Plain},
           NEW E \in SUBSET Edge,
           content \in Contents => \A e \in E : e[2] = content[2],
           Track(c, content, E)
    PROVE  /\ now' = now + 1
           /\ ran' \in Seq([cell : Cells, content : Contents \cup {Plain}])
           /\ \A k \in 1..now : ran'[k] = ran[k]
           /\ ran'[now + 1] = [cell |-> c, content |-> content]
           /\ parents' \in Seq(SUBSET Edge) /\ Len(parents') = now + 1
           /\ children' \subseteq Cells \X Cells \X Names
           /\ \A e \in parents'[now + 1] : \E d \in E : e[2] = d[2]
           /\ RunsRead'
  <1>1. now \in Nat /\ Len(parents) = now
    BY DEF TypeOK, now
  <1>2. Prev(c) \in 0..now
    <2>1. Versions(c) \cup {0} \in SUBSET (0..now) /\ Versions(c) \cup {0} # {}
      BY <1>1 DEF Versions
    <2> QED BY <1>1, <2>1, MaxExists DEF Prev
  <1>3. PrevParents(c) \in SUBSET Edge
    BY <1>1, <1>2 DEF PrevParents, TypeOK
  <1> DEFINE mine == Direct(c, E) \cup Inherited(c, E)
  <1>4. mine \in SUBSET Edge /\ \A e \in mine : \E d \in E : e[2] = d[2]
    <2>1. \A e \in Inherited(c, E) : e \in Edge /\ <<c, e[2]>> \in E /\ <<c, e[2]>>[2] = e[2]
      BY <1>3 DEF Inherited
    <2> QED BY <2>1 DEF Direct
  <1>5. /\ ran' = Append(ran, [cell |-> c, content |-> content])
        /\ parents' = Append(parents, mine)
        /\ children' \subseteq children \cup {<<e[1], c, e[2]>> : e \in Direct(c, E)}
    BY DEF Track
  <1>6. /\ now' = now + 1
        /\ ran' \in Seq([cell : Cells, content : Contents \cup {Plain}])
        /\ \A k \in 1..now : ran'[k] = ran[k]
        /\ ran'[now + 1] = [cell |-> c, content |-> content]
    BY <1>5, AppendFacts DEF TypeOK, now
  <1>7. /\ parents' \in Seq(SUBSET Edge) /\ Len(parents') = now + 1
        /\ \A k \in 1..now : parents'[k] = parents[k]
        /\ parents'[now + 1] = mine
    <2> HIDE DEF mine
    <2> QED BY <1>1, <1>4, <1>5, AppendFacts DEF TypeOK
  <1>8. children' \subseteq Cells \X Cells \X Names
    <2>1. \A e \in Direct(c, E) : <<e[1], c, e[2]>> \in Cells \X Cells \X Names
      BY DEF Direct, Edge
    <2> QED BY <1>5, <2>1 DEF TypeOK
  <1>9. RunsRead'
    <2> SUFFICES ASSUME NEW k \in 1..(now + 1), ran'[k].content \in Contents,
                        NEW e \in parents'[k]
                 PROVE  e[2] = ran'[k].content[2]
      BY <1>6 DEF RunsRead
    <2>1. CASE k \in 1..now
      BY <2>1, <1>6, <1>7 DEF RunsRead
    <2>2. CASE k = now + 1
      BY <2>2, <1>4, <1>6, <1>7
    <2> QED BY <1>1, <2>1, <2>2
  <1> QED BY <1>4, <1>6, <1>7, <1>8, <1>9

\* The new version gets the output it is given; the others keep sets of outputs.
LEMMA OutputFacts ==
    ASSUME TypeOK, NEW c \in Cells, NEW out \in SUBSET Seq(Values), HandleOutput(c, out)
    PROVE  /\ captured' \in Seq(SUBSET Seq(Values)) /\ Len(captured') = now + 1
           /\ captured'[now + 1] = out
  <1> DEFINE d == Dropped(c)
  <1>1. now \in Nat /\ \A k \in 1..now : captured[k] \in SUBSET Seq(Values)
    BY DEF TypeOK, now
  <1>2. d \in Seq(SUBSET Seq(Values)) /\ Len(d) = now
    BY <1>1 DEF Dropped
  <1>3. captured' = Append(d, out)
    BY DEF HandleOutput
  <1> HIDE DEF d
  <1> QED BY <1>2, <1>3, AppendFacts

\* A new object is the last one of the heap.
LEMMA MakeFacts ==
    ASSUME TypeOK, NEW v \in Values, Make(v)
    PROVE  /\ heap' \in Seq([val : Values, touched : 0..(now + 1)])
           /\ Len(heap') = Len(heap) + 1 /\ Len(heap) \in Nat
           /\ \A o \in 1..Len(heap) : heap'[o] = heap[o]
           /\ heap'[Len(heap) + 1] = [val |-> v, touched |-> 0]
  <1> DEFINE S == [val : Values, touched : 0..now]
             T == [val : Values, touched : 0..(now + 1)]
             e == [val |-> v, touched |-> 0]
  <1>1. now \in Nat /\ heap \in Seq(S) /\ heap' = Append(heap, e)
    BY DEF TypeOK, now, Make
  <1>2. S \subseteq T /\ e \in T
    BY <1>1
  <1> HIDE DEF S, T, e
  <1>3. Len(heap) \in Nat
    BY <1>1
  <1>4. heap' \in Seq(T) /\ Len(heap') = Len(heap) + 1
        /\ (\A o \in 1..Len(heap) : heap'[o] = heap[o]) /\ heap'[Len(heap) + 1] = e
    BY <1>1, <1>2, AppendFacts
  <1> QED BY <1>3, <1>4 DEF T, e

\* The object of a variable that has one.
LEMMA ObjectType ==
    ASSUME TypeOK, NEW n \in Names, obj[n] # 0
    PROVE  /\ obj[n] \in 1..Len(heap) /\ obj[n] \in Objects
           /\ heap[obj[n]] \in [val : Values, touched : 0..now]
  <1>1. Len(heap) \in Nat /\ now \in Nat /\ MaxRuns \in Nat
    BY MemoAssumption DEF TypeOK, now
  <1>2. obj[n] \in 1..Len(heap)
    BY <1>1 DEF TypeOK
  <1>3. obj[n] \in Objects
    BY <1>1, <1>2 DEF TypeOK, Objects
  <1>4. heap[obj[n]] \in [val : Values, touched : 0..now]
    <2> DEFINE S == [val : Values, touched : 0..now]
    <2>1. heap \in Seq(S)
      BY DEF TypeOK
    <2> HIDE DEF S
    <2>2. heap[obj[n]] \in S
      BY <2>1, <1>2
    <2> QED BY <2>2 DEF S
  <1> QED BY <1>2, <1>3, <1>4

\* What is read is one variable.
LEMMA ReadsType ==
    ASSUME NEW c \in Cells, NEW n \in Names
    PROVE  Reads(c, n) \in SUBSET Edge /\ \A e \in Reads(c, n) : e[2] = n
  BY DEF Reads, Edge

\* What happens to a variable's timestamps if it is not written: either nothing,
\* or it gets an object which a memoized run has made.
Stamped(n) ==
    \/ wrote'[n] = now + 1
    \/ /\ wrote'[n] = wrote[n]
       /\ \/ ts'[n] = ts[n] /\ memoTs'[n][obj'[n]] = memoTs[n][obj[n]]
          \/ memoTs'[n][obj'[n]] # 0

\* A record stays right as long as what is updated in place is marked so, and a
\* variable that gets another object gets a new timestamp.
LEMMA RecordsStay ==
    ASSUME TypeOK, NEW r \in memo, RecordOK(r),
           Len(heap') \in Nat, Len(heap) <= Len(heap'),
           \A o \in 1..Len(heap) : heap'[o] = heap[o] \/ heap'[o].touched = now + 1,
           \A n \in Names : ts'[n] = now + 1 \/ (ts'[n] = ts[n] /\ obj'[n] = obj[n]),
           \A n \in Names : Stamped(n),
           \A n \in Names, o \in 1..Len(heap) : memoTs'[n][o] = memoTs[n][o],
           \A k \in 1..now : ran'[k] = ran[k]
    PROVE  RecordOK(r)'
  <1>1. /\ now \in Nat /\ r.ctr \in 1..now /\ r.out \in 1..Len(heap) /\ Len(heap) \in Nat
        /\ r.inputs \subseteq Input
    BY DEF TypeOK, now
  <1>2. heap'[r.out].touched = 0 => heap'[r.out] = heap[r.out]
    BY <1>1
  <1>3. ASSUME NEW in \in r.inputs PROVE InputOK(r, in)'
    <2>1. InputOK(r, in) /\ in \in Input
      BY <1>1 DEF RecordOK
    <2>2. /\ in.sym \in Names /\ in.inTs \in 0..MaxRuns
          /\ in.obj \in 1..Len(heap) /\ in.inTs <= r.ctr
      BY <2>1 DEF InputOK, Input
    <2>3. in.obj \in 1..Len(heap')
      BY <1>1, <2>2
    <2>4. ts'[in.sym] = in.inTs => obj'[in.sym] = in.obj
      <3>1. in.inTs # now + 1
        BY <1>1, <2>2, MemoAssumption
      <3> QED BY <2>1, <2>2, <3>1 DEF InputOK
    <2>4a. in.memTs = memoTs'[in.sym][in.obj]
      BY <2>1, <2>2 DEF InputOK
    <2>4b. wrote'[in.sym] < r.ctr
             => ts'[in.sym] = in.inTs \/ memoTs'[in.sym][obj'[in.sym]] # 0
      <3>1. ~(now + 1 < r.ctr)
        BY <1>1
      <3>2. Stamped(in.sym)
        BY <2>2
      <3> QED BY <2>1, <2>2, <3>1, <3>2 DEF InputOK, Stamped
    <2>6. ASSUME heap'[r.out].touched = 0
          PROVE  /\ \A v \in in.val : heap'[r.out].val = Compute[v]
                 /\ in.val = {} /\ heap'[in.obj].touched <= r.ctr
                      => heap'[r.out].val = Compute[heap'[in.obj].val]
      <3>1. heap'[r.out] = heap[r.out]
        BY <1>2, <2>6
      <3>2. heap'[in.obj].touched <= r.ctr => heap'[in.obj] = heap[in.obj]
        <4>1. heap'[in.obj] = heap[in.obj] \/ heap'[in.obj].touched = now + 1
          BY <2>2
        <4>2. ~(now + 1 <= r.ctr)
          BY <1>1
        <4> QED BY <4>1, <4>2
      <3> QED BY <2>1, <2>6, <3>1, <3>2 DEF InputOK
    <2> QED BY <2>1, <2>2, <2>3, <2>4, <2>4a, <2>4b, <2>6 DEF InputOK
  <1>4. memoTs'[r.content[1]][r.out] = r.ctr
    <2>1. r.content[1] \in Names
      BY MemoAssumption DEF TypeOK
    <2> QED BY <1>1, <2>1 DEF RecordOK
  <1> QED BY <1>1, <1>2, <1>3, <1>4 DEF RecordOK

\* A run that updates an object in place stamps the variables that have it, one
\* that gives a variable an object stamps the variable.
LEMMA StampsStay ==
    ASSUME TypeOK, Stamps, TypeOK', now' = now + 1,
           \A n \in Names :
              \/ ts'[n] = now + 1
              \/ /\ ts'[n] = ts[n] /\ obj'[n] = obj[n]
                 /\ obj[n] # 0 => heap'[obj[n]] = heap[obj[n]]
    PROVE  Stamps'
  <1> SUFFICES ASSUME NEW n \in Names, obj'[n] # 0
               PROVE  heap'[obj'[n]].touched <= ts'[n]
    BY DEF Stamps
  <1>1. CASE ts'[n] = now + 1
    <2> DEFINE S == [val : Values, touched : 0..now']
    <2>1. heap' \in Seq(S) /\ obj'[n] \in 0..Len(heap')
      BY DEF TypeOK
    <2> HIDE DEF S
    <2>2. heap'[obj'[n]] \in S
      <3>1. Len(heap') \in Nat
        BY <2>1
      <3>2. obj'[n] \in 1..Len(heap')
        BY <2>1, <3>1
      <3> QED BY <2>1, <3>2
    <2>3. heap'[obj'[n]].touched \in 0..(now + 1)
      BY <2>2 DEF S
    <2>4. now \in Nat
      BY DEF TypeOK, now
    <2> QED BY <1>1, <2>3, <2>4
  <1>2. CASE /\ ts'[n] = ts[n] /\ obj'[n] = obj[n]
             /\ obj[n] # 0 => heap'[obj[n]] = heap[obj[n]]
    BY <1>2 DEF Stamps
  <1> QED BY <1>1, <1>2

-----------------------------------------------------------------------------
(* Each action keeps the invariant.                                        *)

\* A run that makes no object keeps the type of the heap.
LEMMA HeapWidens ==
    ASSUME TypeOK
    PROVE  heap \in Seq([val : Values, touched : 0..(now + 1)])
  <1> DEFINE S == [val : Values, touched : 0..now]
             T == [val : Values, touched : 0..(now + 1)]
  <1>1. now \in Nat /\ heap \in Seq(S)
    BY DEF TypeOK, now
  <1>2. S \subseteq T
    BY <1>1
  <1> HIDE DEF S, T
  <1>3. heap \in Seq(T)
    BY <1>1, <1>2
  <1> QED BY <1>3 DEF T

\* The variables that count runs keep their types when a run is added.
LEMMA TimesType ==
    ASSUME TypeOK
    PROVE  /\ now \in Nat /\ Len(heap) \in Nat /\ MaxRuns \in Nat
           /\ ts \in [Names -> 0..(now + 1)] /\ wrote \in [Names -> 0..(now + 1)]
           /\ memoTs \in [Names -> [Objects -> 0..(now + 1)]]
           /\ \A r \in memo : r.ctr \in 1..(now + 1)
           /\ NotReused \in [reused : 0..(now + 1), from : SUBSET Values, verbose : BOOLEAN]
           /\ \A v \in Values : {<<v>>} \in SUBSET Seq(Values)
           /\ {<< >>} \in SUBSET Seq(Values)
  <1>1. now \in Nat /\ Len(heap) \in Nat /\ MaxRuns \in Nat
    BY MemoAssumption DEF TypeOK, now
  <1>2. 0..now \subseteq 0..(now + 1)
    BY <1>1
  <1>3. ts \in [Names -> 0..(now + 1)] /\ wrote \in [Names -> 0..(now + 1)]
    BY <1>2 DEF TypeOK
  <1>4. memoTs \in [Names -> [Objects -> 0..(now + 1)]]
    <2>1. \A n \in Names : memoTs[n] \in [Objects -> 0..(now + 1)]
      BY <1>2 DEF TypeOK
    <2> QED BY <2>1 DEF TypeOK
  <1>5. \A r \in memo : r.ctr \in 1..(now + 1)
    BY <1>1 DEF TypeOK
  <1>6. NotReused \in [reused : 0..(now + 1), from : SUBSET Values, verbose : BOOLEAN]
    BY <1>1 DEF NotReused
  <1> QED BY <1>1, <1>3, <1>4, <1>5, <1>6

\* The history of a run that reuses nothing leaves nothing to show.
LEMMA NotReusedIsRight ==
    ASSUME last' = NotReused PROVE ReuseGivesResult'
  BY DEF ReuseGivesResult, NotReused

\* An assignment of a new object: no record knows it, and the variable's timestamp
\* is new.
LEMMA RunValueInv ==
    ASSUME IInv, NEW c \in Cells, NEW n \in Given, NEW v \in Literals,
           NEW capture \in BOOLEAN, RunValue(c, n, v, capture)
    PROVE  IInv'
  <1> USE DEF IInv
  <1>1. n \in Names /\ v \in Values
    BY MemoAssumption
  <1>2. /\ now < MaxRuns /\ Make(v) /\ Assign(n, Len(heap) + 1)
        /\ Track(c, Plain, {})
        /\ IF capture THEN PrintsCaptured(c) ELSE Prints(c, <<v>>)
        /\ last' = NotReused /\ memoTs' = memoTs /\ memo' = memo
    BY DEF RunValue
  <1>3. /\ now' = now + 1 /\ \A k \in 1..now : ran'[k] = ran[k]
        /\ ran' \in Seq([cell : Cells, content : Contents \cup {Plain}])
        /\ parents' \in Seq(SUBSET Edge) /\ Len(parents') = now + 1
        /\ children' \subseteq Cells \X Cells \X Names /\ RunsRead'
    BY <1>2, PlainType, TrackFacts
  <1>4. /\ heap' \in Seq([val : Values, touched : 0..(now + 1)])
        /\ Len(heap') = Len(heap) + 1
        /\ \A o \in 1..Len(heap) : heap'[o] = heap[o]
    BY <1>1, <1>2, MakeFacts
  <1>5. /\ tee' \in SUBSET Seq(Values)
        /\ captured' \in Seq(SUBSET Seq(Values)) /\ Len(captured') = now + 1
    <2>1. CASE capture
      <3>1. tee \in SUBSET Seq(Values) /\ tee' = tee /\ HandleOutput(c, tee)
        BY <1>2, <2>1 DEF TypeOK, PrintsCaptured
      <3> QED BY <3>1, OutputFacts
    <2>2. CASE ~capture
      <3>1. tee' = {<<v>>} /\ HandleOutput(c, {<<v>>})
        BY <1>2, <2>2 DEF Prints
      <3> QED BY <1>1, <3>1, TimesType, OutputFacts
    <2> QED BY <2>1, <2>2
  <1>6. /\ obj' = [obj EXCEPT ![n] = Len(heap) + 1]
        /\ ts' = [ts EXCEPT ![n] = now + 1] /\ wrote' = [wrote EXCEPT ![n] = now + 1]
    BY <1>2 DEF Assign
  <1>7. TypeOK'
    <2>1. obj' \in [Names -> 0..Len(heap')]
      BY <1>1, <1>4, <1>6, TimesType DEF TypeOK
    <2>2. ts' \in [Names -> 0..now'] /\ wrote' \in [Names -> 0..now']
      BY <1>1, <1>3, <1>6, TimesType
    <2>3. Len(heap') <= now' /\ now' <= MaxRuns
      <3>1. Len(heap) <= now
        BY DEF TypeOK
      <3>2. now' = now + 1 /\ Len(heap') = Len(heap) + 1 /\ now < MaxRuns
        BY <1>2, <1>3, <1>4
      <3> QED BY <3>1, <3>2, TimesType
    <2>4. \A r \in memo' :
             /\ r.content \in Contents /\ r.ctr \in 1..now' /\ r.out \in 1..Len(heap')
             /\ r.inputs \subseteq Input
      <3>1. \A r \in memo : /\ r.content \in Contents /\ r.inputs \subseteq Input
                            /\ r.out \in 1..Len(heap)
        BY DEF TypeOK
      <3>2. 1..Len(heap) \subseteq 1..Len(heap')
        BY <1>4, TimesType
      <3> QED BY <1>2, <1>3, <3>1, <3>2, TimesType
    <2> QED BY <1>2, <1>3, <1>4, <1>5, <2>1, <2>2, <2>3, <2>4, TimesType DEF TypeOK
  <1>8. Records'
    <2>1. \A r \in memo : RecordOK(r)'
      <3>1. \A m \in Names : ts'[m] = now + 1 \/ (ts'[m] = ts[m] /\ obj'[m] = obj[m])
        BY <1>6 DEF TypeOK
      <3>2. Len(heap') \in Nat /\ Len(heap) <= Len(heap')
        BY <1>4, TimesType
      <3>3. \A m \in Names : Stamped(m)
        BY <1>2, <1>6 DEF Stamped, TypeOK
      <3> QED BY <1>2, <1>3, <1>4, <3>1, <3>2, <3>3, RecordsStay DEF Records
    <2> QED BY <1>2, <2>1 DEF Records
  <1>9. Stamps'
    <2>1. \A m \in Names :
             \/ ts'[m] = now + 1
             \/ /\ ts'[m] = ts[m] /\ obj'[m] = obj[m]
                /\ obj[m] # 0 => heap'[obj[m]] = heap[obj[m]]
      BY <1>4, <1>6, ObjectType DEF TypeOK
    <2> QED BY <1>3, <1>7, <2>1, StampsStay
  <1> QED BY <1>2, <1>3, <1>7, <1>8, <1>9, NotReusedIsRight

\* An assignment of an existing object.
LEMMA RunAliasInv ==
    ASSUME IInv, NEW c \in Cells, NEW n \in Given, NEW m \in Names, RunAlias(c, n, m)
    PROVE  IInv'
  <1> USE DEF IInv
  <1>1. n \in Names
    BY MemoAssumption
  <1>2. /\ now < MaxRuns /\ obj[m] # 0 /\ Assign(n, obj[m])
        /\ Track(c, Plain, Reads(c, m)) /\ tee' = {<< >>} /\ HandleOutput(c, {<< >>})
        /\ last' = NotReused /\ heap' = heap /\ memoTs' = memoTs /\ memo' = memo
    BY DEF RunAlias, Prints
  <1>3. /\ now' = now + 1 /\ \A k \in 1..now : ran'[k] = ran[k]
        /\ ran' \in Seq([cell : Cells, content : Contents \cup {Plain}])
        /\ parents' \in Seq(SUBSET Edge) /\ Len(parents') = now + 1
        /\ children' \subseteq Cells \X Cells \X Names /\ RunsRead'
    BY <1>2, PlainType, ReadsType, TrackFacts
  <1>4. captured' \in Seq(SUBSET Seq(Values)) /\ Len(captured') = now + 1
    BY <1>2, TimesType, OutputFacts
  <1>5. /\ obj' = [obj EXCEPT ![n] = obj[m]]
        /\ ts' = [ts EXCEPT ![n] = now + 1] /\ wrote' = [wrote EXCEPT ![n] = now + 1]
    BY <1>2 DEF Assign
  <1>6. TypeOK'
    <2>1. obj' \in [Names -> 0..Len(heap')]
      BY <1>1, <1>2, <1>5 DEF TypeOK
    <2>2. ts' \in [Names -> 0..now'] /\ wrote' \in [Names -> 0..now']
      BY <1>1, <1>3, <1>5, TimesType
    <2>3. Len(heap') <= now' /\ now' <= MaxRuns
      <3>1. Len(heap) <= now
        BY DEF TypeOK
      <3>2. now' = now + 1 /\ heap' = heap /\ now < MaxRuns
        BY <1>2, <1>3
      <3> QED BY <3>1, <3>2, TimesType
    <2>4. heap' \in Seq([val : Values, touched : 0..now'])
      BY <1>2, <1>3, HeapWidens
    <2>5. \A r \in memo' :
             /\ r.content \in Contents /\ r.ctr \in 1..now' /\ r.out \in 1..Len(heap')
             /\ r.inputs \subseteq Input
      BY <1>2, <1>3, TimesType DEF TypeOK
    <2> QED BY <1>2, <1>3, <1>4, <2>1, <2>2, <2>3, <2>4, <2>5, TimesType DEF TypeOK
  <1>7. Records'
    <2>1. \A r \in memo : RecordOK(r)'
      <3>1. \A k \in Names : ts'[k] = now + 1 \/ (ts'[k] = ts[k] /\ obj'[k] = obj[k])
        BY <1>5 DEF TypeOK
      <3>2. Len(heap') \in Nat /\ Len(heap) <= Len(heap')
        BY <1>2, TimesType
      <3>3. \A k \in Names : Stamped(k)
        BY <1>2, <1>5 DEF Stamped, TypeOK
      <3> QED BY <1>2, <1>3, <3>1, <3>2, <3>3, RecordsStay DEF Records
    <2> QED BY <1>2, <2>1 DEF Records
  <1>8. Stamps'
    <2>1. \A k \in Names :
             ts'[k] = now + 1 \/ (ts'[k] = ts[k] /\ obj'[k] = obj[k])
      BY <1>5 DEF TypeOK
    <2> QED BY <1>2, <1>3, <1>6, <2>1, StampsStay
  <1> QED BY <1>2, <1>3, <1>6, <1>7, <1>8, NotReusedIsRight

\* An update in place marks the object, which is what a record asks.
LEMMA RunUpdateInv ==
    ASSUME IInv, NEW c \in Cells, NEW n \in Names, RunUpdate(c, n)
    PROVE  IInv'
  <1> USE DEF IInv
  <1> DEFINE Touch(g) == [m \in Names |-> IF obj[m] = obj[n] THEN now + 1 ELSE g[m]]
  <1>1. /\ now < MaxRuns /\ obj[n] # 0
        /\ heap' = [heap EXCEPT ![obj[n]].val = Updated[@], ![obj[n]].touched = now + 1]
        /\ ts' = Touch(ts) /\ wrote' = Touch(wrote)
        /\ Track(c, Plain, Reads(c, n)) /\ tee' = {<< >>} /\ HandleOutput(c, {<< >>})
        /\ last' = NotReused /\ obj' = obj /\ memoTs' = memoTs /\ memo' = memo
    BY DEF RunUpdate, Prints
  <1>2. /\ now' = now + 1 /\ \A k \in 1..now : ran'[k] = ran[k]
        /\ ran' \in Seq([cell : Cells, content : Contents \cup {Plain}])
        /\ parents' \in Seq(SUBSET Edge) /\ Len(parents') = now + 1
        /\ children' \subseteq Cells \X Cells \X Names /\ RunsRead'
    BY <1>1, PlainType, ReadsType, TrackFacts
  <1>3. captured' \in Seq(SUBSET Seq(Values)) /\ Len(captured') = now + 1
    BY <1>1, TimesType, OutputFacts
  <1>4. /\ heap' \in Seq([val : Values, touched : 0..(now + 1)])
        /\ Len(heap') = Len(heap)
        /\ \A o \in 1..Len(heap) :
              /\ heap'[o] = heap[o] \/ heap'[o].touched = now + 1
              /\ o # obj[n] => heap'[o] = heap[o]
    <2> DEFINE T == [val : Values, touched : 0..(now + 1)]
               e == [heap[obj[n]] EXCEPT !.val = Updated[@], !.touched = now + 1]
    <2>1. heap \in Seq(T) /\ obj[n] \in 1..Len(heap)
      BY <1>1, HeapWidens, ObjectType
    <2>2. heap[obj[n]] \in T
      <3> HIDE DEF T
      <3> QED BY <2>1
    <2>3. e \in T /\ e.touched = now + 1
      <3>1. Updated[heap[obj[n]].val] \in Values /\ now + 1 \in 0..(now + 1)
        BY <2>2, ValueType, TimesType
      <3> QED BY <2>2, <3>1
    <2>4. heap' = [heap EXCEPT ![obj[n]] = e]
      BY <1>1, <2>1
    <2> HIDE DEF T, e
    <2>5. heap' \in Seq(T) /\ Len(heap') = Len(heap)
      BY <2>1, <2>3, <2>4
    <2>6. \A o \in 1..Len(heap) : heap'[o] = IF o = obj[n] THEN e ELSE heap[o]
      BY <2>1, <2>4
    <2> QED BY <2>3, <2>5, <2>6 DEF T
  <1>5. \A m \in Names : ts'[m] = now + 1 \/ (ts'[m] = ts[m] /\ obj'[m] = obj[m])
    BY <1>1
  <1>6. TypeOK'
    <2>1. ts' \in [Names -> 0..now'] /\ wrote' \in [Names -> 0..now']
      BY <1>1, <1>2, TimesType
    <2>2. Len(heap') <= now' /\ now' <= MaxRuns
      <3>1. Len(heap) <= now
        BY DEF TypeOK
      <3>2. now' = now + 1 /\ Len(heap') = Len(heap) /\ now < MaxRuns
        BY <1>1, <1>2, <1>4
      <3> QED BY <3>1, <3>2, TimesType
    <2>3. \A r \in memo' :
             /\ r.content \in Contents /\ r.ctr \in 1..now' /\ r.out \in 1..Len(heap')
             /\ r.inputs \subseteq Input
      <3>1. \A r \in memo : /\ r.content \in Contents /\ r.inputs \subseteq Input
                            /\ r.out \in 1..Len(heap)
        BY DEF TypeOK
      <3>2. memo' = memo /\ now' = now + 1 /\ Len(heap') = Len(heap)
        BY <1>1, <1>2, <1>4
      <3> QED BY <3>1, <3>2, TimesType
    <2> QED BY <1>1, <1>2, <1>3, <1>4, <2>1, <2>2, <2>3, TimesType DEF TypeOK
  <1>7. Records'
    <2>1. \A r \in memo : RecordOK(r)'
      <3>1. Len(heap') \in Nat /\ Len(heap) <= Len(heap')
        BY <1>4, TimesType
      <3>2. \A m \in Names : Stamped(m)
        BY <1>1 DEF Stamped
      <3> QED BY <1>1, <1>2, <1>4, <1>5, <3>1, <3>2, RecordsStay DEF Records
    <2> QED BY <1>1, <2>1 DEF Records
  <1>8. Stamps'
    <2>1. \A m \in Names :
             \/ ts'[m] = now + 1
             \/ /\ ts'[m] = ts[m] /\ obj'[m] = obj[m]
                /\ obj[m] # 0 => heap'[obj[m]] = heap[obj[m]]
      <3>1. ASSUME NEW m \in Names, obj[m] # 0, obj[m] # obj[n]
            PROVE  heap'[obj[m]] = heap[obj[m]]
        BY <1>4, <3>1, ObjectType
      <3> QED BY <1>1, <3>1
    <2> QED BY <1>2, <1>6, <2>1, StampsStay
  <1> QED BY <1>1, <1>2, <1>6, <1>7, <1>8, NotReusedIsRight

\* A memoized run that raises leaves a version, its edges and no record.
LEMMA RunMemoFailsInv ==
    ASSUME IInv, NEW c \in Cells, NEW s \in Contents, RunMemoFails(c, s[1], s[2])
    PROVE  IInv'
  <1> USE DEF IInv
  <1>1. s = <<s[1], s[2]>> /\ s[1] \in Names /\ s[2] \in Names
    BY MemoAssumption
  <1>2. /\ now < MaxRuns /\ Track(c, s, Reads(c, s[2]))
        /\ tee' = {<< >>} /\ HandleOutput(c, {<< >>}) /\ last' = NotReused
        /\ heap' = heap /\ obj' = obj /\ ts' = ts /\ memoTs' = memoTs
        /\ memo' = memo /\ wrote' = wrote
    BY <1>1 DEF RunMemoFails, Prints
  <1>3. /\ now' = now + 1 /\ \A k \in 1..now : ran'[k] = ran[k]
        /\ ran' \in Seq([cell : Cells, content : Contents \cup {Plain}])
        /\ parents' \in Seq(SUBSET Edge) /\ Len(parents') = now + 1
        /\ children' \subseteq Cells \X Cells \X Names /\ RunsRead'
    BY <1>1, <1>2, ReadsType, TrackFacts
  <1>4. captured' \in Seq(SUBSET Seq(Values)) /\ Len(captured') = now + 1
    BY <1>2, TimesType, OutputFacts
  <1>5. TypeOK'
    <2>1. Len(heap') <= now' /\ now' <= MaxRuns
      <3>1. Len(heap) <= now
        BY DEF TypeOK
      <3>2. now' = now + 1 /\ heap' = heap /\ now < MaxRuns
        BY <1>2, <1>3
      <3> QED BY <3>1, <3>2, TimesType
    <2>2. heap' \in Seq([val : Values, touched : 0..now'])
      BY <1>2, <1>3, HeapWidens
    <2>3. \A r \in memo' :
             /\ r.content \in Contents /\ r.ctr \in 1..now' /\ r.out \in 1..Len(heap')
             /\ r.inputs \subseteq Input
      BY <1>2, <1>3, TimesType DEF TypeOK
    <2> QED BY <1>2, <1>3, <1>4, <2>1, <2>2, <2>3, TimesType DEF TypeOK
  <1>6. Records'
    <2>1. \A r \in memo : RecordOK(r)'
      <3>1. \A n \in Names : Stamped(n)
        BY <1>2 DEF Stamped
      <3> QED BY <1>2, <1>3, <3>1, TimesType, RecordsStay DEF Records
    <2> QED BY <1>2, <2>1 DEF Records
  <1>7. Stamps'
    BY <1>2, <1>3, <1>5, StampsStay
  <1> QED BY <1>2, <1>3, <1>5, <1>6, <1>7, NotReusedIsRight

\* The record that a run makes has the input it has read.
LEMMA RunMemoInv ==
    ASSUME IInv, NEW c \in Cells, NEW s \in Contents, RunMemo(c, s[1], s[2])
    PROVE  IInv'
  <1> USE DEF IInv
  <1> DEFINE to == s[1]
             from == s[2]
             k == now + 1
             o == Len(heap) + 1
             v == Compute[heap[obj[from]].val]
             inputs == {InputOf(n) : n \in Inputs(s, parents'[k])}
  <1>1. s = <<to, from>> /\ to \in Names /\ from \in Names
    BY MemoAssumption
  <1>2. /\ now < MaxRuns /\ obj[from] # 0
        /\ Make(v) /\ Assign(to, o)
        /\ Track(c, s, Reads(c, from))
        /\ tee' = {<<v>>} /\ HandleOutput(c, {<<v>>})
        /\ memoTs' = [memoTs EXCEPT ![to][o] = k]
        /\ memo' = memo \cup {Execution(s, k, o, captured'[k], inputs)} /\ last' = NotReused
    BY <1>1 DEF RunMemo, Prints
  <1>3. /\ obj[from] \in 1..Len(heap) /\ obj[from] \in Objects
        /\ heap[obj[from]].val \in Values
        /\ v \in Values
    BY <1>1, <1>2, ObjectType, ValueType
  <1>4. /\ now' = now + 1 /\ \A j \in 1..now : ran'[j] = ran[j]
        /\ ran'[k] = [cell |-> c, content |-> s]
        /\ ran' \in Seq([cell : Cells, content : Contents \cup {Plain}])
        /\ parents' \in Seq(SUBSET Edge) /\ Len(parents') = now + 1
        /\ children' \subseteq Cells \X Cells \X Names /\ RunsRead'
        /\ \A e \in parents'[k] : e[2] = from
    <2>1. Reads(c, from) \in SUBSET Edge /\ \A e \in Reads(c, from) : e[2] = from
      BY <1>1, ReadsType
    <2>2. \A e \in parents'[now + 1] : \E d \in Reads(c, from) : e[2] = d[2]
      BY <1>1, <1>2, <2>1, TrackFacts
    <2>3. \A e \in parents'[k] : e[2] = from
      BY <2>1, <2>2
    <2> HIDE DEF from
    <2> QED BY <1>1, <1>2, <2>1, <2>3, TrackFacts DEF from
  <1>5. /\ captured' \in Seq(SUBSET Seq(Values)) /\ Len(captured') = now + 1
        /\ captured'[k] = {<<v>>} /\ {<<v>>} \in SUBSET Seq(Values)
    BY <1>2, <1>3, TimesType, OutputFacts
  <1>6. /\ heap' \in Seq([val : Values, touched : 0..(now + 1)])
        /\ Len(heap') = o
        /\ \A j \in 1..Len(heap) : heap'[j] = heap[j]
        /\ heap'[o] = [val |-> v, touched |-> 0]
    BY <1>2, <1>3, MakeFacts
  <1>7. /\ obj' = [obj EXCEPT ![to] = o]
        /\ ts' = [ts EXCEPT ![to] = k] /\ wrote' = [wrote EXCEPT ![to] = k]
    BY <1>2 DEF Assign
  <1>8. PICK new : new = Execution(s, k, o, captured'[k], inputs)
    OBVIOUS
  <1>8a. /\ memo' = memo \cup {new}
         /\ new.content = s /\ new.ctr = k /\ new.out = o
         /\ new.shown = captured'[k] /\ new.inputs = inputs
    BY <1>2, <1>8 DEF Execution
  <1>9. \A in \in inputs : from # to /\ in = InputOf(from)
    BY <1>1, <1>4 DEF Inputs
  <1>10. InputOf(from) \in Input
    <2>1. ts[from] \in 0..MaxRuns /\ memoTs[from][obj[from]] \in 0..MaxRuns
      <3>1. ts[from] \in 0..now /\ memoTs[from][obj[from]] \in 0..now
        BY <1>1, <1>3 DEF TypeOK
      <3>2. now \in Nat /\ MaxRuns \in Nat /\ now < MaxRuns
        BY <1>2, TimesType
      <3>3. 0..now \subseteq 0..MaxRuns
        BY <3>2
      <3> QED BY <3>1, <3>3
    <2> QED BY <1>1, <1>3, <2>1 DEF InputOf, Input, Copied
  <1> HIDE DEF v, inputs
  <1>11. TypeOK'
    <2>1. obj' \in [Names -> 0..Len(heap')]
      <3>1. Len(heap) \in Nat /\ obj \in [Names -> 0..Len(heap)]
        BY TimesType DEF TypeOK
      <3>2. o \in 0..o /\ obj \in [Names -> 0..o]
        BY <3>1
      <3>3. [obj EXCEPT ![to] = o] \in [Names -> 0..o]
        BY <1>1, <3>2
      <3> QED BY <1>6, <1>7, <3>3
    <2>2. ts' \in [Names -> 0..now'] /\ wrote' \in [Names -> 0..now']
      <3>1. now' = k /\ k \in 0..k
        BY <1>4, TimesType
      <3>2. ts \in [Names -> 0..k] /\ wrote \in [Names -> 0..k]
        BY TimesType
      <3>3. [ts EXCEPT ![to] = k] \in [Names -> 0..k]
        BY <1>1, <3>1, <3>2
      <3>4. [wrote EXCEPT ![to] = k] \in [Names -> 0..k]
        BY <1>1, <3>1, <3>2
      <3> QED BY <1>7, <3>1, <3>3, <3>4
    <2>3. Len(heap') <= now' /\ now' <= MaxRuns
      <3>1. Len(heap) <= now
        BY DEF TypeOK
      <3> QED BY <1>2, <1>4, <1>6, <3>1, TimesType
    <2>4. memoTs' \in [Names -> [Objects -> 0..now']]
      <3> DEFINE g == [memoTs[to] EXCEPT ![o] = k]
      <3>1. k \in 0..k /\ memoTs[to] \in [Objects -> 0..k]
        BY <1>1, TimesType
      <3>2. g \in [Objects -> 0..k]
        BY <3>1
      <3>3. memoTs' = [memoTs EXCEPT ![to] = g]
        BY <1>2
      <3> HIDE DEF g
      <3> QED BY <1>1, <1>4, <3>2, <3>3, TimesType
    <2>5. \A r \in memo' :
             /\ r.content \in Contents /\ r.ctr \in 1..now' /\ r.out \in 1..Len(heap')
             /\ r.inputs \subseteq Input
      <3>1. \A r \in memo : /\ r.content \in Contents /\ r.inputs \subseteq Input
                            /\ r.out \in 1..Len(heap)
        BY DEF TypeOK
      <3>2. 1..Len(heap) \subseteq 1..Len(heap') /\ o \in 1..Len(heap') /\ k \in 1..now'
        BY <1>4, <1>6, TimesType
      <3>3. inputs \subseteq Input
        BY <1>9, <1>10
      <3> QED BY <1>2, <1>4, <1>8a, <3>1, <3>2, <3>3, TimesType
    <2>6. /\ tee' \in SUBSET Seq(Values)
          /\ last' \in [reused : 0..now', from : SUBSET Values, verbose : BOOLEAN]
      BY <1>2, <1>4, <1>5, TimesType
    <2> QED BY <1>4, <1>5, <1>6, <2>1, <2>2, <2>3, <2>4, <2>5, <2>6 DEF TypeOK
  <1>12. Records'
    <2>1. \A r \in memo : RecordOK(r)'
      <3>1. \A m \in Names : ts'[m] = now + 1 \/ (ts'[m] = ts[m] /\ obj'[m] = obj[m])
        BY <1>7 DEF TypeOK
      <3>2. Len(heap') \in Nat /\ Len(heap) <= Len(heap')
        BY <1>6, TimesType
      <3>3. \A m \in Names : Stamped(m)
        BY <1>1, <1>2, <1>7 DEF Stamped, TypeOK
      <3>4. \A m \in Names, j \in 1..Len(heap) : memoTs'[m][j] = memoTs[m][j]
        <4>1. ASSUME NEW m \in Names, NEW j \in 1..Len(heap)
              PROVE  memoTs'[m][j] = memoTs[m][j]
          <5>1. memoTs'[m] = IF m = to THEN [memoTs[to] EXCEPT ![o] = k] ELSE memoTs[m]
            BY <1>2 DEF TypeOK
          <5>2. j # o
            BY TimesType
          <5>3. [memoTs[to] EXCEPT ![o] = k][j] = memoTs[to][j]
            <6>1. j \in Objects /\ memoTs[to] \in [Objects -> 0..now]
              <7>1. Len(heap) <= now /\ memoTs[to] \in [Objects -> 0..now]
                BY <1>1 DEF TypeOK
              <7>2. Len(heap) \in Nat /\ now \in Nat /\ MaxRuns \in Nat /\ now < MaxRuns
                BY <1>2, TimesType
              <7> QED BY <7>1, <7>2 DEF Objects
            <6> QED BY <5>2, <6>1
          <5> QED BY <5>1, <5>3
        <4> QED BY <4>1
      <3> QED BY <1>4, <1>6, <3>1, <3>2, <3>3, <3>4, RecordsStay DEF Records
    <2>2. RecordOK(new)'
      <3>1. ASSUME NEW in \in inputs PROVE InputOK(new, in)'
        <4>1. /\ from # to /\ in.sym = from /\ in.inTs = ts[from] /\ in.obj = obj[from]
              /\ in.val \subseteq {heap[obj[from]].val}
          BY <1>9 DEF InputOf, Copied
        <4>2. obj'[from] = obj[from] /\ heap'[in.obj] = heap[obj[from]]
          BY <1>1, <1>3, <1>6, <1>7, <4>1 DEF TypeOK
        <4>3. in.obj \in 1..Len(heap')
          <5>1. Len(heap') = o /\ Len(heap) \in Nat /\ in.obj \in 1..Len(heap)
            BY <1>3, <1>6, <4>1, TimesType
          <5> QED BY <5>1
        <4>4. in.inTs <= k
          <5>1. in.inTs \in 0..now /\ now \in Nat
            BY <1>1, <4>1, TimesType DEF TypeOK
          <5> QED BY <5>1
        <4>5. heap'[o].val = v /\ \A u \in in.val : v = Compute[u]
          BY <1>6, <4>1 DEF v
        <4>6. in.memTs = memoTs'[from][in.obj] /\ ts'[from] = in.inTs
          <5>1. in.memTs = memoTs[from][obj[from]]
            BY <1>9 DEF InputOf
          <5>2. memoTs'[from] = memoTs[from] /\ ts'[from] = ts[from]
            BY <1>1, <1>2, <1>7, <4>1 DEF TypeOK
          <5> QED BY <4>1, <5>1, <5>2
        <4> QED BY <1>1, <1>8a, <4>1, <4>2, <4>3, <4>4, <4>5, <4>6 DEF InputOK, v
      <3>2. ran'[k].content = s /\ heap'[o].val = v
        BY <1>4, <1>6
      <3>3. memoTs'[to][o] = k
        <4>1. o \in Objects
          <5>1. Len(heap) <= now
            BY DEF TypeOK
          <5> QED BY <1>2, <5>1, TimesType DEF Objects
        <4> QED BY <1>1, <1>2, <4>1 DEF TypeOK
      <3> QED BY <1>5, <1>8a, <3>1, <3>2, <3>3 DEF RecordOK
    <2>3. \A r \in memo : r.ctr # k
      <3>1. now \in Nat /\ \A r \in memo : r.ctr \in 1..now
        BY TimesType DEF TypeOK
      <3> QED BY <3>1
    <2> QED BY <1>2, <1>8a, <2>1, <2>2, <2>3 DEF Records
  <1>13. Stamps'
    <2>1. \A m \in Names :
             \/ ts'[m] = now + 1
             \/ /\ ts'[m] = ts[m] /\ obj'[m] = obj[m]
                /\ obj[m] # 0 => heap'[obj[m]] = heap[obj[m]]
      BY <1>6, <1>7, ObjectType DEF TypeOK
    <2> QED BY <1>4, <1>11, <2>1, StampsStay
  <1> QED BY <1>2, <1>4, <1>11, <1>12, <1>13, NotReusedIsRight

\* What is reused is a record of the same content, whose inputs are all as they
\* were.
LEMMA ReusableApplies ==
    ASSUME IInv, NEW c \in Cells, NEW content, Reusable(c, content) # 0
    PROVE  LET r == CHOOSE x \in memo : x.ctr = Reusable(c, content)
           IN  /\ r \in Applies(content) /\ r.ctr = Reusable(c, content)
               /\ \A x \in memo : x.ctr = Reusable(c, content) => x = r
  <1> USE DEF IInv
  <1> DEFINE S == {r.ctr : r \in Applies(content)}
  <1>1. Applies(content) # {} /\ Reusable(c, content) = Min(S)
    BY DEF Reusable
  <1>2. S \in SUBSET Nat /\ S # {}
    <2>1. \A r \in Applies(content) : r.ctr \in 1..now
      BY DEF Applies, TypeOK
    <2>2. now \in Nat
      BY TimesType
    <2> QED BY <1>1, <2>1, <2>2
  <1>3. Min(S) \in S
    <2> HIDE DEF S
    <2> QED BY <1>2, MinExists
  <1>4. PICK q \in Applies(content) : q.ctr = Reusable(c, content)
    BY <1>1, <1>3
  <1>5. q \in memo /\ \A x \in memo : x.ctr = Reusable(c, content) => x = q
    BY <1>4 DEF Applies, Records
  <1> QED BY <1>4, <1>5

\* A record that answers for its content applies to it.
LEMMA AnsweredIsReusable ==
    ASSUME IInv, NEW c \in Cells, NEW s \in Contents, Reusable(c, s) = 0
    PROVE  ~Answered(c, s[1], s[2])
  <1> USE DEF IInv
  <1> SUFFICES ASSUME Answered(c, s[1], s[2]) PROVE FALSE
    OBVIOUS
  <1> DEFINE S == {r.ctr : r \in Applies(s)}
  <1>1. s = <<s[1], s[2]>>
    BY MemoAssumption
  <1>2. PICK r \in memo :
           /\ r.content = s /\ Prev(c) # 0
           /\ \A in \in r.inputs :
                 IF Recorded(in) # {}
                 THEN heap[obj[s[2]]].val \in Recorded(in) /\ Comparable(heap[obj[s[2]]].val)
                 ELSE obj[s[2]] = in.obj /\ wrote[s[2]] < r.ctr
    BY <1>1 DEF Answered
  <1>3. ASSUME NEW in \in r.inputs PROVE SameInput(in)
    <2>1. InputOK(r, in) /\ in.sym = s[2]
      BY <1>2 DEF Records, RecordOK, InputOK
    <2>2. ASSUME Recorded(in) # {} PROVE SameInput(in)
      <3> DEFINE v == heap[obj[s[2]]].val
      <3>1. v \in Recorded(in) /\ Comparable(v)
        BY <1>2, <2>2
      <3>2. v \in Values
        <4>1. in \in Input /\ heap \in Seq([val : Values, touched : 0..now])
          BY <1>2 DEF TypeOK
        <4>2. in.val \subseteq Values /\ in.obj \in 1..Len(heap)
          BY <2>1, <4>1 DEF Input, InputOK
        <4>3. heap[in.obj].val \in Values
          <5> DEFINE H == [val : Values, touched : 0..now]
          <5>1. heap \in Seq(H)
            BY <4>1
          <5> HIDE DEF H
          <5>2. heap[in.obj] \in H
            BY <4>2, <5>1
          <5> QED BY <5>2 DEF H
        <4> QED BY <3>1, <4>2, <4>3 DEF Recorded
      <3>3. Alike(v, v)
        BY <3>2, ValueType
      <3> HIDE DEF v
      <3>4. v = heap[obj[in.sym]].val
        BY <2>1 DEF v
      <3> QED BY <2>2, <3>1, <3>3, <3>4 DEF SameInput, SameValue
    <2>3. ASSUME Recorded(in) = {} PROVE SameInput(in)
      <3>1. obj[in.sym] = in.obj /\ wrote[in.sym] < r.ctr
        BY <1>2, <2>1, <2>3
      <3>2. ts[in.sym] = in.inTs \/ memoTs[in.sym][obj[in.sym]] # 0
        BY <2>1, <3>1 DEF InputOK
      <3>3. memoTs[in.sym][obj[in.sym]] = in.memTs
        BY <2>1, <3>1 DEF InputOK
      <3> QED BY <2>3, <3>1, <3>2, <3>3 DEF SameInput
    <2> QED BY <2>2, <2>3
  <1>4. r \in Applies(s)
    BY <1>2, <1>3 DEF Applies
  <1>5. Min(S) = 0
    BY <1>2, <1>4 DEF Reusable
  <1>6. S \in SUBSET Nat /\ S # {} /\ 0 \notin S
    <2>1. \A x \in Applies(s) : x.ctr \in 1..now
      BY DEF Applies, TypeOK
    <2>2. now \in Nat
      BY TimesType
    <2> QED BY <1>4, <2>1, <2>2
  <1> HIDE DEF S
  <1> QED BY <1>5, <1>6, MinExists

\* The object put back is what running the content gives for a value that the
\* present one is taken for.
LEMMA RecordGivesResult ==
    ASSUME IInv, NEW to \in Names, NEW from \in Names, NEW r \in Applies(<<to, from>>),
           NEW in \in r.inputs, in.sym = from, obj[from] # 0,
           heap[r.out].touched = 0,
           Exposed(in) => heap[in.obj].touched <= r.ctr
    PROVE  /\ to # from
           /\ \E w \in TakenFor(heap[obj[from]].val) : heap[r.out].val = Compute[w]
           /\ r.shown = {<<heap[r.out].val>>}
  <1> DEFINE v == heap[obj[from]].val
  <1>1. /\ r \in memo /\ r.content = <<to, from>> /\ SameInput(in)
        /\ RecordOK(r) /\ InputOK(r, in)
    BY DEF Applies, IInv, Records, RecordOK
  <1>2. in \in Input /\ in.val \subseteq Values /\ v \in Values /\ in.obj \in 1..Len(heap)
    <2>1. r.inputs \subseteq Input /\ TypeOK
      BY <1>1 DEF IInv, TypeOK
    <2> QED BY <1>1, <2>1, ObjectType DEF Input, InputOK
  <1>3. ASSUME in.val # {} PROVE \E w \in TakenFor(v) : heap[r.out].val = Compute[w]
    <2>1. Recorded(in) = in.val
      BY <1>3 DEF Recorded
    <2>2. PICK w \in in.val : Comparable(v) /\ Alike(v, w)
      BY <1>1, <1>3, <2>1 DEF SameInput, SameValue
    <2>3. w \in TakenFor(v)
      BY <1>2, <2>2 DEF TakenFor
    <2>4. heap[r.out].val = Compute[w]
      BY <1>1, <2>2 DEF InputOK
    <2> QED BY <2>3, <2>4
  <1>4. ASSUME in.val = {}, heap[in.obj].val.type \in ByReference
        PROVE  \E w \in TakenFor(v) : heap[r.out].val = Compute[w]
    <2> DEFINE w == heap[in.obj].val
    <2>1. Recorded(in) = {w}
      BY <1>4 DEF Recorded
    <2>2. Comparable(v) /\ Alike(v, w)
      BY <1>1, <2>1 DEF SameInput, SameValue
    <2>3. w \in Values
      <3> DEFINE S == [val : Values, touched : 0..now]
      <3>1. heap \in Seq(S)
        BY DEF IInv, TypeOK
      <3> HIDE DEF S
      <3>2. heap[in.obj] \in S
        BY <1>2, <3>1
      <3> QED BY <3>2 DEF S
    <2>4. heap[r.out].val = Compute[w]
      BY <1>1, <1>4 DEF InputOK, Exposed
    <2> QED BY <2>2, <2>3, <2>4 DEF TakenFor
  <1>5. ASSUME in.val = {}, heap[in.obj].val.type \notin ByReference
        PROVE  \E w \in TakenFor(v) : heap[r.out].val = Compute[w]
    <2>1. Recorded(in) = {}
      BY <1>5 DEF Recorded
    <2>2. obj[from] = in.obj /\ memoTs[from][in.obj] = in.memTs
      BY <1>1, <2>1 DEF SameInput, InputOK
    <2>3. heap[in.obj].touched <= r.ctr
      <3>1. CASE in.memTs # 0
        BY <1>5, <3>1 DEF Exposed
      <3>2. CASE in.memTs = 0
        <4>1. ts[from] = in.inTs
          BY <1>1, <2>1, <2>2, <3>2 DEF SameInput
        <4>2. heap[in.obj].touched <= in.inTs /\ in.inTs <= r.ctr
          BY <1>1, <2>2, <4>1 DEF InputOK, IInv, Stamps
        <4>3. heap[in.obj].touched \in Nat /\ in.inTs \in Nat /\ r.ctr \in Nat
          <5>1. TypeOK
            BY DEF IInv
          <5>2. r.ctr \in 1..now /\ in.inTs \in 0..MaxRuns /\ heap[obj[from]].touched \in 0..now
            BY <1>1, <1>2, <5>1, ObjectType DEF TypeOK, Input
          <5> QED BY <2>2, <5>2
        <4> QED BY <4>2, <4>3
      <3> QED BY <3>1, <3>2
    <2>4. heap[r.out].val = Compute[v]
      BY <1>1, <1>5, <2>2, <2>3 DEF InputOK
    <2> QED BY <2>4 DEF TakenFor
  <1>6. to # from /\ r.shown = {<<heap[r.out].val>>}
    BY <1>1 DEF InputOK, RecordOK
  <1> QED BY <1>3, <1>4, <1>5, <1>6

\* A reuse gives what the content would, and stamps what it writes.
LEMMA ReuseInv ==
    ASSUME IInv, NEW c \in Cells, NEW s \in Contents, NEW verbose \in BOOLEAN,
           Reuse(c, s[1], s[2], verbose)
    PROVE  IInv'
  <1> USE DEF IInv
  <1> DEFINE to == s[1]
             from == s[2]
  <1>1. s = <<to, from>> /\ to \in Names /\ from \in Names
    BY MemoAssumption
  <1>2. PICK ctr : ctr = Reusable(c, s)
    OBVIOUS
  <1>3. PICK r : r = CHOOSE x \in memo : x.ctr = ctr
    OBVIOUS
  <1>4. /\ now < MaxRuns /\ obj[from] # 0 /\ ctr # 0
        /\ obj' = [obj EXCEPT ![to] = r.out] /\ ts' = [ts EXCEPT ![to] = now + 1]
        /\ Track(c, s, parents[ctr]) /\ tee' = {<< >>}
        /\ HandleOutput(c, IF verbose THEN r.shown ELSE {<< >>})
        /\ last' = [reused |-> ctr, from |-> {heap[obj[from]].val}, verbose |-> verbose]
        /\ heap' = heap /\ memoTs' = memoTs /\ memo' = memo /\ wrote' = wrote
    BY <1>1, <1>2, <1>3 DEF Reuse, Restored, Shown
  <1>5. /\ r \in Applies(s) /\ r \in memo /\ r.content = s /\ r.ctr = ctr
        /\ \A x \in memo : x.ctr = ctr => x = r
    <2>1. r \in Applies(s) /\ r.ctr = ctr /\ \A x \in memo : x.ctr = ctr => x = r
      BY <1>2, <1>3, <1>4, ReusableApplies
    <2> QED BY <2>1 DEF Applies
  <1>6. ctr \in 1..now /\ r.out \in 1..Len(heap) /\ ran[ctr].content = s
        /\ r.shown \in SUBSET Seq(Values)
    BY <1>5 DEF TypeOK, Records, RecordOK
  <1>7. parents[ctr] \in SUBSET Edge /\ \A e \in parents[ctr] : e[2] = from
    BY <1>5, <1>6 DEF TypeOK, RunsRead
  <1>8. /\ now' = now + 1 /\ \A k \in 1..now : ran'[k] = ran[k]
        /\ ran'[now + 1] = [cell |-> c, content |-> s]
        /\ ran' \in Seq([cell : Cells, content : Contents \cup {Plain}])
        /\ parents' \in Seq(SUBSET Edge) /\ Len(parents') = now + 1
        /\ children' \subseteq Cells \X Cells \X Names /\ RunsRead'
        /\ \A e \in parents'[now + 1] : e[2] = from
    <2>1. \A e \in parents'[now + 1] : \E d \in parents[ctr] : e[2] = d[2]
      BY <1>4, <1>7, TrackFacts
    <2>2. \A e \in parents'[now + 1] : e[2] = from
      BY <1>7, <2>1
    <2> HIDE DEF from
    <2> QED BY <1>4, <1>7, <2>2, TrackFacts DEF from
  <1>9. /\ captured' \in Seq(SUBSET Seq(Values)) /\ Len(captured') = now + 1
        /\ verbose => captured'[now + 1] = r.shown
    <2>1. (IF verbose THEN r.shown ELSE {<< >>}) \in SUBSET Seq(Values)
      BY <1>6, TimesType
    <2> QED BY <1>4, <2>1, OutputFacts
  <1>10. heap[obj[from]].val \in Values
    BY <1>1, <1>4, ObjectType
  <1>11. TypeOK'
    <2>1. obj' \in [Names -> 0..Len(heap')]
      <3>1. r.out \in 0..Len(heap) /\ obj \in [Names -> 0..Len(heap)]
        BY <1>6, TimesType DEF TypeOK
      <3> QED BY <1>4, <3>1
    <2>2. ts' \in [Names -> 0..now'] /\ wrote' \in [Names -> 0..now']
      BY <1>1, <1>4, <1>8, TimesType
    <2>3. Len(heap') <= now' /\ now' <= MaxRuns
      <3>1. Len(heap) <= now
        BY DEF TypeOK
      <3>2. now' = now + 1 /\ heap' = heap /\ now < MaxRuns
        BY <1>4, <1>8
      <3> QED BY <3>1, <3>2, TimesType
    <2>4. heap' \in Seq([val : Values, touched : 0..now'])
      BY <1>4, <1>8, HeapWidens
    <2>5. \A x \in memo' :
             /\ x.content \in Contents /\ x.ctr \in 1..now' /\ x.out \in 1..Len(heap')
             /\ x.inputs \subseteq Input
      BY <1>4, <1>8, TimesType DEF TypeOK
    <2>6. last' \in [reused : 0..now', from : SUBSET Values, verbose : BOOLEAN]
      BY <1>4, <1>6, <1>8, <1>10, TimesType
    <2> QED BY <1>4, <1>8, <1>9, <2>1, <2>2, <2>3, <2>4, <2>5, <2>6, TimesType DEF TypeOK
  <1>12. Records'
    <2>1. \A x \in memo : RecordOK(x)'
      <3>1. \A m \in Names : ts'[m] = now + 1 \/ (ts'[m] = ts[m] /\ obj'[m] = obj[m])
        BY <1>4 DEF TypeOK
      <3>2. Len(heap') \in Nat /\ Len(heap) <= Len(heap')
        BY <1>4, TimesType
      <3>3. memoTs'[to][obj'[to]] # 0
        <4>1. memoTs[to][r.out] = ctr /\ obj'[to] = r.out
          BY <1>1, <1>4, <1>5 DEF Records, RecordOK, TypeOK
        <4> QED BY <1>4, <4>1
      <3>4. \A m \in Names : Stamped(m)
        BY <1>4, <3>3 DEF Stamped, TypeOK
      <3> QED BY <1>4, <1>8, <3>1, <3>2, <3>4, RecordsStay DEF Records
    <2> QED BY <1>4, <2>1 DEF Records
  <1>13. ReuseGivesResult'
    <2>1. Record' = r
      BY <1>4, <1>5 DEF Record
    <2>2. ran'[now'].content = s /\ \A e \in parents'[now'] : e[2] = s[2]
      BY <1>8
    <2>3. ASSUME Complete(r)', Intact(r)'
          PROVE  /\ \E v \in last'.from : \E w \in TakenFor(v) :
                       heap'[obj'[to]].val = Compute[w]
                 /\ last'.verbose => captured'[now'] = {<<heap'[obj'[to]].val>>}
      <3>1. PICK in \in r.inputs : in.sym = from
        BY <2>3, <1>5 DEF Complete
      <3>2. /\ obj'[to] = r.out /\ heap[r.out].touched = 0
            /\ Exposed(in) => heap[in.obj].touched <= r.ctr
        BY <1>1, <1>4, <2>3 DEF Intact, Exposed, TypeOK
      <3>3. /\ \E w \in TakenFor(heap[obj[from]].val) : heap[r.out].val = Compute[w]
            /\ r.shown = {<<heap[r.out].val>>}
        <4>1. r \in Applies(<<to, from>>)
          BY <1>1, <1>5
        <4> HIDE DEF to, from, IInv
        <4> QED BY <1>1, <1>4, <3>1, <3>2, <4>1, RecordGivesResult
      <3> HIDE DEF to, from
      <3> QED BY <1>4, <1>8, <1>9, <3>2, <3>3
    <2> QED BY <2>1, <2>2, <2>3 DEF ReuseGivesResult
  <1>14. Stamps'
    <2>1. \A m \in Names :
             ts'[m] = now + 1 \/ (ts'[m] = ts[m] /\ obj'[m] = obj[m])
      BY <1>4 DEF TypeOK
    <2> QED BY <1>4, <1>8, <1>11, <2>1, StampsStay
  <1> QED BY <1>8, <1>11, <1>12, <1>13, <1>14

-----------------------------------------------------------------------------
(* The theorems.                                                           *)

\* Nothing has run.
LEMMA InitInv == Init => IInv
  <1> SUFFICES ASSUME Init PROVE IInv
    OBVIOUS
  <1>1. MaxRuns \in Nat
    BY MemoAssumption
  <1>2. now = 0 /\ Len(heap) = 0 /\ Len(parents) = 0 /\ Len(captured) = 0
    BY DEF Init, now, output
  <1>3. TypeOK
    <2>1. last \in [reused : 0..now, from : SUBSET Values, verbose : BOOLEAN]
      BY <1>1, <1>2 DEF Init, NotReused
    <2> QED BY <1>1, <1>2, <2>1 DEF Init, TypeOK, output
  <1>4. RunsRead /\ Records /\ Stamps /\ ReuseGivesResult
    BY <1>2 DEF Init, RunsRead, Records, Stamps, ReuseGivesResult, NotReused
  <1> QED BY <1>3, <1>4 DEF IInv

\* Every action keeps the invariant.
LEMMA StepInv == IInv /\ [Next]_vars => IInv'
  <1> SUFFICES ASSUME IInv, [Next]_vars PROVE IInv'
    OBVIOUS
  <1>1. CASE UNCHANGED vars
    <2>1. /\ heap' = heap /\ obj' = obj /\ ts' = ts /\ memoTs' = memoTs /\ ran' = ran
          /\ parents' = parents /\ children' = children /\ memo' = memo /\ tee' = tee
          /\ captured' = captured /\ wrote' = wrote /\ last' = last /\ now' = now
      BY <1>1 DEF vars, output, now
    <2>2. TypeOK' /\ RunsRead' /\ Stamps'
      BY <2>1 DEF IInv, TypeOK, RunsRead, Stamps
    <2>3. Records'
      <3>1. \A r \in memo : RecordOK(r)' <=> RecordOK(r)
        BY <2>1 DEF RecordOK, InputOK
      <3> QED BY <2>1, <3>1 DEF IInv, Records
    <2>4. ReuseGivesResult'
      BY <2>1 DEF IInv, ReuseGivesResult, Record, Complete, Intact, Exposed
    <2> QED BY <2>2, <2>3, <2>4 DEF IInv
  <1>2. CASE Next
    <2>1. PICK c \in Cells :
             \/ \E n \in Given, v \in Literals, capture \in BOOLEAN :
                   RunValue(c, n, v, capture)
             \/ \E n \in Given, m \in Names : RunAlias(c, n, m)
             \/ \E n \in Names : RunUpdate(c, n)
             \/ \E s \in Contents :
                   \/ RunMemo(c, s[1], s[2]) \/ RunMemoFails(c, s[1], s[2])
                   \/ \E verbose \in BOOLEAN : Reuse(c, s[1], s[2], verbose)
      BY <1>2 DEF Next
    <2> QED BY <2>1, RunValueInv, RunAliasInv, RunUpdateInv, RunMemoInv,
               RunMemoFailsInv, ReuseInv
  <1> QED BY <1>1, <1>2

\* Every variable has its type, for any number of runs.
THEOREM TypeCorrect == Spec => []TypeOK
  <1>1. IInv => TypeOK
    BY DEF IInv
  <1> QED BY <1>1, InitInv, StepInv, PTL DEF Spec

\* A run that is given a recorded object, from a record that has the input, has
\* the value that running its content gives for the present input or for one that
\* the comparison takes for it, and a verbose one the output: unless the object put
\* back was updated in place, or one that the comparison knows by reference or whose
\* timestamp an update leaves alone.  The edges it takes over are for what its
\* content reads (get_memoized_counter and _get_content_for_memoized_run).
THEOREM ReuseIsRight == Spec => []ReuseGivesResult
  <1>1. IInv => ReuseGivesResult
    BY DEF IInv
  <1> QED BY <1>1, InitInv, StepInv, PTL DEF Spec

\* Memoization is not in vain: no content is computed again while a record of it
\* has the present value or, for an object that has no comparable form, is of the
\* present object, and nothing has assigned or updated the variable since (whatever
\* reuses have done to it).
THEOREM ReuseIsOffered == Spec => NoNeedlessRuns
  <1> DEFINE Spared == \A c \in Cells : \A s \in Contents :
                          Recomputed(c, s[1], s[2]) => ~Answered(c, s[1], s[2])
  <1>1. ASSUME IInv, [Next]_vars PROVE [Spared]_vars
    <2> SUFFICES ASSUME Next, NEW c \in Cells, NEW s \in Contents,
                        Recomputed(c, s[1], s[2])
                 PROVE  ~Answered(c, s[1], s[2])
      BY <1>1
    <2>1. s = <<s[1], s[2]>> /\ s # Plain
      BY MemoAssumption, PlainType
    <2>2. ran' = Append(ran, [cell |-> c, content |-> s]) /\ last'.reused = 0
      BY <2>1 DEF Recomputed
    <2>3. ASSUME NEW d \in Cells, NEW t \in Contents \cup {Plain},
                 ran' = Append(ran, [cell |-> d, content |-> t])
          PROVE  d = c /\ t = s
      <3> DEFINE T == [cell : Cells, content : Contents \cup {Plain}]
                 x == [cell |-> c, content |-> s]
                 y == [cell |-> d, content |-> t]
      <3>1. ran \in Seq(T) /\ x \in T /\ y \in T
        BY <1>1 DEF IInv, TypeOK
      <3>2. x = y
        <4>1. Append(ran, x) = Append(ran, y)
          BY <2>2, <2>3
        <4> HIDE DEF T, x, y
        <4> QED BY <3>1, <4>1, AppendFacts
      <3>3. x.cell = y.cell /\ x.content = y.content
        BY <3>2
      <3> QED BY <3>3
    <2>4. PICK d \in Cells :
             \/ \E n \in Given, v \in Literals, capture \in BOOLEAN :
                   RunValue(d, n, v, capture)
             \/ \E n \in Given, m \in Names : RunAlias(d, n, m)
             \/ \E n \in Names : RunUpdate(d, n)
             \/ \E t \in Contents :
                   \/ RunMemo(d, t[1], t[2]) \/ RunMemoFails(d, t[1], t[2])
                   \/ \E verbose \in BOOLEAN : Reuse(d, t[1], t[2], verbose)
      BY DEF Next
    <2>5. PICK t \in Contents :
             \/ RunMemo(d, t[1], t[2]) \/ RunMemoFails(d, t[1], t[2])
             \/ \E verbose \in BOOLEAN : Reuse(d, t[1], t[2], verbose)
      BY <2>1, <2>3, <2>4 DEF RunValue, RunAlias, RunUpdate, Track
    <2>6. t = <<t[1], t[2]>>
      BY MemoAssumption
    <2>7. ~\E verbose \in BOOLEAN : Reuse(d, t[1], t[2], verbose)
      BY <2>2 DEF Reuse
    <2>8. ran' = Append(ran, [cell |-> d, content |-> t]) /\ Reusable(d, t) = 0
      BY <2>5, <2>6, <2>7 DEF RunMemo, RunMemoFails, Track
    <2>9. d = c /\ t = s
      BY <2>3, <2>8
    <2> QED BY <1>1, <2>8, <2>9, AnsweredIsReusable
  <1> QED BY <1>1, InitInv, StepInv, PTL DEF Spec, NoNeedlessRuns

=============================================================================
