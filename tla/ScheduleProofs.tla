---------------------------- MODULE ScheduleProofs ----------------------------
(***************************************************************************)
(* Execution schedules: what they say (Check), and when the one that a     *)
(* widget asks for is computed (DebouncedSchedule).                        *)
(*                                                                         *)
(* Check: for any cells, symbols, notebooks, contents and settings, the    *)
(* answers of the checker from what has been recorded of the runs.  Of two *)
(* of its properties, CachedAnswersHold and ClosureReadsInOrder, nothing   *)
(* is proved here.                                                         *)
(*                                                                         *)
(* DebouncedSchedule: for any number of calls, when the main thread gets   *)
(* from Timer.start to its next assignment within the timer's wait.        *)
(***************************************************************************)
EXTENDS Check, DebouncedSchedule, FiniteSetTheorems, SequenceTheorems,
        WellFoundedInduction, TLAPS

Edge == [ctx : Contexts, child : Cells, parent : Cells, sym : Syms]

\* What a check has found.
Found(found, P, stuck, S, W, direct, new) ==
    /\ ~Liveness => found = {}
    /\ P = Directional
    /\ stuck = Stuck(found)
    /\ S = OutOfDate(P, stuck)
    /\ W = Waiting(P, S, stuck)
    /\ direct = Direct(P, S, W, found)
    /\ result = Verdict(P, S, W, direct, new)
Checked ==
    result.fresh => \E found, P, stuck, S, W, direct, new : Found(found, P, stuck, S, W, direct, new)

\* The types that the proofs need.
Typed ==
    /\ pos \in [Cells -> Nat] /\ edges \subseteq Edge
    /\ content \in [Cells -> Content] /\ ranAs \in [Cells -> Content]
    /\ ranBy \in Seq(Cells) /\ ctr \in [Cells -> 0..now] /\ ts \in [Syms -> 0..now]
    /\ writes \in [Syms -> SUBSET (1..now)]
    /\ used \in [Cells -> SUBSET Syms] /\ live \in [Cells -> SUBSET Syms]
    /\ removed \in [Cells -> SUBSET Syms] /\ modified \in [Cells -> SUBSET Syms]
    /\ linked \subseteq Cells /\ byPos \subseteq Cells

\* Counters, timestamps and writes tell of the same runs.
Runs ==
    /\ \A c \in Cells : ctr[c] # 0 => pos[c] # 0 /\ ranBy[ctr[c]] = c
    /\ \A k \in 1..now : k <= ctr[ranBy[k]]
    /\ \A s \in Syms : ts[s] # 0 => ts[s] \in writes[s]
    /\ \A s \in Syms : \A k \in writes[s] : k <= ts[s]
    /\ \A s, t \in Syms : \A k \in writes[s] : k \in writes[t] => s = t

\* Was s written before c ran, and does c read it?  By which run at last?
Before(c, s) == {k \in writes[s] : k < ctr[c]}
HasRead(c, s) == ctr[c] # 0 /\ s \in ranAs[c].reads /\ Before(c, s) # {}
IsLast(k, c, s) == k \in Before(c, s) /\ \A j \in Before(c, s) : j <= k

\* What a cell has read it is known to use, and is linked to who wrote it.
Uses == \A c \in Cells : \A s \in Syms : HasRead(c, s) => s \in used[c]
Origins == \A e \in edges : HasRead(e.child, e.sym) =>
               \A k \in Nat : IsLast(k, e.child, e.sym) => ranBy[k] = e.parent

\* A symbol that a cell reads and that exists is not among those it no more reads.
Reading ==
    /\ \A c \in Cells : \A s \in live[c] \cup removed[c] : writes[s] # {}
    /\ \A c \in Cells : content[c].reads \cap removed[c] = {}
    /\ \A c \in Cells : pos[c] = 0 => live[c] = {} /\ removed[c] = {}

\* Until the notebook is edited, a run has done what its cell's content says.
AsWritten ==
    /\ \A c \in Cells : ctr[c] # 0 => ranAs[c] = content[c]
    /\ \A s \in Syms : \A k \in writes[s] :
          /\ s \in content[ranBy[k]].writes
          /\ \A t \in content[ranBy[k]].reads : writes[t] # {}
          /\ ctr[ranBy[k]] \in writes[s]
    /\ \A e \in edges : /\ e.sym \in content[e.parent].writes /\ ctr[e.parent] # 0
                        /\ e.sym \in content[e.child].reads
    /\ \A c \in linked : StaticWrites(c) \subseteq modified[c]

MadeAbove == \A c \in Present : content[c].reads \subseteq Made(c)
Joined == \A c \in Cells : \A s \in Syms :
              HasRead(c, s) => \E e \in edges : e.child = c /\ e.sym = s

\* The inductive invariant of Check: what it records, and what it has found.
Base == /\ Typed /\ Runs /\ Uses /\ Origins /\ Reading
        /\ ~edited => AsWritten
        /\ ~edited /\ OneWriter /\ MadeAbove => Joined
IInv == Base /\ Checked

-----------------------------------------------------------------------------
(* Numbers, checks and the answers to them.                                *)

\* A set of numbers with a member has a least one.
LEMMA MinExists ==
    ASSUME NEW S \in SUBSET Nat, S # {}
    PROVE  \E m \in S : \A k \in S : m <= k
  <1> DEFINE T == {0..k : k \in S}
  <1>1. T \subseteq FiniteSubsetsOf(Nat) /\ T # {}
    <2>1. \A k \in S : IsFiniteSet(0..k) /\ 0..k \in SUBSET Nat
      BY FS_Interval
    <2> QED BY <2>1 DEF FiniteSubsetsOf
  <1>2. PICK t \in T : \A u \in T : ~(<<u, t>> \in StrictSubsetOrdering(Nat))
    BY <1>1, FS_StrictSubsetOrderingWellFounded, WFMin
  <1>3. PICK m \in S : t = 0..m
    OBVIOUS
  <1>4. ASSUME NEW k \in S PROVE m <= k
    <2>1. ~(<<0..k, 0..m>> \in StrictSubsetOrdering(Nat))
      BY <1>2, <1>3
    <2>2. k < m => 0..k \subseteq 0..m /\ m \notin 0..k /\ m \in 0..m
      OBVIOUS
    <2>3. 0..k \in SUBSET Nat /\ 0..m \in SUBSET Nat
      OBVIOUS
    <2> QED BY <2>1, <2>2, <2>3 DEF StrictSubsetOrdering
  <1> QED BY <1>4

\* Induction over the numbers up to N.
LEMMA IntervalInduction ==
    ASSUME NEW N \in Nat, NEW S, 0 \in S, \A n \in Nat : n < N /\ n \in S => n + 1 \in S
    PROVE  \A n \in 0..N : n \in S
  <1> DEFINE Bad == {n \in 0..N : n \notin S}
  <1> SUFFICES ASSUME Bad # {} PROVE FALSE
    OBVIOUS
  <1>1. Bad \in SUBSET Nat
    OBVIOUS
  <1>2. PICK n \in Bad : \A k \in Bad : n <= k
    <2> HIDE DEF Bad
    <2> QED BY <1>1, MinExists
  <1>3. n \in Nat /\ n <= N /\ n # 0
    OBVIOUS
  <1>4. n - 1 \in Nat /\ n - 1 < N /\ n - 1 \in 0..N /\ ~(n <= n - 1) /\ (n - 1) + 1 = n
    BY <1>3
  <1>5. n - 1 \in S
    BY <1>2, <1>4
  <1>6. n \in S
    BY <1>4, <1>5
  <1> QED BY <1>6

\* The greatest of some numbers below n is one of them.
LEMMA MaxOfNats ==
    ASSUME NEW S \in SUBSET Nat, NEW n \in Nat, \A k \in S : k <= n, NEW j \in S
    PROVE  Max(S) \in S /\ \A k \in S : k <= Max(S)
  <1> DEFINE T == {n - k : k \in S}
  <1>1. T \in SUBSET Nat /\ T # {}
    OBVIOUS
  <1>2. PICK t \in T : \A k \in T : t <= k
    BY <1>1, MinExists
  <1>3. PICK m \in S : t = n - m
    OBVIOUS
  <1>4. \A k \in S : k <= m
    <2>1. \A k \in S : n - k \in T
      OBVIOUS
    <2> QED BY <1>2, <1>3, <2>1
  <1>5. \E x \in S : \A y \in S : x >= y
    BY <1>3, <1>4
  <1>6. Max(S) = CHOOSE x \in S : \A y \in S : x >= y
    BY DEF Max
  <1>7. Max(S) \in S /\ \A y \in S : Max(S) >= y
    BY <1>5, <1>6
  <1> QED BY <1>7

\* A check of all cells finds just that; and what it finds to be ready are cells
\* that do not wait.
LEMMA CheckAllChecks ==
    ASSUME NEW twice, NEW allowed, CheckAll(twice, allowed)
    PROVE  /\ Checked'
           /\ wasReady' \subseteq Cells /\ result'.ready \cap result'.waiting = {}
  <1>1. PICK k \in {cache}, before \in {wasReady} :
    \E a \in {Answers(k, Ordered)'}, P \in {Directional'} :
    \E stuck \in {Stuck(a.found)'} :
    \E S \in {OutOfDate(P, stuck)'} :
    \E W \in {Waiting(P, S, stuck)'} :
    \E direct \in {Direct(P, S, W, a.found)'} :
    \E new \in {IF allowed THEN NewReady(P, S, W, IF twice THEN S \ W ELSE before)'
                 ELSE {}} :
        /\ result' = Verdict(P, S, W, direct, new)'
        /\ wasReady' = S \ W /\ cache' = a.cache
    BY DEF CheckAll
  <1>2. PICK a \in {Answers(k, Ordered)'}, P \in {Directional'} :
    \E stuck \in {Stuck(a.found)'} :
    \E S \in {OutOfDate(P, stuck)'} :
    \E W \in {Waiting(P, S, stuck)'} :
    \E direct \in {Direct(P, S, W, a.found)'} :
    \E new : result' = Verdict(P, S, W, direct, new)' /\ wasReady' = S \ W
    BY <1>1
  <1>3. PICK stuck \in {Stuck(a.found)'} :
    \E S \in {OutOfDate(P, stuck)'} :
    \E W \in {Waiting(P, S, stuck)'} :
    \E direct \in {Direct(P, S, W, a.found)'} :
    \E new : result' = Verdict(P, S, W, direct, new)' /\ wasReady' = S \ W
    BY <1>2
  <1>4. PICK S \in {OutOfDate(P, stuck)'} :
    \E W \in {Waiting(P, S, stuck)'} :
    \E direct \in {Direct(P, S, W, a.found)'} :
    \E new : result' = Verdict(P, S, W, direct, new)' /\ wasReady' = S \ W
    BY <1>3
  <1>5. PICK W \in {Waiting(P, S, stuck)'} :
    \E direct \in {Direct(P, S, W, a.found)'} :
    \E new : result' = Verdict(P, S, W, direct, new)' /\ wasReady' = S \ W
    BY <1>4
  <1>6. PICK direct \in {Direct(P, S, W, a.found)'} :
    \E new : result' = Verdict(P, S, W, direct, new)' /\ wasReady' = S \ W
    BY <1>5
  <1>7. PICK new : result' = Verdict(P, S, W, direct, new)' /\ wasReady' = S \ W
    BY <1>6
  <1>8. (~Liveness => a.found = {})'
    BY DEF Answers
  <1>9. PICK found : found = a.found
    OBVIOUS
  <1>10. Found(found, P, stuck, S, W, direct, new)'
    BY <1>2, <1>3, <1>4, <1>5, <1>6, <1>7, <1>8, <1>9 DEF Found
  <1>11. S \subseteq Cells
    BY <1>4 DEF OutOfDate, Present
  <1>12. result'.ready = S \ W /\ result'.waiting = W
    BY <1>7 DEF Verdict
  <1> QED BY <1>7, <1>10, <1>11, <1>12 DEF Checked

\* What a check has found stays what it has found while nothing changes.
LEMMA Stutter == ASSUME Checked, UNCHANGED vars PROVE Checked'
  <1>1. /\ set' = set /\ content' = content /\ pos' = pos /\ byPos' = byPos
        /\ ranBy' = ranBy /\ ctr' = ctr /\ ts' = ts /\ writes' = writes /\ required' = required /\ deps' = deps /\ edges' = edges
        /\ removed' = removed /\ linked' = linked /\ modified' = modified
        /\ result' = result /\ ranAs' = ranAs
    BY DEF vars, notebook, symbols, links
  <1>2. now' = now /\ Present' = Present /\ Liveness' = Liveness
        /\ Hybrid' = Hybrid /\ LastRun' = LastRun
    BY <1>1 DEF now, Present, Liveness, Hybrid, LastRun
  <1>3. Directional' = Directional
    BY <1>1 DEF Directional, Above
  <1>4. \A found : Stuck(found)' = Stuck(found)
    BY <1>1, <1>2 DEF Stuck, Unresolved, Live
  <1>5. \A P : \A stuck : OutOfDate(P, stuck)' = OutOfDate(P, stuck)
    BY <1>1, <1>2 DEF OutOfDate, Newer, NewerParents, NewerReads, Lowest, Shadowed,
                      SymsOf, Live, PosOf
  <1>6. \A P, S, stuck : Waiting(P, S, stuck)' = Waiting(P, S, stuck)
    BY <1>2 DEF Waiting, Waiters, Least, Parents
  <1>7. \A P, S, W, found : Direct(P, S, W, found)' = Direct(P, S, W, found)
    BY <1>1, <1>2 DEF Direct, MakersOf, Parents, Kills, Above
  <1>8. \A P, S, W, direct, new : Verdict(P, S, W, direct, new)' = Verdict(P, S, W, direct, new)
    BY <1>1, <1>2 DEF Verdict, Link, Least, Filtered, StillWritten, Wrote, StaticWrites,
                      IsStaticWrite, SymsOf, Lowest, Shadowed, StaleParents, StaleBy, Writes,
                      DynamicWrites
  <1>9. \A found, P, stuck, S, W, direct, new :
          Found(found, P, stuck, S, W, direct, new)' <=> Found(found, P, stuck, S, W, direct, new)
    BY <1>1, <1>2, <1>3, <1>4, <1>5, <1>6, <1>7, <1>8 DEF Found
  <1> QED BY <1>1, <1>9 DEF Checked

-----------------------------------------------------------------------------
(* Links.                                                                  *)

\* A link that a check may make: to the cell that wrote last.
NewLink(e, u) ==
    /\ e \in Edge /\ e.parent # e.child
    /\ e.sym \in Recordable(e.child, u[e.child])
    /\ writes[e.sym] # {} /\ ctr[e.parent] = ts[e.sym]

\* One position's links are among those that a check may make.
LEMMA LinkedAlsoLinks ==
    ASSUME NEW E, NEW F, NEW u, NEW cs \in SUBSET Cells,
           \A c \in Cells : content[c].reads \subseteq Syms,
           F \subseteq E \cup {e \in Edge : NewLink(e, u)}
    PROVE  LinkedAlso(F, u, cs) \subseteq E \cup {e \in Edge : NewLink(e, u)}
  <1> SUFFICES ASSUME NEW c \in cs, NEW e \in EdgesTo(F, "static", c, Recordable(c, u[c]))
               PROVE  e \in {d \in Edge : NewLink(d, u)}
    BY DEF LinkedAlso
  <1>1. /\ e \in [ctx : {"static"}, child : {c}, parent : Cells \ {c}, sym : Recordable(c, u[c])]
        /\ writes[e.sym] # {} /\ ctr[e.parent] = ts[e.sym]
    BY DEF EdgesTo
  <1>2. Recordable(c, u[c]) \subseteq Syms
    BY DEF Recordable, Live
  <1>3. e.child = c /\ e.parent # c /\ e.sym \in Recordable(c, u[c]) /\ e \in Edge
    BY <1>1, <1>2 DEF Edge, Contexts
  <1> QED BY <1>1, <1>3 DEF NewLink

IsLinking(a, E, u, at, N) ==
    a = [i \in 0..N |-> IF i = 0 THEN E ELSE LinkedAlso(a[i - 1], u, {c \in Cells : at[c] = i})]

\* The links of the first N positions are well defined.
LEMMA LinkingExists ==
    ASSUME NEW E, NEW u, NEW at, NEW N \in Nat
    PROVE  \E a : IsLinking(a, E, u, at, N)
  <1> DEFINE Good == {k \in Nat : \E a : IsLinking(a, E, u, at, k)}
             Cs(k) == {c \in Cells : at[c] = k}
  <1>1. 0 \in Good
    <2> DEFINE a == [n \in 0..0 |-> E]
    <2>1. IsLinking(a, E, u, at, 0)
      BY DEF IsLinking
    <2> QED BY <2>1
  <1>2. ASSUME NEW k \in Nat, k \in Good PROVE k + 1 \in Good
    <2>1. PICK a : IsLinking(a, E, u, at, k)
      BY <1>2
    <2> DEFINE b == [n \in 0..(k + 1) |-> IF n = k + 1 THEN LinkedAlso(a[k], u, Cs(k + 1)) ELSE a[n]]
    <2> HIDE DEF Cs
    <2>2. \A n \in 0..(k + 1) : b[n] = IF n = 0 THEN E ELSE LinkedAlso(b[n - 1], u, Cs(n))
      <3>1. \A n \in 0..k : a[n] = IF n = 0 THEN E ELSE LinkedAlso(a[n - 1], u, Cs(n))
        BY <2>1 DEF IsLinking, Cs
      <3>2. b[k + 1] = LinkedAlso(a[k], u, Cs(k + 1)) /\ b[k] = a[k]
        OBVIOUS
      <3>3. \A n \in 0..k : b[n] = a[n] /\ (n # 0 => b[n - 1] = a[n - 1])
        OBVIOUS
      <3> HIDE DEF b
      <3> QED BY <3>1, <3>2, <3>3
    <2>3. IsLinking(b, E, u, at, k + 1)
      <3>1. b = [n \in 0..(k + 1) |-> b[n]]
        OBVIOUS
      <3> HIDE DEF b
      <3> QED BY <2>2, <3>1 DEF IsLinking, Cs
    <2> QED BY <2>3
  <1>3. \A n \in 0..N : n \in Good
    <2> HIDE DEF Good
    <2> QED BY <1>1, <1>2, IntervalInduction
  <1> QED BY <1>3

\* Linking keeps the links and adds those it may.
LEMMA LinkedLinks ==
    (\A c \in Cells : content[c].reads \subseteq Syms)
     => \A E, u, at : /\ Linked(E, u, at) \subseteq E \cup {e \in Edge : NewLink(e, u)}
                      /\ E \subseteq Linked(E, u, at)
  <1> SUFFICES ASSUME \A c \in Cells : content[c].reads \subseteq Syms, NEW E, NEW u, NEW at
               PROVE  /\ Linked(E, u, at) \subseteq E \cup {e \in Edge : NewLink(e, u)}
                      /\ E \subseteq Linked(E, u, at)
    OBVIOUS
  <1> DEFINE N == Cardinality(Cells)
             L == E \cup {e \in Edge : NewLink(e, u)}
  <1>1. N \in Nat
    BY CheckAssumption, FS_CardinalityType
  <1>2. PICK a : IsLinking(a, E, u, at, N) /\ Linked(E, u, at) = a[N]
    <2>1. Linked(E, u, at) = (CHOOSE a : IsLinking(a, E, u, at, N))[N]
      BY DEF Linked, IsLinking
    <2>2. IsLinking(CHOOSE a : IsLinking(a, E, u, at, N), E, u, at, N)
      BY <1>1, LinkingExists
    <2> QED BY <2>1, <2>2
  <1> DEFINE Good == {n \in Nat : n <= N => E \subseteq a[n] /\ a[n] \subseteq L}
  <1>3. a[0] = E /\ \A n \in 0..N : n # 0 => a[n] = LinkedAlso(a[n - 1], u, {c \in Cells : at[c] = n})
    <2> DEFINE Cs(n) == {c \in Cells : at[c] = n}
    <2>1. a = [n \in 0..N |-> IF n = 0 THEN E ELSE LinkedAlso(a[n - 1], u, Cs(n))]
      BY <1>2 DEF IsLinking
    <2> HIDE DEF Cs
    <2>2. \A n \in 0..N : a[n] = IF n = 0 THEN E ELSE LinkedAlso(a[n - 1], u, Cs(n))
      BY <2>1
    <2>3. 0 \in 0..N
      BY <1>1
    <2>4. a[0] = E
      BY <2>2, <2>3
    <2>5. \A n \in 0..N : n # 0 => a[n] = LinkedAlso(a[n - 1], u, Cs(n))
      BY <2>2
    <2> QED BY <2>4, <2>5 DEF Cs
  <1> HIDE DEF N
  <1>4. 0 \in Good
    BY <1>3
  <1>5. ASSUME NEW n \in Nat, n < N, n \in Good PROVE n + 1 \in Good
    <2>1. a[n + 1] = LinkedAlso(a[n], u, {c \in Cells : at[c] = n + 1})
      <3>1. n + 1 \in 0..N /\ n + 1 # 0 /\ (n + 1) - 1 = n
        BY <1>1, <1>5
      <3> QED BY <1>3, <3>1
    <2>2. PICK cs \in SUBSET Cells : cs = {c \in Cells : at[c] = n + 1}
      OBVIOUS
    <2>3. E \subseteq a[n] /\ a[n] \subseteq L
      BY <1>1, <1>5
    <2>4. LinkedAlso(a[n], u, cs) \subseteq L
      BY <2>3, LinkedAlsoLinks
    <2>5. a[n] \subseteq LinkedAlso(a[n], u, cs)
      BY DEF LinkedAlso
    <2> HIDE DEF L
    <2> QED BY <2>1, <2>2, <2>3, <2>4, <2>5
  <1>6. \A n \in 0..N : n \in Good
    <2> HIDE DEF Good
    <2> QED BY <1>1, <1>4, <1>5, IntervalInduction
  <1> QED BY <1>1, <1>2, <1>6

\* The same in the state that a step leads to.
LEMMA LinkedLinksNext ==
    ((\A c \in Cells : content[c].reads \subseteq Syms)
     => \A E, u, at : /\ Linked(E, u, at) \subseteq E \cup {e \in Edge : NewLink(e, u)}
                      /\ E \subseteq Linked(E, u, at))'
  BY LinkedLinks, PTL

-----------------------------------------------------------------------------
(* Runs.                                                                   *)

\* Symbols that a run gives a new value: at most one.
Written(W, c) ==
    /\ W \in SUBSET Syms /\ \A s, t \in W : s = t
    /\ W \subseteq content[c].writes /\ (W # {} => Unresolved(c) = {})
    /\ Unresolved(c) = {} => W = content[c].writes
    /\ writes' = [s \in Syms |-> IF s \in W THEN writes[s] \cup {now + 1} ELSE writes[s]]
    /\ ts' = [s \in Syms |-> IF s \in W THEN now + 1 ELSE ts[s]]

\* A content reads symbols and writes one or none.
LEMMA ContentType ==
    ASSUME NEW x \in Content
    PROVE  /\ x.reads \subseteq Syms /\ x.writes \subseteq Syms
           /\ x.writes = {} \/ \E s \in Syms : x.writes = {s}
  <1> DEFINE One == {{}} \cup {{s} : s \in Syms}
  <1>1. x \in [reads : SUBSET Syms, writes : One, sets : SUBSET Settings]
    BY DEF Content
  <1>2. x.reads \in SUBSET Syms /\ x.writes \in One
    <2> HIDE DEF One
    <2> QED BY <1>1
  <1> QED BY <1>2

\* A run gives a new value to what the cell writes, if all it reads exists.
LEMMA RunWrites ==
    ASSUME Typed, NEW c \in Cells, Run(c)
    PROVE  \E W : Written(W, c)
  <1>1. /\ Unresolved(c) = {} => IF content[c].writes = {} THEN UNCHANGED symbols
                                 ELSE \E w \in content[c].writes : Assign(w, content[c].reads)
        /\ Unresolved(c) # {} => UNCHANGED symbols
    <2> USE DEF Run
    <2>1. CASE Unresolved(c) = {}
      BY <2>1
    <2>2. CASE Unresolved(c) # {}
      BY <2>2
    <2> QED BY <2>1, <2>2
  <1>2. content[c].writes = {} \/ \E s \in Syms : content[c].writes = {s}
    <2>1. content[c] \in Content
      BY DEF Typed
    <2> QED BY <2>1, ContentType
  <1>3. writes = [s \in Syms |-> writes[s]] /\ ts = [s \in Syms |-> ts[s]]
    BY DEF Typed
  <1>4. CASE UNCHANGED symbols /\ (Unresolved(c) # {} \/ content[c].writes = {})
    <2>1. writes' = writes /\ ts' = ts
      BY <1>4 DEF symbols
    <2>2. Written({}, c)
      BY <1>3, <1>4, <2>1 DEF Written
    <2> QED BY <2>2
  <1>5. ASSUME Unresolved(c) = {}, NEW w \in content[c].writes, Assign(w, content[c].reads)
        PROVE  \E W : Written(W, c)
    <2>1. w \in Syms /\ content[c].writes = {w}
      BY <1>2
    <2>2. /\ writes' = [writes EXCEPT ![w] = @ \cup {now + 1}]
          /\ ts' = [ts EXCEPT ![w] = now + 1]
      BY <1>5 DEF Assign
    <2>3. Written({w}, c)
      BY <1>3, <1>5, <2>1, <2>2 DEF Written
    <2> QED BY <2>3
  <1> QED BY <1>1, <1>4, <1>5

\* What a run of c does to the runs, and what it leaves alone.
LEMMA RunFacts ==
    ASSUME Typed, NEW c \in Cells, Run(c)
    PROVE  /\ now \in Nat /\ now' = now + 1 /\ ranBy' \in Seq(Cells)
           /\ ranBy'[now + 1] = c /\ \A k \in 1..now : ranBy'[k] = ranBy[k] /\ ranBy[k] \in Cells
           /\ pos[c] # 0 /\ pos' = pos /\ content' = content /\ edited' = edited
           /\ linked' = linked \ {c} /\ result'.fresh = FALSE
  <1>1. now \in Nat /\ now' = now + 1 /\ ranBy' \in Seq(Cells)
        /\ ranBy'[now + 1] = c /\ \A k \in 1..now : ranBy'[k] = ranBy[k] /\ ranBy[k] \in Cells
    BY DEF Typed, Run, now
  <1>4. result'.fresh = FALSE
    BY DEF Run
  <1>5. pos[c] # 0 /\ pos' = pos /\ content' = content /\ edited' = edited /\ linked' = linked \ {c}
    BY DEF Run, Present
  <1> QED BY <1>1, <1>4, <1>5

\* What a run of c does to the cells.
LEMMA RunCells ==
    ASSUME Typed, NEW c \in Cells, Run(c)
    PROVE  /\ \A d \in Cells :
              /\ ctr'[d] = IF d = c THEN now + 1 ELSE ctr[d]
              /\ used'[d] = IF d = c THEN Live(c) ELSE used[d]
              /\ ranAs'[d] = IF d = c THEN content[c] ELSE ranAs[d]
              /\ live'[d] = IF d = c THEN {} ELSE live[d]
              /\ removed'[d] = IF d = c THEN {} ELSE removed[d]
              /\ modified'[d] = IF d = c THEN {} ELSE modified[d]
           /\ ctr' \in [Cells -> 0..now'] /\ used' \in [Cells -> SUBSET Syms]
           /\ ranAs' \in [Cells -> Content] /\ live' \in [Cells -> SUBSET Syms]
           /\ removed' \in [Cells -> SUBSET Syms] /\ modified' \in [Cells -> SUBSET Syms]
  <1>1. now \in Nat /\ now' = now + 1
    BY RunFacts
  <1>2. Live(c) \in SUBSET Syms /\ content[c] \in Content
    BY ContentType DEF Typed, Live
  <1>3. ctr' = [ctr EXCEPT ![c] = now + 1] /\ used' = [used EXCEPT ![c] = Live(c)]
        /\ ranAs' = [ranAs EXCEPT ![c] = content[c]]
        /\ live' = [live EXCEPT ![c] = {}] /\ removed' = [removed EXCEPT ![c] = {}]
        /\ modified' = [modified EXCEPT ![c] = {}]
    BY DEF Run
  <1>4. ctr \in [Cells -> 0..now] /\ used \in [Cells -> SUBSET Syms]
        /\ ranAs \in [Cells -> Content] /\ live \in [Cells -> SUBSET Syms]
        /\ removed \in [Cells -> SUBSET Syms] /\ modified \in [Cells -> SUBSET Syms]
    BY DEF Typed
  <1>5. \A d \in Cells :
              /\ ctr'[d] = IF d = c THEN now + 1 ELSE ctr[d]
              /\ used'[d] = IF d = c THEN Live(c) ELSE used[d]
              /\ ranAs'[d] = IF d = c THEN content[c] ELSE ranAs[d]
    BY <1>3, <1>4
  <1>6. \A d \in Cells :
              /\ live'[d] = IF d = c THEN {} ELSE live[d]
              /\ removed'[d] = IF d = c THEN {} ELSE removed[d]
              /\ modified'[d] = IF d = c THEN {} ELSE modified[d]
    BY <1>3, <1>4
  <1>7. ctr' \in [Cells -> 0..now'] /\ used' \in [Cells -> SUBSET Syms]
           /\ ranAs' \in [Cells -> Content]
    BY <1>1, <1>2, <1>3, <1>4
  <1>8. live' \in [Cells -> SUBSET Syms]
           /\ removed' \in [Cells -> SUBSET Syms] /\ modified' \in [Cells -> SUBSET Syms]
    BY <1>3, <1>4
  <1> QED BY <1>5, <1>6, <1>7, <1>8

\* The links after a run of c: those of other cells, and to who wrote last what
\* it reads.
LEMMA RunLinks ==
    ASSUME Typed, NEW c \in Cells, Run(c)
    PROVE  /\ \A e \in edges' : e \in edges \/ (e.child = c /\ e \in Edge)
           /\ \A e \in edges' : e.child # c => e \in edges
           /\ \A e \in edges' : e.child = c => /\ e.sym \in Live(c) /\ e.parent \in Cells \ {c}
                                               /\ ctr[e.parent] = ts[e.sym]
           /\ \A e \in edges : e.child # c => e \in edges'
           /\ \A s \in Live(c), p \in Cells \ {c} :
                 ctr[p] = ts[s] =>
                    \/ \E e \in edges' : e.child = c /\ e.sym = s
                    \/ \E e \in edges : e.parent = c /\ e.child = p
  <1> DEFINE others == {e \in edges : e.child # c}
  <1>1. PICK loaded \in SUBSET Live(c) :
            edges' = others \cup EdgesTo(others, "static", c, Live(c))
                            \cup EdgesTo(others, "dynamic", c, loaded)
    BY DEF Run
  <1>2. Live(c) \subseteq Syms /\ \A s \in Live(c) : writes[s] # {}
    BY DEF Typed, Content, Live
  <1>3. ASSUME NEW x \in Contexts, NEW S \in SUBSET Live(c), NEW e \in EdgesTo(others, x, c, S)
        PROVE  /\ e.child = c /\ e.sym \in Live(c) /\ e.parent \in Cells \ {c}
               /\ ctr[e.parent] = ts[e.sym] /\ e \in Edge
    <2>1. e \in [ctx : {x}, child : {c}, parent : Cells \ {c}, sym : S] /\ ctr[e.parent] = ts[e.sym]
      BY DEF EdgesTo
    <2> QED BY <1>2, <2>1 DEF Edge
  <1>4. "static" \in Contexts /\ "dynamic" \in Contexts
    BY DEF Contexts
  <1>5. ASSUME NEW e \in edges'
        PROVE  /\ e.child # c => e \in edges
               /\ e.child = c => /\ e.sym \in Live(c) /\ e.parent \in Cells \ {c}
                                 /\ ctr[e.parent] = ts[e.sym] /\ e \in Edge
    <2>1. CASE e \in others
      BY <2>1
    <2>2. CASE e \in EdgesTo(others, "static", c, Live(c))
      BY <1>3, <1>4, <2>2
    <2>3. CASE e \in EdgesTo(others, "dynamic", c, loaded)
      BY <1>3, <1>4, <2>3
    <2> QED BY <1>1, <2>1, <2>2, <2>3
  <1>6. ASSUME NEW s \in Live(c), NEW p \in Cells \ {c}, ctr[p] = ts[s],
               ~\E e \in edges : e.parent = c /\ e.child = p
        PROVE  \E e \in edges' : e.child = c /\ e.sym = s
    <2> DEFINE e == [ctx |-> "static", child |-> c, parent |-> p, sym |-> s]
    <2>1. e \in [ctx : {"static"}, child : {c}, parent : Cells \ {c}, sym : Live(c)]
      OBVIOUS
    <2>2. \A f \in others : f.ctx = "static" /\ f.parent = c => f.child # e.parent
      BY <1>6
    <2>3. writes[e.sym] # {} /\ ctr[e.parent] = ts[e.sym]
      BY <1>2, <1>6
    <2>4. e.child = c /\ e.sym = s
      OBVIOUS
    <2> HIDE DEF e
    <2>5. e \in EdgesTo(others, "static", c, Live(c))
      BY <2>1, <2>2, <2>3 DEF EdgesTo
    <2> QED BY <1>1, <2>4, <2>5
  <1> QED BY <1>1, <1>5, <1>6

\* What was written before a cell's run stays what it was.
LEMMA BeforeRun ==
    ASSUME Typed, NEW c \in Cells, Run(c), NEW d \in Cells, NEW s \in Syms
    PROVE  Before(d, s)' = IF d = c THEN writes[s] ELSE Before(d, s)
  <1>1. PICK W : Written(W, c)
    BY RunWrites
  <1>2. writes'[s] = IF s \in W THEN writes[s] \cup {now + 1} ELSE writes[s]
    BY <1>1 DEF Written
  <1>3. now \in Nat /\ ctr'[d] = IF d = c THEN now + 1 ELSE ctr[d]
    <2>1. now \in Nat
      BY RunFacts
    <2>2. \A x \in Cells : ctr'[x] = IF x = c THEN now + 1 ELSE ctr[x]
      BY RunCells
    <2> QED BY <2>1, <2>2
  <1>4. writes[s] \subseteq 1..now /\ ctr[d] \in 0..now
    BY DEF Typed
  <1> QED BY <1>2, <1>3, <1>4 DEF Before

\* A run keeps the types.
LEMMA RunTyped == ASSUME Typed, NEW c \in Cells, Run(c) PROVE Typed'
  <1>1. PICK W : Written(W, c)
    BY RunWrites
  <1>2. now \in Nat /\ now' = now + 1
    BY RunFacts
  <1>3. ts' \in [Syms -> 0..now'] /\ writes' \in [Syms -> SUBSET (1..now')]
    <2>1. \A s \in Syms : ts[s] \in 0..now /\ writes[s] \in SUBSET (1..now)
      BY DEF Typed
    <2>2. /\ ts' = [s \in Syms |-> IF s \in W THEN now + 1 ELSE ts[s]]
          /\ writes' = [s \in Syms |-> IF s \in W THEN writes[s] \cup {now + 1} ELSE writes[s]]
      BY <1>1 DEF Written
    <2>3. \A s \in Syms : ts'[s] \in 0..now' /\ writes'[s] \in SUBSET (1..now')
      BY <1>2, <2>1, <2>2
    <2> QED BY <2>2, <2>3
  <1>4. ctr' \in [Cells -> 0..now'] /\ ranBy' \in Seq(Cells)
    BY RunFacts, RunCells
  <1>5. /\ used' \in [Cells -> SUBSET Syms] /\ live' \in [Cells -> SUBSET Syms]
        /\ removed' \in [Cells -> SUBSET Syms] /\ modified' \in [Cells -> SUBSET Syms]
        /\ ranAs' \in [Cells -> Content]
    BY RunCells
  <1>6. linked' \subseteq Cells /\ pos' \in [Cells -> Nat] /\ content' \in [Cells -> Content]
    BY RunFacts DEF Typed
  <1>7. edges' \subseteq Edge
    <2>1. edges \subseteq Edge
      BY DEF Typed
    <2> QED BY <2>1, RunLinks
  <1>8. byPos' \subseteq Cells
    BY DEF Run, Typed, Present
  <1> QED BY <1>3, <1>4, <1>5, <1>6, <1>7, <1>8 DEF Typed

\* A run keeps counters, timestamps and writes in step.
LEMMA RunRuns == ASSUME Typed, Runs, NEW c \in Cells, Run(c) PROVE Runs'
  <1>1. PICK W : Written(W, c)
    BY RunWrites
  <1>2. /\ now \in Nat /\ now' = now + 1
        /\ ranBy'[now + 1] = c /\ \A k \in 1..now : ranBy'[k] = ranBy[k] /\ ranBy[k] \in Cells
        /\ \A d \in Cells : ctr'[d] = IF d = c THEN now + 1 ELSE ctr[d]
        /\ pos[c] # 0 /\ pos' = pos
    <2>1. /\ now \in Nat /\ now' = now + 1 /\ pos[c] # 0 /\ pos' = pos
          /\ ranBy'[now + 1] = c /\ \A k \in 1..now : ranBy'[k] = ranBy[k] /\ ranBy[k] \in Cells
      BY RunFacts
    <2>2. \A d \in Cells : ctr'[d] = IF d = c THEN now + 1 ELSE ctr[d]
      BY RunCells
    <2> QED BY <2>1, <2>2
  <1>3. /\ \A s \in Syms : ts'[s] = IF s \in W THEN now + 1 ELSE ts[s]
        /\ \A s \in Syms : writes'[s] = IF s \in W THEN writes[s] \cup {now + 1} ELSE writes[s]
        /\ \A s, t \in W : s = t
    BY <1>1 DEF Written
  <1>4. /\ \A d \in Cells : ctr[d] \in 0..now
        /\ \A s \in Syms : ts[s] \in 0..now /\ writes[s] \in SUBSET (1..now)
    BY DEF Typed
  <1>5. \A d \in Cells : ctr'[d] # 0 => pos'[d] # 0 /\ ranBy'[ctr'[d]] = d
    BY <1>2, <1>4 DEF Runs
  <1>6. \A k \in 1..now' : k <= ctr'[ranBy'[k]]
    <2>1. ASSUME NEW k \in 1..now PROVE k <= ctr'[ranBy'[k]]
      BY <1>2 DEF Runs
    <2> QED BY <1>2, <2>1
  <1>7. \A s \in Syms : ts'[s] # 0 => ts'[s] \in writes'[s]
    <2> SUFFICES ASSUME NEW s \in Syms, ts'[s] # 0 PROVE ts'[s] \in writes'[s]
      OBVIOUS
    <2>1. CASE s \in W
      BY <1>3, <2>1
    <2>2. CASE s \notin W
      <3>1. ts'[s] = ts[s] /\ writes'[s] = writes[s]
        BY <1>3, <2>2
      <3> QED BY <3>1 DEF Runs
    <2> QED BY <2>1, <2>2
  <1>8. \A s \in Syms : \A k \in writes'[s] : k <= ts'[s]
    <2>1. ASSUME NEW s \in Syms, NEW k \in writes'[s] PROVE k <= ts'[s]
      <3>1. (k = now + 1 /\ s \in W) \/ k \in writes[s]
        BY <1>3
      <3>2. CASE k \in writes[s]
        BY <1>2, <1>3, <1>4, <3>2 DEF Runs
      <3> QED BY <1>2, <1>3, <3>1, <3>2
    <2> QED BY <2>1
  <1>9. \A s, t \in Syms : \A k \in writes'[s] : k \in writes'[t] => s = t
    <2>1. ASSUME NEW s \in Syms, NEW t \in Syms, NEW k \in writes'[s], k \in writes'[t] PROVE s = t
      <3>1. ((k = now + 1 /\ s \in W) \/ k \in writes[s]) /\ ((k = now + 1 /\ t \in W) \/ k \in writes[t])
        BY <1>3, <2>1
      <3>2. now + 1 \notin writes[s] /\ now + 1 \notin writes[t]
        BY <1>2, <1>4
      <3> QED BY <1>3, <3>1, <3>2 DEF Runs
    <2> QED BY <2>1
  <1> QED BY <1>5, <1>6, <1>7, <1>8, <1>9 DEF Runs

\* A cell that has run is known to use what it has read.
LEMMA RunUses == ASSUME Typed, Uses, NEW c \in Cells, Run(c) PROVE Uses'
  <1> SUFFICES ASSUME NEW d \in Cells, NEW s \in Syms, HasRead(d, s)' PROVE s \in used'[d]
    BY DEF Uses
  <1>1. Before(d, s)' = IF d = c THEN writes[s] ELSE Before(d, s)
    BY BeforeRun
  <1>2. /\ used'[d] = IF d = c THEN Live(c) ELSE used[d]
        /\ ranAs'[d] = IF d = c THEN content[c] ELSE ranAs[d]
        /\ ctr'[d] = IF d = c THEN now + 1 ELSE ctr[d]
    BY RunCells
  <1> QED BY <1>1, <1>2 DEF Uses, HasRead, Live

\* The last writer, if there is one.
LEMMA LastWriter ==
    ASSUME Typed, Runs, NEW s \in Syms, writes[s] # {}
    PROVE  /\ ts[s] \in writes[s] /\ ts[s] \in 1..now /\ ts[s] # 0
           /\ \A k \in writes[s] : (\A j \in writes[s] : j <= k) => k = ts[s]
           /\ \A p \in Cells : ctr[p] = ts[s] => ranBy[ts[s]] = p
  <1>1. \A k \in writes[s] : k \in 1..now /\ k <= ts[s]
    BY DEF Typed, Runs
  <1>2. ts[s] \in 0..now
    BY DEF Typed
  <1>3. ts[s] # 0
    BY <1>1, <1>2
  <1>4. ts[s] \in writes[s]
    BY <1>3 DEF Runs
  <1> QED BY <1>1, <1>2, <1>3, <1>4 DEF Runs

\* A run links its cell to the cells that wrote what it reads.
LEMMA RunOrigins == ASSUME Typed, Runs, Origins, NEW c \in Cells, Run(c) PROVE Origins'
  <1> SUFFICES ASSUME NEW e \in edges', HasRead(e.child, e.sym)',
                      NEW k \in Nat, IsLast(k, e.child, e.sym)'
               PROVE  ranBy'[k] = e.parent
    BY DEF Origins
  <1>1. e \in Edge /\ e.child \in Cells /\ e.sym \in Syms /\ e.parent \in Cells
    BY RunTyped DEF Typed, Edge
  <1>2. Before(e.child, e.sym)' = IF e.child = c THEN writes[e.sym] ELSE Before(e.child, e.sym)
    BY <1>1, BeforeRun
  <1>3. k \in writes[e.sym] /\ k \in 1..now /\ ranBy'[k] = ranBy[k]
    <2>1. k \in writes[e.sym]
      BY <1>2 DEF IsLast, Before
    <2> QED BY <1>1, <2>1, RunFacts DEF Typed
  <1>4. CASE e.child = c
    <2>1. ctr[e.parent] = ts[e.sym]
      BY <1>4, RunLinks
    <2>2. k = ts[e.sym]
      BY <1>1, <1>2, <1>3, <1>4, LastWriter DEF IsLast
    <2> QED BY <1>1, <1>3, <2>1, <2>2, LastWriter
  <1>5. CASE e.child # c
    <2>1. e \in edges
      BY <1>5, RunLinks
    <2>2. HasRead(e.child, e.sym)
      BY <1>1, <1>2, <1>5, RunCells DEF HasRead
    <2>3. IsLast(k, e.child, e.sym)
      BY <1>2, <1>5 DEF IsLast
    <2> QED BY <1>3, <2>1, <2>2, <2>3 DEF Origins
  <1> QED BY <1>4, <1>5

\* A run forgets what its cell has ceased to read.
LEMMA RunReading == ASSUME Typed, Reading, NEW c \in Cells, Run(c) PROVE Reading'
  <1>1. PICK W : Written(W, c)
    BY RunWrites
  <1>2. \A s \in Syms : writes[s] # {} => writes'[s] # {}
    BY <1>1 DEF Written
  <1>3. /\ \A d \in Cells : live'[d] = (IF d = c THEN {} ELSE live[d])
        /\ \A d \in Cells : removed'[d] = (IF d = c THEN {} ELSE removed[d])
        /\ pos' = pos /\ content' = content
    <2>1. pos' = pos /\ content' = content
      BY RunFacts
    <2>2. /\ \A d \in Cells : live'[d] = (IF d = c THEN {} ELSE live[d])
          /\ \A d \in Cells : removed'[d] = (IF d = c THEN {} ELSE removed[d])
      BY RunCells
    <2> QED BY <2>1, <2>2
  <1>4. \A d \in Cells : live[d] \subseteq Syms /\ removed[d] \subseteq Syms
    BY DEF Typed
  <1> QED BY <1>2, <1>3, <1>4 DEF Reading

\* Until the notebook is edited, every run does what the contents say.
LEMMA RunAsWritten == ASSUME Typed, Runs, AsWritten, NEW c \in Cells, Run(c) PROVE AsWritten'
  <1>1. PICK W : Written(W, c)
    BY RunWrites
  <1>2. /\ now \in Nat /\ ranBy'[now + 1] = c
        /\ \A k \in 1..now : ranBy'[k] = ranBy[k] /\ ranBy[k] \in Cells
        /\ content' = content /\ linked' = linked \ {c}
    BY RunFacts
  <1>3. /\ \A d \in Cells : ctr'[d] = IF d = c THEN now + 1 ELSE ctr[d]
        /\ \A d \in Cells : ranAs'[d] = IF d = c THEN content[c] ELSE ranAs[d]
        /\ \A d \in Cells : modified'[d] = IF d = c THEN {} ELSE modified[d]
    BY RunCells
  <1>4. \A s \in Syms : writes'[s] = IF s \in W THEN writes[s] \cup {now + 1} ELSE writes[s]
    BY <1>1 DEF Written
  <1>5. /\ \A d \in Cells : ctr[d] \in 0..now /\ content[d].reads \subseteq Syms
        /\ \A s \in Syms : writes[s] \subseteq 1..now
        /\ edges \subseteq Edge /\ linked \subseteq Cells
    BY ContentType DEF Typed
  <1>6. /\ W \subseteq content[c].writes
        /\ (W # {} => Unresolved(c) = {}) /\ (Unresolved(c) = {} => W = content[c].writes)
    BY <1>1 DEF Written
  <1>7. \A d \in Cells : ctr'[d] # 0 => ranAs'[d] = content'[d]
    BY <1>2, <1>3 DEF AsWritten
  <1>8. ASSUME NEW s \in Syms, NEW k \in writes'[s]
        PROVE  /\ s \in content'[ranBy'[k]].writes
               /\ \A t \in content'[ranBy'[k]].reads : writes'[t] # {}
               /\ ctr'[ranBy'[k]] \in writes'[s]
    <2>1. CASE k \in writes[s]
      <3>1. ranBy'[k] = ranBy[k] /\ ranBy[k] \in Cells
        BY <1>2, <1>5, <2>1
      <3>2. /\ s \in content[ranBy[k]].writes
            /\ \A t \in content[ranBy[k]].reads : writes[t] # {}
            /\ ctr[ranBy[k]] \in writes[s]
        BY <2>1 DEF AsWritten
      <3>3. \A t \in content[ranBy[k]].reads : writes'[t] # {}
        BY <1>4, <1>5, <3>1, <3>2
      <3>4. ASSUME ranBy[k] = c PROVE now + 1 \in writes'[s]
        <4>1. Unresolved(c) = {}
          BY <1>5, <3>2, <3>4 DEF Unresolved, Live
        <4> QED BY <1>4, <1>6, <3>2, <3>4, <4>1
      <3>5. ctr'[ranBy[k]] \in writes'[s]
        BY <1>3, <1>4, <3>1, <3>2, <3>4
      <3> QED BY <1>2, <3>1, <3>2, <3>3, <3>5
    <2>2. CASE k \notin writes[s]
      <3>1. k = now + 1 /\ s \in W
        BY <1>4, <2>2
      <3>2. Unresolved(c) = {}
        BY <1>6, <3>1
      <3>3. \A t \in content[c].reads : writes'[t] # {}
        BY <1>4, <1>5, <3>2 DEF Unresolved, Live
      <3> QED BY <1>2, <1>3, <1>6, <3>1, <3>3
    <2> QED BY <2>1, <2>2
  <1>9. ASSUME NEW e \in edges'
        PROVE  e.sym \in content'[e.parent].writes /\ ctr'[e.parent] # 0
               /\ e.sym \in content'[e.child].reads
    <2>1. e \in Edge /\ e.parent \in Cells /\ e.sym \in Syms
      BY <1>5, RunLinks DEF Edge
    <2>2. CASE e.child # c
      <3>1. e \in edges
        BY <2>2, RunLinks
      <3> QED BY <1>2, <1>3, <2>1, <3>1 DEF AsWritten
    <2>3. CASE e.child = c
      <3>1. e.sym \in Live(c) /\ e.parent \in Cells \ {c} /\ ctr[e.parent] = ts[e.sym]
        BY <2>3, RunLinks
      <3>2. e.sym \in content[c].reads /\ writes[e.sym] # {}
        BY <3>1 DEF Live
      <3>3. ts[e.sym] \in writes[e.sym] /\ ts[e.sym] # 0 /\ ranBy[ts[e.sym]] = e.parent
        BY <2>1, <3>1, <3>2, LastWriter
      <3>4. e.sym \in content[e.parent].writes
        BY <2>1, <3>3 DEF AsWritten
      <3> QED BY <1>2, <1>3, <2>3, <3>1, <3>2, <3>3, <3>4
    <2> QED BY <2>2, <2>3
  <1>10. ASSUME NEW d \in linked', NEW s \in StaticWrites(d)' PROVE s \in modified'[d]
    <2>1. d \in Cells /\ d # c /\ d \in linked
      BY <1>2, <1>5
    <2>2. s \in Syms /\ ctr'[d] \in writes'[s] /\ IsStaticWrite(d, s)'
      BY <1>10 DEF StaticWrites, Wrote
    <2>3. ctr[d] \in writes[s] /\ IsStaticWrite(d, s)
      <3>1. ctr'[d] = ctr[d] /\ ranAs'[d] = ranAs[d] /\ ctr[d] # now + 1
        BY <1>2, <1>3, <1>5, <2>1
      <3>2. ctr[d] \in writes[s]
        BY <1>4, <2>2, <3>1
      <3> QED BY <2>2, <3>1, <3>2 DEF IsStaticWrite
    <2>4. s \in StaticWrites(d)
      BY <2>2, <2>3 DEF StaticWrites, Wrote
    <2> QED BY <1>3, <2>1, <2>4 DEF AsWritten
  <1> QED BY <1>7, <1>8, <1>9, <1>10 DEF AsWritten

\* While one cell above makes each symbol, a run finds the cell it has to be linked
\* to: that cell is up to date with what it has written, and not linked to c itself.
LEMMA RunJoined ==
    ASSUME Typed, Runs, AsWritten, Joined, OneWriter, MadeAbove, NEW c \in Cells, Run(c)
    PROVE  Joined'
  <1> SUFFICES ASSUME NEW d \in Cells, NEW s \in Syms, HasRead(d, s)'
               PROVE  \E e \in edges' : e.child = d /\ e.sym = s
    BY DEF Joined
  <1>1. Before(d, s)' = IF d = c THEN writes[s] ELSE Before(d, s)
    BY BeforeRun
  <1>2. /\ ranAs'[d] = IF d = c THEN content[c] ELSE ranAs[d]
        /\ ctr'[d] = IF d = c THEN now + 1 ELSE ctr[d]
    BY RunCells
  <1>3. CASE d # c
    <2>1. HasRead(d, s)
      BY <1>1, <1>2, <1>3 DEF HasRead
    <2>2. PICK e \in edges : e.child = d /\ e.sym = s
      BY <2>1 DEF Joined
    <2> QED BY <1>3, <2>2, RunLinks
  <1>4. CASE d = c
    <2> DEFINE p == ranBy[ts[s]]
    <2>1. s \in content[c].reads /\ writes[s] # {} /\ s \in Live(c)
      BY <1>1, <1>2, <1>4 DEF HasRead, Live
    <2>2. ts[s] \in writes[s] /\ ts[s] \in 1..now
      BY <2>1, LastWriter
    <2>3. p \in Cells /\ pos[c] # 0
      BY <2>2, RunFacts
    <2>4. s \in content[p].writes /\ ctr[p] \in writes[s]
      BY <2>2 DEF AsWritten
    <2>5. ctr[p] = ts[s]
      <3>1. ctr[p] <= ts[s] /\ ts[s] <= ctr[p]
        BY <2>2, <2>4 DEF Runs
      <3>2. ctr[p] \in Nat /\ ts[s] \in Nat
        BY <2>2, <2>3 DEF Typed
      <3> QED BY <3>1, <3>2
    <2>6. p \in Present /\ c \in Present
      BY <2>2, <2>3, <2>5 DEF Runs, Present
    <2> HIDE DEF p
    <2>7. \A x \in Present : \A q \in Present : \A r \in Syms :
             r \in content[x].reads /\ r \in content[q].writes => pos[q] < pos[x]
      <3>1. ASSUME NEW x \in Present, NEW q \in Present, NEW r \in content[x].reads, r \in content[q].writes
            PROVE  pos[q] < pos[x]
        <4>1. PICK y \in Present : pos[y] < pos[x] /\ r \in content[y].writes
          BY DEF MadeAbove, Made
        <4>2. y = q
          BY <3>1, <4>1 DEF OneWriter
        <4> QED BY <4>1, <4>2
      <3> QED BY <3>1
    <2>8. pos[p] < pos[c] /\ pos[p] \in Nat /\ pos[c] \in Nat
      BY <2>1, <2>3, <2>4, <2>6, <2>7 DEF Typed
    <2>9. ~\E e \in edges : e.parent = c /\ e.child = p
      <3>1. ASSUME NEW e \in edges, e.parent = c, e.child = p PROVE FALSE
        <4>1. e.sym \in content[c].writes /\ e.sym \in content[p].reads /\ e.sym \in Syms
          BY <3>1 DEF AsWritten, Typed, Edge
        <4>2. pos[c] < pos[p]
          BY <2>6, <2>7, <4>1
        <4> QED BY <2>8, <4>2
      <3> QED BY <3>1
    <2>10. p \in Cells \ {c}
      BY <2>3, <2>8
    <2>11. \E e \in edges' : e.child = c /\ e.sym = s
      BY <2>1, <2>5, <2>9, <2>10, RunLinks
    <2> QED BY <1>4, <2>11
  <1> QED BY <1>3, <1>4

-----------------------------------------------------------------------------
(* Requests of the frontend.                                               *)

\* What all requests have in common: nothing runs, and cells may be linked.
Request ==
    /\ ranBy' = ranBy /\ ctr' = ctr /\ writes' = writes /\ ts' = ts /\ ranAs' = ranAs
    /\ content' \in [Cells -> Content] /\ pos' \in [Cells -> Nat] /\ byPos' \subseteq Cells
    /\ \A c \in Cells : pos[c] # 0 => pos'[c] # 0
    /\ Relink \/ (UNCHANGED links /\ content' = content)
    /\ edited' = TRUE \/ (edited' = edited /\ content' = content /\ pos' = pos)

\* A link that a request adds is to the cell that wrote last a symbol that the
\* child reads, and, except for the cell run last, was not known to use.
Added(e) ==
    /\ e \in Edge /\ e.parent # e.child
    /\ writes[e.sym] # {} /\ ctr[e.parent] = ts[e.sym] /\ e.sym \in content'[e.child].reads
    /\ ctr[e.child] \in {0, now} \/ e.sym \notin used[e.child]

\* A request adds only such links, and keeps the others.
LEMMA RequestLinks ==
    ASSUME Typed, Request
    PROVE  edges \subseteq edges' /\ \A e \in edges' : e \in edges \/ Added(e)
  <1>1. CASE UNCHANGED links
    BY <1>1 DEF links
  <1>2. CASE Relink
    <2>1. PICK E \in {edges}, u \in {used}, at \in {pos} : edges' = Linked(E, u, at)'
      BY <1>2 DEF Relink
    <2>2. (\A c \in Cells : content[c].reads \subseteq Syms)'
      BY ContentType DEF Request
    <2>3. /\ Linked(E, u, at)' \subseteq E \cup {e \in Edge : NewLink(e, u)'}
          /\ E \subseteq Linked(E, u, at)'
      BY <2>2, LinkedLinksNext
    <2>4. ASSUME NEW e \in Edge, NewLink(e, u)' PROVE Added(e)
      <3>1. writes' = writes /\ ctr' = ctr /\ ts' = ts /\ now' = now
        BY DEF Request, now
      <3>2. e.sym \in Recordable(e.child, u[e.child])'
        BY <2>4 DEF NewLink
      <3>3. e.sym \in content'[e.child].reads /\ (ctr[e.child] \in {0, now} \/ e.sym \notin used[e.child])
        BY <3>1, <3>2 DEF Recordable, Live
      <3> QED BY <2>4, <3>1, <3>3 DEF NewLink, Added
    <2> QED BY <2>1, <2>3, <2>4
  <1> QED BY <1>1, <1>2 DEF Request

\* The symbols that were live in a cell, and are no more, after a request.
Kept(c) == /\ live'[c] = live[c] /\ removed'[c] = removed[c]
           /\ pos[c] = 0 \/ content' = content
Renewed(c) == /\ live'[c] = {s \in content'[c].reads : writes[s] # {}}
              /\ removed'[c] = (removed[c] \cup live[c]) \ live'[c]
              /\ pos[c] # 0

\* The other links of a cell after a request.
LEMMA RequestCells ==
    ASSUME Typed, Request
    PROVE  /\ \A c \in Cells : used[c] \subseteq used'[c]
           /\ \A c \in Cells : Kept(c) \/ Renewed(c)
           /\ used' \in [Cells -> SUBSET Syms] /\ live' \in [Cells -> SUBSET Syms]
           /\ removed' \in [Cells -> SUBSET Syms] /\ modified' \in [Cells -> SUBSET Syms]
           /\ linked' \subseteq Cells
  <1>1. CASE UNCHANGED links /\ content' = content
    BY <1>1 DEF links, Typed, Kept
  <1>2. CASE Relink
    <2>1. writes' = writes /\ ctr' = ctr /\ now' = now /\ \A c \in Cells : content'[c].reads \subseteq Syms
      BY ContentType DEF Request, now
    <2>2. \A c \in Cells : /\ Live(c)' = {s \in content'[c].reads : writes[s] # {}}
                           /\ Live(c)' \subseteq Syms
      BY <2>1 DEF Live
    <2>3. \A c \in Cells, known \in SUBSET Syms : Recordable(c, known)' \subseteq Syms
      BY <2>2 DEF Recordable
    <2>4. PICK u \in {used} :
             used' = [c \in Cells |-> IF c \in Present THEN u[c] \cup Recordable(c, u[c])' ELSE u[c]]
      BY <1>2 DEF Relink
    <2>5. /\ live' = [c \in Cells |-> IF c \in Present THEN Live(c)' ELSE live[c]]
          /\ removed' = [c \in Cells |-> IF c \in Present THEN (removed[c] \cup live[c]) \ live'[c]
                                         ELSE removed[c]]
          /\ linked' = Present
      BY <1>2 DEF Relink
    <2>6. /\ used \in [Cells -> SUBSET Syms] /\ live \in [Cells -> SUBSET Syms]
          /\ removed \in [Cells -> SUBSET Syms] /\ modified \in [Cells -> SUBSET Syms]
      BY DEF Typed
    <2>7. used' \in [Cells -> SUBSET Syms] /\ \A c \in Cells : used[c] \subseteq used'[c]
      BY <2>3, <2>4, <2>6
    <2>8. live' \in [Cells -> SUBSET Syms] /\ removed' \in [Cells -> SUBSET Syms]
      BY <2>2, <2>5, <2>6
    <2>9. modified' \in [Cells -> SUBSET Syms]
      <3> DEFINE more(c) == IF c \notin linked \/ seen[c] = content'[c] THEN StaticWrites(c) ELSE {}
                 kills(c) == {s \in Kills(c)' : writes[s] # {}}
      <3>1. modified' = [c \in Cells |-> IF c \notin Present THEN modified[c] ELSE kills(c) \cup more(c)]
        BY <1>2 DEF Relink
      <3>2. \A c \in Cells : kills(c) \subseteq Syms /\ more(c) \subseteq Syms
        BY ContentType DEF Request, Kills, StaticWrites, Wrote
      <3> HIDE DEF more, kills
      <3> QED BY <2>6, <3>1, <3>2
    <2>10. ASSUME NEW c \in Cells PROVE Kept(c) \/ Renewed(c)
      BY <2>2, <2>5 DEF Present, Kept, Renewed
    <2> QED BY <2>5, <2>7, <2>8, <2>9, <2>10 DEF Present
  <1> QED BY <1>1, <1>2 DEF Request

\* A request keeps the types.
LEMMA RequestTyped == ASSUME Typed, Request PROVE Typed'
  <1>1. edges' \subseteq Edge
    BY RequestLinks DEF Added, Typed
  <1>2. /\ used' \in [Cells -> SUBSET Syms] /\ live' \in [Cells -> SUBSET Syms]
        /\ removed' \in [Cells -> SUBSET Syms] /\ modified' \in [Cells -> SUBSET Syms]
        /\ linked' \subseteq Cells
    BY RequestCells
  <1>3. now' = now
    BY DEF Request, now
  <1> QED BY <1>1, <1>2, <1>3 DEF Typed, Request

\* A request leaves counters, timestamps and writes in step.
LEMMA RequestRuns == ASSUME Typed, Runs, Request PROVE Runs'
  <1>1. now' = now
    BY DEF Request, now
  <1> QED BY <1>1 DEF Runs, Request

\* A request never makes a cell use less.
LEMMA RequestUses == ASSUME Typed, Uses, Request PROVE Uses'
  <1>1. \A c \in Cells, s \in Syms : HasRead(c, s)' = HasRead(c, s)
    BY DEF HasRead, Before, Request
  <1> QED BY <1>1, RequestCells DEF Uses

\* A request links a cell for a symbol that it has read only if the cell ran last,
\* and then to the cell that it read from.
LEMMA RequestOrigins == ASSUME Typed, Runs, Uses, Origins, Request PROVE Origins'
  <1> SUFFICES ASSUME NEW e \in edges', HasRead(e.child, e.sym)',
                      NEW k \in Nat, IsLast(k, e.child, e.sym)'
               PROVE  ranBy'[k] = e.parent
    BY DEF Origins
  <1>1. HasRead(e.child, e.sym) /\ IsLast(k, e.child, e.sym) /\ ranBy' = ranBy
    BY DEF HasRead, IsLast, Before, Request
  <1>2. CASE e \in edges
    BY <1>1, <1>2 DEF Origins
  <1>3. CASE Added(e)
    <2>1. e.child \in Cells /\ e.parent \in Cells /\ e.sym \in Syms /\ e.parent # e.child
          /\ writes[e.sym] # {} /\ ctr[e.parent] = ts[e.sym]
      BY <1>3 DEF Added, Edge
    <2>2. ctr[e.child] = now /\ now # 0
      BY <1>1, <1>3, <2>1 DEF Added, Uses, HasRead
    <2>3. ts[e.sym] \in writes[e.sym] /\ ts[e.sym] \in 1..now /\ ranBy[ts[e.sym]] = e.parent
      BY <2>1, LastWriter
    <2>4. ranBy[now] = e.child
      BY <2>1, <2>2 DEF Runs
    <2>5. ts[e.sym] # now
      BY <2>1, <2>3, <2>4
    <2>6. ts[e.sym] \in Before(e.child, e.sym)
      BY <2>2, <2>3, <2>5 DEF Before, Typed, now
    <2>7. k \in writes[e.sym] /\ ts[e.sym] <= k
      BY <1>1, <2>6 DEF IsLast, Before
    <2>8. k <= ts[e.sym]
      BY <2>1, <2>7 DEF Runs
    <2> QED BY <1>1, <2>3, <2>7, <2>8
  <1> QED BY <1>2, <1>3, RequestLinks

\* A symbol that is live again is no longer among those that have ceased to be.
LEMMA RequestReading == ASSUME Typed, Reading, Request PROVE Reading'
  <1>1. writes' = writes /\ \A c \in Cells : pos'[c] = 0 => pos[c] = 0
    BY DEF Request
  <1>2. \A c \in Cells : Kept(c) \/ Renewed(c)
    BY RequestCells
  <1>3. ASSUME NEW c \in Cells
        PROVE  /\ \A s \in live'[c] \cup removed'[c] : writes'[s] # {}
               /\ content'[c].reads \cap removed'[c] = {}
               /\ pos'[c] = 0 => live'[c] = {} /\ removed'[c] = {}
    <2>1. CASE Kept(c)
      BY <1>1, <2>1 DEF Reading, Kept
    <2>2. CASE Renewed(c)
      BY <1>1, <2>2 DEF Reading, Renewed
    <2> QED BY <1>2, <2>1, <2>2
  <1> QED BY <1>3 DEF Reading

\* A request that edits nothing links cells as their contents say.
LEMMA RequestAsWritten ==
    ASSUME Typed, Runs, AsWritten, Request, content' = content PROVE AsWritten'
  <1>1. ranBy' = ranBy /\ ctr' = ctr /\ writes' = writes /\ ranAs' = ranAs
    BY DEF Request
  <1>2. edges \subseteq Edge /\ linked \subseteq Cells
    BY DEF Typed
  <1>3. ASSUME NEW e \in edges'
        PROVE  e.sym \in content[e.parent].writes /\ ctr[e.parent] # 0
               /\ e.sym \in content[e.child].reads
    <2>1. CASE e \in edges
      BY <2>1 DEF AsWritten
    <2>2. CASE Added(e)
      <3>1. /\ e.parent \in Cells /\ e.sym \in Syms /\ e.sym \in content[e.child].reads
            /\ writes[e.sym] # {} /\ ctr[e.parent] = ts[e.sym]
        BY <2>2 DEF Added, Edge
      <3>2. ts[e.sym] \in writes[e.sym] /\ ts[e.sym] # 0 /\ ranBy[ts[e.sym]] = e.parent
        BY <3>1, LastWriter
      <3> QED BY <3>1, <3>2 DEF AsWritten
    <2> QED BY <2>1, <2>2, RequestLinks
  <1>4. \A c \in Cells : StaticWrites(c)' = StaticWrites(c)
    BY <1>1 DEF StaticWrites, Wrote, IsStaticWrite
  <1>5. \A c \in linked' : StaticWrites(c) \subseteq modified'[c]
    <2>1. CASE UNCHANGED links
      BY <2>1 DEF links, AsWritten
    <2>2. CASE Relink
      <3>1. ASSUME NEW c \in linked', NEW s \in StaticWrites(c) PROVE s \in modified'[c]
        <4>1. c \in Present /\ c \in Cells
          BY <2>2, <3>1 DEF Relink, Present
        <4>2. /\ s \in Syms /\ ctr[c] \in writes[s]
              /\ s \in ranAs[c].writes /\ s \notin ranAs[c].reads
          BY <3>1 DEF StaticWrites, Wrote, IsStaticWrite
        <4>3. ctr[c] # 0
          BY <4>2 DEF Typed
        <4>4. s \in Kills(c)'
          BY <4>1, <4>2, <4>3 DEF Kills, AsWritten
        <4> DEFINE kills(d) == {t \in Kills(d)' : writes[t] # {}}
                   more(d) == IF d \notin linked \/ seen[d] = content'[d] THEN StaticWrites(d) ELSE {}
        <4>5. modified' = [d \in Cells |-> IF d \notin Present THEN modified[d] ELSE kills(d) \cup more(d)]
          BY <2>2 DEF Relink
        <4>6. s \in kills(c)
          BY <4>2, <4>4
        <4> HIDE DEF kills, more
        <4> QED BY <4>1, <4>5, <4>6
      <3> QED BY <3>1
    <2> QED BY <2>1, <2>2 DEF Request
  <1>6. linked' \subseteq Cells
    BY RequestCells
  <1> QED BY <1>1, <1>3, <1>4, <1>5, <1>6 DEF AsWritten

\* A request keeps all links.
LEMMA RequestJoined == ASSUME Typed, Joined, Request PROVE Joined'
  <1>1. \A c \in Cells, s \in Syms : HasRead(c, s)' = HasRead(c, s)
    BY DEF HasRead, Before, Request
  <1> QED BY <1>1, RequestLinks DEF Joined

\* A request keeps the invariant.
LEMMA RequestBase == ASSUME Base, Request PROVE Base'
  <1>1. Typed' /\ Runs' /\ Uses' /\ Origins' /\ Reading'
    BY RequestTyped, RequestRuns, RequestUses, RequestOrigins, RequestReading DEF Base
  <1>2. CASE edited' = TRUE
    BY <1>1, <1>2 DEF Base
  <1>3. CASE edited' = edited /\ content' = content /\ pos' = pos
    <2>1. OneWriter' = OneWriter /\ MadeAbove' = MadeAbove
      BY <1>3 DEF OneWriter, MadeAbove, Made, Present
    <2> QED BY <1>1, <1>3, <2>1, RequestAsWritten, RequestJoined DEF Base
  <1> QED BY <1>2, <1>3 DEF Request

\* A run keeps the invariant.
LEMMA RunBase == ASSUME Base, NEW c \in Cells, Run(c) PROVE Base'
  <1>1. Typed' /\ Runs' /\ Uses' /\ Origins' /\ Reading'
    BY RunTyped, RunRuns, RunUses, RunOrigins, RunReading DEF Base
  <1>2. edited' = edited /\ content' = content /\ pos' = pos
    BY RunFacts DEF Base
  <1>3. OneWriter' = OneWriter /\ MadeAbove' = MadeAbove
    BY <1>2 DEF OneWriter, MadeAbove, Made, Present
  <1> QED BY <1>1, <1>2, <1>3, RunAsWritten, RunJoined DEF Base

\* A schedule that the frontend asks for is a request.
LEMMA ScheduleRequests ==
    ASSUME Typed, NEW reactive \in BOOLEAN, Schedule(reactive) PROVE Request /\ Checked'
  <1> DEFINE again == ~reactive /\ ~(Present \subseteq linked)
  <1>1. /\ IF again THEN Relink ELSE UNCHANGED links
        /\ CheckAll(again, set.schedule # "dag_based")
    BY DEF Schedule
  <1>2. Checked'
    <2> HIDE DEF again
    <2> QED BY <1>1, CheckAllChecks
  <1>3. UNCHANGED <<set, content, pos, ranBy, ctr, symbols, runs, edits, edited, moved, ranAs>>
    BY DEF Schedule
  <1>4. Relink \/ UNCHANGED links
    BY <1>1
  <1>5. byPos' \subseteq Cells
    BY DEF Schedule, SetPositions, Positioned, Present, Typed
  <1> QED BY <1>2, <1>3, <1>4, <1>5 DEF Request, symbols, Typed

\* So is a change of the notebook.
LEMMA ChangedRequests ==
    ASSUME Typed, Changed, content' \in [Cells -> Content], pos' \in [Cells -> Nat],
           \A c \in Cells : pos[c] # 0 => pos'[c] # 0
    PROVE  Request /\ Checked'
  <1>1. Relink /\ CheckAll(FALSE, FALSE) /\ edited' = TRUE
        /\ UNCHANGED <<set, ranBy, ctr, symbols, runs, ranAs>>
    BY DEF Changed
  <1>2. Checked'
    BY <1>1, CheckAllChecks
  <1>3. byPos' \subseteq Cells
    BY DEF Changed, SetPositions, Positioned, Present, Typed
  <1> QED BY <1>1, <1>2, <1>3 DEF Request, symbols

\* Every step is a run or a request.
LEMMA NextRequests ==
    ASSUME Typed, Next PROVE (\E c \in Cells : Run(c)) \/ (Request /\ Checked')
  <1>1. ASSUME NEW c \in Cells, NEW new \in Contents, Edit(c, new) PROVE Request /\ Checked'
    <2>1. new \in Content
      BY CheckAssumption
    <2>2. Changed /\ pos' = pos /\ content' = [content EXCEPT ![c] = new]
      BY <1>1 DEF Edit
    <2>3. content' \in [Cells -> Content] /\ pos' \in [Cells -> Nat]
      BY <2>1, <2>2 DEF Typed
    <2> QED BY <2>2, <2>3, ChangedRequests
  <1>2. ASSUME NEW c \in Cells, NEW d \in Cells, Swap(c, d) PROVE Request /\ Checked'
    <2>1. Changed /\ content' = content /\ pos' = [pos EXCEPT ![c] = pos[d], ![d] = pos[c]]
          /\ pos[c] # 0 /\ pos[d] # 0
      BY <1>2 DEF Swap, Present
    <2>2. content' \in [Cells -> Content] /\ pos' \in [Cells -> Nat]
          /\ \A x \in Cells : pos[x] # 0 => pos'[x] # 0
      BY <2>1 DEF Typed
    <2> QED BY <2>1, <2>2, ChangedRequests
  <1>3. ASSUME NEW c \in Cells, NEW new \in Contents, NEW p \in 1..(Cardinality(Present) + 1),
               Insert(c, new, p)
        PROVE  Request /\ Checked'
    <2>1. new \in Content /\ p \in Nat /\ p # 0
      BY CheckAssumption
    <2>2. /\ Changed /\ content' = [content EXCEPT ![c] = new]
          /\ pos' = [d \in Cells |-> IF d = c THEN p ELSE IF pos[d] >= p THEN pos[d] + 1 ELSE pos[d]]
      BY <1>3 DEF Insert
    <2>3. content' \in [Cells -> Content]
      BY <2>1, <2>2 DEF Typed
    <2>4. pos' \in [Cells -> Nat] /\ \A x \in Cells : pos[x] # 0 => pos'[x] # 0
      BY <2>1, <2>2 DEF Typed
    <2> QED BY <2>2, <2>3, <2>4, ChangedRequests
  <1> QED BY <1>1, <1>2, <1>3, ScheduleRequests DEF Next

\* Every step keeps the invariant.
LEMMA StepInv == ASSUME Base, Checked, [Next]_vars PROVE Base' /\ Checked'
  <1>1. CASE Next
    <2>1. ASSUME NEW c \in Cells, Run(c) PROVE Base' /\ Checked'
      <3>1. result'.fresh = FALSE
        BY <2>1, RunFacts DEF Base
      <3> QED BY <2>1, <3>1, RunBase DEF Checked
    <2>2. ASSUME Request, Checked' PROVE Base' /\ Checked'
      BY <2>2, RequestBase
    <2> QED BY <1>1, <2>1, <2>2, NextRequests DEF Base
  <1>2. CASE UNCHANGED vars
    <2>1. Request
      BY <1>2 DEF vars, notebook, symbols, links, Request, Base, Typed
    <2> QED BY <1>2, <2>1, RequestBase, Stutter
  <1> QED BY <1>1, <1>2

\* The invariant holds before the first run.
LEMMA InitInv == ASSUME Init PROVE Base /\ Checked
  <1>1. PICK nb \in Notebooks :
          /\ pos = [c \in Cells |-> Max({i \in DOMAIN nb.cells : nb.cells[i][1] = c} \cup {0})]
          /\ content = [c \in Cells |-> IF pos[c] # 0 THEN nb.cells[pos[c]][2] ELSE Nothing]
    BY DEF Init
  <1>2. nb.cells \in Seq(Cells \X Content)
    BY CheckAssumption
  <1>3. Len(nb.cells) \in Nat /\ DOMAIN nb.cells = 1..Len(nb.cells)
        /\ \A i \in 1..Len(nb.cells) : nb.cells[i] \in Cells \X Content
    BY <1>2
  <1>4. ASSUME NEW c \in Cells
        PROVE  pos[c] \in Nat /\ (pos[c] # 0 => pos[c] \in 1..Len(nb.cells))
    <2>1. PICK S : S = {i \in DOMAIN nb.cells : nb.cells[i][1] = c} \cup {0}
      OBVIOUS
    <2>2. S \in SUBSET Nat /\ 0 \in S /\ \A k \in S : k <= Len(nb.cells)
      BY <1>3, <2>1
    <2>3. Max(S) \in S
      BY <1>3, <2>2, MaxOfNats
    <2>4. pos[c] = Max(S)
      BY <1>1, <2>1
    <2> QED BY <1>3, <2>1, <2>3, <2>4
  <1>5. pos \in [Cells -> Nat]
    BY <1>1, <1>4
  <1>6. Nothing \in Content
    BY DEF Nothing, Content
  <1>7. content \in [Cells -> Content]
    <2>1. \A c \in Cells : content[c] \in Content
      BY <1>1, <1>3, <1>4, <1>6
    <2> QED BY <1>1, <2>1
  <1>8. /\ ranBy = << >> /\ ctr = [c \in Cells |-> 0]
        /\ writes = [s \in Syms |-> {}] /\ ts = [s \in Syms |-> 0]
        /\ edges = {} /\ byPos = {} /\ used = [c \in Cells |-> {}] /\ live = [c \in Cells |-> {}]
        /\ removed = [c \in Cells |-> {}] /\ linked = {}
        /\ modified = [c \in Cells |-> {}]
        /\ result = NoResult /\ ranAs = [c \in Cells |-> Nothing]
    BY DEF Init
  <1>9. now = 0
    BY <1>8 DEF now
  <1>10. Typed
    BY <1>5, <1>6, <1>7, <1>8, <1>9 DEF Typed
  <1>11. Runs /\ Reading /\ AsWritten
    BY <1>8, <1>9 DEF Runs, Reading, AsWritten
  <1>12. \A c \in Cells, s \in Syms : ~HasRead(c, s)
    BY <1>8 DEF HasRead
  <1>13. Uses /\ Origins /\ Joined
    BY <1>8, <1>12 DEF Uses, Origins, Joined
  <1>14. Checked
    BY <1>8 DEF Checked, NoResult
  <1> QED BY <1>10, <1>11, <1>13, <1>14 DEF Base

\* The inductive invariant holds throughout.
LEMMA Invariance == Spec => []IInv
  <1>1. Init => IInv
    BY InitInv DEF IInv
  <1>2. IInv /\ [Next]_vars => IInv'
    BY StepInv DEF IInv
  <1> QED BY <1>1, <1>2, PTL DEF Spec

-----------------------------------------------------------------------------
(* Waiting.                                                                *)

\* The cells that wait are the least set with all cells below a waiting or stale one.
LEMMA WaitersLeast ==
    ASSUME NEW P, NEW S, NEW W
    PROVE  /\ Waiters(P, S, W) \subseteq Present
           /\ \A T \in SUBSET Present :
                 /\ W \subseteq T
                 /\ \A c \in Present : Parents(P, c) \cap (S \cup T) # {} => c \in T
                 => Waiters(P, S, W) \subseteq T
           /\ \A c \in Present : Parents(P, c) \cap (S \cup Waiters(P, S, W)) # {}
                                    => c \in Waiters(P, S, W)
  <1> DEFINE Asks(T) == W \cup {c \in Present : Parents(P, c) \cap (S \cup T) # {}}
             X == Waiters(P, S, W)
  <1>1. X = {u \in Present : \A T \in SUBSET Present : Asks(T) \subseteq T => u \in T}
    BY DEF Waiters, Least
  <1>2. X \subseteq Present /\ \A T \in SUBSET Present : Asks(T) \subseteq T => X \subseteq T
    BY <1>1
  <1>3. ASSUME NEW c \in Present, Parents(P, c) \cap (S \cup X) # {} PROVE c \in X
    <2>1. ASSUME NEW T \in SUBSET Present, Asks(T) \subseteq T PROVE c \in T
      <3>1. X \subseteq T
        BY <1>2, <2>1
      <3> HIDE DEF X
      <3>2. c \in Asks(T)
        BY <1>3, <3>1
      <3> QED BY <2>1, <3>2
    <2> QED BY <1>1, <2>1
  <1>4. ASSUME NEW T \in SUBSET Present, W \subseteq T,
               \A c \in Present : Parents(P, c) \cap (S \cup T) # {} => c \in T
        PROVE  X \subseteq T
    <2>1. Asks(T) \subseteq T
      BY <1>4
    <2> QED BY <1>2, <2>1
  <1> QED BY <1>2, <1>3, <1>4

\* In order, the parents of a cell are above it.
LEMMA ParentsAbove ==
    ASSUME Typed, NEW c \in Cells, NEW p \in Parents(Directional, c)
    PROVE  /\ p \in Cells
           /\ set.inOrder => pos[p] < pos[c]
           /\ \E e \in edges : e.child = c /\ e.parent = p /\ e \in Directional[c]
  <1>1. Directional[c] = {e \in edges : e.child = c /\ Above(e.parent, c)}
    BY DEF Directional
  <1> QED BY <1>1 DEF Parents, Above, Typed, Edge

\* The highest of the cells that wait has a parent that is out of date and does not
\* wait itself.
LEMMA SomeoneReady == ASSUME Typed, Checked PROVE SomeoneCanRun
  <1> SUFFICES ASSUME result.fresh, InOrderDag, result.waiting # {}, result.ready = {} PROVE FALSE
    BY DEF SomeoneCanRun
  <1>1. PICK found, P, stuck, S, W, direct, new : Found(found, P, stuck, S, W, direct, new)
    BY DEF Checked
  <1>2. stuck = {} /\ P = Directional /\ W = Waiters(P, S, {})
    BY <1>1 DEF Found, InOrderDag, Stuck, Waiting
  <1>3. W = result.waiting /\ S \subseteq W
    BY <1>1 DEF Found, Verdict
  <1>4. W \subseteq Present
    BY <1>2, WaitersLeast
  <1>5. PICK c \in W : \A d \in W : pos[c] <= pos[d]
    <2> DEFINE Q == {pos[d] : d \in W}
    <2>1. Q \in SUBSET Nat /\ Q # {}
      BY <1>3, <1>4 DEF Typed, Present
    <2>2. PICK m \in Q : \A k \in Q : m <= k
      <3> HIDE DEF Q
      <3> QED BY <2>1, MinExists
    <2> QED BY <2>2
  <1>6. ASSUME NEW d \in Present, Parents(P, d) \cap (S \cup (W \ {c})) # {} PROVE d \in W \ {c}
    <2>1. PICK p \in Parents(P, d) : p \in W
      BY <1>3, <1>6
    <2>2. d \in W
      BY <1>2, <2>1, WaitersLeast
    <2>3. pos[p] < pos[d] /\ p \in Cells /\ d \in Cells
      BY <1>2, <2>1, ParentsAbove DEF InOrderDag, Present
    <2>4. d # c
      BY <1>5, <2>1, <2>3 DEF Typed
    <2> QED BY <2>2, <2>4
  <1>7. W \subseteq W \ {c}
    <2>1. PICK T : T = W \ {c}
      OBVIOUS
    <2>2. T \in SUBSET Present /\ \A d \in Present : Parents(P, d) \cap (S \cup T) # {} => d \in T
      BY <1>4, <1>6, <2>1
    <2>3. Waiters(P, S, {}) \subseteq T
      BY <2>2, WaitersLeast
    <2> QED BY <1>2, <2>1, <2>3
  <1> QED BY <1>5, <1>7

\* The cells that c waits for, in order.
LEMMA MakersAre ==
    ASSUME Typed, ~Liveness, set.inOrder, NEW c \in Cells, NEW S, NEW W, NEW found
    PROVE  MakersOf(Directional, c, S, W, found) = (Parents(Directional, c) \cap (S \cup W)) \ LastRun
  <1>1. \A p \in Parents(Directional, c) : Above(p, c)
    BY ParentsAbove DEF Above
  <1> QED BY <1>1 DEF MakersOf

\* What a waiting cell is linked to is what can be reached from it.
LEMMA MakersReady == ASSUME Typed, Checked PROVE WaitersHaveMakers
  <1> SUFFICES ASSUME result.fresh, InOrderDag
               PROVE  result.makers = UNION {{w} \X (Path(Directional, w) \cap result.ready) : w \in result.waiting}
    BY DEF WaitersHaveMakers
  <1>1. PICK found, P, stuck, S, W, direct, new : Found(found, P, stuck, S, W, direct, new)
    BY DEF Checked
  <1>2. /\ P = Directional /\ direct = Direct(P, S, W, found) /\ result.waiting = W
        /\ result.ready = S \ W /\ result.makers = Link(direct, W) /\ ~Liveness /\ set.inOrder
    BY <1>1 DEF Found, Verdict, InOrderDag
  <1>3. W \subseteq Cells /\ S \subseteq Cells
    <2>1. W = Waiters(P, S, stuck) /\ S = OutOfDate(P, stuck)
      BY <1>1, <1>2 DEF Found, Waiting
    <2>2. S \subseteq Present
      BY <2>1 DEF OutOfDate
    <2>3. W \subseteq Present
      BY <2>1, WaitersLeast
    <2> QED BY <2>2, <2>3 DEF Present
  <1> DEFINE Step(c) == (Parents(P, c) \cap (S \cup W)) \ LastRun
             From(M) == {x[2] : x \in {y \in direct : y[1] \in M}}
             Linking(w) == {u \in Cells : \A T \in SUBSET Cells :
                                            From({w} \cup (T \cap W)) \ {w} \subseteq T => u \in T}
  <1>4. ASSUME NEW M \in SUBSET W PROVE From(M) = UNION {Step(c) : c \in M}
    <2>1. \A c \in W : MakersOf(P, c, S, W, found) = Step(c)
      BY <1>2, <1>3, MakersAre
    <2>2. \A x : x \in direct <=> \E c \in W : x \in {c} \X MakersOf(P, c, S, W, found)
      BY <1>2 DEF Direct
    <2>3. direct = UNION {{c} \X Step(c) : c \in W}
      BY <2>1, <2>2
    <2> HIDE DEF Step
    <2>4. \A c \in W : \A y \in Step(c) : <<c, y>> \in direct
      BY <2>3
    <2>5. \A x \in direct : \E c \in W : \E y \in Step(c) : x = <<c, y>>
      BY <2>3
    <2>6. ASSUME NEW y \in From(M) PROVE \E c \in M : y \in Step(c)
      <3>1. PICK x \in direct : x[1] \in M /\ y = x[2]
        BY <2>6
      <3>2. PICK c \in W : \E z \in Step(c) : x = <<c, z>>
        BY <2>5
      <3>3. x[1] = c /\ x[2] \in Step(c)
        BY <3>2
      <3> QED BY <3>1, <3>2, <3>3
    <2>7. ASSUME NEW c \in M, NEW y \in Step(c) PROVE y \in From(M)
      <3>1. PICK x \in direct : x = <<c, y>>
        BY <2>4
      <3>2. x[1] \in M /\ x[2] = y
        BY <3>1
      <3> QED BY <3>2
    <2> HIDE DEF From
    <2> QED BY <2>6, <2>7
  <1>5. ASSUME NEW w \in W PROVE Linking(w) \ W = Path(P, w) \cap (S \ W)
    <2> DEFINE A(T) == UNION {Step(c) : c \in {w} \cup (T \cap W)}
    <2>1. \A T : From({w} \cup (T \cap W)) = A(T)
      <3>1. \A T : {w} \cup (T \cap W) \in SUBSET W
        OBVIOUS
      <3> HIDE DEF From, Step
      <3> QED BY <1>4, <3>1
    <2>2. Linking(w) = {u \in Cells : \A T \in SUBSET Cells : A(T) \ {w} \subseteq T => u \in T}
      <3> HIDE DEF A, From
      <3>1. \A T : (From({w} \cup (T \cap W)) \ {w} \subseteq T) = (A(T) \ {w} \subseteq T)
        BY <2>1
      <3> QED BY <3>1
    <2>3. Path(P, w) = {u \in Cells : \A T \in SUBSET Cells : A(T) \subseteq T => u \in T}
      <3>1. (result.ready \cup result.waiting) \ LastRun = (S \cup W) \ LastRun
        BY <1>2
      <3>2. \A c : Parents(P, c) \cap ((result.ready \cup result.waiting) \ LastRun) = Step(c)
        BY <3>1
      <3>3. \A T : UNION {Parents(P, c) \cap ((result.ready \cup result.waiting) \ LastRun)
                            : c \in {w} \cup (T \cap result.waiting)} = A(T)
        <4> HIDE DEF Step
        <4> QED BY <1>2, <3>2
      <3> HIDE DEF A
      <3> QED BY <3>3 DEF Path, Least
    <2>4. \A T \in SUBSET Cells : A(T \cup {w}) = A(T)
      <3> HIDE DEF Step
      <3> QED OBVIOUS
    <2>5. \A T : A(T) \subseteq S \cup W
      OBVIOUS
    <2> HIDE DEF A, Linking
    <2>6. Path(P, w) \subseteq S \cup W
      <3>1. S \cup W \in SUBSET Cells
        BY <1>3
      <3>2. PICK T : T = S \cup W
        OBVIOUS
      <3> QED BY <2>3, <2>5, <3>1, <3>2
    <2>7. ASSUME NEW u \in Path(P, w), u \notin W PROVE u \in Linking(w)
      <3>1. ASSUME NEW T \in SUBSET Cells, A(T) \ {w} \subseteq T PROVE u \in T
        <4>1. T \cup {w} \in SUBSET Cells /\ A(T \cup {w}) \subseteq T \cup {w}
          BY <1>3, <2>4, <3>1
        <4>2. u \in T \cup {w}
          BY <2>3, <4>1
        <4> QED BY <2>7, <4>2
      <3> QED BY <2>2, <2>3, <3>1
    <2>8. Linking(w) \subseteq Path(P, w)
      BY <2>2, <2>3
    <2> QED BY <2>6, <2>7, <2>8
  <1>6. Link(direct, W) = UNION {{w} \X (Linking(w) \ W) : w \in W}
    BY DEF Link, Least
  <1> HIDE DEF Linking
  <1> QED BY <1>2, <1>5, <1>6

-----------------------------------------------------------------------------
(* No update is missed.                                                    *)

\* Saw is the last run that wrote a symbol before a cell ran.
LEMMA SawLast ==
    ASSUME Typed, NEW c \in Cells, NEW s \in Syms
    PROVE  /\ Saw(c, s) # 0 => Before(c, s) # {}
           /\ Before(c, s) # {} => Saw(c, s) \in Nat /\ IsLast(Saw(c, s), c, s)
  <1>1. PICK S : S = Before(c, s) \cup {0}
    OBVIOUS
  <1>2. Saw(c, s) = Max(S)
    BY <1>1 DEF Saw, Before
  <1>3. now \in Nat /\ Before(c, s) \subseteq 1..now
    BY DEF Typed, Before, now
  <1>4. S \in SUBSET Nat /\ 0 \in S /\ \A k \in S : k <= now
    BY <1>1, <1>3
  <1>5. Max(S) \in S /\ \A k \in S : k <= Max(S)
    BY <1>3, <1>4, MaxOfNats
  <1>6. Max(S) = 0 => Before(c, s) = {}
    BY <1>1, <1>3, <1>5
  <1> QED BY <1>1, <1>2, <1>3, <1>5, <1>6 DEF IsLast

\* A cell's link for a symbol that it has read and still reads counts: no other
\* link of the cell is for a symbol of the same run, or to a lower cell for the
\* same symbol.
LEMMA Counts ==
    ASSUME Base, NEW c \in Cells, NEW e \in Directional[c], HasRead(c, e.sym),
           e.sym \in content[c].reads
    PROVE  /\ e \in edges /\ e.child = c /\ e.parent \in Cells /\ e.sym \in Syms
           /\ e.sym \in SymsOf(Directional, e) \ removed[c]
           /\ Lowest(Directional, e) /\ ~Shadowed(Directional, e)
           /\ ranBy[Saw(c, e.sym)] = e.parent /\ Saw(c, e.sym) \in writes[e.sym]
  <1>1. Directional[c] = {d \in edges : d.child = c /\ Above(d.parent, c)}
    BY DEF Directional
  <1>2. \A f \in Directional[c] : /\ f \in edges /\ f.child = c
                                  /\ f.parent \in Cells /\ f.sym \in Syms
    BY <1>1 DEF Base, Typed, Edge
  <1>3. IsLast(Saw(c, e.sym), c, e.sym) /\ Saw(c, e.sym) \in Nat
    BY <1>2, SawLast DEF HasRead, Base
  <1>4. \A f \in Directional[c] : f.sym = e.sym => ranBy[Saw(c, e.sym)] = f.parent
    BY <1>2, <1>3 DEF Base, Origins
  <1>5. e.sym \in SymsOf(Directional, e) \ removed[c]
    BY <1>2 DEF SymsOf, Base, Reading
  <1>6. Saw(c, e.sym) \in writes[e.sym] /\ writes[e.sym] # {}
    BY <1>3 DEF IsLast, Before
  <1>7. ASSUME NEW f \in Directional[c], ts[f.sym] = ts[e.sym] PROVE f.parent = e.parent
    <2>1. ts[e.sym] # 0 /\ ts[e.sym] \in writes[e.sym]
      BY <1>2, <1>6, LastWriter DEF Base
    <2>2. ts[f.sym] \in writes[f.sym]
      BY <1>2, <1>7, <2>1 DEF Base, Runs
    <2>3. f.sym = e.sym
      BY <1>2, <1>7, <2>1, <2>2 DEF Base, Runs
    <2> QED BY <1>4, <2>3
  <1>8. pos[e.parent] \in Nat
    BY <1>2 DEF Base, Typed
  <1>9. Lowest(Directional, e)
    BY <1>2, <1>5, <1>7, <1>8 DEF Lowest
  <1>10. ~Shadowed(Directional, e)
    <2> SUFFICES ASSUME NEW f \in Directional[c], pos[f.parent] > pos[e.parent],
                        SymsOf(Directional, e) \ removed[c] \subseteq SymsOf(Directional, f)
                 PROVE  FALSE
      BY <1>2 DEF Shadowed
    <2>1. e.sym \in SymsOf(Directional, f)
      BY <1>5
    <2>2. PICK g \in Directional[c] : g.sym = e.sym /\ g.parent = f.parent
      BY <1>2, <2>1 DEF SymsOf
    <2>3. f.parent = e.parent
      BY <1>4, <2>2
    <2> QED BY <1>8, <2>3
  <1> QED BY <1>2, <1>4, <1>5, <1>6, <1>9, <1>10

\* A cell that is linked to a newer run for a symbol it reads is out of date or
\* waits.
LEMMA NoneMissed == ASSUME Base, Checked PROVE NothingMissed
  <1> SUFFICES ASSUME result.fresh, NEW e \in edges,
                      ctr[e.child] # 0, content[e.child] = ranAs[e.child],
                      e.sym \in content[e.child].reads,
                      Saw(e.child, e.sym) # 0, ranBy[Saw(e.child, e.sym)] = e.parent,
                      ctr[e.parent] = ts[e.sym], ts[e.sym] > ctr[e.child],
                      Above(e.parent, e.child)
               PROVE  e.child \in result.ready \cup result.waiting
    BY DEF NothingMissed
  <1> DEFINE c == e.child
             s == e.sym
             p == e.parent
  <1>1. c \in Cells /\ p \in Cells /\ s \in Syms
    BY DEF Base, Typed, Edge
  <1>2. c \in Present
    BY <1>1 DEF Base, Runs, Present
  <1>3. HasRead(c, s)
    BY <1>1, SawLast DEF HasRead, Base
  <1>4. writes[s] # {} /\ s \in Live(c)
    BY <1>1, <1>3 DEF HasRead, Before, Live
  <1>5. e \in Directional[c]
    BY <1>1 DEF Directional
  <1>6. PICK found, P, stuck, S, W, direct, new : Found(found, P, stuck, S, W, direct, new)
    BY DEF Checked
  <1>7. /\ result.ready = S \ W /\ result.waiting = W
        /\ P = Directional /\ S = OutOfDate(P, stuck)
    BY <1>6 DEF Found, Verdict
  <1>8. CASE c \in stuck
    BY <1>6, <1>7, <1>8 DEF Found, Stuck, Waiting
  <1>9. CASE Liveness
    <2>1. ranBy[ts[s]] = p /\ ts[s] \in 1..now
      BY <1>1, <1>4, LastWriter DEF Base
    <2>2. ~Hybrid
      BY <1>9 DEF Liveness, Hybrid
    <2>3. set.inOrder => pos[c] >= PosOf(ts[s])
      BY <1>1, <2>1 DEF PosOf, Above, Base, Typed
    <2>4. ts[s] \in NewerReads(P, c)
      BY <1>4, <2>2, <2>3 DEF NewerReads
    <2>5. Newer(P, c) # {}
      BY <1>9, <2>4 DEF Newer
    <2> QED BY <1>2, <1>7, <1>8, <2>5 DEF OutOfDate
  <1>10. CASE ~Liveness
    <2>1. Lowest(P, e) /\ ~Shadowed(P, e) /\ s \in SymsOf(P, e) \ removed[c]
      BY <1>1, <1>3, <1>5, <1>7, Counts
    <2>2. p \in NewerParents(P, c)
      BY <1>5, <1>7, <2>1 DEF NewerParents
    <2>3. Newer(P, c) # {}
      BY <1>10, <2>2 DEF Newer
    <2> QED BY <1>2, <1>7, <1>8, <2>3 DEF OutOfDate
  <1> QED BY <1>9, <1>10

-----------------------------------------------------------------------------
(* Agreement with the loop's readiness, while one cell makes each symbol.  *)

Loop == Base /\ Checked /\ result.fresh /\ Unedited /\ OneWriter

\* Every cell has read what its content says.
LEMMA LoopReads ==
    ASSUME Loop, NEW c \in Present, NEW s \in content[c].reads PROVE HasRead(c, s) /\ s \in Syms
  <1>1. c \in Cells /\ s \in Syms
    BY ContentType DEF Loop, Base, Typed, Present
  <1>2. ctr[c] # 0 /\ Saw(c, s) # 0
    BY DEF Loop, Unedited
  <1>3. Before(c, s) # {}
    BY <1>1, <1>2, SawLast DEF Loop, Base
  <1>4. ranAs[c] = content[c]
    BY <1>1, <1>2 DEF Loop, Unedited, Base, AsWritten
  <1> QED BY <1>1, <1>2, <1>3, <1>4 DEF HasRead

\* The links that count lead from the cell that makes a symbol.
LEMMA LoopLinks ==
    ASSUME Loop, NEW c \in Present, NEW e \in Directional[c]
    PROVE  /\ e \in edges /\ e.child = c /\ e.parent \in Present /\ e.sym \in Syms
           /\ e.sym \in content[e.parent].writes /\ e.sym \in content[c].reads
           /\ HasRead(c, e.sym) /\ pos[e.parent] < pos[c]
           /\ e.sym \in SymsOf(Directional, e) \ removed[c]
           /\ Lowest(Directional, e) /\ ~Shadowed(Directional, e)
  <1>1. c \in Cells /\ e \in edges /\ e.child = c /\ Above(e.parent, c)
    BY DEF Present, Directional
  <1>2. AsWritten /\ set.inOrder
    BY DEF Loop, Unedited, Base
  <1>3. e.parent \in Cells /\ e.sym \in Syms
    BY <1>1 DEF Loop, Base, Typed, Edge
  <1>4. e.sym \in content[e.parent].writes /\ ctr[e.parent] # 0 /\ e.sym \in content[c].reads
    BY <1>1, <1>2 DEF AsWritten
  <1>5. e.parent \in Present
    BY <1>3, <1>4 DEF Loop, Base, Runs, Present
  <1>6. HasRead(c, e.sym)
    BY <1>4, LoopReads
  <1>7. /\ e.sym \in SymsOf(Directional, e) \ removed[c]
        /\ Lowest(Directional, e) /\ ~Shadowed(Directional, e)
    BY <1>1, <1>4, <1>6, Counts DEF Loop
  <1> QED BY <1>1, <1>2, <1>3, <1>4, <1>5, <1>6, <1>7 DEF Above

\* A cell counts another as its parent if and only if the loop does.
LEMMA LoopParents ==
    ASSUME Loop, NEW c \in Present, NEW d \in Cells
    PROVE  <<d, c>> \in LoopEdges <=> \E e \in Directional[c] : e.parent = d
  <1>1. ASSUME NEW e \in Directional[c] PROVE <<e.parent, c>> \in LoopEdges
    BY LoopLinks DEF LoopEdges
  <1>2. ASSUME <<d, c>> \in LoopEdges PROVE \E e \in Directional[c] : e.parent = d
    <2>1. d \in Present /\ c \in Present /\ pos[d] < pos[c]
      BY <1>2 DEF LoopEdges
    <2>2. PICK s \in content[c].reads : s \in content[d].writes
      BY <1>2 DEF LoopEdges
    <2>3. HasRead(c, s) /\ s \in Syms /\ c \in Cells
      BY LoopReads DEF Present
    <2>4. MadeAbove
      <3>1. \A x \in Present : \A r \in content[x].reads : r \in Made(x)
        BY DEF Loop, Unedited
      <3> QED BY <3>1 DEF MadeAbove
    <2>5. AsWritten /\ Joined
      BY <2>4 DEF Loop, Unedited, Base
    <2>6. PICK e \in edges : e.child = c /\ e.sym = s
      BY <2>3, <2>5 DEF Joined
    <2>7. s \in content[e.parent].writes /\ ctr[e.parent] # 0 /\ e.parent \in Cells
      BY <2>5, <2>6 DEF AsWritten, Loop, Base, Typed, Edge
    <2>8. e.parent \in Present
      BY <2>7 DEF Loop, Base, Runs, Present
    <2>9. e.parent = d
      BY <2>1, <2>2, <2>7, <2>8 DEF OneWriter, Loop
    <2>10. e \in Directional[c]
      BY <2>1, <2>3, <2>6, <2>9 DEF Directional, Above
    <2> QED BY <2>9, <2>10
  <1> QED BY <1>1, <1>2

\* The links that count are the loop's edges.
LEMMA LoopPairs ==
    ASSUME Loop
    PROVE  LoopEdges = UNION {{<<e.parent, e.child>> : e \in Directional[c]} : c \in Present}
  <1> DEFINE Pairs(c) == {<<e.parent, e.child>> : e \in Directional[c]}
  <1>1. ASSUME NEW c \in Present, NEW x \in Pairs(c) PROVE x \in LoopEdges
    <2>1. PICK e \in Directional[c] : x = <<e.parent, e.child>>
      OBVIOUS
    <2>2. e.child = c /\ e.parent \in Cells
      BY LoopLinks DEF Present
    <2> QED BY <2>1, <2>2, LoopParents
  <1>2. ASSUME NEW x \in LoopEdges PROVE \E c \in Present : x \in Pairs(c)
    <2>1. PICK d \in Present, c \in Present : x = <<d, c>>
      BY DEF LoopEdges
    <2>2. d \in Cells
      BY DEF Present
    <2>3. PICK e \in Directional[c] : e.parent = d
      BY <2>1, <2>2, LoopParents
    <2>4. e.child = c
      BY LoopLinks
    <2> QED BY <2>1, <2>3, <2>4
  <1> HIDE DEF Pairs
  <1>3. LoopEdges = UNION {Pairs(c) : c \in Present}
    BY <1>1, <1>2
  <1> QED BY <1>3 DEF Pairs

\* All links that count are shown.
LEMMA LoopShown == ASSUME Loop PROVE Filtered(Directional) = LoopEdges
  <1>1. ASSUME NEW c \in Present, NEW e \in Directional[c]
        PROVE  StillWritten(e.parent, SymsOf(Directional, e) \ removed[c])
    <2>1. /\ e.parent \in Cells /\ e.sym \in Syms
          /\ e.sym \in SymsOf(Directional, e) \ removed[c] /\ HasRead(c, e.sym)
          /\ e.sym \in content[c].reads /\ c \in Cells
      BY LoopLinks DEF Present
    <2>2. ranBy[Saw(c, e.sym)] = e.parent /\ Saw(c, e.sym) \in writes[e.sym]
      BY <2>1, Counts DEF Loop
    <2>3. AsWritten
      BY DEF Loop, Unedited, Base
    <2>4. ctr[e.parent] \in writes[e.sym]
      BY <2>1, <2>2, <2>3 DEF AsWritten
    <2>5. e.sym \in Wrote(e.parent)
      BY <2>1, <2>4 DEF Wrote
    <2> QED BY <2>1, <2>3, <2>5 DEF StillWritten, AsWritten
  <1> DEFINE counts(c) == {f \in Directional[c] :
                              /\ StillWritten(f.parent, SymsOf(Directional, f) \ removed[c])
                              /\ Lowest(Directional, f) /\ ~Shadowed(Directional, f)}
             pairs(c) == {<<e.parent, e.child>> : e \in counts(c)}
             all(c) == {<<e.parent, e.child>> : e \in Directional[c]}
  <1>2. ASSUME NEW c \in Present PROVE pairs(c) = all(c)
    <2>1. counts(c) = Directional[c]
      BY <1>1, LoopLinks
    <2> QED BY <2>1
  <1>3. Filtered(Directional) = UNION {pairs(c) : c \in Present}
    BY DEF Filtered
  <1>4. LoopEdges = UNION {all(c) : c \in Present}
    BY LoopPairs
  <1> HIDE DEF counts, pairs, all
  <1>5. UNION {pairs(c) : c \in Present} = UNION {all(c) : c \in Present}
    BY <1>2
  <1> QED BY <1>3, <1>4, <1>5

\* The cells that are out of date are those the loop takes to be stale.
LEMMA LoopOutOfDate == ASSUME Loop PROVE OutOfDate(Directional, {}) = LoopStale
  <1>1. ~Liveness /\ ~Hybrid /\ set.pull
    BY DEF Loop, Unedited, Liveness, Hybrid
  <1>2. \A c \in Present : Newer(Directional, c) # {} <=> NewerParents(Directional, c) # {}
    BY <1>1 DEF Newer
  <1>3. ASSUME NEW c \in Present
        PROVE  NewerParents(Directional, c) # {}
                  <=> \E e \in Directional[c] : ctr[e.parent] > ctr[c]
    BY <1>1, LoopLinks DEF NewerParents
  <1>4. ASSUME NEW c \in OutOfDate(Directional, {}) PROVE c \in LoopStale
    <2>1. c \in Present /\ NewerParents(Directional, c) # {}
      BY <1>2 DEF OutOfDate
    <2>2. PICK e \in Directional[c] : ctr[e.parent] > ctr[c]
      BY <1>3, <2>1
    <2>3. e.parent \in Cells
      BY <2>1, LoopLinks DEF Present
    <2>4. <<e.parent, c>> \in LoopEdges
      BY <2>1, <2>3, LoopParents
    <2> QED BY <2>2, <2>4 DEF LoopStale
  <1>5. ASSUME NEW c \in LoopStale PROVE c \in OutOfDate(Directional, {})
    <2>1. PICK x \in LoopEdges : ctr[x[1]] > ctr[x[2]] /\ c = x[2]
      BY DEF LoopStale
    <2>2. PICK d \in Present, b \in Present : x = <<d, b>>
      BY DEF LoopEdges
    <2>3. b = c /\ c \in Present /\ d \in Cells /\ ctr[d] > ctr[c] /\ <<d, c>> \in LoopEdges
      BY <2>1, <2>2 DEF Present
    <2>4. PICK e \in Directional[c] : e.parent = d
      BY <2>3, LoopParents
    <2> QED BY <1>2, <1>3, <2>3, <2>4 DEF OutOfDate
  <1> QED BY <1>4, <1>5

\* The same cells wait.
LEMMA LoopWaiters == ASSUME Loop PROVE Waiters(Directional, LoopStale, {}) = LoopWaiting
  <1> DEFINE Asks(T) == {c \in Present : Parents(Directional, c) \cap (LoopStale \cup T) # {}}
             Next2(T) == {e[2] : e \in {f \in LoopEdges : f[1] \in LoopStale \cup T}}
             Asked(T) == {} \cup Asks(T)
  <1>1. ASSUME NEW T PROVE Asks(T) = Next2(T)
    <2>1. ASSUME NEW c \in Asks(T) PROVE c \in Next2(T)
      <3>1. PICK e \in Directional[c] : e.parent \in LoopStale \cup T
        BY DEF Parents
      <3>2. c \in Present /\ e.parent \in Cells
        BY LoopLinks DEF Present
      <3>3. <<e.parent, c>> \in LoopEdges
        BY <3>2, LoopParents
      <3> QED BY <3>1, <3>3
    <2>2. ASSUME NEW c \in Next2(T) PROVE c \in Asks(T)
      <3>1. PICK x \in LoopEdges : x[1] \in LoopStale \cup T /\ c = x[2]
        OBVIOUS
      <3>2. PICK d \in Present, b \in Present : x = <<d, b>>
        BY DEF LoopEdges
      <3>3. c \in Present /\ d \in Cells /\ d \in LoopStale \cup T /\ <<d, c>> \in LoopEdges
        BY <3>1, <3>2 DEF Present
      <3>4. PICK e \in Directional[c] : e.parent = d
        BY <3>3, LoopParents
      <3> QED BY <3>3, <3>4 DEF Parents
    <2> QED BY <2>1, <2>2
  <1>2. LoopWaiting = {u \in Cells : \A T \in SUBSET Cells : Next2(T) \subseteq T => u \in T}
    BY DEF LoopWaiting, Least
  <1>3. Waiters(Directional, LoopStale, {}) = {u \in Present : \A T \in SUBSET Present : Asked(T) \subseteq T => u \in T}
    BY DEF Waiters, Least
  <1>4. Present \subseteq Cells /\ \A T : Asks(T) \subseteq Present /\ Asked(T) = Asks(T)
    BY DEF Present
  <1>5. \A T, U : T \subseteq U => Asks(T) \subseteq Asks(U)
    OBVIOUS
  <1>6. \A T \in SUBSET Cells : Asks(T) \subseteq T => Asks(T \cap Present) \subseteq T \cap Present
    <2> HIDE DEF Asks
    <2>1. ASSUME NEW T, Asks(T) \subseteq T PROVE Asks(T \cap Present) \subseteq T \cap Present
      <3>1. Asks(T \cap Present) \subseteq Asks(T)
        BY <1>5
      <3> QED BY <1>4, <2>1, <3>1
    <2> QED BY <2>1
  <1> HIDE DEF Asks, Next2, Asked
  <1>7. ASSUME NEW u \in Waiters(Directional, LoopStale, {}) PROVE u \in LoopWaiting
    <2>1. u \in Cells
      BY <1>3, <1>4
    <2>2. ASSUME NEW T \in SUBSET Cells, Next2(T) \subseteq T PROVE u \in T
      <3>1. PICK U \in SUBSET Present : U = T \cap Present
        OBVIOUS
      <3>2. Asked(U) \subseteq U
        BY <1>1, <1>4, <1>6, <2>2, <3>1
      <3> QED BY <1>3, <3>1, <3>2
    <2> QED BY <1>2, <2>1, <2>2
  <1>8. ASSUME NEW u \in LoopWaiting PROVE u \in Waiters(Directional, LoopStale, {})
    <2>1. u \in Present
      BY <1>1, <1>2, <1>4
    <2>2. ASSUME NEW T \in SUBSET Present, Asked(T) \subseteq T PROVE u \in T
      BY <1>1, <1>2, <1>4, <2>2
    <2> QED BY <1>3, <2>1, <2>2
  <1> QED BY <1>7, <1>8

\* Nobody but the parent has written what a cell is linked to it for.
LEMMA LoopFresh ==
    ASSUME Loop PROVE StaleParents(Directional) = {} /\ \A x \in StaleBy(edges) : x[2] = x[3]
  <1>1. ASSUME NEW c \in Present, NEW e \in Directional[c] PROVE ~(ts[e.sym] > ctr[e.parent])
    <2>1. /\ e.parent \in Present /\ e.parent \in Cells /\ e.sym \in Syms
          /\ e.sym \in content[e.parent].writes /\ HasRead(c, e.sym)
      BY LoopLinks DEF Present
    <2>2. ts[e.sym] \in writes[e.sym] /\ ts[e.sym] \in 1..now
      BY <2>1, LastWriter DEF HasRead, Before, Loop, Base
    <2>3. PICK p \in Cells : p = ranBy[ts[e.sym]]
      BY <2>2 DEF Loop, Base, Typed, now
    <2>4. e.sym \in content[p].writes /\ ctr[p] \in writes[e.sym]
      BY <2>1, <2>2, <2>3 DEF Loop, Unedited, Base, AsWritten
    <2>5. ts[e.sym] <= ctr[p]
      BY <2>2, <2>3 DEF Loop, Base, Runs
    <2>6. p \in Present
      BY <2>1, <2>3, <2>4 DEF Loop, Base, Typed, Runs, Present
    <2>7. p = e.parent
      BY <2>1, <2>4, <2>6 DEF Loop, OneWriter
    <2> QED BY <2>1, <2>2, <2>5, <2>7 DEF Loop, Base, Typed
  <1>2. StaleParents(Directional) = {}
    BY <1>1 DEF StaleParents
  <1>3. ASSUME NEW e \in edges, NEW y \in byPos, e.sym \in Writes(y), e.parent \in Present
        PROVE  y = e.parent
    <2>1. y \in Cells /\ e.sym \in Syms /\ AsWritten
      BY DEF Loop, Unedited, Base, Typed, Edge
    <2>2. ctr[y] \in writes[e.sym]
      BY <1>3 DEF Writes, DynamicWrites, StaticWrites, Wrote
    <2>3. ctr[y] # 0
      BY <2>1, <2>2 DEF Loop, Base, Typed
    <2>4. y \in Present /\ ranBy[ctr[y]] = y
      BY <2>1, <2>3 DEF Loop, Base, Runs, Present
    <2>5. e.sym \in content[y].writes /\ e.sym \in content[e.parent].writes
      BY <2>1, <2>2, <2>4 DEF AsWritten
    <2> QED BY <1>3, <2>4, <2>5 DEF Loop, OneWriter
  <1>4. \A e \in edges : e.parent \in Present
    BY DEF Loop, Unedited, Base, AsWritten, Typed, Edge, Runs, Present
  <1>5. ASSUME NEW x \in StaleBy(edges) PROVE x[2] = x[3]
    <2> DEFINE Lower(e) == {<<e.child, y, e.parent>> : y \in {z \in byPos : pos[z] < pos[e.child] /\ e.sym \in Writes(z)}}
    <2>1. StaleBy(edges) = UNION {Lower(e) : e \in {f \in edges : f.child \in byPos}}
      BY DEF StaleBy
    <2>2. PICK e \in edges : x \in Lower(e)
      <3> HIDE DEF Lower
      <3> QED BY <2>1
    <2>3. PICK y \in byPos : e.sym \in Writes(y) /\ x = <<e.child, y, e.parent>>
      BY <2>2
    <2> QED BY <1>3, <1>4, <2>3
  <1> QED BY <1>2, <1>5

\* A check finds what the loop takes it to find.
LEMMA LoopAgrees == ASSUME Base, Checked PROVE AgreesWithLoop
  <1> SUFFICES ASSUME result.fresh, Unedited, OneWriter
               PROVE  /\ result.waiting = LoopWaiting
                      /\ result.ready = LoopStale \ LoopWaiting
                      /\ result.parents = LoopEdges
                      /\ result.stale = {} /\ \A x \in result.staleBy : x[2] = x[3]
    BY DEF AgreesWithLoop
  <1>1. Loop
    BY DEF Loop
  <1>2. ~Liveness /\ set.inOrder
    BY DEF Unedited, Liveness
  <1>3. PICK found, P, stuck, S, W, direct, new : Found(found, P, stuck, S, W, direct, new)
    BY DEF Checked
  <1>4. /\ P = Directional /\ stuck = {} /\ S = OutOfDate(P, stuck) /\ W = Waiters(P, S, stuck)
        /\ result = Verdict(P, S, W, direct, new)
    BY <1>2, <1>3 DEF Found, Stuck, Waiting
  <1>5. S = LoopStale /\ W = LoopWaiting
    BY <1>1, <1>4, LoopOutOfDate, LoopWaiters
  <1>6. /\ result.waiting = W /\ result.ready = S \ W /\ result.parents = Filtered(P)
        /\ result.stale = StaleParents(P) /\ result.staleBy = StaleBy(edges)
    BY <1>2, <1>4 DEF Verdict
  <1> QED BY <1>1, <1>4, <1>5, <1>6, LoopShown, LoopFresh

-----------------------------------------------------------------------------
(* Types.                                                                  *)

\* What TypeOK says of the variables that no other part of the invariant needs.
Rest ==
    /\ set \in Settings /\ runs \in Nat /\ edits \in Nat /\ edited \in BOOLEAN /\ moved \in BOOLEAN
    /\ byPos \subseteq Present /\ required \in [Syms -> 0..now]
    /\ deps \subseteq Syms \X Syms \X (1..now)
    /\ \A e \in edges : ctr[e.parent] # 0
    /\ seen \in [Cells -> Content] /\ wasReady \subseteq Cells
    /\ result.ready \cap result.waiting = {}

\* The symbols that a run leaves with types.
LEMMA RunRest == ASSUME Base, Rest, NEW c \in Cells, Run(c) PROVE Rest'
  <1>1. now \in Nat /\ now' = now + 1
    BY RunFacts DEF Base
  <1>2. content[c] \in Content /\ content[c].reads \in SUBSET Syms /\ content[c].writes \subseteq Syms
        /\ content[c].sets \subseteq Settings
    <2>1. content[c] \in Content
      BY DEF Base, Typed
    <2>2. \A x \in Content : x.sets \subseteq Settings
      <3> DEFINE One == {{}} \cup {{s} : s \in Syms}
      <3>1. Content = [reads : SUBSET Syms, writes : One, sets : SUBSET Settings]
        BY DEF Content
      <3> HIDE DEF One
      <3> QED BY <3>1
    <2> QED BY <2>1, <2>2, ContentType
  <1>3. ASSUME NEW w \in content[c].writes, NEW reads \in SUBSET Syms, Assign(w, reads)
        PROVE  required' \in [Syms -> 0..now'] /\ deps' \subseteq Syms \X Syms \X (1..now')
    <2>1. required' \in [Syms -> 0..now']
      BY <1>1, <1>3 DEF Assign, Rest
    <2>2. \A d \in deps' : d \in deps \/ \E r \in reads : d = <<r, w, now + 1>>
      BY <1>3 DEF Assign, Depends
    <2> QED BY <1>1, <1>2, <2>1, <2>2 DEF Rest
  <1>4. (UNCHANGED symbols) => required' \in [Syms -> 0..now'] /\ deps' \subseteq Syms \X Syms \X (1..now')
    BY <1>1 DEF symbols, Rest
  <1>5. /\ (UNCHANGED symbols) \/ \E w \in content[c].writes : Assign(w, content[c].reads)
        /\ set' \in Settings
    <2> USE DEF Run
    <2>1. CASE Unresolved(c) = {} /\ content[c].writes = {}
      BY <1>2, <2>1 DEF Rest
    <2>2. CASE Unresolved(c) = {} /\ content[c].writes # {}
      BY <1>2, <2>2 DEF Rest
    <2>3. CASE Unresolved(c) # {}
      BY <2>3 DEF Rest
    <2> QED BY <2>1, <2>2, <2>3
  <1>6. required' \in [Syms -> 0..now'] /\ deps' \subseteq Syms \X Syms \X (1..now')
    BY <1>2, <1>3, <1>4, <1>5
  <1>7. \A e \in edges' : ctr'[e.parent] # 0
    <2>1. ASSUME NEW e \in edges' PROVE ctr'[e.parent] # 0
      <3>1. ctr'[e.parent] = IF e.parent = c THEN now + 1 ELSE ctr[e.parent]
        <4>1. Typed'
          BY RunTyped DEF Base
        <4>2. e.parent \in Cells
          BY <4>1 DEF Typed, Edge
        <4> QED BY <4>2, RunCells DEF Base
      <3>2. CASE e \in edges
        BY <1>1, <3>1, <3>2 DEF Rest
      <3>3. CASE e \notin edges
        <4>1. e.sym \in Live(c) /\ ctr[e.parent] = ts[e.sym]
          BY <3>3, RunLinks DEF Base
        <4>2. ts[e.sym] # 0
          BY <1>2, <4>1, LastWriter DEF Base, Live
        <4> QED BY <1>1, <3>1, <4>1, <4>2
      <3> QED BY <3>2, <3>3
    <2> QED BY <2>1
  <1>8. /\ runs' \in Nat /\ edits' \in Nat /\ edited' \in BOOLEAN /\ moved' \in BOOLEAN
        /\ wasReady' \subseteq Cells /\ byPos' \subseteq Present'
    <2>1. /\ runs # 0 /\ runs' = runs - 1 /\ edits' = edits /\ edited' = edited /\ moved' = FALSE
          /\ wasReady' = wasReady \ {c} /\ (byPos' = Present \/ byPos' = byPos) /\ pos' = pos
      BY DEF Run
    <2>2. Present' = Present
      BY <2>1 DEF Present
    <2>3. runs' \in Nat /\ edits' \in Nat
      BY <2>1 DEF Rest
    <2>4. edited' \in BOOLEAN /\ moved' \in BOOLEAN
      BY <2>1 DEF Rest
    <2>5. wasReady' \subseteq Cells /\ byPos' \subseteq Present'
      BY <2>1, <2>2 DEF Rest
    <2> QED BY <2>3, <2>4, <2>5
  <1>9. result'.ready \cap result'.waiting = {}
    BY DEF Run, Rest
  <1>10. seen' \in [Cells -> Content]
    <2>1. Nothing \in Content
      BY DEF Nothing, Content
    <2> QED BY <2>1 DEF Run, Rest
  <1> QED BY <1>5, <1>6, <1>7, <1>8, <1>9, <1>10 DEF Rest

\* What a request leaves with types.
LEMMA RequestRest ==
    ASSUME Base, Rest, Request, UNCHANGED <<set, symbols>>, SetPositions,
           runs' \in Nat, edits' \in Nat, edited' \in BOOLEAN, moved' \in BOOLEAN,
           NEW twice, NEW allowed, CheckAll(twice, allowed)
    PROVE  Rest'
  <1>1. wasReady' \subseteq Cells /\ result'.ready \cap result'.waiting = {}
    BY CheckAllChecks
  <1>2. now' = now /\ Present \subseteq Present' /\ ctr' = ctr
    BY DEF Request, now, Present
  <1>3. byPos' \subseteq Present'
    BY <1>2 DEF SetPositions, Positioned, Rest, Present
  <1>4. \A e \in edges' : ctr'[e.parent] # 0
    <2>1. ASSUME NEW e \in edges', e \notin edges PROVE ctr[e.parent] # 0
      <3>1. Added(e)
        BY <2>1, RequestLinks DEF Base
      <3>2. ts[e.sym] # 0
        BY <3>1, LastWriter DEF Added, Edge, Base
      <3> QED BY <3>1, <3>2 DEF Added
    <2> QED BY <1>2, <2>1 DEF Rest
  <1>5. seen' \in [Cells -> Content]
    <2>1. CASE UNCHANGED links
      BY <2>1 DEF links, Rest
    <2>2. CASE Relink
      <3>1. seen' = [c \in Cells |-> IF c \in Present THEN content'[c] ELSE seen[c]]
        BY <2>2 DEF Relink
      <3> QED BY <3>1 DEF Request, Rest
    <2> QED BY <2>1, <2>2 DEF Request
  <1>6. set' \in Settings /\ required' \in [Syms -> 0..now'] /\ deps' \subseteq Syms \X Syms \X (1..now')
    BY <1>2 DEF symbols, Rest
  <1> QED BY <1>1, <1>3, <1>4, <1>5, <1>6 DEF Rest

\* Every step keeps the other types.
LEMMA StepRest == ASSUME Base, Rest, [Next]_vars PROVE Rest'
  <1>1. ASSUME NEW reactive \in BOOLEAN, Schedule(reactive) PROVE Rest'
    <2> DEFINE again == ~reactive /\ ~(Present \subseteq linked)
    <2>1. CheckAll(again, set.schedule # "dag_based") /\ SetPositions
          /\ UNCHANGED <<set, content, pos, ranBy, ctr, symbols, runs, edits, edited, moved, ranAs>>
      BY <1>1 DEF Schedule
    <2>2. Request
      BY <1>1, ScheduleRequests DEF Base
    <2>3. runs' \in Nat /\ edits' \in Nat /\ edited' \in BOOLEAN /\ moved' \in BOOLEAN
      BY <2>1 DEF Rest
    <2> HIDE DEF again
    <2> QED BY <2>1, <2>2, <2>3, RequestRest
  <1>2. ASSUME Changed, Request, moved' \in BOOLEAN PROVE Rest'
    <2>1. CheckAll(FALSE, FALSE) /\ SetPositions /\ UNCHANGED <<set, symbols>>
          /\ runs' = runs /\ edits # 0 /\ edits' = edits - 1 /\ edited' = TRUE
      BY <1>2 DEF Changed
    <2>2. runs' \in Nat /\ edits' \in Nat /\ edited' \in BOOLEAN
      BY <2>1 DEF Rest
    <2> QED BY <1>2, <2>1, <2>2, RequestRest
  <1>3. CASE UNCHANGED vars
    <2>1. /\ UNCHANGED <<set, byPos, pos, required, deps, edges, ctr, seen, wasReady, result, ranBy>>
          /\ UNCHANGED <<runs, edits, edited, moved>>
      BY <1>3 DEF vars, notebook, symbols, links
    <2> QED BY <2>1 DEF Rest, Present, now
  <1>4. ASSUME Next PROVE Rest'
    <2>1. ASSUME NEW c \in Cells, Run(c) PROVE Rest'
      BY <2>1, RunRest
    <2>2. ASSUME NEW c \in Cells, NEW new \in Contents, Edit(c, new) PROVE Changed /\ moved' \in BOOLEAN
      BY <2>2 DEF Edit, Rest
    <2>3. ASSUME NEW c \in Cells, NEW d \in Cells, Swap(c, d) PROVE Changed /\ moved' \in BOOLEAN
      BY <2>3 DEF Swap
    <2>4. ASSUME NEW c \in Cells, NEW new \in Contents, NEW p, Insert(c, new, p)
          PROVE  Changed /\ moved' \in BOOLEAN
      BY <2>4 DEF Insert
    <2>5. (\E c \in Cells : Run(c)) \/ Request
      BY <1>4, NextRequests DEF Base
    <2> QED BY <1>1, <1>2, <1>4, <2>1, <2>2, <2>3, <2>4, <2>5 DEF Next
  <1> QED BY <1>3, <1>4

\* The other types hold before the first run.
LEMMA InitRest == ASSUME Init PROVE Rest
  <1>1. PICK nb \in Notebooks : set \in nb.sets /\ runs = nb.runs /\ edits = nb.edits
    BY DEF Init
  <1>2. set \in Settings /\ runs \in Nat /\ edits \in Nat
    BY <1>1, CheckAssumption
  <1>3. edited \in BOOLEAN /\ moved \in BOOLEAN /\ byPos = {} /\ deps = {} /\ edges = {} /\ wasReady = {}
    BY DEF Init
  <1>4. required \in [Syms -> 0..now]
    BY DEF Init, now
  <1>5. Nothing \in Content
    BY DEF Nothing, Content
  <1>6. seen \in [Cells -> Content]
    BY <1>5 DEF Init
  <1>7. result.ready \cap result.waiting = {}
    BY DEF Init, NoResult
  <1> QED BY <1>2, <1>3, <1>4, <1>6, <1>7 DEF Rest

\* Settings, contents, runs, symbols, links and requests keep their types; a parent
\* has run, and no cell is told to be ready and to wait.
THEOREM CheckTypes == Spec => []TypeOK
  <1>1. Init => IInv /\ Rest
    BY InitInv, InitRest DEF IInv
  <1>2. IInv /\ Rest /\ [Next]_vars => (IInv /\ Rest)'
    BY StepInv, StepRest DEF IInv
  <1>3. IInv /\ Rest => TypeOK
    BY DEF IInv, Base, Typed, Rest, TypeOK, Edge
  <1> QED BY <1>1, <1>2, <1>3, PTL DEF Spec

-----------------------------------------------------------------------------
(* The theorems about Check.                                               *)

\* Where links point down the notebook, some cell is ready if any cell waits.
THEOREM SomeoneIsReady == Spec => []SomeoneCanRun
  <1>1. IInv => SomeoneCanRun
    BY SomeoneReady DEF IInv, Base
  <1> QED BY <1>1, Invariance, PTL

\* There, a waiting cell is linked to all ready cells that it is made of, and to
\* no others.
THEOREM WaitersAreLinked == Spec => []WaitersHaveMakers
  <1>1. IInv => WaitersHaveMakers
    BY MakersReady DEF IInv, Base
  <1> QED BY <1>1, Invariance, PTL

\* No newer value of a symbol that a cell has read from a cell above it, is linked
\* to that cell for, and still reads, goes unnoticed, by any schedule.
THEOREM NoUpdateIsMissed == Spec => []NothingMissed
  <1>1. IInv => NothingMissed
    BY NoneMissed DEF IInv
  <1> QED BY <1>1, Invariance, PTL

\* While the notebook is not edited and one cell makes each symbol, the checker
\* computes the readiness and the edges that ReactiveLoop takes it to compute.
THEOREM CheckerAgrees == Spec => []AgreesWithLoop
  <1>1. IInv => AgreesWithLoop
    BY LoopAgrees DEF IInv
  <1> QED BY <1>1, Invariance, PTL

-----------------------------------------------------------------------------
(* Debounced schedules.                                                    *)

\* The main thread is between the start of the last timer and the assignment.
ArmedWaits == pc = "armed" => latest # 0 /\ stage[latest] = "waiting"

\* What a callback that nothing disturbs has made of the setting it borrows.
Borrowed(t) ==
    /\ saved[t] = chosen
    /\ schedule = IF stage[t] # "upgrade" /\ chosen = "dag" THEN "hybrid" ELSE chosen
BorrowedAlone ==
    ~disturbed =>
        /\ Borrowing = {} => schedule = chosen
        /\ \A t \in Borrowing : Borrowed(t) /\ Borrowing = {t}

TimersInv == /\ TimersTypeOK /\ ArmedWaits /\ BorrowedAlone
        /\ PendingHasTimer /\ ChangeIsScheduled /\ RequestIsServed

USE TimerAssumption DEF Timers, Computing, front

\* The invariant holds before the first widget change.
LEMMA InitTimers == TimersInit => TimersInv
  <1> SUFFICES ASSUME TimersInit PROVE TimersInv
    OBVIOUS
  <1> USE DEF TimersInit
  <1>1. saved \in [Timers -> Schedules]
    OBVIOUS
  <1>2. \A t \in Timers : stage[t] = "none" /\ t > latest
    OBVIOUS
  <1>3. latest \in 0..MaxTimers
    OBVIOUS
  <1>4. TimersTypeOK
    BY <1>1, <1>2, <1>3 DEF TimersTypeOK
  <1>5. Borrowing = {}
    BY <1>2 DEF Borrowing
  <1> QED BY <1>4, <1>5 DEF TimersInv, ArmedWaits, BorrowedAlone, PendingHasTimer,
                            ChangeIsScheduled, RequestIsServed

\* The steps of the main thread that leave the timers alone.
LEMMA MainInv ==
    ASSUME TimersInv,
           \/ ChangeWidget \/ SetPending
           \/ \E s \in Schedules : SetSchedule(s)
           \/ \E mode \in {"batch", "incremental"} : SetReactivity(mode)
           \/ StartRun \/ EndRun \/ Respond
    PROVE  TimersInv'
  <1> USE DEF TimersInv, settings, main
  <1>1. CASE ChangeWidget
    BY <1>1 DEF ChangeWidget, TimersTypeOK, ArmedWaits, BorrowedAlone, Borrowed, Borrowing,
                PendingHasTimer, ChangeIsScheduled, RequestIsServed
  <1>2. CASE SetPending
    BY <1>2 DEF SetPending, TimersTypeOK, ArmedWaits, BorrowedAlone, Borrowed, Borrowing,
                PendingHasTimer, ChangeIsScheduled, RequestIsServed
  <1>3. ASSUME NEW s \in Schedules, SetSchedule(s) PROVE TimersInv'
    <2>1. TimersTypeOK' /\ ArmedWaits' /\ PendingHasTimer' /\ ChangeIsScheduled'
         /\ RequestIsServed'
      BY <1>3 DEF SetSchedule, TimersTypeOK, ArmedWaits, PendingHasTimer, ChangeIsScheduled,
             RequestIsServed
    <2>2. BorrowedAlone'
      BY <1>3 DEF SetSchedule, BorrowedAlone, Borrowed, Borrowing
    <2> QED BY <2>1, <2>2
  <1>4. ASSUME NEW mode \in {"batch", "incremental"}, SetReactivity(mode)
        PROVE  TimersInv'
    <2>1. TimersTypeOK' /\ ArmedWaits' /\ PendingHasTimer' /\ ChangeIsScheduled'
         /\ RequestIsServed'
      BY <1>4 DEF SetReactivity, TimersTypeOK, ArmedWaits, PendingHasTimer,
                  ChangeIsScheduled, RequestIsServed, Schedules
    <2>2. BorrowedAlone'
      BY <1>4 DEF SetReactivity, BorrowedAlone, Borrowed, Borrowing, TimersTypeOK
    <2> QED BY <2>1, <2>2
  <1>5. CASE StartRun
    BY <1>5 DEF StartRun, TimersTypeOK, ArmedWaits, BorrowedAlone, Borrowed, Borrowing,
                PendingHasTimer, ChangeIsScheduled, RequestIsServed
  <1>6. CASE EndRun
    <2>1. TimersTypeOK'
      BY <1>6 DEF EndRun, TimersTypeOK
    <2>2. ArmedWaits' /\ PendingHasTimer' /\ ChangeIsScheduled' /\ RequestIsServed'
      BY <1>6 DEF EndRun, ArmedWaits, PendingHasTimer, ChangeIsScheduled,
                  RequestIsServed
    <2>3. BorrowedAlone'
      BY <1>6 DEF EndRun, BorrowedAlone, Borrowed, Borrowing
    <2> QED BY <2>1, <2>2, <2>3
  <1>7. CASE Respond
    <2>1. TimersTypeOK' /\ ArmedWaits' /\ PendingHasTimer' /\ ChangeIsScheduled'
      BY <1>7 DEF Respond, TimersTypeOK, ArmedWaits, PendingHasTimer, ChangeIsScheduled,
                  Dropped
    <2>2. BorrowedAlone'
      BY <1>7 DEF Respond, BorrowedAlone, Borrowed, Borrowing
    <2>3. RequestIsServed'
      BY <1>7 DEF Respond, Dropped, TimersTypeOK, RequestIsServed
    <2> QED BY <2>1, <2>2, <2>3
  <1> QED BY <1>1, <1>2, <1>3, <1>4, <1>5, <1>6, <1>7

\* A debounced call cancels the timer that waits and starts its own.
LEMMA DebounceInv == ASSUME TimersInv, Debounce PROVE TimersInv'
  <1> USE DEF TimersInv, settings
  <1>1. /\ latest + 1 \in Timers /\ latest \in Nat /\ stage[latest + 1] = "none"
        /\ latest' = latest + 1 /\ pc' = "armed" /\ stage'[latest'] = "waiting"
    BY DEF Debounce, TimersTypeOK, CancelAndStart
  <1>2. \A t \in Timers : /\ t # latest + 1 /\ stage[t] # "waiting" => stage'[t] = stage[t]
                          /\ stage'[t] = "waiting" => t = latest + 1
    BY <1>1 DEF Debounce, CancelAndStart, TimersTypeOK
  <1>3. TimersTypeOK'
    BY <1>1 DEF Debounce, CancelAndStart, TimersTypeOK
  <1>4. Borrowing' = Borrowing /\ \A t \in Borrowing : stage'[t] = stage[t]
    BY <1>1, <1>2 DEF Borrowing, Debounce, CancelAndStart
  <1>5. BorrowedAlone'
    BY <1>4 DEF BorrowedAlone, Borrowed, Debounce
  <1>6. ArmedWaits' /\ PendingHasTimer' /\ ChangeIsScheduled'
         /\ RequestIsServed'
    BY <1>1 DEF ArmedWaits, PendingHasTimer, ChangeIsScheduled,
             RequestIsServed
  <1> QED BY <1>3, <1>5, <1>6

\* The steps of a timer thread.
LEMMA CallbackInv ==
    ASSUME TimersInv, ~SlowMain, NEW t \in Timers, Callback(t) PROVE TimersInv'
  <1> USE DEF TimersInv, settings, main, Goto
  <1>1. CASE Fire(t)
    <2> USE <1>1 DEF Fire
    <2>1. TimersTypeOK'
      BY DEF TimersTypeOK
    <2>2. ArmedWaits' /\ PendingHasTimer' /\ ChangeIsScheduled'
         /\ RequestIsServed'
      BY DEF TimersTypeOK, ArmedWaits, PendingHasTimer, ChangeIsScheduled,
             RequestIsServed
    <2>3. BorrowedAlone'
      <3> SUFFICES ASSUME ~disturbed' PROVE BorrowedAlone'
        BY DEF BorrowedAlone
      <3>1. Borrowing = {} /\ schedule = chosen
        BY DEF BorrowedAlone
      <3>2. Borrowing' = {t}
        BY <3>1 DEF Borrowing, TimersTypeOK
      <3> QED BY <3>1, <3>2 DEF BorrowedAlone, Borrowed, TimersTypeOK
    <2> QED BY <2>1, <2>2, <2>3
  <1>2. CASE Upgrade(t)
    <2> USE <1>2 DEF Upgrade
    <2>1. TimersTypeOK'
      BY DEF TimersTypeOK, UpgradedSchedule, Schedules
    <2>2. ArmedWaits' /\ PendingHasTimer' /\ ChangeIsScheduled'
         /\ RequestIsServed'
      BY DEF TimersTypeOK, ArmedWaits, PendingHasTimer, ChangeIsScheduled,
             RequestIsServed
    <2>3. Borrowing' = Borrowing /\ t \in Borrowing
      BY DEF Borrowing, TimersTypeOK
    <2>4. BorrowedAlone'
      BY <2>3 DEF BorrowedAlone, Borrowed, UpgradedSchedule, TimersTypeOK
    <2> QED BY <2>1, <2>2, <2>4
  <1>3. CASE Handle(t)
    <2> USE <1>3 DEF Handle
    <2>1. TimersTypeOK'
      BY DEF TimersTypeOK
    <2>2. ArmedWaits' /\ PendingHasTimer' /\ ChangeIsScheduled'
         /\ RequestIsServed'
      BY DEF TimersTypeOK, ArmedWaits, PendingHasTimer, ChangeIsScheduled,
             RequestIsServed
    <2>3. Borrowing' = Borrowing /\ t \in Borrowing
      BY DEF Borrowing, TimersTypeOK
    <2>4. BorrowedAlone'
      BY <2>3 DEF BorrowedAlone, Borrowed, TimersTypeOK
    <2> QED BY <2>1, <2>2, <2>4
  <1>4. CASE Restore(t)
    <2> USE <1>4 DEF Restore
    <2>1. TimersTypeOK'
      BY DEF TimersTypeOK, RestoredSchedule
    <2>2. ArmedWaits' /\ PendingHasTimer' /\ ChangeIsScheduled'
         /\ RequestIsServed'
      BY DEF TimersTypeOK, ArmedWaits, PendingHasTimer, ChangeIsScheduled,
             RequestIsServed
    <2>3. Borrowing' = Borrowing \ {t} /\ t \in Borrowing
      BY DEF Borrowing, TimersTypeOK
    <2>4. BorrowedAlone'
      BY <2>3 DEF BorrowedAlone, Borrowed, RestoredSchedule
    <2> QED BY <2>1, <2>2, <2>4
  <1>5. CASE Unpend(t) \/ Finish(t)
    <2> USE <1>5 DEF Unpend, Finish, PendingAfter
    <2>1. TimersTypeOK'
      <3>1. /\ stage[t] \in {"unpend", "finish"}
            /\ \E to \in {"finish", "finished"} : stage' = [stage EXCEPT ![t] = to]
        <4>1. CASE Unpend(t)
          BY <4>1
        <4>2. CASE Finish(t)
          BY <4>2
        <4> QED BY <4>1, <4>2
      <3>2. /\ pending' \in BOOLEAN
            /\ UNCHANGED <<schedule, reactivity, saved, latest, pc, startedNew,
                           unscheduled, chosen, disturbed, asked, unserved, late>>
        <4>1. pending \in BOOLEAN
          BY DEF TimersTypeOK
        <4>2. CASE Unpend(t)
          BY <4>2 DEF front
        <4>3. CASE Finish(t)
          BY <4>1, <4>3 DEF front
        <4> QED BY <4>2, <4>3
      <3> HIDE <1>5 DEF Unpend, Finish
      <3>3. /\ stage' \in [Timers -> {"none", "waiting", "cancelled", "upgrade", "handle",
                                      "restore", "unpend", "finish", "finished"}]
            /\ \A u \in Timers : /\ stage'[u] = "none" <=> stage[u] = "none"
                                 /\ stage'[u] = "waiting" => stage[u] = "waiting"
        BY <3>1 DEF TimersTypeOK
      <3> QED BY <3>2, <3>3 DEF TimersTypeOK
    <2>2. ArmedWaits' /\ PendingHasTimer' /\ ChangeIsScheduled'
         /\ RequestIsServed'
      BY DEF TimersTypeOK, ArmedWaits, PendingHasTimer, ChangeIsScheduled,
             RequestIsServed
    <2>3. Borrowing' = Borrowing /\ \A u \in Borrowing : stage'[u] = stage[u]
      BY DEF Borrowing, TimersTypeOK
    <2>4. BorrowedAlone'
      BY <2>3 DEF BorrowedAlone, Borrowed
    <2> QED BY <2>1, <2>2, <2>4
  <1> QED BY <1>1, <1>2, <1>3, <1>4, <1>5 DEF Callback

\* Every step keeps the invariant.
LEMMA StepTimers == ASSUME ~SlowMain PROVE TimersInv /\ [TimersNext]_timersVars => TimersInv'
  <1> SUFFICES ASSUME TimersInv, [TimersNext]_timersVars PROVE TimersInv'
    OBVIOUS
  <1>1. CASE UNCHANGED timersVars
    BY <1>1 DEF timersVars, settings, main, TimersInv, TimersTypeOK, ArmedWaits, BorrowedAlone, Borrowed,
                Borrowing, PendingHasTimer, ChangeIsScheduled, RequestIsServed
  <1> QED BY <1>1, MainInv, DebounceInv, CallbackInv DEF TimersNext

\* The inductive invariant holds throughout.
LEMMA TimersInvariance == ASSUME ~SlowMain PROVE TimersSpec => []TimersInv
  <1>1. TimersInv /\ [TimersNext]_timersVars => TimersInv'
    BY StepTimers
  <1> QED BY <1>1, InitTimers, PTL DEF TimersSpec

\* Only the last timer made can be waiting, and every borrowed schedule is a
\* schedule.
THEOREM TimersTypeCorrect == ASSUME ~SlowMain PROVE TimersSpec => []TimersTypeOK
  BY TimersInvariance, PTL DEF TimersInv

\* As long as frontend requests are dropped, the last timer made has still to
\* clear the flag.
THEOREM PendingHasATimer == ASSUME ~SlowMain PROVE TimersSpec => []PendingHasTimer
  BY TimersInvariance, PTL DEF TimersInv

\* Until a schedule has been computed with the last widget change, a timer is
\* on its way to computing one.
THEOREM ChangesAreScheduled == ASSUME ~SlowMain PROVE TimersSpec => []ChangeIsScheduled
  BY TimersInvariance, PTL DEF TimersInv

\* After every run a schedule is computed, or is on its way, or the request was
\* dropped while a callback that had computed its own had not yet said so.
THEOREM RequestsAreServed == ASSUME ~SlowMain PROVE TimersSpec => []RequestIsServed
  BY TimersInvariance, PTL DEF TimersInv

\* Only overlapping callbacks, or a setting made while one runs, can lose the
\* schedule the user chose.
THEOREM ScheduleIsKept == ASSUME ~SlowMain PROVE TimersSpec => []ScheduleKept
  <1>1. TimersInv => ScheduleKept
    BY DEF TimersInv, BorrowedAlone, ScheduleKept
  <1> QED BY <1>1, TimersInvariance, PTL

\* A callback that nothing disturbs computes its schedule by liveness, whatever
\* schedule the user has chosen.
THEOREM CallbackIsLivenessAware ==
    ASSUME ~SlowMain PROVE TimersSpec => []CallbackUsesLiveness
  <1>1. TimersInv => CallbackUsesLiveness
    BY DEF TimersInv, TimersTypeOK, BorrowedAlone, Borrowed, Borrowing, CallbackUsesLiveness,
           Schedules, LivenessAware
  <1> QED BY <1>1, TimersInvariance, PTL

\* No call but the last fires, however late the timers are.
THEOREM LatestFires == ASSUME ~SlowMain PROVE TimersSpec => OnlyLatestFires
  <1>1. TimersInv => \A t \in Timers : stage[t] = "waiting" /\ stage'[t] = "upgrade" => t = latest
    BY DEF TimersInv, TimersTypeOK
  <1>2. TimersInv => [\A t \in Timers : stage[t] = "waiting" /\ stage'[t] = "upgrade"
                    => t = latest]_timersVars
    BY <1>1
  <1> QED BY <1>2, TimersInvariance, PTL DEF OnlyLatestFires

=============================================================================
