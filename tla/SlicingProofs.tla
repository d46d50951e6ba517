--------------------------- MODULE SlicingProofs ---------------------------
(***************************************************************************)
(* What slices hold and that they can be made, for any notebook: any cells, *)
(* symbols, widgets and contents, and any number of runs and edits.        *)
(***************************************************************************)
EXTENDS Slicing, Integers, FiniteSetTheorems, SequenceTheorems,
        WellFoundedInduction, TLAPS

Node == Cells \cup (1..now)
Stamp == (1..now) \X (Nat \ {0})

TypeOK ==
    /\ ran \in Seq([cell : Cells, content : Contents]) /\ now <= MaxRuns
    /\ text \in Seq(Contents) /\ Len(text) = now
    /\ draft \in [Cells -> Contents \cup {<< >>}]
    /\ untracked \subseteq Cells /\ edited \subseteq 1..now
    /\ par \subseteq [ctx : Contexts, child : Node, parent : Cells, sym : Syms]
    /\ chi \subseteq [ctx : Contexts, parent : Cells, child : Cells, sym : Syms]
    /\ used \in [Cells \cup (1..MaxRuns) -> SUBSET Syms]
    /\ made \subseteq Stamp /\ IsFiniteSet(made) /\ slid \subseteq made
    /\ lastWrite \in [Syms -> made \cup {None}]
    /\ override \in [Syms -> made \cup {None}]
    /\ stmtPar \subseteq [ctx : Contexts, child : Stamp, parent : made, sym : Syms]
    /\ deferred \subseteq [ctx : Contexts, child : Stamp, parent : made, sym : Syms]
    /\ \A e \in deferred : e.ctx = "static"
    /\ enabled \in SUBSET Contexts
    /\ pc \in {"idle", "precheck", "run", "cleanup", "postcheck", "checking"}
    /\ todo \subseteq Cells /\ edits \in Nat
    /\ reads \subseteq [at : made, sym : Syms, from : made, over : made \cup {None}]

\* A statement that was run, rather than tracked for a slider.
Length(k) == Len(ran[k].content)
WasRun(t) == t[2] <= Length(t[1])
HasEdge(s, t) == \E e \in stmtPar : e.ctx = "dynamic" /\ e.child = s /\ e.parent = t

\* What runs is numbered as it is in the content, and a slider's statement comes
\* behind it, unless the content was edited.
Numbered ==
    /\ \A k \in (1..now) \ edited : text[k] = ran[k].content
    /\ \A t \in slid : t[1] \notin edited => t[2] = Length(t[1]) + 1
    /\ \A s \in Syms : lastWrite[s] # None => WasRun(lastWrite[s])
    /\ \A e \in stmtPar : e.ctx = "dynamic" => WasRun(e.child)
    /\ \A r \in reads : WasRun(r.from)

\* The statements of the run that goes on.
Running == pc \in {"precheck", "run", "cleanup", "postcheck"}
Progress ==
    /\ Running => now # 0 /\ now \notin edited /\ \A t \in slid : t[1] # now
    /\ pc \in {"precheck", "run"} =>
          \E n \in 0..Length(now) : {t \in made : t[1] = now} = {now} \X (1..n)

\* A run that is over has stopped at an undefined name or has run all it should.
Finished(k) == Failed(k) \/ {k} \X (1..Length(k)) \subseteq made
Ended ==
    \A k \in 1..now : Finished(k) \/ (k = now /\ pc \in {"precheck", "run"})

\* What a slice of statements follows.
Override ==
    \A s \in Syms : override[s] # None =>
        /\ lastWrite[s] # None
        /\ lastWrite[s][1] \in edited
              \/ (override[s] # lastWrite[s] /\ HasEdge(lastWrite[s], override[s]))
ReadOK(r) ==
    /\ r.at # r.from /\ HasEdge(r.at, r.from)
    /\ r.sym \in used[r.at[1]]
    /\ r.from[1] <= r.at[1]
    /\ r.over = None \/ r.from[1] \in edited
          \/ (r.over # r.from /\ HasEdge(r.from, r.over))

\* What a slice of cells follows, or why it need not.
ReadsBack(c, d) == \E q \in reads : ran[q.at[1]].cell = c /\ ran[q.from[1]].cell = d
CellReadOK(r) ==
    \/ r.from[1] = r.at[1]
    \/ \E e \in par : /\ e.ctx = "dynamic" /\ e.child = r.at[1]
                      /\ e.parent = ran[r.from[1]].cell
    \/ \E j \in Versions(ran[r.from[1]].cell) : r.from[1] < j /\ j <= r.at[1]
    \/ ReadsBack(ran[r.from[1]].cell, ran[r.at[1]].cell)
Reads == \A r \in reads : ReadOK(r) /\ CellReadOK(r)
Children == \A f \in chi : f.ctx = "dynamic" => ReadsBack(f.child, f.parent)

\* A parent has been run: before any later version of its child, and before
\* the child, unless that was edited or stopped.
OldEnough(e) ==
    /\ Versions(e.parent) # {}
    /\ \A k \in Versions(CellOf(e.child)) : e.child \in Cells \/ e.child < k
          => \E j \in Versions(e.parent) : j < k
    /\ e.child \in (1..(now - 1)) \ edited /\ ~Failed(e.child)
          => \E j \in Versions(e.parent) : j <= e.child
Parents == \A e \in par : OldEnough(e)

IInv ==
    /\ TypeOK /\ Numbered /\ Progress /\ Ended
    /\ Override /\ Reads /\ Children /\ Parents

-----------------------------------------------------------------------------
(* Numbers, and going back.                                                *)

\* A set of naturals has a least element: the intervals below its elements are
\* finite sets, which inclusion orders well.
LEMMA MinExists ==
    ASSUME NEW S \in SUBSET Nat, S # {}
    PROVE  Min(S) \in S /\ \A k \in S : Min(S) <= k
  <1> DEFINE T == {0..k : k \in S}
  <1>1. T \subseteq FiniteSubsetsOf(Nat) /\ T # {}
    <2>1. \A k \in S : IsFiniteSet(0..k) /\ 0..k \in SUBSET Nat
      BY FS_Interval
    <2> QED BY <2>1 DEF FiniteSubsetsOf
  <1>2. PICK t \in T : \A u \in T : ~(<<u, t>> \in StrictSubsetOrdering(Nat))
    BY <1>1, FS_StrictSubsetOrderingWellFounded, WFMin
  <1>3. PICK m \in S : t = 0..m
    OBVIOUS
  <1>4. ASSUME NEW k \in S PROVE m <= k
    <2>1. ~(<<0..k, 0..m>> \in StrictSubsetOrdering(Nat))
      BY <1>2, <1>3
    <2>2. k < m => 0..k \subseteq 0..m /\ m \notin 0..k /\ m \in 0..m
      OBVIOUS
    <2>3. 0..k \in SUBSET Nat /\ 0..m \in SUBSET Nat
      OBVIOUS
    <2> QED BY <2>1, <2>2, <2>3 DEF StrictSubsetOrdering
  <1> QED BY <1>4 DEF Min

\* A set of naturals with a bound has a greatest element.
LEMMA MaxExists ==
    ASSUME NEW n \in Nat, NEW S \in SUBSET (0..n), S # {}
    PROVE  Max(S) \in S /\ \A k \in S : k <= Max(S)
  <1> DEFINE T == {n - k : k \in S}
  <1>1. T \in SUBSET Nat
    OBVIOUS
  <1>2. PICK m \in T : \A k \in T : m <= k
    <2>1. T # {}
      OBVIOUS
    <2> HIDE DEF T
    <2> QED BY <1>1, <2>1, MinExists
  <1>3. PICK s \in S : m = n - s
    OBVIOUS
  <1>4. \A k \in S : n - k \in T /\ n - s <= n - k
    BY <1>2, <1>3
  <1>5. \A k \in S : s >= k /\ k <= s
    <2> HIDE DEF T
    <2>1. \A k \in S : k \in 0..n
      OBVIOUS
    <2> QED BY <1>4, <2>1
  <1> QED BY <1>5 DEF Max


\* The rounds of Backward are the values of a function.
IsRounds(g, S, R, N) ==
    g = [n \in 0..N |-> IF n = 0 THEN S ELSE Round(g[n - 1], R)]

LEMMA RoundsExist ==
    ASSUME NEW S, NEW R, NEW N \in Nat
    PROVE  \E g : IsRounds(g, S, R, N)
  <1> DEFINE Bad == {k \in Nat : ~\E g : IsRounds(g, S, R, k)}
  <1>1. 0 \notin Bad
    <2> DEFINE g == [n \in 0..0 |-> S]
    <2>1. IsRounds(g, S, R, 0)
      BY DEF IsRounds
    <2> QED BY <2>1
  <1>2. ASSUME NEW k \in Nat, k \notin Bad PROVE k + 1 \notin Bad
    <2>1. PICK g : IsRounds(g, S, R, k)
      BY <1>2
    <2> DEFINE h == [n \in 0..(k + 1) |-> IF n = k + 1 THEN Round(g[k], R) ELSE g[n]]
    <2>2. \A n \in 0..(k + 1) : h[n] = IF n = 0 THEN S ELSE Round(h[n - 1], R)
      <3>1. \A n \in 0..k : g[n] = IF n = 0 THEN S ELSE Round(g[n - 1], R)
        BY <2>1 DEF IsRounds
      <3>2. h[k + 1] = Round(g[k], R) /\ h[k] = g[k]
        OBVIOUS
      <3>3. \A n \in 0..k : h[n] = g[n] /\ (n # 0 => h[n - 1] = g[n - 1])
        OBVIOUS
      <3> HIDE DEF h
      <3> QED BY <3>1, <3>2, <3>3
    <2>3. IsRounds(h, S, R, k + 1)
      <3>1. h = [n \in 0..(k + 1) |-> h[n]]
        OBVIOUS
      <3> HIDE DEF h
      <3> QED BY <2>2, <3>1 DEF IsRounds
    <2> QED BY <2>3
  <1>3. Bad = {}
    <2>1. Bad \in SUBSET Nat
      OBVIOUS
    <2> HIDE DEF Bad
    <2> SUFFICES ASSUME Bad # {} PROVE FALSE
      OBVIOUS
    <2>2. PICK k \in Bad : \A n \in Bad : k <= n
      BY <2>1, MinExists
    <2>3. k \in Nat /\ k # 0
      BY <1>1, <2>1
    <2>4. k - 1 \in Nat /\ k - 1 \notin Bad /\ (k - 1) + 1 = k
      BY <2>2, <2>3
    <2>5. (k - 1) + 1 \notin Bad
      BY <1>2, <2>4
    <2> QED BY <2>4, <2>5
  <1> QED BY <1>3

\* What is in a round stays in the later ones.
LEMMA RoundsGrow ==
    ASSUME NEW S, NEW R, NEW N \in Nat, NEW g, IsRounds(g, S, R, N),
           NEW m \in 0..N, NEW t \in g[m]
    PROVE  t \in g[N]
  <1> DEFINE Bad == {n \in m..N : t \notin g[n]}
  <1> SUFFICES ASSUME t \notin g[N] PROVE FALSE
    OBVIOUS
  <1>1. Bad \in SUBSET Nat /\ Bad \subseteq m..N /\ m \notin Bad /\ N \in Bad
    OBVIOUS
  <1>2. PICK n \in Bad : \A k \in Bad : n <= k
    <2> HIDE DEF Bad
    <2> QED BY <1>1, MinExists
  <1>3. n \in (m + 1)..N /\ n - 1 \in m..N /\ n - 1 \notin Bad
    <2> HIDE DEF Bad
    <2>1. n \in m..N /\ n # m
      BY <1>1
    <2>2. n - 1 \in m..N /\ ~(n <= n - 1)
      BY <2>1
    <2> QED BY <1>2, <2>1, <2>2
  <1>4. g[n] = Round(g[n - 1], R) /\ t \in g[n - 1]
    BY <1>3 DEF IsRounds
  <1> QED BY <1>3, <1>4 DEF Round

\* Going back keeps what it starts from, and finds what one step or two steps
\* lead to.
LEMMA BackwardFacts ==
    ASSUME NEW S, NEW R, NEW N \in Nat
    PROVE  /\ S \subseteq Backward(S, R, N)
           /\ \A s \in S : \A t : <<s, t>> \in R /\ N >= 1 => t \in Backward(S, R, N)
           /\ \A s \in S : \A t, u : <<s, t>> \in R /\ <<t, u>> \in R /\ N >= 2
                                     => u \in Backward(S, R, N)
  <1>1. PICK g : IsRounds(g, S, R, N) /\ Backward(S, R, N) = g[N]
    <2>1. Backward(S, R, N) = (CHOOSE g : IsRounds(g, S, R, N))[N]
      BY DEF Backward, IsRounds
    <2>2. IsRounds(CHOOSE g : IsRounds(g, S, R, N), S, R, N)
      BY RoundsExist
    <2> QED BY <2>1, <2>2
  <1>2. \A m \in 0..N : \A t \in g[m] : t \in Backward(S, R, N)
    <2>1. \A m \in 0..N : \A t \in g[m] : t \in g[N]
      BY <1>1, RoundsGrow
    <2> QED BY <1>1, <2>1
  <1>3. g[0] = S /\ \A n \in 1..N : g[n] = Round(g[n - 1], R)
    BY <1>1 DEF IsRounds
  <1>4. \A T : \A s \in T : \A t : <<s, t>> \in R => t \in Round(T, R)
    BY DEF Round
  <1>5. \A s \in S : \A t : <<s, t>> \in R /\ N >= 1 => t \in g[1]
    BY <1>3, <1>4
  <1>6. \A s \in S : \A t, u : <<s, t>> \in R /\ <<t, u>> \in R /\ N >= 2 => u \in g[2]
    BY <1>3, <1>4, <1>5
  <1> QED BY <1>2, <1>3, <1>5, <1>6

-----------------------------------------------------------------------------
(* What stays as a session goes on.                                        *)

Uses == [by : Node, at : Nat, sym : Syms, from : made]
CellEdges == [ctx : Contexts, child : Node, parent : Cells, sym : Syms]
CellChildren == [ctx : Contexts, parent : Cells, child : Cells, sym : Syms]

Grows ==
    /\ now' \in Nat /\ now <= now' /\ \A k \in 1..now : ran'[k] = ran[k]
    /\ made \subseteq made' /\ edited \subseteq edited'
    /\ stmtPar \subseteq stmtPar' /\ par \subseteq par'
    /\ \A v \in Cells \cup (1..MaxRuns) : used[v] \subseteq used'[v]
    /\ reads \subseteq reads' /\ \A r \in reads' \ reads : r.at[1] = now

\* Runs and their numbers have types of their own.
LEMMA NowFacts ==
    ASSUME TypeOK
    PROVE  /\ now \in Nat /\ MaxRuns \in Nat /\ now <= MaxRuns
           /\ \A k \in 1..now : k \notin Cells /\ k \in Node
                                /\ ran[k].cell \in Cells /\ ran[k].content \in Contents
                                /\ text[k] \in Contents
           /\ \A c \in Cells : c \in Node /\ CellOf(c) = c
           /\ \A v \in Node : CellOf(v) \in Cells /\ v \in Cells \cup (1..MaxRuns)
           /\ \A content \in Contents :
                 /\ Len(content) \in Nat /\ DOMAIN content = 1..Len(content)
                 /\ \A i \in DOMAIN content :
                       content[i].use \subseteq Syms /\ content[i].def \in Syms
           /\ \A k \in 1..now : Length(k) \in Nat
  <1>1. now \in Nat /\ MaxRuns \in Nat /\ now <= MaxRuns
    BY SlicingAssumption DEF TypeOK, now
  <1>2. \A k \in 1..now : /\ ran[k].cell \in Cells /\ ran[k].content \in Contents
                          /\ text[k] \in Contents
    <2>1. /\ ran \in Seq([cell : Cells, content : Contents])
          /\ text \in Seq(Contents) /\ Len(text) = Len(ran)
      BY DEF TypeOK, now
    <2>2. \A k \in 1..Len(ran) : ran[k] \in [cell : Cells, content : Contents]
      BY <2>1, ElementOfSeq
    <2> QED BY <2>1, <2>2 DEF now
  <1>3. \A content \in Contents : content \in Seq([use : SUBSET Syms, def : Syms])
    BY SlicingAssumption
  <1>4. \A content \in Contents :
            /\ Len(content) \in Nat /\ DOMAIN content = 1..Len(content)
            /\ \A i \in DOMAIN content :
                  content[i].use \subseteq Syms /\ content[i].def \in Syms
    <2> SUFFICES ASSUME NEW content \in Contents
                 PROVE  /\ Len(content) \in Nat /\ DOMAIN content = 1..Len(content)
                        /\ \A i \in DOMAIN content :
                              content[i].use \subseteq Syms /\ content[i].def \in Syms
      OBVIOUS
    <2>1. Len(content) \in Nat /\ DOMAIN content = 1..Len(content)
      BY <1>3
    <2>2. \A i \in 1..Len(content) : content[i] \in [use : SUBSET Syms, def : Syms]
      BY <1>3, ElementOfSeq
    <2> QED BY <2>1, <2>2
  <1>5. \A k \in 1..now : k \notin Cells
    BY SlicingAssumption, <1>1
  <1>6. \A v \in Node : CellOf(v) \in Cells /\ v \in Cells \cup (1..MaxRuns)
    BY <1>1, <1>2 DEF Node, CellOf
  <1> QED BY <1>1, <1>2, <1>4, <1>5, <1>6 DEF Node, CellOf, Length

\* The versions of a cell are runs of it; the current one is the last.
LEMMA VersionFacts ==
    ASSUME TypeOK
    PROVE  /\ \A c : Versions(c) \subseteq 1..now
           /\ \A c : Versions(c) # {} =>
                 /\ Current(c) \in Versions(c)
                 /\ \A k \in Versions(c) : k <= Current(c)
           /\ \A c : Versions(c) = {} => Current(c) = c
           /\ \A k \in 1..now : k \in Versions(CellOf(k)) /\ CellOf(k) = ran[k].cell
           /\ \A c : \A k \in Versions(c) : ran[k].cell = c
  <1>1. now \in Nat
    BY NowFacts
  <1>2. ASSUME NEW c, Versions(c) # {}
        PROVE  Current(c) \in Versions(c) /\ \A k \in Versions(c) : k <= Current(c)
    <2>1. Versions(c) \in SUBSET (0..now)
      BY <1>1 DEF Versions
    <2> QED BY <1>1, <1>2, <2>1, MaxExists DEF Current
  <1>3. \A k \in 1..now : k \in Versions(CellOf(k)) /\ CellOf(k) = ran[k].cell
    BY NowFacts DEF Versions, CellOf
  <1> QED BY <1>2, <1>3 DEF Versions, Current

\* What the runs so far are and have done does not change.
LEMMA Kept ==
    ASSUME TypeOK, Grows
    PROVE  /\ \A c : Versions(c)' \cap (1..now) = Versions(c)
           /\ \A v \in Node : CellOf(v)' = CellOf(v)
           /\ \A k \in 1..now : Length(k)' = Length(k)
           /\ \A k \in 1..now : k # now \/ reads' = reads => (Failed(k)' <=> Failed(k))
           /\ \A t \in Stamp : WasRun(t)' <=> WasRun(t)
           /\ \A s, t : HasEdge(s, t) => HasEdge(s, t)'
  <1>1. now \in Nat /\ now' \in Nat /\ now <= now' /\ \A k \in 1..now : ran'[k] = ran[k]
    BY NowFacts DEF Grows
  <1>2. \A c : Versions(c)' \cap (1..now) = Versions(c)
    BY <1>1 DEF Versions
  <1>3. \A v \in Node : CellOf(v)' = CellOf(v)
    BY <1>1 DEF CellOf, Node
  <1>4. \A k \in 1..now : Length(k)' = Length(k)
    BY <1>1 DEF Length
  <1>5. \A k \in 1..now : k # now \/ reads' = reads => (Failed(k)' <=> Failed(k))
    <2> SUFFICES ASSUME NEW k \in 1..now, k # now \/ reads' = reads
                 PROVE  Failed(k)' <=> Failed(k)
      OBVIOUS
    <2>1. reads \subseteq reads' /\ \A r \in reads' : r.at[1] = k => r \in reads
      BY DEF Grows
    <2>2. \A i, s : HasRead(<<k, i>>, s)' <=> HasRead(<<k, i>>, s)
      BY <2>1 DEF HasRead
    <2>3. ran'[k] = ran[k]
      BY <1>1
    <2> QED BY <2>2, <2>3 DEF Failed
  <1>6. \A t \in Stamp : WasRun(t)' <=> WasRun(t)
    BY <1>4 DEF WasRun, Stamp
  <1>7. \A s, t : HasEdge(s, t) => HasEdge(s, t)'
    BY DEF Grows, HasEdge
  <1> QED BY <1>2, <1>3, <1>4, <1>5, <1>6, <1>7

\* What holds of a read goes on holding.
LEMMA ReadsKept ==
    ASSUME TypeOK, Grows, Reads
    PROVE  \A r \in reads : ReadOK(r)' /\ CellReadOK(r)'
  <1> SUFFICES ASSUME NEW r \in reads PROVE ReadOK(r)' /\ CellReadOK(r)'
    OBVIOUS
  <1>1. ReadOK(r) /\ CellReadOK(r)
    BY DEF Reads
  <1>2. r.at \in Stamp /\ r.from \in Stamp /\ r.at[1] \in 1..now /\ r.from[1] \in 1..now
    BY DEF TypeOK, Stamp
  <1>3. r.at[1] \in Cells \cup (1..MaxRuns)
    BY <1>2, NowFacts DEF Node
  <1>4. ReadOK(r)'
    BY <1>1, <1>3, Kept DEF ReadOK, Grows
  <1>5. /\ ran'[r.at[1]] = ran[r.at[1]] /\ ran'[r.from[1]] = ran[r.from[1]]
        /\ \A c : Versions(c) \subseteq Versions(c)'
    BY <1>2, Kept DEF Grows
  <1>6. \A c, d : ReadsBack(c, d) => ReadsBack(c, d)'
    <2> SUFFICES ASSUME NEW c, NEW d, NEW q \in reads,
                        ran[q.at[1]].cell = c, ran[q.from[1]].cell = d
                 PROVE  ReadsBack(c, d)'
      BY DEF ReadsBack
    <2>1. q.at[1] \in 1..now /\ q.from[1] \in 1..now /\ q \in reads'
      BY DEF TypeOK, Stamp, Grows
    <2> QED BY <2>1 DEF ReadsBack, Grows
  <1>7. CellReadOK(r)'
    BY <1>1, <1>5, <1>6 DEF CellReadOK, Grows
  <1> QED BY <1>4, <1>7

\* A run that is over remains so.
LEMMA FinishedKept ==
    ASSUME TypeOK, Grows, NEW k \in 1..now, k # now \/ reads' = reads, Finished(k)
    PROVE  Finished(k)'
  BY Kept DEF Finished, Grows

-----------------------------------------------------------------------------
(* Edges between cells.                                                    *)

\* What is wanted is between cells, and its parent has run.
LEMMA WantedFacts ==
    ASSUME TypeOK, NEW x \in Contexts, NEW U \in SUBSET Uses
    PROVE  /\ Wanted(x, U) \subseteq CellEdges
           /\ \A e \in Wanted(x, U) : \E u \in U :
                 /\ e.ctx = x /\ e.child = u.by /\ e.parent = ran[u.from[1]].cell
                 /\ IsCurrent(u.by) /\ u.from[1] \in Versions(e.parent)
  <1> SUFFICES ASSUME NEW u \in U, IsCurrent(u.by)
               PROVE  /\ [ctx |-> x, child |-> u.by, parent |-> ran[u.from[1]].cell,
                          sym |-> u.sym] \in CellEdges
                      /\ u.from[1] \in Versions(ran[u.from[1]].cell)
    BY DEF Wanted
  <1>1. u.from[1] \in 1..now /\ u.by \in Node /\ u.sym \in Syms
    BY DEF TypeOK, Uses, Stamp
  <1> QED BY <1>1, NowFacts, VersionFacts DEF CellEdges

\* A parent taken over from the previous version ran before this one.
LEMMA InheritedFacts ==
    ASSUME TypeOK, Parents, NEW x \in Contexts, NEW U \in SUBSET Uses
    PROVE  /\ Inherited(Wanted(x, U)) \subseteq CellEdges
           /\ \A e \in Inherited(Wanted(x, U)) :
                 /\ \E u \in U : e.child = u.by /\ IsCurrent(u.by)
                 /\ Versions(e.parent) # {}
                 /\ e.child \notin Cells => \E j \in Versions(e.parent) : j <= e.child
  <1> SUFFICES ASSUME NEW d \in Wanted(x, U), NEW f \in par,
                      d.parent = CellOf(d.child), f.child \in PrevOf(d.parent),
                      f.child # d.child
               PROVE  /\ [f EXCEPT !.child = d.child] \in CellEdges
                      /\ \E u \in U : d.child = u.by /\ IsCurrent(u.by)
                      /\ Versions(f.parent) # {}
                      /\ d.child \notin Cells => \E j \in Versions(f.parent) : j <= d.child
    <2> DEFINE E == Wanted(x, U)
               From(p) == /\ p[1].parent = CellOf(p[1].child)
                          /\ p[2].child \in PrevOf(p[1].parent)
                          /\ p[2].child # p[1].child
    <2> SUFFICES ASSUME NEW e \in Inherited(E)
                 PROVE  /\ e \in CellEdges
                        /\ \E u \in U : e.child = u.by /\ IsCurrent(u.by)
                        /\ Versions(e.parent) # {}
                        /\ e.child \notin Cells => \E j \in Versions(e.parent) : j <= e.child
      OBVIOUS
    <2>1. PICK p \in E \X par : From(p) /\ e = [p[2] EXCEPT !.child = p[1].child]
      BY DEF Inherited
    <2>2. p[1] \in E /\ p[2] \in par /\ p[2] \in CellEdges
      BY DEF TypeOK, CellEdges
    <2>3. e.child = p[1].child /\ e.parent = p[2].parent
      BY <2>1, <2>2 DEF CellEdges
    <2> QED BY <2>1, <2>2, <2>3
  <1>1. f \in CellEdges /\ d \in CellEdges
    BY WantedFacts DEF TypeOK, CellEdges
  <1>2. PICK u \in U : d.child = u.by /\ IsCurrent(u.by)
    BY WantedFacts
  <1>3. OldEnough(f)
    BY DEF Parents
  <1>4. [f EXCEPT !.child = d.child] \in CellEdges
    BY <1>1 DEF CellEdges
  <1>5. ASSUME d.child \notin Cells PROVE \E j \in Versions(f.parent) : j <= d.child
    <2> DEFINE k == d.child  c == d.parent
    <2>1. k \in 1..now /\ c = ran[k].cell /\ k \in Versions(c) /\ k = Current(c)
      BY <1>1, <1>2, <1>5, VersionFacts DEF CellEdges, Node, IsCurrent
    <2>2. (f.child \in Versions(c) /\ f.child < k) \/ f.child = c
      <3> DEFINE before == Versions(c) \ {Current(c)}
      <3>1. CASE before # {}
        <4>1. before \in SUBSET (0..now) /\ now \in Nat
          BY NowFacts, VersionFacts
        <4>2. Max(before) \in before
          <5> HIDE DEF before
          <5> QED BY <3>1, <4>1, MaxExists
        <4>3. f.child = Max(before)
          BY <3>1 DEF PrevOf
        <4>4. \A j \in before : j \in 1..now /\ j <= k /\ j # k
          BY <2>1, VersionFacts
        <4> HIDE DEF before
        <4>5. f.child \in before
          BY <4>2, <4>3
        <4>6. f.child \in Versions(c)
          BY <4>5 DEF before
        <4>7. f.child \in 1..now /\ f.child <= k /\ f.child # k
          BY <4>4, <4>5
        <4> HIDE DEF k, c
        <4> QED BY <2>1, <4>1, <4>6, <4>7
      <3>2. CASE before = {}
        BY <3>2 DEF PrevOf
      <3> QED BY <3>1, <3>2
    <2>3. c \in Cells /\ CellOf(f.child) = c
      BY <1>1, <2>2, NowFacts, VersionFacts DEF CellEdges
    <2>4. \E j \in Versions(f.parent) : j < k
      BY <1>3, <2>1, <2>2, <2>3 DEF OldEnough
    <2>5. \A j \in Versions(f.parent) : j \in 1..now
      BY VersionFacts
    <2> QED BY <2>1, <2>4, <2>5, NowFacts
  <1> QED BY <1>2, <1>3, <1>4, <1>5 DEF OldEnough

\* What LinkCells does: the edges are of current versions that use a symbol, to
\* cells that have run; it leaves out an edge only for a reason.
LEMMA LinkCellsFacts ==
    ASSUME TypeOK, Parents, NEW x \in Contexts, NEW U \in SUBSET Uses, LinkCells(x, U)
    PROVE  /\ par' \subseteq CellEdges /\ chi' \subseteq CellChildren
           /\ used' \in [Cells \cup (1..MaxRuns) -> SUBSET Syms]
           /\ par \subseteq par'
           /\ \A v \in Cells \cup (1..MaxRuns) : used[v] \subseteq used'[v]
           /\ \A u \in U : u.sym \in used'[u.by]
           /\ \A e \in par' \ par :
                 /\ Versions(e.parent) # {}
                 /\ \E u \in U :
                       /\ e.child = u.by /\ IsCurrent(u.by)
                       /\ e.child \notin Cells /\ u.from[1] <= u.by
                             => \E j \in Versions(e.parent) : j <= e.child
           /\ \A f \in chi' \ chi : \E u \in U :
                 /\ f.ctx = x /\ f.child = CellOf(u.by)
                 /\ f.parent = ran[u.from[1]].cell /\ f.parent # f.child
           /\ \A u \in U :
                 \/ ~IsCurrent(u.by) \/ ~IsCurrent(u.from[1])
                 \/ ran[u.from[1]].cell = CellOf(u.by)
                 \/ \E f \in chi : /\ f.ctx = x /\ f.parent = CellOf(u.by)
                                   /\ f.child = ran[u.from[1]].cell
                 \/ \E e \in par' : /\ e.ctx = x /\ e.child = u.by
                                    /\ e.parent = ran[u.from[1]].cell
  <1> DEFINE E == Wanted(x, U)
  <1>1. E \subseteq CellEdges /\ Direct(E) \subseteq E
    BY WantedFacts DEF Direct
  <1>2. par' = par \cup Direct(E) \cup Inherited(E)
    BY DEF LinkCells
  <1>3. par' \subseteq CellEdges /\ par \subseteq par'
    BY <1>1, <1>2, InheritedFacts DEF TypeOK, CellEdges
  <1>4. /\ used' \in [Cells \cup (1..MaxRuns) -> SUBSET Syms]
        /\ \A v \in Cells \cup (1..MaxRuns) : used[v] \subseteq used'[v]
        /\ \A u \in U : u.sym \in used'[u.by]
    <2>1. \A u \in U : u.by \in Cells \cup (1..MaxRuns) /\ u.sym \in Syms
      BY NowFacts DEF Uses
    <2>2. used' = [v \in Cells \cup (1..MaxRuns) |->
                      used[v] \cup {u.sym : u \in {w \in U : w.by = v}}]
      BY DEF LinkCells, TypeOK
    <2>3. \A v \in Cells \cup (1..MaxRuns) : used[v] \in SUBSET Syms
      BY DEF TypeOK
    <2> QED BY <2>1, <2>2, <2>3
  <1>5. ASSUME NEW f \in chi' \ chi
        PROVE  /\ f \in CellChildren
               /\ \E u \in U :
                     /\ f.ctx = x /\ f.child = CellOf(u.by)
                     /\ f.parent = ran[u.from[1]].cell /\ f.parent # f.child
    <2>1. PICK e \in Direct(E) : f = [ctx |-> e.ctx, parent |-> e.parent,
                                      child |-> CellOf(e.child), sym |-> e.sym]
      BY DEF LinkCells
    <2>2. e \in E /\ e \in CellEdges /\ e.parent # CellOf(e.child)
      BY <1>1 DEF Direct
    <2>3. PICK u \in U : /\ e.ctx = x /\ e.child = u.by
                         /\ e.parent = ran[u.from[1]].cell
      BY <2>2, WantedFacts
    <2>4. f \in CellChildren
      BY <2>1, <2>2, NowFacts DEF CellChildren, CellEdges
    <2> QED BY <2>1, <2>2, <2>3, <2>4
  <1>6. chi' \subseteq CellChildren
    BY <1>5 DEF TypeOK, CellChildren
  <1>7. ASSUME NEW e \in par' \ par
        PROVE  /\ Versions(e.parent) # {}
               /\ \E u \in U :
                     /\ e.child = u.by /\ IsCurrent(u.by)
                     /\ e.child \notin Cells /\ u.from[1] <= u.by
                           => \E j \in Versions(e.parent) : j <= e.child
    <2>1. CASE e \in E
      BY <2>1, WantedFacts
    <2>2. CASE e \in Inherited(E)
      BY <2>2, InheritedFacts
    <2> QED BY <1>1, <1>2, <2>1, <2>2
  <1>8. ASSUME NEW u \in U, IsCurrent(u.by), IsCurrent(u.from[1]),
               ran[u.from[1]].cell # CellOf(u.by),
               ~\E f \in chi : /\ f.ctx = x /\ f.parent = CellOf(u.by)
                               /\ f.child = ran[u.from[1]].cell
        PROVE  \E e \in par' : /\ e.ctx = x /\ e.child = u.by
                               /\ e.parent = ran[u.from[1]].cell
    <2> DEFINE e == [ctx |-> x, child |-> u.by, parent |-> ran[u.from[1]].cell,
                     sym |-> u.sym]
    <2>1. e \in E
      BY <1>8 DEF Wanted
    <2>2. e \in Direct(E)
      BY <1>8, <2>1 DEF Direct
    <2> QED BY <1>2, <2>2
  <1> QED BY <1>3, <1>4, <1>5, <1>6, <1>7, <1>8

\* What parents have to do with versions, a new run does not undo.
LEMMA ParentsKept ==
    ASSUME TypeOK, Grows, Parents, now' <= now + 1
    PROVE  \A e \in par : OldEnough(e)'
  <1> SUFFICES ASSUME NEW e \in par PROVE OldEnough(e)'
    OBVIOUS
  <1>1. /\ now \in Nat /\ now' \in Nat /\ now <= now' /\ now' <= now + 1
        /\ OldEnough(e) /\ e \in CellEdges
    BY NowFacts DEF Grows, Parents, TypeOK, CellEdges
  <1>2. /\ \A c : Versions(c) \subseteq 1..now /\ Versions(c) \subseteq Versions(c)'
        /\ \A c : \A k \in Versions(c)' : k \in 1..now' /\ (k \in Versions(c) \/ k = now + 1)
    <2>1. \A c : Versions(c)' \subseteq 1..now'
      BY DEF Versions
    <2> QED BY <1>1, <2>1, Kept, VersionFacts
  <1>3. CellOf(e.child)' = CellOf(e.child)
    BY <1>1, Kept DEF CellEdges
  <1>4. PICK i \in Versions(e.parent) : i \in 1..now
    BY <1>1, <1>2 DEF OldEnough
  <1>5. ASSUME NEW k \in Versions(CellOf(e.child))', e.child \in Cells \/ e.child < k
        PROVE  \E j \in Versions(e.parent)' : j < k
    <2>1. CASE k \in Versions(CellOf(e.child))
      BY <1>1, <1>2, <1>5, <2>1 DEF OldEnough
    <2>2. CASE k = now + 1
      BY <1>1, <1>2, <1>4, <2>2
    <2> QED BY <1>2, <1>3, <1>5, <2>1, <2>2
  <1>6. ASSUME e.child \in (1..(now' - 1)) \ edited', ~Failed(e.child)'
        PROVE  \E j \in Versions(e.parent)' : j <= e.child
    <2>1. CASE e.child = now
      BY <1>1, <1>2, <1>4, <2>1
    <2>2. CASE e.child # now
      <3>1. e.child \in 1..now /\ e.child \in (1..(now - 1)) \ edited
        BY <1>1, <1>6, <2>2 DEF Grows
      <3>2. ~Failed(e.child)
        BY <1>6, <2>2, <3>1, Kept
      <3> QED BY <1>1, <1>2, <3>1, <3>2 DEF OldEnough
    <2> QED BY <2>1, <2>2
  <1>7. Versions(e.parent)' # {}
    BY <1>2, <1>4
  <1> QED BY <1>3, <1>5, <1>6, <1>7 DEF OldEnough

\* New edges are of current versions, to cells that ran before them.
LEMMA ParentsLinked ==
    ASSUME TypeOK, Grows, Parents, ran' = ran,
           NEW x \in Contexts, NEW U \in SUBSET Uses, LinkCells(x, U),
           \A u \in U : \/ u.by \in Cells \cup {now} \cup edited
                        \/ Failed(u.by) \/ u.from[1] <= u.by
    PROVE  Parents'
  <1> SUFFICES ASSUME NEW e \in par' \ par PROVE OldEnough(e)'
    <2>1. now' = now
      BY DEF now
    <2> QED BY <2>1, NowFacts, ParentsKept DEF Parents
  <1>1. PICK u \in U : /\ Versions(e.parent) # {}
                       /\ e.child = u.by /\ IsCurrent(u.by)
                       /\ e.child \notin Cells /\ u.from[1] <= u.by
                             => \E j \in Versions(e.parent) : j <= e.child
    BY LinkCellsFacts
  <1>2. now' = now /\ \A c : Versions(c)' = Versions(c) /\ CellOf(e.child)' = CellOf(e.child)
    BY DEF now, Versions, CellOf
  <1>3. e.child \in Node
    BY <1>1 DEF Uses
  <1>4. ASSUME NEW k \in Versions(CellOf(e.child)), e.child \in Cells \/ e.child < k
        PROVE  FALSE
    <2>1. e.child \in Versions(CellOf(e.child)) /\ k <= e.child
      BY <1>1, <1>4, VersionFacts DEF IsCurrent
    <2>2. e.child \in 1..now /\ k \in 1..now
      BY <2>1, VersionFacts
    <2> QED BY <1>4, <2>1, <2>2, NowFacts
  <1>5. ASSUME e.child \in (1..(now - 1)) \ edited', ~Failed(e.child)'
        PROVE  \E j \in Versions(e.parent) : j <= e.child
    <2>1. e.child \in 1..now /\ e.child # now /\ e.child \notin edited
      BY <1>5, NowFacts DEF Grows
    <2>2. e.child \notin Cells /\ ~Failed(e.child)
      BY <1>5, <2>1, NowFacts, Kept
    <2> QED BY <1>1, <2>1, <2>2
  <1> QED BY <1>1, <1>2, <1>4, <1>5 DEF OldEnough

\* A dynamic edge to a child is for a read.
LEMMA ChildrenLinked ==
    ASSUME TypeOK, Grows, Parents, Children, ran' = ran,
           NEW x \in Contexts, NEW U \in SUBSET Uses, LinkCells(x, U),
           x = "dynamic" => \A u \in U :
               \/ CellOf(u.by) = ran[u.from[1]].cell
               \/ ReadsBack(CellOf(u.by), ran[u.from[1]].cell)'
    PROVE  Children'
  <1> SUFFICES ASSUME NEW f \in chi', f.ctx = "dynamic"
               PROVE  ReadsBack(f.child, f.parent)'
    BY DEF Children
  <1>1. CASE f \in chi
    <2>1. PICK q \in reads : ran[q.at[1]].cell = f.child /\ ran[q.from[1]].cell = f.parent
      BY <1>1 DEF Children, ReadsBack
    <2>2. q.at[1] \in 1..now /\ q.from[1] \in 1..now /\ q \in reads'
      BY DEF TypeOK, Stamp, Grows
    <2> QED BY <2>1, <2>2 DEF ReadsBack, Grows
  <1>2. CASE f \notin chi
    <2>1. PICK u \in U : /\ f.ctx = x /\ f.child = CellOf(u.by)
                         /\ f.parent = ran[u.from[1]].cell /\ f.parent # f.child
      BY <1>2, LinkCellsFacts
    <2>2. ReadsBack(CellOf(u.by), ran[u.from[1]].cell)' = ReadsBack(f.child, f.parent)'
      BY <2>1 DEF ReadsBack, CellOf
    <2> QED BY <2>1, <2>2 DEF CellOf
  <1> QED BY <1>1, <1>2

-----------------------------------------------------------------------------
(* Static edges.                                                           *)

\* A check of version v with a content uses symbols that statements of it use;
\* a use by an older version is of a symbol that it has not used yet.
LEMMA StaticUsesFacts ==
    ASSUME TypeOK, NEW v \in Node, NEW content \in Contents \cup {<< >>}
    PROVE  /\ StaticUses(v, content) \in SUBSET Uses
           /\ \A u \in StaticUses(v, content) :
                 /\ u.by = v /\ u.at \in 1..Len(content)
                 /\ u.sym \in content[u.at].use
                 /\ v = now \/ u.sym \notin used[v]
  <1> SUFFICES ASSUME NEW p \in (DOMAIN content) \X Syms, p[2] \in content[p[1]].use,
                      lastWrite[p[2]] # None
               PROVE  Use(v, p[1], p[2]) \in Uses /\ p[1] \in 1..Len(content)
    BY DEF StaticUses, Live, Use
  <1>1. content \in Contents
    OBVIOUS
  <1>2. p[1] \in 1..Len(content) /\ Len(content) \in Nat /\ p[1] \in Nat
    BY <1>1, NowFacts
  <1>3. lastWrite[p[2]] \in made
    BY DEF TypeOK
  <1> QED BY <1>2, <1>3 DEF Uses, Use

\* What is deferred are static edges of runs.
LEMMA DeferFacts ==
    ASSUME TypeOK, NEW v \in Node, NEW content \in Contents \cup {<< >>}
    PROVE  /\ Defer(StaticUses(v, content)) \subseteq
                 [ctx : Contexts, child : Stamp, parent : made, sym : Syms]
           /\ \A e \in Defer(StaticUses(v, content)) : e.ctx = "static"
  <1> SUFFICES ASSUME NEW u \in StaticUses(v, content), u.by \notin Cells
               PROVE  [ctx |-> "static", child |-> <<u.by, u.at>>, parent |-> u.from,
                       sym |-> u.sym]
                        \in [ctx : Contexts, child : Stamp, parent : made, sym : Syms]
    BY DEF Defer, Between, TypeOK
  <1>1. u \in Uses /\ u.at \in 1..Len(content) /\ content \in Contents \cup {<< >>}
    BY StaticUsesFacts
  <1>2. u.at \in Nat \ {0}
    BY <1>1, NowFacts
  <1> QED BY <1>1, <1>2 DEF Uses, Stamp, Node, Contexts

-----------------------------------------------------------------------------
(* The actions.                                                            *)

\* A new run, which has done nothing yet.
LEMMA StartRunInv ==
    ASSUME IInv, NEW c \in Cells, NEW content \in Contents, StartRun(c, content)
    PROVE  IInv'
  <1> USE DEF IInv
  <1>1. /\ now' = now + 1 /\ ran'[now + 1] = [cell |-> c, content |-> content]
        /\ \A k \in 1..now : ran'[k] = ran[k]
        /\ ran' \in Seq([cell : Cells, content : Contents])
    BY DEF StartRun, TypeOK, now
  <1>2. /\ text' \in Seq(Contents) /\ Len(text') = now' /\ text'[now + 1] = content
        /\ \A k \in 1..now : text'[k] = text[k]
    BY <1>1 DEF StartRun, TypeOK
  <1>3. now \in Nat /\ now' \in Nat /\ now' <= MaxRuns /\ Node \subseteq Node' /\ Stamp \subseteq Stamp'
    BY <1>1, NowFacts DEF StartRun, Node, Stamp
  <1>4. /\ UNCHANGED <<draft, untracked, edited, par, chi, used, made, slid, stmtPar>>
        /\ UNCHANGED <<deferred, lastWrite, override, enabled, todo, edits, reads>>
        /\ pc = "idle" /\ pc' = "precheck"
    BY DEF StartRun, edges, stmts
  <1>5. Grows
    BY <1>1, <1>3, <1>4 DEF Grows
  <1>6. TypeOK'
    <2>1. edited' \subseteq 1..now'
      BY <1>1, <1>3, <1>4 DEF TypeOK
    <2>2. /\ par' \subseteq [ctx : Contexts, child : Node, parent : Cells, sym : Syms]'
          /\ stmtPar' \subseteq [ctx : Contexts, child : Stamp, parent : made, sym : Syms]'
          /\ deferred' \subseteq [ctx : Contexts, child : Stamp, parent : made, sym : Syms]'
      BY <1>3, <1>4 DEF TypeOK
    <2>3. made' \subseteq Stamp'
      BY <1>3, <1>4 DEF TypeOK
    <2> QED BY <1>1, <1>2, <1>3, <1>4, <2>1, <2>2, <2>3 DEF TypeOK
  <1>7. Length(now)' = Len(content) /\ Len(content) \in Nat
    BY <1>1, NowFacts DEF Length
  <1>8. Numbered'
    <2>1. \A k \in (1..now') \ edited' : text'[k] = ran'[k].content
      BY <1>1, <1>2, <1>3, <1>4 DEF Numbered
    <2>2. /\ \A t \in slid : t \in Stamp /\ t[1] \in 1..now
          /\ \A s \in Syms : lastWrite[s] # None => lastWrite[s] \in Stamp
          /\ \A e \in stmtPar : e.child \in Stamp
          /\ \A r \in reads : r.from \in Stamp
      BY DEF TypeOK, Stamp
    <2>3. \A t \in slid' : t[1] \notin edited' => t[2] = Length(t[1])' + 1
      BY <1>4, <1>5, <2>2, Kept DEF Numbered
    <2>4. /\ \A s \in Syms : lastWrite'[s] # None => WasRun(lastWrite[s])'
          /\ \A e \in stmtPar' : e.ctx = "dynamic" => WasRun(e.child)'
          /\ \A r \in reads' : WasRun(r.from)'
      BY <1>4, <1>5, <2>2, Kept DEF Numbered
    <2> QED BY <1>4, <2>1, <2>3, <2>4 DEF Numbered
  <1>9. Progress'
    <2>1. \A t \in made : t[1] # now + 1
      BY <1>3 DEF TypeOK, Stamp
    <2>2. now + 1 \notin edited
      BY <1>3 DEF TypeOK
    <2>3. {t \in made : t[1] = now + 1} = {now + 1} \X (1..0)
      BY <2>1
    <2>4. slid \subseteq made
      BY DEF TypeOK
    <2>5. 0 \in 0..Length(now)'
      BY <1>7
    <2>6. \E n \in 0..Length(now)' : {t \in made' : t[1] = now'} = {now'} \X (1..n)
      BY <1>1, <1>4, <2>3, <2>5
    <2> QED BY <1>1, <1>3, <1>4, <2>1, <2>2, <2>4, <2>6 DEF Progress
  <1>10. Ended'
    BY <1>1, <1>3, <1>4, <1>5, FinishedKept DEF Ended
  <1>11. Override'
    BY <1>4, <1>5, Kept DEF Override
  <1>12. Reads'
    BY <1>4, <1>5, ReadsKept DEF Reads
  <1>13. Children'
    <2>1. \A q \in reads : q.at[1] \in 1..now /\ q.from[1] \in 1..now
      BY DEF TypeOK, Stamp
    <2>2. \A d, e : ReadsBack(d, e) => ReadsBack(d, e)'
      BY <1>1, <1>4, <2>1 DEF ReadsBack
    <2> QED BY <1>4, <2>2 DEF Children
  <1>14. Parents'
    BY <1>1, <1>3, <1>4, <1>5, ParentsKept DEF Parents
  <1> QED BY <1>6, <1>8, <1>9, <1>10, <1>11, <1>12, <1>13, <1>14

\* A check of one version, or none.
Checks(v, content) ==
    /\ \/ /\ LinkCells("static", StaticUses(v, content))
          /\ deferred' = Defer(StaticUses(v, content))
       \/ UNCHANGED <<edges, deferred>>
    /\ UNCHANGED <<nodes, made, slid, stmtPar, lastWrite, override, enabled, edits,
                   reads>>

\* It changes the edges between cells only, and edges that are deferred.
LEMMA ChecksFacts ==
    ASSUME IInv, NEW v \in Node, NEW content \in Contents \cup {<< >>},
           v \in Cells \cup {now} \/ content = text[v], Checks(v, content),
           todo' \subseteq Cells,
           pc' \in {"idle", "precheck", "run", "cleanup", "postcheck", "checking"}
    PROVE  /\ TypeOK' /\ Numbered' /\ Override' /\ Reads' /\ Children' /\ Parents'
           /\ \A k \in 1..now : Finished(k) => Finished(k)'
  <1> USE DEF IInv
  <1> DEFINE U == StaticUses(v, content)
  <1>1. /\ UNCHANGED <<ran, text, draft, untracked, edited, made, slid, stmtPar, reads>>
        /\ UNCHANGED <<lastWrite, override, enabled, edits>>
        /\ now' = now /\ Node' = Node /\ Stamp' = Stamp
    BY DEF Checks, nodes, now, Node, Stamp
  <1>2. U \in SUBSET Uses /\ "static" \in Contexts
    BY StaticUsesFacts DEF Contexts
  <1>3. \/ LinkCells("static", U) /\ deferred' = Defer(U)
        \/ UNCHANGED <<par, chi, used, deferred>>
    BY DEF Checks, edges
  <1> HIDE DEF U
  <1>4. /\ par' \subseteq CellEdges /\ chi' \subseteq CellChildren /\ par \subseteq par'
        /\ used' \in [Cells \cup (1..MaxRuns) -> SUBSET Syms]
        /\ \A w \in Cells \cup (1..MaxRuns) : used[w] \subseteq used'[w]
    <2>1. CASE LinkCells("static", U)
      BY <1>2, <2>1, LinkCellsFacts
    <2>2. CASE UNCHANGED <<par, chi, used, deferred>>
      BY <2>2 DEF TypeOK, CellEdges, CellChildren
    <2> QED BY <1>3, <2>1, <2>2
  <1>5. /\ deferred' \subseteq [ctx : Contexts, child : Stamp, parent : made, sym : Syms]
        /\ \A e \in deferred' : e.ctx = "static"
    <2>1. CASE deferred' = Defer(U)
      BY <2>1, DeferFacts DEF U
    <2>2. CASE deferred' = deferred
      BY <2>2 DEF TypeOK
    <2> QED BY <1>3, <2>1, <2>2
  <1>6. Grows
    BY <1>1, <1>4, NowFacts DEF Grows
  <1>7. TypeOK'
    <2>1. /\ par' \subseteq [ctx : Contexts, child : Node, parent : Cells, sym : Syms]'
          /\ chi' \subseteq [ctx : Contexts, parent : Cells, child : Cells, sym : Syms]
      BY <1>1, <1>4 DEF CellEdges, CellChildren
    <2> QED BY <1>1, <1>4, <1>5, <2>1 DEF TypeOK
  <1>8. \A t : WasRun(t)' <=> WasRun(t)
    BY <1>1 DEF WasRun, Length
  <1>9. Numbered'
    BY <1>1, <1>8 DEF Numbered, Length
  <1>10. Override'
    BY <1>1, <1>6, Kept DEF Override
  <1>11. Reads'
    BY <1>1, <1>6, ReadsKept DEF Reads
  <1>12. Children'
    <2>1. CASE LinkCells("static", U)
      BY <1>1, <1>2, <1>6, <2>1, ChildrenLinked
    <2>2. CASE UNCHANGED <<par, chi, used, deferred>>
      BY <1>1, <2>2 DEF Children, ReadsBack
    <2> QED BY <1>3, <2>1, <2>2
  <1>13. Parents'
    <2>1. CASE LinkCells("static", U)
      <3>1. ASSUME NEW u \in U, v \notin Cells \cup {now} \cup edited PROVE Failed(v)
        <4>1. v \in 1..now /\ content = ran[v].content
          BY <3>1 DEF Node, Numbered
        <4>2. /\ u.at \in 1..Len(content) /\ u.sym \in content[u.at].use
              /\ u.sym \notin used[v]
          BY <3>1, StaticUsesFacts DEF U
        <4>3. ~HasRead(<<v, u.at>>, u.sym)
          BY <4>2 DEF HasRead, Reads, ReadOK
        <4>4. u.at \in DOMAIN ran[v].content
          BY <4>1, <4>2, NowFacts
        <4> QED BY <4>1, <4>2, <4>3, <4>4 DEF Failed
      <3>2. \A u \in U : u.by = v
        BY StaticUsesFacts DEF U
      <3>3. \A u \in U : u.by \in Cells \cup {now} \cup edited \/ Failed(u.by)
        BY <3>1, <3>2
      <3> QED BY <1>1, <1>2, <1>6, <2>1, <3>3, ParentsLinked
    <2>2. CASE UNCHANGED <<par, chi, used, deferred>>
      BY <1>1, <1>6, <2>2, NowFacts, ParentsKept DEF Parents
    <2> QED BY <1>3, <2>1, <2>2
  <1> QED BY <1>1, <1>6, <1>7, <1>9, <1>10, <1>11, <1>12, <1>13, FinishedKept

\* The check before a run.
LEMMA PrecheckInv == ASSUME IInv, Precheck PROVE IInv'
  <1> USE DEF IInv
  <1>1. now \in Node /\ text[now] \in Contents
    BY NowFacts DEF Precheck, Progress, Running
  <1>2. Checks(now, text[now]) /\ todo' = todo /\ pc = "precheck" /\ pc' = "run"
    BY DEF Precheck, Checks
  <1>3. todo' \subseteq Cells
    BY <1>2 DEF TypeOK
  <1>4. /\ TypeOK' /\ Numbered' /\ Override' /\ Reads' /\ Children' /\ Parents'
        /\ \A k \in 1..now : Finished(k) => Finished(k)'
    BY <1>1, <1>2, <1>3, ChecksFacts
  <1>5. UNCHANGED <<ran, edited, made, slid>> /\ now' = now
    BY DEF Precheck, nodes, now
  <1>6. Progress'
    BY <1>2, <1>5 DEF Progress, Running, Length
  <1>7. Ended'
    BY <1>2, <1>4, <1>5 DEF Ended
  <1> QED BY <1>4, <1>6, <1>7

\* The check after a run.
LEMMA PostcheckInv == ASSUME IInv, Postcheck PROVE IInv'
  <1> USE DEF IInv
  <1>1. now \in Node /\ text[now] \in Contents
    BY NowFacts DEF Postcheck, Progress, Running
  <1>2. Checks(now, text[now]) /\ todo' = todo /\ pc = "postcheck" /\ pc' = "idle"
    BY DEF Postcheck, Checks
  <1>3. todo' \subseteq Cells
    BY <1>2 DEF TypeOK
  <1>4. /\ TypeOK' /\ Numbered' /\ Override' /\ Reads' /\ Children' /\ Parents'
        /\ \A k \in 1..now : Finished(k) => Finished(k)'
    BY <1>1, <1>2, <1>3, ChecksFacts
  <1>5. UNCHANGED <<ran, edited, made, slid>> /\ now' = now
    BY DEF Postcheck, nodes, now
  <1>6. Progress'
    BY <1>2 DEF Progress, Running
  <1>7. Ended'
    BY <1>2, <1>4, <1>5 DEF Ended
  <1> QED BY <1>4, <1>6, <1>7

\* The check of a cell after an edit.
LEMMA CheckNextInv == ASSUME IInv, NEW c \in todo, CheckNext(c) PROVE IInv'
  <1> USE DEF IInv
  <1> DEFINE v == Current(c)
  <1>1. c \in Cells
    BY DEF TypeOK
  <1>2. v \in Node /\ (v \in 1..now \/ v = c)
    BY <1>1, NowFacts, VersionFacts
  <1>3. TextOf(v) \in Contents \cup {<< >>} /\ (v \in Cells \/ TextOf(v) = text[v])
    <2>1. CASE v \in Cells
      BY <2>1 DEF TextOf, TypeOK
    <2>2. CASE v \notin Cells
      BY <1>1, <1>2, <2>2, NowFacts DEF TextOf
    <2> QED BY <2>1, <2>2
  <1>4. /\ Checks(v, TextOf(v)) /\ todo' \subseteq Cells
        /\ pc = "checking" /\ pc' \in {"idle", "checking"}
    BY DEF CheckNext, Checks, TypeOK
  <1> HIDE DEF v
  <1>5. /\ TypeOK' /\ Numbered' /\ Override' /\ Reads' /\ Children' /\ Parents'
        /\ \A k \in 1..now : Finished(k) => Finished(k)'
    BY <1>2, <1>3, <1>4, ChecksFacts
  <1>6. UNCHANGED <<ran, edited, made, slid>> /\ now' = now
    BY <1>4 DEF Checks, nodes, now
  <1>7. Progress'
    BY <1>4 DEF Progress, Running
  <1>8. Ended'
    BY <1>4, <1>5, <1>6 DEF Ended
  <1> QED BY <1>5, <1>7, <1>8

\* The statement that comes next is not tracked yet.
LEMMA UpcomingFacts ==
    ASSUME IInv, pc = "run"
    PROVE  /\ now \in 1..now /\ now \in Nat /\ now \notin edited
           /\ \E n \in 0..Length(now) : {t \in made : t[1] = now} = {now} \X (1..n)
                                        /\ Upcoming = n + 1
           /\ Upcoming \in Nat \ {0}
           /\ <<now, Upcoming>> \notin made /\ <<now, Upcoming>> # None
           /\ Upcoming <= Len(ran[now].content) => /\ Stmt.use \subseteq Syms
                                                   /\ Stmt.def \in Syms
                                                   /\ Upcoming \in DOMAIN ran[now].content
  <1> USE DEF IInv
  <1>1. /\ now # 0 /\ now \notin edited /\ \A t \in slid : t[1] # now
        /\ \E n \in 0..Length(now) : {t \in made : t[1] = now} = {now} \X (1..n)
    BY DEF Progress, Running
  <1>2. now \in Nat /\ now \in 1..now
    BY <1>1, NowFacts
  <1>3. PICK n \in 0..Length(now) : {t \in made : t[1] = now} = {now} \X (1..n)
    BY <1>1
  <1>4. n \in Nat
    BY <1>2, NowFacts
  <1>5. {t \in made \ slid : t[1] = now} = {now} \X (1..n)
    BY <1>1, <1>3
  <1>6. Cardinality({now} \X (1..n)) = n
    <2>1. IsFiniteSet({now}) /\ Cardinality({now}) = 1
      BY FS_Singleton
    <2>2. IsFiniteSet(1..n) /\ Cardinality(1..n) = n
      BY <1>4, FS_Interval
    <2>3. Cardinality({now} \X (1..n)) = Cardinality({now}) * Cardinality(1..n)
      BY <2>1, <2>2, FS_Product
    <2> QED BY <1>4, <2>1, <2>2, <2>3
  <1>7. Upcoming = n + 1
    BY <1>5, <1>6 DEF Upcoming
  <1>8. <<now, n + 1>> \notin made
    <2>1. <<now, n + 1>> \notin {now} \X (1..n)
      BY <1>4
    <2>2. <<now, n + 1>>[1] = now
      OBVIOUS
    <2> QED BY <1>3, <2>1, <2>2
  <1>9. ASSUME Upcoming <= Len(ran[now].content)
        PROVE  /\ Stmt.use \subseteq Syms /\ Stmt.def \in Syms
               /\ Upcoming \in DOMAIN ran[now].content
    BY <1>2, <1>4, <1>7, <1>9, NowFacts DEF Stmt
  <1>10. <<now, n + 1>> # None
    BY <1>1 DEF None
  <1> QED BY <1>1, <1>2, <1>3, <1>4, <1>7, <1>8, <1>9, <1>10

\* What tracking and reading do.
LEMMA StmtEdgesFacts ==
    ASSUME IInv, pc = "run", Upcoming <= Len(ran[now].content), StmtEdges,
           UNCHANGED <<nodes, slid>>
    PROVE  /\ Grows /\ Reads' /\ Children' /\ Parents'
           /\ made' = made \cup {<<now, Upcoming>>} /\ made' \subseteq Stamp
           /\ IsFiniteSet(made')
           /\ par' \subseteq CellEdges /\ chi' \subseteq CellChildren
           /\ used' \in [Cells \cup (1..MaxRuns) -> SUBSET Syms]
           /\ stmtPar' \subseteq [ctx : Contexts, child : Stamp, parent : made', sym : Syms]
           /\ deferred' \subseteq [ctx : Contexts, child : Stamp, parent : made', sym : Syms]
           /\ \A e \in deferred' : e.ctx = "static"
           /\ reads' \subseteq [at : made', sym : Syms, from : made', over : made' \cup {None}]
           /\ \A e \in stmtPar' : e.ctx = "dynamic" => WasRun(e.child)
           /\ \A r \in reads' : WasRun(r.from)
           /\ \A s \in Syms \ Defined : \A r \in reads' :
                 ~(r.at = <<now, Upcoming>> /\ r.sym = s)
  <1> USE DEF IInv
  <1> DEFINE here == <<now, Upcoming>>
             late == {e \in deferred : e.child = here}
             U == {Use(now, Upcoming, s) : s \in Defined}
             B == Between("dynamic", U)
             New(s) == [at |-> here, sym |-> s, from |-> lastWrite[s], over |-> override[s]]
  <1>1. /\ now \in 1..now /\ now \in Nat /\ Upcoming \in Nat \ {0}
        /\ here \notin made /\ Stmt.use \subseteq Syms
    BY UpcomingFacts
  <1>2. Defined \subseteq Syms /\ \A s \in Defined : lastWrite[s] \in made
    BY <1>1 DEF Defined, TypeOK
  <1>3. U \in SUBSET Uses /\ "dynamic" \in Contexts
    BY <1>1, <1>2, NowFacts DEF Uses, Use, Contexts
  <1>4. /\ made' = made \cup {here} /\ deferred' = deferred \ late
        /\ stmtPar' = stmtPar \cup Linked(late) \cup Linked(B)
        /\ LinkCells("dynamic", U)
    BY DEF StmtEdges
  <1>5. /\ reads \subseteq reads' /\ \A s \in Defined : New(s) \in reads'
        /\ \A r \in reads' : r \in reads \/ \E s \in Defined : r = New(s)
    <2>1. reads' = reads \cup {[at |-> here, sym |-> u.sym, from |-> u.from,
                                over |-> override[u.sym]] : u \in U}
      BY DEF StmtEdges
    <2>2. \A s \in Defined : /\ Use(now, Upcoming, s) \in U
                             /\ Use(now, Upcoming, s).sym = s
                             /\ Use(now, Upcoming, s).from = lastWrite[s]
      BY DEF Use
    <2>3. \A u \in U : \E s \in Defined : u.sym = s /\ u.from = lastWrite[s]
      BY DEF Use
    <2> HIDE DEF U
    <2>4. ASSUME NEW s \in Defined PROVE New(s) \in reads'
      <3>1. PICK u \in U : u.sym = s /\ u.from = lastWrite[s]
        BY <2>2
      <3> QED BY <2>1, <3>1
    <2>5. ASSUME NEW r \in reads', r \notin reads PROVE \E s \in Defined : r = New(s)
      <3>1. PICK u \in U : r = [at |-> here, sym |-> u.sym, from |-> u.from,
                                over |-> override[u.sym]]
        BY <2>1, <2>5
      <3> QED BY <2>3, <3>1
    <2> QED BY <2>1, <2>4, <2>5
  <1>6. UNCHANGED <<ran, text, draft, untracked, edited, slid>> /\ now' = now
    BY DEF nodes, now
  <1>7. here \in Stamp /\ made' \subseteq Stamp /\ IsFiniteSet(made')
    <2>1. here \in Stamp
      BY <1>1 DEF Stamp
    <2>2. IsFiniteSet(made \cup {here})
      BY FS_AddElement DEF TypeOK
    <2> QED BY <1>4, <2>1, <2>2 DEF TypeOK
  <1>8. /\ par' \subseteq CellEdges /\ chi' \subseteq CellChildren
        /\ used' \in [Cells \cup (1..MaxRuns) -> SUBSET Syms]
        /\ par \subseteq par'
        /\ \A v \in Cells \cup (1..MaxRuns) : used[v] \subseteq used'[v]
        /\ \A u \in U : u.sym \in used'[u.by]
    BY <1>3, <1>4, LinkCellsFacts
  <1>9. B \subseteq [ctx : Contexts, child : Stamp, parent : made, sym : Syms]
    <2>1. \A u \in U : /\ u.by = now /\ u.at = Upcoming /\ u.from \in made
                       /\ u.sym \in Syms
      BY <1>2 DEF Use
    <2> QED BY <1>3, <1>7, <2>1 DEF Between
  <1>10. Linked(late) \subseteq deferred /\ Linked(B) \subseteq B
    BY DEF Linked
  <1>11. /\ stmtPar' \subseteq [ctx : Contexts, child : Stamp, parent : made', sym : Syms]
         /\ deferred' \subseteq [ctx : Contexts, child : Stamp, parent : made', sym : Syms]
         /\ \A e \in deferred' : e.ctx = "static"
    <2>1. made \subseteq made' /\ deferred' \subseteq deferred
      BY <1>4
    <2>2. /\ stmtPar \subseteq [ctx : Contexts, child : Stamp, parent : made', sym : Syms]
          /\ deferred \subseteq [ctx : Contexts, child : Stamp, parent : made', sym : Syms]
          /\ B \subseteq [ctx : Contexts, child : Stamp, parent : made', sym : Syms]
      BY <1>9, <2>1 DEF TypeOK
    <2> HIDE DEF B, late
    <2> QED BY <1>4, <1>10, <2>1, <2>2 DEF TypeOK
  <1>12. Grows
    <2>1. stmtPar \subseteq stmtPar' /\ reads \subseteq reads'
      BY <1>4, <1>5
    <2>2. \A r \in reads' \ reads : r.at[1] = now
      BY <1>5
    <2> QED BY <1>1, <1>4, <1>6, <1>8, <2>1, <2>2 DEF Grows
  <1>13. \A s \in Defined : New(s) \in [at : made', sym : Syms, from : made',
                                        over : made' \cup {None}]
    BY <1>2, <1>4 DEF TypeOK
  <1>14. reads' \subseteq [at : made', sym : Syms, from : made', over : made' \cup {None}]
    <2>1. made \subseteq made'
      BY <1>4
    <2>2. reads \subseteq [at : made', sym : Syms, from : made', over : made' \cup {None}]
      BY <2>1 DEF TypeOK
    <2> HIDE DEF New
    <2> QED BY <1>5, <1>13, <2>2
  <1>15. \A e \in stmtPar' : e.ctx = "dynamic" => WasRun(e.child)
    <2>1. \A e \in B : e.child = here
      BY DEF Between, Use
    <2>2. WasRun(here)
      BY DEF WasRun, Length
    <2>3. \A e \in deferred : e.ctx # "dynamic"
      BY DEF TypeOK
    <2> HIDE DEF B, late, here
    <2> QED BY <1>4, <1>10, <2>1, <2>2, <2>3 DEF Numbered
  <1>16. \A r \in reads' : WasRun(r.from)
    <2>1. \A s \in Defined : WasRun(lastWrite[s])
      BY <1>2 DEF Numbered, Defined
    <2> QED BY <1>5, <2>1 DEF Numbered
  <1>17. ASSUME NEW r \in reads', r \notin reads PROVE ReadOK(r)' /\ CellReadOK(r)'
    <2>1. PICK s \in Defined : r = New(s)
      BY <1>5, <1>17
    <2>2. /\ r.at = here /\ r.from = lastWrite[s] /\ r.sym = s /\ r.over = override[s]
          /\ s \in Syms /\ r.from \in made /\ r.from \in Stamp /\ r.from # None
      BY <1>2, <2>1 DEF TypeOK, Defined
    <2>3. r.at # r.from
      BY <1>1, <2>2
    <2>4. HasEdge(r.at, r.from)'
      <3> DEFINE e == [ctx |-> "dynamic", child |-> here, parent |-> lastWrite[s],
                       sym |-> s]
      <3>1. PICK u \in U : /\ u.by = now /\ u.at = Upcoming /\ u.sym = s
                           /\ u.from = lastWrite[s]
        <4> DEFINE w == Use(now, Upcoming, s)
        <4>1. w \in U
          OBVIOUS
        <4>2. w.by = now /\ w.at = Upcoming /\ w.sym = s /\ w.from = lastWrite[s]
          BY DEF Use
        <4> HIDE DEF U, w
        <4> QED BY <4>1, <4>2
      <3>2. e \in B
        <4> HIDE DEF U
        <4> QED BY <3>1 DEF Between
      <3>3. ~\E f \in stmtPar : f.parent = here
        BY <1>1 DEF TypeOK
      <3>4. e \in Linked(B)
        BY <2>2, <2>3, <3>2, <3>3 DEF Linked
      <3>5. e \in stmtPar' /\ e.ctx = "dynamic" /\ e.child = r.at /\ e.parent = r.from
        BY <1>4, <2>2, <3>4
      <3> HIDE DEF e
      <3> QED BY <3>5 DEF HasEdge
    <2>5. r.sym \in used'[r.at[1]]
      <3>1. Use(now, Upcoming, s) \in U
        OBVIOUS
      <3> QED BY <1>8, <2>2, <3>1 DEF Use
    <2>6. r.from[1] \in 1..now /\ r.at[1] = now
      BY <2>2 DEF Stamp
    <2>7. \/ r.over = None \/ r.from[1] \in edited'
          \/ (r.over # r.from /\ HasEdge(r.from, r.over)')
      <3>1. CASE override[s] = None
        BY <2>2, <3>1
      <3>2. CASE override[s] # None
        <4>1. \/ lastWrite[s][1] \in edited
              \/ (override[s] # lastWrite[s] /\ HasEdge(lastWrite[s], override[s]))
          BY <2>2, <3>2 DEF Override
        <4>2. HasEdge(r.from, r.over) => HasEdge(r.from, r.over)'
          BY <1>12, Kept
        <4> QED BY <1>6, <2>2, <4>1, <4>2
      <3> QED BY <3>1, <3>2
    <2>8. ReadOK(r)'
      BY <1>1, <2>3, <2>4, <2>5, <2>6, <2>7 DEF ReadOK
    <2>9. CellReadOK(r)'
      <3> DEFINE k == r.from[1]  c == ran[k].cell  d == ran[now].cell
      <3>1. k \in 1..now /\ c \in Cells /\ d \in Cells /\ d = CellOf(now)
        BY <1>1, <2>6, NowFacts, VersionFacts
      <3>2. k \in Versions(c) /\ now \in Versions(d)
        BY <1>1, <3>1, VersionFacts
      <3>3. IsCurrent(now)
        BY <1>1, <3>1, <3>2, VersionFacts DEF IsCurrent
      <3>4. Use(now, Upcoming, s) \in U /\ Use(now, Upcoming, s).by = now
            /\ Use(now, Upcoming, s).from[1] = k
        BY <2>2 DEF Use
      <3>5. \/ ~IsCurrent(k) \/ c = d
            \/ \E f \in chi : f.ctx = "dynamic" /\ f.parent = d /\ f.child = c
            \/ \E e \in par' : e.ctx = "dynamic" /\ e.child = now /\ e.parent = c
        BY <1>3, <1>4, <3>1, <3>3, <3>4, LinkCellsFacts
      <3>6. ran' = ran /\ \A x : Versions(x)' = Versions(x)
        BY <1>6 DEF Versions
      <3>7. CellOf(k) = c
        BY <3>1, VersionFacts
      <3>8. CASE ~IsCurrent(k)
        <4>1. Current(c) \in Versions(c) /\ k <= Current(c) /\ Current(c) # k
          BY <3>2, <3>7, <3>8, VersionFacts DEF IsCurrent
        <4>2. Current(c) \in 1..now
          BY <4>1, VersionFacts
        <4>3. Current(c) \in Versions(c) /\ k < Current(c) /\ Current(c) <= r.at[1]
          BY <1>1, <2>6, <3>1, <4>1, <4>2
        <4> QED BY <3>6, <4>3 DEF CellReadOK
      <3>9. CASE IsCurrent(k) /\ c = d
        <4>1. k = Current(c) /\ now = Current(c)
          BY <3>1, <3>3, <3>7, <3>9 DEF IsCurrent
        <4> QED BY <2>6, <4>1 DEF CellReadOK
      <3>10. CASE \E f \in chi : f.ctx = "dynamic" /\ f.parent = d /\ f.child = c
        <4>1. ReadsBack(c, d)
          BY <3>10 DEF Children
        <4>2. PICK q \in reads : ran[q.at[1]].cell = c /\ ran[q.from[1]].cell = d
          BY <4>1 DEF ReadsBack
        <4>3. q \in reads'
          BY <1>5
        <4>4. \E p \in reads' : /\ ran'[p.at[1]].cell = ran'[r.from[1]].cell
                                /\ ran'[p.from[1]].cell = ran'[r.at[1]].cell
          BY <2>6, <3>6, <4>2, <4>3
        <4> QED BY <4>4 DEF CellReadOK, ReadsBack
      <3>11. CASE \E e \in par' : e.ctx = "dynamic" /\ e.child = now /\ e.parent = c
        BY <2>6, <3>6, <3>11 DEF CellReadOK
      <3> QED BY <3>5, <3>8, <3>9, <3>10, <3>11
    <2> QED BY <2>8, <2>9
  <1>18. Reads'
    BY <1>12, <1>17, ReadsKept DEF Reads
  <1>19. Children'
    <2>1. ASSUME NEW u \in U PROVE ReadsBack(CellOf(u.by), ran[u.from[1]].cell)'
      <3>1. PICK s \in Defined : u = Use(now, Upcoming, s)
        OBVIOUS
      <3>2. PICK r \in reads' : r.at = here /\ r.from = u.from
        BY <1>5, <3>1 DEF Use
      <3>3. u.by = now /\ CellOf(now) = ran[now].cell
        BY <1>1, <3>1, VersionFacts DEF Use
      <3>4. ran'[r.at[1]].cell = CellOf(u.by)' /\ ran'[r.from[1]].cell = ran'[u.from[1]].cell
        BY <1>6, <3>2, <3>3 DEF CellOf
      <3> QED BY <3>2, <3>4 DEF ReadsBack
    <2> HIDE DEF U
    <2> QED BY <1>3, <1>4, <1>6, <1>12, <2>1, ChildrenLinked
  <1>20. Parents'
    <2>1. \A u \in U : u.by = now
      BY DEF Use
    <2> HIDE DEF U
    <2> QED BY <1>3, <1>4, <1>6, <1>12, <2>1, ParentsLinked
  <1>21. \A s \in Syms \ Defined : \A r \in reads' : ~(r.at = here /\ r.sym = s)
    <2>1. \A r \in reads : r.at # here
      BY <1>1 DEF TypeOK
    <2> QED BY <1>5, <2>1
  <1> QED BY <1>4, <1>7, <1>8, <1>11, <1>12, <1>14, <1>15, <1>16, <1>18, <1>19, <1>20, <1>21

\* A statement runs.
LEMMA RunStmtInv == ASSUME IInv, RunStmt PROVE IInv'
  <1> USE DEF IInv
  <1> DEFINE here == <<now, Upcoming>>
  <1>1. /\ pc = "run" /\ pc' = pc /\ Upcoming <= Len(ran[now].content) /\ StmtEdges
        /\ UNCHANGED <<nodes, slid>>
    BY DEF RunStmt
  <1>2. UNCHANGED <<ran, text, draft, untracked, edited, slid, enabled, todo, edits>>
        /\ now' = now /\ Node' = Node /\ Stamp' = Stamp
    BY DEF RunStmt, nodes, now, Node, Stamp
  <1>3. /\ now \in 1..now /\ now \in Nat /\ now \notin edited
        /\ Upcoming \in Nat \ {0} /\ here # None /\ Stmt.def \in Syms
    BY <1>1, UpcomingFacts
  <1>4. /\ lastWrite' = [lastWrite EXCEPT ![Stmt.def] = here]
        /\ override' = [override EXCEPT ![Stmt.def] = None]
    BY DEF RunStmt
  <1>5. /\ Grows /\ Reads' /\ Children' /\ Parents'
        /\ made' = made \cup {here} /\ made' \subseteq Stamp
        /\ IsFiniteSet(made')
        /\ par' \subseteq CellEdges /\ chi' \subseteq CellChildren
        /\ used' \in [Cells \cup (1..MaxRuns) -> SUBSET Syms]
        /\ stmtPar' \subseteq [ctx : Contexts, child : Stamp, parent : made', sym : Syms]
        /\ deferred' \subseteq [ctx : Contexts, child : Stamp, parent : made', sym : Syms]
        /\ \A e \in deferred' : e.ctx = "static"
        /\ reads' \subseteq [at : made', sym : Syms, from : made', over : made' \cup {None}]
        /\ \A e \in stmtPar' : e.ctx = "dynamic" => WasRun(e.child)
        /\ \A r \in reads' : WasRun(r.from)
    BY <1>1, StmtEdgesFacts
  <1>6. /\ lastWrite' \in [Syms -> made' \cup {None}]
        /\ override' \in [Syms -> made' \cup {None}]
    <2>1. /\ lastWrite \in [Syms -> made' \cup {None}] /\ here \in made'
          /\ override \in [Syms -> made' \cup {None}]
      BY <1>5 DEF TypeOK
    <2> HIDE DEF here
    <2> QED BY <1>4, <2>1
  <1>7. TypeOK'
    <2>1. /\ par' \subseteq [ctx : Contexts, child : Node, parent : Cells, sym : Syms]'
          /\ chi' \subseteq [ctx : Contexts, parent : Cells, child : Cells, sym : Syms]
      BY <1>2, <1>5 DEF CellEdges, CellChildren
    <2>2. slid' \subseteq made'
      BY <1>2, <1>5 DEF TypeOK
    <2> QED BY <1>1, <1>2, <1>5, <1>6, <2>1, <2>2 DEF TypeOK
  <1>8. \A t : WasRun(t)' <=> WasRun(t)
    BY <1>2 DEF WasRun, Length
  <1>9. Numbered'
    <2>1. WasRun(here)
      BY <1>1 DEF WasRun, Length
    <2>2. \A s \in Syms : lastWrite'[s] = lastWrite[s] \/ lastWrite'[s] = here
      BY <1>4 DEF TypeOK
    <2>3. \A s \in Syms : lastWrite'[s] # None => WasRun(lastWrite'[s])
      BY <2>1, <2>2 DEF Numbered
    <2>4. \A s \in Syms : lastWrite'[s] # None => WasRun(lastWrite[s])'
      BY <1>2, <2>3 DEF WasRun, Length
    <2> QED BY <1>2, <1>5, <1>8, <2>4 DEF Numbered, Length
  <1>10. PICK n \in 0..Length(now) : {t \in made : t[1] = now} = {now} \X (1..n)
                                    /\ Upcoming = n + 1
    BY <1>1, UpcomingFacts
  <1>11. Progress'
    <2>1. n \in Nat /\ Length(now) \in Nat /\ n + 1 \in 0..Length(now)
      BY <1>1, <1>3, <1>10, NowFacts DEF Length
    <2>2. {t \in made' : t[1] = now} = {now} \X (1..(n + 1))
      <3>1. {t \in made' : t[1] = now} = {t \in made : t[1] = now} \cup {here}
        BY <1>5
      <3>2. {now} \X (1..(n + 1)) = ({now} \X (1..n)) \cup {<<now, n + 1>>}
        BY <2>1
      <3> QED BY <1>10, <3>1, <3>2
    <2>3. Length(now)' = Length(now)
      BY <1>2 DEF Length
    <2> QED BY <1>1, <1>2, <2>1, <2>2, <2>3 DEF Progress, Running
  <1>12. Ended'
    BY <1>1, <1>2, <1>5, FinishedKept DEF Ended
  <1>13. Override'
    <2> SUFFICES ASSUME NEW s \in Syms, override'[s] # None
                 PROVE  /\ lastWrite'[s] # None
                        /\ \/ lastWrite'[s][1] \in edited'
                           \/ (override'[s] # lastWrite'[s]
                                  /\ HasEdge(lastWrite[s], override[s])')
      BY DEF Override
    <2>1. s # Stmt.def /\ lastWrite'[s] = lastWrite[s] /\ override'[s] = override[s]
      BY <1>4 DEF TypeOK
    <2>2. PICK p, q : p = lastWrite[s] /\ q = override[s]
      OBVIOUS
    <2>3. HasEdge(p, q) => HasEdge(p, q)'
      BY <1>5, Kept
    <2>4. HasEdge(p, q)' = HasEdge(lastWrite[s], override[s])'
      BY <2>1, <2>2 DEF HasEdge
    <2> QED BY <1>2, <2>1, <2>2, <2>3, <2>4 DEF Override
  <1> QED BY <1>5, <1>7, <1>9, <1>11, <1>12, <1>13

\* A statement stops at an undefined name.
LEMMA RunStmtFailsInv == ASSUME IInv, RunStmtFails PROVE IInv'
  <1> USE DEF IInv
  <1> DEFINE here == <<now, Upcoming>>
  <1>1. /\ pc = "run" /\ pc' = "cleanup" /\ Upcoming <= Len(ran[now].content)
        /\ StmtEdges /\ UNCHANGED <<nodes, slid>> /\ Defined # Stmt.use
    BY DEF RunStmtFails
  <1>2. /\ UNCHANGED <<ran, text, draft, untracked, edited, slid, enabled, todo, edits>>
        /\ UNCHANGED <<lastWrite, override>>
        /\ now' = now /\ Node' = Node /\ Stamp' = Stamp
    BY DEF RunStmtFails, nodes, now, Node, Stamp
  <1>3. /\ now \in 1..now /\ now \in Nat /\ now \notin edited
        /\ Stmt.use \subseteq Syms /\ Upcoming \in DOMAIN ran[now].content
    BY <1>1, UpcomingFacts
  <1>4. /\ Grows /\ Reads' /\ Children' /\ Parents'
        /\ made' = made \cup {here} /\ made' \subseteq Stamp
        /\ IsFiniteSet(made')
        /\ par' \subseteq CellEdges /\ chi' \subseteq CellChildren
        /\ used' \in [Cells \cup (1..MaxRuns) -> SUBSET Syms]
        /\ stmtPar' \subseteq [ctx : Contexts, child : Stamp, parent : made', sym : Syms]
        /\ deferred' \subseteq [ctx : Contexts, child : Stamp, parent : made', sym : Syms]
        /\ \A e \in deferred' : e.ctx = "static"
        /\ reads' \subseteq [at : made', sym : Syms, from : made', over : made' \cup {None}]
        /\ \A e \in stmtPar' : e.ctx = "dynamic" => WasRun(e.child)
        /\ \A r \in reads' : WasRun(r.from)
        /\ \A s \in Syms \ Defined : \A r \in reads' : ~(r.at = here /\ r.sym = s)
    BY <1>1, StmtEdgesFacts
  <1>5. TypeOK'
    <2>1. /\ par' \subseteq [ctx : Contexts, child : Node, parent : Cells, sym : Syms]'
          /\ chi' \subseteq [ctx : Contexts, parent : Cells, child : Cells, sym : Syms]
      BY <1>2, <1>4 DEF CellEdges, CellChildren
    <2>2. /\ slid' \subseteq made'
          /\ lastWrite' \in [Syms -> made' \cup {None}]
          /\ override' \in [Syms -> made' \cup {None}]
      BY <1>2, <1>4 DEF TypeOK
    <2> QED BY <1>1, <1>2, <1>4, <2>1, <2>2 DEF TypeOK
  <1>6. Numbered'
    <2>1. \A t : WasRun(t)' <=> WasRun(t)
      BY <1>2 DEF WasRun, Length
    <2> QED BY <1>2, <1>4, <2>1 DEF Numbered, Length
  <1>7. Progress'
    <2>1. \A t \in slid : t[1] # now
      BY <1>1 DEF Progress, Running
    <2> QED BY <1>1, <1>2, <1>3, <2>1 DEF Progress, Running
  <1>8. ASSUME NEW k, k = now PROVE Failed(k)'
    <2>1. PICK s \in Stmt.use : s \notin Defined
      BY <1>1 DEF Defined
    <2>2. ~\E r \in reads' : r.at = here /\ r.sym = s
      BY <1>3, <1>4, <2>1
    <2>3. s \in ran'[now].content[Upcoming].use /\ Upcoming \in DOMAIN ran'[now].content
      BY <1>2, <1>3, <2>1 DEF Stmt
    <2>4. PICK i : i = Upcoming
      OBVIOUS
    <2>5. /\ i \in DOMAIN ran'[k].content /\ s \in ran'[k].content[i].use
          /\ ~\E r \in reads' : r.at = <<k, i>> /\ r.sym = s
      BY <1>8, <2>2, <2>3, <2>4
    <2> QED BY <2>5 DEF Failed, HasRead
  <1>9. Ended'
    <2>1. \A k \in 1..now : k # now => Finished(k)'
      BY <1>4, FinishedKept DEF Ended
    <2>2. \A k \in 1..now : k = now => Finished(k)'
      BY <1>8 DEF Finished
    <2> QED BY <1>2, <2>1, <2>2 DEF Ended
  <1>10. Override'
    BY <1>2, <1>4, Kept DEF Override
  <1> QED BY <1>4, <1>5, <1>6, <1>7, <1>9, <1>10

\* The clean-up takes children away.
LEMMA CleanUpInv == ASSUME IInv, CleanUp PROVE IInv'
  <1> USE DEF IInv
  <1>1. /\ pc' = "postcheck" /\ chi' \subseteq chi
        /\ pc = "cleanup" \/ (pc = "run" /\ Upcoming > Len(ran[now].content))
        /\ UNCHANGED <<ran, text, draft, untracked, edited, par, used, made, slid>>
        /\ UNCHANGED <<stmtPar, deferred, lastWrite, override, enabled, todo, edits, reads>>
        /\ now' = now /\ Node' = Node /\ Stamp' = Stamp
    <2>1. chi' \subseteq chi
      BY DEF CleanUp
    <2>2. /\ UNCHANGED <<ran, text, draft, untracked, edited, par, used, made, slid>>
          /\ UNCHANGED <<stmtPar, deferred, lastWrite, override, enabled, todo, edits, reads>>
          /\ now' = now /\ Node' = Node /\ Stamp' = Stamp
      BY DEF CleanUp, nodes, stmts, now, Node, Stamp
    <2>3. /\ pc' = "postcheck"
          /\ pc = "cleanup" \/ (pc = "run" /\ Upcoming > Len(ran[now].content))
      BY DEF CleanUp
    <2> QED BY <2>1, <2>2, <2>3
  <1>2. Grows
    BY <1>1, NowFacts DEF Grows
  <1>3. TypeOK'
    BY <1>1 DEF TypeOK
  <1>4. Numbered'
    <2>1. \A t : WasRun(t)' <=> WasRun(t)
      BY <1>1 DEF WasRun, Length
    <2> QED BY <1>1, <2>1 DEF Numbered, Length
  <1>5. Progress'
    BY <1>1 DEF Progress, Running
  <1>6. Ended'
    <2>1. Finished(now)
      <3>1. CASE pc = "cleanup"
        BY <3>1, NowFacts DEF Ended, Progress, Running
      <3>2. CASE pc = "run" /\ Upcoming > Len(ran[now].content)
        <4>1. PICK n \in 0..Length(now) : {t \in made : t[1] = now} = {now} \X (1..n)
                                          /\ Upcoming = n + 1
          BY <3>2, UpcomingFacts
        <4>2. Length(now) \in Nat /\ n = Length(now)
          BY <3>2, <4>1, UpcomingFacts, NowFacts DEF Length
        <4> QED BY <4>1, <4>2 DEF Finished
      <3> QED BY <1>1, <3>1, <3>2
    <2>2. \A k \in 1..now : Finished(k)
      BY <2>1 DEF Ended
    <2> QED BY <1>1, <1>2, <2>2, FinishedKept DEF Ended
  <1>7. Override' /\ Reads'
    BY <1>1, <1>2, Kept, ReadsKept DEF Override, Reads
  <1>8. Children'
    BY <1>1 DEF Children, ReadsBack
  <1>9. Parents'
    BY <1>1, <1>2, NowFacts, ParentsKept DEF Parents
  <1> QED BY <1>3, <1>4, <1>5, <1>6, <1>7, <1>8, <1>9

\* The notebook is edited.
LEMMA EditInv ==
    ASSUME IInv, NEW c \in Cells, NEW content \in Contents, Edit(c, content)
    PROVE  IInv'
  <1> USE DEF IInv
  <1>1. /\ pc = "idle" /\ pc' = "checking" /\ edits' = edits + 1
        /\ UNCHANGED <<ran, par, chi, used, made, slid, stmtPar, deferred>>
        /\ UNCHANGED <<lastWrite, override, enabled, reads>>
        /\ todo' \subseteq Cells /\ untracked' \subseteq Cells
        /\ now' = now /\ Node' = Node /\ Stamp' = Stamp
    BY DEF Edit, edges, stmts, now, Node, Stamp, TypeOK
  <1>2. /\ draft' \in [Cells -> Contents \cup {<< >>}]
        /\ \/ text' = text /\ edited' = edited
           \/ \E k \in 1..now : /\ text' = [text EXCEPT ![k] = content]
                                /\ edited' = edited \cup {k}
    <2>1. CASE Versions(c) = {}
      BY <2>1 DEF Edit, TypeOK
    <2>2. CASE Versions(c) # {}
      <3>1. Current(c) \in 1..now
        BY <2>2, VersionFacts
      <3> QED BY <2>2, <3>1 DEF Edit, TypeOK
    <2> QED BY <2>1, <2>2
  <1>3. /\ text' \in Seq(Contents) /\ Len(text') = now
        /\ edited \subseteq edited' /\ edited' \subseteq 1..now
        /\ \A k \in (1..now) \ edited' : text'[k] = text[k]
    <2>1. CASE text' = text /\ edited' = edited
      BY <2>1 DEF TypeOK
    <2>2. ASSUME NEW k \in 1..now, text' = [text EXCEPT ![k] = content],
                 edited' = edited \cup {k}
          PROVE  /\ text' \in Seq(Contents) /\ Len(text') = now
                 /\ edited \subseteq edited' /\ edited' \subseteq 1..now
                 /\ \A j \in (1..now) \ edited' : text'[j] = text[j]
      <3>1. text \in Seq(Contents) /\ Len(text) = now
        BY DEF TypeOK
      <3>2. text' \in Seq(Contents) /\ Len(text') = now
        BY <2>2, <3>1
      <3>3. \A j \in 1..now : j # k => text'[j] = text[j]
        BY <2>2, <3>1
      <3> QED BY <2>2, <3>2, <3>3 DEF TypeOK
    <2> QED BY <1>2, <2>1, <2>2
  <1>4. Grows
    BY <1>1, <1>3, NowFacts DEF Grows
  <1>5. TypeOK'
    BY <1>1, <1>2, <1>3 DEF TypeOK
  <1>6. Numbered'
    <2>1. \A t : (WasRun(t)' <=> WasRun(t)) /\ Length(t[1])' = Length(t[1])
      BY <1>1 DEF WasRun, Length
    <2>2. \A t \in slid' : t[1] \notin edited' => t[2] = Length(t[1])' + 1
      BY <1>1, <1>3, <2>1 DEF Numbered
    <2> QED BY <1>1, <1>3, <2>1, <2>2 DEF Numbered
  <1>7. Progress'
    BY <1>1 DEF Progress, Running
  <1>8. Ended'
    BY <1>1, <1>4, FinishedKept DEF Ended
  <1>9. Override' /\ Reads'
    <2>1. Override'
      BY <1>1, <1>3, <1>4, Kept DEF Override
    <2> QED BY <1>1, <1>4, <2>1, ReadsKept DEF Reads
  <1>10. Children'
    BY <1>1 DEF Children, ReadsBack
  <1>11. Parents'
    BY <1>1, <1>4, NowFacts, ParentsKept DEF Parents
  <1> QED BY <1>5, <1>6, <1>7, <1>8, <1>9, <1>10, <1>11

\* A slider moves.
LEMMA MoveSliderInv == ASSUME IInv, NEW w \in Widgets, MoveSlider(w) PROVE IInv'
  <1> USE DEF IInv
  <1> DEFINE k == lastWrite[w][1]
             behind == Behind(w)
             U == {Use(k, 0, w)}
             e == [ctx |-> "dynamic", child |-> lastWrite[w], parent |-> behind, sym |-> w]
  <1>1. /\ pc = "idle" /\ w \in Syms /\ lastWrite[w] # None /\ lastWrite[w] \in made
        /\ lastWrite[w] \in Stamp /\ k \in 1..now
    BY SlicingAssumption DEF MoveSlider, TypeOK, Stamp
  <1>2. /\ override' = [override EXCEPT ![w] = behind]
        /\ made' = made \cup {behind} /\ slid' = slid \cup {behind}
        /\ LinkCells("dynamic", U) /\ stmtPar' = stmtPar \cup Linked({e})
        /\ UNCHANGED <<ran, text, draft, untracked, edited, deferred, lastWrite>>
        /\ UNCHANGED <<enabled, pc, todo, edits, reads>>
        /\ now' = now /\ Node' = Node /\ Stamp' = Stamp
    BY DEF MoveSlider, nodes, now, Node, Stamp
  <1>3. /\ behind = <<k, Len(text[k]) + 1>> /\ behind \in Stamp
        /\ k \notin edited => behind[2] = Length(k) + 1
        /\ Len(text[k]) \in Nat /\ Length(k) \in Nat
    <2>1. text[k] \in Contents /\ Len(text[k]) \in Nat /\ Length(k) \in Nat
      BY <1>1, NowFacts
    <2>2. k \notin edited => text[k] = ran[k].content
      BY <1>1 DEF Numbered
    <2>3. behind = <<k, Len(text[k]) + 1>>
      BY DEF Behind
    <2> HIDE DEF behind, k
    <2> QED BY <1>1, <2>1, <2>2, <2>3 DEF Stamp, Length
  <1>4. U \in SUBSET Uses /\ "dynamic" \in Contexts /\ \A u \in U : u.by = k /\ u.from[1] = k
    BY <1>1, NowFacts DEF Uses, Use, Contexts
  <1> HIDE DEF U, behind
  <1>5. /\ par' \subseteq CellEdges /\ chi' \subseteq CellChildren
        /\ used' \in [Cells \cup (1..MaxRuns) -> SUBSET Syms]
        /\ par \subseteq par'
        /\ \A v \in Cells \cup (1..MaxRuns) : used[v] \subseteq used'[v]
    BY <1>2, <1>4, LinkCellsFacts
  <1>6. Grows
    BY <1>2, <1>5, NowFacts DEF Grows
  <1>7. e \in [ctx : Contexts, child : Stamp, parent : made', sym : Syms]
        /\ Linked({e}) \subseteq {e}
    BY <1>1, <1>2, <1>4 DEF Linked
  <1>8. TypeOK'
    <2>1. made' \subseteq Stamp /\ IsFiniteSet(made') /\ slid' \subseteq made'
      <3>1. IsFiniteSet(made \cup {behind})
        BY FS_AddElement DEF TypeOK
      <3> QED BY <1>2, <1>3, <3>1 DEF TypeOK
    <2>2. /\ lastWrite' \in [Syms -> made' \cup {None}]
          /\ override' \in [Syms -> made' \cup {None}]
      BY <1>1, <1>2 DEF TypeOK
    <2>3. /\ par' \subseteq [ctx : Contexts, child : Node, parent : Cells, sym : Syms]'
          /\ chi' \subseteq [ctx : Contexts, parent : Cells, child : Cells, sym : Syms]
      BY <1>2, <1>5 DEF CellEdges, CellChildren
    <2>4. stmtPar' \subseteq [ctx : Contexts, child : Stamp, parent : made', sym : Syms]
      <3>1. stmtPar \subseteq [ctx : Contexts, child : Stamp, parent : made', sym : Syms]
        BY <1>2 DEF TypeOK
      <3> HIDE DEF e
      <3> QED BY <1>2, <1>7, <3>1
    <2>5. /\ deferred' \subseteq [ctx : Contexts, child : Stamp, parent : made', sym : Syms]
          /\ reads' \subseteq [at : made', sym : Syms, from : made', over : made' \cup {None}]
      BY <1>2 DEF TypeOK
    <2>6. \A d \in deferred' : d.ctx = "static"
      BY <1>2 DEF TypeOK
    <2> QED BY <1>2, <1>5, <2>1, <2>2, <2>3, <2>4, <2>5, <2>6 DEF TypeOK
  <1>9. Numbered'
    <2>1. \A t : (WasRun(t)' <=> WasRun(t)) /\ Length(t[1])' = Length(t[1])
      BY <1>2 DEF WasRun, Length
    <2>2. \A t \in slid' : t[1] \notin edited' => t[2] = Length(t[1]) + 1
      BY <1>2, <1>3 DEF Numbered
    <2>3. \A d \in stmtPar' : d.ctx = "dynamic" => WasRun(d.child)
      <3>1. WasRun(e.child)
        BY <1>1 DEF Numbered
      <3> HIDE DEF e
      <3> QED BY <1>2, <1>7, <3>1 DEF Numbered
    <2>4. /\ \A t \in slid' : t[1] \notin edited' => t[2] = Length(t[1])' + 1
          /\ \A d \in stmtPar' : d.ctx = "dynamic" => WasRun(d.child)'
      BY <2>1, <2>2, <2>3
    <2> QED BY <1>2, <2>1, <2>4 DEF Numbered
  <1>10. Progress'
    BY <1>1, <1>2 DEF Progress, Running
  <1>11. Ended'
    BY <1>2, <1>6, FinishedKept DEF Ended
  <1>12. Override'
    <2> SUFFICES ASSUME NEW s \in Syms, override'[s] # None
                 PROVE  /\ lastWrite[s] # None
                        /\ \/ lastWrite[s][1] \in edited
                           \/ (override'[s] # lastWrite[s]
                                  /\ HasEdge(lastWrite[s], override[s])')
      BY <1>2 DEF Override
    <2>1. PICK p, q : p = lastWrite[s] /\ q = override'[s]
      OBVIOUS
    <2>2. HasEdge(lastWrite[s], override[s])' = HasEdge(p, q)'
      BY <1>2, <2>1 DEF HasEdge
    <2>3. CASE s # w
      <3>1. override'[s] = override[s]
        BY <1>2, <2>3 DEF TypeOK
      <3>2. HasEdge(p, q) => HasEdge(p, q)'
        BY <1>6, Kept
      <3> QED BY <2>1, <2>2, <3>1, <3>2 DEF Override
    <2>4. CASE s = w /\ k \notin edited
      <3>1. q = behind
        BY <1>1, <1>2, <2>1, <2>4 DEF TypeOK
      <3>2. ~WasRun(behind)
        BY <1>1, <1>3, <2>4 DEF WasRun
      <3>3. WasRun(p) /\ p # behind
        BY <1>1, <2>1, <2>4, <3>2 DEF Numbered
      <3>4. ~\E f \in stmtPar : f.ctx = "dynamic" /\ f.child = behind
        BY <3>2 DEF Numbered
      <3>5. e \in Linked({e})
        BY <2>1, <2>4, <3>3, <3>4 DEF Linked
      <3>6. e \in stmtPar' /\ e.ctx = "dynamic" /\ e.child = p /\ e.parent = q
        BY <1>2, <2>1, <2>4, <3>1, <3>5
      <3>7. HasEdge(p, q)'
        <4> HIDE DEF e
        <4> QED BY <3>6 DEF HasEdge
      <3> QED BY <1>1, <2>1, <2>2, <2>4, <3>1, <3>3, <3>7
    <2>5. CASE s = w /\ k \in edited
      BY <1>1, <2>5
    <2> QED BY <2>3, <2>4, <2>5
  <1>13. Reads'
    BY <1>2, <1>6, ReadsKept DEF Reads
  <1>14. Children'
    <2>1. CellOf(k) = ran[k].cell
      BY <1>1, VersionFacts
    <2>2. \A u \in U : CellOf(u.by) = ran[u.from[1]].cell
      BY <1>4, <2>1
    <2> QED BY <1>2, <1>4, <1>6, <2>2, ChildrenLinked
  <1>15. Parents'
    <2>1. \A u \in U : u.from[1] <= u.by
      BY <1>1, <1>4, NowFacts
    <2> QED BY <1>2, <1>4, <1>6, <2>1, ParentsLinked
  <1> QED BY <1>8, <1>9, <1>10, <1>11, <1>12, <1>13, <1>14, <1>15

\* Nothing has run.
LEMMA InitInv == Init => IInv
  <1> SUFFICES ASSUME Init PROVE IInv
    OBVIOUS
  <1>1. now = 0 /\ MaxRuns \in Nat /\ text = << >> /\ edited = {} /\ Len(text) = 0
    BY SlicingAssumption DEF Init, now
  <1>2. TypeOK
    <2>1. /\ used \in [Cells \cup (1..MaxRuns) -> SUBSET Syms]
          /\ draft \in [Cells -> Contents \cup {<< >>}]
          /\ lastWrite \in [Syms -> made \cup {None}]
          /\ override \in [Syms -> made \cup {None}]
      BY DEF Init
    <2>2. IsFiniteSet(made)
      BY FS_EmptySet DEF Init
    <2> QED BY <1>1, <2>1, <2>2 DEF Init, TypeOK
  <1>3. Numbered /\ Progress /\ Ended /\ Override
    BY <1>1 DEF Init, Numbered, Progress, Running, Ended, Override
  <1>4. Reads /\ Children /\ Parents
    BY DEF Init, Reads, Children, Parents
  <1> QED BY <1>2, <1>3, <1>4 DEF IInv

\* Every action keeps the invariant.
LEMMA StepInv == IInv /\ [Next]_vars => IInv'
  <1> SUFFICES ASSUME IInv, [Next]_vars PROVE IInv'
    OBVIOUS
  <1>1. CASE UNCHANGED vars
    <2>1. /\ UNCHANGED <<ran, text, draft, untracked, edited, par, chi, used, made>>
          /\ UNCHANGED <<slid, stmtPar, deferred, lastWrite, override, enabled, pc>>
          /\ UNCHANGED <<todo, edits, reads>>
          /\ now' = now /\ Node' = Node /\ Stamp' = Stamp
      BY <1>1 DEF vars, nodes, edges, stmts, now, Node, Stamp
    <2> USE DEF IInv
    <2>2. Grows
      BY <2>1, NowFacts DEF Grows
    <2>3. TypeOK' /\ Progress'
      BY <2>1 DEF TypeOK, Progress, Running, Length
    <2>4. Numbered'
      <3>1. \A t : WasRun(t)' <=> WasRun(t)
        BY <2>1 DEF WasRun, Length
      <3> QED BY <2>1, <3>1 DEF Numbered, Length
    <2>5. Override' /\ Reads' /\ Ended'
      BY <2>1, <2>2, Kept, ReadsKept, FinishedKept DEF Override, Reads, Ended
    <2>6. Children' /\ Parents'
      BY <2>1, <2>2, NowFacts, ParentsKept DEF Children, ReadsBack, Parents
    <2> QED BY <2>3, <2>4, <2>5, <2>6
  <1>2. CASE Next
    BY <1>2, StartRunInv, PrecheckInv, RunStmtInv, RunStmtFailsInv, CleanUpInv,
       PostcheckInv, EditInv, CheckNextInv, MoveSliderInv DEF Next
  <1> QED BY <1>1, <1>2

-----------------------------------------------------------------------------
(* What the invariant means for slices.                                    *)

\* The edges that a statement slice needs are there, for one step and for two.
LEMMA StmtSlices == IInv => StmtSliceRecomputes
  <1> SUFFICES ASSUME IInv, "dynamic" \in enabled, NEW r \in reads
               PROVE  /\ r.from \in StmtSlice({r.at})
                      /\ Edited(r.from[1]) \/ r.from \notin slid
                      /\ Edited(r.from[1]) \/ r.over \in StmtSlice({r.at}) \cup {None}
    BY DEF StmtSliceRecomputes
  <1> USE DEF IInv
  <1>1. /\ ReadOK(r) /\ r.at \in made /\ r.from \in made /\ r.from[1] \in 1..now
        /\ IsFiniteSet(made)
    BY DEF Reads, TypeOK, Stamp
  <1>2. \A s, t : HasEdge(s, t) => <<s, t>> \in StmtSteps
    BY DEF HasEdge, StmtSteps
  <1>3. Cardinality(made) \in Nat /\ Cardinality(made) >= 2
    <2>1. {r.at, r.from} \subseteq made /\ r.at # r.from
      BY <1>1 DEF ReadOK
    <2>2. IsFiniteSet({r.at}) /\ Cardinality({r.at}) = 1
      BY FS_Singleton
    <2>3. Cardinality({r.at} \cup {r.from}) = 2
      <3>1. r.from \notin {r.at}
        BY <2>1
      <3>2. Cardinality({r.at} \cup {r.from}) = Cardinality({r.at}) + 1
        BY <2>2, <3>1, FS_AddElement
      <3> QED BY <2>2, <3>2
    <2>4. /\ Cardinality(made) \in Nat
          /\ Cardinality({r.at} \cup {r.from}) <= Cardinality(made)
      <3>1. {r.at} \cup {r.from} \subseteq made
        BY <2>1
      <3> QED BY <1>1, <3>1, FS_Subset, FS_CardinalityType
    <2> QED BY <2>3, <2>4
  <1>4. /\ \A t : <<r.at, t>> \in StmtSteps => t \in StmtSlice({r.at})
        /\ \A t, u : <<r.at, t>> \in StmtSteps /\ <<t, u>> \in StmtSteps
                        => u \in StmtSlice({r.at})
    BY <1>3, BackwardFacts DEF StmtSlice
  <1>5. r.from \in StmtSlice({r.at})
    BY <1>1, <1>2, <1>4 DEF ReadOK
  <1>6. Edited(r.from[1]) \/ r.from \notin slid
    <2>1. WasRun(r.from) /\ Length(r.from[1]) \in Nat
      BY <1>1, NowFacts DEF Numbered
    <2> QED BY <2>1 DEF WasRun, Numbered, Edited
  <1>7. Edited(r.from[1]) \/ r.over \in StmtSlice({r.at}) \cup {None}
    BY <1>1, <1>2, <1>4 DEF ReadOK, Edited
  <1> QED BY <1>5, <1>6, <1>7

\* Where no edge leads to the run that was read, there is a reason that the
\* property names.
LEMMA CellSlices == IInv => CellSliceRecomputes
  <1> SUFFICES ASSUME IInv, "dynamic" \in enabled, NEW r \in reads,
                      r.from[1] = Max({j \in Versions(ran[r.from[1]].cell) : j <= r.at[1]}),
                      ~ReadsBack(ran[r.from[1]].cell, ran[r.at[1]].cell)
               PROVE  r.from[1] \in CellSlice(r.at[1])
    BY DEF CellSliceRecomputes, ReadsBack
  <1> USE DEF IInv
  <1> DEFINE k == r.from[1]  m == r.at[1]  c == ran[k].cell
             older == {j \in Versions(c) : j <= m}
  <1>1. /\ k \in 1..now /\ m \in 1..now /\ k <= m /\ now \in Nat /\ MaxRuns \in Nat
        /\ CellReadOK(r) /\ m \notin Cells /\ k \in Versions(c)
    <2>1. k \in 1..now /\ m \in 1..now
      BY DEF TypeOK, Stamp
    <2>2. k <= m /\ CellReadOK(r)
      BY DEF Reads, ReadOK
    <2> QED BY <2>1, <2>2, NowFacts, VersionFacts
  <1>2. \A j \in older : j <= k
    <2>1. older \in SUBSET (0..now) /\ older # {}
      BY <1>1, VersionFacts
    <2> HIDE DEF older
    <2> QED BY <1>1, <2>1, MaxExists DEF older
  <1>3. MaxRuns + 1 \in Nat /\ MaxRuns + 1 >= 1
    BY <1>1
  <1>4. CASE k = m
    BY <1>3, <1>4, BackwardFacts DEF CellSlice
  <1>5. CASE \E e \in par : e.ctx = "dynamic" /\ e.child = m /\ e.parent = c
    <2>1. c \in ParentIds(m)
      BY <1>5 DEF ParentIds
    <2>2. k \in AsOf(c, m)
      BY <1>1 DEF AsOf
    <2>3. k \in ParentsOfCell(m)
      BY <1>1, <2>1, <2>2 DEF ParentsOfCell
    <2>4. <<m, k>> \in CellSteps
      BY <1>1, <2>3 DEF CellSteps
    <2>5. \A t : <<m, t>> \in CellSteps => t \in CellSlice(m)
      BY <1>3, BackwardFacts DEF CellSlice
    <2> QED BY <2>4, <2>5
  <1>6. ~\E j \in Versions(c) : k < j /\ j <= m
    <2>1. \A j \in Versions(c) : j \in 1..now
      BY VersionFacts
    <2> QED BY <1>1, <1>2, <2>1
  <1> QED BY <1>1, <1>4, <1>5, <1>6 DEF CellReadOK

\* A parent of an executed version has a version that is old enough.
LEMMA SlicesExist == IInv => SliceExists
  <1> SUFFICES ASSUME IInv, pc = "idle" PROVE SliceExists
    BY DEF SliceExists
  <1> USE DEF IInv
  <1>1. ASSUME NEW k \in 1..now,
               \A v \in CellSlice(k) : v \notin Cells /\ ~Edited(v) /\ ~Failed(v)
        PROVE  Sliceable(k)
    <2>1. ASSUME NEW v \in CellSlice(k), NEW c \in ParentIds(v)
          PROVE  \E j \in AsOf(c, v) : j \in 1..v
      <3>1. PICK e \in par : e.child = v /\ e.parent = c
        BY DEF ParentIds
      <3>2. v \in 1..now /\ v \notin edited /\ ~Failed(v)
        BY <1>1, <2>1, <3>1 DEF TypeOK, Node, Edited
      <3>3. OldEnough(e) /\ now \in Nat
        BY NowFacts DEF Parents
      <3>4. PICK i \in Versions(c) : i <= v
        <4>1. CASE v = now
          <5>1. Versions(c) # {} /\ \A i \in Versions(c) : i \in 1..now
            BY <3>1, <3>3, VersionFacts DEF OldEnough
          <5> QED BY <3>3, <4>1, <5>1
        <4>2. CASE v # now
          <5>1. v \in (1..(now - 1)) \ edited
            BY <3>2, <3>3, <4>2
          <5> QED BY <3>1, <3>2, <3>3, <5>1 DEF OldEnough
        <4> QED BY <4>1, <4>2
      <3> DEFINE older == {j \in Versions(c) : j <= v}
      <3>5. older \in SUBSET (0..now) /\ older # {} /\ \A j \in older : j \in 1..v
        BY <3>2, <3>3, <3>4, VersionFacts
      <3>6. AsOf(c, v) = {Max(older)}
        BY <3>4 DEF AsOf
      <3> HIDE DEF older
      <3> QED BY <3>3, <3>5, <3>6, MaxExists
    <2>2. StmtsOf(k) \subseteq made
      <3>1. k \in CellSlice(k)
        BY NowFacts, BackwardFacts DEF CellSlice
      <3>2. k \notin edited /\ ~Failed(k) /\ text[k] = ran[k].content
        BY <1>1, <3>1 DEF Edited, Numbered
      <3>3. {k} \X (1..Length(k)) \subseteq made /\ Length(k) \in Nat
        BY <3>2, NowFacts DEF Ended, Finished
      <3>4. CASE \E t \in slid : t[1] = k
        <4>1. PICK t \in slid : t[1] = k
          BY <3>4
        <4>2. t \in made /\ t = <<k, Length(k) + 1>>
          BY <3>2, <4>1 DEF TypeOK, Stamp, Numbered
        <4>3. StmtsOf(k) = {<<k, i>> : i \in 1..(Length(k) + 1)}
          BY <3>2, <3>4 DEF StmtsOf, Length
        <4>4. \A i \in 1..(Length(k) + 1) : i \in 1..Length(k) \/ i = Length(k) + 1
          BY <3>3
        <4> QED BY <3>3, <4>2, <4>3, <4>4
      <3>5. CASE ~\E t \in slid : t[1] = k
        <4>1. StmtsOf(k) = {<<k, i>> : i \in 1..(Length(k) + 0)}
          BY <3>2, <3>5 DEF StmtsOf, Length
        <4>2. Length(k) + 0 = Length(k)
          BY <3>3
        <4> QED BY <3>3, <4>1, <4>2
      <3> QED BY <3>4, <3>5
    <2> QED BY <2>1, <2>2 DEF Sliceable
  <1>2. \A s \in Syms : CodeSeeds(s) \subseteq made
    BY DEF CodeSeeds, TypeOK
  <1> QED BY <1>1, <1>2 DEF SliceExists

-----------------------------------------------------------------------------
(* Theorems.                                                               *)

\* Every variable has its type, in particular every edge between statements leads
\* to one that is tracked.
THEOREM TypeCorrect == Spec => []TypeOK
  <1>1. IInv => TypeOK
    BY DEF IInv
  <1> QED BY <1>1, InitInv, StepInv, PTL DEF Spec

\* The statement slice of a statement has what it needs to compute again what it
\* computed: the statement that made each value it read, and the slider's move
\* before the read, unless the maker's cell was edited (add_parent_edges and
\* make_slice_stmts).
THEOREM StmtSlicesRecompute == Spec => []StmtSliceRecomputes
  BY InitInv, StepInv, StmtSlices, PTL DEF Spec

\* The cell slice of a run has the run of each value that it read, unless the
\* cell was run again in between or reads from the run's cell itself
\* (add_data_dep and _make_slice_helper).
THEOREM CellSlicesRecompute == Spec => []CellSliceRecomputes
  BY InitInv, StepInv, CellSlices, PTL DEF Spec

\* A slice can be made and goes back in time only, unless a cell of it was edited
\* or stopped at an undefined name; and what a symbol's code starts from is
\* tracked.
THEOREM SlicesCanBeMade == Spec => []SliceExists
  BY InitInv, StepInv, SlicesExist, PTL DEF Spec
=============================================================================
