-------------------------- MODULE LiveRefsProofs --------------------------
(***************************************************************************)
(* What is live, dead and read, for any names, functions, bodies, numbers  *)
(* of statements and depths of blocks.                                     *)
(*                                                                         *)
(* The invariant relates a visitor to the runs it stands for (Fits), and   *)
(* holds of the block being visited and of every block around it, whose    *)
(* visitors and runs wait in `blocks` to be put together.                  *)
(***************************************************************************)
EXTENDS LiveRefs, FiniteSetTheorems, SequenceTheorems, WellFoundedInduction, TLAPS

Invocation == [fn : Funs, after : SUBSET Refs, seen : SUBSET Funs]
Run == [wrote : SUBSET Refs, read : SUBSET Refs, calls : SUBSET Invocation]
View == [live : SUBSET Refs, dead : SUBSET Refs, modified : SUBSET Refs]
Block == [outer : View, before : SUBSET Run, loop : BOOLEAN, target : SUBSET Names,
          body : Seq(View), runs : SUBSET Run]

Typed ==
    /\ visitor \in View /\ paths \in SUBSET Run
    /\ DOMAIN funcs \subseteq Funs /\ funcs \in [DOMAIN funcs -> Body]
    /\ blocks \in Seq(Block) /\ Len(blocks) <= MaxNest
    /\ hidden \subseteq Names \cup Attrs /\ inlined \subseteq Refs
    /\ failed \in BOOLEAN /\ count \in 0..MaxStmts

\* What D hides, the run p has written, or it is in H.
Written(p, D, H) ==
    /\ D \subseteq p.wrote \cup H
    /\ \A r \in Refs : Covers(D, r) => Covers(p.wrote, r) \/ r \in H

\* The functions that had been seen at a call, and what is read through them.
Known(F, S) == [g \in S |-> F[g]]
InvocationOk(c, L, H, F) ==
    /\ c.seen \subseteq DOMAIN F /\ c.fn \in L \cup c.after
    /\ BodyLive(Known(F, c.seen), c.fn) \subseteq L \cup H \cup c.after

\* The run p has written D, and what it reads and calls is live.
RunOk(p, D, L, H, F) ==
    /\ Written(p, D, H) /\ p.read \subseteq L \cup H
    /\ \A c \in p.calls : InvocationOk(c, L, H, F)

\* Some run reads r, unless the body of a function does.
SomeReads(P, I, r) == r \in I \/ \E p \in P : r \in p.read
SomeFree(P, I, r) == SomeReads(P, I, r) \/ \E p \in P : r \notin p.wrote

Fits(v, P, H, I, F) ==
    /\ P # {}
    /\ \A p \in P : RunOk(p, v.dead, v.live, H, F)
    /\ \A r \in v.live \cap Names : SomeReads(P, I, r)
    /\ \A r \in Names : r \in v.dead \/ SomeFree(P, I, r)

BlockFits(b, H, I, F) ==
    /\ Fits(b.outer, b.before, H, I, F)
    /\ b.body # << >> => Fits(b.body[1], b.runs, H, I, F)

IInv ==
    /\ Typed
    /\ Fits(visitor, paths, hidden, inlined, funcs)
    /\ \A i \in 1..Len(blocks) : BlockFits(blocks[i], hidden, inlined, funcs)

-----------------------------------------------------------------------------
(* Reaching                                                                *)

\* A nonempty set of naturals has a least element.
LEMMA MinExists ==
    ASSUME NEW S \in SUBSET Nat, S # {}
    PROVE  \E m \in S : \A k \in S : m <= k
  <1> DEFINE T == {0..k : k \in S}
  <1>1. T \subseteq FiniteSubsetsOf(Nat) /\ T # {}
    <2>1. \A k \in S : IsFiniteSet(0..k) /\ 0..k \in SUBSET Nat
      BY FS_Interval
    <2> QED BY <2>1 DEF FiniteSubsetsOf
  <1>2. PICK t \in T : \A u \in T : ~(<<u, t>> \in StrictSubsetOrdering(Nat))
    BY <1>1, FS_StrictSubsetOrderingWellFounded, WFMin
  <1>3. PICK m \in S : t = 0..m
    OBVIOUS
  <1>4. ASSUME NEW k \in S PROVE m <= k
    <2>1. ~(<<0..k, 0..m>> \in StrictSubsetOrdering(Nat))
      BY <1>2, <1>3
    <2>2. k < m => 0..k \subseteq 0..m /\ m \notin 0..k /\ m \in 0..m
      OBVIOUS
    <2>3. 0..k \in SUBSET Nat /\ 0..m \in SUBSET Nat
      OBVIOUS
    <2> QED BY <2>1, <2>2, <2>3 DEF StrictSubsetOrdering
  <1> QED BY <1>4

\* Induction over an interval, for a set that stands for the induction's claim.
LEMMA IntervalInduction ==
    ASSUME NEW N \in Nat, NEW S, 0 \in S, \A n \in Nat : n < N /\ n \in S => n + 1 \in S
    PROVE  \A n \in 0..N : n \in S
  <1> DEFINE Bad == {n \in 0..N : n \notin S}
  <1> SUFFICES ASSUME Bad # {} PROVE FALSE
    OBVIOUS
  <1>1. Bad \in SUBSET Nat
    OBVIOUS
  <1>2. PICK n \in Bad : \A k \in Bad : n <= k
    <2> HIDE DEF Bad
    <2> QED BY <1>1, MinExists
  <1>3. n \in Nat /\ n <= N /\ n # 0
    OBVIOUS
  <1>4. n - 1 \in Nat /\ n - 1 < N /\ n - 1 \in 0..N /\ ~(n <= n - 1) /\ (n - 1) + 1 = n
    BY <1>3
  <1>5. n - 1 \in S
    BY <1>2, <1>4
  <1>6. n \in S
    BY <1>4, <1>5
  <1> QED BY <1>6

IsReach(a, S, next, N) ==
    a = [n \in 0..N |-> IF n = 0 THEN S ELSE Further(a[n - 1], next)]

LEMMA ReachExists ==
    ASSUME NEW S, NEW next, NEW N \in Nat
    PROVE  \E a : IsReach(a, S, next, N)
  <1> DEFINE Good == {k \in Nat : \E a : IsReach(a, S, next, k)}
  <1>1. 0 \in Good
    <2> DEFINE a == [n \in 0..0 |-> S]
    <2>1. IsReach(a, S, next, 0)
      BY DEF IsReach
    <2> QED BY <2>1
  <1>2. ASSUME NEW k \in Nat, k \in Good PROVE k + 1 \in Good
    <2>1. PICK a : IsReach(a, S, next, k)
      BY <1>2
    <2> DEFINE b == [n \in 0..(k + 1) |-> IF n = k + 1 THEN Further(a[k], next) ELSE a[n]]
    <2>2. \A n \in 0..(k + 1) : b[n] = IF n = 0 THEN S ELSE Further(b[n - 1], next)
      <3>1. \A n \in 0..k : a[n] = IF n = 0 THEN S ELSE Further(a[n - 1], next)
        BY <2>1 DEF IsReach
      <3>2. b[k + 1] = Further(a[k], next) /\ b[k] = a[k]
        OBVIOUS
      <3>3. \A n \in 0..k : b[n] = a[n] /\ (n # 0 => b[n - 1] = a[n - 1])
        OBVIOUS
      <3> HIDE DEF b
      <3> QED BY <3>1, <3>2, <3>3
    <2>3. IsReach(b, S, next, k + 1)
      <3>1. b = [n \in 0..(k + 1) |-> b[n]]
        OBVIOUS
      <3> HIDE DEF b
      <3> QED BY <2>2, <3>1 DEF IsReach
    <2> QED BY <2>3
  <1>3. \A n \in 0..N : n \in Good
    <2> HIDE DEF Good
    <2> QED BY <1>1, <1>2, IntervalInduction
  <1> QED BY <1>3

\* A round keeps what the ones before it have reached.
LEMMA RoundsGrow ==
    ASSUME NEW N \in Nat, NEW a, NEW next,
           \A n \in 1..N : a[n] = Further(a[n - 1], next)
    PROVE  \A n \in 0..N : \A m \in 0..n : a[m] \subseteq a[n]
  <1> DEFINE S == {n \in Nat : n <= N => \A m \in 0..n : a[m] \subseteq a[n]}
  <1>1. 0 \in S
    OBVIOUS
  <1>2. ASSUME NEW n \in Nat, n < N, n \in S PROVE n + 1 \in S
    <2>1. n + 1 \in 1..N /\ (n + 1) - 1 = n /\ n <= N
      BY <1>2
    <2>2. a[n + 1] = Further(a[n], next)
      BY <2>1
    <2>3. a[n] \subseteq a[n + 1]
      BY <2>2 DEF Further
    <2>4. ASSUME NEW m \in 0..(n + 1) PROVE a[m] \subseteq a[n + 1]
      <3>1. m \in 0..n \/ m = n + 1
        OBVIOUS
      <3>2. CASE m \in 0..n
        BY <1>2, <2>1, <2>3, <3>2
      <3> QED BY <3>1, <3>2
    <2> QED BY <2>4
  <1>3. \A n \in 0..N : n \in S
    <2> HIDE DEF S
    <2> QED BY <1>1, <1>2, IntervalInduction
  <1> QED BY <1>3

\* The rounds of Reach: from S on, each with what the one before calls.
LEMMA ReachRounds ==
    ASSUME NEW S, NEW next
    PROVE  \E a : /\ Reach(S, next) = a[Cardinality(Funs)]
                  /\ a[0] = S
                  /\ \A n \in 1..Cardinality(Funs) : a[n] = Further(a[n - 1], next)
                  /\ \A n \in 0..Cardinality(Funs) : a[0] \subseteq a[n]
                  /\ \A n \in 0..Cardinality(Funs) : a[n] \subseteq a[Cardinality(Funs)]
  <1> DEFINE N == Cardinality(Funs)
  <1>1. N \in Nat
    BY LiveRefsAssumption, FS_CardinalityType
  <1>2. PICK a : IsReach(a, S, next, N) /\ Reach(S, next) = a[N]
    <2>1. Reach(S, next) = (CHOOSE a : IsReach(a, S, next, N))[N]
      BY DEF Reach, IsReach
    <2>2. IsReach(CHOOSE a : IsReach(a, S, next, N), S, next, N)
      BY <1>1, ReachExists
    <2> QED BY <2>1, <2>2
  <1>3. a[0] = S /\ \A n \in 1..N : a[n] = Further(a[n - 1], next)
    BY <1>1, <1>2 DEF IsReach
  <1> HIDE DEF N
  <1>4. \A n \in 0..N : \A m \in 0..n : a[m] \subseteq a[n]
    BY <1>1, <1>3, RoundsGrow
  <1>5. N \in 0..N /\ \A n \in 0..N : 0 \in 0..n
    BY <1>1
  <1>6. \A n \in 0..N : a[0] \subseteq a[n]
    BY <1>4, <1>5
  <1>7. \A n \in 0..N : a[n] \subseteq a[N]
    BY <1>4, <1>5
  <1> QED BY <1>2, <1>3, <1>6, <1>7 DEF N

\* What a call reads is live, hidden, or what the chains of live functions read.
LEMMA CallReadsLive ==
    ASSUME Typed, NEW c \in Invocation, NEW L \in SUBSET Refs,
           InvocationOk(c, L, hidden, funcs)
    PROVE  CallReads(c) \subseteq L \cup Chain(L \cap Funs) \cup hidden
  <1> DEFINE N == Cardinality(Funs)
             B == BodyLive(Known(funcs, c.seen), c.fn)
  <1>1. /\ N \in Nat /\ c.fn \in Funs /\ c.seen \subseteq Funs
        /\ c.after \subseteq Refs /\ hidden \cap Funs = {}
    BY LiveRefsAssumption, FS_CardinalityType DEF Invocation, Typed
  <1>2. /\ c.seen \subseteq DOMAIN funcs /\ c.fn \in L \cup c.after
        /\ B \subseteq L \cup hidden \cup c.after
    BY DEF InvocationOk
  <1>3. PICK a : /\ Reach({c.fn}, Callees(c)) = a[N] /\ a[0] = {c.fn}
                 /\ \A n \in 1..N : a[n] = Further(a[n - 1], Callees(c))
    BY ReachRounds
  <1>4. PICK b : /\ Reach({c.fn}, CallsIn(Known(funcs, c.seen))) = b[N] /\ b[0] = {c.fn}
                 /\ \A n \in 1..N : b[n] = Further(b[n - 1], CallsIn(Known(funcs, c.seen)))
                 /\ \A n \in 0..N : b[n] \subseteq b[N]
    BY ReachRounds
  <1>5. PICK d : /\ Reach(L \cap Funs, CallsIn(Defined)) = d[N] /\ d[0] = L \cap Funs
                 /\ \A n \in 1..N : d[n] = Further(d[n - 1], CallsIn(Defined))
                 /\ \A n \in 0..N : d[0] \subseteq d[n]
    BY ReachRounds
  <1>6. /\ \A n \in 0..N : b[n] \subseteq b[N] /\ d[0] \subseteq d[n]
        /\ \A n \in 1..N : n - 1 \in 0..N
    BY <1>1, <1>4, <1>5
  \* Of a function of this run's, what its body reads and calls is in B.
  <1>7. ASSUME NEW g \in b[N], g \in c.seen
        PROVE  Free(funcs[g]) \subseteq L \cup hidden \cup c.after
    <2>1. g \in Called(Known(funcs, c.seen), c.fn) /\ Known(funcs, c.seen)[g] = funcs[g]
      BY <1>4, <1>7 DEF Called, Known
    <2>2. Free(funcs[g]) \subseteq B
      BY <2>1 DEF BodyLive
    <2> QED BY <1>2, <2>2
  <1>8. ASSUME NEW g \in c.seen, NEW h \in funcs[g].calls
        PROVE  h \in Funs /\ h \in Free(funcs[g])
    <2>1. funcs[g] \in Body
      BY <1>2, <1>8 DEF Typed
    <2>2. funcs[g].calls \subseteq Funs /\ funcs[g].params \subseteq Names
      BY <2>1 DEF Body
    <2>3. h \in Funs /\ h \notin Names /\ h \notin Attrs
      BY <1>8, <2>2, LiveRefsAssumption
    <2> QED BY <1>8, <2>2, <2>3 DEF Free, Uncovered, Covers
  <1>9. ASSUME NEW g \in DOMAIN Defined PROVE Defined[g].calls \subseteq Funs /\ g \in Funs
    BY LiveRefsAssumption DEF Body
  <1> DEFINE Reached(n) == \A g \in a[n] : /\ g \in Funs
                                           /\ g \in c.after \cap c.seen => g \in b[n]
                                           /\ g \notin c.after => g \in d[n]
             S == {n \in Nat : n <= N => Reached(n)}
  <1>10. 0 \in S
    BY <1>1, <1>2, <1>3, <1>4, <1>5
  <1>11. ASSUME NEW n \in Nat, n < N, n \in S PROVE n + 1 \in S
    <2>1. n + 1 \in 1..N /\ (n + 1) - 1 = n /\ n <= N /\ n \in 0..N /\ n + 1 \in 0..N
      BY <1>1, <1>11
    <2>2. /\ a[n + 1] = Further(a[n], Callees(c))
          /\ b[n + 1] = Further(b[n], CallsIn(Known(funcs, c.seen)))
          /\ d[n + 1] = Further(d[n], CallsIn(Defined))
      BY <1>3, <1>4, <1>5, <2>1
    <2>3. b[n] \subseteq b[n + 1] /\ d[n] \subseteq d[n + 1]
      BY <2>2 DEF Further
    <2>4. Reached(n)
      BY <1>11, <2>1
    <2>5. ASSUME NEW g \in a[n], NEW h \in Callees(c)[g]
          PROVE  /\ h \in Funs
                 /\ h \in c.after \cap c.seen => h \in b[n + 1]
                 /\ h \notin c.after => h \in d[n + 1]
      <3>1. g \in Funs
        BY <2>4, <2>5
      <3>2. CASE g \in Own(c)
        <4>1. h \in funcs[g].calls /\ g \in c.after \cap c.seen
          <5>1. g \notin Others(c)
            BY <3>2 DEF Own, Others
          <5>2. Callees(c)[g] = funcs[g].calls
            BY <3>1, <3>2, <5>1 DEF Callees
          <5> QED BY <2>5, <3>2, <5>2 DEF Own
        <4>2. g \in b[n] /\ h \in Funs /\ h \in Free(funcs[g])
          BY <1>8, <2>4, <2>5, <4>1
        <4>3. CallsIn(Known(funcs, c.seen))[g] = funcs[g].calls
          BY <3>1, <4>1 DEF CallsIn, Known
        <4>4. h \in b[n + 1]
          BY <2>2, <4>1, <4>2, <4>3 DEF Further
        <4>5. h \in L \cup hidden \cup c.after
          BY <1>6, <1>7, <2>1, <4>1, <4>2
        <4>6. h \notin c.after => h \in d[0]
          BY <1>1, <1>5, <4>2, <4>5
        <4> QED BY <1>6, <2>1, <4>2, <4>4, <4>6
      <3>3. CASE g \notin Own(c)
        <4>1. g \in Others(c)
          BY <2>5, <3>1, <3>3 DEF Callees
        <4>2. h \in Defined[g].calls /\ h \notin c.after /\ g \in DOMAIN Defined /\ g \notin c.after
          BY <2>5, <3>1, <3>3, <4>1 DEF Callees, Others
        <4>3. g \in d[n] /\ h \in Funs
          BY <1>9, <2>4, <2>5, <4>2
        <4>4. CallsIn(Defined)[g] = Defined[g].calls
          BY <3>1, <4>2 DEF CallsIn
        <4> QED BY <2>2, <4>2, <4>3, <4>4 DEF Further
      <3> QED BY <3>2, <3>3
    <2>6. Reached(n + 1)
      <3>1. \A h \in a[n + 1] : h \in a[n] \/ \E g \in a[n] : h \in Callees(c)[g]
        BY <2>2 DEF Further
      <3> QED BY <2>3, <2>4, <2>5, <3>1
    <2> QED BY <2>6
  <1>12. Reached(N)
    <2>1. \A n \in 0..N : n \in S
      <3> HIDE DEF S
      <3> QED BY <1>1, <1>10, <1>11, IntervalInduction
    <2>2. N \in 0..N /\ N <= N
      BY <1>1
    <2> QED BY <2>1, <2>2
  <1>13. ASSUME NEW g \in a[N], g \in Own(c) \cup Others(c),
                NEW r \in Uncovered(Free(Runs(c, g)), c.after)
         PROVE  r \in L \cup Chain(L \cap Funs) \cup hidden
    <2>1. r \in Free(Runs(c, g)) /\ r \notin c.after
      BY <1>13 DEF Uncovered, Covers
    <2>2. CASE g \in Own(c)
      <3>1. g \in b[N] /\ g \in c.seen /\ Runs(c, g) = funcs[g]
        BY <1>12, <1>13, <2>2 DEF Own, Runs
      <3> QED BY <1>7, <2>1, <3>1
    <2>3. CASE g \notin Own(c)
      <3>1. g \in DOMAIN Defined /\ g \notin c.after /\ Runs(c, g) = Defined[g]
        BY <1>13, <2>3 DEF Others, Runs
      <3>2. g \in d[N]
        BY <1>12, <1>13, <3>1
      <3>3. Free(Defined[g]) \subseteq Chain(L \cap Funs)
        BY <1>5, <3>1, <3>2 DEF Chain
      <3> QED BY <2>1, <3>1, <3>3
    <2> QED BY <2>2, <2>3
  <1>14. ASSUME NEW r \in CallReads(c)
         PROVE  \E g \in a[N] : /\ g \in Own(c) \cup Others(c)
                                /\ r \in Uncovered(Free(Runs(c, g)), c.after)
    <2>1. PICK g \in Reach({c.fn}, Callees(c)) \cap (Own(c) \cup Others(c)) :
                 r \in Uncovered(Free(Runs(c, g)), c.after)
      BY <1>14 DEF CallReads
    <2> QED BY <1>3, <2>1
  <1> QED BY <1>13, <1>14

-----------------------------------------------------------------------------
(* One run after another                                                   *)

Later(c, S) == [c EXCEPT !.after = @ \cup S]

LEMMA LaterFacts ==
    ASSUME NEW c \in Invocation, NEW S \in SUBSET Refs
    PROVE  /\ Later(c, S) \in Invocation
           /\ Later(c, S).fn = c.fn /\ Later(c, S).seen = c.seen
           /\ Later(c, S).after = c.after \cup S
  BY DEF Later, Invocation

LEMMA ThenFacts ==
    ASSUME NEW p \in Run, NEW q \in Run
    PROVE  /\ Then(p, q) \in Run
           /\ Then(p, q).wrote = p.wrote \cup q.wrote
           /\ Then(p, q).read = p.read \cup Uncovered(q.read, p.wrote)
           /\ Then(p, q).calls = p.calls \cup {Later(c, p.wrote) : c \in q.calls}
  <1>1. /\ p.wrote \in SUBSET Refs /\ p.read \in SUBSET Refs /\ p.calls \in SUBSET Invocation
        /\ q.wrote \in SUBSET Refs /\ q.read \in SUBSET Refs /\ q.calls \in SUBSET Invocation
    BY DEF Run
  <1> DEFINE W == p.wrote \cup q.wrote
             R == p.read \cup Uncovered(q.read, p.wrote)
             C == p.calls \cup {Later(c, p.wrote) : c \in q.calls}
  <1>2. W \in SUBSET Refs /\ R \in SUBSET Refs
    BY <1>1 DEF Uncovered
  <1>3. C \in SUBSET Invocation
    BY <1>1, LaterFacts
  <1>4. Then(p, q) = [wrote |-> W, read |-> R, calls |-> C]
    BY DEF Then, Later
  <1> HIDE DEF W, R, C
  <1>5. Then(p, q) \in Run /\ Then(p, q).wrote = W /\ Then(p, q).read = R /\ Then(p, q).calls = C
    BY <1>2, <1>3, <1>4 DEF Run
  <1> QED BY <1>5 DEF W, R, C

LEMMA ComposeFacts ==
    ASSUME NEW P \in SUBSET Run, NEW Q \in SUBSET Run
    PROVE  /\ Compose(P, Q) \in SUBSET Run
           /\ \A t \in Compose(P, Q) : \E p \in P, q \in Q : t = Then(p, q)
           /\ \A p \in P, q \in Q : Then(p, q) \in Compose(P, Q)
           /\ P # {} /\ Q # {} => Compose(P, Q) # {}
  <1>1. \A p \in P, q \in Q : Then(p, q) \in Run
    BY ThenFacts
  <1>2. \A t \in Compose(P, Q) : \E p \in P, q \in Q : t = Then(p, q)
    BY DEF Compose
  <1>3. \A p \in P, q \in Q : Then(p, q) \in Compose(P, Q)
    BY DEF Compose
  <1> HIDE DEF Compose
  <1> QED BY <1>1, <1>2, <1>3

\* An invocation stays as good when more is live and more is hidden.
LEMMA InvocationMore ==
    ASSUME NEW c, NEW L, NEW M, L \subseteq M, NEW H, NEW K, H \subseteq K, NEW F,
           InvocationOk(c, L, H, F)
    PROVE  InvocationOk(c, M, K, F)
  BY DEF InvocationOk

\* It stays so after a run that has written what is taken from the live references.
LEMMA InvocationLater ==
    ASSUME NEW c \in Invocation, NEW W \in SUBSET Refs, NEW L, NEW D, NEW F,
           NEW H \in SUBSET (Names \cup Attrs), D \subseteq W \cup H,
           InvocationOk(c, L \cup D, H, F)
    PROVE  InvocationOk(Later(c, W), L, H, F)
  <1>1. /\ Later(c, W).fn = c.fn /\ Later(c, W).seen = c.seen
        /\ Later(c, W).after = c.after \cup W
    BY LaterFacts
  <1>2. c.fn \in Funs /\ H \cap Funs = {}
    BY LiveRefsAssumption DEF Invocation
  <1>3. /\ c.seen \subseteq DOMAIN F /\ c.fn \in L \cup D \cup c.after
        /\ BodyLive(Known(F, c.seen), c.fn) \subseteq L \cup D \cup H \cup c.after
    BY DEF InvocationOk
  <1>4. c.fn \in L \cup Later(c, W).after
    BY <1>1, <1>2, <1>3
  <1>5. BodyLive(Known(F, c.seen), c.fn) \subseteq L \cup H \cup Later(c, W).after
    BY <1>1, <1>3
  <1> QED BY <1>1, <1>3, <1>4, <1>5 DEF InvocationOk

\* What q may add to a run that has written D: W is dead and L is live after both.
Adds(q, D, W, L, H, F) ==
    /\ W \subseteq D \cup q.wrote \cup H
    /\ \A r \in Refs : Covers(W, r) => Covers(D, r) \/ Covers(q.wrote, r) \/ r \in H
    /\ \A r \in q.read : r \in L \cup H \/ Covers(D, r)
    /\ \A c \in q.calls : InvocationOk(c, L \cup D, H, F)

LEMMA RunThen ==
    ASSUME NEW p \in Run, NEW q \in Run, NEW D, NEW W, NEW L, NEW F,
           NEW H \in SUBSET (Names \cup Attrs),
           RunOk(p, D, L, H, F), Adds(q, D, W, L, H, F)
    PROVE  RunOk(Then(p, q), W, L, H, F)
  <1>1. /\ Then(p, q).wrote = p.wrote \cup q.wrote
        /\ Then(p, q).read = p.read \cup Uncovered(q.read, p.wrote)
        /\ Then(p, q).calls = p.calls \cup {Later(c, p.wrote) : c \in q.calls}
    BY ThenFacts
  <1>2. p.wrote \in SUBSET Refs /\ q.calls \in SUBSET Invocation /\ q.read \in SUBSET Refs
    BY DEF Run
  <1>3. /\ D \subseteq p.wrote \cup H
        /\ \A r \in Refs : Covers(D, r) => Covers(p.wrote, r) \/ r \in H
        /\ p.read \subseteq L \cup H
        /\ \A c \in p.calls : InvocationOk(c, L, H, F)
    BY DEF RunOk, Written
  <1>4. W \subseteq Then(p, q).wrote \cup H
    BY <1>1, <1>3 DEF Adds
  <1>5. \A r \in Refs : Covers(W, r) => Covers(Then(p, q).wrote, r) \/ r \in H
    <2>1. \A r \in Refs : Covers(p.wrote, r) \/ Covers(q.wrote, r) => Covers(Then(p, q).wrote, r)
      BY <1>1 DEF Covers
    <2> QED BY <1>3, <2>1 DEF Adds
  <1>6. Then(p, q).read \subseteq L \cup H
    <2>1. ASSUME NEW r \in Uncovered(q.read, p.wrote) PROVE r \in L \cup H
      <3>1. r \in q.read /\ ~Covers(p.wrote, r) /\ r \in Refs
        BY <1>2, <2>1 DEF Uncovered
      <3> QED BY <1>3, <3>1 DEF Adds
    <2> QED BY <1>1, <1>3, <2>1
  <1>7. \A c \in Then(p, q).calls : InvocationOk(c, L, H, F)
    <2>1. ASSUME NEW c \in q.calls PROVE InvocationOk(Later(c, p.wrote), L, H, F)
      <3>1. c \in Invocation /\ InvocationOk(c, L \cup D, H, F)
        BY <1>2, <2>1 DEF Adds
      <3> QED BY <1>2, <1>3, <3>1, InvocationLater
    <2> QED BY <1>1, <1>3, <2>1
  <1> QED BY <1>4, <1>5, <1>6, <1>7 DEF RunOk, Written

\* Less is dead and more is live of the same run.
LEMMA RunLess ==
    ASSUME NEW p, NEW D, NEW W, W \subseteq D, NEW L, NEW M, L \subseteq M,
           NEW H, NEW F, RunOk(p, D, L, H, F)
    PROVE  RunOk(p, W, M, H, F)
  <1>1. /\ D \subseteq p.wrote \cup H
        /\ \A r \in Refs : Covers(D, r) => Covers(p.wrote, r) \/ r \in H
        /\ p.read \subseteq L \cup H
        /\ \A c \in p.calls : InvocationOk(c, L, H, F)
    BY DEF RunOk, Written
  <1>2. \A r : Covers(W, r) => Covers(D, r)
    BY DEF Covers
  <1>3. \A c \in p.calls : InvocationOk(c, M, H, F)
    BY <1>1, InvocationMore
  <1> QED BY <1>1, <1>2, <1>3 DEF RunOk, Written

-----------------------------------------------------------------------------
(* A visitor and its runs                                                  *)

Extends(F, G) == DOMAIN F \subseteq DOMAIN G /\ \A g \in DOMAIN F : G[g] = F[g]

\* What holds of the functions seen, holds when there are more.
LEMMA InvocationGrows ==
    ASSUME NEW F, NEW G, Extends(F, G), NEW c, NEW L, NEW H, InvocationOk(c, L, H, F)
    PROVE  InvocationOk(c, L, H, G)
  <1>1. c.seen \subseteq DOMAIN F
    BY DEF InvocationOk
  <1>2. Known(F, c.seen) = Known(G, c.seen) /\ c.seen \subseteq DOMAIN G
    BY <1>1 DEF Known, Extends
  <1> QED BY <1>2 DEF InvocationOk

LEMMA RunGrows ==
    ASSUME NEW F, NEW G, Extends(F, G), NEW H, NEW K, H \subseteq K, NEW p, NEW D, NEW L,
           RunOk(p, D, L, H, F)
    PROVE  RunOk(p, D, L, K, G)
  <1>1. /\ D \subseteq p.wrote \cup H
        /\ \A r \in Refs : Covers(D, r) => Covers(p.wrote, r) \/ r \in H
        /\ p.read \subseteq L \cup H
        /\ \A c \in p.calls : InvocationOk(c, L, H, F)
    BY DEF RunOk, Written
  <1>2. \A c \in p.calls : InvocationOk(c, L, H, G)
    BY <1>1, InvocationGrows
  <1>3. \A c \in p.calls : InvocationOk(c, L, K, G)
    BY <1>2, InvocationMore
  <1> QED BY <1>1, <1>3 DEF RunOk, Written

LEMMA FitsGrows ==
    ASSUME NEW F, NEW G, Extends(F, G), NEW H, NEW K, H \subseteq K,
           NEW I, NEW J, I \subseteq J, NEW v, NEW P, Fits(v, P, H, I, F)
    PROVE  Fits(v, P, K, J, G)
  <1>1. \A p \in P : RunOk(p, v.dead, v.live, K, G)
    BY RunGrows DEF Fits
  <1> QED BY <1>1 DEF Fits, SomeFree, SomeReads

\* The runs Q after those of P: what w has collected fits both.
FitsAfter(w, v, Q, H, I, F) ==
    /\ Q # {}
    /\ v.live \subseteq w.live
    /\ \A q \in Q : Adds(q, v.dead, w.dead, w.live, H, F)
    /\ \A r \in w.live \cap Names : r \in v.live \cup I \/ (SomeReads(Q, I, r) /\ r \notin v.dead)
    /\ \A r \in Names : r \in w.dead \/ (r \notin v.dead /\ SomeFree(Q, I, r))

LEMMA FitsThen ==
    ASSUME NEW v \in View, NEW w \in View, NEW P \in SUBSET Run, NEW Q \in SUBSET Run,
           NEW H \in SUBSET (Names \cup Attrs), NEW I, NEW F,
           Fits(v, P, H, I, F), FitsAfter(w, v, Q, H, I, F)
    PROVE  Fits(w, Compose(P, Q), H, I, F)
  <1>1. /\ Compose(P, Q) \in SUBSET Run
        /\ \A t \in Compose(P, Q) : \E p \in P, q \in Q : t = Then(p, q)
        /\ \A p \in P, q \in Q : Then(p, q) \in Compose(P, Q)
        /\ P # {} /\ Q # {} => Compose(P, Q) # {}
    BY ComposeFacts
  <1>2. \A p \in P, q \in Q : /\ Then(p, q).wrote = p.wrote \cup q.wrote
                             /\ Then(p, q).read = p.read \cup Uncovered(q.read, p.wrote)
    BY ThenFacts
  <1>3. P # {} /\ Q # {}
    BY DEF Fits, FitsAfter
  <1>4. ASSUME NEW p \in P, NEW q \in Q PROVE RunOk(Then(p, q), w.dead, w.live, H, F)
    <2>1. RunOk(p, v.dead, v.live, H, F) /\ v.live \subseteq w.live
      BY DEF Fits, FitsAfter
    <2>2. RunOk(p, v.dead, w.live, H, F)
      BY <2>1, RunLess
    <2>3. Adds(q, v.dead, w.dead, w.live, H, F)
      BY DEF FitsAfter
    <2> QED BY <2>2, <2>3, RunThen
  <1>5. \A t \in Compose(P, Q) : RunOk(t, w.dead, w.live, H, F)
    BY <1>1, <1>4
  <1>6. ASSUME NEW r \in Names, NEW p \in P, r \in p.read PROVE SomeReads(Compose(P, Q), I, r)
    <2>1. PICK q \in Q : TRUE
      BY <1>3
    <2>2. Then(p, q) \in Compose(P, Q) /\ r \in Then(p, q).read
      BY <1>1, <1>2, <1>6
    <2> QED BY <2>2 DEF SomeReads
  <1>7. \A r \in Names : SomeReads(P, I, r) => SomeReads(Compose(P, Q), I, r)
    BY <1>6 DEF SomeReads
  <1>8. \A r \in Names : \A p \in P, q \in Q :
           r \notin p.wrote /\ r \in q.read => r \in Then(p, q).read
    <2>1. \A r \in Names : r \notin Attrs
      BY LiveRefsAssumption
    <2>2. \A r \in Names : \A p \in P, q \in Q :
             r \notin p.wrote /\ r \in q.read => r \in Uncovered(q.read, p.wrote)
      BY <2>1 DEF Uncovered, Covers
    <2> QED BY <1>2, <2>2
  <1>9. ASSUME NEW r \in Names, r \notin v.dead PROVE SomeFree(P, I, r)
    BY <1>9 DEF Fits
  <1>10. ASSUME NEW r \in Names, r \notin v.dead, SomeReads(Q, I, r)
         PROVE  SomeReads(Compose(P, Q), I, r)
    <2>1. CASE SomeReads(P, I, r)
      BY <1>7, <2>1
    <2>2. CASE ~SomeReads(P, I, r)
      <3>1. r \notin I /\ \E p \in P : r \notin p.wrote
        BY <1>9, <1>10, <2>2 DEF SomeFree, SomeReads
      <3>2. PICK p \in P : r \notin p.wrote
        BY <3>1
      <3>3. PICK q \in Q : r \in q.read
        BY <1>10, <3>1 DEF SomeReads
      <3> QED BY <1>1, <1>8, <3>2, <3>3 DEF SomeReads
    <2> QED BY <2>1, <2>2
  <1>11. ASSUME NEW r \in Names, r \notin v.dead, SomeFree(Q, I, r)
         PROVE  SomeFree(Compose(P, Q), I, r)
    <2>1. CASE SomeReads(P, I, r) \/ SomeReads(Q, I, r)
      BY <1>7, <1>10, <1>11, <2>1 DEF SomeFree
    <2>2. CASE ~SomeReads(P, I, r) /\ ~SomeReads(Q, I, r)
      <3>1. PICK p \in P : r \notin p.wrote
        BY <1>9, <1>11, <2>2 DEF SomeFree
      <3>2. PICK q \in Q : r \notin q.wrote
        BY <1>11, <2>2 DEF SomeFree
      <3>3. Then(p, q) \in Compose(P, Q) /\ r \notin Then(p, q).wrote
        BY <1>1, <1>2, <3>1, <3>2
      <3> QED BY <3>3 DEF SomeFree
    <2> QED BY <2>1, <2>2
  <1>12. \A r \in w.live \cap Names : SomeReads(Compose(P, Q), I, r)
    <2>1. \A r \in v.live \cap Names : SomeReads(P, I, r)
      BY DEF Fits
    <2> QED BY <1>7, <1>10, <2>1 DEF FitsAfter, SomeReads
  <1>13. \A r \in Names : r \in w.dead \/ SomeFree(Compose(P, Q), I, r)
    BY <1>11 DEF FitsAfter
  <1> QED BY <1>1, <1>3, <1>5, <1>12, <1>13 DEF Fits

-----------------------------------------------------------------------------
(* Types                                                                   *)

\* The references of a body, and of the bodies a call leads to.
LEMMA FreeType == \A b \in Body : Free(b) \subseteq Refs
  BY DEF Body, Free, Uncovered, Refs

LEMMA BodyLiveType ==
    ASSUME Typed, NEW f
    PROVE  BodyLive(funcs, f) \subseteq Refs
  <1>1. \A g \in Called(funcs, f) : funcs[g] \in Body
    BY DEF Called, Typed
  <1> QED BY <1>1, FreeType DEF BodyLive

LEMMA DoType ==
    ASSUME NEW read \in SUBSET Refs, NEW wrote \in SUBSET Refs
    PROVE  /\ Do(read, wrote) \in SUBSET Run
           /\ \A q \in Do(read, wrote) : q.wrote = wrote /\ q.read = read /\ q.calls = {}
           /\ \E q \in Do(read, wrote) : TRUE
  BY DEF Do, Run

LEMMA CallType ==
    ASSUME Typed, NEW f \in Funs, NEW args \in SUBSET Refs
    PROVE  /\ Call(funcs, f, args) \in SUBSET Run
           /\ \A q \in Call(funcs, f, args) :
                 /\ q.wrote = {} /\ q.read = args \cup {f}
                 /\ \A c \in q.calls : c.fn = f /\ c.after = {} /\ c.seen = DOMAIN funcs
           /\ \E q \in Call(funcs, f, args) : TRUE
  <1>1. [fn |-> f, after |-> {}, seen |-> DOMAIN funcs] \in Invocation
    BY DEF Typed, Invocation
  <1>2. args \cup {f} \in SUBSET Refs
    BY DEF Refs
  <1> DEFINE c == [fn |-> f, after |-> {}, seen |-> DOMAIN funcs]
  <1>3. c.fn = f /\ c.after = {} /\ c.seen = DOMAIN funcs
    OBVIOUS
  <1>4. Call(funcs, f, args) = {[wrote |-> {}, read |-> args \cup {f}, calls |-> {c}]}
    BY DEF Call
  <1> HIDE DEF c
  <1> QED BY <1>1, <1>2, <1>3, <1>4 DEF Run, c

\* What w must be to fit after a statement that reads and writes.
StatementOk(v, w, read, wrote, H) ==
    /\ v.live \subseteq w.live /\ v.dead \subseteq w.dead
    /\ w.dead \subseteq v.dead \cup wrote \cup H
    /\ \A r \in Refs : Covers(w.dead, r) => Covers(v.dead, r) \/ Covers(wrote, r) \/ r \in H
    /\ \A r \in read : r \in w.live \cup H \/ Covers(v.dead, r)
    /\ \A r \in w.live \cap Names : r \in v.live \/ (r \in read /\ r \notin v.dead)
    /\ \A r \in wrote \cap Names : r \in w.dead \cup read

LEMMA FitsStatement ==
    ASSUME NEW v \in View, NEW w \in View, NEW P \in SUBSET Run,
           NEW read \in SUBSET Refs, NEW wrote \in SUBSET Refs,
           NEW H \in SUBSET (Names \cup Attrs), NEW I, NEW F,
           Fits(v, P, H, I, F), StatementOk(v, w, read, wrote, H)
    PROVE  Fits(w, Compose(P, Do(read, wrote)), H, I, F)
  <1>1. /\ Do(read, wrote) \in SUBSET Run
        /\ \A q \in Do(read, wrote) : q.wrote = wrote /\ q.read = read /\ q.calls = {}
        /\ \E q \in Do(read, wrote) : TRUE
    BY DoType
  <1>2. PICK q \in Do(read, wrote) : q.wrote = wrote /\ q.read = read
    BY <1>1
  <1>3. \A d \in Do(read, wrote) : Adds(d, v.dead, w.dead, w.live, H, F)
    BY <1>1 DEF Adds, StatementOk
  <1>4. \A r \in w.live \cap Names :
           r \in v.live \cup I \/ (SomeReads(Do(read, wrote), I, r) /\ r \notin v.dead)
    BY <1>2 DEF SomeReads, StatementOk
  <1>5. ASSUME NEW r \in Names, r \notin w.dead
        PROVE  r \notin v.dead /\ SomeFree(Do(read, wrote), I, r)
    <2>1. (r \in read \/ r \notin wrote) /\ r \notin v.dead
      BY <1>5 DEF StatementOk
    <2> QED BY <1>2, <2>1 DEF SomeFree, SomeReads
  <1>6. FitsAfter(w, v, Do(read, wrote), H, I, F)
    BY <1>2, <1>3, <1>4, <1>5 DEF FitsAfter, StatementOk
  <1> QED BY <1>1, <1>6, FitsThen

-----------------------------------------------------------------------------
(* The steps                                                               *)

\* What is hidden, inlined and defined is only added to.
Grows ==
    /\ hidden \subseteq hidden' /\ hidden' \subseteq Names \cup Attrs
    /\ inlined \subseteq inlined' /\ inlined' \subseteq Refs
    /\ Extends(funcs, funcs')
    /\ DOMAIN funcs' \subseteq Funs /\ funcs' \in [DOMAIN funcs' -> Body]
    /\ failed' \in BOOLEAN /\ count' \in 0..MaxStmts

LEMMA BlockGrows ==
    ASSUME NEW b, BlockFits(b, hidden, inlined, funcs), Grows
    PROVE  BlockFits(b, hidden', inlined', funcs')
  <1>1. Fits(b.outer, b.before, hidden', inlined', funcs')
    BY FitsGrows DEF BlockFits, Grows
  <1>2. b.body # << >> => Fits(b.body[1], b.runs, hidden', inlined', funcs')
    BY FitsGrows DEF BlockFits, Grows
  <1> QED BY <1>1, <1>2 DEF BlockFits

LEMMA QuietGrows ==
    ASSUME Typed, UNCHANGED <<funcs, hidden, inlined, failed>>, count' \in 0..MaxStmts
    PROVE  Grows
  BY DEF Grows, Typed, Extends

\* A statement leaves the blocks around it as they are.
LEMMA StatementInv ==
    ASSUME IInv, Grows, blocks' = blocks, visitor' \in View, paths' \in SUBSET Run,
           Fits(visitor', paths', hidden', inlined', funcs')
    PROVE  IInv'
  <1>1. Typed'
    BY DEF IInv, Typed, Grows
  <1>2. ASSUME NEW i \in 1..Len(blocks)
        PROVE  BlockFits(blocks[i], hidden', inlined', funcs')
    <2>1. BlockFits(blocks[i], hidden, inlined, funcs)
      BY <1>2 DEF IInv
    <2> QED BY <2>1, BlockGrows
  <1> QED BY <1>1, <1>2 DEF IInv

LEMMA DoInv ==
    ASSUME IInv, Grows, blocks' = blocks, visitor' \in View, inlined' = inlined,
           NEW read \in SUBSET Refs, NEW wrote \in SUBSET Refs,
           paths' = Compose(paths, Do(read, wrote)),
           StatementOk(visitor, visitor', read, wrote, hidden')
    PROVE  IInv'
  <1>1. visitor \in View /\ paths \in SUBSET Run /\ hidden' \in SUBSET (Names \cup Attrs)
    BY DEF IInv, Typed, Grows
  <1>2. Fits(visitor, paths, hidden', inlined', funcs')
    BY FitsGrows DEF IInv, Grows
  <1>3. Fits(visitor', paths', hidden', inlined', funcs')
    BY <1>1, <1>2, FitsStatement
  <1>4. paths' \in SUBSET Run
    BY <1>1, DoType, ComposeFacts
  <1> QED BY <1>3, <1>4, StatementInv

LEMMA CoversUnion ==
    /\ \A C, D, r : Covers(C \cup D, r) <=> Covers(C, r) \/ Covers(D, r)
    /\ \A C, D, r : C \subseteq D /\ Covers(C, r) => Covers(D, r)
  BY DEF Covers

\* Parameters that Next gives an action.
LEMMA InputTypes ==
    /\ \A r \in Reads : r \subseteq Names \cup Attrs
    /\ \A r \in Tests : r \subseteq Names \cup Attrs
    /\ \A b \in Bodies : b \in Body
    /\ Names \subseteq Refs /\ Attrs \subseteq Refs /\ Funs \subseteq Refs
    /\ \A a \in Attrs : Base[a] \in Names
  BY LiveRefsAssumption DEF Reads, AtMostOne, Refs

LEMMA WriteCount == ASSUME Typed, Write PROVE count' \in 0..MaxStmts
  BY LiveRefsAssumption DEF Write, Typed

LEMMA AssignInv ==
    ASSUME IInv, NEW targets \in SUBSET (Names \cup Attrs), NEW reads \in SUBSET (Names \cup Attrs),
           Assign(targets, reads)
    PROVE  IInv'
  <1> DEFINE bases == {Base[t] : t \in targets \cap Attrs}
             R == reads \cup bases
             L == Uncovered(R, visitor.dead)
  <1>1. Typed /\ visitor \in View
    BY DEF IInv, Typed
  <1>2. R \in SUBSET Refs /\ targets \in SUBSET Refs /\ L \in SUBSET R
    BY InputTypes DEF Uncovered
  <1>3. visitor' = [visitor EXCEPT !.live = @ \cup L, !.dead = @ \cup (targets \ L),
                                   !.modified = @ \cup (L \cap {})]
    BY DEF Assign, AssignImpl
  <1>4. /\ visitor'.live = visitor.live \cup L /\ visitor'.dead = visitor.dead \cup (targets \ L)
        /\ visitor' \in View
    <2> HIDE DEF L
    <2> QED BY <1>1, <1>2, <1>3 DEF View
  <1>5. Grows /\ blocks' = blocks /\ inlined' = inlined /\ hidden' = hidden
    BY <1>1, QuietGrows, WriteCount DEF Assign
  <1>6. paths' = Compose(paths, Do(R, targets))
    BY DEF Assign
  <1>7. \A r \in R : r \in L \/ Covers(visitor.dead, r)
    BY DEF Uncovered
  <1>8. \A r \in L : r \in R /\ r \notin visitor.dead
    BY DEF Uncovered, Covers
  <1> HIDE DEF R, L
  <1>9. \A r : Covers(visitor'.dead, r) => Covers(visitor.dead, r) \/ Covers(targets, r)
    <2>1. \A r : Covers(targets \ L, r) => Covers(targets, r)
      BY CoversUnion
    <2> QED BY <1>4, <2>1, CoversUnion
  <1>10. StatementOk(visitor, visitor', R, targets, hidden')
    BY <1>2, <1>4, <1>7, <1>8, <1>9 DEF StatementOk
  <1> QED BY <1>2, <1>4, <1>5, <1>6, <1>10, DoInv

LEMMA AugAssignInv ==
    ASSUME IInv, NEW target \in Names \cup Attrs, NEW reads \in SUBSET (Names \cup Attrs),
           AugAssign(target, reads)
    PROVE  IInv'
  <1> DEFINE R == reads \cup {target}
             L == Uncovered({target} \cup reads \cup {Base[t] : t \in {} \cap Attrs}, visitor.dead)
  <1>1. Typed /\ visitor \in View
    BY DEF IInv, Typed
  <1>2. R \in SUBSET Refs /\ {target} \in SUBSET Refs /\ L = Uncovered(R, visitor.dead)
    BY InputTypes DEF Uncovered
  <1>3. L \in SUBSET R
    BY <1>2 DEF Uncovered
  <1>4. visitor' = [visitor EXCEPT !.live = @ \cup L, !.dead = @ \cup ({} \ L),
                                   !.modified = @ \cup (L \cap {target})]
    BY DEF AugAssign, AssignImpl
  <1>5. /\ visitor'.live = visitor.live \cup L /\ visitor'.dead = visitor.dead
        /\ visitor' \in View
    <2> HIDE DEF L
    <2> QED BY <1>1, <1>2, <1>3, <1>4 DEF View
  <1>6. Grows /\ blocks' = blocks /\ inlined' = inlined /\ hidden' = hidden
    BY <1>1, QuietGrows, WriteCount DEF AugAssign
  <1>7. paths' = Compose(paths, Do(R, {target}))
    BY DEF AugAssign
  <1>8. /\ \A r \in R : r \in L \/ Covers(visitor.dead, r)
        /\ \A r \in L : r \in R /\ r \notin visitor.dead
    BY <1>2 DEF Uncovered, Covers
  <1>9. target \in R
    OBVIOUS
  <1> HIDE DEF R, L
  <1>10. StatementOk(visitor, visitor', R, {target}, hidden')
    BY <1>2, <1>5, <1>8, <1>9 DEF StatementOk
  <1> QED BY <1>2, <1>5, <1>6, <1>7, <1>10, DoInv

LEMMA ListCompInv ==
    ASSUME IInv, NEW target \in Names, NEW iter \in SUBSET (Names \cup Attrs),
           NEW elt \in SUBSET (Names \cup Attrs), ListComp(target, iter, elt)
    PROVE  IInv'
  <1> DEFINE R == iter \cup Uncovered(elt, {target})
             L == Uncovered(iter \cup elt, visitor.dead \cup {target})
             none == {}
  <1>1. Typed /\ visitor \in View
    BY DEF IInv, Typed
  <1>2. R \in SUBSET Refs /\ none \in SUBSET Refs /\ L \in SUBSET Refs
    BY InputTypes DEF Uncovered
  <1>3. visitor' = [visitor EXCEPT !.live = @ \cup L]
    BY DEF ListComp, Comprehension
  <1>4. /\ visitor'.live = visitor.live \cup L /\ visitor'.dead = visitor.dead
        /\ visitor' \in View
    <2> HIDE DEF L
    <2> QED BY <1>1, <1>2, <1>3 DEF View
  <1>5. /\ blocks' = blocks /\ inlined' = inlined /\ funcs' = funcs /\ failed' = failed
        /\ hidden' = hidden \cup {r \in iter : Covers({target}, r)}
    BY DEF ListComp
  <1>6. hidden \subseteq hidden' /\ hidden' \subseteq Names \cup Attrs
    BY <1>1, <1>5 DEF Typed
  <1>7. Grows
    BY <1>1, <1>5, <1>6, WriteCount DEF Grows, Typed, Extends, ListComp
  <1>8. paths' = Compose(paths, Do(R, none))
    BY DEF ListComp
  <1>9. ASSUME NEW r \in R PROVE r \in L \cup hidden' \/ Covers(visitor.dead, r)
    <2>1. CASE Covers({target}, r)
      BY <1>5, <1>9, <2>1 DEF Uncovered
    <2>2. CASE ~Covers({target}, r)
      <3>1. r \in iter \cup elt
        BY <1>9 DEF Uncovered
      <3> QED BY <2>2, <3>1, CoversUnion DEF Uncovered
    <2> QED BY <2>1, <2>2
  <1>10. \A r \in L : r \in R /\ r \notin visitor.dead
    BY DEF Uncovered, Covers
  <1> HIDE DEF R, L, none
  <1>11. StatementOk(visitor, visitor', R, none, hidden')
    BY <1>2, <1>4, <1>9, <1>10 DEF StatementOk, none
  <1> QED BY <1>2, <1>4, <1>5, <1>7, <1>8, <1>11, DoInv

LEMMA LambdaInv ==
    ASSUME IInv, NEW default \in Names \cup Attrs, Lambda(default)
    PROVE  IInv'
  <1> DEFINE read == {default}
             D == {NameOf(default)}
             L == Uncovered(read \cap Attrs, visitor.dead)
             none == {}
  <1>1. Typed /\ visitor \in View
    BY DEF IInv, Typed
  <1>2. read \in SUBSET Refs /\ none \in SUBSET Refs /\ L \in SUBSET read
        /\ D \in SUBSET Refs /\ D \subseteq Names
    BY LiveRefsAssumption DEF Uncovered, NameOf, Refs
  <1>3. visitor' = [visitor EXCEPT !.dead = @ \cup D, !.live = @ \cup L]
    BY DEF Lambda, LambdaDefault
  <1>4. /\ visitor'.live = visitor.live \cup L /\ visitor'.dead = visitor.dead \cup D
        /\ visitor' \in View
    <2> HIDE DEF L, D
    <2> QED BY <1>1, <1>2, <1>3 DEF View
  <1>5. /\ blocks' = blocks /\ inlined' = inlined /\ funcs' = funcs /\ failed' = failed
        /\ hidden' = hidden \cup {r \in Names \cup Attrs : Covers(D, r)}
    BY DEF Lambda
  <1>6. hidden \subseteq hidden' /\ hidden' \subseteq Names \cup Attrs
    BY <1>1, <1>5 DEF Typed
  <1>7. Grows
    BY <1>1, <1>5, <1>6, WriteCount DEF Grows, Typed, Extends, Lambda
  <1>8. paths' = Compose(paths, Do(read, none))
    BY DEF Lambda
  <1>9. \A r \in read : r \in L \cup hidden' \/ Covers(visitor.dead, r)
    BY <1>5 DEF Covers, NameOf
  <1>10. \A r \in L : r \in read /\ r \notin Names
    BY LiveRefsAssumption DEF Uncovered
  <1>11. \A r \in Refs : Covers(visitor'.dead, r) => Covers(visitor.dead, r) \/ r \in hidden'
    <2>1. \A r : Covers(D, r) => r \in hidden'
      BY <1>2, <1>5 DEF Covers
    <2> QED BY <1>4, <2>1, CoversUnion
  <1>12. D \subseteq hidden'
    BY <1>2, <1>5 DEF Covers
  <1> HIDE DEF read, L, D, none
  <1>13. StatementOk(visitor, visitor', read, none, hidden')
    BY <1>2, <1>4, <1>9, <1>10, <1>11, <1>12 DEF StatementOk, none
  <1> QED BY <1>2, <1>4, <1>5, <1>7, <1>8, <1>13, DoInv

LEMMA LoadFacts ==
    ASSUME NEW v \in View, NEW S \in SUBSET Refs
    PROVE  /\ Load(v, S) \in View /\ Load(v, S).live = v.live \cup Uncovered(S, v.dead)
           /\ Load(v, S).dead = v.dead /\ Load(v, S).modified = v.modified
           /\ \A r \in S : r \in Load(v, S).live \/ Covers(v.dead, r)
           /\ \A r \in Load(v, S).live : r \in v.live \/ (r \in S /\ r \notin v.dead)
  <1>1. Uncovered(S, v.dead) \in SUBSET Refs
    BY DEF Uncovered
  <1>2. /\ Load(v, S) \in View /\ Load(v, S).live = v.live \cup Uncovered(S, v.dead)
        /\ Load(v, S).dead = v.dead /\ Load(v, S).modified = v.modified
    <2> DEFINE L == Uncovered(S, v.dead)
    <2>1. L \in SUBSET Refs /\ Load(v, S) = [v EXCEPT !.live = @ \cup L]
      BY <1>1 DEF Load
    <2> HIDE DEF L
    <2>2. /\ Load(v, S) \in View /\ Load(v, S).live = v.live \cup L
          /\ Load(v, S).dead = v.dead /\ Load(v, S).modified = v.modified
      BY <2>1 DEF View
    <2> QED BY <2>2 DEF L
  <1>3. \A r \in S : r \in Uncovered(S, v.dead) \/ Covers(v.dead, r)
    BY DEF Uncovered
  <1>4. \A r \in Uncovered(S, v.dead) : r \in S /\ r \notin v.dead
    BY DEF Uncovered, Covers
  <1> QED BY <1>2, <1>3, <1>4

LEMMA FunctionDefInv ==
    ASSUME IInv, NEW f \in Funs, NEW body \in Body, NEW defaults \in SUBSET (Names \cup Attrs),
           FunctionDef(f, body, defaults)
    PROVE  IInv'
  <1> DEFINE v == Load(visitor, defaults)
  <1>1. Typed /\ visitor \in View
    BY DEF IInv, Typed
  <1>2. defaults \in SUBSET Refs /\ {f} \in SUBSET Refs
    BY InputTypes
  <1>3. visitor' = [v EXCEPT !.dead = @ \cup {f}]
    BY DEF FunctionDef
  <1>4. /\ v \in View /\ v.dead = visitor.dead
        /\ visitor.live \subseteq v.live
        /\ \A r \in defaults : r \in v.live \/ Covers(visitor.dead, r)
        /\ \A r \in v.live : r \in visitor.live \/ (r \in defaults /\ r \notin visitor.dead)
    BY <1>1, <1>2, LoadFacts
  <1>5. visitor' \in View /\ visitor'.live = v.live /\ visitor'.dead = visitor.dead \cup {f}
    <2> HIDE DEF v
    <2> QED BY <1>2, <1>3, <1>4 DEF View
  <1>6. /\ blocks' = blocks /\ inlined' = inlined /\ hidden' = hidden /\ failed' = failed
        /\ funcs' = [g \in DOMAIN funcs \cup {f} |-> IF g = f THEN body ELSE funcs[g]]
        /\ f \notin DOMAIN funcs
    BY DEF FunctionDef
  <1>7. DOMAIN funcs \subseteq Funs /\ \A g \in DOMAIN funcs : funcs[g] \in Body
    BY <1>1 DEF Typed
  <1>8. /\ DOMAIN funcs' = DOMAIN funcs \cup {f}
        /\ \A g \in DOMAIN funcs : funcs'[g] = funcs[g]
        /\ funcs' \in [DOMAIN funcs \cup {f} -> Body]
    BY <1>6, <1>7
  <1>9. count' \in 0..MaxStmts
    BY <1>1, WriteCount DEF FunctionDef
  <1>10. /\ Extends(funcs, funcs')
         /\ DOMAIN funcs' \subseteq Funs /\ funcs' \in [DOMAIN funcs' -> Body]
    BY <1>7, <1>8 DEF Extends
  <1>11. Grows
    BY <1>1, <1>6, <1>9, <1>10 DEF Grows, Typed
  <1>12. paths' = Compose(paths, Do(defaults, {f}))
    BY DEF FunctionDef
  <1>13. StatementOk(visitor, visitor', defaults, {f}, hidden')
    <2> HIDE DEF v
    <2>1. f \notin Names
      BY LiveRefsAssumption
    <2>2. \A r : Covers(visitor'.dead, r) => Covers(visitor.dead, r) \/ Covers({f}, r)
      BY <1>5, CoversUnion
    <2> QED BY <1>2, <1>4, <1>5, <2>1, <2>2 DEF StatementOk
  <1> QED BY <1>2, <1>5, <1>6, <1>11, <1>12, <1>13, DoInv

LEMMA CallFunctionInv ==
    ASSUME IInv, NEW f \in Funs, NEW args \in SUBSET (Names \cup Attrs), CallFunction(f, args)
    PROVE  IInv'
  <1> DEFINE v == Load(visitor, args \cup {f})
             B == BodyLive(funcs, f)
             Q == Call(funcs, f, args)
  <1>1. Typed /\ visitor \in View /\ paths \in SUBSET Run /\ count' \in 0..MaxStmts
        /\ hidden \in SUBSET (Names \cup Attrs)
    BY WriteCount DEF IInv, Typed, CallFunction
  <1>2. funcs' = funcs /\ blocks' = blocks /\ hidden' = hidden
    BY DEF CallFunction
  <1>3. CASE Recurs(funcs, f)
    <2>1. visitor' = visitor /\ inlined' = inlined /\ paths' = paths /\ failed' = TRUE
      BY <1>3 DEF CallFunction
    <2>2. Grows
      BY <1>1, <1>2, <2>1 DEF Grows, Typed, Extends
    <2>3. Fits(visitor', paths', hidden', inlined', funcs')
      BY <1>2, <2>1 DEF IInv
    <2> QED BY <1>1, <1>2, <2>1, <2>2, <2>3, StatementInv
  <1>4. CASE ~Recurs(funcs, f)
    <2>1. /\ visitor' = [v EXCEPT !.live = @ \cup B] /\ inlined' = inlined \cup B
          /\ paths' = Compose(paths, Q) /\ failed' = failed
      BY <1>4 DEF CallFunction, VisitCall
    <2>2. args \in SUBSET Refs /\ args \cup {f} \in SUBSET Refs /\ B \in SUBSET Refs
      BY <1>1, InputTypes, BodyLiveType
    <2>3. /\ v \in View /\ v.dead = visitor.dead /\ visitor.live \subseteq v.live
          /\ \A r \in args \cup {f} : r \in v.live \/ Covers(visitor.dead, r)
          /\ \A r \in v.live : r \in visitor.live \/ (r \in args \cup {f} /\ r \notin visitor.dead)
      BY <1>1, <2>2, LoadFacts
    <2>4. /\ Q \in SUBSET Run
          /\ \A q \in Q : /\ q.wrote = {} /\ q.read = args \cup {f}
                          /\ \A c \in q.calls : c.fn = f /\ c.after = {} /\ c.seen = DOMAIN funcs
          /\ \E q \in Q : TRUE
      BY <1>1, <2>2, CallType
    <2>5. Known(funcs, DOMAIN funcs) = funcs
      BY <1>1 DEF Typed, Known
    <2>6. f \notin Attrs
      BY LiveRefsAssumption
    <2> HIDE DEF v, Q
    <2>7. visitor' \in View /\ visitor'.live = v.live \cup B /\ visitor'.dead = visitor.dead
      <3> HIDE DEF B
      <3> QED BY <2>1, <2>2, <2>3 DEF View
    <2>8. f \in visitor'.live \cup visitor.dead
      BY <2>3, <2>6, <2>7 DEF Covers
    <2>9. ASSUME NEW q \in Q, NEW c \in q.calls
          PROVE  InvocationOk(c, visitor'.live \cup visitor.dead, hidden', funcs')
      <3>1. c.fn = f /\ c.after = {} /\ c.seen = DOMAIN funcs
        BY <2>4, <2>9
      <3> QED BY <1>2, <2>5, <2>7, <2>8, <3>1 DEF InvocationOk
    <2>10. \A q \in Q : Adds(q, visitor.dead, visitor'.dead, visitor'.live, hidden', funcs')
      BY <2>3, <2>4, <2>7, <2>9 DEF Adds
    <2>11. PICK q \in Q : q.wrote = {} /\ q.read = args \cup {f}
      BY <2>4
    <2>12. \A r \in visitor'.live \cap Names :
              \/ r \in visitor.live \cup inlined'
              \/ SomeReads(Q, inlined', r) /\ r \notin visitor.dead
      BY <2>1, <2>3, <2>7, <2>11 DEF SomeReads
    <2>13. \A r \in Names :
              r \in visitor'.dead \/ (r \notin visitor.dead /\ SomeFree(Q, inlined', r))
      BY <2>7, <2>11 DEF SomeFree
    <2>14. FitsAfter(visitor', visitor, Q, hidden', inlined', funcs')
      BY <2>3, <2>7, <2>10, <2>11, <2>12, <2>13 DEF FitsAfter
    <2>15. Grows
      <3> HIDE DEF B
      <3> QED BY <1>1, <1>2, <2>1, <2>2 DEF Grows, Typed, Extends
    <2>16. Fits(visitor, paths, hidden', inlined', funcs')
      BY <2>15, FitsGrows DEF IInv, Grows
    <2>17. Fits(visitor', paths', hidden', inlined', funcs') /\ paths' \in SUBSET Run
      BY <1>1, <1>2, <2>1, <2>4, <2>7, <2>14, <2>16, FitsThen, ComposeFacts
    <2> QED BY <1>2, <2>7, <2>15, <2>17, StatementInv
  <1> QED BY <1>3, <1>4

\* A visitor that begins knows what the one statement before it wrote.
LEMMA FitsStart ==
    ASSUME NEW v \in View, v.live = {}, NEW H, NEW I, NEW F
    PROVE  Fits(v, Do({}, v.dead), H, I, F)
  <1> DEFINE none == {}
             P == Do(none, v.dead)
  <1>1. v.dead \in SUBSET Refs /\ none \in SUBSET Refs
    BY DEF View
  <1>2. /\ \A p \in P : p.wrote = v.dead /\ p.read = none /\ p.calls = {}
        /\ \E p \in P : TRUE
    BY <1>1, DoType
  <1> HIDE DEF P
  <1>3. \A p \in P : RunOk(p, v.dead, v.live, H, F)
    BY <1>2 DEF RunOk, Written
  <1>4. \A r \in Names : r \in v.dead \/ SomeFree(P, I, r)
    BY <1>2 DEF SomeFree
  <1>5. Fits(v, P, H, I, F)
    BY <1>2, <1>3, <1>4 DEF Fits
  <1> QED BY <1>5 DEF P

LEMMA BeginBlockInv ==
    ASSUME IInv, NEW loop \in BOOLEAN, NEW test \in SUBSET (Names \cup Attrs),
           NEW target \in SUBSET Names, BeginBlock(loop, test, target)
    PROVE  IInv'
  <1> DEFINE v == Load(visitor, test)
             none == {}
             before == Compose(paths, Do(test, none))
             b == [outer |-> v, before |-> before, loop |-> loop, target |-> target,
                   body |-> << >>, runs |-> {}]
  <1>1. Typed /\ visitor \in View /\ paths \in SUBSET Run /\ blocks \in Seq(Block)
        /\ hidden \in SUBSET (Names \cup Attrs) /\ Len(blocks) \in Nat
    BY DEF IInv, Typed
  <1>2. test \in SUBSET Refs /\ none \in SUBSET Refs
    BY InputTypes
  <1>3. /\ v \in View /\ v.dead = visitor.dead /\ visitor.live \subseteq v.live
        /\ \A r \in test : r \in v.live \/ Covers(visitor.dead, r)
        /\ \A r \in v.live : r \in visitor.live \/ (r \in test /\ r \notin visitor.dead)
    BY <1>1, <1>2, LoadFacts
  <1>4. /\ funcs' = funcs /\ hidden' = hidden /\ inlined' = inlined /\ failed' = failed
        /\ count' \in 0..MaxStmts /\ Len(blocks) < MaxNest
        /\ visitor' = [live |-> {}, dead |-> target, modified |-> v.modified]
        /\ paths' = Do(none, target) /\ blocks' = Append(blocks, b)
    BY <1>1, WriteCount DEF BeginBlock
  <1>5. before \in SUBSET Run
    BY <1>1, <1>2, DoType, ComposeFacts
  <1> HIDE DEF v, none
  <1>6. StatementOk(visitor, v, test, none, hidden)
    BY <1>3 DEF StatementOk, none
  <1>7. Fits(v, before, hidden, inlined, funcs)
    BY <1>1, <1>2, <1>3, <1>6, FitsStatement DEF IInv
  <1> HIDE DEF before
  <1>8. b \in Block /\ b.outer = v /\ b.before = before /\ b.body = << >>
    BY <1>3, <1>5 DEF Block
  <1>9. BlockFits(b, hidden, inlined, funcs)
    BY <1>7, <1>8 DEF BlockFits
  <1> HIDE DEF b
  <1>10. /\ blocks' \in Seq(Block) /\ Len(blocks') = Len(blocks) + 1
         /\ \A i \in 1..Len(blocks) : blocks'[i] = blocks[i]
         /\ blocks'[Len(blocks) + 1] = b
    BY <1>1, <1>4, <1>8
  <1>11. \A i \in 1..Len(blocks') : i \in 1..Len(blocks) \/ i = Len(blocks) + 1
    BY <1>1, <1>10
  <1>12. \A i \in 1..Len(blocks') : BlockFits(blocks'[i], hidden', inlined', funcs')
    BY <1>4, <1>9, <1>10, <1>11 DEF IInv
  <1>13. visitor' \in View /\ visitor'.live = {} /\ visitor'.dead = target
    <2>1. target \in SUBSET Refs /\ v.modified \in SUBSET Refs
      BY <1>3, InputTypes DEF View
    <2> QED BY <1>4, <2>1 DEF View
  <1>14. Fits(visitor', paths', hidden', inlined', funcs')
    BY <1>4, <1>13, FitsStart DEF none
  <1>15. paths' \in SUBSET Run /\ Len(blocks') <= MaxNest
    <2>1. target \in SUBSET Refs
      BY InputTypes
    <2>2. paths' \in SUBSET Run
      BY <1>2, <1>4, <2>1, DoType
    <2>3. Len(blocks') <= MaxNest
      BY <1>1, <1>4, <1>10, LiveRefsAssumption
    <2> QED BY <2>2, <2>3
  <1>16. Typed'
    BY <1>1, <1>4, <1>10, <1>13, <1>15 DEF Typed
  <1> QED BY <1>12, <1>14, <1>16 DEF IInv

LEMMA ElseInv ==
    ASSUME IInv, Else
    PROVE  IInv'
  <1> DEFINE n == Len(blocks)
             none == {}
  <1>1. Typed /\ visitor \in View /\ paths \in SUBSET Run /\ blocks \in Seq(Block)
        /\ n \in Nat
    BY DEF IInv, Typed
  <1>2. n \in 1..n /\ blocks # << >>
    BY <1>1 DEF Else
  <1>3. PICK b : b = blocks[n] /\ b \in Block
    BY <1>1, <1>2
  <1> DEFINE e == [[b EXCEPT !.body = <<visitor>>] EXCEPT !.runs = paths]
  <1>4. /\ funcs' = funcs /\ hidden' = hidden /\ inlined' = inlined /\ failed' = failed
        /\ count' = count
        /\ visitor' = [visitor EXCEPT !.live = {}, !.dead = {}]
        /\ paths' = Start
        /\ blocks' = [blocks EXCEPT ![n].body = <<visitor>>, ![n].runs = paths]
    BY DEF Else
  <1>5. /\ e \in Block /\ e.outer = b.outer /\ e.before = b.before
        /\ e.body # << >> /\ e.body[1] = visitor /\ e.runs = paths
    <2>1. <<visitor>> \in Seq(View) /\ <<visitor>> # << >> /\ <<visitor>>[1] = visitor
      BY <1>1
    <2>2. PICK s : s = <<visitor>>
      OBVIOUS
    <2>3. e = [[b EXCEPT !.body = s] EXCEPT !.runs = paths]
      BY <2>2
    <2>4. /\ e \in Block /\ e.outer = b.outer /\ e.before = b.before /\ e.body = s
          /\ e.runs = paths
      BY <1>1, <1>3, <2>1, <2>2, <2>3 DEF Block
    <2> QED BY <2>1, <2>2, <2>4
  <1>6. /\ \A i \in 1..n : blocks'[i] = IF i = n THEN e ELSE blocks[i]
        /\ blocks' \in Seq(Block) /\ Len(blocks') = n
    <2>1. blocks' = [blocks EXCEPT ![n] = e]
      BY <1>1, <1>2, <1>3, <1>4
    <2> HIDE DEF e
    <2> QED BY <1>1, <1>2, <1>5, <2>1
  <1> HIDE DEF e
  <1>7. BlockFits(e, hidden, inlined, funcs)
    <2>1. BlockFits(b, hidden, inlined, funcs)
      BY <1>2, <1>3 DEF IInv
    <2> QED BY <1>5, <2>1 DEF BlockFits, IInv
  <1>8. \A i \in 1..Len(blocks') : BlockFits(blocks'[i], hidden', inlined', funcs')
    BY <1>4, <1>6, <1>7 DEF IInv
  <1>9. visitor' \in View /\ visitor'.live = {} /\ visitor'.dead = {}
    BY <1>1, <1>4 DEF View
  <1>10. paths' = Do({}, visitor'.dead) /\ paths' \in SUBSET Run
    BY <1>4, <1>9 DEF Start, Do, Run
  <1>11. Fits(visitor', paths', hidden', inlined', funcs')
    BY <1>9, <1>10, FitsStart
  <1>12. Typed'
    BY <1>1, <1>4, <1>6, <1>9, <1>10 DEF Typed
  <1> QED BY <1>8, <1>11, <1>12 DEF IInv

\* The runs of a whole block, from those of its body and of its orelse.
InnerRuns(loop, R, P) == IF loop THEN Compose(Loop(R), P) \cup Turns(R) ELSE R \cup P

\* A run after one that has written nothing in particular.
LEMMA RunAfterAny ==
    ASSUME NEW p \in Run, NEW q \in Run, NEW D, NEW W, NEW L, NEW F,
           NEW H \in SUBSET (Names \cup Attrs),
           RunOk(p, D, L, H, F), RunOk(q, W, L, H, F)
    PROVE  RunOk(Then(p, q), W, L, H, F)
  <1>1. /\ W \subseteq q.wrote \cup H
        /\ \A r \in Refs : Covers(W, r) => Covers(q.wrote, r) \/ r \in H
        /\ q.read \subseteq L \cup H
        /\ \A c \in q.calls : InvocationOk(c, L, H, F)
    BY DEF RunOk, Written
  <1>2. \A c \in q.calls : InvocationOk(c, L \cup D, H, F)
    BY <1>1, InvocationMore
  <1>3. Adds(q, D, W, L, H, F)
    BY <1>1, <1>2 DEF Adds
  <1> QED BY <1>3, RunThen

LEMMA TurnsFacts ==
    ASSUME NEW R \in SUBSET Run, NEW D, NEW L, NEW F, NEW H \in SUBSET (Names \cup Attrs),
           \A p \in R : RunOk(p, D, L, H, F)
    PROVE  /\ Turns(R) \in SUBSET Run /\ R \subseteq Turns(R)
           /\ \A p \in Turns(R) : RunOk(p, D, L, H, F)
  <1>1. Compose(R, R) \in SUBSET Run /\ \A t \in Compose(R, R) : \E p, q \in R : t = Then(p, q)
    BY ComposeFacts
  <1>2. \A p, q \in R : RunOk(Then(p, q), D, L, H, F)
    BY RunAfterAny
  <1>3. \A t \in Compose(R, R) : RunOk(t, D, L, H, F)
    BY <1>1, <1>2
  <1> QED BY <1>1, <1>3 DEF Turns

LEMMA LoopFacts ==
    ASSUME NEW R \in SUBSET Run, NEW D, NEW L, NEW F, NEW H \in SUBSET (Names \cup Attrs),
           \A p \in R : RunOk(p, D, L, H, F)
    PROVE  /\ Loop(R) \in SUBSET Run
           /\ \A p \in Loop(R) : RunOk(p, {}, L, H, F)
           /\ \E s \in Loop(R) : s.wrote = {} /\ s.read = {}
  <1>1. Turns(R) \in SUBSET Run /\ \A p \in Turns(R) : RunOk(p, D, L, H, F)
    BY TurnsFacts
  <1>2. /\ Start \in SUBSET Run /\ \E s \in Start : TRUE
        /\ \A s \in Start : s.wrote = {} /\ s.read = {} /\ s.calls = {}
    BY DEF Start, Run
  <1>3. \A s \in Start : RunOk(s, {}, L, H, F)
    BY <1>2 DEF RunOk, Written
  <1>4. \A p \in Turns(R) : RunOk(p, {}, L, H, F)
    BY <1>1, RunLess
  <1> QED BY <1>1, <1>2, <1>3, <1>4 DEF Loop

LEMMA InnerFacts ==
    ASSUME NEW loop \in BOOLEAN, NEW u \in View, NEW x \in View,
           NEW R \in SUBSET Run, NEW P \in SUBSET Run,
           NEW H \in SUBSET (Names \cup Attrs), NEW I, NEW F,
           Fits(u, R, H, I, F), Fits(x, P, H, I, F)
    PROVE  /\ InnerRuns(loop, R, P) \in SUBSET Run
           /\ \A q \in InnerRuns(loop, R, P) :
                 RunOk(q, u.dead \cap x.dead, u.live \cup x.live, H, F)
           /\ R \subseteq InnerRuns(loop, R, P) /\ R # {}
           /\ \A p \in P : \E q \in InnerRuns(loop, R, P) : q.wrote = p.wrote /\ q.read = p.read
  <1> DEFINE D == u.dead \cap x.dead
             L == u.live \cup x.live
  <1>1. \A p \in R : RunOk(p, u.dead, u.live, H, F)
    BY DEF Fits
  <1>2. \A p \in P : RunOk(p, x.dead, x.live, H, F)
    BY DEF Fits
  <1>3. D \subseteq u.dead /\ D \subseteq x.dead /\ u.live \subseteq L /\ x.live \subseteq L
    OBVIOUS
  <1> HIDE DEF D, L
  <1>4. \A p \in R \cup P : RunOk(p, D, L, H, F)
    BY <1>1, <1>2, <1>3, RunLess
  <1>5. R # {}
    BY DEF Fits
  <1>6. CASE loop
    <2>1. /\ Turns(R) \in SUBSET Run /\ R \subseteq Turns(R)
          /\ \A p \in Turns(R) : RunOk(p, D, L, H, F)
      BY <1>4, TurnsFacts
    <2>2. /\ Loop(R) \in SUBSET Run
          /\ \A p \in Loop(R) : RunOk(p, {}, L, H, F)
          /\ \E s \in Loop(R) : s.wrote = {} /\ s.read = {}
      BY <1>4, LoopFacts
    <2>3. /\ Compose(Loop(R), P) \in SUBSET Run
          /\ \A t \in Compose(Loop(R), P) : \E p \in Loop(R), q \in P : t = Then(p, q)
          /\ \A p \in Loop(R), q \in P : Then(p, q) \in Compose(Loop(R), P)
      BY <2>2, ComposeFacts
    <2>4. \A p \in Loop(R), q \in P : RunOk(Then(p, q), D, L, H, F)
      BY <1>4, <2>2, RunAfterAny
    <2>5. \A t \in Compose(Loop(R), P) : RunOk(t, D, L, H, F)
      BY <2>3, <2>4
    <2>6. ASSUME NEW p \in P
          PROVE  \E q \in Compose(Loop(R), P) : q.wrote = p.wrote /\ q.read = p.read
      <3>1. PICK s \in Loop(R) : s.wrote = {} /\ s.read = {}
        BY <2>2
      <3>2. /\ Then(s, p).wrote = s.wrote \cup p.wrote
            /\ Then(s, p).read = s.read \cup Uncovered(p.read, s.wrote)
        BY <2>2, ThenFacts
      <3>3. Uncovered(p.read, {}) = p.read
        BY DEF Uncovered, Covers
      <3>4. Then(s, p).wrote = p.wrote /\ Then(s, p).read = p.read
        BY <3>1, <3>2, <3>3
      <3> QED BY <2>3, <3>1, <3>4
    <2>7. InnerRuns(loop, R, P) = Compose(Loop(R), P) \cup Turns(R)
      BY <1>6 DEF InnerRuns
    <2> QED BY <1>5, <2>1, <2>3, <2>5, <2>6, <2>7 DEF D, L
  <1>7. CASE ~loop
    <2>1. InnerRuns(loop, R, P) = R \cup P
      BY <1>7 DEF InnerRuns
    <2> QED BY <1>4, <1>5, <2>1 DEF D, L
  <1> QED BY <1>6, <1>7

\* What generic_visit_branch_or_loop collects of a block fits its runs.
LEMMA BranchFits ==
    ASSUME NEW loop \in BOOLEAN, NEW v \in View, NEW u \in View, NEW x \in View,
           NEW R \in SUBSET Run, NEW P \in SUBSET Run,
           NEW H \in SUBSET (Names \cup Attrs), NEW I, NEW F,
           Fits(u, R, H, I, F), Fits(x, P, H, I, F)
    PROVE  /\ FitsAfter(BranchOrLoop(v, u, x), v, InnerRuns(loop, R, P), H, I, F)
           /\ InnerRuns(loop, R, P) \in SUBSET Run
  <1> DEFINE Q == InnerRuns(loop, R, P)
             D == u.dead \cap x.dead
             L == u.live \cup x.live
             w == BranchOrLoop(v, u, x)
  <1>1. /\ Q \in SUBSET Run
        /\ \A q \in Q : RunOk(q, D, L, H, F)
        /\ R \subseteq Q /\ R # {}
        /\ \A p \in P : \E q \in Q : q.wrote = p.wrote /\ q.read = p.read
    BY InnerFacts
  <1>2. w.live = v.live \cup (L \ v.dead) /\ w.dead = v.dead \cup D
    BY DEF BranchOrLoop
  <1> HIDE DEF Q, w
  <1>3. ASSUME NEW q \in Q PROVE Adds(q, v.dead, w.dead, w.live, H, F)
    <2>1. /\ D \subseteq q.wrote \cup H
          /\ \A r \in Refs : Covers(D, r) => Covers(q.wrote, r) \/ r \in H
          /\ q.read \subseteq L \cup H
          /\ \A c \in q.calls : InvocationOk(c, L, H, F)
      BY <1>1 DEF RunOk, Written
    <2>2. L \subseteq w.live \cup v.dead
      BY <1>2
    <2>3. \A c \in q.calls : InvocationOk(c, w.live \cup v.dead, H, F)
      BY <2>1, <2>2, InvocationMore
    <2>4. \A r : Covers(w.dead, r) => Covers(v.dead, r) \/ Covers(D, r)
      BY <1>2, CoversUnion
    <2>5. \A r \in q.read : r \in w.live \cup H \/ Covers(v.dead, r)
      BY <2>1, <2>2 DEF Covers
    <2> HIDE DEF D, L
    <2> QED BY <1>2, <2>1, <2>3, <2>4, <2>5 DEF Adds
  <1>4. \A r : SomeReads(R, I, r) \/ SomeReads(P, I, r) => SomeReads(Q, I, r)
    BY <1>1 DEF SomeReads
  <1>5. \A r : SomeFree(R, I, r) \/ SomeFree(P, I, r) => SomeFree(Q, I, r)
    BY <1>1, <1>4 DEF SomeFree
  <1>6. \A r \in w.live \cap Names :
           r \in v.live \cup I \/ (SomeReads(Q, I, r) /\ r \notin v.dead)
    <2>1. \A r \in L \cap Names : SomeReads(Q, I, r)
      BY <1>4 DEF Fits
    <2> QED BY <1>2, <2>1
  <1>7. \A r \in Names : r \in w.dead \/ (r \notin v.dead /\ SomeFree(Q, I, r))
    <2>1. \A r \in Names : r \in D \/ SomeFree(Q, I, r)
      BY <1>5 DEF Fits
    <2> QED BY <1>2, <2>1
  <1>8. Q # {} /\ v.live \subseteq w.live
    BY <1>1, <1>2
  <1>9. FitsAfter(w, v, Q, H, I, F)
    BY <1>3, <1>6, <1>7, <1>8 DEF FitsAfter
  <1> QED BY <1>1, <1>9 DEF Q, w

LEMMA FrontFacts ==
    ASSUME NEW s \in Seq(Block), Len(s) \in 1..Len(s)
    PROVE  /\ Front(s) \in Seq(Block) /\ Len(Front(s)) = Len(s) - 1
           /\ \A i \in 1..(Len(s) - 1) : Front(s)[i] = s[i]
  <1>1. PICK k : k = Len(s) - 1 /\ k \in Int /\ k >= 0
    OBVIOUS
  <1>2. Front(s) = SubSeq(s, 1, k)
    BY <1>1 DEF Front
  <1>3. \A i \in 1..k : s[i] \in Block
    BY <1>1, ElementOfSeq
  <1>4. /\ SubSeq(s, 1, k) \in Seq(Block)
        /\ Len(SubSeq(s, 1, k)) = IF 1 <= k THEN k - 1 + 1 ELSE 0
        /\ \A i \in 1..(k - 1 + 1) : SubSeq(s, 1, k)[i] = s[1 + i - 1]
    BY <1>1, <1>3, SubSeqProperties
  <1>5. \A i \in 1..k : i \in 1..(k - 1 + 1) /\ 1 + i - 1 = i
    BY <1>1
  <1>6. Len(SubSeq(s, 1, k)) = k
    BY <1>1, <1>4
  <1>7. \A i \in 1..k : SubSeq(s, 1, k)[i] = s[i]
    BY <1>4, <1>5
  <1> QED BY <1>1, <1>2, <1>4, <1>6, <1>7

LEMMA EndBlockInv ==
    ASSUME IInv, EndBlock
    PROVE  IInv'
  <1> DEFINE n == Len(blocks)
  <1>1. /\ Typed /\ visitor \in View /\ paths \in SUBSET Run /\ blocks \in Seq(Block)
        /\ n \in Nat /\ hidden \in SUBSET (Names \cup Attrs) /\ n <= MaxNest
    BY DEF IInv, Typed
  <1>2. n \in 1..n /\ blocks # << >>
    BY <1>1 DEF EndBlock
  <1>3. PICK b : b = blocks[n] /\ b \in Block /\ Last(blocks) = b
    BY <1>1, <1>2 DEF Last
  <1>4. PICK u : u = b.body[1]
    OBVIOUS
  <1> DEFINE Q == InnerRuns(b.loop, b.runs, paths)
             w == BranchOrLoop(b.outer, u, visitor)
  <1>5. /\ funcs' = funcs /\ hidden' = hidden /\ inlined' = inlined /\ failed' = failed
        /\ count' = count /\ b.body # << >>
        /\ visitor' = w /\ paths' = Compose(b.before, Q) /\ blocks' = Front(blocks)
    BY <1>3, <1>4 DEF EndBlock, InnerRuns
  <1>6. /\ b.outer \in View /\ b.before \in SUBSET Run /\ b.loop \in BOOLEAN
        /\ b.runs \in SUBSET Run /\ b.body \in Seq(View)
    BY <1>3 DEF Block
  <1>7. u \in View
    <2>1. 1 \in 1..Len(b.body)
      BY <1>5, <1>6
    <2> QED BY <1>4, <1>6, <2>1, ElementOfSeq
  <1>8. /\ Fits(b.outer, b.before, hidden, inlined, funcs)
        /\ Fits(u, b.runs, hidden, inlined, funcs)
        /\ Fits(visitor, paths, hidden, inlined, funcs)
    BY <1>2, <1>3, <1>4, <1>5 DEF IInv, BlockFits
  <1>9. FitsAfter(w, b.outer, Q, hidden, inlined, funcs) /\ Q \in SUBSET Run
    BY <1>1, <1>6, <1>7, <1>8, BranchFits
  <1>10. w \in View
    BY <1>1, <1>6, <1>7 DEF BranchOrLoop, View
  <1> HIDE DEF Q, w
  <1>11. Fits(w, Compose(b.before, Q), hidden, inlined, funcs)
    BY <1>1, <1>6, <1>8, <1>9, <1>10, FitsThen
  <1>12. /\ blocks' \in Seq(Block) /\ Len(blocks') = n - 1
         /\ \A i \in 1..(n - 1) : blocks'[i] = blocks[i]
    BY <1>1, <1>2, <1>5, FrontFacts
  <1>13. \A i \in 1..Len(blocks') : BlockFits(blocks'[i], hidden', inlined', funcs')
    <2>1. \A i \in 1..(n - 1) : i \in 1..n
      BY <1>1
    <2> QED BY <1>5, <1>12, <2>1 DEF IInv
  <1>14. paths' \in SUBSET Run /\ Len(blocks') <= MaxNest
    <2>1. paths' \in SUBSET Run
      BY <1>5, <1>6, <1>9, ComposeFacts
    <2> QED BY <1>1, <1>12, <2>1, LiveRefsAssumption
  <1>15. Typed'
    BY <1>1, <1>5, <1>10, <1>12, <1>14 DEF Typed
  <1> QED BY <1>5, <1>11, <1>13, <1>15 DEF IInv

LEMMA InitInv == Init => IInv
  <1> SUFFICES ASSUME Init PROVE IInv
    OBVIOUS
  <1>1. /\ visitor = [live |-> {}, dead |-> {}, modified |-> {}] /\ paths = Start
        /\ funcs = << >> /\ blocks = << >> /\ hidden = {} /\ inlined = {}
        /\ failed = FALSE /\ count = 0
    BY DEF Init
  <1>2. visitor \in View /\ visitor.live = {} /\ visitor.dead = {}
    BY <1>1 DEF View
  <1>3. paths = Do({}, visitor.dead) /\ paths \in SUBSET Run
    BY <1>1, <1>2 DEF Start, Do, Run
  <1>4. Fits(visitor, paths, hidden, inlined, funcs)
    BY <1>2, <1>3, FitsStart
  <1>5. DOMAIN funcs = {} /\ funcs \in [DOMAIN funcs -> Body]
    BY <1>1
  <1>6. blocks \in Seq(Block) /\ Len(blocks) = 0
    BY <1>1
  <1>7. Typed
    <2>1. Len(blocks) <= MaxNest /\ count \in 0..MaxStmts
      BY <1>1, <1>6, LiveRefsAssumption
    <2>2. failed \in BOOLEAN /\ hidden \subseteq Names \cup Attrs /\ inlined \subseteq Refs
      BY <1>1
    <2> QED BY <1>2, <1>3, <1>5, <1>6, <2>1, <2>2 DEF Typed
  <1> QED BY <1>4, <1>6, <1>7 DEF IInv

LEMMA StepInv == IInv /\ [Next]_vars => IInv'
  <1> SUFFICES ASSUME IInv, [Next]_vars PROVE IInv'
    OBVIOUS
  <1> USE InputTypes
  <1>1. ASSUME NEW r \in Reads, NEW t \in Names \cup Attrs, Assign({t}, r) PROVE IInv'
    BY <1>1, AssignInv
  <1>2. ASSUME NEW r \in Tests, Assign(Names, r) PROVE IInv'
    BY <1>2, AssignInv
  <1>3. ASSUME NEW r \in Tests, NEW t \in Names \cup Attrs, AugAssign(t, r) PROVE IInv'
    BY <1>3, AugAssignInv
  <1>4. ASSUME NEW r \in Names \cup Attrs, Lambda(r) PROVE IInv'
    BY <1>4, LambdaInv
  <1>5. ASSUME NEW r \in Reads, NEW t \in Names, NEW e \in Tests, ListComp(t, r, e) PROVE IInv'
    BY <1>5, ListCompInv
  <1>6. ASSUME NEW f \in Funs, NEW r \in Tests, CallFunction(f, r) PROVE IInv'
    BY <1>6, CallFunctionInv
  <1>7. ASSUME NEW f \in Funs, NEW r \in Tests, NEW b \in Bodies, FunctionDef(f, b, r) PROVE IInv'
    BY <1>7, FunctionDefInv
  <1>8. ASSUME NEW l \in BOOLEAN, NEW r \in Tests, NEW t \in AtMostOne(Names), BeginBlock(l, r, t)
        PROVE  IInv'
    <2>1. t \in SUBSET Names /\ r \in SUBSET (Names \cup Attrs)
      BY <1>8 DEF AtMostOne
    <2> QED BY <1>8, <2>1, BeginBlockInv
  <1>9. CASE UNCHANGED vars
    BY <1>9 DEF vars, IInv, Typed
  <1> QED BY <1>1, <1>2, <1>3, <1>4, <1>5, <1>6, <1>7, <1>8, <1>9, ElseInv, EndBlockInv DEF Next

LEMMA Invariance == Spec => []IInv
  BY InitInv, StepInv, PTL DEF Spec

-----------------------------------------------------------------------------

\* Every variable keeps its type, whatever is written.
THEOREM TypeCorrect == Spec => []TypeOK
  <1>1. IInv => TypeOK
    <2> SUFFICES ASSUME IInv PROVE TypeOK
      OBVIOUS
    <2>1. Typed
      BY DEF IInv
    <2>2. ASSUME NEW p \in paths
          PROVE  /\ p.wrote \subseteq Refs /\ p.read \subseteq Refs
                 /\ \A c \in p.calls :
                       c.fn \in Funs /\ c.after \subseteq Refs /\ c.seen \subseteq Funs
      <3>1. p \in Run
        BY <2>1 DEF Typed
      <3>2. p.wrote \subseteq Refs /\ p.read \subseteq Refs /\ p.calls \subseteq Invocation
        BY <3>1 DEF Run
      <3> QED BY <3>2 DEF Invocation
    <2>3. hidden \subseteq Refs
      BY <2>1 DEF Typed, Refs
    <2> QED BY <2>1, <2>2, <2>3 DEF TypeOK, Typed, View
  <1> QED BY <1>1, Invariance, PTL

\* generic_visit_branch_or_loop and the visits of targets: what the visitor takes
\* for dead, every run of the cell has given a value of its own, however many
\* branches and loops are in one another.
THEOREM DeadOnEveryRun == Spec => []DeadIsWritten
  <1>1. IInv => DeadIsWritten
    BY DEF IInv, Fits, RunOk, Written, DeadIsWritten
  <1> QED BY <1>1, Invariance, PTL

\* No name is live for nothing: some run reads it before writing it.
THEOREM LiveOnSomeRun == Spec => []LiveIsRead
  <1>1. IInv => LiveIsRead
    BY DEF IInv, Fits, SomeReads, LiveIsRead
  <1> QED BY <1>1, Invariance, PTL

\* What a run of the cell reads of the notebook, by itself or in functions, is live.
THEOREM LiveIsEnough == Spec => []ReadsAreLive
  <1>1. IInv => ReadsAreLive
    <2> SUFFICES ASSUME IInv PROVE ReadsAreLive
      OBVIOUS
    <2>1. Typed /\ visitor \in View /\ paths \in SUBSET Run
      BY DEF IInv, Typed
    <2>2. visitor.live \in SUBSET Refs
      BY <2>1 DEF View
    <2>3. ASSUME NEW p \in paths PROVE RunReads(p) \subseteq LiveSymbols \cup hidden
      <3>1. /\ p.read \subseteq visitor.live \cup hidden
            /\ \A c \in p.calls : InvocationOk(c, visitor.live, hidden, funcs)
        BY DEF IInv, Fits, RunOk
      <3>2. p.calls \subseteq Invocation
        BY <2>1 DEF Run
      <3>3. \A c \in p.calls :
               CallReads(c) \subseteq visitor.live \cup Chain(visitor.live \cap Funs) \cup hidden
        BY <2>1, <2>2, <3>1, <3>2, CallReadsLive
      <3> QED BY <3>1, <3>3 DEF RunReads, LiveSymbols
    <2> QED BY <2>3 DEF ReadsAreLive
  <1> QED BY <1>1, Invariance, PTL

=============================================================================
