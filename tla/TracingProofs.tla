---------------------------- MODULE TracingProofs ----------------------------
(***************************************************************************)
(* The tracer's stack follows the interpreter's, however deep the calls    *)
(* are, how often tracing is switched off, and where exceptions are        *)
(* caught, but by the cell's own code.                                     *)
(***************************************************************************)
EXTENDS Tracing, SequenceTheorems, TLAPS

Stmts == (Bodies \X Nat) \cup {None}
Places == ((Bodies \X Nat) \X Nat) \cup {None}
Events == {"call", "return", "exception", "after_stmt"}
Frame == [fn : Bodies, inst : BOOLEAN, hook : BOOLEAN, pushed : BOOLEAN,
          at : 0..MaxStmts, phase : Phases, guard : BOOLEAN]
Level == [depth : Nat, lex : Places, saved : Nat, stmt : Stmts]
Tracer == [on : BOOLEAN, disabledAt : 0..MaxDepth, levels : Seq(Level),
           callDepth : 0..MaxDepth, finished : SUBSET Stmts, lastCall : [Fns -> Places],
           seen : SUBSET Fns, prev : [event : Events, stmt : Stmts], flagged : BOOLEAN]

\* There is a level for each depth up to the last one, with the depth it was made at.
Stacked(ls) ==
    /\ Len(ls) \in 1..MaxDepth
    /\ \A n \in 1..Len(ls) : ls[n].depth = n
    /\ \A n \in 2..Len(ls) : ls[n].saved = n
Sound(t) == t \in Tracer /\ Stacked(t.levels)

\* Instructions run in frames with a level, which also report their return, and
\* these are the first ones; all but the top frame are in a statement, which
\* is not before the first.
Nested(fs) ==
    /\ \A i \in 1..Len(fs) : fs[i].inst => fs[i].pushed
    /\ \A i \in 1..Len(fs) : fs[i].pushed => fs[i].hook
    /\ \A i \in 1..Len(fs) : fs[i].pushed => \A j \in 1..i : fs[j].pushed
    /\ \A i \in 1..Len(fs) : i < Len(fs) => fs[i].phase # "idle"
    /\ \A i \in 1..Len(fs) : fs[i].phase # "idle" => fs[i].at > 0
Framed(fs) ==
    /\ fs \in Seq(Frame) /\ Len(fs) \in 1..MaxDepth
    /\ fs[1].inst /\ fs[1].fn = Cell
    /\ Nested(fs)

\* While tracing is on every frame has a level; while it is off the frames
\* that have one are those that did when it was switched off and have not returned.
Follows(t, fs) ==
    /\ t.on => t.callDepth = Len(fs) /\ Len(t.levels) = Len(fs)
    /\ t.on => \A i \in 1..Len(fs) : fs[i].pushed
    /\ ~t.on => \A i \in 1..Len(fs) : fs[i].pushed => i <= Len(t.levels) /\ i <= t.disabledAt

\* The statement that the frame has ended is handled.
Handled(t, fr) == fr.phase = "idle" /\ fr.at > 0 /\ fr.inst => Stmt(fr) \in t.finished
\* Between two statements of the cell tracing is on.
Between(t, fs) == Len(fs) = 1 /\ fs[1].phase = "idle" => t.on /\ Handled(t, fs[1])
\* Unless tracing has been off, what has run has been handled.
Watched(t, fs, sk) ==
    ~t.flagged => t.on /\ sk \subseteq t.finished /\ Handled(t, fs[Len(fs)])

Good(t, fs, sk) ==
    Sound(t) /\ Framed(fs) /\ Follows(t, fs) /\ Between(t, fs) /\ Watched(t, fs, sk)
IInv == Good(T, frames, skipped) /\ calls \in Nat /\ raised \in BOOLEAN

\* u is t but for marks that nothing below depends on.
Alike(u, t) ==
    /\ u.on = t.on /\ u.disabledAt = t.disabledAt /\ Len(u.levels) = Len(t.levels)
    /\ u.callDepth = t.callDepth /\ u.finished = t.finished /\ u.flagged = t.flagged
    /\ u.seen = t.seen

-----------------------------------------------------------------------------
(* The tracer's stack.                                                     *)

\* The fields of a tracer.
LEMMA TracerFields ==
    ASSUME NEW t, Sound(t)
    PROVE  /\ t.on \in BOOLEAN /\ t.disabledAt \in 0..MaxDepth /\ t.levels \in Seq(Level)
           /\ t.callDepth \in 0..MaxDepth /\ t.finished \in SUBSET Stmts
           /\ t.seen \in SUBSET Fns /\ t.flagged \in BOOLEAN
           /\ t.prev \in [event : Events, stmt : Stmts] /\ t.lastCall \in [Fns -> Places]
           /\ Len(t.levels) \in Nat \ {0} /\ DOMAIN t.levels = 1..Len(t.levels)
           /\ Len(t.levels) \in 1..MaxDepth
<1>1. t \in Tracer /\ Stacked(t.levels)
  BY DEF Sound
<1>2. t.levels \in Seq(Level)
  BY <1>1 DEF Tracer
<1>3. DOMAIN t.levels = 1..Len(t.levels) /\ Len(t.levels) \in Nat
  BY <1>2, LenProperties
<1>. QED
  BY <1>1, <1>2, <1>3 DEF Tracer, Stacked

\* Level n of a stack is changed, but for its depth and what it saved.
LEMMA LevelChanged ==
    ASSUME NEW ls \in Seq(Level), Stacked(ls), NEW n \in 1..Len(ls), NEW e \in Level,
           e.depth = ls[n].depth, e.saved = ls[n].saved, NEW ms, ms = [ls EXCEPT ![n] = e]
    PROVE  ms \in Seq(Level) /\ Stacked(ms) /\ Len(ms) = Len(ls)
<1>1. Len(ls) \in Nat /\ DOMAIN ls = 1..Len(ls) /\ \A i \in 1..Len(ls) : ls[i] \in Level
  BY LenProperties, ElementOfSeq
<1>2. DOMAIN ms = 1..Len(ls) /\ \A i \in 1..Len(ls) : ms[i] = IF i = n THEN e ELSE ls[i]
  BY <1>1
<1>3. ms \in [1..Len(ls) -> Level]
  BY <1>1
<1>4. ms \in Seq(Level) /\ Len(ms) = Len(ls)
  BY <1>1, <1>3
<1>5. Stacked(ms)
  <2>1. \A i \in 1..Len(ls) : ms[i].depth = ls[i].depth
    BY <1>2
  <2>2. \A i \in 2..Len(ls) : i \in 1..Len(ls)
    BY <1>1
  <2>3. \A i \in 2..Len(ls) : ms[i].saved = ls[i].saved
    BY <1>2, <2>2
  <2>. QED
    BY <1>4, <2>1, <2>3 DEF Stacked
<1>. QED
  BY <1>4, <1>5

\* The running statement is set.
LEMMA SetStmtFacts ==
    ASSUME NEW t, Sound(t), NEW s \in Stmts, NEW u, u = SetStmt(t, s)
    PROVE  Sound(u) /\ Alike(u, t)
<1>1. PICK n : n = Len(t.levels)
  OBVIOUS
<1>2. PICK e : e = [t.levels[n] EXCEPT !.stmt = s]
  OBVIOUS
<1>3. t.levels \in Seq(Level) /\ n \in 1..Len(t.levels) /\ t.levels[n] \in Level /\ Stacked(t.levels)
  BY <1>1, TracerFields, ElementOfSeq DEF Sound
<1>4. e \in Level /\ e.depth = t.levels[n].depth /\ e.saved = t.levels[n].saved
  BY <1>2, <1>3 DEF Level
<1>5. PICK ms : ms = [t.levels EXCEPT ![n] = e]
  OBVIOUS
<1>6. ms \in Seq(Level) /\ Stacked(ms) /\ Len(ms) = Len(t.levels)
  BY <1>3, <1>4, <1>5, LevelChanged
<1>7. u = [t EXCEPT !.levels = ms] /\ t \in Tracer
  BY <1>1, <1>2, <1>5 DEF SetStmt, Sound
<1>8. u \in Tracer /\ u.levels = ms
  BY <1>6, <1>7 DEF Tracer
<1>. QED
  BY <1>6, <1>7, <1>8 DEF Sound, Alike, Tracer

\* The place of a call is set.
LEMMA SetLexFacts ==
    ASSUME NEW t, Sound(t), NEW x \in Places, NEW u, u = SetLex(t, x)
    PROVE  Sound(u) /\ Alike(u, t)
<1>1. PICK n : n = Len(t.levels)
  OBVIOUS
<1>2. PICK e : e = [t.levels[n] EXCEPT !.lex = x]
  OBVIOUS
<1>3. t.levels \in Seq(Level) /\ n \in 1..Len(t.levels) /\ t.levels[n] \in Level /\ Stacked(t.levels)
  BY <1>1, TracerFields, ElementOfSeq DEF Sound
<1>4. e \in Level /\ e.depth = t.levels[n].depth /\ e.saved = t.levels[n].saved
  BY <1>2, <1>3 DEF Level
<1>5. PICK ms : ms = [t.levels EXCEPT ![n] = e]
  OBVIOUS
<1>6. ms \in Seq(Level) /\ Stacked(ms) /\ Len(ms) = Len(t.levels)
  BY <1>3, <1>4, <1>5, LevelChanged
<1>7. u = [t EXCEPT !.levels = ms] /\ t \in Tracer
  BY <1>1, <1>2, <1>5 DEF SetLex, Sound
<1>8. u \in Tracer /\ u.levels = ms
  BY <1>6, <1>7 DEF Tracer
<1>. QED
  BY <1>6, <1>7, <1>8 DEF Sound, Alike, Tracer

\* The stack is cut to n levels.
LEMMA CutFacts ==
    ASSUME NEW t, Sound(t), NEW n \in 1..Len(t.levels), NEW u, u = Cut(t, n)
    PROVE  /\ Sound(u) /\ Len(u.levels) = n /\ u.on = t.on /\ u.disabledAt = t.disabledAt
           /\ u.callDepth = t.callDepth /\ u.finished = t.finished /\ u.flagged = t.flagged
           /\ u.seen = t.seen /\ u.prev = t.prev
<1>1. PICK ms : ms = SubSeq(t.levels, 1, n)
  OBVIOUS
<1>2. t \in Tracer /\ t.levels \in Seq(Level) /\ Len(t.levels) \in 1..MaxDepth /\ MaxDepth \in Nat
      /\ \A i \in 1..Len(t.levels) : t.levels[i] \in Level
  BY TracerFields, ElementOfSeq, TracingAssumption DEF Sound
<1>3. ms \in Seq(Level) /\ Len(ms) = n /\ \A i \in 1..n : ms[i] = t.levels[i]
  <2>1. \A i \in 1..n : t.levels[i] \in Level
    BY <1>2
  <2>2. 1 \in 1..(Len(t.levels) + 1) /\ n \in 0..Len(t.levels) /\ n - 1 + 1 = n
    BY <1>2
  <2>3. /\ ms \in Seq(Level)
        /\ Len(ms) = IF 1 <= n THEN n - 1 + 1 ELSE 0
        /\ \A i \in 1..(n - 1 + 1) : ms[i] = t.levels[1 + i - 1]
    BY <1>1, <1>2, <2>2, SubSeqProperties
  <2>. QED
    BY <1>2, <2>2, <2>3
<1>4. Stacked(ms)
  <2>1. n \in 1..MaxDepth /\ (\A i \in 1..n : i \in 1..Len(t.levels))
        /\ \A i \in 2..n : i \in 1..n /\ i \in 2..Len(t.levels)
    BY <1>2
  <2>2. \A i \in 1..n : ms[i].depth = i
    BY <2>1, <1>3 DEF Sound, Stacked
  <2>3. \A i \in 2..n : ms[i].saved = i
    BY <2>1, <1>3 DEF Sound, Stacked
  <2>. QED
    BY <1>3, <2>1, <2>2, <2>3 DEF Stacked
<1>5. u = [t EXCEPT !.levels = ms]
  BY <1>1 DEF Cut
<1>6. u \in Tracer /\ u.levels = ms
  BY <1>2, <1>3, <1>5 DEF Tracer
<1>. QED
  BY <1>2, <1>3, <1>4, <1>5, <1>6 DEF Sound, Tracer

-----------------------------------------------------------------------------
(* The handlers, run in a frame with instructions.                         *)

\* The tracer's stack is at the running frame, or has a level for it.
Near(t) ==
    /\ Sound(t)
    /\ t.on => t.callDepth = Depth /\ Len(t.levels) = Depth
    /\ ~t.on => Depth <= Len(t.levels) /\ Depth <= t.disabledAt

\* A handler leaves the tracer at the running frame, or off as it was.
Moved(u, t) ==
    /\ Sound(u) /\ t.finished \subseteq u.finished /\ u.flagged = t.flagged
    /\ t.on => u.on
    /\ u.on => u.callDepth = Depth /\ Len(u.levels) = Depth
    /\ ~u.on => Len(u.levels) = Len(t.levels) /\ u.disabledAt = t.disabledAt

\* A tracer that is like one that has moved has moved.
LEMMA AlikeMoved ==
    ASSUME NEW t, NEW u, NEW v, Moved(u, t), Sound(v), Alike(v, u)
    PROVE  Moved(v, t)
  BY DEF Moved, Alike

LEMMA NearMoved ==
    ASSUME NEW t, Near(t), NEW u, Moved(u, t)
    PROVE  Near(u)
<1>1. u.on \in BOOLEAN /\ t.on \in BOOLEAN
  BY TracerFields DEF Near, Moved
<1>. QED
  BY <1>1 DEF Near, Moved

LEMMA StillMoved ==
    ASSUME NEW t, Near(t)
    PROVE  Moved(t, t)
  BY DEF Near, Moved

\* Tracing is turned on again with the level of the running frame.
LEMMA ReenableFacts ==
    ASSUME NEW t, Near(t), ~t.on, Depth \in 1..MaxDepth, NEW empty \in 0..1, NEW initial \in BOOLEAN,
           Depth = 1 => empty = 1, initial => Depth = 1, NEW u, u = Reenable(t, empty, initial)
    PROVE  Moved(u, t) /\ (initial => u.on) /\ u.finished = t.finished /\ u.seen = t.seen
<1>1. PICK n : n = LevelOfFrame(t)
  OBVIOUS
<1>2. PICK k : k = IF n = 0 THEN 1 ELSE n
  OBVIOUS
<1>3. PICK c : c = Cut(t, k)
  OBVIOUS
<1>4. PICK d : d = IF Len(c.levels) = 1 /\ empty # 0 THEN empty ELSE c.levels[Len(c.levels)].saved
  OBVIOUS
<1>5. PICK v : v = [c EXCEPT !.on = TRUE, !.disabledAt = 0, !.callDepth = d]
  OBVIOUS
<1>6. u = IF ~initial /\ n = 0 THEN t ELSE SetLex(v, None)
  BY <1>1, <1>2, <1>3, <1>4, <1>5 DEF Reenable
<1>7. Len(t.levels) \in Nat /\ Depth \in 1..Len(t.levels) /\ Depth \in Nat /\ Sound(t) /\ MaxDepth \in Nat
  <2>1. Len(t.levels) \in 1..MaxDepth /\ MaxDepth \in Nat /\ Depth <= Len(t.levels)
    BY TracerFields, TracingAssumption DEF Near
  <2>. QED
    BY <2>1 DEF Near
<1>8. CASE ~initial /\ n = 0
  BY <1>6, <1>8, StillMoved
<1>9. CASE ~(~initial /\ n = 0)
  <2>1. k = Depth
    <3>1. CASE n = 0
      BY <1>2, <1>9, <3>1
    <3>2. CASE n # 0
      <4>1. \A m \in 1..Len(t.levels) : t.levels[m].depth = m
        BY <1>7 DEF Sound, Stacked
      <4>2. Candidates(t) = {m \in 1..Len(t.levels) : m >= Depth}
        BY <4>1 DEF Candidates
      <4>3. n = CHOOSE i \in Candidates(t) : \A m \in Candidates(t) : i <= m
        BY <1>1, <3>2 DEF LevelOfFrame
      <4>4. Depth \in Candidates(t) /\ \A m \in Candidates(t) : Depth <= m /\ m \in Nat
        BY <1>7, <4>2
      <4>5. n \in Candidates(t) /\ \A m \in Candidates(t) : n <= m
        BY <4>3, <4>4
      <4>6. n <= Depth /\ Depth <= n /\ n \in Nat
        BY <4>4, <4>5
      <4>. QED
        BY <1>2, <1>7, <3>2, <4>6
    <3>. QED
      BY <3>1, <3>2
  <2>2. /\ Sound(c) /\ Len(c.levels) = Depth /\ c.finished = t.finished /\ c.flagged = t.flagged
        /\ c.seen = t.seen
    BY <1>3, <1>7, <2>1, CutFacts
  <2>3. d = Depth
    <3>1. CASE Depth = 1
      BY <1>4, <2>2, <3>1
    <3>2. CASE Depth # 1
      <4>1. Depth \in 2..Len(c.levels)
        BY <1>7, <2>2, <3>2
      <4>2. c.levels[Depth].saved = Depth
        BY <2>2, <4>1 DEF Sound, Stacked
      <4>. QED
        BY <1>4, <2>2, <3>2, <4>2
    <3>. QED
      BY <3>1, <3>2
  <2>4. c \in Tracer /\ Stacked(c.levels) /\ Depth \in 0..MaxDepth /\ 0 \in 0..MaxDepth
    BY <1>7, <2>2 DEF Sound
  <2>5. /\ v \in Tracer /\ v.levels = c.levels /\ v.on = TRUE /\ v.callDepth = Depth
        /\ v.finished = c.finished /\ v.flagged = c.flagged /\ v.seen = c.seen
    BY <1>5, <2>3, <2>4 DEF Tracer
  <2>6. Sound(v)
    BY <2>4, <2>5 DEF Sound
  <2>7. None \in Places /\ u = SetLex(v, None)
    BY <1>6, <1>9 DEF Places
  <2>8. Sound(u) /\ Alike(u, v)
    BY <2>6, <2>7, SetLexFacts
  <2>. QED
    BY <2>2, <2>5, <2>8 DEF Alike, Moved
<1>. QED
  BY <1>8, <1>9

\* A statement is marked as handled, and the functions it has entered are forgotten.
LEMMA ResetFacts ==
    ASSUME NEW t, Sound(t), NEW u, u = Reset(t)
    PROVE  /\ Sound(u) /\ u.on = t.on /\ u.disabledAt = t.disabledAt /\ u.levels = t.levels
           /\ u.callDepth = t.callDepth /\ u.finished = t.finished /\ u.flagged = t.flagged
           /\ u.prev = t.prev
  BY DEF Sound, Tracer, Reset

LEMMA FinishFacts ==
    ASSUME NEW t, Sound(t), NEW s \in Stmts, NEW u, u = Finish(t, s)
    PROVE  /\ Sound(u) /\ u.on = t.on /\ u.disabledAt = t.disabledAt /\ u.levels = t.levels
           /\ u.callDepth = t.callDepth /\ u.finished = t.finished \cup ({s} \ {None})
           /\ u.flagged = t.flagged /\ u.prev = t.prev
<1>1. PICK v : v = [t EXCEPT !.finished = @ \cup ({s} \ {None})]
  OBVIOUS
<1>2. /\ v \in Tracer /\ v.levels = t.levels /\ v.on = t.on /\ v.disabledAt = t.disabledAt
      /\ v.callDepth = t.callDepth /\ v.finished = t.finished \cup ({s} \ {None})
      /\ v.flagged = t.flagged /\ v.prev = t.prev
  BY <1>1 DEF Sound, Tracer
<1>3. Sound(v) /\ u = Reset(v)
  BY <1>1, <1>2 DEF Sound, Finish
<1>. QED
  BY <1>2, <1>3, ResetFacts

\* The event that is remembered.
LEMMA PrevFacts ==
    ASSUME NEW t, Sound(t), NEW p \in [event : Events, stmt : Stmts], NEW u, u = [t EXCEPT !.prev = p]
    PROVE  Sound(u) /\ Alike(u, t) /\ u.levels = t.levels /\ u.prev = p
  BY DEF Sound, Tracer, Alike

LEMMA BeforeStmtFacts ==
    ASSUME NEW t, Near(t), NEW s \in Stmts, Depth \in 1..MaxDepth, Depth = 1 => t.on,
           NEW u, u = BeforeStmt(t, s)
    PROVE  Moved(u, t) /\ u.finished = t.finished
<1>1. PICK w : w = SetStmt(t, s)
  OBVIOUS
<1>2. PICK v : v = Reenable(w, 0, Initial)
  OBVIOUS
<1>3. u = IF s \in t.finished THEN t ELSE IF w.on THEN w ELSE IF v.on THEN Reset(v) ELSE v
  BY <1>1, <1>2 DEF BeforeStmt
<1>4. Sound(w) /\ Alike(w, t) /\ Moved(t, t)
  BY <1>1, SetStmtFacts, StillMoved DEF Near
<1>5. Moved(w, t) /\ Near(w) /\ w.finished = t.finished
  BY <1>4, AlikeMoved, NearMoved DEF Alike
<1>6. CASE s \in t.finished \/ w.on
  BY <1>3, <1>4, <1>5, <1>6
<1>7. CASE ~w.on /\ s \notin t.finished
  <2>1. Depth # 1 /\ Initial = FALSE /\ ~t.on
    BY <1>4, <1>7 DEF Alike, Initial
  <2>2. Moved(v, w) /\ v.finished = w.finished
    <3>1. v = Reenable(w, 0, Initial) /\ 0 \in 0..1 /\ Initial \in BOOLEAN /\ (Initial => Depth = 1)
      BY <1>2 DEF Initial
    <3>. QED
      BY <1>5, <1>7, <2>1, <3>1, ReenableFacts
  <2>3. Moved(v, t)
    BY <1>4, <2>1, <2>2, <1>5 DEF Moved, Alike
  <2>4. CASE v.on
    <3>1. u = Reset(v)
      BY <1>3, <1>7, <2>4
    <3>2. /\ Sound(u) /\ u.on = v.on /\ u.levels = v.levels /\ u.disabledAt = v.disabledAt
          /\ u.callDepth = v.callDepth /\ u.finished = v.finished /\ u.flagged = v.flagged
      BY <2>3, <3>1, ResetFacts DEF Moved
    <3>. QED
      BY <1>5, <2>2, <2>3, <3>2 DEF Moved
  <2>5. CASE ~v.on
    BY <1>3, <1>5, <1>7, <2>2, <2>3, <2>5
  <2>. QED
    BY <2>4, <2>5
<1>. QED
  BY <1>6, <1>7

\* In the cell's own frame the stack is cut to its first level.
LEMMA AtFirst ==
    ASSUME NEW t, Sound(t), Depth \in 1..MaxDepth, Len(t.levels) = Depth,
           NEW v, v = IF Initial THEN Cut(t, 1) ELSE t
    PROVE  /\ Sound(v) /\ Len(v.levels) = Depth /\ v.on = t.on /\ v.callDepth = t.callDepth
           /\ v.finished = t.finished /\ v.flagged = t.flagged
<1>1. CASE Initial
  <2>1. PICK n : n = 1
    OBVIOUS
  <2>2. n \in 1..Len(t.levels) /\ v = Cut(t, n) /\ Depth = n
    BY <1>1, <2>1 DEF Initial
  <2>. QED
    BY <2>2, CutFacts
<1>2. CASE ~Initial
  BY <1>2
<1>. QED
  BY <1>1, <1>2

LEMMA HandleStmtFacts ==
    ASSUME NEW t, Near(t), t.on, NEW s \in Stmts \ {None}, Depth \in 1..MaxDepth,
           NEW u, u = HandleStmt(t, s)
    PROVE  Moved(u, t) /\ s \in u.finished /\ u.on
<1>1. PICK v : v = IF Initial THEN Cut(t, 1) ELSE t
  OBVIOUS
<1>2. PICK w : w = Finish(v, s)
  OBVIOUS
<1>3. u = [w EXCEPT !.prev = [event |-> "after_stmt", stmt |-> s]]
  BY <1>1, <1>2 DEF HandleStmt
<1>4. Sound(t) /\ Len(t.levels) = Depth /\ t.callDepth = Depth
  BY DEF Near
<1>5. /\ Sound(v) /\ Len(v.levels) = Depth /\ v.on = t.on /\ v.callDepth = Depth
      /\ v.finished = t.finished /\ v.flagged = t.flagged
  BY <1>1, <1>4, AtFirst
<1>6. /\ Sound(w) /\ w.levels = v.levels /\ w.on = v.on /\ w.callDepth = v.callDepth
      /\ w.finished = v.finished \cup ({s} \ {None}) /\ w.flagged = v.flagged
  <2>1. s \in Stmts
    OBVIOUS
  <2>2. Sound(v) /\ w = Finish(v, s)
    BY <1>2, <1>5
  <2>. QED
    BY <2>1, <2>2, FinishFacts
<1>7. PICK p : p = [event |-> "after_stmt", stmt |-> s]
  OBVIOUS
<1>8. Sound(u) /\ Alike(u, w) /\ u.levels = w.levels
  <2>1. p \in [event : Events, stmt : Stmts]
    BY <1>7 DEF Events
  <2>2. Sound(w) /\ u = [w EXCEPT !.prev = p]
    BY <1>3, <1>6, <1>7
  <2>. QED
    BY <2>1, <2>2, PrevFacts
<1>. QED
  BY <1>5, <1>6, <1>8 DEF Moved, Alike

LEMMA AfterStmtFacts ==
    ASSUME NEW t, Near(t), NEW s \in Stmts \ {None}, Depth \in 1..MaxDepth,
           NEW u, u = AfterStmt(t, s)
    PROVE  Moved(u, t) /\ (u.on => s \in u.finished) /\ (Depth = 1 => u.on)
<1>1. PICK v : v = IF t.on THEN t ELSE Reenable(t, 1, Initial)
  OBVIOUS
<1>2. u = IF ~v.on \/ s \in v.finished THEN v ELSE HandleStmt(v, s)
  BY <1>1 DEF AfterStmt
<1>3. Moved(v, t) /\ (Depth = 1 => v.on)
  <2>1. CASE t.on
    BY <1>1, <2>1, StillMoved
  <2>2. CASE ~t.on
    <3>1. v = Reenable(t, 1, Initial) /\ 1 \in 0..1 /\ Initial \in BOOLEAN /\ (Initial => Depth = 1)
          /\ (Depth = 1 => Initial)
      BY <1>1, <2>2 DEF Initial
    <3>. QED
      BY <2>2, <3>1, ReenableFacts
  <2>. QED
    BY <2>1, <2>2
<1>4. Near(v)
  BY <1>3, NearMoved
<1>5. CASE ~v.on \/ s \in v.finished
  BY <1>2, <1>3, <1>5
<1>6. CASE v.on /\ s \notin v.finished
  <2>1. Moved(u, v) /\ s \in u.finished /\ u.on
    BY <1>2, <1>4, <1>6, HandleStmtFacts
  <2>. QED
    BY <1>3, <2>1 DEF Moved
<1>. QED
  BY <1>5, <1>6

LEMMA AfterCallFacts ==
    ASSUME NEW t, Near(t), Depth \in 1..MaxDepth, NEW u, u = AfterCall(t)
    PROVE  Moved(u, t) /\ u.finished = t.finished
<1>1. PICK v : v = IF t.on THEN t ELSE Reenable(t, 1, FALSE)
  OBVIOUS
<1>2. u = IF v.on THEN SetLex(v, None) ELSE v
  BY <1>1 DEF AfterCall
<1>3. Moved(v, t) /\ v.finished = t.finished
  <2>1. CASE t.on
    BY <1>1, <2>1, StillMoved
  <2>2. CASE ~t.on
    <3>1. v = Reenable(t, 1, FALSE) /\ 1 \in 0..1 /\ FALSE \in BOOLEAN
      BY <1>1, <2>2
    <3>. QED
      BY <2>2, <3>1, ReenableFacts
  <2>. QED
    BY <2>1, <2>2
<1>4. CASE v.on
  <2>1. None \in Places /\ u = SetLex(v, None) /\ Sound(v)
    BY <1>2, <1>3, <1>4 DEF Places, Moved
  <2>2. Sound(u) /\ Alike(u, v)
    BY <2>1, SetLexFacts
  <2>. QED
    BY <1>3, <2>2, AlikeMoved DEF Alike
<1>5. CASE ~v.on
  BY <1>2, <1>3, <1>5
<1>. QED
  BY <1>4, <1>5

\* Tracing is switched off.
LEMMA DisableFacts ==
    ASSUME NEW t, Sound(t), Depth \in 1..MaxDepth, NEW u, u = Disable(t)
    PROVE  /\ Sound(u) /\ ~u.on /\ u.flagged /\ u.levels = t.levels /\ u.finished = t.finished
           /\ u.disabledAt = IF t.on THEN Depth ELSE t.disabledAt
<1>1. PICK d : d = IF t.on THEN Depth ELSE t.disabledAt
  OBVIOUS
<1>2. u = [t EXCEPT !.on = FALSE, !.flagged = TRUE, !.disabledAt = d] /\ t \in Tracer
  BY <1>1 DEF Disable, Sound
<1>3. d \in 0..MaxDepth
  <2>1. Depth \in 0..MaxDepth
    BY TracingAssumption
  <2>. QED
    BY <1>1, <2>1, TracerFields
<1>. QED
  BY <1>1, <1>2, <1>3 DEF Sound, Tracer

\* An exception is noticed.
LEMMA ExceptionFacts ==
    ASSUME NEW t, Sound(t), NEW u, u = Exception(t)
    PROVE  Sound(u) /\ Alike(u, t) /\ u.levels = t.levels
<1>1. PICK p : p = [t.prev EXCEPT !.event = "exception"]
  OBVIOUS
<1>2. p \in [event : Events, stmt : Stmts]
  BY <1>1, TracerFields DEF Events
<1>3. u = [t EXCEPT !.prev = p]
  BY <1>1 DEF Exception
<1>. QED
  BY <1>2, <1>3, PrevFacts

\* A level is added.
LEMMA Pushed ==
    ASSUME NEW ls \in Seq(Level), Stacked(ls), NEW d, Len(ls) < MaxDepth, d = Len(ls) + 1,
           NEW e \in Level, e.depth = d, e.saved = d, NEW ms, ms = Append(ls, e)
    PROVE  ms \in Seq(Level) /\ Stacked(ms) /\ Len(ms) = d
<1>1. Len(ls) \in Nat /\ d \in Nat /\ MaxDepth \in Nat
  BY LenProperties, TracingAssumption
<1>2. e.depth = d /\ e.saved = d
  OBVIOUS
<1>3. /\ ms \in Seq(Level) /\ Len(ms) = Len(ls) + 1
      /\ \A i \in 1..Len(ls) : ms[i] = ls[i]
      /\ ms[Len(ls) + 1] = e
  BY AppendProperties
<1>4. Len(ms) \in 1..MaxDepth
  BY <1>1, <1>3
<1>5. \A i \in 1..Len(ms) : i \in 1..Len(ls) \/ i = d
  BY <1>1, <1>3
<1>6. \A i \in 1..Len(ms) : ms[i].depth = i
  BY <1>2, <1>3, <1>5 DEF Stacked
<1>7. \A i \in 2..Len(ms) : (i \in 2..Len(ls) /\ i \in 1..Len(ls)) \/ i = d
  BY <1>1, <1>3
<1>8. \A i \in 2..Len(ms) : ms[i].saved = i
  BY <1>2, <1>3, <1>7 DEF Stacked
<1>. QED
  BY <1>1, <1>3, <1>4, <1>6, <1>8 DEF Stacked

\* The call of a function of the notebook is followed, or switches tracing off.
LEMMA HandleCallFacts ==
    ASSUME NEW t, Sound(t), t.on, t.callDepth = Depth, Len(t.levels) = Depth,
           Depth \in 1..MaxDepth, Depth < MaxDepth, NEW g \in Fns, NEW deep \in BOOLEAN,
           NEW u, u = HandleCall(t, g, deep)
    PROVE  /\ Sound(u) /\ u.finished = t.finished /\ u.seen = t.seen
           /\ u.on => Len(u.levels) = Depth + 1 /\ u.callDepth = Depth + 1 /\ u.flagged = t.flagged
           /\ ~u.on => u.flagged /\ Len(u.levels) = Depth /\ u.disabledAt = Depth + 1
<1>1. PICK place : place = RepeatedFrom(t, g)
  OBVIOUS
<1>2. PICK d : d = Depth + 1
  OBVIOUS
<1>3. PICK a : a = [t EXCEPT !.callDepth = d]
  OBVIOUS
<1>4. PICK w : w = [a EXCEPT !.lastCall[g] = place, !.prev = [event |-> "call", stmt |-> <<g, 0>>]]
  OBVIOUS
<1>5. d \in 0..MaxDepth /\ d \in Nat /\ d # 1 /\ Depth \in Nat /\ MaxDepth \in Nat
  BY <1>2, TracingAssumption
<1>6. place \in Places /\ <<g, 0>> \in Stmts
  <2>1. g \in Bodies /\ <<g, 0>> \in Bodies \X Nat
    BY DEF Bodies
  <2>2. Len(t.levels) \in 1..Len(t.levels) /\ t.levels \in Seq(Level)
    BY TracerFields
  <2>3. t.levels[Len(t.levels)] \in Level
    BY <2>2, ElementOfSeq
  <2>4. t.levels[Len(t.levels)].lex \in Places
    BY <2>3 DEF Level
  <2>. QED
    BY <1>1, <2>1, <2>4 DEF RepeatedFrom, Places, Stmts
<1>7. /\ a \in Tracer /\ a.levels = t.levels /\ a.finished = t.finished /\ a.seen = t.seen
      /\ a.on = t.on /\ a.flagged = t.flagged /\ a.callDepth = d
  BY <1>3, <1>5 DEF Sound, Tracer
<1>8. /\ w \in Tracer /\ w.levels = t.levels /\ w.finished = t.finished /\ w.seen = t.seen
      /\ w.on = t.on /\ w.flagged = t.flagged /\ w.callDepth = d
  <2>1. [event |-> "call", stmt |-> <<g, 0>>] \in [event : Events, stmt : Stmts]
    BY <1>6 DEF Events
  <2>. QED
    BY <1>4, <1>6, <1>7, <2>1 DEF Tracer
<1>9. \/ u = [a EXCEPT !.on = FALSE, !.flagged = TRUE, !.disabledAt = d]
      \/ u = [w EXCEPT !.on = FALSE, !.flagged = TRUE, !.disabledAt = d]
      \/ u = [w EXCEPT !.levels = Append(@, NewLevel(d, d, <<g, 0>>))]
  <2>1. t.callDepth + 1 = d /\ a = [t EXCEPT !.callDepth = @ + 1] /\ a.callDepth = d
    BY <1>2, <1>3, <1>7
  <2>2. w = [[a EXCEPT !.lastCall[g] = place] EXCEPT !.prev = [event |-> "call", stmt |-> <<g, 0>>]]
    BY <1>4
  <2>3. CASE t.lastCall[g] = place
    BY <1>1, <1>2, <1>5, <2>1, <2>3 DEF HandleCall
  <2>4. CASE t.lastCall[g] # place /\ deep
    BY <1>1, <1>2, <1>5, <2>1, <2>2, <2>4 DEF HandleCall
  <2>5. CASE t.lastCall[g] # place /\ ~deep
    BY <1>1, <1>2, <1>5, <2>1, <2>2, <2>5 DEF HandleCall
  <2>. QED
    BY <2>3, <2>4, <2>5
<1>10. CASE u = [a EXCEPT !.on = FALSE, !.flagged = TRUE, !.disabledAt = d]
  <2>1. /\ u \in Tracer /\ ~u.on /\ u.flagged /\ u.levels = t.levels /\ u.disabledAt = d
        /\ u.finished = t.finished /\ u.seen = t.seen
    BY <1>5, <1>7, <1>10 DEF Tracer
  <2>. QED
    BY <1>2, <2>1 DEF Sound
<1>11. CASE u = [w EXCEPT !.on = FALSE, !.flagged = TRUE, !.disabledAt = d]
  <2>1. /\ u \in Tracer /\ ~u.on /\ u.flagged /\ u.levels = t.levels /\ u.disabledAt = d
        /\ u.finished = t.finished /\ u.seen = t.seen
    BY <1>5, <1>8, <1>11 DEF Tracer
  <2>. QED
    BY <1>2, <2>1 DEF Sound
<1>12. CASE u = [w EXCEPT !.levels = Append(@, NewLevel(d, d, <<g, 0>>))]
  <2>1. PICK ms : ms = Append(t.levels, NewLevel(d, d, <<g, 0>>))
    OBVIOUS
  <2>2. t.levels \in Seq(Level) /\ Stacked(t.levels)
    BY TracerFields DEF Sound
  <2>3. ms \in Seq(Level) /\ Stacked(ms) /\ Len(ms) = d
    <3>1. PICK e : e = NewLevel(d, d, <<g, 0>>)
      OBVIOUS
    <3>2. e \in Level /\ e.depth = d /\ e.saved = d
      BY <1>5, <1>6, <3>1 DEF NewLevel, Level, Places
    <3>3. PICK ls : ls = t.levels
      OBVIOUS
    <3>4. /\ ls \in Seq(Level) /\ Stacked(ls) /\ Len(ls) < MaxDepth /\ d = Len(ls) + 1
          /\ ms = Append(ls, e)
      BY <1>2, <2>1, <2>2, <3>1, <3>3
    <3>. QED
      BY <3>2, <3>4, Pushed
  <2>4. u = [w EXCEPT !.levels = ms]
    BY <1>8, <1>12, <2>1
  <2>5. /\ u \in Tracer /\ u.on /\ u.flagged = t.flagged /\ u.levels = ms /\ u.callDepth = d
        /\ u.finished = t.finished /\ u.seen = t.seen
    BY <1>8, <2>3, <2>4 DEF Tracer
  <2>. QED
    BY <1>2, <2>3, <2>5 DEF Sound
<1>. QED
  BY <1>9, <1>10, <1>11, <1>12

\* A call that is followed returns.
LEMMA HandleReturnFacts ==
    ASSUME NEW t, Sound(t), t.on, t.callDepth = Depth, Len(t.levels) = Depth,
           Depth \in 2..MaxDepth, NEW s \in Stmts \ {None}, NEW returnStmt \in BOOLEAN,
           NEW u, u = HandleReturn(t, s, returnStmt)
    PROVE  /\ Sound(u) /\ t.finished \subseteq u.finished /\ u.on /\ u.flagged = t.flagged
           /\ Len(u.levels) = Depth - 1 /\ u.callDepth = Depth - 1
           /\ returnStmt => s \in u.finished
<1>1. PICK d : d = Depth - 1
  OBVIOUS
<1>2. PICK a : a = [t EXCEPT !.callDepth = d]
  OBVIOUS
<1>3. PICK v : v = IF t.prev.event \notin {"call", "exception"} THEN Finish(a, t.prev.stmt) ELSE a
  OBVIOUS
<1>4. PICK w : w = IF returnStmt /\ s \notin v.finished THEN Finish(v, s) ELSE v
  OBVIOUS
<1>5. PICK x : x = [w EXCEPT !.prev = [event |-> "return", stmt |-> s]]
  OBVIOUS
<1>6. d \in 1..MaxDepth /\ d \in Nat /\ d # 0 /\ MaxDepth \in Nat /\ Depth \in Nat /\ Depth # 0 /\ Depth # 1
  BY <1>1, TracingAssumption
<1>7. u = Pop(x)
  <2>1. a = [t EXCEPT !.callDepth = IF t.callDepth = 0 THEN 0 ELSE t.callDepth - 1]
    BY <1>1, <1>2, <1>6
  <2>2. d = IF t.callDepth = 0 THEN 0 ELSE t.callDepth - 1
    BY <1>1, <1>6
  <2>. QED
    BY <1>3, <1>4, <1>5, <1>6, <2>1, <2>2 DEF HandleReturn
<1>8. /\ Sound(a) /\ a.levels = t.levels /\ a.callDepth = d /\ a.finished = t.finished
      /\ a.on = t.on /\ a.flagged = t.flagged
  <2>1. d \in 0..MaxDepth
    BY <1>6
  <2>. QED
    BY <1>2, <2>1 DEF Sound, Tracer
<1>9. /\ Sound(v) /\ v.levels = t.levels /\ v.callDepth = d /\ t.finished \subseteq v.finished
      /\ v.on = t.on /\ v.flagged = t.flagged
  <2>1. t.prev.stmt \in Stmts
    BY TracerFields
  <2>2. CASE v = a
    BY <1>8, <2>2
  <2>3. CASE v = Finish(a, t.prev.stmt)
    <3>1. PICK q : q = t.prev.stmt
      OBVIOUS
    <3>2. Sound(a) /\ q \in Stmts /\ v = Finish(a, q)
      BY <1>8, <2>1, <2>3, <3>1
    <3>3. /\ Sound(v) /\ v.levels = a.levels /\ v.callDepth = a.callDepth
          /\ v.finished = a.finished \cup ({q} \ {None})
          /\ v.on = a.on /\ v.flagged = a.flagged
      BY <3>2, FinishFacts
    <3>. QED
      BY <1>8, <3>3
  <2>. QED
    BY <1>3, <2>2, <2>3
<1>10. /\ Sound(w) /\ w.levels = t.levels /\ w.callDepth = d /\ t.finished \subseteq w.finished
       /\ w.on = t.on /\ w.flagged = t.flagged /\ (returnStmt => s \in w.finished)
  <2>1. CASE ~(returnStmt /\ s \notin v.finished)
    BY <1>4, <1>9, <2>1
  <2>2. CASE returnStmt /\ s \notin v.finished
    <3>1. s \in Stmts /\ s # None /\ w = Finish(v, s) /\ Sound(v)
      BY <1>4, <1>9, <2>2
    <3>2. /\ Sound(w) /\ w.levels = v.levels /\ w.callDepth = v.callDepth
          /\ w.finished = v.finished \cup ({s} \ {None}) /\ w.on = v.on /\ w.flagged = v.flagged
      BY <3>1, FinishFacts
    <3>. QED
      BY <1>9, <3>1, <3>2
  <2>. QED
    BY <2>1, <2>2
<1>11. Sound(x) /\ Alike(x, w) /\ x.levels = w.levels
  <2>1. PICK p : p = [event |-> "return", stmt |-> s]
    OBVIOUS
  <2>2. p \in [event : Events, stmt : Stmts]
    BY <2>1 DEF Events
  <2>3. x = [w EXCEPT !.prev = p]
    BY <1>5, <2>1
  <2>. QED
    BY <1>10, <2>2, <2>3, PrevFacts
<1>12. d \in 1..Len(x.levels) /\ u = Cut(x, d)
  <2>1. Len(x.levels) = Depth
    BY <1>10, <1>11
  <2>. QED
    BY <1>1, <1>6, <1>7, <2>1 DEF Pop
<1>13. /\ Sound(u) /\ Len(u.levels) = d /\ u.on = x.on /\ u.callDepth = x.callDepth
       /\ u.finished = x.finished /\ u.flagged = x.flagged
  BY <1>11, <1>12, CutFacts
<1>. QED
  BY <1>1, <1>10, <1>11, <1>13 DEF Alike

-----------------------------------------------------------------------------
(* The frames.                                                             *)

LEMMA FrameFields ==
    ASSUME NEW fs, Framed(fs), NEW i \in 1..Len(fs)
    PROVE  /\ fs[i] \in Frame /\ fs[i].fn \in Bodies /\ fs[i].at \in 0..MaxStmts /\ fs[i].at \in Nat
           /\ fs[i].phase \in Phases /\ fs[i].inst \in BOOLEAN /\ fs[i].hook \in BOOLEAN
           /\ fs[i].pushed \in BOOLEAN /\ fs[i].guard \in BOOLEAN
           /\ fs \in Seq(Frame) /\ Stmt(fs[i]) \in Stmts \ {None} /\ Stmt(fs[i]) \in Bodies \X Nat
<1>1. fs \in Seq(Frame) /\ fs[i] \in Frame /\ MaxStmts \in Nat
  BY ElementOfSeq, TracingAssumption DEF Framed
<1>2. fs[i].fn \in Bodies /\ fs[i].at \in 0..MaxStmts /\ fs[i].at \in Nat
  BY <1>1 DEF Frame
<1>3. Stmt(fs[i]) \in Bodies \X Nat /\ Stmt(fs[i]) \in Stmts \ {None}
  BY <1>2, TracingAssumption DEF Stmt, Stmts, Bodies
<1>. QED
  BY <1>1, <1>2, <1>3 DEF Frame

\* fr is the frame `top` further on.
SameCall(fr, top) ==
    /\ fr \in Frame /\ fr.fn = top.fn /\ fr.inst = top.inst /\ fr.hook = top.hook
    /\ fr.pushed = top.pushed
    /\ fr.phase # "idle" => fr.at > 0

WithFrame(fs, fr) == Append(fs, fr)
WithTop(fs, fr) == [fs EXCEPT ![Len(fs)] = fr]

\* The running frame changes.
LEMMA TopChanged ==
    ASSUME NEW fs, Framed(fs), NEW fr, SameCall(fr, fs[Len(fs)]),
           NEW gs, gs = WithTop(fs, fr)
    PROVE  /\ Framed(gs) /\ Len(gs) = Len(fs) /\ gs[Len(fs)] = fr
           /\ \A i \in 1..Len(fs) : gs[i].pushed = fs[i].pushed
<1>1. PICK n : n = Len(fs)
  OBVIOUS
<1>0. /\ fr \in Frame /\ fr.fn = fs[Len(fs)].fn /\ fr.inst = fs[Len(fs)].inst
      /\ fr.hook = fs[Len(fs)].hook /\ fr.pushed = fs[Len(fs)].pushed
      /\ fr.phase # "idle" => fr.at > 0
  BY DEF SameCall
<1>2. fs \in Seq(Frame) /\ n \in 1..MaxDepth /\ n \in Nat /\ n \in 1..n /\ 1 \in 1..n /\ Nested(fs)
      /\ DOMAIN fs = 1..n
  BY <1>1, LenProperties, TracingAssumption DEF Framed
<1>3. \A i \in 1..n : gs[i] = IF i = n THEN fr ELSE fs[i]
  BY <1>1, <1>2 DEF WithTop
<1>4. \A i \in 1..n : fs[i] \in Frame
  BY <1>1, <1>2, ElementOfSeq
<1>5. gs \in [1..n -> Frame]
  BY <1>0, <1>1, <1>2, <1>4 DEF WithTop
<1>6. gs \in Seq(Frame) /\ Len(gs) = n
  BY <1>2, <1>5
<1>7. \A i \in 1..n : gs[i].pushed = fs[i].pushed
  BY <1>0, <1>1, <1>3
<1>8. \A i \in 1..n : gs[i].inst = fs[i].inst
  BY <1>0, <1>1, <1>3
<1>9. \A i \in 1..n : gs[i].hook = fs[i].hook
  BY <1>0, <1>1, <1>3
<1>10. \A i \in 1..n : gs[i].fn = fs[i].fn
  BY <1>0, <1>1, <1>3
<1>11. Nested(gs)
  <2>1. \A i \in 1..n : gs[i].inst => gs[i].pushed
    BY <1>1, <1>2, <1>7, <1>8 DEF Nested
  <2>2. \A i \in 1..n : gs[i].pushed => gs[i].hook
    BY <1>1, <1>2, <1>7, <1>9 DEF Nested
  <2>3. \A i \in 1..n : gs[i].pushed => \A j \in 1..i : gs[j].pushed
    <3>1. SUFFICES ASSUME NEW i \in 1..n, gs[i].pushed, NEW j \in 1..i
                   PROVE  gs[j].pushed
      OBVIOUS
    <3>2. j \in 1..n /\ i \in 1..n
      BY <1>2, <3>1
    <3>3. fs[i].pushed
      BY <1>7, <3>1, <3>2
    <3>4. fs[j].pushed
      BY <1>1, <1>2, <3>1, <3>2, <3>3 DEF Nested
    <3>. QED
      BY <1>7, <3>2, <3>4
  <2>4. \A i \in 1..n : i < n => gs[i].phase # "idle"
    BY <1>0, <1>1, <1>2, <1>3 DEF Nested
  <2>5. \A i \in 1..n : gs[i].phase # "idle" => gs[i].at > 0
    BY <1>0, <1>1, <1>2, <1>3 DEF Nested
  <2>. QED
    BY <1>6, <2>1, <2>2, <2>3, <2>4, <2>5 DEF Nested
<1>12. gs[1].inst /\ gs[1].fn = Cell
  BY <1>2, <1>8, <1>10 DEF Framed
<1>. QED
  BY <1>1, <1>2, <1>3, <1>6, <1>7, <1>11, <1>12 DEF Framed

\* The running frame is left.
LEMMA TopLeft ==
    ASSUME NEW fs, Framed(fs), Len(fs) \in 2..MaxDepth, NEW gs, gs = Front(fs)
    PROVE  /\ Framed(gs) /\ Len(gs) = Len(fs) - 1 /\ \A i \in 1..Len(fs) - 1 : gs[i] = fs[i]
<1>1. PICK n : n = Len(fs)
  OBVIOUS
<1>2. fs \in Seq(Frame) /\ n \in Nat /\ n \in 2..MaxDepth /\ Nested(fs) /\ MaxDepth \in Nat
  BY <1>1, LenProperties, TracingAssumption DEF Framed
<1>3. PICK m : m = n - 1
  OBVIOUS
<1>4. m \in Nat /\ m \in 1..MaxDepth /\ m < n /\ 1 \in 1..m /\ \A i \in 1..m : i \in 1..n /\ i < n
  BY <1>2, <1>3
<1>5. gs \in Seq(Frame) /\ Len(gs) = m /\ \A i \in 1..m : gs[i] = fs[i]
  <2>1. gs = SubSeq(fs, 1, m)
    BY <1>1, <1>3 DEF Front
  <2>2. 1 \in 1..(Len(fs) + 1) /\ m \in 0..Len(fs) /\ m - 1 + 1 = m /\ 1 <= m
    BY <1>1, <1>2, <1>3
  <2>3. \A i \in 1..Len(fs) : fs[i] \in Frame
    BY <1>2, ElementOfSeq
  <2>4. /\ gs \in Seq(Frame)
        /\ Len(gs) = IF 1 <= m THEN m - 1 + 1 ELSE 0
        /\ \A i \in 1..(m - 1 + 1) : gs[i] = fs[1 + i - 1]
    BY <1>2, <2>1, <2>2, <2>3, SubSeqProperties
  <2>5. \A i \in 1..m : 1 + i - 1 = i
    BY <1>4
  <2>. QED
    BY <2>2, <2>4, <2>5
<1>6. Nested(gs)
  <2>1. \A i \in 1..m : gs[i].inst => gs[i].pushed
    BY <1>1, <1>2, <1>4, <1>5 DEF Nested
  <2>2. \A i \in 1..m : gs[i].pushed => gs[i].hook
    BY <1>1, <1>2, <1>4, <1>5 DEF Nested
  <2>3. \A i \in 1..m : gs[i].pushed => \A j \in 1..i : gs[j].pushed
    <3>1. SUFFICES ASSUME NEW i \in 1..m, gs[i].pushed, NEW j \in 1..i
                   PROVE  gs[j].pushed
      OBVIOUS
    <3>2. j \in 1..m /\ i \in 1..n
      BY <1>4, <3>1
    <3>3. fs[j].pushed
      BY <1>1, <1>2, <1>5, <3>1, <3>2 DEF Nested
    <3>. QED
      BY <1>5, <3>2, <3>3
  <2>4. \A i \in 1..m : i < m => gs[i].phase # "idle"
    BY <1>1, <1>2, <1>4, <1>5 DEF Nested
  <2>5. \A i \in 1..m : gs[i].phase # "idle" => gs[i].at > 0
    BY <1>1, <1>2, <1>4, <1>5 DEF Nested
  <2>. QED
    BY <1>5, <2>1, <2>2, <2>3, <2>4, <2>5 DEF Nested
<1>7. gs[1].inst /\ gs[1].fn = Cell
  BY <1>4, <1>5 DEF Framed
<1>. QED
  BY <1>1, <1>3, <1>4, <1>5, <1>6, <1>7 DEF Framed

\* fr is the frame of a call from the last of fs.
CalledFrom(fr, fs) ==
    /\ fs[Len(fs)].phase # "idle" /\ fr \in Frame /\ fr.phase = "idle"
    /\ fr.inst => fr.pushed
    /\ fr.pushed => fr.hook
    /\ fr.pushed => \A i \in 1..Len(fs) : fs[i].pushed

\* A frame is entered.
LEMMA TopAdded ==
    ASSUME NEW fs, Framed(fs), Len(fs) < MaxDepth, NEW fr, CalledFrom(fr, fs),
           NEW gs, gs = WithFrame(fs, fr)
    PROVE  /\ Framed(gs) /\ Len(gs) = Len(fs) + 1 /\ gs[Len(fs) + 1] = fr
           /\ \A i \in 1..Len(fs) : gs[i] = fs[i]
<1>0. /\ fs[Len(fs)].phase # "idle" /\ fr \in Frame /\ fr.phase = "idle"
      /\ fr.inst => fr.pushed
      /\ fr.pushed => fr.hook
      /\ fr.pushed => \A i \in 1..Len(fs) : fs[i].pushed
  BY DEF CalledFrom
<1>1. PICK n : n = Len(fs)
  OBVIOUS
<1>2. fs \in Seq(Frame) /\ n \in 1..MaxDepth /\ n \in Nat /\ n < MaxDepth /\ Nested(fs) /\ MaxDepth \in Nat
  BY <1>1, LenProperties, TracingAssumption DEF Framed
<1>3. PICK m : m = n + 1
  OBVIOUS
<1>4. m \in Nat /\ m \in 1..MaxDepth /\ 1 \in 1..n /\ (\A i \in 1..m : i \in 1..n \/ i = m)
      /\ (\A i \in 1..m : i < m => i \in 1..n)
  BY <1>2, <1>3
<1>5. gs \in Seq(Frame) /\ Len(gs) = m /\ (\A i \in 1..n : gs[i] = fs[i]) /\ gs[m] = fr
  BY <1>0, <1>1, <1>2, <1>3, AppendProperties DEF WithFrame
<1>6. Nested(gs)
  <2>1. \A i \in 1..m : gs[i].inst => gs[i].pushed
    BY <1>0, <1>1, <1>2, <1>4, <1>5 DEF Nested
  <2>2. \A i \in 1..m : gs[i].pushed => gs[i].hook
    BY <1>0, <1>1, <1>2, <1>4, <1>5 DEF Nested
  <2>3. \A i \in 1..m : gs[i].pushed => \A j \in 1..i : gs[j].pushed
    <3>1. SUFFICES ASSUME NEW i \in 1..m, gs[i].pushed, NEW j \in 1..i
                   PROVE  gs[j].pushed
      OBVIOUS
    <3>2. j = i \/ j \in 1..n
      BY <1>2, <1>3, <3>1
    <3>3. CASE j = i
      BY <1>0, <1>5, <3>1, <3>3
    <3>4. CASE j \in 1..n /\ i = m
      <4>1. fs[j].pushed
        BY <1>0, <1>1, <1>5, <3>1, <3>4
      <4>. QED
        BY <1>5, <3>4, <4>1
    <3>5. CASE j \in 1..n /\ i \in 1..n
      <4>1. fs[i].pushed
        BY <1>5, <3>1, <3>5
      <4>2. fs[j].pushed
        BY <1>1, <1>2, <3>1, <3>5, <4>1 DEF Nested
      <4>. QED
        BY <1>5, <3>5, <4>2
    <3>. QED
      BY <1>4, <3>1, <3>2, <3>3, <3>4, <3>5
  <2>4. \A i \in 1..m : i < m => gs[i].phase # "idle"
    <3>1. \A i \in 1..n : fs[i].phase # "idle"
      BY <1>0, <1>1, <1>2 DEF Nested
    <3>. QED
      BY <1>4, <1>5, <3>1
  <2>5. \A i \in 1..m : gs[i].phase # "idle" => gs[i].at > 0
    BY <1>0, <1>1, <1>2, <1>4, <1>5 DEF Nested
  <2>. QED
    BY <1>5, <2>1, <2>2, <2>3, <2>4, <2>5 DEF Nested
<1>7. gs[1].inst /\ gs[1].fn = Cell
  BY <1>4, <1>5 DEF Framed
<1>. QED
  BY <1>1, <1>3, <1>4, <1>5, <1>6, <1>7 DEF Framed

-----------------------------------------------------------------------------
(* The steps.                                                              *)

\* The tracer after a step.
LEMMA Becoming ==
    ASSUME NEW t, Sound(t), Becomes(t)
    PROVE  T' = t
<1>1. t \in Tracer
  BY DEF Sound
<1>2. t = [on |-> t.on, disabledAt |-> t.disabledAt, levels |-> t.levels, callDepth |-> t.callDepth,
           finished |-> t.finished, lastCall |-> t.lastCall, seen |-> t.seen, prev |-> t.prev,
           flagged |-> t.flagged]
  BY <1>1 DEF Tracer
<1>. QED
  BY <1>2 DEF Becomes, T

LEMMA NotTold ==
    ASSUME UNCHANGED tracer
    PROVE  T' = T
  BY DEF tracer, T

\* What is known of the running frame.
LEMMA Running ==
    ASSUME IInv
    PROVE  /\ Sound(T) /\ Framed(frames) /\ Follows(T, frames) /\ Depth \in 1..MaxDepth
           /\ Depth \in Nat /\ Depth \in 1..Depth /\ Top \in Frame /\ Top = frames[Depth]
           /\ Top.inst => Top.pushed /\ Near(T)
           /\ T.on => Top.pushed /\ Top.hook /\ Near(T)
           /\ Stmt(Top) \in Stmts \ {None} /\ Stmt(Top) \in Bodies \X Nat
           /\ Top.phase # "idle" => Top.at > 0
           /\ T.on = enabled /\ T.levels = levels /\ T.callDepth = callDepth /\ T.seen = seen
           /\ T.finished = finished /\ T.flagged = flagged /\ T.disabledAt = disabledAt
<1>1. Sound(T) /\ Framed(frames) /\ Follows(T, frames) /\ Depth \in 1..MaxDepth /\ Nested(frames)
  BY DEF IInv, Good, Framed, Depth
<1>2. Depth \in Nat /\ Depth \in 1..Depth /\ Depth = Len(frames) /\ Top = frames[Depth] /\ MaxDepth \in Nat
  BY <1>1, TracingAssumption DEF Depth, Top
<1>3. Top \in Frame /\ Stmt(Top) \in Stmts \ {None} /\ Stmt(Top) \in Bodies \X Nat
  BY <1>1, <1>2, FrameFields
<1>4. (Top.inst => Top.pushed) /\ (Top.pushed => Top.hook) /\ (Top.phase # "idle" => Top.at > 0)
  BY <1>1, <1>2 DEF Nested
<1>5. T.on => Top.pushed /\ T.callDepth = Depth /\ Len(T.levels) = Depth
  BY <1>1, <1>2 DEF Follows
<1>6. Top.pushed => Near(T)
  BY <1>1, <1>2, <1>5 DEF Follows, Near
<1>7. /\ T.on = enabled /\ T.levels = levels /\ T.callDepth = callDepth /\ T.seen = seen
      /\ T.finished = finished /\ T.flagged = flagged /\ T.disabledAt = disabledAt
  BY DEF T
<1>. QED
  BY <1>1, <1>2, <1>3, <1>4, <1>5, <1>6, <1>7

\* The frame changes while the tracer moves.
LEMMA SameFrames ==
    ASSUME IInv, NEW fr, SameCall(fr, Top), NEW gs, gs = SetTop(fr), NEW u, u = T \/ (Near(T) /\ Moved(u, T)), u.on /\ ~T.on => Top.pushed
    PROVE  /\ Sound(u) /\ Framed(gs) /\ Follows(u, gs) /\ Len(gs) = Depth /\ gs[Depth] = fr
           /\ T.finished \subseteq u.finished /\ u.flagged = T.flagged /\ (T.on => u.on)
<1>1. /\ Sound(T) /\ Framed(frames) /\ Follows(T, frames) /\ Depth \in 1..MaxDepth /\ Depth \in Nat
      /\ Depth \in 1..Depth /\ Top = frames[Len(frames)] /\ Depth = Len(frames) /\ Nested(frames)
  BY Running DEF Depth, Framed
<1>2. gs = [frames EXCEPT ![Len(frames)] = fr]
  BY <1>1 DEF SetTop
<1>3. /\ Framed(gs) /\ Len(gs) = Depth /\ gs[Depth] = fr
      /\ \A i \in 1..Depth : gs[i].pushed = frames[i].pushed
  <2>1. PICK fs : fs = frames
    OBVIOUS
  <2>2. Framed(fs) /\ SameCall(fr, fs[Len(fs)]) /\ gs = WithTop(fs, fr)
    BY <1>1, <1>2, <2>1 DEF WithTop
  <2>3. /\ Framed(gs) /\ Len(gs) = Len(fs) /\ gs[Len(fs)] = fr
        /\ \A i \in 1..Len(fs) : gs[i].pushed = fs[i].pushed
    BY <2>2, TopChanged
  <2>. QED
    BY <1>1, <2>1, <2>3
<1>4. /\ Sound(u) /\ T.finished \subseteq u.finished /\ u.flagged = T.flagged /\ (T.on => u.on)
      /\ (u.on => u = T \/ (u.callDepth = Depth /\ Len(u.levels) = Depth))
      /\ (~u.on => Len(u.levels) = Len(T.levels) /\ u.disabledAt = T.disabledAt)
  BY <1>1 DEF Moved
<1>5. u.on => u.callDepth = Depth /\ Len(u.levels) = Depth
  BY <1>1, <1>4 DEF Follows
<1>6. u.on => \A i \in 1..Depth : frames[i].pushed
  <2>1. CASE T.on
    BY <1>1, <2>1 DEF Follows
  <2>2. CASE ~T.on
    BY <1>1, <2>2 DEF Nested
  <2>. QED
    BY <2>1, <2>2
<1>7. Follows(u, gs)
  <2>1. u.on => \A i \in 1..Len(gs) : gs[i].pushed
    BY <1>3, <1>6
  <2>2. ~u.on => \A i \in 1..Len(gs) : gs[i].pushed => i <= Len(u.levels) /\ i <= u.disabledAt
    BY <1>1, <1>3, <1>4 DEF Follows
  <2>. QED
    BY <1>3, <1>5, <2>1, <2>2 DEF Follows
<1>. QED
  BY <1>3, <1>4, <1>7

\* The running frame stays, or comes, inside a statement.
LEMMA InStatement ==
    ASSUME IInv, NEW fr, SameCall(fr, Top), fr.phase # "idle", NEW gs, gs = SetTop(fr),
           NEW u, u = T \/ (Near(T) /\ Moved(u, T)), u.on /\ ~T.on => Top.pushed
    PROVE  Good(u, gs, skipped)
<1>1. /\ Sound(u) /\ Framed(gs) /\ Follows(u, gs) /\ Len(gs) = Depth /\ gs[Depth] = fr
      /\ T.finished \subseteq u.finished /\ u.flagged = T.flagged /\ (T.on => u.on)
  BY SameFrames
<1>2. Between(u, gs)
  <2>1. Len(gs) = 1 => gs[1].phase # "idle"
    BY <1>1
  <2>. QED
    BY <2>1 DEF Between
<1>3. Watched(u, gs, skipped)
  <2>1. Watched(T, frames, skipped)
    BY DEF IInv, Good
  <2>2. Handled(u, gs[Len(gs)])
    BY <1>1 DEF Handled
  <2>. QED
    BY <1>1, <2>1, <2>2 DEF Watched
<1>. QED
  BY <1>1, <1>2, <1>3 DEF Good

\* A frame that goes on to its next statement, to the call that is evaluated, and back.
LEMMA NextStatement ==
    ASSUME IInv, Top.at < MaxStmts,
           NEW fr, fr = [Top EXCEPT !.at = @ + 1, !.phase = "stmt", !.guard = FALSE]
    PROVE  /\ SameCall(fr, Top) /\ fr.phase # "idle" /\ Stmt(fr) \in Stmts /\ fr.inst = Top.inst
           /\ fr.phase = "stmt" /\ fr.at = Top.at + 1
<1>1. Top \in Frame /\ MaxStmts \in Nat
  BY Running, TracingAssumption
<1>2. Top.at \in 0..MaxStmts /\ Top.at + 1 \in 0..MaxStmts /\ Top.at + 1 > 0 /\ Top.at + 1 \in Nat
  BY <1>1 DEF Frame
<1>3. /\ fr \in Frame /\ fr.at = Top.at + 1 /\ fr.phase = "stmt" /\ fr.fn = Top.fn /\ fr.inst = Top.inst
      /\ fr.hook = Top.hook /\ fr.pushed = Top.pushed
  BY <1>1, <1>2 DEF Frame, Phases
<1>4. fr.fn \in Bodies
  BY <1>1, <1>3 DEF Frame
<1>. QED
  BY <1>2, <1>3, <1>4 DEF SameCall, Stmt, Stmts

LEMMA OtherPhase ==
    ASSUME IInv, Top.phase # "idle", NEW p \in Phases, NEW b \in BOOLEAN,
           NEW fr, fr = [Top EXCEPT !.phase = p, !.guard = b]
    PROVE  SameCall(fr, Top) /\ fr.phase = p /\ fr.at = Top.at /\ fr.inst = Top.inst /\ Stmt(fr) = Stmt(Top)
<1>1. Top \in Frame /\ Top.at > 0
  BY Running
<1>. QED
  BY <1>1 DEF SameCall, Frame, Stmt

LEMMA SamePhase ==
    ASSUME IInv, Top.phase # "idle", NEW p \in Phases, NEW fr, fr = [Top EXCEPT !.phase = p]
    PROVE  SameCall(fr, Top) /\ fr.phase = p /\ fr.at = Top.at /\ fr.inst = Top.inst /\ Stmt(fr) = Stmt(Top)
<1>1. Top \in Frame /\ Top.at > 0
  BY Running
<1>. QED
  BY <1>1 DEF SameCall, Frame, Stmt

\* A statement starts.
LEMMA BeforeStmtStep ==
    ASSUME IInv, Top.at < MaxStmts, Depth = 1 => T.on,
           NEW fr, fr = [Top EXCEPT !.at = @ + 1, !.phase = "stmt", !.guard = FALSE],
           frames' = SetTop(fr),
           IF fr.inst THEN Becomes(BeforeStmt(T, Stmt(fr))) ELSE UNCHANGED tracer
    PROVE  Good(T', frames', skipped)
<1>1. SameCall(fr, Top) /\ fr.phase # "idle" /\ Stmt(fr) \in Stmts /\ fr.inst = Top.inst
  BY NextStatement
<1>2. /\ Depth \in 1..MaxDepth /\ (Top.inst => Top.pushed /\ Near(T)) /\ Sound(T)
      /\ T.on \in BOOLEAN
  BY Running, TracerFields
<1>3. PICK u : u = IF fr.inst THEN BeforeStmt(T, Stmt(fr)) ELSE T
  OBVIOUS
<1>4. CASE fr.inst
  <2>1. u = BeforeStmt(T, Stmt(fr)) /\ Near(T)
    BY <1>1, <1>2, <1>3, <1>4
  <2>2. Moved(u, T)
    BY <1>1, <1>2, <2>1, BeforeStmtFacts
  <2>3. T' = u
    <3>1. Becomes(u) /\ Sound(u)
      BY <1>4, <2>1, <2>2 DEF Moved
    <3>. QED
      BY <3>1, Becoming
  <2>4. PICK gs : gs = SetTop(fr)
    OBVIOUS
  <2>5. Good(u, gs, skipped)
    BY <1>1, <1>2, <1>4, <2>1, <2>2, <2>4, InStatement
  <2>. QED
    BY <2>3, <2>4, <2>5
<1>5. CASE ~fr.inst
  <2>1. T' = T
    BY <1>5, NotTold
  <2>2. PICK gs : gs = SetTop(fr)
    OBVIOUS
  <2>3. PICK t : t = T
    OBVIOUS
  <2>4. Good(t, gs, skipped)
    BY <1>1, <2>2, <2>3, InStatement
  <2>. QED
    BY <2>1, <2>2, <2>3, <2>4
<1>. QED
  BY <1>4, <1>5

LEMMA StartStmtStep ==
    ASSUME IInv, StartStmt
    PROVE  IInv'
<1>1. PICK fr : fr = [Top EXCEPT !.at = @ + 1, !.phase = "stmt", !.guard = FALSE]
  OBVIOUS
<1>2. /\ Top.phase = "idle" /\ Top.at < MaxStmts /\ frames' = SetTop(fr)
      /\ IF fr.inst THEN Becomes(BeforeStmt(T, Stmt(fr))) ELSE UNCHANGED tracer
      /\ UNCHANGED <<raised, calls, skipped>>
  BY <1>1 DEF StartStmt
<1>3. Depth = 1 => T.on
  BY <1>2 DEF IInv, Good, Between, Top, Depth
<1>4. Good(T', frames', skipped)
  BY <1>1, <1>2, <1>3, BeforeStmtStep
<1>. QED
  BY <1>2, <1>4 DEF IInv

LEMMA CatchStep ==
    ASSUME IInv, Catch, Cell \notin Catchers
    PROVE  IInv'
<1>1. PICK fr : fr = [Top EXCEPT !.at = @ + 1, !.phase = "stmt", !.guard = FALSE]
  OBVIOUS
<1>2. /\ Top.fn \in Catchers /\ Top.at < MaxStmts /\ frames' = SetTop(fr) /\ raised' = FALSE
      /\ IF fr.inst THEN Becomes(BeforeStmt(T, Stmt(fr))) ELSE UNCHANGED tracer
      /\ UNCHANGED <<calls, skipped>>
  BY <1>1 DEF Catch
<1>3. Depth # 1
  BY <1>2 DEF IInv, Good, Framed, Top, Depth
<1>4. Good(T', frames', skipped)
  BY <1>1, <1>2, <1>3, BeforeStmtStep
<1>. QED
  BY <1>2, <1>4 DEF IInv

LEMMA StartCallStep ==
    ASSUME IInv, NEW n \in 1..2, StartCall(n)
    PROVE  IInv'
<1>1. PICK fr : fr = [Top EXCEPT !.phase = "call"]
  OBVIOUS
<1>2. /\ Top.phase = "stmt" /\ frames' = SetTop(fr)
      /\ IF Live /\ enabled THEN Becomes(SetLex(T, <<Stmt(Top), n>>)) ELSE UNCHANGED tracer
      /\ UNCHANGED <<raised, calls, skipped>>
  BY <1>1 DEF StartCall
<1>3. SameCall(fr, Top) /\ fr.phase # "idle"
  BY <1>1, <1>2, SamePhase DEF Phases
<1>4. Sound(T) /\ T.on = enabled /\ Stmt(Top) \in Bodies \X Nat /\ (T.on => Near(T))
  BY Running
<1>5. PICK t : t = T
  OBVIOUS
<1>6. PICK gs : gs = SetTop(fr)
  OBVIOUS
<1>7. CASE Live /\ enabled
  <2>1. PICK x : x = <<Stmt(Top), n>>
    OBVIOUS
  <2>2. x \in Places
    BY <1>4, <2>1 DEF Places
  <2>3. PICK u : u = SetLex(t, x)
    OBVIOUS
  <2>4. Sound(u) /\ Alike(u, t)
    BY <1>4, <1>5, <2>2, <2>3, SetLexFacts
  <2>5. Near(t) /\ t.on
    BY <1>4, <1>5, <1>7
  <2>6. Moved(u, t)
    BY <2>4, <2>5, StillMoved, AlikeMoved
  <2>7. T' = u
    BY <1>2, <1>5, <1>7, <2>1, <2>3, <2>4, Becoming
  <2>8. Good(u, gs, skipped)
    BY <1>3, <1>5, <1>6, <2>5, <2>6, InStatement
  <2>. QED
    BY <1>2, <1>6, <2>7, <2>8 DEF IInv
<1>8. CASE ~(Live /\ enabled)
  <2>1. T' = T
    BY <1>2, <1>8, NotTold
  <2>2. Good(t, gs, skipped)
    BY <1>3, <1>5, <1>6, InStatement
  <2>. QED
    BY <1>2, <1>5, <1>6, <2>1, <2>2 DEF IInv
<1>. QED
  BY <1>7, <1>8

LEMMA EndCallStep ==
    ASSUME IInv, EndCall
    PROVE  IInv'
<1>1. PICK fr : fr = [Top EXCEPT !.phase = "stmt"]
  OBVIOUS
<1>2. /\ Top.phase = "call" /\ frames' = SetTop(fr)
      /\ IF Live THEN Becomes(AfterCall(T)) ELSE UNCHANGED tracer
      /\ UNCHANGED <<raised, calls, skipped>>
  BY <1>1 DEF EndCall
<1>3. SameCall(fr, Top) /\ fr.phase # "idle"
  BY <1>1, <1>2, SamePhase DEF Phases
<1>4. Sound(T) /\ (Top.inst => Top.pushed /\ Near(T)) /\ Depth \in 1..MaxDepth
  BY Running
<1>5. PICK t : t = T
  OBVIOUS
<1>6. PICK gs : gs = SetTop(fr)
  OBVIOUS
<1>7. CASE Live
  <2>1. PICK u : u = AfterCall(t)
    OBVIOUS
  <2>2. Near(t) /\ Top.pushed
    BY <1>4, <1>5, <1>7 DEF Live
  <2>3. Moved(u, t)
    BY <1>4, <2>1, <2>2, AfterCallFacts
  <2>4. T' = u
    BY <1>2, <1>5, <1>7, <2>1, <2>3, Becoming DEF Moved
  <2>5. Good(u, gs, skipped)
    BY <1>3, <1>5, <1>6, <2>2, <2>3, InStatement
  <2>. QED
    BY <1>2, <1>6, <2>4, <2>5 DEF IInv
<1>8. CASE ~Live
  <2>1. T' = T
    BY <1>2, <1>8, NotTold
  <2>2. Good(t, gs, skipped)
    BY <1>3, <1>5, <1>6, InStatement
  <2>. QED
    BY <1>2, <1>5, <1>6, <2>1, <2>2 DEF IInv
<1>. QED
  BY <1>7, <1>8

LEMMA EndIterationStep ==
    ASSUME IInv, EndIteration
    PROVE  IInv'
<1>1. PICK fr : fr = [Top EXCEPT !.guard = TRUE]
  OBVIOUS
<1>2. /\ Top.phase = "stmt" /\ frames' = SetTop(fr) /\ Becomes(Disable(T))
      /\ UNCHANGED <<raised, calls, skipped>>
  BY <1>1 DEF EndIteration
<1>3. SameCall(fr, Top) /\ fr.phase # "idle"
  <2>1. Top \in Frame /\ Top.at > 0
    BY <1>2, Running
  <2>. QED
    BY <1>1, <1>2, <2>1 DEF SameCall, Frame
<1>4. Sound(T) /\ Depth \in 1..MaxDepth /\ Depth \in Nat /\ Follows(T, frames) /\ T.on \in BOOLEAN
  BY Running, TracerFields
<1>5. PICK t : t = T
  OBVIOUS
<1>6. PICK gs : gs = SetTop(fr)
  OBVIOUS
<1>7. PICK u : u = Disable(t)
  OBVIOUS
<1>8. /\ Sound(u) /\ ~u.on /\ u.flagged /\ u.levels = t.levels /\ u.finished = t.finished
      /\ u.disabledAt = IF t.on THEN Depth ELSE t.disabledAt
  BY <1>4, <1>5, <1>7, DisableFacts
<1>9. T' = u
  BY <1>2, <1>5, <1>7, <1>8, Becoming
<1>10. Framed(gs) /\ Follows(t, gs) /\ Len(gs) = Depth /\ gs[Depth] = fr
  BY <1>3, <1>5, <1>6, SameFrames
<1>11. Follows(u, gs)
  <2>1. SUFFICES ASSUME NEW i \in 1..Len(gs), gs[i].pushed
                 PROVE  i <= Len(u.levels) /\ i <= u.disabledAt
    BY <1>8 DEF Follows
  <2>2. CASE t.on
    <3>1. Len(t.levels) = Depth
      BY <1>10, <2>2 DEF Follows
    <3>2. i <= Depth
      BY <1>4, <1>10, <2>1
    <3>. QED
      BY <1>8, <2>2, <3>1, <3>2
  <2>3. CASE ~t.on
    BY <1>8, <1>10, <2>1, <2>3 DEF Follows
  <2>. QED
    BY <2>2, <2>3
<1>12. Between(u, gs)
  BY <1>3, <1>10 DEF Between
<1>13. Good(u, gs, skipped)
  BY <1>8, <1>10, <1>11, <1>12 DEF Good, Watched
<1>. QED
  BY <1>2, <1>6, <1>9, <1>13 DEF IInv

LEMMA EndStmtStep ==
    ASSUME IInv, EndStmt
    PROVE  IInv'
<1>1. PICK fr : fr = [Top EXCEPT !.phase = "idle", !.guard = FALSE]
  OBVIOUS
<1>2. /\ Top.phase = "stmt" /\ Depth > 1 /\ frames' = SetTop(fr)
      /\ IF Top.inst THEN Becomes(AfterStmt(T, Stmt(Top))) ELSE UNCHANGED tracer
      /\ skipped' = skipped \cup Ran(Top) /\ UNCHANGED <<raised, calls>>
  BY <1>1 DEF EndStmt
<1>3. SameCall(fr, Top) /\ fr.phase = "idle" /\ fr.inst = Top.inst /\ Stmt(fr) = Stmt(Top)
  BY <1>1, <1>2, OtherPhase DEF Phases
<1>4. /\ Sound(T) /\ Depth \in 1..MaxDepth /\ (Top.inst => Top.pushed /\ Near(T))
      /\ (T.on => Top.pushed) /\ Stmt(Top) \in Stmts \ {None}
  BY Running
<1>5. PICK t : t = T
  OBVIOUS
<1>6. PICK gs : gs = SetTop(fr)
  OBVIOUS
<1>7. PICK s : s = Stmt(Top)
  OBVIOUS
<1>8. PICK u : u = IF Top.inst THEN AfterStmt(t, s) ELSE t
  OBVIOUS
<1>9. CASE Top.inst
  <2>1. u = AfterStmt(t, s) /\ Near(t) /\ s \in Stmts \ {None}
    BY <1>4, <1>5, <1>7, <1>8, <1>9
  <2>2. Moved(u, t) /\ (u.on => s \in u.finished)
    BY <1>4, <2>1, AfterStmtFacts
  <2>. QED
    <3>1. T' = u
      BY <1>2, <1>5, <1>7, <1>9, <2>1, <2>2, Becoming DEF Moved
    <3>2. /\ Sound(u) /\ Framed(gs) /\ Follows(u, gs) /\ Len(gs) = Depth /\ gs[Depth] = fr
          /\ t.finished \subseteq u.finished /\ u.flagged = t.flagged /\ (t.on => u.on)
      BY <1>3, <1>4, <1>5, <1>6, <1>9, <2>1, <2>2, SameFrames
    <3>3. Between(u, gs)
      BY <1>2, <3>2 DEF Between
    <3>4. Watched(u, gs, skipped \cup Ran(Top))
      <4>1. ~t.flagged => t.on /\ skipped \subseteq t.finished
        BY <1>5 DEF IInv, Good, Watched
      <4>2. Ran(Top) \subseteq {s}
        BY <1>7 DEF Ran
      <4>3. u.on => Handled(u, fr)
        BY <1>3, <1>7, <2>2 DEF Handled
      <4>4. gs[Len(gs)] = fr
        BY <3>2
      <4>. QED
        BY <2>2, <3>2, <4>1, <4>2, <4>3, <4>4 DEF Watched
    <3>5. Good(u, gs, skipped \cup Ran(Top))
      BY <3>2, <3>3, <3>4 DEF Good
    <3>. QED
      BY <1>2, <1>6, <3>1, <3>5 DEF IInv
<1>10. CASE ~Top.inst
  <2>1. T' = t
    BY <1>2, <1>5, <1>10, NotTold
  <2>2. /\ Framed(gs) /\ Follows(t, gs) /\ Len(gs) = Depth /\ gs[Depth] = fr
    BY <1>3, <1>5, <1>6, SameFrames
  <2>3. Between(t, gs)
    BY <1>2, <2>2 DEF Between
  <2>4. Watched(t, gs, skipped \cup Ran(Top))
    <3>1. ~t.flagged => t.on /\ skipped \subseteq t.finished
      BY <1>5 DEF IInv, Good, Watched
    <3>2. t.on => Ran(Top) = {}
      BY <1>4, <1>5, <1>10 DEF Ran, Again
    <3>3. Handled(t, gs[Len(gs)])
      BY <1>3, <1>10, <2>2 DEF Handled
    <3>. QED
      BY <3>1, <3>2, <3>3 DEF Watched
  <2>5. Good(t, gs, skipped \cup Ran(Top))
    BY <1>4, <1>5, <2>2, <2>3, <2>4 DEF Good
  <2>. QED
    BY <1>2, <1>6, <2>1, <2>5 DEF IInv
<1>. QED
  BY <1>9, <1>10

LEMMA EndModuleStmtStep ==
    ASSUME IInv, EndModuleStmt
    PROVE  IInv' /\ finished \subseteq finished'
<1>1. PICK fr : fr = [Top EXCEPT !.phase = "idle", !.guard = FALSE]
  OBVIOUS
<1>2. /\ Top.phase = "stmt" /\ Depth = 1 /\ frames' = SetTop(fr)
      /\ Becomes([AfterStmt(T, Stmt(Top)) EXCEPT !.flagged = FALSE])
      /\ skipped' = {} /\ UNCHANGED <<raised, calls>>
  BY <1>1 DEF EndModuleStmt
<1>3. SameCall(fr, Top) /\ fr.phase = "idle" /\ Stmt(fr) = Stmt(Top)
  BY <1>1, <1>2, OtherPhase DEF Phases
<1>4. Top.inst
  BY <1>2 DEF IInv, Good, Framed, Top, Depth
<1>5. Sound(T) /\ Depth \in 1..MaxDepth /\ Top.pushed /\ Near(T) /\ Stmt(Top) \in Stmts \ {None}
  BY <1>4, Running
<1>6. PICK t : t = T
  OBVIOUS
<1>7. PICK gs : gs = SetTop(fr)
  OBVIOUS
<1>8. PICK s : s = Stmt(Top)
  OBVIOUS
<1>9. PICK v : v = AfterStmt(t, s)
  OBVIOUS
<1>10. Moved(v, t) /\ s \in v.finished /\ v.on
  BY <1>2, <1>5, <1>6, <1>8, <1>9, AfterStmtFacts
<1>11. /\ Sound(v) /\ Framed(gs) /\ Follows(v, gs) /\ Len(gs) = Depth /\ gs[Depth] = fr
       /\ t.finished \subseteq v.finished
  BY <1>3, <1>5, <1>6, <1>7, <1>10, SameFrames
<1>12. PICK u : u = [v EXCEPT !.flagged = FALSE]
  OBVIOUS
<1>13. /\ Sound(u) /\ u.on = v.on /\ u.levels = v.levels /\ u.callDepth = v.callDepth
       /\ u.finished = v.finished /\ u.disabledAt = v.disabledAt
  BY <1>11, <1>12 DEF Sound, Tracer
<1>14. T' = u
  BY <1>2, <1>6, <1>8, <1>9, <1>12, <1>13, Becoming
<1>15. Handled(u, fr)
  BY <1>3, <1>8, <1>10, <1>13 DEF Handled
<1>16. Follows(u, gs)
  BY <1>11, <1>13 DEF Follows
<1>17. Between(u, gs)
  BY <1>2, <1>10, <1>11, <1>13, <1>15 DEF Between
<1>18. Watched(u, gs, {})
  BY <1>10, <1>11, <1>13, <1>15 DEF Watched
<1>19. Good(u, gs, {})
  BY <1>11, <1>13, <1>16, <1>17, <1>18 DEF Good
<1>20. finished \subseteq finished'
  <2>1. finished = t.finished /\ finished' = u.finished
    BY <1>6, <1>14 DEF T
  <2>. QED
    BY <1>11, <1>13, <2>1
<1>. QED
  BY <1>2, <1>7, <1>14, <1>19, <1>20 DEF IInv

\* The running frame is left.
LEMMA Leave ==
    ASSUME IInv, Depth > 1, NEW gs, gs = Front(frames), NEW u, Sound(u), u.flagged = T.flagged,
           T.finished \subseteq u.finished,
           T.on => u.on /\ Len(u.levels) = Depth - 1 /\ u.callDepth = Depth - 1,
           ~T.on => ~u.on /\ Len(u.levels) = Len(T.levels) /\ u.disabledAt = T.disabledAt,
           NEW sk, ~T.flagged => sk \subseteq u.finished
    PROVE  Good(u, gs, sk)
<1>1. /\ Framed(frames) /\ Follows(T, frames) /\ Nested(frames) /\ Depth = Len(frames)
      /\ Depth \in 2..MaxDepth /\ Watched(T, frames, skipped)
  <2>1. Framed(frames) /\ Follows(T, frames) /\ Depth \in 1..MaxDepth /\ MaxDepth \in Nat
    BY Running, TracingAssumption
  <2>. QED
    BY <2>1 DEF Depth, Framed, IInv, Good
<1>2. PICK m : m = Depth - 1
  OBVIOUS
<1>3. /\ m \in Nat /\ m \in 1..m /\ m < Depth /\ (\A i \in 1..m : i \in 1..Depth /\ i < Depth)
      /\ (m = 1 => 1 \in 1..m)
  BY <1>1, <1>2
<1>4. Framed(gs) /\ Len(gs) = m /\ \A i \in 1..m : gs[i] = frames[i]
  BY <1>1, <1>2, TopLeft
<1>5. gs[m].phase # "idle"
  BY <1>1, <1>3, <1>4 DEF Nested
<1>6. Follows(u, gs)
  <2>1. CASE T.on
    <3>1. \A i \in 1..m : gs[i].pushed
      BY <1>1, <1>3, <1>4, <2>1 DEF Follows
    <3>. QED
      BY <1>2, <1>4, <2>1, <3>1 DEF Follows
  <2>2. CASE ~T.on
    <3>1. \A i \in 1..m : gs[i].pushed => i <= Len(T.levels) /\ i <= T.disabledAt
      BY <1>1, <1>3, <1>4, <2>2 DEF Follows
    <3>. QED
      BY <1>4, <2>2, <3>1 DEF Follows
  <2>. QED
    BY <2>1, <2>2
<1>7. Between(u, gs)
  BY <1>4, <1>5 DEF Between
<1>8. Watched(u, gs, sk)
  <2>1. Handled(u, gs[Len(gs)])
    BY <1>4, <1>5 DEF Handled
  <2>. QED
    BY <1>1, <2>1 DEF Watched
<1>. QED
  BY <1>4, <1>6, <1>7, <1>8 DEF Good

LEMMA ReturnStep ==
    ASSUME IInv, Return
    PROVE  IInv'
<1>1. /\ Depth > 1 /\ Top.phase \in {"idle", "stmt"} /\ Top.at > 0 /\ frames' = Front(frames)
      /\ IF enabled /\ Top.hook THEN Becomes(HandleReturn(T, Stmt(Top), Top.phase = "stmt"))
         ELSE UNCHANGED tracer
      /\ skipped' = skipped \cup Ran(Top) /\ UNCHANGED <<raised, calls>>
  BY DEF Return
<1>2. /\ Sound(T) /\ Depth \in 1..MaxDepth /\ (T.on => Top.hook /\ Top.pushed /\ Near(T))
      /\ Stmt(Top) \in Stmts \ {None} /\ T.on = enabled /\ T.on \in BOOLEAN
  BY Running, TracerFields
<1>3. PICK t : t = T
  OBVIOUS
<1>4. PICK gs : gs = Front(frames)
  OBVIOUS
<1>5. PICK s : s = Stmt(Top)
  OBVIOUS
<1>6. PICK b : b = (Top.phase = "stmt")
  OBVIOUS
<1>7. PICK sk : sk = skipped \cup Ran(Top)
  OBVIOUS
<1>8. ~t.flagged => t.on /\ skipped \subseteq t.finished /\ Handled(t, Top)
  BY <1>3 DEF IInv, Good, Watched, Top, Depth
<1>9. CASE t.on
  <2>1. PICK u : u = HandleReturn(t, s, b)
    OBVIOUS
  <2>2. /\ Sound(t) /\ t.callDepth = Depth /\ Len(t.levels) = Depth /\ Depth \in 2..MaxDepth
        /\ s \in Stmts \ {None} /\ b \in BOOLEAN
    BY <1>1, <1>2, <1>3, <1>5, <1>6, <1>9, TracingAssumption DEF Near
  <2>3. /\ Sound(u) /\ t.finished \subseteq u.finished /\ u.on /\ u.flagged = t.flagged
        /\ Len(u.levels) = Depth - 1 /\ u.callDepth = Depth - 1
        /\ b => s \in u.finished
    BY <1>9, <2>1, <2>2, HandleReturnFacts
  <2>4. T' = u
    <3>1. Becomes(u)
      <4>1. enabled /\ Top.hook
        BY <1>2, <1>3, <1>9
      <4>2. Becomes(HandleReturn(T, Stmt(Top), Top.phase = "stmt"))
        BY <1>1, <4>1
      <4>. QED
        BY <1>3, <1>5, <1>6, <2>1, <4>2
    <3>. QED
      BY <2>3, <3>1, Becoming
  <2>5. ~t.flagged => sk \subseteq u.finished
    <3>1. Ran(Top) \subseteq {s} /\ (~Top.inst => Ran(Top) = {})
      BY <1>2, <1>3, <1>5, <1>9 DEF Ran, Again
    <3>2. ~t.flagged /\ Top.inst => s \in u.finished
      BY <1>1, <1>5, <1>6, <1>8, <2>3 DEF Handled
    <3>. QED
      BY <1>7, <1>8, <2>3, <3>1, <3>2
  <2>6. Good(u, gs, sk)
    BY <1>1, <1>3, <1>4, <1>9, <2>3, <2>5, Leave
  <2>. QED
    BY <1>1, <1>4, <1>7, <2>4, <2>6 DEF IInv
<1>10. CASE ~t.on
  <2>1. T' = t
    BY <1>1, <1>2, <1>3, <1>10, NotTold
  <2>2. t.flagged
    BY <1>8, <1>10
  <2>3. Good(t, gs, sk)
    BY <1>1, <1>2, <1>3, <1>4, <1>10, <2>2, Leave
  <2>. QED
    BY <1>1, <1>4, <1>7, <2>1, <2>3 DEF IInv
<1>. QED
  BY <1>9, <1>10

LEMMA UnwindStep ==
    ASSUME IInv, Unwind
    PROVE  IInv'
<1>1. PICK t : t = T
  OBVIOUS
<1>1a. PICK b \in BOOLEAN :
          LET w == IF enabled /\ Top.hook THEN HandleReturn(t, Stmt(Top), b) ELSE t
          IN  Becomes(IF w.on /\ frames[Depth - 1].hook THEN Exception(w) ELSE w)
  BY <1>1 DEF Unwind
<1>2. PICK v : v = IF enabled /\ Top.hook THEN HandleReturn(t, Stmt(Top), b) ELSE t
  OBVIOUS
<1>3. PICK u : u = IF v.on /\ frames[Depth - 1].hook THEN Exception(v) ELSE v
  OBVIOUS
<1>4. Depth > 1 /\ frames' = Front(frames) /\ Becomes(u) /\ UNCHANGED <<raised, calls, skipped>>
  BY <1>1a, <1>2, <1>3 DEF Unwind
<1>5. /\ Sound(t) /\ Depth \in 1..MaxDepth /\ (t.on => Top.hook /\ Near(t))
      /\ Stmt(Top) \in Stmts \ {None} /\ t.on = enabled /\ t.on \in BOOLEAN
  BY <1>1, Running, TracerFields
<1>6. PICK gs : gs = Front(frames)
  OBVIOUS
<1>7. ~t.flagged => t.on /\ skipped \subseteq t.finished
  BY <1>1 DEF IInv, Good, Watched
<1>8. /\ Sound(v) /\ t.finished \subseteq v.finished /\ v.flagged = t.flagged
      /\ t.on => v.on /\ Len(v.levels) = Depth - 1 /\ v.callDepth = Depth - 1
      /\ ~t.on => v = t
  <2>1. CASE t.on
    <3>1. PICK s : s = Stmt(Top)
      OBVIOUS
    <3>3. t.callDepth = Depth /\ Len(t.levels) = Depth /\ Depth \in 2..MaxDepth
      BY <1>4, <1>5, <2>1, TracingAssumption DEF Near
    <3>4. v = HandleReturn(t, s, b) /\ s \in Stmts \ {None} /\ b \in BOOLEAN
      BY <1>1a, <1>2, <1>5, <2>1, <3>1
    <3>5. /\ Sound(v) /\ t.finished \subseteq v.finished /\ v.on /\ v.flagged = t.flagged
          /\ Len(v.levels) = Depth - 1 /\ v.callDepth = Depth - 1
      BY <1>5, <2>1, <3>3, <3>4, HandleReturnFacts
    <3>. QED
      BY <2>1, <3>5
  <2>2. CASE ~t.on
    BY <1>2, <1>5, <2>2
  <2>. QED
    BY <2>1, <2>2
<1>9. Sound(u) /\ (u = v \/ Alike(u, v))
  <2>1. CASE u = v
    BY <1>8, <2>1
  <2>2. CASE u = Exception(v)
    BY <1>8, <2>2, ExceptionFacts
  <2>. QED
    BY <1>3, <2>1, <2>2
<1>10. /\ u.finished = v.finished /\ u.flagged = v.flagged /\ u.on = v.on
       /\ Len(u.levels) = Len(v.levels) /\ u.callDepth = v.callDepth /\ u.disabledAt = v.disabledAt
  BY <1>9 DEF Alike
<1>11. PICK sk : sk = skipped
  OBVIOUS
<1>12. Good(u, gs, sk)
  <2>1. t.on => u.on /\ Len(u.levels) = Depth - 1 /\ u.callDepth = Depth - 1
    BY <1>8, <1>10
  <2>2. ~t.on => ~u.on /\ Len(u.levels) = Len(t.levels) /\ u.disabledAt = t.disabledAt
    BY <1>8, <1>10
  <2>3. u.flagged = t.flagged /\ t.finished \subseteq u.finished /\ (~t.flagged => sk \subseteq u.finished)
    BY <1>7, <1>8, <1>10, <1>11
  <2>. QED
    BY <1>1, <1>4, <1>6, <1>9, <2>1, <2>2, <2>3, Leave
<1>. QED
  BY <1>4, <1>6, <1>9, <1>11, <1>12, Becoming DEF IInv

LEMMA RaiseStep ==
    ASSUME IInv, Raise
    PROVE  IInv'
<1>1. PICK t : t = T
  OBVIOUS
<1>2. PICK u : u = IF enabled /\ Top.hook THEN Exception(t) ELSE t
  OBVIOUS
<1>3. /\ raised' = TRUE /\ Becomes(u) /\ UNCHANGED <<frames, calls, skipped>>
  BY <1>1, <1>2 DEF Raise
<1>4. Sound(t)
  BY <1>1, Running
<1>5. Sound(u) /\ (u = t \/ Alike(u, t))
  <2>1. CASE u = t
    BY <1>4, <2>1
  <2>2. CASE u = Exception(t)
    BY <1>4, <2>2, ExceptionFacts
  <2>. QED
    BY <1>2, <2>1, <2>2
<1>6. /\ u.finished = t.finished /\ u.flagged = t.flagged /\ u.on = t.on
      /\ Len(u.levels) = Len(t.levels) /\ u.callDepth = t.callDepth /\ u.disabledAt = t.disabledAt
  BY <1>5 DEF Alike
<1>7. Good(t, frames, skipped)
  BY <1>1 DEF IInv
<1>8. Follows(u, frames)
  BY <1>6, <1>7 DEF Good, Follows
<1>9. Between(u, frames) /\ Watched(u, frames, skipped)
  BY <1>6, <1>7 DEF Good, Between, Watched, Handled
<1>10. Good(u, frames, skipped)
  BY <1>5, <1>7, <1>8, <1>9 DEF Good
<1>11. T' = u
  BY <1>3, <1>5, Becoming
<1>. QED
  BY <1>3, <1>10, <1>11 DEF IInv

LEMMA EnterStep ==
    ASSUME IInv, NEW g \in Fns, NEW deep \in BOOLEAN, Enter(g, deep)
    PROVE  IInv'
<1>1. PICK t : t = T
  OBVIOUS
<1>2. PICK v : v = IF enabled THEN HandleCall(t, g, deep) ELSE t
  OBVIOUS
<1>3. PICK inst : inst = (v.on /\ g \notin v.seen)
  OBVIOUS
<1>4. PICK hook : hook = (enabled /\ (v.on \/ deep))
  OBVIOUS
<1>5. PICK pushed : pushed = (Len(v.levels) > Managed)
  OBVIOUS
<1>6. PICK fr : fr = NewFrame(g, inst, hook, pushed)
  OBVIOUS
<1>7. PICK u : u = [v EXCEPT !.seen = IF inst THEN @ \cup {g} ELSE @]
  OBVIOUS
<1>8. /\ Top.phase \in {"stmt", "call"} /\ Depth < MaxDepth
      /\ frames' = Append(frames, fr) /\ Becomes(u)
      /\ calls' = calls + 1 /\ UNCHANGED <<raised, skipped>>
  BY <1>1, <1>2, <1>3, <1>4, <1>5, <1>6, <1>7 DEF Enter
<1>9. /\ Sound(t) /\ Framed(frames) /\ Follows(t, frames) /\ Depth \in 1..MaxDepth /\ Depth \in Nat
      /\ Depth = Len(frames) /\ Top = frames[Len(frames)] /\ (t.on => Near(t))
      /\ t.on = enabled /\ t.levels = levels /\ t.on \in BOOLEAN
  BY <1>1, Running, TracerFields DEF Depth
<1>10. PICK d : d = Depth + 1
  OBVIOUS
<1>11. Watched(t, frames, skipped) /\ Len(t.levels) \in Nat
  BY <1>1, <1>9, TracerFields DEF IInv, Good
<1>12. /\ Sound(v) /\ v.finished = t.finished
       /\ v.on => t.on /\ Len(v.levels) = d /\ v.callDepth = d /\ v.flagged = t.flagged
       /\ ~v.on /\ t.on => v.flagged /\ Len(v.levels) = Depth /\ v.disabledAt = d
       /\ ~v.on /\ ~t.on => v = t
  <2>1. CASE t.on
    <3>1. v = HandleCall(t, g, deep) /\ t.callDepth = Depth /\ Len(t.levels) = Depth
      BY <1>2, <1>9, <2>1 DEF Near
    <3>2. /\ Sound(v) /\ v.finished = t.finished
          /\ v.on => Len(v.levels) = Depth + 1 /\ v.callDepth = Depth + 1 /\ v.flagged = t.flagged
          /\ ~v.on => v.flagged /\ Len(v.levels) = Depth /\ v.disabledAt = Depth + 1
      BY <1>8, <1>9, <2>1, <3>1, HandleCallFacts
    <3>. QED
      BY <1>10, <2>1, <3>2
  <2>2. CASE ~t.on
    BY <1>2, <1>9, <2>2
  <2>. QED
    BY <2>1, <2>2
<1>13. /\ inst \in BOOLEAN /\ hook \in BOOLEAN /\ pushed \in BOOLEAN /\ v.on \in BOOLEAN
       /\ pushed = v.on /\ (inst => v.on) /\ (v.on => hook)
  <2>1. v.on \in BOOLEAN /\ Managed = Len(t.levels) /\ (t.on => Len(t.levels) = Depth)
    BY <1>9, <1>12, TracerFields DEF Managed, Near
  <2>2. pushed = v.on
    <3>1. CASE v.on
      <4>1. Len(v.levels) = Depth + 1 /\ Managed = Depth
        BY <1>10, <1>12, <2>1, <3>1
      <4>2. Len(v.levels) > Managed
        BY <1>9, <4>1
      <4>. QED
        BY <1>5, <2>1, <3>1, <4>2
    <3>2. CASE ~v.on
      BY <1>5, <1>9, <1>11, <1>12, <2>1, <3>2
    <3>. QED
      BY <3>1, <3>2
  <2>3. v.on => enabled
    BY <1>9, <1>12
  <2>. QED
    BY <1>3, <1>4, <1>5, <2>1, <2>2, <2>3
<1>14. /\ fr \in Frame /\ fr.inst = inst /\ fr.hook = hook /\ fr.pushed = pushed /\ fr.phase = "idle"
       /\ fr.at = 0
  BY <1>6, <1>13, TracingAssumption DEF NewFrame, Frame, Bodies, Phases
<1>15. PICK gs : gs = Append(frames, fr)
  OBVIOUS
<1>16. v.on => \A i \in 1..Depth : frames[i].pushed
  BY <1>9, <1>12 DEF Follows
<1>17. Framed(gs) /\ Len(gs) = d /\ gs[d] = fr /\ \A i \in 1..Depth : gs[i] = frames[i]
  <2>1. PICK fs : fs = frames
    OBVIOUS
  <2>2. /\ Framed(fs) /\ Len(fs) < MaxDepth /\ fs[Len(fs)].phase # "idle"
        /\ gs = WithFrame(fs, fr)
    BY <1>8, <1>9, <1>15, <2>1 DEF WithFrame
  <2>3. CalledFrom(fr, fs)
    BY <1>9, <1>13, <1>14, <1>16, <2>1, <2>2 DEF CalledFrom
  <2>4. /\ Framed(gs) /\ Len(gs) = Len(fs) + 1 /\ gs[Len(fs) + 1] = fr
        /\ \A i \in 1..Len(fs) : gs[i] = fs[i]
    BY <2>2, <2>3, TopAdded
  <2>. QED
    BY <1>9, <1>10, <2>1, <2>4
<1>18. /\ Sound(u) /\ u.on = v.on /\ u.levels = v.levels /\ u.callDepth = v.callDepth
       /\ u.finished = v.finished /\ u.flagged = v.flagged /\ u.disabledAt = v.disabledAt
  BY <1>7, <1>12 DEF Sound, Tracer
<1>19. Follows(u, gs)
  <2>1. \A i \in 1..d : i \in 1..Depth \/ i = d
    BY <1>9, <1>10
  <2>2. CASE v.on
    <3>1. \A i \in 1..d : gs[i].pushed
      BY <1>13, <1>14, <1>16, <1>17, <2>1, <2>2
    <3>. QED
      BY <1>12, <1>17, <1>18, <2>2, <3>1 DEF Follows
  <2>3. CASE ~v.on
    <3>1. \A i \in 1..d : gs[i].pushed => i \in 1..Depth /\ frames[i].pushed
      BY <1>13, <1>14, <1>17, <2>1, <2>3
    <3>2. \A i \in 1..Depth : frames[i].pushed => i <= Len(v.levels) /\ i <= v.disabledAt
      <4>1. CASE t.on
        <5>1. \A i \in 1..Depth : i <= Depth /\ i <= d
          BY <1>9, <1>10
        <5>. QED
          BY <1>12, <2>3, <4>1, <5>1
      <4>2. CASE ~t.on
        <5>1. v = t
          BY <1>12, <2>3, <4>2
        <5>. QED
          BY <1>9, <4>2, <5>1 DEF Follows
      <4>. QED
        BY <4>1, <4>2
    <3>. QED
      BY <1>17, <1>18, <2>3, <3>1, <3>2 DEF Follows
  <2>. QED
    BY <2>2, <2>3
<1>20. Between(u, gs)
  <2>1. d # 1
    BY <1>9, <1>10
  <2>. QED
    BY <1>17, <2>1 DEF Between
<1>21. Watched(u, gs, skipped)
  <2>1. ~v.flagged => v.on /\ t.flagged = v.flagged
    BY <1>9, <1>11, <1>12, <1>13 DEF Watched
  <2>2. Handled(u, gs[Len(gs)])
    BY <1>14, <1>17 DEF Handled
  <2>. QED
    BY <1>11, <1>12, <1>18, <2>1, <2>2 DEF Watched
<1>22. Good(u, gs, skipped)
  BY <1>17, <1>18, <1>19, <1>20, <1>21 DEF Good
<1>. QED
  BY <1>8, <1>15, <1>18, <1>22, Becoming DEF IInv

\* A cell starts, with a tracer of its own.
LEMMA NewTracer ==
    ASSUME NEW t, t = [on |-> TRUE, disabledAt |-> 0, levels |-> <<NewLevel(1, 0, None)>>,
                       callDepth |-> 1, finished |-> {}, lastCall |-> [g \in Fns |-> None],
                       seen |-> {}, prev |-> [event |-> "call", stmt |-> None], flagged |-> FALSE],
           NEW fs, fs = <<NewFrame(Cell, TRUE, TRUE, TRUE)>>
    PROVE  Sound(t) /\ Good(t, fs, {})
<1>1. 1 \in 1..MaxDepth /\ 0 \in 0..MaxDepth /\ 1 \in 0..MaxDepth /\ 0 \in 0..MaxStmts /\ 0 \in Nat /\ 1 \in Nat
  BY TracingAssumption
<1>2. PICK e : e = NewLevel(1, 0, None)
  OBVIOUS
<1>3. e \in Level /\ e.depth = 1
  BY <1>1, <1>2 DEF NewLevel, Level, Places, Stmts
<1>4. t.levels = <<e>> /\ <<e>> \in Seq(Level) /\ Len(<<e>>) = 1 /\ <<e>>[1] = e
  BY <1>2, <1>3
<1>5. t \in Tracer
  <2>1. [g \in Fns |-> None] \in [Fns -> Places]
    BY DEF Places
  <2>2. [event |-> "call", stmt |-> None] \in [event : Events, stmt : Stmts]
    BY DEF Events, Stmts
  <2>. QED
    BY <1>1, <1>2, <1>4, <2>1, <2>2 DEF Tracer
<1>6. Sound(t)
  <2>1. \A n \in 1..1 : <<e>>[n].depth = n
    BY <1>3, <1>4
  <2>. QED
    BY <1>1, <1>4, <1>5, <2>1 DEF Sound, Stacked
<1>7. PICK fr : fr = NewFrame(Cell, TRUE, TRUE, TRUE)
  OBVIOUS
<1>8. /\ fr \in Frame /\ fr.inst /\ fr.hook /\ fr.pushed /\ fr.fn = Cell /\ fr.phase = "idle" /\ fr.at = 0
  BY <1>1, <1>7 DEF NewFrame, Frame, Bodies, Phases
<1>9. fs = <<fr>> /\ fs \in Seq(Frame) /\ Len(fs) = 1 /\ fs[1] = fr
  <2>1. fs = <<fr>>
    BY <1>7
  <2>2. <<fr>> \in Seq(Frame) /\ Len(<<fr>>) = 1 /\ <<fr>>[1] = fr
    BY <1>8
  <2>. QED
    BY <2>1, <2>2
<1>10. Nested(fs)
  <2>1. \A i \in 1..Len(fs) : i = 1 /\ ~(i < Len(fs))
    BY <1>9
  <2>2. \A i \in 1..Len(fs) : \A j \in 1..i : j = 1
    BY <1>9, <2>1
  <2>3. /\ \A i \in 1..Len(fs) : fs[i].inst => fs[i].pushed
        /\ \A i \in 1..Len(fs) : fs[i].pushed => fs[i].hook
        /\ \A i \in 1..Len(fs) : fs[i].phase # "idle" => fs[i].at > 0
    BY <1>8, <1>9, <2>1
  <2>4. \A i \in 1..Len(fs) : fs[i].pushed => \A j \in 1..i : fs[j].pushed
    BY <1>8, <1>9, <2>2
  <2>. QED
    BY <2>1, <2>3, <2>4 DEF Nested
<1>11. Framed(fs)
  BY <1>1, <1>8, <1>9, <1>10 DEF Framed
<1>12. Handled(t, fr)
  BY <1>8 DEF Handled
<1>13. Follows(t, fs)
  <2>1. \A i \in 1..Len(fs) : fs[i].pushed
    <3>1. \A i \in 1..Len(fs) : i = 1
      BY <1>9
    <3>. QED
      BY <1>8, <1>9, <3>1
  <2>2. t.on = TRUE /\ t.callDepth = 1 /\ Len(t.levels) = 1
    BY <1>4
  <2>. QED
    BY <1>9, <2>1, <2>2 DEF Follows
<1>14. Between(t, fs) /\ Watched(t, fs, {})
  BY <1>9, <1>12 DEF Between, Watched
<1>. QED
  BY <1>6, <1>11, <1>13, <1>14 DEF Good

LEMMA NextCellStep ==
    ASSUME IInv, NextCell
    PROVE  IInv'
<1>1. PICK t : t = [on |-> TRUE, disabledAt |-> 0, levels |-> <<NewLevel(1, 0, None)>>,
                    callDepth |-> 1, finished |-> {}, lastCall |-> [g \in Fns |-> None],
                    seen |-> {}, prev |-> [event |-> "call", stmt |-> None], flagged |-> FALSE]
  OBVIOUS
<1>2. PICK fs : fs = <<NewFrame(Cell, TRUE, TRUE, TRUE)>>
  OBVIOUS
<1>3. /\ frames' = fs /\ raised' = FALSE /\ calls' = 0 /\ Becomes(t) /\ skipped' = {}
  BY <1>1, <1>2 DEF NextCell
<1>4. Sound(t) /\ Good(t, fs, {})
  BY <1>1, <1>2, NewTracer
<1>. QED
  BY <1>3, <1>4, Becoming DEF IInv

LEMMA InitInv ==
    ASSUME Init
    PROVE  IInv
<1>1. PICK t : t = [on |-> TRUE, disabledAt |-> 0, levels |-> <<NewLevel(1, 0, None)>>,
                    callDepth |-> 1, finished |-> {}, lastCall |-> [g \in Fns |-> None],
                    seen |-> {}, prev |-> [event |-> "call", stmt |-> None], flagged |-> FALSE]
  OBVIOUS
<1>2. PICK fs : fs = <<NewFrame(Cell, TRUE, TRUE, TRUE)>>
  OBVIOUS
<1>3. frames = fs /\ T = t /\ raised = FALSE /\ calls = 0 /\ skipped = {}
  BY <1>1, <1>2 DEF Init, T
<1>4. Good(t, fs, {})
  BY <1>1, <1>2, NewTracer
<1>. QED
  BY <1>3, <1>4 DEF IInv

-----------------------------------------------------------------------------
(* The properties.                                                         *)

LEMMA Stutter ==
    ASSUME IInv, UNCHANGED vars
    PROVE  IInv'
<1>1. T' = T /\ frames' = frames /\ skipped' = skipped /\ calls' = calls /\ raised' = raised
  BY DEF vars, T
<1>. QED
  BY <1>1 DEF IInv

LEMMA NextInv ==
    ASSUME Cell \notin Catchers, IInv, [Next]_vars
    PROVE  IInv'
<1>1. CASE StartStmt \/ EndCall \/ EndIteration \/ EndStmt \/ EndModuleStmt
  BY <1>1, StartStmtStep, EndCallStep, EndIterationStep, EndStmtStep, EndModuleStmtStep
<1>2. CASE \E n \in 1..2 : StartCall(n)
  BY <1>2, StartCallStep
<1>3. CASE \E g \in Fns, deep \in BOOLEAN : Enter(g, deep)
  BY <1>3, EnterStep
<1>4. CASE Return \/ Raise \/ Unwind \/ Catch \/ NextCell
  BY <1>4, ReturnStep, RaiseStep, UnwindStep, CatchStep, NextCellStep
<1>5. CASE UNCHANGED vars
  BY <1>5, Stutter
<1>. QED
  BY <1>1, <1>2, <1>3, <1>4, <1>5 DEF Next

\* The invariant that the properties follow from: it needs that the cell's own code
\* catches no exception, for after one before_stmt turns tracing on with the count
\* that the first level has saved, 0 and not 1.
THEOREM Inductive ==
    ASSUME Cell \notin Catchers
    PROVE  Spec => []IInv
<1>1. Init => IInv
  BY InitInv
<1>2. IInv /\ [Next]_vars => IInv'
  BY NextInv
<1>. QED
  BY <1>1, <1>2, PTL DEF Spec

\* The tracer's stack, marks and counters are what they should be.
THEOREM TypeCorrect ==
    ASSUME Cell \notin Catchers
    PROVE  Spec => []TypeOK
<1>1. IInv => TypeOK
  <2>1. SUFFICES ASSUME IInv PROVE TypeOK
    OBVIOUS
  <2>2. /\ Sound(T) /\ Framed(frames) /\ Depth \in 1..MaxDepth /\ Depth = Len(frames)
        /\ T.on = enabled /\ T.levels = levels /\ T.callDepth = callDepth /\ T.seen = seen
        /\ T.flagged = flagged /\ T.disabledAt = disabledAt /\ T.lastCall = lastCall
    BY <2>1, Running DEF Depth, T
  <2>3. /\ enabled \in BOOLEAN /\ disabledAt \in 0..MaxDepth /\ callDepth \in 0..MaxDepth
        /\ seen \in SUBSET Fns /\ flagged \in BOOLEAN /\ lastCall \in [Fns -> Places]
        /\ Len(levels) \in 1..MaxDepth
    <3>1. PICK t : t = T
      OBVIOUS
    <3>2. /\ t.on \in BOOLEAN /\ t.disabledAt \in 0..MaxDepth /\ t.callDepth \in 0..MaxDepth
          /\ t.seen \in SUBSET Fns /\ t.flagged \in BOOLEAN /\ t.lastCall \in [Fns -> Places]
          /\ Len(t.levels) \in 1..MaxDepth
      BY <2>2, <3>1, TracerFields
    <3>. QED
      BY <2>2, <3>1, <3>2
  <2>4. \A i \in 1..Depth : frames[i].fn \in Bodies /\ frames[i].phase \in Phases
    BY <2>2, FrameFields
  <2>. QED
    BY <2>1, <2>2, <2>3, <2>4 DEF TypeOK, Managed, IInv
<1>. QED
  BY <1>1, Inductive, PTL

\* While tracing is on the tracer's stack is the interpreter's, and counted right.
THEOREM StackInSync ==
    ASSUME Cell \notin Catchers
    PROVE  Spec => []InSync
<1>1. IInv => InSync
  <2>1. SUFFICES ASSUME IInv, enabled
                 PROVE  /\ {levels[n].depth : n \in 1..Managed} = {i \in 1..Depth : frames[i].pushed}
                        /\ \A m, n \in 1..Managed : m < n => levels[m].depth < levels[n].depth
                        /\ callDepth = Managed
    BY DEF InSync
  <2>2. /\ Sound(T) /\ Follows(T, frames) /\ T.on = enabled /\ T.levels = levels
        /\ T.callDepth = callDepth /\ Depth = Len(frames)
    BY <2>1, Running DEF Depth
  <2>3. Managed = Depth /\ callDepth = Depth /\ \A i \in 1..Depth : frames[i].pushed
    BY <2>1, <2>2 DEF Follows, Managed
  <2>4. \A n \in 1..Managed : levels[n].depth = n
    BY <2>2 DEF Sound, Stacked, Managed
  <2>. QED
    BY <2>3, <2>4
<1>. QED
  BY <1>1, Inductive, PTL

\* An instruction that is recorded belongs to a frame that has a level.
THEOREM RecordsInOwnFrame ==
    ASSUME Cell \notin Catchers
    PROVE  Spec => []RecordsOwnFrame
<1>1. IInv => RecordsOwnFrame
  BY Running DEF RecordsOwnFrame
<1>. QED
  BY <1>1, Inductive, PTL

\* Between two statements of the cell tracing is on again, with an empty stack, and
\* the statement that has ended is handled.
THEOREM TracingResumes ==
    ASSUME Cell \notin Catchers
    PROVE  Spec => []Resumed
<1>1. IInv => Resumed
  <2>1. SUFFICES ASSUME IInv, Depth = 1, Top.phase = "idle"
                 PROVE  enabled /\ Managed = 1 /\ (Top.at > 0 => Stmt(Top) \in finished)
    BY DEF Resumed
  <2>2. /\ Follows(T, frames) /\ Framed(frames) /\ Between(T, frames) /\ T.on = enabled
        /\ T.levels = levels /\ T.finished = finished /\ Len(frames) = 1 /\ Top = frames[1]
    BY <2>1, Running DEF Depth, Top, IInv, Good
  <2>3. T.on /\ Handled(T, Top) /\ Top.inst
    BY <2>1, <2>2 DEF Between, Framed
  <2>. QED
    BY <2>1, <2>2, <2>3 DEF Follows, Handled, Managed
<1>. QED
  BY <1>1, Inductive, PTL

\* When a statement of the cell ends, what has run for it has been handled or is
\* looked at again.
THEOREM NothingUnaccounted ==
    ASSUME Cell \notin Catchers
    PROVE  Spec => Accounted
<1>1. ASSUME IInv, [Next]_vars
      PROVE  [Depth = 1 /\ Top.phase = "stmt" /\ frames'[1].phase = "idle" /\ frames'[1].at = Top.at
              => flagged \/ skipped \subseteq finished']_vars
  <2>1. SUFFICES ASSUME Next, Depth = 1, Top.phase = "stmt", frames'[1].phase = "idle",
                        frames'[1].at = Top.at, ~flagged
                 PROVE  skipped \subseteq finished'
    BY <1>1
  <2>2. skipped \subseteq finished
    BY <1>1, <2>1 DEF IInv, Good, Watched, T
  <2>3. Top.at > 0 /\ Top.at \in Nat /\ DOMAIN frames = 1..1 /\ Len(frames) = 1
        /\ frames \in Seq(Frame) /\ Top \in Frame /\ Top = frames[1]
    <3>1. Top.at > 0 /\ Framed(frames) /\ Top \in Frame /\ MaxStmts \in Nat
      BY <1>1, <2>1, Running, TracingAssumption
    <3>. QED
      BY <2>1, <3>1, LenProperties DEF Framed, Depth, Top, Frame
  <2>4. CASE EndModuleStmt
    BY <1>1, <2>2, <2>4, EndModuleStmtStep
  <2>5. CASE StartStmt \/ EndStmt \/ Return \/ Unwind
    BY <2>1, <2>5 DEF StartStmt, EndStmt, Return, Unwind
  <2>6. CASE EndCall \/ (\E n \in 1..2 : StartCall(n))
    BY <2>1, <2>3, <2>6 DEF EndCall, StartCall, SetTop, Depth, Frame
  <2>7. CASE EndIteration
    BY <2>1, <2>3, <2>7 DEF EndIteration, SetTop, Depth, Frame
  <2>8. CASE \E g \in Fns, deep \in BOOLEAN : Enter(g, deep)
    <3>1. PICK fr : frames' = Append(frames, fr)
      BY <2>8 DEF Enter
    <3>2. frames'[1] = frames[1]
      BY <2>3, <3>1, AppendProperties
    <3>. QED
      BY <2>1, <2>3, <3>2
  <2>9. CASE Raise
    BY <2>1, <2>3, <2>9 DEF Raise
  <2>10. CASE Catch
    <3>1. Top.fn = Cell
      BY <1>1, <2>1 DEF IInv, Good, Framed, Top, Depth
    <3>. QED
      BY <2>10, <3>1 DEF Catch
  <2>11. CASE NextCell
    <3>1. frames'[1].at = 0
      BY <2>11 DEF NextCell, NewFrame
    <3>. QED
      BY <2>1, <2>3, <3>1
  <2>. QED
    BY <2>1, <2>4, <2>5, <2>6, <2>7, <2>8, <2>9, <2>10, <2>11 DEF Next
<1>. QED
  BY <1>1, Inductive, PTL DEF Spec, Accounted
=============================================================================
