------------------------- MODULE ReactiveLoopProofs -------------------------
(***************************************************************************)
(* What holds whenever the store and the kernel have settled, for any       *)
(* notebook, any settings and any number of things the user does.          *)
(***************************************************************************)
EXTENDS ReactiveLoop, FiniteSetTheorems, SequenceTheorems, WellFoundedInduction, TLAPS

Execs == [type : {"exec"}, cell : Cells, batch : Nat, aborted : BOOLEAN]
KernelMail == Execs \cup [type : {"request"}, reactive : BOOLEAN] \cup [type : {"cleanup"}]
Dones == [type : {"done"}, cell : Cells, batch : Nat]
Schedules == [type : {"schedule"}, last : Cells, failed : BOOLEAN,
              ready : SUBSET Cells, waiting : SUBSET Cells, new : SUBSET Cells]
StoreMail == Dones \cup Schedules
Batch == [plain : BOOLEAN, left : Nat, chosen : 0..N]
Shows == [ready : SUBSET Cells, waiting : SUBSET Cells]

Types ==
    /\ edges \subseteq Cells \X Cells /\ schedule \in ExecSchedules /\ env \in Envs
    /\ ctr \in [Cells -> 1..counter] /\ counter \in Nat /\ minNew \in 1..(counter + 1)
    /\ wasReady \subseteq Cells /\ last \in Cells
    /\ checked \in BOOLEAN /\ failed \in BOOLEAN /\ reactive \in BOOLEAN
    /\ newReady \subseteq Cells /\ episode \subseteq Cells /\ shown \in Shows
    /\ toKernel \in Seq(KernelMail) /\ toStore \in Seq(StoreMail)
    /\ batches \in Seq(Batch)
    /\ flight \in [Cells -> 0..Len(batches)]
    /\ ticks \in Nat /\ inProgress \in 0..Len(batches) /\ acts \in 0..MaxActs

\* What the channels hold: k and s are toKernel and toStore, f is flight, and b
\* the latest batch.
Known(k, s, b) ==
    /\ \A i \in DOMAIN k : k[i].type = "exec" => k[i].batch \in 1..b
    /\ \A i \in DOMAIN s : s[i].type = "done" => s[i].batch \in 1..b
\* The latest batch is behind all others.
LatestLast(k, b) ==
    \A i \in DOMAIN k : k[i].type = "exec" =>
        \E j \in i..Len(k) : k[j].type = "exec" /\ k[j].batch = b
Same(m, n) == m.cell = n.cell /\ m.batch = n.batch
\* No execution is under way twice.
Once(k, s) ==
    /\ \A i, j \in DOMAIN k :
          i # j /\ k[i].type = "exec" /\ k[j].type = "exec" => ~Same(k[i], k[j])
    /\ \A i, j \in DOMAIN s :
          i # j /\ s[i].type = "done" /\ s[j].type = "done" => ~Same(s[i], s[j])
    /\ \A i \in DOMAIN k, j \in DOMAIN s :
          k[i].type = "exec" /\ s[j].type = "done" => ~Same(k[i], s[j])
\* Nothing has cancelled the executions of the latest batch.
Current(k, s, f, b) ==
    /\ \A i \in DOMAIN k : k[i].type = "exec" /\ k[i].batch = b => f[k[i].cell] = b
    /\ \A i \in DOMAIN s : s[i].type = "done" /\ s[i].batch = b => f[s[i].cell] = b
\* What is waited for is under way.
Awaited(k, s, f) ==
    \A c \in Cells : f[c] # 0 =>
        \/ \E i \in DOMAIN k : k[i].type = "exec" /\ k[i].cell = c /\ k[i].batch = f[c]
        \/ \E i \in DOMAIN s : s[i].type = "done" /\ s[i].cell = c /\ s[i].batch = f[c]
Mail(k, s, f, b) ==
    Known(k, s, b) /\ LatestLast(k, b) /\ Once(k, s) /\ Current(k, s, f, b) /\ Awaited(k, s, f)

\* The cells that wait for batch b, and those that wait for a plain run.
Waits(f, b) == {c \in Cells : f[c] = b}
PlainRuns(f, bs) == {c \in Cells : f[c] # 0 /\ bs[f[c]].plain}
Counts(bs, f, n) ==
    /\ \A b \in DOMAIN bs : /\ Cardinality(Waits(f, b)) <= bs[b].left
                            /\ bs[b].plain => bs[b].left <= 1
    /\ bs # << >> => bs[Len(bs)].left = Cardinality(Waits(f, Len(bs)))
    /\ n = Cardinality(PlainRuns(f, bs))

\* A request for a schedule is under way, or what will lead to one.
Asked(k) == \E i \in DOMAIN k : k[i].type = "request"
InFlight(f, b) == \E c \in Cells : f[c] # 0 /\ f[c] = b
Owed == ticks > 0 \/ Asked(toKernel) \/ inProgress > 0 \/ InFlight(flight, Len(batches))

Announced(s) == \E i \in DOMAIN s : s[i].type = "schedule"
\* The last schedule under way, or else what is shown, is r and w.
Latest(s, sh, r, w) ==
    /\ ~Announced(s) => sh.ready = r /\ sh.waiting = w
    /\ \A i \in DOMAIN s :
          s[i].type = "schedule" /\ (\A j \in DOMAIN s : j > i => s[j].type # "schedule")
              => s[i].ready = r /\ s[i].waiting = w
View == Owed \/ Latest(toStore, shown, Ready, Waiting)
Idle == \/ Owed \/ Announced(toStore)
        \/ ~reactive /\ newReady = {} /\ episode = {}

Inv == /\ Types /\ Mail(toKernel, toStore, flight, Len(batches))
       /\ Counts(batches, flight, inProgress) /\ View /\ Idle

-----------------------------------------------------------------------------
(* Sequences.                                                              *)

\* RemoveAt takes one element out and keeps the order of the others.
LEMMA RemoveAtFacts ==
    ASSUME NEW S, NEW s \in Seq(S), NEW i \in DOMAIN s
    PROVE  /\ RemoveAt(s, i) \in Seq(S) /\ Len(RemoveAt(s, i)) = Len(s) - 1
           /\ \A j \in 1..(Len(s) - 1) : RemoveAt(s, i)[j] = IF j < i THEN s[j] ELSE s[j + 1]
<1>1. i \in 1..Len(s) /\ Len(s) \in Nat
  BY LenProperties
<1>2. \A j \in 1..Len(s) : s[j] \in S
  BY ElementOfSeq
<1>3. SubSeq(s, 1, i - 1) \in Seq(S) /\ Len(SubSeq(s, 1, i - 1)) = i - 1
      /\ \A j \in 1..(i - 1) : SubSeq(s, 1, i - 1)[j] = s[j]
  BY <1>1, <1>2, SubSeqProperties
<1>4. SubSeq(s, i + 1, Len(s)) \in Seq(S) /\ Len(SubSeq(s, i + 1, Len(s))) = Len(s) - i
      /\ \A j \in 1..(Len(s) - i) : SubSeq(s, i + 1, Len(s))[j] = s[j + i]
  BY <1>1, <1>2, SubSeqProperties
<1>. DEFINE a == SubSeq(s, 1, i - 1)
            b == SubSeq(s, i + 1, Len(s))
<1>5. RemoveAt(s, i) = a \o b
  BY DEF RemoveAt
<1>. HIDE DEF a, b
<1>6. a \in Seq(S) /\ b \in Seq(S) /\ Len(a) = i - 1 /\ Len(b) = Len(s) - i
      /\ (\A j \in 1..(i - 1) : a[j] = s[j]) /\ (\A j \in 1..(Len(s) - i) : b[j] = s[j + i])
  BY <1>3, <1>4 DEF a, b
<1>7. a \o b \in Seq(S) /\ Len(a \o b) = Len(a) + Len(b)
      /\ \A j \in 1..(Len(a) + Len(b)) :
            (a \o b)[j] = IF j <= Len(a) THEN a[j] ELSE b[j - Len(a)]
  BY <1>6, ConcatProperties
<1>8. \A j \in 1..(Len(s) - 1) : (a \o b)[j] = IF j < i THEN s[j] ELSE s[j + 1]
  <2>. TAKE j \in 1..(Len(s) - 1)
  <2>1. CASE j < i
    <3>1. j \in 1..(i - 1) /\ j \in 1..(Len(a) + Len(b)) /\ j <= Len(a)
      BY <2>1, <1>1, <1>6
    <3>2. (a \o b)[j] = a[j] /\ a[j] = s[j]
      BY <3>1, <1>6, <1>7
    <3>. QED
      BY <2>1, <3>2
  <2>2. CASE ~(j < i)
    <3>. DEFINE n == j - (i - 1)
    <3>1. n \in 1..(Len(s) - i) /\ n + i = j + 1 /\ n = j - Len(a)
      BY <2>2, <1>1, <1>6
    <3>2. j \in 1..(Len(a) + Len(b)) /\ ~(j <= Len(a))
      BY <2>2, <1>1, <1>6
    <3>. HIDE DEF n
    <3>3. (a \o b)[j] = b[n]
      BY <3>1, <3>2, <1>7
    <3>4. b[n] = s[n + i]
      BY <3>1, <1>6
    <3>. QED
      BY <3>1, <3>3, <3>4, <2>2
  <2>. QED
    BY <2>1, <2>2
<1>9. Len(a \o b) = Len(s) - 1
  BY <1>1, <1>6, <1>7
<1>. QED
  BY <1>5, <1>7, <1>8, <1>9

\* Taking the first element off a queue moves the others up.
LEMMA TailFacts ==
    ASSUME NEW S, NEW s \in Seq(S), s # << >>
    PROVE  /\ Len(s) \in Nat \ {0} /\ DOMAIN s = 1..Len(s) /\ Head(s) = s[1] /\ s[1] \in S
           /\ Tail(s) \in Seq(S) /\ DOMAIN Tail(s) = 1..(Len(s) - 1) /\ Len(Tail(s)) = Len(s) - 1
           /\ \A i \in 1..(Len(s) - 1) : Tail(s)[i] = s[i + 1]
  BY HeadTailProperties, LenProperties, EmptySeq

\* Appending leaves the elements of a queue where they are.
LEMMA AppendFacts ==
    ASSUME NEW S, NEW s \in Seq(S), NEW e \in S
    PROVE  /\ Len(s) \in Nat /\ DOMAIN s = 1..Len(s)
           /\ Append(s, e) \in Seq(S) /\ DOMAIN Append(s, e) = 1..(Len(s) + 1)
           /\ Len(Append(s, e)) = Len(s) + 1
           /\ \A i \in 1..(Len(s) + 1) : Append(s, e)[i] = IF i <= Len(s) THEN s[i] ELSE e
<1>1. Len(s) \in Nat /\ DOMAIN s = 1..Len(s)
  BY LenProperties
<1>2. /\ Append(s, e) \in Seq(S) /\ Len(Append(s, e)) = Len(s) + 1
      /\ \A i \in 1..Len(s) : Append(s, e)[i] = s[i]
      /\ Append(s, e)[Len(s) + 1] = e
  BY AppendProperties
<1>3. DOMAIN Append(s, e) = 1..(Len(s) + 1)
  BY <1>2, LenProperties
<1>. QED
  BY <1>1, <1>2, <1>3

-----------------------------------------------------------------------------
(* What happens to the channels.                                           *)

\* The first message is taken off k: an execution then leads to a reply d, other
\* messages to none.  k1 is what is left, whether aborted or not.
Taken(k, k1) ==
    /\ DOMAIN k1 = 1..(Len(k) - 1) /\ Len(k1) = Len(k) - 1
    /\ \A i \in 1..(Len(k) - 1) : k1[i].type = k[i + 1].type
    /\ \A i \in 1..(Len(k) - 1) : k1[i].type = "exec" => Same(k1[i], k[i + 1])

\* What is left was behind the message taken.
LEMMA TakenFacts ==
    ASSUME NEW k \in Seq(KernelMail), NEW k1, k # << >>, Taken(k, k1)
    PROVE  /\ Len(k) \in Nat \ {0} /\ DOMAIN k = 1..Len(k) /\ 1 \in DOMAIN k
           /\ \A i \in DOMAIN k1 : i \in Nat \ {0} /\ i + 1 \in DOMAIN k /\ i + 1 # 1
           /\ \A i \in DOMAIN k1 : k1[i].type = "exec" =>
                 k[i + 1].type = "exec" /\ Same(k1[i], k[i + 1])
           /\ \A i \in DOMAIN k \ {1} : i - 1 \in DOMAIN k1
           /\ \A i \in DOMAIN k \ {1} : k[i].type = "exec" =>
                 k1[i - 1].type = "exec" /\ Same(k1[i - 1], k[i])
<1>1. Len(k) \in Nat \ {0} /\ DOMAIN k = 1..Len(k)
  BY TailFacts
<1>2. DOMAIN k1 = 1..(Len(k) - 1) /\ DOMAIN k \ {1} = 2..Len(k)
  BY <1>1 DEF Taken
<1>3. \A i \in DOMAIN k1 : i \in Nat \ {0} /\ i + 1 \in DOMAIN k /\ i + 1 # 1
  BY <1>1, <1>2
<1>4. \A i \in 1..(Len(k) - 1) : k1[i].type = k[i + 1].type
  BY DEF Taken
<1>5. \A i \in 1..(Len(k) - 1) : k1[i].type = "exec" => Same(k1[i], k[i + 1])
  BY DEF Taken
<1>6. ASSUME NEW i \in 2..Len(k)
      PROVE  /\ i - 1 \in DOMAIN k1
             /\ k1[i - 1].type = k[i].type
             /\ (k1[i - 1].type = "exec") => Same(k1[i - 1], k[i])
  <2>1. i - 1 \in 1..(Len(k) - 1) /\ (i - 1) + 1 = i
    BY <1>6, <1>1
  <2>2. k1[i - 1].type = k[i].type
    BY <2>1, <1>1, <1>4
  <2>3. k1[i - 1].type = "exec" => Same(k1[i - 1], k[i])
    BY <2>1, <1>1, <1>5
  <2>. QED
    BY <2>1, <2>2, <2>3, <1>2
<1>7. \A i \in DOMAIN k1 : k1[i].type = "exec" => k[i + 1].type = "exec" /\ Same(k1[i], k[i + 1])
  BY <1>2, <1>4, <1>5
<1>8. \A i \in 2..Len(k) : k[i].type = "exec" => k1[i - 1].type = "exec" /\ Same(k1[i - 1], k[i])
  BY <1>6
<1>. QED
  BY <1>1, <1>2, <1>3, <1>6, <1>7, <1>8

\* Running or aborting an execution request puts its reply in its place.
LEMMA MailRun ==
    ASSUME NEW k \in Seq(KernelMail), NEW s \in Seq(StoreMail), NEW f \in [Cells -> Nat],
           NEW b \in Nat, NEW k1 \in Seq(KernelMail), NEW d \in Dones,
           k # << >>, k[1].type = "exec", Same(d, k[1]), Taken(k, k1),
           Mail(k, s, f, b)
    PROVE  Mail(k1, Append(s, d), f, b)
<1>. DEFINE t == Append(s, d)
<1>1. d \in StoreMail /\ d.type = "done"
  BY DEF StoreMail, Dones
<1>2. /\ Len(s) \in Nat /\ DOMAIN s = 1..Len(s)
      /\ DOMAIN t = 1..(Len(s) + 1)
      /\ \A i \in 1..(Len(s) + 1) : t[i] = IF i <= Len(s) THEN s[i] ELSE d
  BY <1>1, AppendFacts
<1>3. /\ Len(k) \in Nat \ {0} /\ DOMAIN k = 1..Len(k) /\ 1 \in DOMAIN k
      /\ \A i \in DOMAIN k1 : i \in Nat \ {0} /\ i + 1 \in DOMAIN k /\ i + 1 # 1
      /\ \A i \in DOMAIN k1 : k1[i].type = "exec" =>
            k[i + 1].type = "exec" /\ Same(k1[i], k[i + 1])
      /\ \A i \in DOMAIN k \ {1} : i - 1 \in DOMAIN k1
      /\ \A i \in DOMAIN k \ {1} : k[i].type = "exec" =>
            k1[i - 1].type = "exec" /\ Same(k1[i - 1], k[i])
  BY TakenFacts
<1>9. Len(k1) = Len(k) - 1
  BY DEF Taken
<1>. HIDE DEF t
<1>4. Known(k1, t, b)
  <2>1. ASSUME NEW i \in DOMAIN k1, k1[i].type = "exec" PROVE k1[i].batch \in 1..b
    <3>1. i + 1 \in DOMAIN k /\ k[i + 1].type = "exec" /\ Same(k1[i], k[i + 1])
      BY <2>1, <1>3
    <3>2. k[i + 1].batch \in 1..b
      BY <3>1 DEF Mail, Known
    <3>. QED
      BY <3>1, <3>2 DEF Same
  <2>2. d.batch \in 1..b
    BY <1>3 DEF Mail, Known, Same
  <2>3. ASSUME NEW i \in DOMAIN t, t[i].type = "done" PROVE t[i].batch \in 1..b
    BY <2>2, <2>3, <1>2 DEF Mail, Known
  <2>. QED
    BY <2>1, <2>3 DEF Known
<1>5. LatestLast(k1, b)
  <2>. SUFFICES ASSUME NEW i \in DOMAIN k1, k1[i].type = "exec"
                PROVE  \E j \in i..Len(k1) : k1[j].type = "exec" /\ k1[j].batch = b
    BY DEF LatestLast
  <2>1. PICK j \in (i + 1)..Len(k) : k[j].type = "exec" /\ k[j].batch = b
    BY <1>3 DEF Mail, LatestLast
  <2>2. j \in DOMAIN k \ {1} /\ j - 1 \in i..Len(k1)
    BY <2>1, <1>3, <1>9
  <2>. QED
    BY <2>1, <2>2, <1>3 DEF Same
<1>6. Once(k1, t)
  <2>1. ASSUME NEW i \in DOMAIN k1, NEW j \in DOMAIN k1, i # j,
               k1[i].type = "exec", k1[j].type = "exec"
        PROVE  ~Same(k1[i], k1[j])
    <3>1. i + 1 \in DOMAIN k /\ j + 1 \in DOMAIN k /\ i + 1 # j + 1
      BY <2>1, <1>3
    <3>2. ~Same(k[i + 1], k[j + 1])
      BY <2>1, <3>1, <1>3 DEF Mail, Once
    <3>. QED
      BY <2>1, <3>2, <1>3 DEF Same
  <2>2. ASSUME NEW i \in DOMAIN t, NEW j \in DOMAIN t, i < j,
               t[i].type = "done", t[j].type = "done"
        PROVE  ~Same(t[i], t[j])
    <3>1. CASE j <= Len(s)
      BY <2>2, <3>1, <1>2 DEF Mail, Once
    <3>2. CASE j = Len(s) + 1
      <4>1. t[j] = d /\ i \in DOMAIN s /\ t[i] = s[i]
        BY <2>2, <3>2, <1>2
      <4>2. ~Same(k[1], s[i])
        BY <4>1, <2>2, <1>3 DEF Mail, Once
      <4>. QED
        BY <4>1, <4>2 DEF Same
    <3>. QED
      BY <3>1, <3>2, <1>2
  <2>3. ASSUME NEW i \in DOMAIN k1, NEW j \in DOMAIN t,
               k1[i].type = "exec", t[j].type = "done"
        PROVE  ~Same(k1[i], t[j])
    <3>1. i + 1 \in DOMAIN k /\ k[i + 1].type = "exec" /\ Same(k1[i], k[i + 1]) /\ i + 1 # 1
      BY <2>3, <1>3
    <3>2. CASE j <= Len(s)
      <4>1. ~Same(k[i + 1], s[j])
        BY <3>1, <3>2, <2>3, <1>2 DEF Mail, Once
      <4>. QED
        BY <4>1, <3>1, <3>2, <1>2 DEF Same
    <3>3. CASE j = Len(s) + 1
      <4>1. ~Same(k[i + 1], k[1])
        BY <3>1, <1>3 DEF Mail, Once
      <4>. QED
        BY <4>1, <3>1, <3>3, <1>2 DEF Same
    <3>. QED
      BY <3>2, <3>3, <1>2
  <2>4. \A m, n : Same(m, n) <=> Same(n, m)
    BY DEF Same
  <2>5. \A i, j \in DOMAIN t : i # j => i < j \/ j < i
    BY <1>2
  <2>. QED
    BY <2>1, <2>2, <2>3, <2>4, <2>5 DEF Once
<1>7. Current(k1, t, f, b)
  <2>1. ASSUME NEW i \in DOMAIN k1, k1[i].type = "exec", k1[i].batch = b
        PROVE  f[k1[i].cell] = b
    <3>1. i + 1 \in DOMAIN k /\ k[i + 1].type = "exec" /\ Same(k1[i], k[i + 1])
      BY <2>1, <1>3
    <3>2. k[i + 1].batch = b => f[k[i + 1].cell] = b
      BY <3>1 DEF Mail, Current
    <3>. QED
      BY <2>1, <3>1, <3>2 DEF Same
  <2>2. d.batch = b => f[d.cell] = b
    BY <1>3 DEF Mail, Current, Same
  <2>3. ASSUME NEW i \in DOMAIN t, t[i].type = "done", t[i].batch = b
        PROVE  f[t[i].cell] = b
    BY <2>2, <2>3, <1>2 DEF Mail, Current
  <2>. QED
    BY <2>1, <2>3 DEF Current
<1>8. Awaited(k1, t, f)
  <2>. SUFFICES ASSUME NEW c \in Cells, f[c] # 0
                PROVE \/ \E i \in DOMAIN k1 : k1[i].type = "exec" /\ k1[i].cell = c /\ k1[i].batch = f[c]
                      \/ \E i \in DOMAIN t : t[i].type = "done" /\ t[i].cell = c /\ t[i].batch = f[c]
    BY DEF Awaited
  <2>1. CASE \E i \in DOMAIN s : s[i].type = "done" /\ s[i].cell = c /\ s[i].batch = f[c]
    BY <2>1, <1>2
  <2>2. ASSUME NEW i \in DOMAIN k, k[i].type = "exec", k[i].cell = c, k[i].batch = f[c]
        PROVE \/ \E j \in DOMAIN k1 : k1[j].type = "exec" /\ k1[j].cell = c /\ k1[j].batch = f[c]
              \/ \E j \in DOMAIN t : t[j].type = "done" /\ t[j].cell = c /\ t[j].batch = f[c]
    <3>1. CASE i = 1
      <4>1. Len(s) + 1 \in DOMAIN t /\ t[Len(s) + 1] = d
        BY <1>2
      <4>. QED
        BY <4>1, <3>1, <2>2, <1>1 DEF Same
    <3>2. CASE i # 1
      <4>1. i - 1 \in DOMAIN k1 /\ k1[i - 1].type = "exec" /\ Same(k1[i - 1], k[i])
        BY <3>2, <2>2, <1>3
      <4>. QED
        BY <4>1, <2>2 DEF Same
    <3>. QED
      BY <3>1, <3>2
  <2>. QED
    BY <2>1, <2>2 DEF Mail, Awaited
<1>. QED
  BY <1>4, <1>5, <1>6, <1>7, <1>8 DEF Mail, t

\* Answering a request, or a clean-up, takes no execution off the channel.
LEMMA MailTaken ==
    ASSUME NEW k \in Seq(KernelMail), NEW s, NEW f \in [Cells -> Nat],
           NEW b \in Nat, NEW k1 \in Seq(KernelMail),
           k # << >>, k[1].type # "exec", Taken(k, k1),
           Mail(k, s, f, b)
    PROVE  Mail(k1, s, f, b)
<1>3. /\ Len(k) \in Nat \ {0} /\ DOMAIN k = 1..Len(k) /\ 1 \in DOMAIN k
      /\ \A i \in DOMAIN k1 : i \in Nat \ {0} /\ i + 1 \in DOMAIN k /\ i + 1 # 1
      /\ \A i \in DOMAIN k1 : k1[i].type = "exec" =>
            k[i + 1].type = "exec" /\ Same(k1[i], k[i + 1])
      /\ \A i \in DOMAIN k \ {1} : i - 1 \in DOMAIN k1
      /\ \A i \in DOMAIN k \ {1} : k[i].type = "exec" =>
            k1[i - 1].type = "exec" /\ Same(k1[i - 1], k[i])
  BY TakenFacts
<1>9. Len(k1) = Len(k) - 1
  BY DEF Taken
<1>4. Known(k1, s, b)
  <2>1. ASSUME NEW i \in DOMAIN k1, k1[i].type = "exec" PROVE k1[i].batch \in 1..b
    <3>1. i + 1 \in DOMAIN k /\ k[i + 1].type = "exec" /\ Same(k1[i], k[i + 1])
      BY <2>1, <1>3
    <3>2. k[i + 1].batch \in 1..b
      BY <3>1 DEF Mail, Known
    <3>. QED
      BY <3>1, <3>2 DEF Same
  <2>. QED
    BY <2>1 DEF Mail, Known
<1>5. LatestLast(k1, b)
  <2>. SUFFICES ASSUME NEW i \in DOMAIN k1, k1[i].type = "exec"
                PROVE  \E j \in i..Len(k1) : k1[j].type = "exec" /\ k1[j].batch = b
    BY DEF LatestLast
  <2>1. PICK j \in (i + 1)..Len(k) : k[j].type = "exec" /\ k[j].batch = b
    BY <1>3 DEF Mail, LatestLast
  <2>2. j \in DOMAIN k \ {1} /\ j - 1 \in i..Len(k1)
    BY <2>1, <1>3, <1>9
  <2>. QED
    BY <2>1, <2>2, <1>3 DEF Same
<1>6. Once(k1, s)
  <2>1. ASSUME NEW i \in DOMAIN k1, NEW j \in DOMAIN k1, i # j,
               k1[i].type = "exec", k1[j].type = "exec"
        PROVE  ~Same(k1[i], k1[j])
    <3>1. i + 1 \in DOMAIN k /\ j + 1 \in DOMAIN k /\ i + 1 # j + 1
      BY <2>1, <1>3
    <3>2. ~Same(k[i + 1], k[j + 1])
      BY <2>1, <3>1, <1>3 DEF Mail, Once
    <3>. QED
      BY <2>1, <3>2, <1>3 DEF Same
  <2>2. ASSUME NEW i \in DOMAIN k1, NEW j \in DOMAIN s,
               k1[i].type = "exec", s[j].type = "done"
        PROVE  ~Same(k1[i], s[j])
    <3>1. i + 1 \in DOMAIN k /\ ~Same(k[i + 1], s[j])
      BY <2>2, <1>3 DEF Mail, Once
    <3>. QED
      BY <2>2, <3>1, <1>3 DEF Same
  <2>. QED
    BY <2>1, <2>2 DEF Once, Mail
<1>7. Current(k1, s, f, b)
  <2>1. ASSUME NEW i \in DOMAIN k1, k1[i].type = "exec", k1[i].batch = b
        PROVE  f[k1[i].cell] = b
    <3>1. i + 1 \in DOMAIN k /\ k[i + 1].type = "exec" /\ Same(k1[i], k[i + 1])
      BY <2>1, <1>3
    <3>2. k[i + 1].batch = b => f[k[i + 1].cell] = b
      BY <3>1 DEF Mail, Current
    <3>. QED
      BY <2>1, <3>1, <3>2 DEF Same
  <2>. QED
    BY <2>1 DEF Mail, Current
<1>8. Awaited(k1, s, f)
  <2>. SUFFICES ASSUME NEW c \in Cells, f[c] # 0,
                       NEW i \in DOMAIN k, k[i].type = "exec", k[i].cell = c, k[i].batch = f[c]
                PROVE \E j \in DOMAIN k1 : k1[j].type = "exec" /\ k1[j].cell = c /\ k1[j].batch = f[c]
    BY DEF Awaited, Mail
  <2>1. i - 1 \in DOMAIN k1 /\ k1[i - 1].type = "exec" /\ Same(k1[i - 1], k[i])
    BY <1>3
  <2>. QED
    BY <2>1 DEF Same
<1>. QED
  BY <1>4, <1>5, <1>6, <1>7, <1>8 DEF Mail

\* The channel grows at its end by something that is not an execution.
LEMMA MailPosted ==
    ASSUME NEW k \in Seq(KernelMail), NEW s, NEW f, NEW b \in Nat,
           NEW m \in KernelMail, m.type # "exec", Mail(k, s, f, b)
    PROVE  Mail(Append(k, m), s, f, b)
<1>. DEFINE l == Append(k, m)
<1>1. /\ Len(k) \in Nat /\ DOMAIN k = 1..Len(k)
      /\ DOMAIN l = 1..(Len(k) + 1) /\ Len(l) = Len(k) + 1
      /\ \A i \in 1..(Len(k) + 1) : l[i] = IF i <= Len(k) THEN k[i] ELSE m
  BY AppendFacts
<1>. HIDE DEF l
<1>2. \A i \in DOMAIN l : l[i].type = "exec" => i \in DOMAIN k /\ l[i] = k[i]
  BY <1>1
<1>3. \A i \in DOMAIN k : i \in DOMAIN l /\ l[i] = k[i]
  BY <1>1
<1>4. Known(l, s, b) /\ Current(l, s, f, b)
  BY <1>2 DEF Mail, Known, Current
<1>5. Once(l, s) /\ Awaited(l, s, f)
  BY <1>2, <1>3 DEF Mail, Once, Awaited
<1>6. LatestLast(l, b)
  BY <1>1, <1>2, <1>3 DEF Mail, LatestLast
<1>. QED
  BY <1>4, <1>5, <1>6 DEF Mail, l

\* A schedule joins the replies.
LEMMA MailAnnounced ==
    ASSUME NEW k, NEW s \in Seq(StoreMail), NEW f, NEW b \in Nat,
           NEW m \in Schedules, Mail(k, s, f, b)
    PROVE  Mail(k, Append(s, m), f, b)
<1>. DEFINE l == Append(s, m)
<1>1. m \in StoreMail /\ m.type = "schedule"
  BY DEF StoreMail, Schedules
<1>2. /\ Len(s) \in Nat /\ DOMAIN s = 1..Len(s)
      /\ DOMAIN l = 1..(Len(s) + 1) /\ Len(l) = Len(s) + 1
      /\ \A i \in 1..(Len(s) + 1) : l[i] = IF i <= Len(s) THEN s[i] ELSE m
  BY <1>1, AppendFacts
<1>. HIDE DEF l
<1>3. \A i \in DOMAIN l : l[i].type = "done" => i \in DOMAIN s /\ l[i] = s[i]
  BY <1>1, <1>2
<1>4. \A i \in DOMAIN s : i \in DOMAIN l /\ l[i] = s[i]
  BY <1>2
<1>. QED
  BY <1>3, <1>4 DEF Mail, Known, Current, Once, Awaited, l

\* Where an element was before element i was taken out.
Past(i, j) == IF j < i THEN j ELSE j + 1

\* Taking one element out of a queue leaves all the others.
LEMMA LeftFacts ==
    ASSUME NEW S, NEW s \in Seq(S), NEW i \in DOMAIN s, NEW t, t = RemoveAt(s, i)
    PROVE  /\ t \in Seq(S) /\ Len(s) \in Nat /\ DOMAIN s = 1..Len(s)
           /\ DOMAIN t = 1..(Len(s) - 1)
           /\ \A j \in DOMAIN t : Past(i, j) \in DOMAIN s \ {i} /\ t[j] = s[Past(i, j)]
           /\ \A j, l \in DOMAIN t : j < l => Past(i, j) < Past(i, l)
           /\ \A j, l \in DOMAIN t : j # l => Past(i, j) # Past(i, l)
           /\ \A n \in DOMAIN s \ {i} : \E j \in DOMAIN t : n = Past(i, j)
<1>1. Len(s) \in Nat /\ DOMAIN s = 1..Len(s) /\ i \in 1..Len(s)
  BY LenProperties
<1>2. /\ t \in Seq(S) /\ Len(t) = Len(s) - 1
      /\ \A j \in 1..(Len(s) - 1) : t[j] = IF j < i THEN s[j] ELSE s[j + 1]
  BY RemoveAtFacts
<1>3. DOMAIN t = 1..(Len(s) - 1)
  BY <1>2, LenProperties
<1>4. \A j \in 1..(Len(s) - 1) : Past(i, j) \in 1..Len(s) /\ Past(i, j) # i
  BY <1>1 DEF Past
<1>5. \A j \in 1..(Len(s) - 1) : t[j] = s[Past(i, j)]
  BY <1>2 DEF Past
<1>6. \A j, l \in 1..(Len(s) - 1) : j < l => Past(i, j) < Past(i, l)
  BY <1>1 DEF Past
<1>11. \A j, l \in 1..(Len(s) - 1) : j # l => Past(i, j) # Past(i, l)
  BY <1>1 DEF Past
<1>7. ASSUME NEW n \in 1..Len(s), n # i
      PROVE  \E j \in 1..(Len(s) - 1) : n = Past(i, j)
  <2>1. CASE n < i
    <3>1. n \in 1..(Len(s) - 1) /\ Past(i, n) = n
      BY <2>1, <1>1 DEF Past
    <3>. QED
      BY <3>1
  <2>2. CASE n > i
    <3>1. n - 1 \in 1..(Len(s) - 1) /\ Past(i, n - 1) = n
      BY <2>2, <1>1 DEF Past
    <3>. QED
      BY <3>1
  <2>. QED
    BY <2>1, <2>2, <1>1, <1>7
<1>8. /\ \A j \in DOMAIN t : Past(i, j) \in DOMAIN s \ {i}
      /\ \A j \in DOMAIN t : t[j] = s[Past(i, j)]
  BY <1>1, <1>3, <1>4, <1>5
<1>9. /\ \A j, l \in DOMAIN t : j < l => Past(i, j) < Past(i, l)
      /\ \A j, l \in DOMAIN t : j # l => Past(i, j) # Past(i, l)
  BY <1>3, <1>6, <1>11
<1>10. \A n \in DOMAIN s \ {i} : \E j \in DOMAIN t : n = Past(i, j)
  BY <1>1, <1>3, <1>7
<1>. QED
  BY <1>1, <1>2, <1>3, <1>8, <1>9, <1>10

\* A message arrives: a schedule, or the reply to an execution, for which nothing
\* waits any longer.
LEMMA MailArrived ==
    ASSUME NEW k \in Seq(KernelMail), NEW s \in Seq(StoreMail), NEW f \in [Cells -> Nat],
           NEW b \in Nat, NEW i \in DOMAIN s, NEW f1 \in [Cells -> Nat],
           \A c \in Cells : f1[c] # f[c] =>
               f1[c] = 0 /\ s[i].type = "done" /\ c = s[i].cell /\ f[c] = s[i].batch,
           s[i].type = "done" /\ f[s[i].cell] = s[i].batch => f1[s[i].cell] = 0,
           Mail(k, s, f, b)
    PROVE  Mail(k, RemoveAt(s, i), f1, b)
<1>1. PICK t : t = RemoveAt(s, i)
  OBVIOUS
<1>2. /\ \A j \in DOMAIN t : Past(i, j) \in DOMAIN s \ {i} /\ t[j] = s[Past(i, j)]
      /\ \A j, l \in DOMAIN t : j # l => Past(i, j) # Past(i, l)
      /\ \A n \in DOMAIN s \ {i} : \E j \in DOMAIN t : n = Past(i, j)
  BY <1>1, LeftFacts
<1>3. Known(k, t, b) /\ LatestLast(k, b)
  BY <1>2 DEF Mail, Known
<1>4. Once(k, t)
  BY <1>2 DEF Mail, Once
<1>5. ASSUME NEW c \in Cells, f[c] = b, f1[c] # b
      PROVE  s[i].type = "done" /\ c = s[i].cell /\ b = s[i].batch
  BY <1>5
<1>6. Current(k, t, f1, b)
  <2>1. ASSUME NEW j \in DOMAIN k, k[j].type = "exec", k[j].batch = b
        PROVE  f1[k[j].cell] = b
    <3>1. k[j] \in Execs
      BY <2>1, ElementOfSeq, LenProperties DEF KernelMail, Execs
    <3>2. k[j].cell \in Cells /\ f[k[j].cell] = b
      BY <2>1, <3>1 DEF Mail, Current, Execs
    <3>3. s[i].type = "done" => ~Same(k[j], s[i])
      BY <2>1 DEF Mail, Once
    <3>. QED
      BY <2>1, <3>2, <3>3, <1>5 DEF Same
  <2>2. ASSUME NEW j \in DOMAIN t, t[j].type = "done", t[j].batch = b
        PROVE  f1[t[j].cell] = b
    <3>1. PICK n \in DOMAIN s : n # i /\ t[j] = s[n]
      BY <2>2, <1>2
    <3>2. s[n] \in Dones
      BY <2>2, <3>1, ElementOfSeq, LenProperties DEF StoreMail, Dones, Schedules
    <3>3. s[n].cell \in Cells /\ f[s[n].cell] = b
      BY <2>2, <3>1, <3>2 DEF Mail, Current, Dones
    <3>4. s[i].type = "done" => ~Same(s[n], s[i])
      BY <2>2, <3>1 DEF Mail, Once
    <3>. QED
      BY <2>2, <3>1, <3>3, <3>4, <1>5 DEF Same
  <2>. QED
    BY <2>1, <2>2 DEF Current
<1>7. Awaited(k, t, f1)
  <2>. SUFFICES ASSUME NEW c \in Cells, f1[c] # 0,
                       NEW n \in DOMAIN s, s[n].type = "done", s[n].cell = c, s[n].batch = f[c]
                PROVE  \E j \in DOMAIN t : t[j].type = "done" /\ t[j].cell = c /\ t[j].batch = f1[c]
    BY DEF Awaited, Mail
  <2>1. n # i /\ f1[c] = f[c]
    OBVIOUS
  <2>2. PICK j \in DOMAIN t : n = Past(i, j)
    BY <2>1, <1>2
  <2>. QED
    BY <2>1, <2>2, <1>2
<1>. QED
  BY <1>1, <1>3, <1>4, <1>6, <1>7 DEF Mail

\* The order in which a batch is sent has each of its cells, once.
LEMMA InOrderFacts ==
    ASSUME NEW S \in SUBSET Cells, NEW q \in InOrder(S)
    PROVE  /\ IsFiniteSet(S) /\ Cardinality(S) \in Nat
           /\ DOMAIN q = 1..Cardinality(S) /\ \A i \in DOMAIN q : q[i] \in S
           /\ \A c \in S : \E i \in DOMAIN q : q[i] = c
           /\ \A i, j \in DOMAIN q : i < j => q[i] < q[j]
           /\ \A i, j \in DOMAIN q : i # j => q[i] # q[j]
<1>1. IsFiniteSet(S) /\ Cardinality(S) \in Nat
  <2>1. IsFiniteSet(Cells)
    BY LoopAssumption, FS_Interval DEF Cells
  <2>2. IsFiniteSet(S)
    BY <2>1, FS_Subset
  <2>. QED
    BY <2>2, FS_CardinalityType
<1>2. DOMAIN q = 1..Cardinality(S) /\ \A i \in DOMAIN q : q[i] \in S
  BY DEF InOrder
<1>3. \A c \in S : \E i \in DOMAIN q : q[i] = c
  BY DEF InOrder, Range
<1>4. \A i, j \in DOMAIN q : i < j => q[i] < q[j]
  BY DEF InOrder
<1>5. \A i, j \in DOMAIN q : i # j => q[i] # q[j]
  <2>1. \A i, j \in DOMAIN q : i # j => i < j \/ j < i
    BY <1>1, <1>2
  <2>2. \A c, d \in S : c < d => c # d
    BY LoopAssumption DEF Cells
  <2>. QED
    BY <2>1, <2>2, <1>2, <1>4
<1>. QED
  BY <1>1, <1>2, <1>3, <1>4, <1>5

\* The execute requests of batch b, and the channel with them.
Requests(q, b) == [i \in DOMAIN q |-> [type |-> "exec", cell |-> q[i],
                                       batch |-> b, aborted |-> FALSE]]

\* l is k with the n requests of batch b behind it, in the order q.
Sent(l, k, q, b, n) ==
    /\ Len(k) \in Nat /\ DOMAIN k = 1..Len(k) /\ l \in Seq(KernelMail)
    /\ Len(l) = Len(k) + n /\ DOMAIN l = 1..(Len(k) + n)
    /\ \A i \in 1..Len(k) : l[i] = k[i]
    /\ \A i \in (Len(k) + 1)..(Len(k) + n) :
          /\ i - Len(k) \in DOMAIN q
          /\ l[i].type = "exec" /\ l[i].cell = q[i - Len(k)] /\ l[i].batch = b
    /\ \A i \in (Len(k) + 1)..(Len(k) + n) : ~l[i].aborted

\* The requests of a batch are put behind what is under way.
LEMMA RequestsFacts ==
    ASSUME NEW k \in Seq(KernelMail), NEW S \in SUBSET Cells, NEW q \in InOrder(S),
           NEW b \in Nat, NEW l, l = k \o Requests(q, b)
    PROVE  Sent(l, k, q, b, Cardinality(S))
<1>. DEFINE r == Requests(q, b)
            n == Cardinality(S)
<1>1. /\ n \in Nat /\ DOMAIN q = 1..n /\ \A i \in 1..n : q[i] \in Cells
  BY InOrderFacts
<1>2. /\ \A i \in 1..n : r[i] = [type |-> "exec", cell |-> q[i], batch |-> b, aborted |-> FALSE]
      /\ DOMAIN r = 1..n
  BY <1>1 DEF Requests
<1>3. \A i \in 1..n : r[i] \in KernelMail
  <2>1. \A i \in 1..n : [type |-> "exec", cell |-> q[i], batch |-> b, aborted |-> FALSE] \in Execs
    BY <1>1 DEF Execs
  <2>. QED
    BY <2>1, <1>2 DEF KernelMail
<1>4. r = [i \in 1..n |-> r[i]]
  BY <1>1 DEF Requests
<1>. HIDE DEF r, n
<1>5. r \in Seq(KernelMail) /\ Len(r) = n
  BY <1>1, <1>2, <1>3, <1>4
<1>6. Len(k) \in Nat /\ DOMAIN k = 1..Len(k)
  BY LenProperties
<1>7. /\ l \in Seq(KernelMail) /\ Len(l) = Len(k) + n
      /\ \A i \in 1..(Len(k) + n) : l[i] = IF i <= Len(k) THEN k[i] ELSE r[i - Len(k)]
  BY <1>5, ConcatProperties DEF r
<1>8. DOMAIN l = 1..(Len(k) + n)
  BY <1>7, LenProperties
<1>9. \A i \in 1..Len(k) : l[i] = k[i]
  BY <1>1, <1>6, <1>7
<1>10. ASSUME NEW i \in (Len(k) + 1)..(Len(k) + n)
       PROVE  /\ i - Len(k) \in 1..n /\ l[i].type = "exec" /\ l[i].cell = q[i - Len(k)]
              /\ l[i].batch = b /\ ~l[i].aborted
  <2>1. i - Len(k) \in 1..n /\ i \in 1..(Len(k) + n) /\ ~(i <= Len(k))
    BY <1>1, <1>6
  <2>2. l[i] = r[i - Len(k)]
    BY <2>1, <1>7
  <2>. QED
    BY <2>1, <2>2, <1>2
<1>. QED
  BY <1>1, <1>6, <1>7, <1>8, <1>9, <1>10 DEF n, Sent

\* A batch is sent, and the cells it runs wait for it from now on.
LEMMA MailSubmitted ==
    ASSUME NEW k \in Seq(KernelMail), NEW s \in Seq(StoreMail), NEW b \in Nat,
           NEW f \in [Cells -> 0..b], NEW S \in SUBSET Cells, S # {}, NEW q \in InOrder(S),
           NEW f1, f1 = [c \in Cells |-> IF c \in S THEN b + 1 ELSE f[c]],
           Mail(k, s, f, b)
    PROVE  Mail(k \o Requests(q, b + 1), s, f1, b + 1)
<1>1. PICK l : l = k \o Requests(q, b + 1)
  OBVIOUS
<1>2. PICK n \in Nat : n = Cardinality(S)
  <2>1. Cardinality(S) \in Nat
    BY InOrderFacts
  <2>. QED
    BY <2>1
<1>15. PICK b1 \in Nat : b1 = b + 1
  OBVIOUS
<1>16. l = k \o Requests(q, b1)
  BY <1>1, <1>15
<1>18. Sent(l, k, q, b1, Cardinality(S))
  BY <1>15, <1>16, RequestsFacts
<1>17. Sent(l, k, q, b1, n)
  BY <1>18, <1>2
<1>3. /\ Len(k) \in Nat /\ DOMAIN k = 1..Len(k)
      /\ Len(l) = Len(k) + n /\ DOMAIN l = 1..(Len(k) + n)
      /\ \A i \in 1..Len(k) : l[i] = k[i]
  BY <1>17 DEF Sent
<1>4. \A i \in (Len(k) + 1)..(Len(k) + n) :
         /\ i - Len(k) \in DOMAIN q
         /\ l[i].type = "exec" /\ l[i].cell = q[i - Len(k)] /\ l[i].batch = b + 1
  <2>1. \A i \in (Len(k) + 1)..(Len(k) + n) :
           /\ i - Len(k) \in DOMAIN q
           /\ l[i].type = "exec" /\ l[i].cell = q[i - Len(k)] /\ l[i].batch = b1
    BY <1>17 DEF Sent
  <2>. QED
    BY <2>1, <1>15
<1>5. /\ DOMAIN q = 1..n /\ (\A i \in 1..n : q[i] \in S)
      /\ \A c \in S : \E i \in 1..n : q[i] = c
  <2>1. /\ DOMAIN q = 1..Cardinality(S) /\ \A i \in DOMAIN q : q[i] \in S
        /\ \A c \in S : \E i \in DOMAIN q : q[i] = c
    BY InOrderFacts
  <2>. QED
    BY <2>1, <1>2
<1>6. \A i, j \in 1..n : i # j => q[i] # q[j]
  <2>1. \A i, j \in DOMAIN q : i # j => q[i] # q[j]
    BY InOrderFacts
  <2>. QED
    BY <2>1, <1>5
<1>7. \A i \in DOMAIN l : i \in 1..Len(k) \/ i \in (Len(k) + 1)..(Len(k) + n)
  BY <1>3
<1>8. n >= 1
  BY <1>5
<1>9. /\ \A i \in DOMAIN k : k[i].type = "exec" => k[i].batch \in 1..b
      /\ \A i \in DOMAIN s : s[i].type = "done" => s[i].batch \in 1..b
  BY DEF Mail, Known
<1>10. Known(l, s, b + 1)
  <2>1. ASSUME NEW i \in DOMAIN l, l[i].type = "exec" PROVE l[i].batch \in 1..(b + 1)
    <3>1. CASE i \in 1..Len(k)
      <4>1. l[i].batch \in 1..b
        BY <2>1, <3>1, <1>3, <1>9
      <4>. QED
        BY <4>1
    <3>2. CASE i \in (Len(k) + 1)..(Len(k) + n)
      BY <3>2, <1>4
    <3>. QED
      BY <3>1, <3>2, <1>7
  <2>2. ASSUME NEW j \in DOMAIN s, s[j].type = "done" PROVE s[j].batch \in 1..(b + 1)
    <3>1. s[j].batch \in 1..b
      BY <2>2, <1>9
    <3>. QED
      BY <3>1
  <2>. QED
    BY <2>1, <2>2 DEF Known
<1>11. LatestLast(l, b + 1)
  <2>1. Len(k) + n \in (Len(k) + 1)..(Len(k) + n) /\ \A i \in DOMAIN l : Len(k) + n \in i..Len(l)
    BY <1>3, <1>8
  <2>. QED
    BY <2>1, <1>4 DEF LatestLast
<1>12. Once(l, s)
  <2>1. ASSUME NEW i \in DOMAIN l, NEW j \in DOMAIN l, i < j,
               l[i].type = "exec", l[j].type = "exec"
        PROVE  ~Same(l[i], l[j])
    <3>1. CASE j \in 1..Len(k)
      <4>1. i \in 1..Len(k) /\ i # j
        BY <2>1, <3>1, <1>3
      <4>. QED
        BY <2>1, <3>1, <4>1, <1>3 DEF Mail, Once
    <3>2. CASE j \in (Len(k) + 1)..(Len(k) + n) /\ i \in 1..Len(k)
      BY <2>1, <3>2, <1>3, <1>4, <1>9 DEF Same
    <3>3. CASE j \in (Len(k) + 1)..(Len(k) + n) /\ i \in (Len(k) + 1)..(Len(k) + n)
      <4>1. i - Len(k) \in 1..n /\ j - Len(k) \in 1..n /\ i - Len(k) # j - Len(k)
        BY <2>1, <3>3, <1>3
      <4>2. q[i - Len(k)] # q[j - Len(k)]
        BY <4>1, <1>6
      <4>. QED
        BY <4>2, <3>3, <1>4 DEF Same
    <3>. QED
      BY <3>1, <3>2, <3>3, <1>7
  <2>2. ASSUME NEW i \in DOMAIN l, NEW j \in DOMAIN s, l[i].type = "exec", s[j].type = "done"
        PROVE  ~Same(l[i], s[j])
    <3>1. CASE i \in 1..Len(k)
      BY <2>2, <3>1, <1>3 DEF Mail, Once
    <3>2. CASE i \in (Len(k) + 1)..(Len(k) + n)
      BY <2>2, <3>2, <1>4, <1>9 DEF Same
    <3>. QED
      BY <3>1, <3>2, <1>7
  <2>3. \A m, o : Same(m, o) <=> Same(o, m)
    BY DEF Same
  <2>4. \A i, j \in DOMAIN l : i # j => i < j \/ j < i
    BY <1>3
  <2>5. \A i, j \in DOMAIN s :
          i # j /\ s[i].type = "done" /\ s[j].type = "done" => ~Same(s[i], s[j])
    BY DEF Mail, Once
  <2>. QED
    BY <2>1, <2>2, <2>3, <2>4, <2>5 DEF Once
<1>13. Current(l, s, f1, b + 1)
  <2>1. ASSUME NEW i \in DOMAIN l, l[i].type = "exec", l[i].batch = b + 1
        PROVE  f1[l[i].cell] = b + 1
    <3>1. i \in (Len(k) + 1)..(Len(k) + n)
      BY <2>1, <1>3, <1>7, <1>9
    <3>2. l[i].cell \in S
      BY <3>1, <1>4, <1>5
    <3>. QED
      BY <3>2
  <2>2. ASSUME NEW j \in DOMAIN s, s[j].type = "done", s[j].batch = b + 1
        PROVE  FALSE
    BY <2>2, <1>9
  <2>. QED
    BY <2>1, <2>2 DEF Current
<1>14. Awaited(l, s, f1)
  <2>1. ASSUME NEW c \in S
        PROVE  \E i \in DOMAIN l : l[i].type = "exec" /\ l[i].cell = c /\ l[i].batch = f1[c]
    <3>1. PICK i \in 1..n : q[i] = c
      BY <1>5
    <3>2. /\ Len(k) + i \in (Len(k) + 1)..(Len(k) + n) /\ Len(k) + i \in DOMAIN l
          /\ (Len(k) + i) - Len(k) = i
      BY <1>3
    <3>3. l[Len(k) + i].type = "exec" /\ l[Len(k) + i].cell = c /\ l[Len(k) + i].batch = b + 1
      BY <3>1, <3>2, <1>4
    <3>. QED
      BY <3>2, <3>3
  <2>2. ASSUME NEW c \in Cells, c \notin S, f1[c] # 0
        PROVE  \/ \E i \in DOMAIN l : l[i].type = "exec" /\ l[i].cell = c /\ l[i].batch = f1[c]
               \/ \E i \in DOMAIN s : s[i].type = "done" /\ s[i].cell = c /\ s[i].batch = f1[c]
    <3>1. f1[c] = f[c]
      BY <2>2
    <3>2. \A i \in DOMAIN k : i \in DOMAIN l /\ l[i] = k[i]
      BY <1>3
    <3>. QED
      BY <2>2, <3>1, <3>2 DEF Mail, Awaited
  <2>. QED
    BY <2>1, <2>2 DEF Awaited
<1>. QED
  BY <1>1, <1>10, <1>11, <1>12, <1>13, <1>14 DEF Mail

-----------------------------------------------------------------------------
(* What the batches count.                                                 *)

\* Any set of cells is finite.
LEMMA CellsFinite ==
    ASSUME NEW S, S \subseteq Cells
    PROVE  IsFiniteSet(S) /\ Cardinality(S) \in Nat
<1>1. IsFiniteSet(Cells)
  BY LoopAssumption, FS_Interval DEF Cells
<1>2. IsFiniteSet(S)
  BY <1>1, FS_Subset
<1>. QED
  BY <1>2, FS_CardinalityType

\* Batch b counts one less, which bs1, f1 and n show.
Landing(bs, n, b, bs1, f1) ==
    /\ b \in DOMAIN bs /\ bs[b].left \in Nat \ {0} /\ n \in Nat
    /\ bs1 \in Seq(Batch) /\ Len(bs1) = Len(bs)
    /\ bs[b].plain => bs[b].left = 1 /\ n # 0
    /\ b = Len(bs) /\ bs[b].left # 1 => InFlight(f1, Len(bs))
    /\ Counts(bs1, f1, IF bs[b].plain THEN n - 1 ELSE n)

\* A cell's execution finishes, and its batch still waited for it: the batch counts
\* one less, and if that cell was run plainly nothing is left of its batch.
LEMMA CountsLanded ==
    ASSUME NEW bs \in Seq(Batch), NEW f \in [Cells -> 0..Len(bs)], NEW n, Counts(bs, f, n),
           NEW c \in Cells, NEW b, b = f[c], b # 0,
           NEW bs1, bs1 = [bs EXCEPT ![b].left = @ - 1],
           NEW f1, f1 = [f EXCEPT ![c] = 0]
    PROVE  Landing(bs, n, b, bs1, f1)
<1>1. Len(bs) \in Nat /\ DOMAIN bs = 1..Len(bs) /\ b \in 1..Len(bs)
  BY LenProperties
<1>2. \A d \in 1..Len(bs) : bs[d] \in Batch
  BY ElementOfSeq
<1>3. bs[b].left \in Nat /\ bs[b] \in Batch
  BY <1>1, <1>2 DEF Batch
<1>4. \A g, d : Waits(g, d) \subseteq Cells
  BY DEF Waits
<1>5. \A g, d : IsFiniteSet(Waits(g, d)) /\ Cardinality(Waits(g, d)) \in Nat
  BY <1>4, CellsFinite
<1>6. c \in Waits(f, b) /\ Waits(f1, b) = Waits(f, b) \ {c}
  BY <1>1 DEF Waits
<1>7. Cardinality(Waits(f1, b)) = Cardinality(Waits(f, b)) - 1
  BY <1>5, <1>6, FS_RemoveElement
<1>8. Cardinality(Waits(f, b)) <= bs[b].left /\ bs[b].left \in Nat \ {0}
  BY <1>1, <1>3, <1>5, <1>7 DEF Counts
<1>9. \A d \in 1..Len(bs) : d # b => Waits(f1, d) = Waits(f, d)
  BY <1>1 DEF Waits
<1>10. [bs[b] EXCEPT !.left = @ - 1] \in Batch
  <2>1. bs[b].left - 1 \in Nat
    BY <1>8
  <2>. QED
    BY <2>1, <1>3 DEF Batch
<1>11. bs1 = [bs EXCEPT ![b] = [bs[b] EXCEPT !.left = @ - 1]]
  BY <1>1
<1>12. /\ bs1 \in Seq(Batch) /\ Len(bs1) = Len(bs) /\ DOMAIN bs1 = 1..Len(bs)
       /\ \A d \in 1..Len(bs) : bs1[d] = IF d = b THEN [bs[b] EXCEPT !.left = @ - 1] ELSE bs[d]
  BY <1>1, <1>10, <1>11, ExceptSeq, LenProperties
<1>13. /\ bs1[b].left = bs[b].left - 1 /\ bs1[b].plain = bs[b].plain
       /\ \A d \in 1..Len(bs) : d # b => bs1[d] = bs[d]
  BY <1>1, <1>3, <1>12 DEF Batch
<1>14. \A d \in 1..Len(bs) : bs1[d].plain = bs[d].plain
  BY <1>13
<1>15. bs[b].plain => bs[b].left = 1
  BY <1>1, <1>8 DEF Counts
<1>16. bs1[Len(bs)].left = Cardinality(Waits(f1, Len(bs)))
  <2>1. bs[Len(bs)].left = Cardinality(Waits(f, Len(bs)))
    BY <1>1 DEF Counts
  <2>2. CASE b = Len(bs)
    BY <2>1, <2>2, <1>7, <1>13
  <2>3. CASE b # Len(bs)
    <3>1. Len(bs) \in 1..Len(bs)
      BY <1>1
    <3>2. bs1[Len(bs)] = bs[Len(bs)] /\ Waits(f1, Len(bs)) = Waits(f, Len(bs))
      BY <3>1, <2>3, <1>9, <1>13
    <3>. QED
      BY <2>1, <3>2
  <2>. QED
    BY <2>2, <2>3
<1>17. ASSUME NEW d \in 1..Len(bs)
       PROVE  /\ Cardinality(Waits(f1, d)) <= bs1[d].left
              /\ bs1[d].plain => bs1[d].left <= 1
  <2>1. /\ Cardinality(Waits(f, d)) <= bs[d].left
        /\ bs[d].plain => bs[d].left <= 1
    BY <1>1 DEF Counts
  <2>2. CASE d = b
    BY <2>1, <2>2, <1>3, <1>5, <1>7, <1>13
  <2>3. CASE d # b
    BY <2>1, <2>3, <1>9, <1>13
  <2>. QED
    BY <2>2, <2>3
<1>. DEFINE P == PlainRuns(f, bs)
            P1 == PlainRuns(f1, bs1)
<1>18. IsFiniteSet(P) /\ Cardinality(P) \in Nat /\ n = Cardinality(P)
  BY CellsFinite DEF PlainRuns, Counts
<1>19. P1 = P \ {c}
  <2>1. ASSUME NEW d \in Cells PROVE d \in P1 <=> d \in P /\ d # c
    <3>1. CASE d = c
      BY <3>1 DEF PlainRuns
    <3>2. CASE d # c
      <4>1. f1[d] = f[d] /\ f[d] \in 0..Len(bs)
        BY <3>2
      <4>2. f[d] # 0 => bs1[f[d]].plain = bs[f[d]].plain
        BY <4>1, <1>1, <1>14
      <4>. QED
        BY <4>1, <4>2, <3>2 DEF PlainRuns
    <3>. QED
      BY <3>1, <3>2
  <2>. QED
    BY <2>1 DEF PlainRuns
<1>20. c \in P <=> bs[b].plain
  BY DEF PlainRuns
<1>. HIDE DEF P, P1
<1>21. Cardinality(P1) = IF c \in P THEN Cardinality(P) - 1 ELSE Cardinality(P)
  BY <1>18, <1>19, FS_RemoveElement
<1>22. IsFiniteSet(P1) /\ Cardinality(P1) \in Nat
  BY CellsFinite DEF P1, PlainRuns
<1>23. bs[b].plain => n # 0
  BY <1>18, <1>20, <1>21, <1>22
<1>24. ASSUME b = Len(bs), bs[b].left # 1 PROVE InFlight(f1, Len(bs))
  <2>1. Waits(f1, b) # {}
    <3>1. Cardinality(Waits(f1, b)) = bs[b].left - 1
      BY <1>24, <1>13, <1>16
    <3>2. Cardinality(Waits(f1, b)) # 0
      BY <3>1, <1>8, <1>24
    <3>. QED
      BY <3>2, FS_EmptySet
  <2>. QED
    BY <2>1, <1>24, <1>1 DEF Waits, InFlight
<1>25. Counts(bs1, f1, IF bs[b].plain THEN n - 1 ELSE n)
  <2>1. Cardinality(P1) = IF bs[b].plain THEN n - 1 ELSE n
    BY <1>18, <1>20, <1>21
  <2>. QED
    BY <2>1, <1>12, <1>16, <1>17 DEF Counts, P1
<1>. QED
  BY <1>1, <1>8, <1>12, <1>15, <1>18, <1>23, <1>24, <1>25 DEF Landing

\* There are m batches, and what they count is right.
Counted(bs, f, n, m) ==
    /\ bs \in Seq(Batch) /\ Len(bs) = m
    /\ f \in [Cells -> 0..Len(bs)] /\ n \in 0..Len(bs)
    /\ Counts(bs, f, n)

\* A batch is sent: it counts its cells, and what it cancels is not counted as
\* being run plainly any longer.
LEMMA CountsSubmitted ==
    ASSUME NEW bs \in Seq(Batch), NEW f \in [Cells -> 0..Len(bs)], NEW n, Counts(bs, f, n),
           NEW S \in SUBSET Cells, NEW plain \in BOOLEAN, NEW chosen \in 0..N,
           plain => Cardinality(S) = 1, n <= Len(bs),
           NEW bs1, bs1 = Append(bs, [plain |-> plain, left |-> Cardinality(S), chosen |-> chosen]),
           NEW f1, f1 = [c \in Cells |-> IF c \in S THEN Len(bs) + 1 ELSE f[c]],
           NEW n1, n1 = n + (IF plain THEN 1 ELSE 0)
                          - Cardinality({c \in S : f[c] # 0 /\ bs[f[c]].plain})
    PROVE  Counted(bs1, f1, n1, Len(bs) + 1)
<1>. DEFINE e == [plain |-> plain, left |-> Cardinality(S), chosen |-> chosen]
            C == {c \in S : f[c] # 0 /\ bs[f[c]].plain}
            P == PlainRuns(f, bs)
            P1 == PlainRuns(f1, bs1)
<1>1. Len(bs) \in Nat /\ DOMAIN bs = 1..Len(bs)
  BY LenProperties
<1>2. IsFiniteSet(S) /\ Cardinality(S) \in Nat
  BY CellsFinite
<1>3. e \in Batch
  BY <1>2 DEF Batch
<1>4. /\ bs1 \in Seq(Batch) /\ Len(bs1) = Len(bs) + 1 /\ DOMAIN bs1 = 1..(Len(bs) + 1)
      /\ \A d \in 1..(Len(bs) + 1) : bs1[d] = IF d <= Len(bs) THEN bs[d] ELSE e
  BY <1>3, AppendFacts
<1>5. /\ bs1[Len(bs) + 1].left = Cardinality(S) /\ bs1[Len(bs) + 1].plain = plain
      /\ \A d \in 1..Len(bs) : bs1[d] = bs[d]
  BY <1>1, <1>4
<1>6. f1 \in [Cells -> 0..Len(bs1)]
  BY <1>1, <1>4
<1>7. \A g, d : IsFiniteSet(Waits(g, d)) /\ Cardinality(Waits(g, d)) \in Nat
  BY CellsFinite DEF Waits
<1>8. Waits(f1, Len(bs) + 1) = S
  BY <1>1 DEF Waits
<1>9. \A d \in 1..Len(bs) : Waits(f1, d) \subseteq Waits(f, d)
  BY <1>1 DEF Waits
<1>10. ASSUME NEW d \in 1..(Len(bs) + 1)
       PROVE  /\ Cardinality(Waits(f1, d)) <= bs1[d].left
              /\ bs1[d].plain => bs1[d].left <= 1
  <2>1. CASE d = Len(bs) + 1
    BY <2>1, <1>2, <1>5, <1>8
  <2>2. CASE d \in 1..Len(bs)
    <3>1. Cardinality(Waits(f1, d)) <= Cardinality(Waits(f, d))
      BY <2>2, <1>7, <1>9, FS_Subset
    <3>2. Cardinality(Waits(f, d)) <= bs[d].left /\ (bs[d].plain => bs[d].left <= 1)
      BY <2>2, <1>1 DEF Counts
    <3>3. bs[d].left \in Nat
      <4>1. bs[d] \in Batch
        BY <2>2, ElementOfSeq
      <4>. QED
        BY <4>1 DEF Batch
    <3>. QED
      BY <3>1, <3>2, <3>3, <2>2, <1>5, <1>7
  <2>. QED
    BY <2>1, <2>2, <1>1
<1>11. P \subseteq Cells /\ P1 \subseteq Cells /\ C \subseteq Cells /\ n = Cardinality(P)
  BY DEF PlainRuns, Counts
<1>12. /\ IsFiniteSet(P) /\ IsFiniteSet(P1) /\ Cardinality(P) \in Nat
       /\ Cardinality(P1) \in Nat /\ Cardinality(C) \in Nat
  BY <1>11, CellsFinite
<1>13. P \cap S = C
  BY DEF PlainRuns
<1>14. P1 = (P \ S) \cup (IF plain THEN S ELSE {})
  <2>1. ASSUME NEW c \in Cells, c \in S PROVE c \in P1 <=> plain
    BY <2>1, <1>1, <1>5 DEF PlainRuns
  <2>2. ASSUME NEW c \in Cells, c \notin S PROVE c \in P1 <=> c \in P
    <3>1. f1[c] = f[c] /\ f[c] \in 0..Len(bs)
      BY <2>2
    <3>2. f[c] # 0 => bs1[f[c]] = bs[f[c]]
      BY <3>1, <1>1, <1>5
    <3>. QED
      BY <3>1, <3>2 DEF PlainRuns
  <2>. QED
    BY <2>1, <2>2, <1>11
<1>. HIDE DEF P, P1, C
<1>15. IsFiniteSet(P \ S) /\ Cardinality(P \ S) = n - Cardinality(C)
  BY <1>11, <1>12, <1>13, FS_Difference
<1>16. Cardinality(P1) = n + (IF plain THEN 1 ELSE 0) - Cardinality(C)
  <2>1. CASE ~plain
    <3>1. P1 = P \ S
      BY <2>1, <1>14
    <3>. QED
      BY <2>1, <3>1, <1>11, <1>12, <1>15
  <2>2. CASE plain
    <3>1. P1 = (P \ S) \cup S /\ (P \ S) \cap S = {}
      BY <2>2, <1>14
    <3>2. Cardinality(P1) = Cardinality(P \ S) + Cardinality(S) - Cardinality((P \ S) \cap S)
      BY <3>1, <1>2, <1>15, FS_Union
    <3>3. Cardinality((P \ S) \cap S) = 0
      BY <3>1, FS_EmptySet
    <3>. QED
      BY <2>2, <3>2, <3>3, <1>11, <1>12, <1>15
  <2>. QED
    BY <2>1, <2>2
<1>17. n1 = Cardinality(P1)
  BY <1>16 DEF C
<1>18. n1 \in 0..Len(bs1)
  BY <1>1, <1>4, <1>11, <1>12, <1>16, <1>17
<1>19. Counts(bs1, f1, n1)
  <2>1. bs1[Len(bs1)].left = Cardinality(Waits(f1, Len(bs1)))
    BY <1>4, <1>5, <1>8
  <2>. QED
    BY <2>1, <1>4, <1>10, <1>17 DEF Counts, P1
<1>. QED
  BY <1>4, <1>6, <1>18, <1>19 DEF Counted

-----------------------------------------------------------------------------
(* What is owed and what was announced.                                    *)

\* As long as an execution waits in the channel, the latest batch is not over.
LEMMA ExecIsOwed ==
    ASSUME Types, Mail(toKernel, toStore, flight, Len(batches)),
           NEW i \in DOMAIN toKernel, toKernel[i].type = "exec"
    PROVE  InFlight(flight, Len(batches))
<1>1. PICK j \in i..Len(toKernel) : toKernel[j].type = "exec" /\ toKernel[j].batch = Len(batches)
  BY DEF Mail, LatestLast
<1>2. j \in DOMAIN toKernel /\ toKernel[j] \in KernelMail
  BY <1>1, LenProperties, ElementOfSeq DEF Types
<1>3. flight[toKernel[j].cell] = Len(batches) /\ Len(batches) \in 1..Len(batches)
  BY <1>1, <1>2 DEF Mail, Current, Known
<1>4. toKernel[j].cell \in Cells
  BY <1>1, <1>2 DEF KernelMail, Execs
<1>. QED
  BY <1>3, <1>4 DEF InFlight

\* Which cells are ready depends on the edges and on what has run.
LEMMA ReadyKept ==
    ASSUME edges' = edges, ctr' = ctr
    PROVE  Ready' = Ready /\ Waiting' = Waiting
  BY DEF Ready, Waiting, OutOfDate, Below, Closed

\* The schedule that is last in the queue is the latest.
LEMMA LatestAdded ==
    ASSUME NEW s \in Seq(StoreMail), NEW m \in Schedules, NEW sh
    PROVE  /\ Announced(Append(s, m))
           /\ Latest(Append(s, m), sh, m.ready, m.waiting)
<1>. DEFINE t == Append(s, m)
<1>1. m \in StoreMail /\ m.type = "schedule"
  BY DEF StoreMail, Schedules
<1>2. /\ Len(s) \in Nat /\ DOMAIN t = 1..(Len(s) + 1)
      /\ \A i \in 1..(Len(s) + 1) : t[i] = IF i <= Len(s) THEN s[i] ELSE m
  BY <1>1, AppendFacts
<1>. HIDE DEF t
<1>3. Len(s) + 1 \in DOMAIN t /\ t[Len(s) + 1] = m /\ \A i \in DOMAIN t : i <= Len(s) + 1
  BY <1>2
<1>4. \A i \in DOMAIN t : i # Len(s) + 1 => Len(s) + 1 > i
  BY <1>2
<1>5. Announced(t)
  BY <1>1, <1>3 DEF Announced
<1>6. Latest(t, sh, m.ready, m.waiting)
  BY <1>1, <1>3, <1>4, <1>5 DEF Latest
<1>. QED
  BY <1>5, <1>6 DEF t

\* A reply that arrives changes nothing about what was announced.
LEMMA LatestOfReply ==
    ASSUME NEW s \in Seq(StoreMail), NEW i \in DOMAIN s, s[i].type = "done",
           NEW sh, NEW r, NEW w
    PROVE  /\ Announced(s) => Announced(RemoveAt(s, i))
           /\ Latest(s, sh, r, w) => Latest(RemoveAt(s, i), sh, r, w)
<1>1. PICK t : t = RemoveAt(s, i)
  OBVIOUS
<1>2. /\ \A j \in DOMAIN t : Past(i, j) \in DOMAIN s \ {i} /\ t[j] = s[Past(i, j)]
      /\ \A j, l \in DOMAIN t : j < l => Past(i, j) < Past(i, l)
      /\ \A n \in DOMAIN s \ {i} : \E j \in DOMAIN t : n = Past(i, j)
      /\ Len(s) \in Nat /\ DOMAIN s = 1..Len(s) /\ DOMAIN t = 1..(Len(s) - 1)
  BY <1>1, LeftFacts
<1>3. Announced(s) <=> Announced(t)
  BY <1>2 DEF Announced
<1>4. ASSUME NEW j \in DOMAIN t, t[j].type = "schedule", Latest(s, sh, r, w),
             \A l \in DOMAIN t : l > j => t[l].type # "schedule"
      PROVE  t[j].ready = r /\ t[j].waiting = w
  <2>1. PICK n \in DOMAIN s : n = Past(i, j) /\ n # i /\ t[j] = s[n]
    BY <1>2
  <2>2. ASSUME NEW o \in DOMAIN s, o > n PROVE s[o].type # "schedule"
    <3>1. CASE o = i
      BY <3>1
    <3>2. CASE o # i
      <4>1. PICK l \in DOMAIN t : o = Past(i, l) /\ t[l] = s[o]
        BY <3>2, <1>2
      <4>2. l > j
        BY <4>1, <2>1, <2>2, <1>2
      <4>. QED
        BY <4>1, <4>2, <1>4
    <3>. QED
      BY <3>1, <3>2
  <2>. QED
    BY <2>1, <2>2, <1>4 DEF Latest
<1>. QED
  BY <1>1, <1>3, <1>4 DEF Latest

\* Schedules arrive in order: when the first one is shown, the last one under way,
\* or else what is shown, is still the latest.
LEMMA LatestOfSchedule ==
    ASSUME NEW s \in Seq(StoreMail), NEW i \in DOMAIN s, s[i].type = "schedule",
           \A j \in 1..(i - 1) : s[j].type = "done",
           NEW sh, NEW sh1, sh1 = Shown(s[i]), NEW r, NEW w, Latest(s, sh, r, w)
    PROVE  Latest(RemoveAt(s, i), sh1, r, w)
<1>1. PICK t : t = RemoveAt(s, i)
  OBVIOUS
<1>2. /\ \A j \in DOMAIN t : Past(i, j) \in DOMAIN s \ {i} /\ t[j] = s[Past(i, j)]
      /\ \A j, l \in DOMAIN t : j < l => Past(i, j) < Past(i, l)
      /\ \A n \in DOMAIN s \ {i} : \E j \in DOMAIN t : n = Past(i, j)
      /\ Len(s) \in Nat /\ DOMAIN s = 1..Len(s) /\ DOMAIN t = 1..(Len(s) - 1)
  BY <1>1, LeftFacts
<1>3. ASSUME ~Announced(t) PROVE sh1.ready = r /\ sh1.waiting = w
  <2>1. ASSUME NEW o \in DOMAIN s, o > i PROVE s[o].type # "schedule"
    <3>1. PICK l \in DOMAIN t : o = Past(i, l) /\ t[l] = s[o]
      BY <2>1, <1>2
    <3>. QED
      BY <3>1, <1>3 DEF Announced
  <2>3. \A o \in DOMAIN s : o > i => s[o].type # "schedule"
    BY <2>1
  <2>2. s[i].ready = r /\ s[i].waiting = w
    BY <2>3 DEF Latest
  <2>. QED
    BY <2>2 DEF Shown
<1>4. ASSUME NEW j \in DOMAIN t, t[j].type = "schedule",
             \A l \in DOMAIN t : l > j => t[l].type # "schedule"
      PROVE  t[j].ready = r /\ t[j].waiting = w
  <2>1. PICK n \in DOMAIN s : n = Past(i, j) /\ n # i /\ t[j] = s[n]
    BY <1>2
  <2>2. ASSUME NEW o \in DOMAIN s, o > n PROVE s[o].type # "schedule"
    <3>1. CASE o = i
      <4>1. n \in 1..(i - 1)
        BY <3>1, <2>2, <1>2
      <4>2. s[n].type = "done"
        BY <4>1
      <4>. QED
        BY <4>2, <2>1, <1>4
    <3>2. CASE o # i
      <4>1. PICK l \in DOMAIN t : o = Past(i, l) /\ t[l] = s[o]
        BY <3>2, <1>2
      <4>2. l > j
        BY <4>1, <2>1, <2>2, <1>2
      <4>. QED
        BY <4>1, <4>2, <1>4
    <3>. QED
      BY <3>1, <3>2
  <2>. QED
    BY <2>1, <2>2, <1>4 DEF Latest
<1>. QED
  BY <1>1, <1>3, <1>4 DEF Latest

-----------------------------------------------------------------------------
(* The steps.                                                              *)

\* Sending a batch keeps what the channels and the batches hold together, and owes
\* a schedule.
LEMMA Submitted ==
    ASSUME Types, Counts(batches, flight, inProgress),
           NEW s \in Seq(StoreMail), Mail(toKernel, s, flight, Len(batches)),
           NEW S \in SUBSET Cells, S # {}, NEW plain \in BOOLEAN, NEW chosen \in 0..N,
           plain => Cardinality(S) = 1,
           Submit(S, plain, chosen)
    PROVE  /\ toKernel' \in Seq(KernelMail) /\ batches' \in Seq(Batch)
           /\ flight' \in [Cells -> 0..Len(batches')] /\ inProgress' \in 0..Len(batches')
           /\ ticks' \in Nat /\ Owed'
           /\ Mail(toKernel', s, flight', Len(batches'))
           /\ Counts(batches', flight', inProgress')
<1>. DEFINE b == Len(batches)
<1>1. /\ toKernel \in Seq(KernelMail) /\ batches \in Seq(Batch) /\ b \in Nat
      /\ flight \in [Cells -> 0..b] /\ inProgress \in 0..b /\ ticks \in Nat
  BY LenProperties DEF Types
<1>2. /\ batches' = Append(batches, [plain |-> plain, left |-> Cardinality(S), chosen |-> chosen])
      /\ flight' = [c \in Cells |-> IF c \in S THEN b + 1 ELSE flight[c]]
      /\ inProgress' = inProgress + (IF plain THEN 1 ELSE 0)
                         - Cardinality({c \in S : flight[c] # 0 /\ batches[flight[c]].plain})
      /\ ticks' \in {ticks, ticks + 1}
  BY DEF Submit
<1>3. PICK q \in InOrder(S) : toKernel' = toKernel \o Requests(q, b + 1)
  BY DEF Submit, Requests
<1>4. /\ batches' \in Seq(Batch) /\ Len(batches') = b + 1
      /\ flight' \in [Cells -> 0..Len(batches')] /\ inProgress' \in 0..Len(batches')
      /\ Counts(batches', flight', inProgress')
  <2>1. inProgress <= Len(batches)
    BY <1>1
  <2>2. PICK bs1, f1, n1 : bs1 = batches' /\ f1 = flight' /\ n1 = inProgress'
    OBVIOUS
  <2>3. /\ bs1 = Append(batches, [plain |-> plain, left |-> Cardinality(S), chosen |-> chosen])
        /\ f1 = [c \in Cells |-> IF c \in S THEN Len(batches) + 1 ELSE flight[c]]
        /\ n1 = inProgress + (IF plain THEN 1 ELSE 0)
                  - Cardinality({c \in S : flight[c] # 0 /\ batches[flight[c]].plain})
    BY <2>2, <1>2
  <2>4. Counted(bs1, f1, n1, Len(batches) + 1)
    BY <2>1, <2>3, <1>1, CountsSubmitted
  <2>. QED
    BY <2>2, <2>4 DEF Counted
<1>5. b + 1 \in Nat
  BY <1>1
<1>6. Mail(toKernel', s, flight', Len(batches'))
  BY <1>1, <1>2, <1>3, <1>4, MailSubmitted
<1>7. toKernel' \in Seq(KernelMail)
  <2>1. Sent(toKernel', toKernel, q, b + 1, Cardinality(S))
    BY <1>1, <1>3, <1>5, RequestsFacts
  <2>. QED
    BY <2>1 DEF Sent
<1>8. InFlight(flight', Len(batches'))
  BY <1>1, <1>2, <1>4 DEF InFlight
<1>. QED
  BY <1>1, <1>2, <1>4, <1>6, <1>7, <1>8 DEF Owed

\* An execution that is taken off the channel leaves one that the latest batch waits
\* for, whether those behind it are aborted or not.
LEMMA RunStep ==
    ASSUME Inv, NEW fails \in BOOLEAN, Run(fails) PROVE Inv'
<1>. DEFINE k == toKernel
            m == k[1]
<1>1. /\ k \in Seq(KernelMail) /\ k # << >> /\ Head(k) = m /\ m.type = "exec"
      /\ toStore \in Seq(StoreMail) /\ flight \in [Cells -> Nat] /\ Len(batches) \in Nat
      /\ flight \in [Cells -> 0..Len(batches)]
  BY LenProperties, TailFacts DEF Inv, Types, Run, Received
<1>2. m \in Execs
  <2>1. m \in KernelMail
    BY <1>1, TailFacts
  <2>. QED
    BY <2>1, <1>1 DEF KernelMail, Execs
<1>3. Reply(m) \in Dones /\ Same(Reply(m), m)
  BY <1>2 DEF Reply, Dones, Execs, Same
<1>4. Tail(k) \in Seq(KernelMail) /\ DOMAIN Tail(k) = 1..(Len(k) - 1) /\ Len(Tail(k)) = Len(k) - 1
      /\ \A i \in 1..(Len(k) - 1) : Tail(k)[i] = k[i + 1]
  BY <1>1, TailFacts
<1>5. Taken(k, Tail(k))
  BY <1>4 DEF Taken, Same
<1>6. Aborted(Tail(k)) \in Seq(KernelMail) /\ Taken(k, Aborted(Tail(k)))
  <2>. DEFINE t == Tail(k)
              a == Aborted(t)
              n == Len(k) - 1
  <2>1. n \in Nat /\ DOMAIN t = 1..n
    BY <1>1, <1>4, TailFacts
  <2>2. /\ a = [i \in 1..n |-> a[i]] /\ DOMAIN a = 1..n
        /\ \A i \in 1..n : a[i] = IF t[i].type = "exec" THEN [t[i] EXCEPT !.aborted = TRUE] ELSE t[i]
    BY <2>1 DEF Aborted
  <2>3. \A i \in 1..n : t[i] \in KernelMail
    BY <2>1, <1>4, ElementOfSeq
  <2>. HIDE DEF t, a, n
  <2>4. ASSUME NEW i \in 1..n
        PROVE  /\ a[i] \in KernelMail /\ a[i].type = t[i].type
               /\ a[i].type = "exec" => Same(a[i], t[i])
    <3>1. CASE t[i].type = "exec"
      <4>1. t[i] \in Execs
        BY <3>1, <2>3 DEF KernelMail, Execs
      <4>2. [t[i] EXCEPT !.aborted = TRUE] \in Execs
        BY <4>1 DEF Execs
      <4>3. a[i] \in Execs /\ a[i] = [t[i] EXCEPT !.aborted = TRUE]
        BY <3>1, <4>2, <2>2
      <4>4. a[i].type = t[i].type /\ a[i].cell = t[i].cell /\ a[i].batch = t[i].batch
        BY <4>1, <4>3 DEF Execs
      <4>. QED
        BY <4>3, <4>4 DEF KernelMail, Same
    <3>2. CASE t[i].type # "exec"
      BY <3>2, <2>2, <2>3
    <3>. QED
      BY <3>1, <3>2
  <2>5. \A i \in 1..n : a[i] \in KernelMail
    BY <2>4
  <2>6. a \in Seq(KernelMail) /\ Len(a) = n
    BY <2>1, <2>2, <2>5
  <2>7. \A i \in 1..n : t[i] = k[i + 1]
    BY <1>4 DEF t, n
  <2>8. \A i \in 1..n : a[i].type = k[i + 1].type
    BY <2>4, <2>7
  <2>9. \A i \in 1..n : a[i].type = "exec" => Same(a[i], k[i + 1])
    BY <2>4, <2>7
  <2>. QED
    BY <2>2, <2>6, <2>8, <2>9 DEF Taken, a, t, n
<1>7. toKernel' \in Seq(KernelMail) /\ Taken(k, toKernel')
  BY <1>4, <1>5, <1>6 DEF Run
<1>8. toStore' = Append(toStore, Reply(m)) /\ UNCHANGED <<flight, batches, inProgress, ticks>>
  BY <1>1 DEF Run, execs
<1>9. Mail(toKernel', toStore', flight', Len(batches'))
  <2>1. Mail(toKernel', Append(toStore, Reply(m)), flight, Len(batches))
    BY <1>1, <1>3, <1>7, MailRun DEF Inv
  <2>. QED
    BY <2>1, <1>8
<1>10. Owed'
  <2>1. InFlight(flight, Len(batches))
    BY <1>1, ExecIsOwed, TailFacts DEF Inv
  <2>. QED
    BY <2>1, <1>8 DEF Owed
<1>11. Types'
  <2>1. Reply(m) \in StoreMail
    BY <1>3 DEF StoreMail
  <2>2. toStore' \in Seq(StoreMail)
    BY <1>1, <1>8, <2>1, AppendFacts
  <2>3. m.cell \in Cells
    BY <1>2 DEF Execs
  <2>4. /\ counter' \in Nat /\ ctr' \in [Cells -> 1..counter'] /\ minNew' \in 1..(counter' + 1)
        /\ last' \in Cells /\ wasReady' \subseteq Cells
        /\ failed' \in BOOLEAN /\ checked' \in BOOLEAN
    <3>1. /\ counter \in Nat /\ ctr \in [Cells -> 1..counter] /\ minNew \in 1..(counter + 1)
          /\ wasReady \subseteq Cells
      BY DEF Inv, Types
    <3>2. /\ ctr' = [ctr EXCEPT ![m.cell] = counter + 1] /\ counter' = counter + 1
          /\ minNew' = minNew /\ last' = m.cell /\ wasReady' = wasReady \ {m.cell}
          /\ failed' = fails /\ checked' = FALSE
      BY <1>1 DEF Run
    <3>3. ctr' \in [Cells -> 1..(counter + 1)]
      <4>1. 1..counter \subseteq 1..(counter + 1) /\ counter + 1 \in 1..(counter + 1)
        BY <3>1
      <4>2. ctr \in [Cells -> 1..(counter + 1)]
        BY <4>1, <3>1
      <4>. QED
        BY <4>1, <4>2, <3>2
    <3>4. minNew' \in 1..(counter' + 1) /\ counter' \in Nat
      <4>1. counter \in Nat /\ minNew \in 1..(counter + 1)
        BY <3>1
      <4>2. minNew \in 1..((counter + 1) + 1) /\ counter + 1 \in Nat
        BY <4>1
      <4>. QED
        BY <4>2, <3>2
    <3>. QED
      BY <2>3, <3>1, <3>2, <3>3, <3>4
  <2>. QED
    BY <1>7, <2>2, <2>4 DEF Inv, Types, Run, settings, execs, loop
<1>12. Counts(batches', flight', inProgress')
  BY <1>8 DEF Inv
<1>. QED
  BY <1>9, <1>10, <1>11, <1>12 DEF Inv, View, Idle

\* An execution that was aborted is answered like one that ran.
LEMMA AbortStep == ASSUME Inv, Abort PROVE Inv'
<1>. DEFINE k == toKernel
            m == k[1]
<1>1. /\ k \in Seq(KernelMail) /\ k # << >> /\ Head(k) = m /\ m.type = "exec"
      /\ toStore \in Seq(StoreMail) /\ flight \in [Cells -> Nat] /\ Len(batches) \in Nat
      /\ flight \in [Cells -> 0..Len(batches)]
  BY LenProperties, TailFacts DEF Inv, Types, Abort, Received
<1>2. m \in Execs
  <2>1. m \in KernelMail
    BY <1>1, TailFacts
  <2>. QED
    BY <2>1, <1>1 DEF KernelMail, Execs
<1>3. Reply(m) \in Dones /\ Same(Reply(m), m)
  BY <1>2 DEF Reply, Dones, Execs, Same
<1>4. Tail(k) \in Seq(KernelMail) /\ DOMAIN Tail(k) = 1..(Len(k) - 1) /\ Len(Tail(k)) = Len(k) - 1
      /\ \A i \in 1..(Len(k) - 1) : Tail(k)[i] = k[i + 1]
  BY <1>1, TailFacts
<1>5. Taken(k, Tail(k))
  BY <1>4 DEF Taken, Same
<1>8. /\ toStore' = Append(toStore, Reply(m)) /\ toKernel' = Tail(k)
      /\ UNCHANGED <<flight, batches, inProgress, ticks>>
  BY <1>1 DEF Abort, execs
<1>9. Mail(toKernel', toStore', flight', Len(batches'))
  <2>1. Mail(Tail(k), Append(toStore, Reply(m)), flight, Len(batches))
    BY <1>1, <1>3, <1>4, <1>5, MailRun DEF Inv
  <2>. QED
    BY <2>1, <1>8
<1>10. Owed'
  <2>1. InFlight(flight, Len(batches))
    BY <1>1, ExecIsOwed, TailFacts DEF Inv
  <2>. QED
    BY <2>1, <1>8 DEF Owed
<1>11. Types'
  <2>1. Reply(m) \in StoreMail
    BY <1>3 DEF StoreMail
  <2>2. toStore' \in Seq(StoreMail)
    BY <1>1, <1>8, <2>1, AppendFacts
  <2>. QED
    BY <1>4, <1>8, <2>2 DEF Inv, Types, Abort, settings, kernel, execs, loop
<1>12. Counts(batches', flight', inProgress')
  BY <1>8 DEF Inv
<1>. QED
  BY <1>9, <1>10, <1>11, <1>12 DEF Inv, View, Idle

\* The kernel answers with what is ready and waiting now.
LEMMA AnswerStep == ASSUME Inv, Answer PROVE Inv'
<1>. DEFINE k == toKernel
<1>1. /\ k \in Seq(KernelMail) /\ k # << >> /\ k[1].type # "exec"
      /\ toStore \in Seq(StoreMail) /\ flight \in [Cells -> Nat] /\ Len(batches) \in Nat
      /\ flight \in [Cells -> 0..Len(batches)]
  BY LenProperties, TailFacts DEF Inv, Types, Answer, Received
<1>2. Tail(k) \in Seq(KernelMail) /\ DOMAIN Tail(k) = 1..(Len(k) - 1) /\ Len(Tail(k)) = Len(k) - 1
      /\ \A i \in 1..(Len(k) - 1) : Tail(k)[i] = k[i + 1]
  BY <1>1, TailFacts
<1>3. Taken(k, Tail(k))
  BY <1>2 DEF Taken, Same
<1>4. Ready \subseteq Cells /\ Waiting \subseteq Cells /\ \A w : NewReady(w) \subseteq Ready
  <2>1. edges \subseteq Cells \X Cells
    BY DEF Inv, Types
  <2>. QED
    BY <2>1 DEF Ready, Waiting, OutOfDate, NewReady
<1>5. PICK new \in SUBSET Cells :
         toStore' = Append(toStore, [type |-> "schedule", last |-> last, failed |-> failed,
                                     ready |-> Ready, waiting |-> Waiting, new |-> new])
  <2>. DEFINE first == ~Head(toKernel).reactive /\ ~checked
              new == IF schedule = "dag_based" THEN {}
                     ELSE NewReady(IF first THEN Ready ELSE wasReady)
  <2>1. new \in SUBSET Cells
    BY <1>4
  <2>2. toStore' = Append(toStore, [type |-> "schedule", last |-> last, failed |-> failed,
                                    ready |-> Ready, waiting |-> Waiting, new |-> new])
    BY DEF Answer
  <2>. QED
    BY <2>1, <2>2
<1>6. PICK m : m = [type |-> "schedule", last |-> last, failed |-> failed,
                    ready |-> Ready, waiting |-> Waiting, new |-> new]
  OBVIOUS
<1>7. m \in Schedules /\ m.ready = Ready /\ m.waiting = Waiting
  BY <1>4, <1>5, <1>6 DEF Schedules, Inv, Types
<1>8. /\ toStore' = Append(toStore, m) /\ toKernel' = Tail(k) /\ checked' \in BOOLEAN
      /\ wasReady' = Ready
      /\ UNCHANGED <<settings, ctr, counter, minNew, last, failed, execs, loop, acts, excused>>
  <2>1. checked' \in BOOLEAN
    BY DEF Answer, Inv, Types
  <2>. QED
    BY <1>5, <1>6, <2>1 DEF Answer
<1>9. Mail(toKernel', toStore', flight', Len(batches'))
  <2>1. Mail(Tail(k), toStore, flight, Len(batches))
    BY <1>1, <1>2, <1>3, MailTaken DEF Inv
  <2>2. Mail(Tail(k), Append(toStore, m), flight, Len(batches))
    BY <2>1, <1>1, <1>7, MailAnnounced
  <2>. QED
    BY <2>2, <1>8 DEF execs
<1>10. Types'
  <2>1. m \in StoreMail
    BY <1>7 DEF StoreMail
  <2>2. toStore' \in Seq(StoreMail)
    BY <2>1, <1>1, <1>8, AppendFacts
  <2>. QED
    BY <1>2, <1>4, <1>8, <2>2 DEF Inv, Types, settings, execs, loop
<1>11. Counts(batches', flight', inProgress')
  BY <1>8 DEF Inv, execs
<1>12. View' /\ Idle'
  <2>1. /\ Announced(toStore')
        /\ Latest(toStore', shown, Ready, Waiting)
    BY <1>1, <1>7, <1>8, LatestAdded
  <2>2. Ready' = Ready /\ Waiting' = Waiting /\ shown' = shown
    BY <1>8, ReadyKept DEF settings, loop
  <2>. QED
    BY <2>1, <2>2 DEF View, Idle
<1>. QED
  BY <1>9, <1>10, <1>11, <1>12 DEF Inv

\* A clean-up changes nothing about what is owed.
LEMMA CleanUpStep == ASSUME Inv, CleanUp PROVE Inv'
<1>. DEFINE k == toKernel
<1>1. /\ k \in Seq(KernelMail) /\ k # << >> /\ k[1].type = "cleanup"
      /\ flight \in [Cells -> Nat] /\ Len(batches) \in Nat
      /\ flight \in [Cells -> 0..Len(batches)]
  BY LenProperties, TailFacts DEF Inv, Types, CleanUp, Received
<1>2. Tail(k) \in Seq(KernelMail) /\ DOMAIN Tail(k) = 1..(Len(k) - 1) /\ Len(Tail(k)) = Len(k) - 1
      /\ \A i \in 1..(Len(k) - 1) : Tail(k)[i] = k[i + 1]
  BY <1>1, TailFacts
<1>3. Taken(k, Tail(k))
  BY <1>2 DEF Taken, Same
<1>4. /\ toKernel' = Tail(k) /\ minNew' = counter + 1
      /\ UNCHANGED <<settings, ctr, counter, wasReady, checked, last, failed, toStore,
                     execs, loop, acts, excused>>
  BY DEF CleanUp
<1>5. Mail(toKernel', toStore', flight', Len(batches'))
  <2>1. Mail(Tail(k), toStore, flight, Len(batches))
    BY <1>1, <1>2, <1>3, MailTaken DEF Inv
  <2>. QED
    BY <2>1, <1>4 DEF execs
<1>6. Types'
  <2>1. counter + 1 \in 1..(counter + 1)
    BY DEF Inv, Types
  <2>. QED
    BY <1>2, <1>4, <2>1 DEF Inv, Types, settings, execs, loop
<1>7. Counts(batches', flight', inProgress')
  BY <1>4 DEF Inv, execs
<1>8. Asked(k) => Asked(Tail(k))
  <2>1. ASSUME NEW i \in DOMAIN k, k[i].type = "request"
        PROVE  \E j \in DOMAIN Tail(k) : Tail(k)[j].type = "request"
    <3>1. i \in 2..Len(k)
      BY <2>1, <1>1, TailFacts
    <3>2. i - 1 \in 1..(Len(k) - 1) /\ (i - 1) + 1 = i
      BY <3>1
    <3>. QED
      BY <2>1, <3>2, <1>2
  <2>. QED
    BY <2>1 DEF Asked
<1>9. Owed => Owed'
  BY <1>4, <1>8 DEF Owed, execs
<1>10. View' /\ Idle'
  <2>1. Ready' = Ready /\ Waiting' = Waiting
    BY <1>4, ReadyKept DEF settings
  <2>. QED
    BY <2>1, <1>4, <1>9 DEF Inv, View, Idle, loop
<1>. QED
  BY <1>5, <1>6, <1>7, <1>10 DEF Inv

\* A request that is sent is owed.
LEMMA AskStep ==
    ASSUME Inv, toKernel' = Append(toKernel, Request), ticks' \in Nat, acts' \in 0..MaxActs,
           UNCHANGED <<settings, kernel, toStore, batches, flight, inProgress, loop>>
    PROVE  Inv'
<1>1. Request \in KernelMail /\ Request.type = "request"
  BY DEF Inv, Types, Request, KernelMail
<1>2. /\ toKernel' \in Seq(KernelMail) /\ Asked(toKernel')
      /\ Mail(toKernel', toStore', flight', Len(batches'))
  <2>1. toKernel \in Seq(KernelMail) /\ Len(batches) \in Nat
    BY LenProperties DEF Inv, Types
  <2>2. /\ Append(toKernel, Request) \in Seq(KernelMail)
        /\ Len(toKernel) + 1 \in DOMAIN Append(toKernel, Request)
        /\ Append(toKernel, Request)[Len(toKernel) + 1] = Request
    BY <2>1, <1>1, AppendFacts
  <2>3. Mail(Append(toKernel, Request), toStore, flight, Len(batches))
    BY <2>1, <1>1, MailPosted DEF Inv
  <2>. QED
    BY <2>2, <2>3, <1>1 DEF Asked
<1>3. Owed'
  BY <1>2 DEF Owed
<1>4. Types'
  BY <1>2 DEF Inv, Types, settings, kernel, loop
<1>5. Counts(batches', flight', inProgress')
  BY DEF Inv
<1>. QED
  BY <1>2, <1>3, <1>4, <1>5 DEF Inv, View, Idle

\* A reply arrives.  If its batch still waited for it, the batch counts one less;
\* the last reply of the latest batch leads to a request.
LEMMA FinishedStep == ASSUME Inv, NEW i \in DOMAIN toStore, Finished(i) PROVE Inv'
<1>. DEFINE B == Len(batches)
            over(b) == batches[b].left = 1
<1>1. /\ toKernel \in Seq(KernelMail) /\ toStore \in Seq(StoreMail) /\ batches \in Seq(Batch)
      /\ B \in Nat /\ flight \in [Cells -> 0..B] /\ flight \in [Cells -> Nat]
      /\ inProgress \in 0..B /\ ticks \in Nat
  BY LenProperties DEF Inv, Types
<1>2. PICK m : m = toStore[i]
  OBVIOUS
<1>3. PICK b : b = m.batch
  OBVIOUS
<1>4. m \in Dones /\ m.type = "done" /\ m.cell \in Cells /\ b \in 1..B
  <2>1. m \in StoreMail /\ m.type = "done"
    BY <1>1, <1>2, LenProperties, ElementOfSeq DEF Finished
  <2>2. b \in 1..B
    BY <2>1, <1>2, <1>3 DEF Inv, Mail, Known
  <2>. QED
    BY <2>1, <2>2 DEF StoreMail, Dones, Schedules
<1>5. /\ toStore' = RemoveAt(toStore, i)
      /\ UNCHANGED <<settings, kernel, newReady, episode, shown, acts>>
      /\ reactive' = (reactive /\ (flight[m.cell] = b /\ over(b) => batches[b].plain))
  BY <1>2, <1>3 DEF Finished, Arrives
<1>6. toStore' \in Seq(StoreMail)
  BY <1>1, <1>5, RemoveAtFacts
<1>7. Ready' = Ready /\ Waiting' = Waiting
  BY <1>5, ReadyKept DEF settings, kernel
<1>8. Request \in KernelMail /\ Request.type = "request"
  BY DEF Inv, Types, Request, KernelMail
<1>9. /\ Append(toKernel, Request) \in Seq(KernelMail) /\ Asked(Append(toKernel, Request))
  <2>1. /\ Append(toKernel, Request) \in Seq(KernelMail)
        /\ Len(toKernel) + 1 \in DOMAIN Append(toKernel, Request)
        /\ Append(toKernel, Request)[Len(toKernel) + 1] = Request
    BY <1>1, <1>8, AppendFacts
  <2>. QED
    BY <2>1, <1>8 DEF Asked
<1>10. \* What the execution channel, the requests and the batches become.
       /\ toKernel' \in Seq(KernelMail) /\ Mail(toKernel', toStore', flight', Len(batches'))
       /\ batches' \in Seq(Batch) /\ Len(batches') = B /\ flight' \in [Cells -> 0..B]
       /\ inProgress' \in 0..B /\ ticks' \in Nat
       /\ Counts(batches', flight', inProgress')
       /\ Owed => Owed'
  <2>1. CASE flight[m.cell] # b
    <3>1. UNCHANGED <<toKernel, flight, batches, inProgress, ticks>>
      BY <2>1, <1>2, <1>3 DEF Finished
    <3>2. Mail(toKernel, RemoveAt(toStore, i), flight, B)
      BY <2>1, <1>1, <1>2, <1>3, <1>4, MailArrived DEF Inv
    <3>3. Owed => Owed'
      BY <3>1 DEF Owed
    <3>. QED
      BY <3>1, <3>2, <3>3, <1>1, <1>5 DEF Inv
  <2>2. CASE flight[m.cell] = b
    <3>1. /\ flight' = [flight EXCEPT ![m.cell] = 0]
          /\ batches' = [batches EXCEPT ![b].left = @ - 1]
          /\ inProgress' = IF over(b) /\ batches[b].plain THEN inProgress - 1 ELSE inProgress
          /\ toKernel' = IF over(b) /\ batches[b].plain /\ inProgress = 1
                         THEN Append(toKernel, Request) ELSE toKernel
          /\ ticks' = IF over(b) /\ ~batches[b].plain THEN ticks + 1 ELSE ticks
      BY <2>2, <1>2, <1>3 DEF Finished, Landed
    <3>2. PICK bs1, f1 : bs1 = batches' /\ f1 = flight'
      OBVIOUS
    <3>3. /\ batches[b].left \in Nat \ {0} /\ inProgress \in Nat
          /\ bs1 \in Seq(Batch) /\ Len(bs1) = B
          /\ batches[b].plain => batches[b].left = 1 /\ inProgress # 0
          /\ b = B /\ batches[b].left # 1 => InFlight(f1, B)
          /\ Counts(bs1, f1, IF batches[b].plain THEN inProgress - 1 ELSE inProgress)
      <4>1. b = flight[m.cell] /\ b # 0
        BY <2>2, <1>4
      <4>2. bs1 = [batches EXCEPT ![b].left = @ - 1] /\ f1 = [flight EXCEPT ![m.cell] = 0]
        BY <3>1, <3>2
      <4>3. Counts(batches, flight, inProgress)
        BY DEF Inv
      <4>4. Landing(batches, inProgress, b, bs1, f1)
        BY <4>1, <4>2, <4>3, <1>1, <1>4, CountsLanded
      <4>. QED
        BY <4>4 DEF Landing
    <3>4. inProgress' = IF batches[b].plain THEN inProgress - 1 ELSE inProgress
      BY <3>1, <3>3
    <3>5. flight' \in [Cells -> 0..B] /\ flight' \in [Cells -> Nat]
      <4>1. 0 \in 0..B /\ 0..B \subseteq Nat
        BY <1>1
      <4>2. flight' \in [Cells -> 0..B]
        BY <4>1, <3>1, <1>1
      <4>. QED
        BY <4>1, <4>2
    <3>6. Mail(toKernel, RemoveAt(toStore, i), flight', B)
      <4>1. f1 \in [Cells -> Nat] /\ f1[m.cell] = 0 /\ \A c \in Cells : c # m.cell => f1[c] = flight[c]
        BY <3>1, <3>2, <3>5, <1>1, <1>4
      <4>2. Mail(toKernel, toStore, flight, B)
        BY DEF Inv
      <4>3. /\ \A c \in Cells : f1[c] # flight[c] =>
                  f1[c] = 0 /\ toStore[i].type = "done" /\ c = toStore[i].cell
                            /\ flight[c] = toStore[i].batch
            /\ f1[toStore[i].cell] = 0
        BY <4>1, <2>2, <1>2, <1>3, <1>4
      <4>4. Mail(toKernel, RemoveAt(toStore, i), f1, B)
        BY <4>1, <4>2, <4>3, <1>1, MailArrived
      <4>. QED
        BY <4>4, <3>2
    <3>7. Mail(Append(toKernel, Request), RemoveAt(toStore, i), flight', B)
      BY <3>6, <1>1, <1>8, MailPosted
    <3>8. Owed => Owed'
      <4>1. CASE toKernel' # toKernel
        BY <4>1, <3>1, <1>9 DEF Owed
      <4>2. CASE toKernel' = toKernel /\ (ticks > 0 \/ Asked(toKernel))
        BY <4>2, <3>1, <1>1 DEF Owed
      <4>3. CASE toKernel' = toKernel /\ inProgress > 0
        <5>1. CASE batches[b].plain /\ inProgress = 1
          <6>1. toKernel' = Append(toKernel, Request)
            BY <5>1, <3>1, <3>3
          <6>. QED
            BY <6>1, <1>9 DEF Owed
        <5>2. CASE ~(batches[b].plain /\ inProgress = 1)
          <6>1. inProgress' > 0
            BY <5>2, <4>3, <3>3, <3>4
          <6>. QED
            BY <6>1 DEF Owed
        <5>. QED
          BY <5>1, <5>2
      <4>4. CASE toKernel' = toKernel /\ ~(inProgress > 0) /\ InFlight(flight, B)
        <5>1. ~batches[b].plain
          BY <4>4, <3>3
        <5>2. PICK c \in Cells : flight[c] # 0 /\ flight[c] = B
          BY <4>4 DEF InFlight
        <5>3. CASE c # m.cell
          <6>1. flight'[c] # 0 /\ flight'[c] = Len(batches')
            BY <5>2, <5>3, <3>1, <3>2, <3>3, <1>1
          <6>2. InFlight(flight', Len(batches'))
            BY <6>1 DEF InFlight
          <6>. QED
            BY <6>2 DEF Owed
        <5>4. CASE c = m.cell /\ ~over(b)
          <6>1. InFlight(flight', Len(batches'))
            BY <5>2, <5>4, <2>2, <3>2, <3>3
          <6>. QED
            BY <6>1 DEF Owed
        <5>5. CASE over(b)
          <6>1. ticks' = ticks + 1
            BY <5>1, <5>5, <3>1
          <6>. QED
            BY <6>1, <1>1 DEF Owed
        <5>. QED
          BY <5>3, <5>4, <5>5
      <4>. QED
        BY <4>1, <4>2, <4>3, <4>4 DEF Owed
    <3>9. inProgress' \in 0..B /\ ticks' \in Nat
      <4>1. inProgress \in 0..B /\ ticks \in Nat /\ B \in Nat
        BY <1>1
      <4>2. inProgress - 1 \in 0..B \/ ~batches[b].plain
        BY <4>1, <3>3
      <4>3. inProgress' \in 0..B
        BY <4>1, <4>2, <3>4
      <4>4. ticks' \in Nat
        BY <4>1, <3>1
      <4>. QED
        BY <4>3, <4>4
    <3>10. toKernel' \in Seq(KernelMail) /\ Mail(toKernel', toStore', flight', B)
      BY <3>1, <3>6, <3>7, <1>1, <1>5, <1>9
    <3>11. /\ batches' \in Seq(Batch) /\ Len(batches') = B
           /\ Counts(batches', flight', inProgress')
      BY <3>2, <3>3, <3>4
    <3>. QED
      BY <3>5, <3>8, <3>9, <3>10, <3>11
  <2>. QED
    BY <2>1, <2>2
<1>11. Types'
  <2>1. reactive' \in BOOLEAN
    BY <1>5 DEF Inv, Types
  <2>. QED
    BY <2>1, <1>5, <1>6, <1>10 DEF Inv, Types, settings, kernel
<1>12. /\ Announced(toStore) => Announced(toStore')
       /\ Latest(toStore, shown, Ready, Waiting) => Latest(toStore', shown', Ready', Waiting')
  <2>1. toStore[i].type = "done"
    BY <1>2, <1>4
  <2>2. /\ Announced(toStore) => Announced(RemoveAt(toStore, i))
        /\ Latest(toStore, shown, Ready, Waiting) =>
              Latest(RemoveAt(toStore, i), shown, Ready, Waiting)
    BY <2>1, <1>1, LatestOfReply
  <2>. QED
    BY <2>2, <1>5, <1>7
<1>13. View' /\ Idle'
  <2>1. ~reactive => ~reactive'
    BY <1>5
  <2>. QED
    BY <2>1, <1>5, <1>10, <1>12 DEF Inv, View, Idle
<1>. QED
  BY <1>10, <1>11, <1>13 DEF Inv

\* What a command or a schedule calls for is cells of the notebook.
LEMMA ClosureCells == ASSUME NEW S, NEW T PROVE Closure(S, T) \subseteq Cells
  BY DEF Closure

\* A schedule arrives: what it calls for is submitted, and else the episode ends.
LEMMA ScheduleStep == ASSUME Inv, NEW i \in DOMAIN toStore, Schedule(i) PROVE Inv'
<1>. DEFINE B == Len(batches)
<1>1. /\ toKernel \in Seq(KernelMail) /\ toStore \in Seq(StoreMail)
      /\ B \in Nat /\ flight \in [Cells -> 0..B] /\ flight \in [Cells -> Nat]
      /\ newReady \subseteq Cells /\ episode \subseteq Cells
  BY LenProperties DEF Inv, Types
<1>2. PICK m : m = toStore[i]
  OBVIOUS
<1>3. m \in Schedules /\ m.type = "schedule" /\ i \in 1..Len(toStore) /\ Len(toStore) \in Nat
  <2>1. m \in StoreMail /\ m.type = "schedule" /\ i \in 1..Len(toStore) /\ Len(toStore) \in Nat
    BY <1>1, <1>2, LenProperties, ElementOfSeq DEF Schedule
  <2>. QED
    BY <2>1 DEF StoreMail, Dones, Schedules
<1>. DEFINE new == newReady \cup m.new
            run == episode \cup {m.last}
            Next1 == IF m.failed THEN {} ELSE IF Mode = "batch"
                     THEN NextBatch(m, new, run) ELSE NextOne(m, new, run)
<1>4. new \subseteq Cells /\ run \subseteq Cells /\ m.ready \subseteq Cells /\ m.waiting \subseteq Cells
  BY <1>1, <1>3 DEF Schedules
<1>5. Next1 \subseteq Cells
  BY <1>4, ClosureCells DEF NextBatch, NextOne
<1>6. PICK S : S = Next1
  OBVIOUS
<1>7. /\ toStore' = RemoveAt(toStore, i) /\ shown' = Shown(m)
      /\ UNCHANGED <<settings, kernel, acts>>
      /\ IF S = {} THEN EndEpisode(run) /\ UNCHANGED execs
         ELSE /\ Submit(S, FALSE, 0)
              /\ newReady' = new /\ reactive' = TRUE
              /\ episode' = IF Mode = "batch" THEN run \cup S ELSE run
  BY <1>2, <1>6 DEF Schedule, Arrives
<1>8. \A j \in 1..(i - 1) : toStore[j].type = "done"
  BY DEF Schedule, Arrives
<1>9. toStore' \in Seq(StoreMail) /\ Mail(toKernel, toStore', flight, B)
  <2>1. toStore' \in Seq(StoreMail)
    BY <1>1, <1>7, RemoveAtFacts
  <2>2. Mail(toKernel, RemoveAt(toStore, i), flight, B)
    BY <1>1, <1>2, <1>3, MailArrived DEF Inv
  <2>. QED
    BY <2>1, <2>2, <1>7
<1>10. shown' \in Shows
  BY <1>3, <1>7 DEF Shown, Shows, Schedules
<1>11. CASE S # {}
  <2>1. S \in SUBSET Cells /\ FALSE \in BOOLEAN /\ 0 \in 0..N /\ Submit(S, FALSE, 0)
    <3>1. S \in SUBSET Cells
      BY <1>5, <1>6
    <3>2. 0 \in 0..N
      BY LoopAssumption
    <3>. QED
      BY <3>1, <3>2, <1>7, <1>11
  <2>2. Types /\ Counts(batches, flight, inProgress)
    BY DEF Inv
  <2>3. /\ toKernel' \in Seq(KernelMail) /\ batches' \in Seq(Batch)
        /\ flight' \in [Cells -> 0..Len(batches')] /\ inProgress' \in 0..Len(batches')
        /\ ticks' \in Nat /\ Owed'
        /\ Mail(toKernel', toStore', flight', Len(batches'))
        /\ Counts(batches', flight', inProgress')
    BY <2>1, <2>2, <1>9, <1>11, Submitted
  <2>4. newReady' \subseteq Cells /\ episode' \subseteq Cells /\ reactive' \in BOOLEAN
    BY <1>4, <1>5, <1>6, <1>7, <1>11
  <2>5. Types'
    BY <2>3, <2>4, <1>7, <1>9, <1>10 DEF Inv, Types, settings, kernel
  <2>. QED
    BY <2>3, <2>5 DEF Inv, View, Idle
<1>12. CASE S = {}
  <2>1. /\ toKernel' = Append(toKernel, CleanUpRequest)
        /\ newReady' = {} /\ episode' = {} /\ reactive' = FALSE /\ UNCHANGED execs
    BY <1>7, <1>12 DEF EndEpisode
  <2>2. CleanUpRequest \in KernelMail /\ CleanUpRequest.type = "cleanup"
    BY DEF CleanUpRequest, KernelMail
  <2>3. /\ toKernel' \in Seq(KernelMail) /\ Mail(toKernel', toStore', flight', Len(batches'))
        /\ Asked(toKernel) => Asked(toKernel')
    <3>1. /\ Append(toKernel, CleanUpRequest) \in Seq(KernelMail)
          /\ \A j \in DOMAIN toKernel : /\ j \in DOMAIN Append(toKernel, CleanUpRequest)
                                        /\ Append(toKernel, CleanUpRequest)[j] = toKernel[j]
      BY <1>1, <2>2, AppendFacts
    <3>2. Mail(Append(toKernel, CleanUpRequest), toStore', flight, B)
      BY <2>2, <1>1, <1>9, MailPosted
    <3>. QED
      BY <3>1, <3>2, <2>1 DEF Asked, execs
  <2>4. Owed => Owed'
    BY <2>1, <2>3 DEF Owed, execs
  <2>5. Latest(toStore, shown, Ready, Waiting) => Latest(toStore', shown', Ready', Waiting')
    <3>1. Ready' = Ready /\ Waiting' = Waiting
      BY <1>7, ReadyKept DEF settings, kernel
    <3>2. PICK sh1 : sh1 = shown'
      OBVIOUS
    <3>3. Latest(toStore, shown, Ready, Waiting) =>
             Latest(RemoveAt(toStore, i), sh1, Ready, Waiting)
      BY <3>2, <1>1, <1>2, <1>3, <1>7, <1>8, LatestOfSchedule
    <3>. QED
      BY <3>1, <3>2, <3>3, <1>7
  <2>6. View' /\ Idle'
    BY <2>1, <2>4, <2>5 DEF Inv, View, Idle
  <2>7. Types'
    BY <2>1, <2>3, <1>7, <1>9, <1>10 DEF Inv, Types, settings, kernel, execs
  <2>8. Counts(batches', flight', inProgress')
    BY <2>1 DEF Inv, execs
  <2>. QED
    BY <2>3, <2>6, <2>7, <2>8 DEF Inv
<1>. QED
  BY <1>11, <1>12

\* Whatever the user runs is owed a schedule.
LEMMA SubmitStep ==
    ASSUME Inv, NEW S \in SUBSET Cells, S # {}, NEW plain \in BOOLEAN, NEW chosen \in 0..N,
           plain => Cardinality(S) = 1, Submit(S, plain, chosen),
           acts' \in 0..MaxActs, UNCHANGED <<settings, kernel, toStore, loop>>
    PROVE  Inv'
<1>1. Types /\ Counts(batches, flight, inProgress) /\ toStore \in Seq(StoreMail)
      /\ Mail(toKernel, toStore, flight, Len(batches))
  BY DEF Inv, Types
<1>2. /\ toKernel' \in Seq(KernelMail) /\ batches' \in Seq(Batch)
      /\ flight' \in [Cells -> 0..Len(batches')] /\ inProgress' \in 0..Len(batches')
      /\ ticks' \in Nat /\ Owed'
      /\ Mail(toKernel', toStore, flight', Len(batches'))
      /\ Counts(batches', flight', inProgress')
  BY <1>1, Submitted
<1>3. Types'
  BY <1>1, <1>2 DEF Types, settings, kernel, loop
<1>. QED
  BY <1>2, <1>3 DEF Inv, View, Idle

\* What the user does next is counted.
LEMMA ActsCounted == ASSUME Inv, Acts PROVE acts' \in 0..MaxActs
  BY LoopAssumption DEF Inv, Types, Acts

\* The commands of the user.
LEMMA UserStep == ASSUME Inv, UserNext PROVE Inv'
<1>1. shown.ready \subseteq Cells /\ shown.waiting \subseteq Cells /\ Cells \subseteq 0..N
  BY LoopAssumption DEF Inv, Types, Shows, Cells
<1>2. ASSUME NEW c \in Cells, RunCell(c) PROVE Inv'
  <2>1. acts' \in 0..MaxActs
    BY <1>2, ActsCounted DEF RunCell
  <2>2. CASE Mode = "batch" /\ RunBatch(Closure({c}, shown.ready \cup shown.waiting), c)
    BY <2>1, <2>2, <1>1, <1>2, ClosureCells, SubmitStep DEF RunBatch
  <2>3. CASE Submit({c}, TRUE, c) /\ UNCHANGED <<settings, kernel, toStore, loop>>
    <3>1. {c} \in SUBSET Cells /\ {c} # {} /\ Cardinality({c}) = 1 /\ c \in 0..N
      BY <1>1, <1>2, FS_Singleton
    <3>. QED
      BY <3>1, <2>1, <2>3, SubmitStep
  <2>. QED
    BY <2>2, <2>3, <1>2 DEF RunCell
<1>3. ASSUME NEW c \in Cells, RunAlone(c) PROVE Inv'
  <2>1. {c} \in SUBSET Cells /\ c \in 0..N /\ acts' \in 0..MaxActs
    BY <1>1, <1>3, ActsCounted DEF RunAlone
  <2>2. RunBatch({c}, c)
    BY <1>3 DEF RunAlone
  <2>. QED
    BY <2>1, <2>2, SubmitStep DEF RunBatch
<1>4. ASSUME RunReady PROVE Inv'
  <2>1. acts' \in 0..MaxActs /\ 0 \in 0..N
    BY <1>4, ActsCounted, LoopAssumption DEF RunReady
  <2>2. PICK S \in SUBSET Cells : RunBatch(S, 0)
    BY <1>1, <1>4, ClosureCells DEF RunReady
  <2>. QED
    BY <2>1, <2>2, SubmitStep DEF RunBatch
<1>5. ASSUME ShowTab PROVE Inv'
  <2>1. acts' \in 0..MaxActs /\ ticks' \in Nat
    BY <1>5, ActsCounted DEF ShowTab, execs, Inv, Types
  <2>. QED
    BY <2>1, <1>5, AskStep DEF ShowTab, execs
<1>. QED
  BY <1>2, <1>3, <1>4, <1>5 DEF UserNext

-----------------------------------------------------------------------------
(* The theorems.                                                           *)

\* A notebook that has been run from top to bottom has nothing out of date.
LEMMA NothingOutOfDate ==
    ASSUME edges \subseteq {e \in Cells \X Cells : e[1] < e[2]}, ctr = [c \in Cells |-> c]
    PROVE  OutOfDate = {} /\ Ready = {} /\ Waiting = {}
<1>1. \A c \in Cells : c \in Int
  BY LoopAssumption DEF Cells
<1>2. OutOfDate = {}
  BY <1>1 DEF OutOfDate
<1>3. Ready = {}
  BY <1>2 DEF Ready
<1>4. Below({}) = {}
  <2>1. Closed({})
    BY DEF Closed
  <2>. QED
    BY <2>1 DEF Below
<1>5. Waiting = {}
  BY <1>2, <1>4 DEF Waiting
<1>. QED
  BY <1>2, <1>3, <1>5

\* At the start nothing is under way.
LEMMA InitInv == ASSUME Init PROVE Inv
<1>1. /\ edges \subseteq Cells \X Cells /\ schedule \in ExecSchedules /\ env \in Envs
      /\ edges \subseteq {e \in Cells \X Cells : e[1] < e[2]}
  BY DEF Init
<1>2. /\ ctr \in [Cells -> 1..counter] /\ counter \in Nat /\ minNew \in 1..(counter + 1)
      /\ last \in Cells
  BY LoopAssumption DEF Init, Cells
<1>3. /\ toKernel = << >> /\ toStore = << >> /\ batches = << >>
      /\ flight = [c \in Cells |-> 0] /\ inProgress = 0 /\ ticks = 0 /\ acts = 0
      /\ newReady = {} /\ episode = {} /\ reactive = FALSE
      /\ shown = [ready |-> {}, waiting |-> {}] /\ wasReady = {} /\ checked = TRUE
      /\ failed = FALSE
  BY DEF Init
<1>4. Len(batches) = 0 /\ DOMAIN batches = {} /\ DOMAIN toKernel = {} /\ DOMAIN toStore = {}
  BY <1>3
<1>5. /\ toKernel \in Seq(KernelMail) /\ toStore \in Seq(StoreMail) /\ batches \in Seq(Batch)
      /\ flight \in [Cells -> 0..Len(batches)] /\ inProgress \in 0..Len(batches)
  BY <1>3, <1>4, EmptySeq
<1>6. Types
  <2>1. acts \in 0..MaxActs /\ ticks \in Nat
    BY <1>3, LoopAssumption
  <2>2. shown \in Shows
    BY <1>3 DEF Shows
  <2>3. /\ wasReady \subseteq Cells /\ newReady \subseteq Cells /\ episode \subseteq Cells
        /\ checked \in BOOLEAN /\ failed \in BOOLEAN /\ reactive \in BOOLEAN
    BY <1>3
  <2>. QED
    BY <1>1, <1>2, <1>5, <2>1, <2>2, <2>3 DEF Types
<1>7. Mail(toKernel, toStore, flight, Len(batches))
  BY <1>3, <1>4 DEF Mail, Known, LatestLast, Once, Current, Awaited
<1>8. Counts(batches, flight, inProgress)
  <2>1. PlainRuns(flight, batches) = {}
    BY <1>3 DEF PlainRuns
  <2>2. Cardinality({}) = 0
    BY FS_EmptySet
  <2>. QED
    BY <2>1, <2>2, <1>3, <1>4 DEF Counts
<1>9. View /\ Idle
  <2>1. Ready = {} /\ Waiting = {}
    BY <1>1, NothingOutOfDate DEF Init
  <2>2. ~Announced(toStore)
    BY <1>4 DEF Announced
  <2>. QED
    BY <2>1, <2>2, <1>3, <1>4 DEF View, Idle, Latest
<1>. QED
  BY <1>6, <1>7, <1>8, <1>9 DEF Inv

\* Every step of the kernel, the store and the user keeps the invariant.
LEMMA NextInv == ASSUME Inv, [Next]_vars PROVE Inv'
<1>1. ASSUME KernelNext PROVE Inv'
  BY <1>1, RunStep, AbortStep, AnswerStep, CleanUpStep DEF KernelNext
<1>2. ASSUME StoreNext PROVE Inv'
  <2>1. ASSUME Tick PROVE Inv'
    <3>1. ticks' \in Nat /\ acts' \in 0..MaxActs
      BY <2>1 DEF Tick, Inv, Types
    <3>. QED
      BY <3>1, <2>1, AskStep DEF Tick
  <2>. QED
    BY <2>1, <1>2, FinishedStep, ScheduleStep DEF StoreNext
<1>3. ASSUME UNCHANGED vars PROVE Inv'
  <2>1. Types'
    BY <1>3 DEF Inv, Types, vars, settings, kernel, execs, loop
  <2>2. Ready' = Ready /\ Waiting' = Waiting
    BY <1>3, ReadyKept DEF vars, settings, kernel
  <2>3. View' /\ Idle'
    BY <2>2, <1>3 DEF Inv, View, Idle, Owed, vars, execs, loop
  <2>. QED
    BY <2>1, <2>3, <1>3 DEF Inv, vars, execs
<1>. QED
  BY <1>1, <1>2, <1>3, UserStep DEF Next

\* The invariant holds in every state, however long the user goes on.
LEMMA Invariance == Spec => []Inv
<1>1. Init => Inv
  BY InitInv
<1>2. Inv /\ [Next]_vars => Inv'
  BY NextInv
<1>. QED
  BY <1>1, <1>2, PTL DEF Spec

\* The variables have their types and the three records of what is being executed
\* agree: a cell waits for the batch its latest request belongs to, a batch counts
\* the cells that wait for it, and nothing waits for an answer that will not come.
\* (CodeCell.execute, the futures of a batch and inProgressExecs.)
THEOREM TypeCorrect == Spec => []TypeOK
<1>1. ASSUME Inv PROVE TypeOK
  <2>1. /\ Types /\ Awaited(toKernel, toStore, flight)
        /\ \A b \in DOMAIN batches : Cardinality(Waits(flight, b)) <= batches[b].left
    BY <1>1 DEF Inv, Mail, Counts
  <2>2. ASSUME NEW c \in Cells, flight[c] # 0
        PROVE  \E m \in Range(toKernel) \cup Range(toStore) :
                  m.type \in {"exec", "done"} /\ m.cell = c /\ m.batch = flight[c]
    BY <2>1, <2>2 DEF Awaited, Range
  <2>3. shown.ready \cup shown.waiting \subseteq Cells
    BY <2>1 DEF Types, Shows
  <2>. QED
    BY <2>1, <2>2, <2>3 DEF Types, TypeOK, Waits
<1>. QED
  BY <1>1, Invariance, PTL

\* Once nothing is under way, nothing is owed.
LEMMA SettledOwesNothing == ASSUME Inv, Settled PROVE ~Owed /\ ~Announced(toStore) /\ inProgress = 0
<1>1. toKernel = << >> /\ toStore = << >> /\ ticks = 0 /\ DOMAIN toKernel = {} /\ DOMAIN toStore = {}
  BY DEF Settled
<1>2. \A c \in Cells : flight[c] = 0
  BY <1>1 DEF Inv, Mail, Awaited
<1>3. inProgress = 0
  <2>1. PlainRuns(flight, batches) = {}
    BY <1>2 DEF PlainRuns
  <2>. QED
    BY <2>1, FS_EmptySet DEF Inv, Counts
<1>. QED
  BY <1>1, <1>2, <1>3 DEF Owed, Asked, InFlight, Announced

\* Once everything has settled, no episode of reactive execution is left half open,
\* whichever executions were cancelled, aborted or overtaken on the way.
\* (The resets at the end of handleComputeExecSchedule.)
THEOREM NoEpisodeLeftOpen == Spec => []SettledIsIdle
<1>1. ASSUME Inv PROVE SettledIsIdle
  BY <1>1, SettledOwesNothing DEF SettledIsIdle, Inv, Idle
<1>. QED
  BY <1>1, Invariance, PTL

\* Once everything has settled, the cells shown as ready and waiting are those the
\* kernel has as such: the last batch always leads to another schedule, and
\* schedules are shown in the order in which they were made.
\* (The requests after a batch and when commands settle.)
THEOREM ViewIsCurrent == Spec => []SettledViewIsCurrent
<1>1. ASSUME Inv PROVE SettledViewIsCurrent
  BY <1>1, SettledOwesNothing DEF SettledViewIsCurrent, Inv, View, Latest
<1>. QED
  BY <1>1, Invariance, PTL

-----------------------------------------------------------------------------
(* Consistency.                                                            *)

\* Batch mode, and a user who waits before pressing the space bar: no execution
\* under way can then be mistaken for one of the cells shown as ready.
Orderly == Mode = "batch" /\ ~({"hurry", "stale"} \subseteq env)

\* k is toKernel, D the dependencies and v what ctr holds.  A cell that is out of
\* date is about to be run, before anything but executions, and the children of a
\* cell that will be run are run in the same way after it.
AllExecs(k, i, j) == \A l \in i..j : k[l].type = "exec"
Owing(k, D, v) ==
    \A e \in D : v[e[1]] > v[e[2]] =>
        \E j \in DOMAIN k : k[j].cell = e[2] /\ AllExecs(k, 1, j)
Chained(k, D) ==
    \A e \in D, i \in DOMAIN k : k[i].type = "exec" /\ k[i].cell = e[1] =>
        \E j \in DOMAIN k : i < j /\ k[j].cell = e[2] /\ AllExecs(k, i, j)
Unaborted(k) == \A i \in DOMAIN k : k[i].type = "exec" => ~k[i].aborted
\* No schedule calls for anything.
Quiet(s) == \A i \in DOMAIN s : s[i].type = "schedule" =>
                s[i].ready = {} /\ s[i].waiting = {} /\ s[i].new = {}
Downward(D) == \A e \in D : e \in Cells \X Cells /\ e[1] < e[2]
Planned == Owing(toKernel, edges, ctr) /\ Chained(toKernel, edges) /\ Unaborted(toKernel)
Consistent ==
    /\ Downward(edges)
    /\ Orderly /\ excused = {} => Planned /\ newReady = {} /\ Quiet(toStore)

\* A set of naturals has a least element.
LEMMA MinExists ==
    ASSUME NEW S \in SUBSET Nat, S # {}
    PROVE  \E m \in S : \A k \in S : m <= k
<1>. DEFINE T == {0..k : k \in S}
<1>1. T \subseteq FiniteSubsetsOf(Nat) /\ T # {}
  <2>1. \A k \in S : IsFiniteSet(0..k) /\ 0..k \in SUBSET Nat
    BY FS_Interval
  <2>. QED
    BY <2>1 DEF FiniteSubsetsOf
<1>2. PICK t \in T : \A u \in T : ~(<<u, t>> \in StrictSubsetOrdering(Nat))
  BY <1>1, FS_StrictSubsetOrderingWellFounded, WFMin
<1>3. PICK m \in S : t = 0..m
  OBVIOUS
<1>4. ASSUME NEW k \in S PROVE m <= k
  <2>1. ~(<<0..k, 0..m>> \in StrictSubsetOrdering(Nat))
    BY <1>2, <1>3
  <2>2. k < m => 0..k \subseteq 0..m /\ m \notin 0..k /\ m \in 0..m
    OBVIOUS
  <2>3. 0..k \in SUBSET Nat /\ 0..m \in SUBSET Nat
    OBVIOUS
  <2>. QED
    BY <2>1, <2>2, <2>3 DEF StrictSubsetOrdering
<1>. QED
  BY <1>4

\* What is closed under all closures is closed: a batch has the children of its cells.
LEMMA ClosureClosed ==
    ASSUME NEW S, NEW T, Downward(edges), NEW e \in edges, e[1] \in Closure(S, T)
    PROVE  e[2] \in Closure(S, T)
  BY DEF Closure, Closed, Downward

\* Nothing calls for nothing.
LEMMA ClosureOfNothing == Closure({}, {}) = {}
<1>. DEFINE T == {}
<1>1. T \in SUBSET Cells /\ {} \subseteq T /\ Closed(T) /\ Pulled(T, {})
  BY DEF Closed, Pulled
<1>2. \A c \in Closure({}, {}) : c \in T
  BY <1>1 DEF Closure
<1>. QED
  BY <1>2

\* If nothing is out of date, nothing is ready or waiting.
LEMMA NothingToDo ==
    ASSUME OutOfDate = {} PROVE Ready = {} /\ Waiting = {}
<1>1. Below({}) = {}
  BY DEF Below, Closed
<1>. QED
  BY <1>1 DEF Ready, Waiting

\* A cell that is out of date is ready or below a cell that is: the first such cell
\* in the notebook that is not would have to be below one before it.
LEMMA OutOfDateCovered ==
    ASSUME Downward(edges), NEW T
    PROVE  OutOfDate \subseteq Closure(Ready, T)
<1>. SUFFICES ASSUME NEW U \in SUBSET Cells, Ready \subseteq U, Closed(U)
              PROVE  OutOfDate \subseteq U
  BY DEF Closure, OutOfDate, Downward
<1>1. Cells \subseteq Nat /\ OutOfDate \subseteq Cells
  BY LoopAssumption DEF Cells, OutOfDate, Downward
<1>2. ASSUME OutOfDate \ U # {} PROVE FALSE
  <2>1. OutOfDate \ U \in SUBSET Nat
    BY <1>1
  <2>2. PICK c \in OutOfDate \ U : \A d \in OutOfDate \ U : c <= d
    BY <1>2, <2>1, MinExists
  <2>3. c \in Waiting /\ c \in Nat
    BY <2>2, <1>1 DEF Ready
  <2>4. PICK e \in edges : e[2] = c /\ e[1] \in Below(OutOfDate)
    BY <2>3 DEF Waiting
  <2>. DEFINE W == U \cup {d \in Cells : d >= c}
  <2>5. W \in SUBSET Cells /\ OutOfDate \subseteq W
    BY <2>2, <2>3, <1>1
  <2>6. Closed(W)
    <3>1. ASSUME NEW f \in edges, f[1] \in W PROVE f[2] \in W
      <4>1. f[1] \in Nat /\ f[2] \in Nat /\ f[2] \in Cells /\ f[1] < f[2]
        BY <1>1 DEF Downward
      <4>2. CASE f[1] \in U
        BY <4>2 DEF Closed
      <4>3. CASE f[1] >= c
        BY <4>1, <4>3, <2>3
      <4>. QED
        BY <4>2, <4>3, <3>1
    <3>. QED
      BY <3>1 DEF Closed
  <2>7. e[1] \in W
    BY <2>4, <2>5, <2>6 DEF Below
  <2>8. e[1] \in Nat /\ e[1] < c
    BY <2>4, <1>1 DEF Downward
  <2>9. e[1] \in U
    BY <2>3, <2>7, <2>8
  <2>. QED
    BY <2>2, <2>4, <2>9 DEF Closed
<1>. QED
  BY <1>2

-----------------------------------------------------------------------------
(* How what is planned changes.                                            *)

\* Taking a message off the channel keeps the executions behind it in a row.
LEMMA ChainedTaken ==
    ASSUME NEW k \in Seq(KernelMail), NEW k1, k # << >>, Taken(k, k1), NEW D, Chained(k, D)
    PROVE  Chained(k1, D)
<1>1. /\ Len(k) \in Nat \ {0} /\ DOMAIN k = 1..Len(k) /\ DOMAIN k1 = 1..(Len(k) - 1)
  BY TailFacts DEF Taken
<1>. SUFFICES ASSUME NEW e \in D, NEW i \in DOMAIN k1, k1[i].type = "exec", k1[i].cell = e[1]
              PROVE  \E j \in DOMAIN k1 : i < j /\ k1[j].cell = e[2] /\ AllExecs(k1, i, j)
  BY DEF Chained
<1>2. i + 1 \in DOMAIN k /\ k[i + 1].type = "exec" /\ k[i + 1].cell = e[1]
  <2>1. \A p \in 1..(Len(k) - 1) : k1[p].type = k[p + 1].type
    BY DEF Taken
  <2>2. \A p \in 1..(Len(k) - 1) : k1[p].type = "exec" => Same(k1[p], k[p + 1])
    BY DEF Taken
  <2>3. i \in 1..(Len(k) - 1) /\ i + 1 \in DOMAIN k
    BY <1>1
  <2>. QED
    BY <2>1, <2>2, <2>3 DEF Same
<1>3. PICK j \in DOMAIN k : i + 1 < j /\ k[j].cell = e[2] /\ AllExecs(k, i + 1, j)
  BY <1>2 DEF Chained
<1>4. PICK n \in 1..(Len(k) - 1) : n + 1 = j /\ n = j - 1 /\ i < n
  <2>1. i \in Nat /\ j \in Nat /\ j - 1 \in 1..(Len(k) - 1)
    BY <1>1, <1>3
  <2>. QED
    BY <2>1, <1>3
<1>5. ASSUME NEW l \in i..n PROVE k1[l].type = "exec"
  <2>1. l \in 1..(Len(k) - 1) /\ l + 1 \in (i + 1)..j
    BY <1>1, <1>4, <1>5
  <2>2. k1[l].type = k[l + 1].type
    BY <2>1 DEF Taken
  <2>. QED
    BY <2>1, <2>2, <1>3 DEF AllExecs
<1>6. k1[n].cell = e[2]
  <2>1. k1[n].type = "exec"
    <3>1. n \in i..n
      BY <1>1, <1>4
    <3>. QED
      BY <3>1, <1>5
  <2>2. k1[n].type = "exec" => Same(k1[n], k[n + 1])
    BY <1>4 DEF Taken
  <2>. QED
    BY <2>1, <2>2, <1>3, <1>4 DEF Same
<1>. QED
  BY <1>1, <1>4, <1>5, <1>6 DEF AllExecs

\* Where the next message is not an execution, nothing is out of date.
LEMMA OwingNothing ==
    ASSUME NEW k \in Seq(KernelMail), k # << >> => k[1].type # "exec",
           NEW D, NEW v, Owing(k, D, v)
    PROVE  \A e \in D : ~(v[e[1]] > v[e[2]])
<1>1. Len(k) \in Nat /\ DOMAIN k = 1..Len(k)
  BY LenProperties
<1>2. ASSUME NEW j \in DOMAIN k, AllExecs(k, 1, j) PROVE FALSE
  <2>1. 1 \in 1..j /\ k # << >>
    BY <1>1, <1>2
  <2>. QED
    BY <2>1, <1>2 DEF AllExecs
<1>. QED
  BY <1>2 DEF Owing

\* Cell c has run: v and v1 are ctr before and after.
Ran(c, v, v1) ==
    \E n \in Nat : v \in [Cells -> 1..n] /\ v1 = [v EXCEPT ![c] = n + 1]

\* A cell that runs puts its children out of date, and they are about to be run.
LEMMA OwingRun ==
    ASSUME NEW k \in Seq(KernelMail), NEW k1, k # << >>, Taken(k, k1),
           NEW c \in Cells, k[1].type = "exec", k[1].cell = c,
           NEW D, Downward(D), NEW v, NEW v1, Ran(c, v, v1),
           Owing(k, D, v), Chained(k, D)
    PROVE  Owing(k1, D, v1)
<1>1. /\ Len(k) \in Nat \ {0} /\ DOMAIN k = 1..Len(k) /\ DOMAIN k1 = 1..(Len(k) - 1)
  BY TailFacts DEF Taken
<1>. SUFFICES ASSUME NEW e \in D, v1[e[1]] > v1[e[2]]
              PROVE  \E j \in DOMAIN k1 : k1[j].cell = e[2] /\ AllExecs(k1, 1, j)
  BY DEF Owing
<1>2. e[1] \in Cells /\ e[2] \in Cells /\ e[1] # e[2]
  BY LoopAssumption DEF Downward, Cells
<1>8. PICK n \in Nat : v \in [Cells -> 1..n] /\ v1 = [v EXCEPT ![c] = n + 1]
  BY DEF Ran
<1>3. e[2] # c
  BY <1>2, <1>8
<1>4. PICK j \in DOMAIN k : j # 1 /\ k[j].cell = e[2] /\ AllExecs(k, 1, j)
  <2>1. CASE e[1] = c
    <3>1. 1 \in DOMAIN k
      BY <1>1
    <3>2. \E j \in DOMAIN k : 1 < j /\ k[j].cell = e[2] /\ AllExecs(k, 1, j)
      BY <3>1, <2>1 DEF Chained
    <3>. QED
      BY <3>2
  <2>2. CASE e[1] # c
    <3>1. v[e[1]] > v[e[2]]
      BY <2>2, <1>2, <1>3, <1>8
    <3>2. PICK j \in DOMAIN k : k[j].cell = e[2] /\ AllExecs(k, 1, j)
      BY <3>1 DEF Owing
    <3>3. j # 1
      BY <3>2, <1>3
    <3>. QED
      BY <3>2, <3>3
  <2>. QED
    BY <2>1, <2>2
<1>5. PICK m \in 1..(Len(k) - 1) : m + 1 = j
  <2>1. j - 1 \in 1..(Len(k) - 1) /\ (j - 1) + 1 = j
    BY <1>1, <1>4
  <2>. QED
    BY <2>1
<1>6. ASSUME NEW l \in 1..m PROVE k1[l].type = "exec"
  <2>1. l \in 1..(Len(k) - 1) /\ l + 1 \in 1..j
    BY <1>1, <1>5, <1>6
  <2>2. k1[l].type = k[l + 1].type
    BY <2>1 DEF Taken
  <2>. QED
    BY <2>1, <2>2, <1>4 DEF AllExecs
<1>7. k1[m].cell = e[2]
  <2>1. k1[m].type = "exec"
    BY <1>5, <1>6
  <2>2. k1[m].type = "exec" => Same(k1[m], k[m + 1])
    BY <1>5 DEF Taken
  <2>. QED
    BY <2>1, <2>2, <1>4, <1>5 DEF Same
<1>. QED
  BY <1>1, <1>5, <1>6, <1>7 DEF AllExecs

\* What is put behind a channel changes nothing about what is in it.
LEMMA ExecsBehind ==
    ASSUME NEW k \in Seq(KernelMail), NEW l, \A i \in DOMAIN k : l[i] = k[i],
           NEW i \in DOMAIN k, NEW j \in DOMAIN k, AllExecs(k, i, j)
    PROVE  AllExecs(l, i, j)
<1>1. Len(k) \in Nat /\ DOMAIN k = 1..Len(k)
  BY LenProperties
<1>2. \A o \in i..j : o \in DOMAIN k
  BY <1>1
<1>. QED
  BY <1>2 DEF AllExecs

\* The same of what is owed.
LEMMA OwingBehind ==
    ASSUME NEW k \in Seq(KernelMail), NEW l, DOMAIN k \subseteq DOMAIN l,
           \A i \in DOMAIN k : l[i] = k[i], NEW D, NEW v, Owing(k, D, v)
    PROVE  Owing(l, D, v)
<1>. SUFFICES ASSUME NEW e \in D, v[e[1]] > v[e[2]]
              PROVE  \E j \in DOMAIN l : l[j].cell = e[2] /\ AllExecs(l, 1, j)
  BY DEF Owing
<1>1. PICK j \in DOMAIN k : k[j].cell = e[2] /\ AllExecs(k, 1, j)
  BY DEF Owing
<1>2. 1 \in DOMAIN k
  BY <1>1, LenProperties
<1>. QED
  BY <1>1, <1>2, ExecsBehind

\* The same of a chain.
LEMMA ChainedBehind ==
    ASSUME NEW k \in Seq(KernelMail), NEW l, DOMAIN k \subseteq DOMAIN l,
           \A i \in DOMAIN k : l[i] = k[i], NEW D, Chained(k, D),
           NEW e \in D, NEW i \in DOMAIN k, k[i].type = "exec", k[i].cell = e[1]
    PROVE  \E j \in DOMAIN l : i < j /\ l[j].cell = e[2] /\ AllExecs(l, i, j)
<1>1. PICK j \in DOMAIN k : i < j /\ k[j].cell = e[2] /\ AllExecs(k, i, j)
  BY DEF Chained
<1>. QED
  BY <1>1, ExecsBehind

\* Something that is not an execution is put behind the channel.
LEMMA PlannedPosted ==
    ASSUME NEW k \in Seq(KernelMail), NEW m \in KernelMail, m.type # "exec", NEW D, NEW v,
           Owing(k, D, v), Chained(k, D), Unaborted(k)
    PROVE  Owing(Append(k, m), D, v) /\ Chained(Append(k, m), D) /\ Unaborted(Append(k, m))
<1>1. PICK l : l = Append(k, m)
  OBVIOUS
<1>2. /\ Len(k) \in Nat /\ DOMAIN k = 1..Len(k) /\ DOMAIN l = 1..(Len(k) + 1)
      /\ \A i \in 1..(Len(k) + 1) : l[i] = IF i <= Len(k) THEN k[i] ELSE m
  BY <1>1, AppendFacts
<1>3. DOMAIN k \subseteq DOMAIN l /\ \A i \in DOMAIN k : l[i] = k[i]
  BY <1>2
<1>4. \A i \in DOMAIN l : l[i].type = "exec" => i \in DOMAIN k
  BY <1>2
<1>5. Owing(l, D, v)
  BY <1>3, OwingBehind
<1>7. Chained(l, D)
  <2>. SUFFICES ASSUME NEW e \in D, NEW i \in DOMAIN l, l[i].type = "exec", l[i].cell = e[1]
                PROVE  \E j \in DOMAIN l : i < j /\ l[j].cell = e[2] /\ AllExecs(l, i, j)
    BY DEF Chained
  <2>1. i \in DOMAIN k /\ k[i].type = "exec" /\ k[i].cell = e[1]
    BY <1>3, <1>4
  <2>. QED
    BY <2>1, <1>3, ChainedBehind
<1>6. Unaborted(l)
  BY <1>3, <1>4 DEF Unaborted
<1>. QED
  BY <1>1, <1>5, <1>6, <1>7

\* The children of the cells in S are in S.
WithChildren(S, D) == \A e \in D : e[1] \in S => e[2] \in S
\* What is out of date is about to be run, or in S if nothing is under way.
Provided(S, k, D, v) ==
    \/ Owing(k, D, v) /\ Chained(k, D) /\ Unaborted(k)
    \/ k = << >> /\ \A e \in D : v[e[1]] > v[e[2]] => e[2] \in S

\* A batch with the children of its cells is put behind the channel; if the channel
\* was empty it may be what is out of date that is run.
LEMMA PlannedSubmitted ==
    ASSUME NEW k \in Seq(KernelMail), NEW S \in SUBSET Cells, NEW q \in InOrder(S),
           NEW b \in Nat, NEW l, l = k \o Requests(q, b), NEW D, NEW v, Downward(D),
           WithChildren(S, D), Provided(S, k, D, v)
    PROVE  Owing(l, D, v) /\ Chained(l, D) /\ Unaborted(l)
<1>1. PICK n \in Nat : n = Cardinality(S)
  BY CellsFinite
<1>2. Sent(l, k, q, b, n)
  BY <1>1, RequestsFacts
<1>3. /\ Len(k) \in Nat /\ DOMAIN k = 1..Len(k) /\ DOMAIN l = 1..(Len(k) + n)
      /\ \A i \in 1..Len(k) : l[i] = k[i]
  BY <1>2 DEF Sent
<1>4. /\ \A i \in (Len(k) + 1)..(Len(k) + n) : i - Len(k) \in 1..n /\ l[i].cell = q[i - Len(k)]
      /\ \A i \in (Len(k) + 1)..(Len(k) + n) : l[i].type = "exec"
  BY <1>2, <1>3 DEF Sent
<1>5. /\ DOMAIN q = 1..n /\ (\A i \in 1..n : q[i] \in S)
      /\ \A c \in S : \E i \in 1..n : q[i] = c
  <2>1. /\ DOMAIN q = 1..Cardinality(S) /\ \A i \in DOMAIN q : q[i] \in S
        /\ \A c \in S : \E i \in DOMAIN q : q[i] = c
    BY InOrderFacts
  <2>. QED
    BY <2>1, <1>1
<1>6. \A i, j \in 1..n : i < j => q[i] < q[j]
  <2>1. \A i, j \in DOMAIN q : i < j => q[i] < q[j]
    BY InOrderFacts
  <2>. QED
    BY <2>1, <1>5
<1>7. \A i \in DOMAIN l : i \in 1..Len(k) \/ i \in (Len(k) + 1)..(Len(k) + n)
  BY <1>3
<1>8. DOMAIN k \subseteq DOMAIN l /\ \A i \in DOMAIN k : l[i] = k[i]
  BY <1>3
<1>9. ASSUME NEW i \in (Len(k) + 1)..(Len(k) + n), NEW j \in (Len(k) + 1)..(Len(k) + n)
      PROVE  AllExecs(l, i, j)
  <2>1. \A o \in i..j : o \in (Len(k) + 1)..(Len(k) + n)
    BY <1>3, <1>9
  <2>. QED
    BY <2>1, <1>4 DEF AllExecs
<1>10. ASSUME NEW c \in S
       PROVE  \E j \in (Len(k) + 1)..(Len(k) + n) :
                  j \in DOMAIN l /\ l[j].cell = c /\ q[j - Len(k)] = c
  <2>1. PICK p \in 1..n : q[p] = c
    BY <1>5
  <2>4. Len(k) + p \in (Len(k) + 1)..(Len(k) + n)
    BY <1>3, <2>1
  <2>2. PICK j \in (Len(k) + 1)..(Len(k) + n) : j = Len(k) + p
    BY <2>4
  <2>3. j - Len(k) = p /\ j \in DOMAIN l
    BY <2>2, <1>3
  <2>. QED
    BY <2>1, <2>3, <1>4
<1>11. Chained(l, D)
  <2>1. ASSUME NEW e \in D, NEW i \in 1..Len(k), l[i].type = "exec", l[i].cell = e[1]
        PROVE  \E j \in DOMAIN l : i < j /\ l[j].cell = e[2] /\ AllExecs(l, i, j)
    <3>1. Chained(k, D)
      BY <2>1, <1>3 DEF Provided
    <3>2. i \in DOMAIN k /\ k[i].type = "exec" /\ k[i].cell = e[1]
      BY <2>1, <1>3
    <3>3. PICK j \in DOMAIN k : i < j /\ k[j].cell = e[2] /\ AllExecs(k, i, j)
      BY <3>1, <3>2, <2>1 DEF Chained
    <3>4. AllExecs(l, i, j)
      BY <3>2, <3>3, <1>8, ExecsBehind
    <3>. QED
      BY <3>3, <3>4, <1>8
  <2>2. ASSUME NEW e \in D, NEW i \in (Len(k) + 1)..(Len(k) + n), l[i].cell = e[1]
        PROVE  \E j \in DOMAIN l : i < j /\ l[j].cell = e[2] /\ AllExecs(l, i, j)
    <3>1. i - Len(k) \in 1..n /\ q[i - Len(k)] = e[1]
      BY <2>2, <1>4
    <3>2. e[1] \in S /\ e[2] \in S /\ e[1] < e[2] /\ e[1] \in Nat /\ e[2] \in Nat
      BY <3>1, <1>5, LoopAssumption DEF Downward, Cells, WithChildren
    <3>3. PICK j \in (Len(k) + 1)..(Len(k) + n) :
              j \in DOMAIN l /\ l[j].cell = e[2] /\ q[j - Len(k)] = e[2]
      BY <3>2, <1>10
    <3>4. j - Len(k) \in 1..n
      BY <3>3, <1>4
    <3>5. PICK p \in 1..n, o \in 1..n : p = i - Len(k) /\ o = j - Len(k)
      BY <3>1, <3>4
    <3>6. q[p] = e[1] /\ q[o] = e[2]
      BY <3>1, <3>3, <3>5
    <3>7. ~(o < p) /\ o # p
      BY <3>2, <3>6, <1>6
    <3>8. i < j
      BY <3>5, <3>7, <1>3
    <3>. QED
      BY <3>3, <3>8, <1>9
  <2>. QED
    BY <2>1, <2>2, <1>7 DEF Chained
<1>12. Owing(l, D, v)
  <2>1. CASE Owing(k, D, v)
    BY <2>1, <1>8, OwingBehind
  <2>2. CASE k = << >> /\ \A e \in D : v[e[1]] > v[e[2]] => e[2] \in S
    <3>. SUFFICES ASSUME NEW e \in D, v[e[1]] > v[e[2]]
                  PROVE  \E j \in DOMAIN l : l[j].cell = e[2] /\ AllExecs(l, 1, j)
      BY DEF Owing
    <3>1. e[2] \in S /\ Len(k) = 0
      BY <2>2
    <3>2. PICK j \in (Len(k) + 1)..(Len(k) + n) : j \in DOMAIN l /\ l[j].cell = e[2]
      BY <3>1, <1>10
    <3>3. 1 \in (Len(k) + 1)..(Len(k) + n)
      BY <3>1, <3>2
    <3>. QED
      BY <3>2, <3>3, <1>9
  <2>. QED
    BY <2>1, <2>2 DEF Provided
<1>13. Unaborted(l)
  <2>1. \A i \in DOMAIN k : k[i].type = "exec" => ~k[i].aborted
    BY <1>3 DEF Provided, Unaborted
  <2>2. ASSUME NEW i \in (Len(k) + 1)..(Len(k) + n) PROVE ~l[i].aborted
    BY <1>2 DEF Sent
  <2>. QED
    BY <2>1, <2>2, <1>7, <1>8 DEF Unaborted
<1>. QED
  BY <1>11, <1>12, <1>13

-----------------------------------------------------------------------------
(* Every step keeps to the plan.                                           *)

\* The notebook's dependencies and the user's settings do not change.
LEMMA OrderlyKept ==
    ASSUME UNCHANGED settings, Downward(edges)
    PROVE  Downward(edges') /\ (Orderly' => Orderly)
  BY DEF settings, Orderly, Mode, Downward

\* Nothing is called for that was not before: what arrives leaves the rest.
LEMMA QuietLeft ==
    ASSUME NEW s \in Seq(StoreMail), NEW i \in DOMAIN s, Quiet(s)
    PROVE  Quiet(RemoveAt(s, i))
<1>1. PICK t : t = RemoveAt(s, i)
  OBVIOUS
<1>2. \A j \in DOMAIN t : Past(i, j) \in DOMAIN s \ {i} /\ t[j] = s[Past(i, j)]
  BY <1>1, LeftFacts
<1>3. Quiet(t)
  BY <1>2 DEF Quiet
<1>. QED
  BY <1>1, <1>3

\* A message is put behind what is on its way to the store.
LEMMA QuietSent ==
    ASSUME NEW s \in Seq(StoreMail), NEW m \in StoreMail, Quiet(s),
           m.type = "schedule" => m.ready = {} /\ m.waiting = {} /\ m.new = {}
    PROVE  Quiet(Append(s, m))
<1>1. PICK t : t = Append(s, m)
  OBVIOUS
<1>2. /\ Len(s) \in Nat /\ DOMAIN s = 1..Len(s) /\ DOMAIN t = 1..(Len(s) + 1)
      /\ \A i \in 1..(Len(s) + 1) : t[i] = IF i <= Len(s) THEN s[i] ELSE m
  BY <1>1, AppendFacts
<1>3. \A i \in DOMAIN t : t[i] = m \/ (i \in DOMAIN s /\ t[i] = s[i])
  BY <1>2
<1>4. Quiet(t)
  BY <1>3 DEF Quiet
<1>. QED
  BY <1>1, <1>4

\* Taking a message off the channel leaves the rest as it was.
LEMMA UnabortedTail ==
    ASSUME NEW k \in Seq(KernelMail), k # << >>, Unaborted(k)
    PROVE  Unaborted(Tail(k))
<1>1. PICK k1 : k1 = Tail(k)
  OBVIOUS
<1>2. /\ Len(k) \in Nat \ {0} /\ DOMAIN k = 1..Len(k) /\ DOMAIN k1 = 1..(Len(k) - 1)
      /\ \A i \in 1..(Len(k) - 1) : k1[i] = k[i + 1]
  BY <1>1, TailFacts
<1>3. \A i \in DOMAIN k1 : i + 1 \in DOMAIN k /\ k1[i] = k[i + 1]
  BY <1>2
<1>4. Unaborted(k1)
  BY <1>3 DEF Unaborted
<1>. QED
  BY <1>1, <1>4

\* What the kernel takes off the channel, if it leaves the rest alone.
LEMMA TailTaken ==
    ASSUME NEW k \in Seq(KernelMail), k # << >> PROVE Taken(k, Tail(k))
  BY TailFacts DEF Taken, Same

\* What a message that is not an execution finds.
LEMMA NothingBehind ==
    ASSUME Types, Downward(edges), Planned, toKernel # << >>, Head(toKernel).type # "exec"
    PROVE  /\ OutOfDate = {}
           /\ Owing(Tail(toKernel), edges, ctr) /\ Chained(Tail(toKernel), edges)
           /\ Unaborted(Tail(toKernel))
<1>1. toKernel \in Seq(KernelMail)
  BY DEF Types
<1>2. toKernel[1].type # "exec"
  BY <1>1, TailFacts
<1>3. \A e \in edges : ~(ctr[e[1]] > ctr[e[2]])
  <2>1. Owing(toKernel, edges, ctr) /\ (toKernel # << >> => toKernel[1].type # "exec")
    BY <1>2 DEF Planned
  <2>. QED
    BY <2>1, <1>1, OwingNothing
<1>4. OutOfDate = {}
  BY <1>3 DEF OutOfDate
<1>5. Owing(Tail(toKernel), edges, ctr)
  BY <1>3 DEF Owing
<1>6. PICK k1 : k1 = Tail(toKernel)
  OBVIOUS
<1>7. Chained(k1, edges)
  <2>1. Taken(toKernel, k1) /\ Chained(toKernel, edges)
    BY <1>1, <1>6, TailTaken DEF Planned
  <2>. QED
    BY <2>1, <1>1, ChainedTaken
<1>. QED
  BY <1>1, <1>4, <1>5, <1>6, <1>7, UnabortedTail DEF Planned

\* A cell that runs leaves its children to be run.
LEMMA RunPlanned ==
    ASSUME Types, Consistent, NEW fails \in BOOLEAN, Run(fails) PROVE Consistent'
<1>1. UNCHANGED settings /\ UNCHANGED newReady
  BY DEF Run, loop
<1>2. Downward(edges') /\ (Orderly' => Orderly)
  BY <1>1, OrderlyKept DEF Consistent
<1>3. ASSUME Orderly', excused' = {} PROVE Planned' /\ newReady' = {} /\ Quiet(toStore')
  <2>1. ~fails /\ excused = {}
    BY <1>3 DEF Run
  <2>2. Planned /\ newReady = {} /\ Quiet(toStore) /\ Downward(edges)
    BY <2>1, <1>2, <1>3 DEF Consistent
  <2>3. /\ toKernel \in Seq(KernelMail) /\ toKernel # << >> /\ toStore \in Seq(StoreMail)
        /\ counter \in Nat /\ ctr \in [Cells -> 1..counter]
    BY DEF Types, Run, Received
  <2>4. PICK m : m = toKernel[1] /\ m = Head(toKernel) /\ m \in KernelMail /\ m.type = "exec"
    BY <2>3, TailFacts DEF Run, Received
  <2>5. m \in Execs
    BY <2>4 DEF KernelMail, Execs
  <2>6. m.cell \in Cells /\ Reply(m) \in StoreMail /\ Reply(m).type = "done"
    BY <2>5 DEF Execs, Reply, StoreMail, Dones
  <2>7. /\ toKernel' = Tail(toKernel) /\ toStore' = Append(toStore, Reply(m))
        /\ ctr' = [ctr EXCEPT ![m.cell] = counter + 1] /\ edges' = edges
    BY <2>1, <2>4, <1>1 DEF Run, settings
  <2>8. Quiet(toStore')
    BY <2>2, <2>3, <2>6, <2>7, QuietSent
  <2>9. PICK k1, v1 : k1 = Tail(toKernel) /\ v1 = [ctr EXCEPT ![m.cell] = counter + 1]
    OBVIOUS
  <2>10. Taken(toKernel, k1)
    BY <2>3, <2>9, TailTaken
  <2>11. Owing(k1, edges, v1)
    <3>1. PICK c \in Cells : c = m.cell
      BY <2>6
    <3>2. toKernel[1].type = "exec" /\ toKernel[1].cell = c /\ v1 = [ctr EXCEPT ![c] = counter + 1]
      BY <3>1, <2>4, <2>9
    <3>3. Ran(c, ctr, v1)
      BY <3>2, <2>3 DEF Ran
    <3>. QED
      BY <3>2, <3>3, <2>2, <2>3, <2>10, OwingRun DEF Planned
  <2>12. Chained(k1, edges) /\ Unaborted(k1)
    BY <2>2, <2>3, <2>9, <2>10, ChainedTaken, UnabortedTail DEF Planned
  <2>13. Planned'
    BY <2>7, <2>9, <2>11, <2>12 DEF Planned
  <2>. QED
    BY <2>2, <2>8, <2>13, <1>1
<1>. QED
  BY <1>2, <1>3 DEF Consistent

\* No execution is aborted while no cell has raised an error.
LEMMA AbortPlanned == ASSUME Types, Consistent, Abort PROVE Consistent'
<1>1. UNCHANGED settings /\ excused' = excused
  BY DEF Abort
<1>2. Downward(edges') /\ (Orderly' => Orderly)
  BY <1>1, OrderlyKept DEF Consistent
<1>3. ~Unaborted(toKernel)
  <2>1. toKernel \in Seq(KernelMail) /\ toKernel # << >> /\ Head(toKernel).type = "exec"
        /\ Head(toKernel).aborted
    BY DEF Types, Abort, Received
  <2>2. 1 \in DOMAIN toKernel /\ Head(toKernel) = toKernel[1]
    BY <2>1, TailFacts
  <2>. QED
    BY <2>1, <2>2 DEF Unaborted
<1>. QED
  BY <1>1, <1>2, <1>3 DEF Consistent, Planned

\* A schedule is made when nothing is out of date.
LEMMA AnswerPlanned == ASSUME Types, Consistent, Answer PROVE Consistent'
<1>1. UNCHANGED settings /\ UNCHANGED newReady /\ ctr' = ctr /\ excused' = excused
      /\ toKernel' = Tail(toKernel)
  BY DEF Answer, loop
<1>2. Downward(edges') /\ (Orderly' => Orderly)
  BY <1>1, OrderlyKept DEF Consistent
<1>3. ASSUME Orderly', excused' = {} PROVE Planned' /\ newReady' = {} /\ Quiet(toStore')
  <2>1. Planned /\ newReady = {} /\ Quiet(toStore) /\ Downward(edges)
    BY <1>1, <1>2, <1>3 DEF Consistent
  <2>2. toKernel # << >> /\ Head(toKernel).type # "exec"
    BY DEF Answer, Received
  <2>3. /\ OutOfDate = {}
        /\ Owing(Tail(toKernel), edges, ctr) /\ Chained(Tail(toKernel), edges)
        /\ Unaborted(Tail(toKernel))
    BY <2>1, <2>2, NothingBehind
  <2>4. Planned'
    BY <2>3, <1>1 DEF Planned, settings
  <2>5. Ready = {} /\ Waiting = {} /\ \A before : NewReady(before) = {}
    BY <2>3, NothingToDo DEF NewReady
  <2>6. PICK m : /\ toStore' = Append(toStore, m)
                 /\ m = [type |-> "schedule", last |-> last, failed |-> failed,
                         ready |-> {}, waiting |-> {}, new |-> {}]
    <3>1. PICK first : first = (~Head(toKernel).reactive /\ ~checked)
      OBVIOUS
    <3>2. toStore' = Append(toStore,
                [type |-> "schedule", last |-> last, failed |-> failed,
                 ready |-> Ready, waiting |-> Waiting,
                 new |-> IF schedule = "dag_based" THEN {}
                         ELSE NewReady(IF first THEN Ready ELSE wasReady)])
      BY <3>1 DEF Answer
    <3>3. (IF schedule = "dag_based" THEN {}
           ELSE NewReady(IF first THEN Ready ELSE wasReady)) = {}
      BY <2>5
    <3>. QED
      BY <3>2, <3>3, <2>5
  <2>7. m \in StoreMail /\ m.ready = {} /\ m.waiting = {} /\ m.new = {}
    BY <2>6 DEF Types, StoreMail, Schedules
  <2>8. Quiet(toStore')
    BY <2>1, <2>6, <2>7, QuietSent DEF Types
  <2>. QED
    BY <2>1, <2>4, <2>8, <1>1
<1>. QED
  BY <1>2, <1>3 DEF Consistent

\* Forgetting the past of newly ready cells changes nothing.
LEMMA CleanUpPlanned == ASSUME Types, Consistent, CleanUp PROVE Consistent'
<1>1. UNCHANGED settings /\ UNCHANGED newReady /\ ctr' = ctr /\ excused' = excused
      /\ toKernel' = Tail(toKernel) /\ toStore' = toStore
  BY DEF CleanUp, loop
<1>2. Downward(edges') /\ (Orderly' => Orderly)
  BY <1>1, OrderlyKept DEF Consistent
<1>3. ASSUME Orderly', excused' = {} PROVE Planned' /\ newReady' = {} /\ Quiet(toStore')
  <2>1. Planned /\ newReady = {} /\ Quiet(toStore) /\ Downward(edges)
    BY <1>1, <1>2, <1>3 DEF Consistent
  <2>2. toKernel # << >> /\ Head(toKernel).type # "exec"
    BY DEF CleanUp, Received
  <2>3. /\ Owing(Tail(toKernel), edges, ctr) /\ Chained(Tail(toKernel), edges)
        /\ Unaborted(Tail(toKernel))
    BY <2>1, <2>2, NothingBehind
  <2>4. Planned'
    BY <2>3, <1>1 DEF Planned, settings
  <2>. QED
    BY <2>1, <2>4, <1>1
<1>. QED
  BY <1>2, <1>3 DEF Consistent

\* The store asks for a schedule or cleans up, and lets what arrives go.
LEMMA PostPlanned ==
    ASSUME Types, Consistent, UNCHANGED settings, ctr' = ctr, excused' = excused,
           newReady' \subseteq newReady,
           \/ toKernel' = toKernel
           \/ \E m \in KernelMail : m.type # "exec" /\ toKernel' = Append(toKernel, m),
           \/ toStore' = toStore
           \/ \E i \in DOMAIN toStore : toStore' = RemoveAt(toStore, i)
    PROVE  Consistent'
<1>1. Downward(edges') /\ (Orderly' => Orderly)
  BY OrderlyKept DEF Consistent
<1>2. ASSUME Orderly', excused' = {} PROVE Planned' /\ newReady' = {} /\ Quiet(toStore')
  <2>1. Planned /\ newReady = {} /\ Quiet(toStore)
    BY <1>1, <1>2 DEF Consistent
  <2>2. Quiet(toStore')
    BY <2>1, QuietLeft DEF Types
  <2>3. CASE toKernel' = toKernel
    BY <2>1, <2>2, <2>3 DEF Planned, settings
  <2>4. ASSUME NEW m \in KernelMail, m.type # "exec", toKernel' = Append(toKernel, m)
        PROVE  Planned'
    <3>1. toKernel \in Seq(KernelMail)
      BY DEF Types
    <3>2. /\ Owing(Append(toKernel, m), edges, ctr) /\ Chained(Append(toKernel, m), edges)
          /\ Unaborted(Append(toKernel, m))
      BY <2>1, <2>4, <3>1, PlannedPosted DEF Planned
    <3>. QED
      BY <3>2, <2>4 DEF Planned, settings
  <2>. QED
    BY <2>1, <2>2, <2>3, <2>4
<1>. QED
  BY <1>1, <1>2 DEF Consistent

\* A reply arrives.
LEMMA FinishedPlanned ==
    ASSUME Types, Consistent, NEW i \in DOMAIN toStore, Finished(i) PROVE Consistent'
<1>1. Request \in KernelMail /\ Request.type # "exec"
  BY DEF Types, Request, KernelMail
<1>2. toKernel' = toKernel \/ toKernel' = Append(toKernel, Request)
  BY DEF Finished
<1>3. /\ toStore' = RemoveAt(toStore, i) /\ UNCHANGED settings
      /\ ctr' = ctr /\ excused' = excused /\ newReady' = newReady
  BY DEF Finished, Arrives, kernel
<1>. QED
  BY <1>1, <1>2, <1>3, PostPlanned

\* A batch that has the children of its cells is run by the user.
LEMMA BatchPlanned ==
    ASSUME Types, Consistent, NEW S \in SUBSET Cells, NEW plain \in BOOLEAN, NEW chosen,
           Submit(S, plain, chosen), UNCHANGED <<settings, kernel, toStore, loop>>,
           WithChildren(S, edges),
           \/ excused' = excused
           \/ Orderly => /\ toKernel = << >> /\ OutOfDate \subseteq S
                         /\ newReady = {} /\ Quiet(toStore)
    PROVE  Consistent'
<1>1. Downward(edges) /\ Downward(edges') /\ (Orderly' => Orderly)
  BY OrderlyKept DEF Consistent
<1>2. ASSUME Orderly', excused' = {} PROVE Planned' /\ newReady' = {} /\ Quiet(toStore')
  <2>1. \/ Planned /\ newReady = {} /\ Quiet(toStore)
        \/ toKernel = << >> /\ OutOfDate \subseteq S /\ newReady = {} /\ Quiet(toStore)
    BY <1>1, <1>2 DEF Consistent
  <2>2. Provided(S, toKernel, edges, ctr)
    BY <2>1 DEF Planned, OutOfDate, Provided
  <2>3. PICK b \in Nat : b = Len(batches) + 1
    BY LenProperties DEF Types
  <2>4. PICK q \in InOrder(S) : toKernel' = toKernel \o Requests(q, b)
    BY <2>3 DEF Submit, Requests
  <2>5. PICK l : l = toKernel \o Requests(q, b)
    OBVIOUS
  <2>6. Owing(l, edges, ctr) /\ Chained(l, edges) /\ Unaborted(l)
    <3>1. toKernel \in Seq(KernelMail)
      BY DEF Types
    <3>. QED
      BY <3>1, <2>2, <2>3, <2>4, <2>5, <1>1, PlannedSubmitted
  <2>7. Planned'
    BY <2>4, <2>5, <2>6 DEF Planned, settings, kernel
  <2>. QED
    BY <2>1, <2>7 DEF loop
<1>. QED
  BY <1>1, <1>2 DEF Consistent

\* No schedule calls for anything, so that the episode ends.
LEMMA SchedulePlanned ==
    ASSUME Types, Consistent, NEW i \in DOMAIN toStore, Schedule(i) PROVE Consistent'
<1>1. /\ UNCHANGED settings /\ ctr' = ctr /\ excused' = excused
      /\ toStore' = RemoveAt(toStore, i)
  BY DEF Schedule, Arrives, kernel
<1>2. CASE Orderly /\ excused = {}
  <2>1. newReady = {} /\ Quiet(toStore) /\ Mode = "batch"
    BY <1>2 DEF Consistent, Orderly
  <2>2. PICK m : m = toStore[i]
    OBVIOUS
  <2>3. m.type = "schedule" /\ m.ready = {} /\ m.waiting = {} /\ m.new = {}
    BY <2>1, <2>2 DEF Schedule, Quiet
  <2>4. \A run : NextBatch(m, newReady \cup m.new, run) = {}
    <3>1. \A run : (newReady \cup m.new) \ run = {} /\ m.ready \cup m.waiting = {}
      BY <2>1, <2>3
    <3>. QED
      BY <3>1, ClosureOfNothing DEF NextBatch
  <2>5. PICK run : run = episode \cup {m.last}
    OBVIOUS
  <2>6. EndEpisode(run)
    <3>1. \E S \in {IF m.failed THEN {} ELSE IF Mode = "batch"
                    THEN NextBatch(m, newReady \cup m.new, run)
                    ELSE NextOne(m, newReady \cup m.new, run)} :
             S = {} => EndEpisode(run)
      BY <2>2, <2>5 DEF Schedule
    <3>. QED
      BY <3>1, <2>1, <2>4
  <2>7. CleanUpRequest \in KernelMail /\ CleanUpRequest.type # "exec"
    BY DEF CleanUpRequest, KernelMail
  <2>8. newReady' \subseteq newReady /\ toKernel' = Append(toKernel, CleanUpRequest)
    BY <2>6 DEF EndEpisode
  <2>. QED
    BY <2>7, <2>8, <1>1, PostPlanned
<1>3. CASE ~(Orderly /\ excused = {})
  BY <1>1, <1>3, OrderlyKept DEF Consistent
<1>. QED
  BY <1>2, <1>3

\* The commands of the user.
LEMMA UserPlanned == ASSUME Inv, Consistent, UserNext PROVE Consistent'
<1>1. Types /\ Downward(edges) /\ shown.ready \subseteq Cells /\ shown.waiting \subseteq Cells
  BY DEF Inv, Consistent, Types, Shows
<1>2. ASSUME NEW c \in Cells, RunCell(c) PROVE Consistent'
  <2>1. excused' = excused
    BY <1>2 DEF RunCell
  <2>2. CASE RunBatch(Closure({c}, shown.ready \cup shown.waiting), c)
    <3>1. PICK S : S = Closure({c}, shown.ready \cup shown.waiting)
      OBVIOUS
    <3>2. S \in SUBSET Cells /\ WithChildren(S, edges)
      BY <3>1, <1>1, ClosureCells, ClosureClosed DEF WithChildren
    <3>3. Submit(S, FALSE, c) /\ UNCHANGED <<settings, kernel, toStore, loop>>
      BY <2>2, <3>1 DEF RunBatch
    <3>. QED
      BY <3>2, <3>3, <2>1, <1>1, BatchPlanned
  <2>3. CASE Mode # "batch" /\ UNCHANGED settings
    BY <2>3, <1>1, OrderlyKept DEF Consistent, Orderly
  <2>. QED
    BY <2>2, <2>3, <1>2 DEF RunCell, Mode
<1>3. ASSUME NEW c \in Cells, RunAlone(c) PROVE Consistent'
  <2>1. excused' # {} /\ UNCHANGED settings
    BY <1>3 DEF RunAlone, RunBatch
  <2>. QED
    BY <2>1, <1>1, OrderlyKept DEF Consistent
<1>4. ASSUME RunReady PROVE Consistent'
  <2>1. CASE ~Orderly
    <3>1. UNCHANGED settings
      BY <1>4 DEF RunReady, RunBatch
    <3>. QED
      BY <3>1, <2>1, <1>1, OrderlyKept DEF Consistent
  <2>2. CASE Orderly
    <3>1. Settled /\ Mode = "batch"
      BY <1>4, <2>2 DEF RunReady, InTurn, Orderly
    <3>2. toKernel = << >> /\ toStore = << >> /\ DOMAIN toStore = {}
      BY <3>1 DEF Settled
    <3>3. newReady = {} /\ shown.ready = Ready
      BY <3>1, SettledOwesNothing DEF Inv, Idle, View, Latest
    <3>4. PICK S : S = Closure(shown.ready, shown.ready \cup shown.waiting)
      OBVIOUS
    <3>5. S \in SUBSET Cells /\ WithChildren(S, edges)
      BY <3>4, <1>1, ClosureCells, ClosureClosed DEF WithChildren
    <3>6. OutOfDate \subseteq S
      BY <3>3, <3>4, <1>1, OutOfDateCovered
    <3>7. Submit(S, FALSE, 0) /\ UNCHANGED <<settings, kernel, toStore, loop>>
      BY <1>4, <3>1, <3>4 DEF RunReady, RunBatch
    <3>8. Quiet(toStore)
      BY <3>2 DEF Quiet
    <3>. QED
      BY <3>2, <3>3, <3>5, <3>6, <3>7, <3>8, <1>1, BatchPlanned
  <2>. QED
    BY <2>1, <2>2
<1>5. ASSUME ShowTab PROVE Consistent'
  <2>1. Request \in KernelMail /\ Request.type # "exec"
    BY <1>1 DEF Types, Request, KernelMail
  <2>2. /\ toKernel' = Append(toKernel, Request) /\ toStore' = toStore /\ UNCHANGED settings
        /\ ctr' = ctr /\ excused' = excused /\ newReady' = newReady
    BY <1>5 DEF ShowTab, kernel, loop
  <2>. QED
    BY <2>1, <2>2, <1>1, PostPlanned
<1>. QED
  BY <1>2, <1>3, <1>4, <1>5 DEF UserNext

\* Every step keeps to the plan.
LEMMA NextPlanned == ASSUME Inv, Consistent, [Next]_vars PROVE Consistent'
<1>1. Types
  BY DEF Inv
<1>2. ASSUME KernelNext PROVE Consistent'
  BY <1>1, <1>2, RunPlanned, AbortPlanned, AnswerPlanned, CleanUpPlanned DEF KernelNext
<1>3. ASSUME Tick PROVE Consistent'
  <2>1. Request \in KernelMail /\ Request.type # "exec"
    BY <1>1 DEF Types, Request, KernelMail
  <2>2. /\ toKernel' = Append(toKernel, Request) /\ toStore' = toStore /\ UNCHANGED settings
        /\ ctr' = ctr /\ excused' = excused /\ newReady' = newReady
    BY <1>3 DEF Tick, kernel, loop
  <2>. QED
    BY <2>1, <2>2, <1>1, PostPlanned
<1>4. ASSUME UNCHANGED vars PROVE Consistent'
  <2>1. /\ toKernel' = toKernel /\ toStore' = toStore /\ UNCHANGED settings
        /\ ctr' = ctr /\ excused' = excused /\ newReady' = newReady
    BY <1>4 DEF vars, kernel, loop
  <2>. QED
    BY <2>1, <1>1, PostPlanned
<1>. QED
  BY <1>1, <1>2, <1>3, <1>4, FinishedPlanned, SchedulePlanned, UserPlanned DEF Next, StoreNext

LEMMA InitConsistent == ASSUME Init PROVE Consistent
<1>1. /\ edges \subseteq {e \in Cells \X Cells : e[1] < e[2]} /\ OutOfDate = {}
      /\ DOMAIN toKernel = {} /\ DOMAIN toStore = {} /\ newReady = {}
  BY NothingOutOfDate DEF Init
<1>2. Downward(edges)
  BY <1>1 DEF Downward
<1>3. Planned
  BY <1>1 DEF Planned, Owing, Chained, Unaborted, OutOfDate
<1>. QED
  BY <1>1, <1>2, <1>3 DEF Consistent, Quiet

\* In batch mode, reactive execution leaves a consistent notebook: once everything has
\* settled no cell is older than one it depends on, unless the user ran a cell on its
\* own or a cell raised an error since the ready cells were last run, or presses the
\* space bar without waiting until everything has settled.
\* (The closure a command submits, and compute_exec_schedule.)
THEOREM BatchIsConsistent == Spec => [](Mode = "batch" => SettledIsConsistent)
<1>1. Init => Consistent
  BY InitConsistent
<1>2. Inv /\ Consistent /\ [Next]_vars => Consistent'
  BY NextPlanned
<1>3. ASSUME Inv, Consistent PROVE Mode = "batch" => SettledIsConsistent
  <2>1. ASSUME Mode = "batch", ~Hasty, Settled, excused = {} PROVE OutOfDate = {}
    <3>. Orderly
      BY <2>1 DEF Orderly, Hasty
    <3>1. Planned /\ toKernel = << >> /\ DOMAIN toKernel = {}
      BY <1>3, <2>1 DEF Consistent, Settled
    <3>. QED
      BY <3>1 DEF Planned, Owing, OutOfDate
  <2>. QED
    BY <2>1 DEF SettledIsConsistent
<1>. QED
  BY <1>1, <1>2, <1>3, Invariance, PTL DEF Spec
-----------------------------------------------------------------------------
(* Nothing is run without a reason.                                        *)

\* k, D and v as before; bs is batches.  An execution under way is of the cell the
\* user picked, or of one that is out of date and does not run before it, or that
\* goes out of date before it as a parent runs.
Picked(m, bs) == bs[m.batch].chosen = m.cell
Unrun(k, i, j, c) == \A l \in i..(j - 1) : k[l].type = "exec" => k[l].cell # c
Overtaken(k, v, i, a, c) ==
    \/ v[a] > v[c] /\ Unrun(k, 1, i, c)
    \/ \E j \in 1..(i - 1) : k[j].type = "exec" /\ k[j].cell = a /\ Unrun(k, j, i, c)
Caused(k, D, v, i, c) == \E e \in D : e[2] = c /\ Overtaken(k, v, i, e[1], c)
Reasoned(k, D, v, bs) ==
    \A i \in DOMAIN k : k[i].type = "exec" => Picked(k[i], bs) \/ Caused(k, D, v, i, k[i].cell)
Unasked == "hurry" \in env => shown.ready = {} /\ shown.waiting = {}
Reasons == Orderly /\ excused = {} => Reasoned(toKernel, edges, ctr, batches) /\ Unasked

\* What the first message of k does to ctr: other cells stay behind those they are
\* behind, and the cell that runs is ahead of all others.
Heads(k, c) == k[1].type = "exec" /\ k[1].cell = c
Advances(k, v, v1) ==
    \A a, c \in Cells : a # c /\ ~Heads(k, c) /\ (v[a] > v[c] \/ Heads(k, a)) => v1[a] > v1[c]

LEMMA RunAdvances ==
    ASSUME NEW k, NEW c \in Cells, k[1].type = "exec", k[1].cell = c, NEW v, NEW v1,
           Ran(c, v, v1)
    PROVE  Advances(k, v, v1)
<1>1. PICK n \in Nat : v \in [Cells -> 1..n] /\ v1 = [v EXCEPT ![c] = n + 1]
  BY DEF Ran
<1>2. ASSUME NEW a \in Cells, NEW d \in Cells, a # d, d # c, v[a] > v[d] \/ a = c
      PROVE  v1[a] > v1[d]
  <2>1. v[a] \in 1..n /\ v[d] \in 1..n /\ v1[d] = v[d]
    BY <1>1, <1>2
  <2>2. CASE a = c
    BY <1>1, <2>1, <2>2
  <2>3. CASE a # c
    <3>1. v1[a] = v[a]
      BY <1>1, <2>3
    <3>. QED
      BY <1>2, <2>1, <2>3, <3>1
  <2>. QED
    BY <2>2, <2>3
<1>3. \A a \in Cells : Heads(k, a) <=> a = c
  BY DEF Heads
<1>. QED
  BY <1>2, <1>3 DEF Advances

LEMMA WaitAdvances ==
    ASSUME NEW k, k[1].type # "exec", NEW v PROVE Advances(k, v, v)
  BY DEF Advances, Heads

\* The first message is taken off the channel: the others keep their reasons.
LEMMA ReasonedTaken ==
    ASSUME NEW k \in Seq(KernelMail), NEW k1, k # << >>, Taken(k, k1), NEW D, Downward(D),
           NEW v, NEW v1, Advances(k, v, v1), NEW bs, Reasoned(k, D, v, bs)
    PROVE  Reasoned(k1, D, v1, bs)
<1>1. /\ Len(k) \in Nat \ {0} /\ DOMAIN k = 1..Len(k) /\ DOMAIN k1 = 1..(Len(k) - 1)
  BY TailFacts DEF Taken
<1>2. \A i \in 1..(Len(k) - 1) : k1[i].type = k[i + 1].type
  BY DEF Taken
<1>3. \A i \in 1..(Len(k) - 1) : k1[i].type = "exec" =>
         k1[i].cell = k[i + 1].cell /\ k1[i].batch = k[i + 1].batch
  BY DEF Taken, Same
<1>. SUFFICES ASSUME NEW i \in 1..(Len(k) - 1), k1[i].type = "exec",
                     ~Picked(k1[i], bs)
              PROVE  Caused(k1, D, v1, i, k1[i].cell)
  BY <1>1 DEF Reasoned
<1>4. PICK n \in DOMAIN k : n = i + 1
  BY <1>1
<1>5. PICK c : c = k1[i].cell /\ c = k[n].cell
  BY <1>3, <1>4
<1>6. Caused(k, D, v, n, c)
  <2>1. k[n].type = "exec" /\ ~Picked(k[n], bs)
    BY <1>2, <1>3, <1>4 DEF Picked
  <2>. QED
    BY <2>1, <1>5 DEF Reasoned
<1>7. PICK e \in D : e[2] = c /\ Overtaken(k, v, n, e[1], c)
  BY <1>6 DEF Caused
<1>8. PICK a \in Cells : a = e[1] /\ c \in Cells /\ a # c
  BY <1>7, LoopAssumption DEF Downward, Cells
<1>9. ASSUME NEW o \in 1..(n - 1), Unrun(k, o, n, c) PROVE Unrun(k1, IF o = 1 THEN 1 ELSE o - 1, i, c)
  <2>1. PICK p \in 1..n : p = (IF o = 1 THEN 1 ELSE o - 1)
    BY <1>1, <1>4
  <2>2. ASSUME NEW l \in p..(i - 1), k1[l].type = "exec" PROVE k1[l].cell # c
    <3>1. l \in 1..(Len(k) - 1) /\ l + 1 \in o..(n - 1)
      BY <2>1, <2>2, <1>1, <1>4
    <3>2. k[l + 1].type = "exec" => k[l + 1].cell # c
      BY <3>1, <1>9 DEF Unrun
    <3>. QED
      BY <3>1, <3>2, <2>2, <1>2, <1>3
  <2>. QED
    BY <2>1, <2>2 DEF Unrun
<1>10. 1 \in 1..(n - 1) /\ n - 1 = i /\ i \in Nat
  BY <1>1, <1>4
<1>11. ASSUME v[a] > v[c] \/ Heads(k, a), Unrun(k, 1, n, c)
       PROVE  Overtaken(k1, v1, i, a, c)
  <2>1. ~Heads(k, c)
    BY <1>10, <1>11 DEF Unrun, Heads
  <2>2. v1[a] > v1[c]
    BY <2>1, <1>8, <1>11 DEF Advances
  <2>3. Unrun(k1, 1, i, c)
    BY <1>9, <1>10, <1>11
  <2>. QED
    BY <2>2, <2>3 DEF Overtaken
<1>12. ASSUME NEW j \in 1..(n - 1), j # 1, k[j].type = "exec", k[j].cell = a, Unrun(k, j, n, c)
       PROVE  Overtaken(k1, v1, i, a, c)
  <2>1. PICK p \in 1..(i - 1) : p = j - 1 /\ p + 1 = j
    BY <1>12, <1>10, <1>4
  <2>2. p \in 1..(Len(k) - 1)
    BY <2>1, <1>1
  <2>3. k1[p].type = "exec" /\ k1[p].cell = a
    BY <2>1, <2>2, <1>2, <1>3, <1>12
  <2>4. Unrun(k1, p, i, c)
    BY <1>9, <1>12, <2>1
  <2>. QED
    BY <2>3, <2>4 DEF Overtaken
<1>13. ASSUME NEW j \in 1..(n - 1), k[j].type = "exec", k[j].cell = a, Unrun(k, j, n, c)
       PROVE  Overtaken(k1, v1, i, a, c)
  <2>1. CASE j = 1
    <3>1. Heads(k, a) /\ Unrun(k, 1, n, c)
      BY <1>13, <2>1 DEF Heads
    <3>. QED
      BY <3>1, <1>11
  <2>. QED
    BY <2>1, <1>12, <1>13
<1>14. Overtaken(k, v, n, a, c)
  BY <1>7, <1>8
<1>15. Overtaken(k1, v1, i, a, c)
  BY <1>14, <1>11, <1>13 DEF Overtaken
<1>. QED
  BY <1>5, <1>7, <1>8, <1>15 DEF Caused

\* What is put behind the channel takes no reason away.
LEMMA CausedBehind ==
    ASSUME NEW k \in Seq(KernelMail), NEW l, \A i \in DOMAIN k : l[i] = k[i],
           NEW D, NEW v, NEW i \in DOMAIN k, NEW c, Caused(k, D, v, i, c)
    PROVE  Caused(l, D, v, i, c)
<1>1. Len(k) \in Nat /\ DOMAIN k = 1..Len(k)
  BY LenProperties
<1>2. PICK e \in D : e[2] = c /\ Overtaken(k, v, i, e[1], c)
  BY DEF Caused
<1>3. ASSUME NEW j \in 1..i, Unrun(k, j, i, c) PROVE Unrun(l, j, i, c)
  <2>1. \A o \in j..(i - 1) : o \in DOMAIN k
    BY <1>1
  <2>. QED
    BY <2>1, <1>3 DEF Unrun
<1>4. 1 \in 1..i /\ \A j \in 1..(i - 1) : j \in 1..i /\ j \in DOMAIN k
  BY <1>1
<1>5. Overtaken(l, v, i, e[1], c)
  BY <1>2, <1>3, <1>4 DEF Overtaken
<1>. QED
  BY <1>2, <1>5 DEF Caused

LEMMA ReasonedPosted ==
    ASSUME NEW k \in Seq(KernelMail), NEW m \in KernelMail, m.type # "exec", NEW D, NEW v, NEW bs,
           Reasoned(k, D, v, bs)
    PROVE  Reasoned(Append(k, m), D, v, bs)
<1>1. PICK l : l = Append(k, m)
  OBVIOUS
<1>2. /\ Len(k) \in Nat /\ DOMAIN k = 1..Len(k) /\ DOMAIN l = 1..(Len(k) + 1)
      /\ \A i \in 1..(Len(k) + 1) : l[i] = IF i <= Len(k) THEN k[i] ELSE m
  BY <1>1, AppendFacts
<1>3. \A i \in DOMAIN k : l[i] = k[i]
  BY <1>2
<1>4. \A i \in DOMAIN l : l[i].type = "exec" => i \in DOMAIN k
  BY <1>2
<1>5. ASSUME NEW i \in DOMAIN l, l[i].type = "exec"
      PROVE  Picked(l[i], bs) \/ Caused(l, D, v, i, l[i].cell)
  <2>1. i \in DOMAIN k /\ k[i].type = "exec" /\ l[i] = k[i]
    BY <1>3, <1>4, <1>5
  <2>2. Picked(k[i], bs) \/ Caused(k, D, v, i, k[i].cell)
    BY <2>1 DEF Reasoned
  <2>3. Caused(k, D, v, i, k[i].cell) => Caused(l, D, v, i, k[i].cell)
    BY <2>1, <1>3, CausedBehind
  <2>. QED
    BY <2>1, <2>2, <2>3
<1>. QED
  BY <1>1, <1>5 DEF Reasoned

\* Every cell of S is picked, or has a parent in S, or is out of date and nothing is
\* under way.
Called(S, chosen, k, D, v) ==
    \A c \in S : \/ c = chosen
                 \/ \E e \in D : e[2] = c /\ e[1] \in S
                 \/ k = << >> /\ \E e \in D : e[2] = c /\ v[e[1]] > v[c]

\* bs1 is bs with batch b in it, for which the user picked the cell.
Noted(k, bs, bs1, b, chosen) ==
    /\ bs1[b].chosen = chosen
    /\ \A i \in DOMAIN k : k[i].type = "exec" /\ Picked(k[i], bs) => Picked(k[i], bs1)

\* A batch of such cells is put behind the channel, and recorded.
LEMMA ReasonedSubmitted ==
    ASSUME NEW k \in Seq(KernelMail), NEW S \in SUBSET Cells, NEW q \in InOrder(S),
           NEW b \in Nat, NEW l, l = k \o Requests(q, b), NEW D, NEW v, Downward(D),
           NEW chosen, Called(S, chosen, k, D, v), NEW bs, Reasoned(k, D, v, bs),
           NEW bs1, Noted(k, bs, bs1, b, chosen)
    PROVE  Reasoned(l, D, v, bs1)
<1>1. PICK n \in Nat : n = Cardinality(S)
  BY CellsFinite
<1>2. Sent(l, k, q, b, n)
  BY <1>1, RequestsFacts
<1>3. /\ Len(k) \in Nat /\ DOMAIN k = 1..Len(k) /\ DOMAIN l = 1..(Len(k) + n)
      /\ \A i \in DOMAIN k : l[i] = k[i]
  BY <1>2 DEF Sent
<1>4. /\ \A i \in (Len(k) + 1)..(Len(k) + n) :
            i - Len(k) \in 1..n /\ l[i].cell = q[i - Len(k)] /\ l[i].batch = b
      /\ \A i \in (Len(k) + 1)..(Len(k) + n) : l[i].type = "exec"
  BY <1>2, <1>3 DEF Sent
<1>5. /\ DOMAIN q = 1..n /\ (\A i \in 1..n : q[i] \in S)
      /\ \A c \in S : \E i \in 1..n : q[i] = c
  <2>1. /\ DOMAIN q = 1..Cardinality(S) /\ \A i \in DOMAIN q : q[i] \in S
        /\ \A c \in S : \E i \in DOMAIN q : q[i] = c
    BY InOrderFacts
  <2>. QED
    BY <2>1, <1>1
<1>6. \A i, j \in 1..n : i < j => q[i] < q[j]
  <2>1. \A i, j \in DOMAIN q : i < j => q[i] < q[j]
    BY InOrderFacts
  <2>. QED
    BY <2>1, <1>5
<1>7. \A i \in DOMAIN l : i \in DOMAIN k \/ i \in (Len(k) + 1)..(Len(k) + n)
  BY <1>3
<1>8. S \subseteq Nat
  BY LoopAssumption DEF Cells
\* A cell of the batch does not come twice.
<1>9. ASSUME NEW i \in (Len(k) + 1)..(Len(k) + n), NEW j \in (Len(k) + 1)..(Len(k) + n), j < i
      PROVE  l[j].cell # l[i].cell /\ ~(l[i].cell < l[j].cell)
  <2>1. PICK o \in 1..n, p \in 1..n : o = j - Len(k) /\ p = i - Len(k)
    BY <1>4
  <2>4. q[o] \in Nat /\ q[p] \in Nat
    BY <1>5, <1>8
  <2>5. o < p
    BY <2>1, <1>3, <1>9
  <2>2. o < p /\ q[o] \in Nat /\ q[p] \in Nat
    BY <2>4, <2>5
  <2>3. q[o] < q[p]
    BY <2>2, <1>6
  <2>6. l[j].cell = q[o] /\ l[i].cell = q[p]
    BY <2>1, <1>4
  <2>. QED
    BY <2>2, <2>3, <2>6
<1>10. ASSUME NEW i \in (Len(k) + 1)..(Len(k) + n), NEW j \in (Len(k) + 1)..(Len(k) + n)
       PROVE  Unrun(l, j, i, l[i].cell)
  <2>1. \A o \in j..(i - 1) : o \in (Len(k) + 1)..(Len(k) + n) /\ o < i
    BY <1>3, <1>10
  <2>. QED
    BY <2>1, <1>9 DEF Unrun
<1>11. ASSUME NEW i \in (Len(k) + 1)..(Len(k) + n)
       PROVE  Picked(l[i], bs1) \/ Caused(l, D, v, i, l[i].cell)
  <2>1. PICK c \in S : c = l[i].cell
    BY <1>4, <1>5
  <2>2. CASE c = chosen
    BY <2>1, <2>2, <1>4 DEF Picked, Noted
  <2>3. ASSUME NEW e \in D, e[2] = c, e[1] \in S PROVE Caused(l, D, v, i, c)
    <3>1. PICK o \in 1..n : q[o] = e[1]
      BY <2>3, <1>5
    <3>2. PICK j \in (Len(k) + 1)..(Len(k) + n) : j - Len(k) = o
      <4>1. Len(k) + o \in (Len(k) + 1)..(Len(k) + n) /\ (Len(k) + o) - Len(k) = o
        BY <1>3
      <4>. QED
        BY <4>1
    <3>3. l[j].cell = e[1] /\ l[j].type = "exec"
      BY <3>1, <3>2, <1>4
    <3>4. e[1] < c /\ e[1] \in Nat /\ c \in Nat
      BY <2>1, <2>3, <1>8 DEF Downward
    <3>5. j < i
      <4>1. ~(i < j)
        BY <3>3, <3>4, <2>1, <1>9
      <4>2. i # j
        <5>1. e[1] # c
          BY <3>4
        <5>. QED
          BY <5>1, <3>3, <2>1
      <4>. QED
        BY <4>1, <4>2, <1>3
    <3>6. j \in 1..(i - 1)
      BY <3>5, <1>3
    <3>7. Unrun(l, j, i, c)
      BY <2>1, <1>10
    <3>8. Overtaken(l, v, i, e[1], c)
      BY <3>3, <3>6, <3>7 DEF Overtaken
    <3>. QED
      BY <3>8, <2>3 DEF Caused
  <2>4. ASSUME k = << >>, NEW e \in D, e[2] = c, v[e[1]] > v[c] PROVE Caused(l, D, v, i, c)
    <3>1. Len(k) = 0 /\ 1 \in (Len(k) + 1)..(Len(k) + n)
      BY <2>4, <1>3
    <3>2. Unrun(l, 1, i, c)
      BY <3>1, <2>1, <1>10
    <3>3. Overtaken(l, v, i, e[1], c)
      BY <3>2, <2>4 DEF Overtaken
    <3>. QED
      BY <3>3, <2>4 DEF Caused
  <2>. QED
    BY <2>1, <2>2, <2>3, <2>4 DEF Called
<1>12. ASSUME NEW i \in DOMAIN k, k[i].type = "exec"
       PROVE  Picked(l[i], bs1) \/ Caused(l, D, v, i, l[i].cell)
  <2>1. Picked(k[i], bs) \/ Caused(k, D, v, i, k[i].cell)
    BY <1>12 DEF Reasoned
  <2>2. Caused(k, D, v, i, k[i].cell) => Caused(l, D, v, i, k[i].cell)
    BY <1>3, CausedBehind
  <2>3. Picked(k[i], bs) => Picked(k[i], bs1)
    BY <1>12 DEF Noted
  <2>. QED
    BY <2>1, <2>2, <2>3, <1>3, <1>12
<1>. QED
  BY <1>3, <1>7, <1>11, <1>12 DEF Reasoned

\* A cell of a closure that is not one of those asked for, nor ready or waiting, has
\* a parent in it: else the closure without it would do.
LEMMA ClosureReasons ==
    ASSUME Downward(edges), NEW S, NEW T, S \subseteq Cells, T \subseteq Cells,
           NEW c \in Closure(S, T), c \notin S, c \notin T
    PROVE  \E e \in edges : e[2] = c /\ e[1] \in Closure(S, T)
<1>. DEFINE C == Closure(S, T)
<1>. SUFFICES ASSUME \A e \in edges : e[2] = c => e[1] \notin C PROVE FALSE
  OBVIOUS
<1>1. C \in SUBSET Cells
  BY ClosureCells
<1>2. S \subseteq C \ {c}
  BY DEF Closure
<1>3. Closed(C \ {c})
  <2>1. ASSUME NEW e \in edges, e[1] \in C \ {c} PROVE e[2] \in C \ {c}
    <3>1. e[2] # c
      BY <2>1
    <3>2. \A U \in SUBSET Cells : S \subseteq U /\ Closed(U) /\ Pulled(U, T) => e[2] \in U
      BY <2>1 DEF Closure, Closed
    <3>3. e[2] \in Cells
      BY DEF Downward
    <3>. QED
      BY <3>1, <3>2, <3>3 DEF Closure
  <2>. QED
    BY <2>1 DEF Closed
<1>4. Pulled(C \ {c}, T)
  <2>1. ASSUME NEW p \in T, NEW d \in C \ {c}, d \in Below({p}) PROVE p \in C \ {c}
    <3>1. \A U \in SUBSET Cells : S \subseteq U /\ Closed(U) /\ Pulled(U, T) => p \in U
      BY <2>1 DEF Closure, Pulled
    <3>2. p \in Cells /\ p # c
      BY <2>1
    <3>3. p \in Closure(S, T)
      BY <3>1, <3>2 DEF Closure
    <3>. QED
      BY <3>2, <3>3
  <2>. QED
    BY <2>1 DEF Pulled
<1>5. c \in C \ {c}
  BY <1>1, <1>2, <1>3, <1>4 DEF Closure
<1>. QED
  BY <1>5

-----------------------------------------------------------------------------
(* Every step keeps to the reasons.                                        *)

\* The batches recorded for what is under way are the same as before.
LEMMA ReasonedRecorded ==
    ASSUME NEW k, NEW D, NEW v, NEW bs, NEW bs1, Reasoned(k, D, v, bs),
           \A i \in DOMAIN k : k[i].type = "exec" /\ Picked(k[i], bs) => Picked(k[i], bs1)
    PROVE  Reasoned(k, D, v, bs1)
  BY DEF Reasoned

\* Steps that submit nothing: they leave the channel alone, take its first message
\* off, or put a request or a clean-up behind it.
LEMMA ReasonsKept ==
    ASSUME Types, Consistent, Reasons, UNCHANGED settings,
           excused' = {} => excused = {},
           Orderly /\ excused' = {} =>
              /\ \/ toKernel' = toKernel /\ ctr' = ctr
                 \/ \E m \in KernelMail : /\ m.type # "exec" /\ ctr' = ctr
                                          /\ toKernel' = Append(toKernel, m)
                 \/ /\ toKernel # << >> /\ Taken(toKernel, toKernel')
                    /\ Advances(toKernel, ctr, ctr')
              /\ shown' = shown \/ (shown'.ready = {} /\ shown'.waiting = {}),
           \A b \in DOMAIN batches : batches'[b].chosen = batches[b].chosen,
           \A i \in DOMAIN toKernel : toKernel[i].type = "exec" => toKernel[i].batch \in DOMAIN batches
    PROVE  Reasons'
<1>1. Downward(edges) /\ edges' = edges /\ env' = env /\ (Orderly' => Orderly)
  BY OrderlyKept DEF Consistent, settings
<1>. SUFFICES ASSUME Orderly', excused' = {}
              PROVE  Reasoned(toKernel', edges, ctr', batches') /\ Unasked'
  BY <1>1 DEF Reasons
<1>2. Orderly /\ excused = {} /\ Reasoned(toKernel, edges, ctr, batches) /\ Unasked
  BY <1>1 DEF Reasons
<1>3. Unasked'
  BY <1>1, <1>2 DEF Unasked
<1>4. PICK bs1 : bs1 = batches'
  OBVIOUS
<1>5. Reasoned(toKernel, edges, ctr, bs1)
  <2>1. \A i \in DOMAIN toKernel : toKernel[i].type = "exec" /\ Picked(toKernel[i], batches)
            => Picked(toKernel[i], bs1)
    BY <1>4 DEF Picked
  <2>. QED
    BY <2>1, <1>2, ReasonedRecorded
<1>6. toKernel \in Seq(KernelMail)
  BY DEF Types
<1>7. PICK k1, v1 : k1 = toKernel' /\ v1 = ctr'
  OBVIOUS
<1>8. Reasoned(k1, edges, v1, bs1)
  <2>1. CASE toKernel' = toKernel /\ ctr' = ctr
    BY <2>1, <1>5, <1>7
  <2>2. ASSUME NEW m \in KernelMail, m.type # "exec", ctr' = ctr, toKernel' = Append(toKernel, m)
        PROVE  Reasoned(k1, edges, v1, bs1)
    BY <2>2, <1>5, <1>6, <1>7, ReasonedPosted
  <2>3. CASE toKernel # << >> /\ Taken(toKernel, toKernel') /\ Advances(toKernel, ctr, ctr')
    <3>1. Taken(toKernel, k1) /\ Advances(toKernel, ctr, v1)
      BY <2>3, <1>7
    <3>. QED
      BY <3>1, <2>3, <1>1, <1>5, <1>6, ReasonedTaken
  <2>. QED
    BY <2>1, <2>2, <2>3, <1>2
<1>. QED
  BY <1>3, <1>4, <1>7, <1>8

\* What is under way belongs to a batch that is recorded.
LEMMA Recorded ==
    ASSUME Inv, NEW i \in DOMAIN toKernel, toKernel[i].type = "exec"
    PROVE  toKernel[i].batch \in DOMAIN batches
<1>1. toKernel[i].batch \in 1..Len(batches)
  BY DEF Inv, Mail, Known
<1>2. DOMAIN batches = 1..Len(batches)
  BY LenProperties DEF Inv, Types
<1>. QED
  BY <1>1, <1>2

LEMMA RunReasons ==
    ASSUME Inv, Consistent, Reasons, NEW fails \in BOOLEAN, Run(fails) PROVE Reasons'
<1>1. Types /\ UNCHANGED settings /\ batches' = batches /\ shown' = shown
  BY DEF Run, execs, loop, Inv
<1>2. excused' = {} => excused = {} /\ ~fails
  BY DEF Run
<1>3. toKernel \in Seq(KernelMail) /\ ctr \in [Cells -> 1..counter] /\ counter \in Nat
  BY <1>1 DEF Types
<1>4. toKernel # << >> /\ Head(toKernel).type = "exec"
  BY DEF Run, Received
<1>5. PICK m : m = Head(toKernel) /\ m = toKernel[1] /\ m \in KernelMail /\ m.type = "exec"
  BY <1>3, <1>4, TailFacts
<1>6. PICK c \in Cells : c = m.cell
  BY <1>5 DEF KernelMail, Execs
<1>7. ctr' = [ctr EXCEPT ![c] = counter + 1]
  BY <1>5, <1>6 DEF Run
<1>8. Advances(toKernel, ctr, ctr')
  <2>1. PICK v1 : v1 = ctr'
    OBVIOUS
  <2>2. Ran(c, ctr, v1)
    BY <2>1, <1>3, <1>7 DEF Ran
  <2>. QED
    BY <2>1, <2>2, <1>5, <1>6, RunAdvances
<1>9. ASSUME excused' = {} PROVE Taken(toKernel, toKernel')
  <2>1. toKernel' = Tail(toKernel)
    BY <1>2, <1>9 DEF Run
  <2>. QED
    BY <2>1, <1>3, <1>4, TailTaken
<1>. QED
  BY <1>1, <1>2, <1>4, <1>8, <1>9, ReasonsKept, Recorded

LEMMA QueueReasons ==
    ASSUME Inv, Consistent, Reasons, Abort \/ Answer \/ CleanUp PROVE Reasons'
<1>1. Types /\ UNCHANGED settings /\ batches' = batches /\ shown' = shown /\ ctr' = ctr
      /\ excused' = excused /\ toKernel # << >> /\ toKernel' = Tail(toKernel)
  BY DEF Abort, Answer, CleanUp, Received, kernel, execs, loop, Inv
<1>2. toKernel \in Seq(KernelMail)
  BY <1>1 DEF Types
<1>3. Taken(toKernel, toKernel')
  BY <1>1, <1>2, TailTaken
<1>4. ASSUME Orderly, excused' = {} PROVE Advances(toKernel, ctr, ctr')
  <2>1. Planned /\ toKernel[1] = Head(toKernel) /\ 1 \in DOMAIN toKernel
    BY <1>1, <1>2, <1>4, TailFacts DEF Consistent
  <2>2. toKernel[1].type # "exec"
    BY <2>1 DEF Abort, Answer, CleanUp, Received, Planned, Unaborted
  <2>3. PICK v1 : v1 = ctr /\ v1 = ctr'
    BY <1>1
  <2>. QED
    BY <2>2, <2>3, WaitAdvances
<1>. QED
  BY <1>1, <1>3, <1>4, ReasonsKept, Recorded

\* The store asks, or ends an episode.
LEMMA StoreReasons ==
    ASSUME Inv, Consistent, Reasons, StoreNext PROVE Reasons'
<1>1. Types
  BY DEF Inv
<1>2. Request \in KernelMail /\ Request.type # "exec"
  BY <1>1 DEF Types, Request, KernelMail
<1>3. ASSUME Tick PROVE Reasons'
  <2>1. /\ toKernel' = Append(toKernel, Request) /\ UNCHANGED settings /\ shown' = shown
        /\ ctr' = ctr /\ excused' = excused /\ batches' = batches
    BY <1>3 DEF Tick, kernel, loop
  <2>. QED
    BY <2>1, <1>1, <1>2, ReasonsKept, Recorded
<1>4. ASSUME NEW i \in DOMAIN toStore, Finished(i) PROVE Reasons'
  <2>1. /\ toKernel' = toKernel \/ toKernel' = Append(toKernel, Request)
        /\ UNCHANGED settings /\ shown' = shown /\ ctr' = ctr /\ excused' = excused
    BY <1>4 DEF Finished, kernel
  <2>2. \A b \in DOMAIN batches : batches'[b].chosen = batches[b].chosen
    <3>1. PICK a : batches' = [batches EXCEPT ![a].left = @ - 1] \/ batches' = batches
      BY <1>4 DEF Finished
    <3>2. batches \in Seq(Batch)
      BY <1>1 DEF Types
    <3>3. \A b \in DOMAIN batches : batches[b] \in Batch
      BY <3>2, ElementOfSeq
    <3>. QED
      BY <3>1, <3>3 DEF Batch
  <2>. QED
    BY <2>1, <2>2, <1>1, <1>2, ReasonsKept, Recorded
<1>5. ASSUME NEW i \in DOMAIN toStore, Schedule(i) PROVE Reasons'
  <2>1. UNCHANGED settings /\ ctr' = ctr /\ excused' = excused
    BY <1>5 DEF Schedule, kernel
  <2>2. CASE ~(Orderly /\ excused = {})
    BY <2>1, <2>2, OrderlyKept DEF Consistent, Reasons
  <2>3. CASE Orderly /\ excused = {}
    <3>1. newReady = {} /\ Quiet(toStore) /\ Mode = "batch"
      BY <2>3 DEF Consistent, Orderly
    <3>2. PICK m : m = toStore[i]
      OBVIOUS
    <3>3. m.type = "schedule" /\ m.ready = {} /\ m.waiting = {} /\ m.new = {}
      BY <1>5, <3>1, <3>2 DEF Schedule, Quiet
    <3>4. PICK run : run = episode \cup {m.last}
      OBVIOUS
    <3>5. NextBatch(m, newReady \cup m.new, run) = {}
      <4>1. (newReady \cup m.new) \ run = {} /\ m.ready \cup m.waiting = {}
        BY <3>1, <3>3
      <4>. QED
        BY <4>1, ClosureOfNothing DEF NextBatch
    <3>6. EndEpisode(run) /\ batches' = batches
      <4>1. \E S \in {IF m.failed THEN {} ELSE IF Mode = "batch"
                      THEN NextBatch(m, newReady \cup m.new, run)
                      ELSE NextOne(m, newReady \cup m.new, run)} :
               S = {} => EndEpisode(run) /\ UNCHANGED execs
        BY <1>5, <3>2, <3>4 DEF Schedule
      <4>. QED
        BY <4>1, <3>1, <3>5 DEF execs
    <3>7. shown' = Shown(m)
      BY <1>5, <3>2 DEF Schedule
    <3>8. shown'.ready = {} /\ shown'.waiting = {}
      BY <3>3, <3>7 DEF Shown
    <3>9. CleanUpRequest \in KernelMail /\ CleanUpRequest.type # "exec"
      BY DEF CleanUpRequest, KernelMail
    <3>10. toKernel' = Append(toKernel, CleanUpRequest)
      BY <3>6 DEF EndEpisode
    <3>. QED
      BY <2>1, <3>6, <3>8, <3>9, <3>10, <1>1, ReasonsKept, Recorded
  <2>. QED
    BY <2>2, <2>3
<1>. QED
  BY <1>3, <1>4, <1>5 DEF StoreNext

\* A batch of cells with reasons is run by the user.
LEMMA BatchReasons ==
    ASSUME Inv, Consistent, NEW S \in SUBSET Cells, NEW chosen,
           RunBatch(S, chosen), Orderly, Called(S, chosen, toKernel, edges, ctr), Unasked,
           Reasoned(toKernel, edges, ctr, batches)
    PROVE  Reasons'
<1>1. Types /\ Downward(edges) /\ batches \in Seq(Batch) /\ toKernel \in Seq(KernelMail)
  BY DEF Inv, Consistent, Types
<1>2. UNCHANGED settings /\ ctr' = ctr /\ shown' = shown
  BY DEF RunBatch, kernel, loop
<1>3. PICK b \in Nat : b = Len(batches) + 1
  BY <1>1, LenProperties
<1>4. PICK r : r = [plain |-> FALSE, left |-> Cardinality(S), chosen |-> chosen]
  OBVIOUS
<1>5. PICK q \in InOrder(S) : toKernel' = toKernel \o Requests(q, b)
  BY <1>3 DEF RunBatch, Submit, Requests
<1>6. PICK bs1 : bs1 = batches'
  OBVIOUS
<1>7. bs1 = Append(batches, r)
  BY <1>4, <1>6 DEF RunBatch, Submit
<1>8. bs1[b].chosen = chosen /\ \A a \in DOMAIN batches : bs1[a] = batches[a]
  BY <1>1, <1>3, <1>4, <1>7, AppendProperties, LenProperties
<1>9. \A i \in DOMAIN toKernel : toKernel[i].type = "exec" /\ Picked(toKernel[i], batches)
         => Picked(toKernel[i], bs1)
  BY <1>8, Recorded DEF Picked
<1>10. PICK l : l = toKernel \o Requests(q, b) /\ l = toKernel'
  BY <1>5
<1>11. Noted(toKernel, batches, bs1, b, chosen)
  BY <1>8, <1>9 DEF Noted
<1>14. Reasoned(l, edges, ctr, bs1)
  BY <1>1, <1>3, <1>5, <1>10, <1>11, ReasonedSubmitted
<1>. QED
  BY <1>2, <1>6, <1>10, <1>11, <1>14 DEF Reasons, settings, Unasked

\* The commands of the user.
LEMMA UserReasons == ASSUME Inv, Consistent, Reasons, UserNext PROVE Reasons'
<1>1. Types /\ Downward(edges) /\ shown.ready \subseteq Cells /\ shown.waiting \subseteq Cells
  BY DEF Inv, Consistent, Types, Shows
<1>2. UNCHANGED settings
  BY DEF UserNext, RunCell, RunAlone, RunReady, ShowTab, RunBatch
<1>3. Orderly' => Orderly
  BY <1>1, <1>2, OrderlyKept
<1>4. ASSUME NEW c \in Cells, RunCell(c), Orderly, excused = {} PROVE Reasons'
  <2>1. PICK S : S = Closure({c}, shown.ready \cup shown.waiting)
    OBVIOUS
  <2>2. Mode = "batch" /\ RunBatch(S, c) /\ InTurn
    BY <1>4, <2>1 DEF RunCell, Orderly
  <2>3. shown.ready = {} /\ shown.waiting = {}
    <3>1. CASE "hurry" \in env
      BY <1>4, <3>1 DEF Reasons, Unasked
    <3>2. CASE Settled
      <4>1. shown.ready = Ready /\ shown.waiting = Waiting
        BY <3>2, SettledOwesNothing DEF Inv, View, Latest
      <4>2. OutOfDate = {}
        <5>1. Planned /\ DOMAIN toKernel = {}
          BY <1>4, <3>2 DEF Consistent, Settled
        <5>. QED
          BY <5>1 DEF Planned, Owing, OutOfDate
      <4>. QED
        BY <4>1, <4>2, NothingToDo
    <3>. QED
      BY <2>2, <3>1, <3>2 DEF InTurn
  <2>4. Called(S, c, toKernel, edges, ctr)
    <3>1. shown.ready \cup shown.waiting = {} /\ {c} \subseteq Cells
      BY <2>3
    <3>2. \A d \in S : d # c => \E e \in edges : e[2] = d /\ e[1] \in S
      BY <3>1, <2>1, <1>1, ClosureReasons
    <3>. QED
      BY <3>2 DEF Called
  <2>5. S \in SUBSET Cells
    BY <2>1, ClosureCells
  <2>. QED
    BY <2>2, <2>4, <2>5, <1>4, BatchReasons DEF Reasons
<1>5. ASSUME RunReady, Orderly PROVE Reasons'
  <2>1. Settled /\ Mode = "batch"
    BY <1>5 DEF RunReady, InTurn, Orderly
  <2>2. toKernel = << >> /\ DOMAIN toKernel = {}
    BY <2>1 DEF Settled
  <2>3. shown.ready = Ready /\ shown.waiting = Waiting
    BY <2>1, SettledOwesNothing DEF Inv, View, Latest
  <2>4. PICK S : S = Closure(Ready, Ready \cup Waiting)
    OBVIOUS
  <2>5. S \in SUBSET Cells /\ OutOfDate \subseteq S
    BY <2>4, <1>1, ClosureCells, OutOfDateCovered
  <2>6. RunBatch(S, 0)
    BY <1>5, <2>1, <2>3, <2>4 DEF RunReady
  <2>7. Called(S, 0, toKernel, edges, ctr)
    <3>1. Ready \subseteq Cells /\ Ready \cup Waiting \subseteq Cells
      BY <1>1, <2>3
    <3>2. ASSUME NEW d \in S, d \notin Ready \cup Waiting
          PROVE  \E e \in edges : e[2] = d /\ e[1] \in S
      BY <3>1, <3>2, <2>4, <1>1, ClosureReasons
    <3>3. ASSUME NEW d \in Waiting PROVE \E e \in edges : e[2] = d /\ e[1] \in S
      <4>1. PICK e \in edges : e[2] = d /\ e[1] \in Below(OutOfDate)
        BY <3>3 DEF Waiting
      <4>2. Closed(S)
        BY <2>4, <1>1, ClosureClosed DEF Closed
      <4>. QED
        BY <4>1, <4>2, <2>5 DEF Below
    <3>4. ASSUME NEW d \in Ready PROVE \E e \in edges : e[2] = d /\ ctr[e[1]] > ctr[d]
      BY <3>4 DEF Ready, OutOfDate
    <3>. QED
      BY <3>2, <3>3, <3>4, <2>2 DEF Called
  <2>8. Unasked /\ Reasoned(toKernel, edges, ctr, batches)
    <3>1. "hurry" \notin env
      BY <1>5 DEF RunReady, Orderly
    <3>. QED
      BY <3>1, <2>2 DEF Unasked, Reasoned
  <2>. QED
    BY <2>5, <2>6, <2>7, <2>8, <1>5, BatchReasons
<1>6. ASSUME ShowTab PROVE Reasons'
  <2>1. Request \in KernelMail /\ Request.type # "exec"
    BY <1>1 DEF Types, Request, KernelMail
  <2>2. /\ toKernel' = Append(toKernel, Request) /\ batches' = batches /\ shown' = shown
        /\ ctr' = ctr /\ excused' = excused
    BY <1>6 DEF ShowTab, kernel, execs, loop
  <2>. QED
    BY <2>1, <2>2, <1>1, <1>2, ReasonsKept, Recorded
<1>7. ASSUME NEW c \in Cells, RunAlone(c) PROVE Reasons'
  <2>1. excused' # {}
    BY <1>7 DEF RunAlone
  <2>. QED
    BY <2>1 DEF Reasons
<1>8. ASSUME NEW c \in Cells, RunCell(c), ~(Orderly /\ excused = {}) PROVE Reasons'
  BY <1>3, <1>8 DEF RunCell, Reasons
<1>9. ASSUME ~Orderly PROVE Reasons'
  BY <1>3, <1>9 DEF Reasons
<1>. QED
  BY <1>4, <1>5, <1>6, <1>7, <1>8, <1>9 DEF UserNext

LEMMA NextReasons == ASSUME Inv, Consistent, Reasons, [Next]_vars PROVE Reasons'
<1>1. ASSUME UNCHANGED vars PROVE Reasons'
  <2>1. /\ toKernel' = toKernel /\ UNCHANGED settings /\ shown' = shown
        /\ ctr' = ctr /\ excused' = excused /\ batches' = batches
    BY <1>1 DEF vars, kernel, execs, loop
  <2>. QED
    BY <2>1, ReasonsKept, Recorded DEF Inv
<1>. QED
  BY <1>1, RunReasons, QueueReasons, StoreReasons, UserReasons DEF Next, KernelNext

\* In batch mode a cell the user did not pick runs only if it is out of date when it
\* runs, however the user's commands and the schedules cross, as long as no cell was run
\* on its own or failed since the ready cells were last run, and for users who wait before
\* they run these.  (The closure a command submits, in the order of the notebook.)
THEOREM BatchRunsOutOfDate ==
    Spec => [][Mode = "batch" /\ ~Hasty /\ excused = {} => RunsOutOfDate]_vars
<1>1. Init => Consistent /\ Reasons
  <2>1. ASSUME Init PROVE Reasons
    BY <2>1 DEF Init, Reasons, Reasoned, Unasked
  <2>. QED
    BY <2>1, InitConsistent
<1>2. Inv /\ Consistent /\ Reasons /\ [Next]_vars => Consistent' /\ Reasons'
  BY NextPlanned, NextReasons
<1>3. ASSUME Inv, Consistent, Reasons, [Next]_vars
      PROVE  [Mode = "batch" /\ ~Hasty /\ excused = {} => RunsOutOfDate]_vars
  <2>. SUFFICES ASSUME Next, Mode = "batch", ~Hasty, excused = {},
                       NEW c \in Cells, ctr'[c] # ctr[c]
                PROVE  LET b == Head(toKernel).batch
                       IN  batches[b].chosen = c \/ c \in OutOfDate
    BY <1>3 DEF RunsOutOfDate
  <2>1. PICK fails \in BOOLEAN : Run(fails)
    BY DEF Next, KernelNext, StoreNext, UserNext, Abort, Answer, CleanUp, Tick, Finished,
           Schedule, RunCell, RunAlone, RunReady, ShowTab, RunBatch, kernel
  <2>2. Orderly /\ Reasoned(toKernel, edges, ctr, batches) /\ Types
    BY <1>3 DEF Orderly, Hasty, Reasons, Inv
  <2>3. toKernel \in Seq(KernelMail) /\ ctr \in [Cells -> 1..counter] /\ toKernel # << >>
        /\ Head(toKernel).type = "exec"
    BY <2>1, <2>2 DEF Types, Run, Received
  <2>4. PICK m : m = Head(toKernel) /\ m = toKernel[1] /\ m.type = "exec" /\ 1 \in DOMAIN toKernel
    BY <2>3, TailFacts
  <2>5. ctr' = [ctr EXCEPT ![m.cell] = counter + 1]
    BY <2>1, <2>4 DEF Run
  <2>6. c = m.cell
    BY <2>3, <2>5
  <2>7. Picked(m, batches) \/ Caused(toKernel, edges, ctr, 1, c)
    BY <2>2, <2>4, <2>6 DEF Reasoned
  <2>8. Caused(toKernel, edges, ctr, 1, c) => c \in OutOfDate
    BY DEF Caused, Overtaken, OutOfDate
  <2>. QED
    BY <2>4, <2>6, <2>7, <2>8 DEF Picked
<1>. QED
  BY <1>1, <1>2, <1>3, Invariance, PTL DEF Spec
=============================================================================
