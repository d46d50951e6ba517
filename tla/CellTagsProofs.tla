--------------------------- MODULE CellTagsProofs ---------------------------
(***************************************************************************)
(* First the registry's invariants for any number of cells and runs, and   *)
(* what the numbers of a session promise when every run stores history.    *)
(* Then the same invariants in sessions that also rename placeholders,     *)
(* and what tags promise in them: which versions a slice by tag starts     *)
(* from, and which cells a tagged cell forces to run.                      *)
(***************************************************************************)
EXTENDS CellTags, SequenceTheorems, TLAPS

Version == [id : Ids, ctr : Nat \cup {-1}, prev : Nat]

CurrentOfId ==
    \A id \in Ids : current[id] # 0 => versions[current[id]].id = id

IInv == TypeOK /\ CurrentOfId /\ CurrentHasHighestNumber

\* When every run stores history, IPython is one ahead, and no number that is
\* still to come has been given.
InStep ==
    /\ counter = prompt - 1
    /\ \A v \in 1..Len(versions) : versions[v].ctr <= counter
    /\ NumberNeverReused

\* A version looked up in `versions` is a record of the right type.
LEMMA VersionsType ==
    ASSUME TypeOK
    PROVE  /\ versions \in Seq(Version) /\ NextVersion \in Nat \ {0}
           /\ \A v \in 1..Len(versions) :
                 /\ versions[v].id \in Ids /\ versions[v].prev \in Nat
                 /\ versions[v].ctr \in Nat \cup {-1}
  <1>1. versions \in Seq(Version) /\ NextVersion \in Nat \ {0}
    BY DEF TypeOK, Version, NextVersion
  <1>2. \A v \in 1..Len(versions) : versions[v] \in Version
    BY <1>1
  <1> QED BY <1>1, <1>2 DEF Version

\* What a new version leaves as it was.
LEMMA Appended ==
    ASSUME TypeOK, NEW id \in Ids, NEW ctr \in Nat \cup {-1},
           CreateAndTrack(id, ctr)
    PROVE  /\ Len(versions') = NextVersion
           /\ versions' \in Seq(Version)
           /\ versions'[NextVersion] = [id |-> id, ctr |-> ctr, prev |-> current[id]]
           /\ \A v \in 1..Len(versions) : versions'[v] = versions[v]
           /\ 1..Len(versions') = 1..Len(versions) \cup {NextVersion}
           /\ current[id] \in 0..Len(versions)
  <1>1. versions \in Seq(Version) /\ current[id] \in 0..Len(versions)
    BY VersionsType DEF TypeOK
  <1>2. [id |-> id, ctr |-> ctr, prev |-> current[id]] \in Version
    BY <1>1 DEF Version
  <1>3. versions' = Append(versions, [id |-> id, ctr |-> ctr, prev |-> current[id]])
    BY DEF CreateAndTrack
  <1> QED BY <1>1, <1>2, <1>3 DEF NextVersion

\* create_and_track keeps the invariant, whatever number it is given.
LEMMA TrackInv ==
    ASSUME IInv, NEW id \in Ids, NEW ctr \in Nat \cup {-1},
           CreateAndTrack(id, ctr),
           counter' \in Nat, prompt' \in Nat \ {0}
    PROVE  IInv'
  <1> USE DEF IInv
  <1>1. /\ Len(versions') = NextVersion
        /\ versions' \in Seq(Version)
        /\ versions'[NextVersion] = [id |-> id, ctr |-> ctr, prev |-> current[id]]
        /\ \A v \in 1..Len(versions) : versions'[v] = versions[v]
        /\ 1..Len(versions') = 1..Len(versions) \cup {NextVersion}
        /\ current[id] \in 0..Len(versions)
    BY Appended
  <1>2. NextVersion \in 1..Len(versions') /\ NextVersion \notin 1..Len(versions)
        /\ Len(versions) \in Nat
    BY VersionsType, <1>1 DEF NextVersion
  <1>3. byCtr' \subseteq Nat \X (1..Len(versions'))
    BY <1>1, <1>2 DEF TypeOK, CreateAndTrack, Tracked
  <1>4. current' \in [Ids -> 0..Len(versions')]
    BY <1>1, <1>2 DEF TypeOK, CreateAndTrack
  <1>5. TypeOK'
    BY <1>1, <1>3, <1>4 DEF TypeOK, Version
  <1>6. \A i \in Ids : i # id => current'[i] = current[i]
    BY DEF CreateAndTrack, TypeOK
  <1>7. current'[id] = IF Replaces(ctr, current[id]) THEN NextVersion ELSE current[id]
    BY DEF CreateAndTrack, TypeOK
  <1>8. \A i \in Ids : current[i] \in {0} \cup 1..Len(versions)
    BY DEF TypeOK
  <1>9. CurrentOfId'
    BY <1>1, <1>2, <1>6, <1>7, <1>8 DEF CurrentOfId, Replaces
  <1>10. \A v \in 1..Len(versions) :
            /\ versions[v].id \in Ids /\ versions[v].prev \in Nat
            /\ versions[v].ctr \in Int
    BY VersionsType
  <1>11. \* The version an id stands for is replaced by a higher one only.
         /\ current'[id] # 0 /\ ctr <= versions'[current'[id]].ctr
         /\ \A v \in 1..Len(versions) :
               current[id] = v => versions[v].ctr <= versions'[current'[id]].ctr
    <2>1. CASE Replaces(ctr, current[id])
      BY <1>1, <1>2, <1>7, <1>10, <2>1 DEF Replaces
    <2>2. CASE ~Replaces(ctr, current[id])
      <3>1. /\ current[id] \in 1..Len(versions) /\ current'[id] = current[id]
            /\ ~(ctr > versions[current[id]].ctr)
        BY <1>7, <1>8, <2>2 DEF Replaces
      <3> QED BY <1>1, <1>2, <1>10, <3>1
    <2> QED BY <2>1, <2>2
  <1>12. ASSUME NEW v \in 1..Len(versions')
         PROVE  /\ current'[versions'[v].id] # 0
                /\ versions'[v].ctr <= versions'[current'[versions'[v].id]].ctr
                /\ versions'[v].prev < v
                /\ versions'[v].prev # 0
                      => versions'[versions'[v].prev].id = versions'[v].id
    <2>1. CASE v = NextVersion
      <3>1. versions'[v].id = id /\ versions'[v].ctr = ctr /\ versions'[v].prev = current[id]
        BY <1>1, <2>1
      <3>2. current[id] < v /\ (current[id] # 0 => versions'[current[id]].id = id)
        BY <1>1, <1>2, <1>8, <2>1 DEF CurrentOfId, NextVersion
      <3> QED BY <1>11, <3>1, <3>2
    <2>2. CASE v \in 1..Len(versions)
      <3>1. /\ versions'[v] = versions[v] /\ versions[v].id \in Ids
            /\ versions[v].prev \in Nat /\ versions[v].prev < v
        BY <1>1, <1>10, <2>2 DEF CurrentHasHighestNumber
      <3>2. versions[v].prev # 0 => versions'[versions[v].prev].id = versions[v].id
        <4> SUFFICES ASSUME versions[v].prev # 0
                     PROVE  versions'[versions[v].prev].id = versions[v].id
          OBVIOUS
        <4>1. versions[v].prev \in 1..Len(versions)
          BY <1>2, <2>2, <3>1
        <4> QED BY <1>1, <2>2, <4>1 DEF CurrentHasHighestNumber
      <3> DEFINE i == versions[v].id
      <3>3. i \in Ids /\ current[i] \in 1..Len(versions)
            /\ versions[v].ctr <= versions[current[i]].ctr
        BY <1>8, <2>2, <3>1 DEF CurrentHasHighestNumber
      <3> HIDE DEF i
      <3>4. current'[i] # 0 /\ versions[current[i]].ctr <= versions'[current'[i]].ctr
        <4>1. CASE i = id
          BY <1>11, <3>3, <4>1
        <4>2. CASE i # id
          BY <1>1, <1>6, <1>10, <3>3, <4>2
        <4> QED BY <4>1, <4>2
      <3>5. versions[v].ctr \in Int /\ versions[current[i]].ctr \in Int
            /\ versions'[current'[i]].ctr \in Int
        <4>1. current'[i] \in 1..Len(versions')
          BY <1>4, <3>3, <3>4
        <4>2. versions'[current'[i]] \in Version
          BY <1>1, <4>1
        <4>3. \A w \in Version : w.ctr \in Int
          BY DEF Version
        <4> QED BY <1>10, <2>2, <3>3, <4>2, <4>3
      <3>6. versions'[v].ctr <= versions'[current'[i]].ctr
        <4>1. versions'[v].ctr = versions[v].ctr
          BY <3>1
        <4>2. \A a, b, n \in Int : a <= b /\ b <= n => a <= n
          OBVIOUS
        <4> QED BY <3>3, <3>4, <3>5, <4>1, <4>2, Zenon
      <3>7. versions'[v].id = i
        BY <3>1 DEF i
      <3>8. versions'[v].prev < v
        BY <3>1
      <3>9. versions'[v].prev # 0 => versions'[versions'[v].prev].id = versions'[v].id
        BY <3>1, <3>2
      <3> QED BY <3>4, <3>6, <3>7, <3>8, <3>9
    <2> QED BY <1>1, <2>1, <2>2
  <1>13. CurrentHasHighestNumber'
    BY <1>12 DEF CurrentHasHighestNumber
  <1> QED BY <1>5, <1>9, <1>13

\* The number of a run is IPython's whenever the run stores history.
LEMMA NextCtrType ==
    ASSUME TypeOK, NEW store \in BOOLEAN
    PROVE  NextCtr(store) \in Nat /\ (store => NextCtr(store) = prompt)
  BY DEF TypeOK, NextCtr

\* A run keeps the invariant.
LEMMA RunInv ==
    ASSUME IInv, NEW id \in Ids, NEW store \in BOOLEAN, Run(id, store)
    PROVE  IInv'
  <1>1. NextCtr(store) \in Nat
    BY NextCtrType DEF IInv
  <1>2. counter' \in Nat /\ prompt' \in Nat \ {0}
    BY <1>1 DEF IInv, TypeOK, Run
  <1> QED BY <1>1, <1>2, TrackInv DEF Run

\* An untracked version keeps the invariant: it is the first of its id.
LEMMA CreateUntrackedInv ==
    ASSUME IInv, NEW id \in Ids, CreateUntracked(id) PROVE IInv'
  <1>1. counter' \in Nat /\ prompt' \in Nat \ {0}
    BY DEF IInv, TypeOK, CreateUntracked
  <1> QED BY <1>1, TrackInv DEF CreateUntracked

\* The invariant holds when ipyflow is loaded.
LEMMA InitInv == Init => IInv
  <1> SUFFICES ASSUME Init PROVE IInv
    OBVIOUS
  <1>1. versions = << >> /\ Len(versions) = 0 /\ 1..Len(versions) = {}
    BY DEF Init
  <1>2. prompt \in Nat \ {0} /\ counter \in Nat
    BY SessionAssumption DEF Init
  <1>3. TypeOK
    BY <1>1, <1>2 DEF Init, TypeOK
  <1> QED BY <1>1, <1>3 DEF Init, IInv, CurrentOfId, CurrentHasHighestNumber

\* Every step keeps the invariant.
LEMMA StepInv == IInv /\ [Next]_vars => IInv'
  <1> SUFFICES ASSUME IInv, [Next]_vars PROVE IInv'
    OBVIOUS
  <1>1. ASSUME NEW id \in Ids, NEW store \in StoreHistory, Run(id, store)
        PROVE  IInv'
    BY <1>1, RunInv, SessionAssumption
  <1>2. ASSUME NEW id \in Ids, CreateUntracked(id) PROVE IInv'
    BY <1>2, CreateUntrackedInv
  <1>3. CASE UNCHANGED vars
    BY <1>3 DEF vars, IInv, TypeOK, CurrentOfId, CurrentHasHighestNumber
  <1> QED BY <1>1, <1>2, <1>3 DEF Next

\* The inductive invariant holds throughout.
LEMMA Invariance == Spec => []IInv
  BY InitInv, StepInv, PTL DEF Spec

-----------------------------------------------------------------------------

\* Counters are natural numbers, and every version a registry names is one
\* that create_and_track made.
THEOREM TypeCorrect == Spec => []TypeOK
  BY Invariance, PTL DEF IInv

\* The guard on _current_cell_by_cell_id keeps an id on its highest-numbered
\* version, in sessions that mix numbered and unnumbered prompts too.
THEOREM HighestNumber == Spec => []CurrentHasHighestNumber
  BY Invariance, PTL DEF IInv

\* The fix-up in create_and_track gives every run that stores history the
\* number IPython shows for it.
THEOREM NumberIsThePrompt == Spec => NumberIsPrompt
  <1>1. ASSUME IInv, [Next]_vars PROVE [prompt' # prompt => counter' = prompt]_vars
    <2>1. ASSUME NEW id \in Ids, NEW store \in StoreHistory, Run(id, store)
          PROVE  prompt' # prompt => counter' = prompt
      BY <1>1, <2>1, NextCtrType, SessionAssumption DEF IInv, Run
    <2>2. ASSUME NEW id \in Ids, CreateUntracked(id) PROVE prompt' = prompt
      BY <2>2 DEF CreateUntracked
    <2> QED BY <1>1, <2>1, <2>2 DEF Next
  <1> QED BY <1>1, Invariance, PTL DEF Spec, NumberIsPrompt

-----------------------------------------------------------------------------
(* Sessions in which every run stores history.                             *)

\* A run numbered one higher than the last keeps the two counters in step.
LEMMA TrackInStep ==
    ASSUME IInv, InStep, NEW id \in Ids, NEW ctr \in {-1, prompt},
           CreateAndTrack(id, ctr)
    PROVE  /\ NumberNeverReused'
           /\ \A v \in 1..Len(versions') :
                 versions'[v].ctr <= IF ctr = -1 THEN counter ELSE prompt
  <1>1. TypeOK /\ ctr \in Nat \cup {-1} /\ counter \in Nat /\ counter = prompt - 1
    BY DEF IInv, TypeOK, InStep
  <1>2. /\ versions'[NextVersion].ctr = ctr
        /\ \A v \in 1..Len(versions) : versions'[v] = versions[v]
        /\ 1..Len(versions') = 1..Len(versions) \cup {NextVersion}
    <2>1. versions'[NextVersion] = [id |-> id, ctr |-> ctr, prev |-> current[id]]
      BY <1>1, Appended
    <2>2. /\ \A v \in 1..Len(versions) : versions'[v] = versions[v]
          /\ 1..Len(versions') = 1..Len(versions) \cup {NextVersion}
      BY <1>1, Appended
    <2> QED BY <2>1, <2>2
  <1>3. ASSUME NEW v \in 1..Len(versions)
        PROVE  versions[v].ctr \in Int /\ versions[v].ctr < prompt
    <2>1. versions[v].ctr \in Int
      BY <1>1, VersionsType
    <2>2. versions[v].ctr <= counter /\ prompt \in Int
      BY <1>1 DEF InStep, TypeOK
    <2> QED BY <1>1, <2>1, <2>2
  <1>4. byCtr' = Tracked(ctr)
    BY DEF CreateAndTrack
  <1>5. ASSUME NEW v \in 1..Len(versions'), versions'[v].ctr # -1
        PROVE  <<versions'[v].ctr, v>> \in byCtr'
    <2>1. CASE v = NextVersion
      BY <1>1, <1>2, <1>4, <1>5, <2>1 DEF Tracked
    <2>2. CASE v \in 1..Len(versions)
      <3>1. <<versions[v].ctr, v>> \in byCtr /\ versions[v].ctr # prompt
        BY <1>2, <1>3, <1>5, <2>2 DEF InStep, NumberNeverReused
      <3> QED BY <1>2, <1>4, <2>2, <3>1 DEF Tracked
    <2> QED BY <1>2, <2>1, <2>2
  <1> QED BY <1>1, <1>2, <1>3, <1>5 DEF NumberNeverReused, InStep

\* With history stored by every run, the two counters stay in step.
LEMMA StepInStep ==
    ASSUME StoreHistory = {TRUE}, IInv, InStep, [Next]_vars
    PROVE  InStep' /\ (IsRun => counter' > counter)
  <1>1. counter \in Nat /\ prompt \in Nat /\ counter = prompt - 1
    BY DEF IInv, TypeOK, InStep
  <1>2. ASSUME NEW id \in Ids, Run(id, TRUE)
        PROVE  InStep' /\ counter' > counter
    <2>1. NextCtr(TRUE) = prompt
      BY NextCtrType DEF IInv
    <2>2. counter' = prompt /\ prompt' = prompt + 1 /\ CreateAndTrack(id, prompt)
      BY <1>2, <2>1 DEF Run
    <2> QED BY <1>1, <2>2, TrackInStep DEF InStep
  <1>3. ASSUME NEW id \in Ids, CreateUntracked(id)
        PROVE  InStep' /\ ~IsRun
    <2>1. CreateAndTrack(id, -1) /\ counter' = counter /\ prompt' = prompt
      BY <1>3 DEF CreateUntracked
    <2>2. byCtr' = byCtr
      BY <2>1 DEF CreateAndTrack, Tracked
    <2> QED BY <1>1, <2>1, <2>2, TrackInStep DEF InStep, IsRun
  <1>4. CASE UNCHANGED vars
    BY <1>4 DEF vars, InStep, NumberNeverReused, IsRun
  <1> QED BY <1>2, <1>3, <1>4 DEF Next

\* Numbers strictly increase, and none is given twice: what the documentation
\* says of cell_num is true of sessions whose runs all store history, and of
\* those only.
THEOREM NumbersIncrease ==
    ASSUME StoreHistory = {TRUE}
    PROVE  Spec => StrictlyIncreasing /\ []NumberNeverReused
  <1>1. Init => InStep
    BY SessionAssumption DEF Init, InStep, NumberNeverReused
  <1>2. IInv /\ InStep /\ [Next]_vars => InStep' /\ [IsRun => counter' > counter]_vars
    BY StepInStep
  <1>3. InStep => NumberNeverReused
    BY DEF InStep
  <1> QED BY <1>1, <1>2, <1>3, Invariance, PTL DEF Spec, StrictlyIncreasing

-----------------------------------------------------------------------------
(* Tags                                                                    *)

TagsTyped ==
    /\ tags \in Seq(SUBSET Tags) /\ Len(tags) = Len(versions)
    /\ reacts \in Seq(SUBSET Tags) /\ Len(reacts) = Len(versions)
    /\ byTag \subseteq Tags \X Versions \X Ids
    /\ reactive \subseteq Tags \X Ids
    /\ last \in Ids \cup {None} /\ inCell \in BOOLEAN

\* A number denotes one version, and that of the running cell the last one made.
NumbersDiffer == \A m, n \in byCtr : m[1] = n[1] => m = n
LastRuns == inCell => <<counter, Len(versions)>> \in byCtr

\* An id that stands for a missing one has one version at a time.
PlaceholderOnce ==
    \A id \in Placeholders, v \in Versions :
        IdOf(v) = id => v = current[id] /\ versions[v].prev = 0

\* A version is found in the sets of tags unless it was renamed.
HashedById == \A m \in byTag : <<m[1], m[2]>> \notin loose => m[3] = IdOf(m[2])

\* The tags an id is registered for are those its last run reacted to.
ReactsFollow ==
    \A id \in Ids, t \in Tags :
        Kept(id) => (<<t, id>> \in reactive <=> t \in ReactsOf(current[id]))

TInv ==
    /\ IInv /\ TagsTyped /\ NumbersDiffer /\ LastRuns /\ PlaceholderOnce
    /\ HashedById /\ TagsFollowCells /\ ReactsFollow

-----------------------------------------------------------------------------

\* Versions are numbered from 1 on, and made later than the ones they replace.
LEMMA VersionsFacts ==
    ASSUME IInv
    PROVE  /\ Versions = 1..Len(versions) /\ Len(versions) \in Nat
           /\ \A id \in Ids : current[id] \in {0} \cup Versions
           /\ \A id \in Ids : current[id] # 0 => IdOf(current[id]) = id
           /\ \A v \in Versions :
                 /\ IdOf(v) \in Ids /\ current[IdOf(v)] # 0
                 /\ versions[v].prev \in Nat /\ versions[v].prev < v
                 /\ versions[v].prev # 0 =>
                       versions[v].prev \in Versions /\ IdOf(versions[v].prev) = IdOf(v)
  <1>1. versions \in Seq(Version) /\ Len(versions) \in Nat
    BY VersionsType DEF IInv
  <1>2. Versions = 1..Len(versions)
    BY <1>1 DEF Versions
  <1>3. \A v \in Versions : /\ IdOf(v) \in Ids /\ current[IdOf(v)] # 0
                            /\ versions[v].prev \in Nat /\ versions[v].prev < v
                            /\ versions[v].prev # 0 => IdOf(versions[v].prev) = IdOf(v)
    BY <1>2, VersionsType DEF IInv, CurrentHasHighestNumber, IdOf
  <1>4. \A id \in Ids : /\ current[id] \in {0} \cup Versions
                        /\ current[id] # 0 => IdOf(current[id]) = id
    <2>1. \A id \in Ids : current[id] \in 0..Len(versions)
      BY DEF IInv, TypeOK
    <2>2. 0..Len(versions) = {0} \cup Versions
      BY <1>1, <1>2
    <2> QED BY <2>1, <2>2 DEF IInv, CurrentOfId, IdOf
  <1>5. \A v \in Versions : versions[v].prev # 0 => versions[v].prev \in Versions
    BY <1>1, <1>2, <1>3
  <1> QED BY <1>1, <1>2, <1>3, <1>4, <1>5

\* The tags of a version are a set of tags; those of version 0, none.
LEMMA TagsFacts ==
    ASSUME IInv, TagsTyped
    PROVE  \A v \in {0} \cup Versions :
              /\ TagsOf(v) \in SUBSET Tags /\ ReactsOf(v) \in SUBSET Tags
              /\ v # 0 => TagsOf(v) = tags[v] /\ ReactsOf(v) = reacts[v]
              /\ v = 0 => TagsOf(v) = {} /\ ReactsOf(v) = {}
  <1>1. Versions = 1..Len(versions) /\ Len(versions) \in Nat
    BY VersionsFacts
  <1>2. \A v \in Versions : v # 0 /\ tags[v] \in SUBSET Tags /\ reacts[v] \in SUBSET Tags
    BY <1>1 DEF TagsTyped
  <1> QED BY <1>2 DEF TagsOf, ReactsOf

\* A new version is the latest of its id in place of the one it replaces.
LEMMA LatestAfter ==
    ASSUME IInv, NEW id \in Ids, NEW ctr \in Nat \cup {-1}, CreateAndTrack(id, ctr),
           NEW n, n = NextVersion
    PROVE  /\ Versions' = Versions \cup {n} /\ n \notin Versions
           /\ n = Len(versions') /\ n # 0
           /\ IdOf(n)' = id /\ versions'[n].prev = current[id]
           /\ \A v \in Versions : IdOf(v)' = IdOf(v) /\ versions'[v] = versions[v]
           /\ Latest(n)'
           /\ \A v \in Versions : Latest(v)' <=> Latest(v) /\ v # current[id]
  <1>1. /\ Len(versions') = n
        /\ versions'[n] = [id |-> id, ctr |-> ctr, prev |-> current[id]]
        /\ \A v \in 1..Len(versions) : versions'[v] = versions[v]
        /\ 1..Len(versions') = 1..Len(versions) \cup {n}
    BY Appended DEF IInv
  <1>2. Versions = 1..Len(versions) /\ Len(versions) \in Nat
    BY VersionsFacts
  <1>3. Versions' = 1..Len(versions')
    BY Appended DEF IInv, Versions
  <1>4. /\ Versions' = Versions \cup {n} /\ n \notin Versions
        /\ n # 0 /\ n \in Nat
    BY <1>1, <1>2, <1>3 DEF NextVersion
  <1>5. /\ IdOf(n)' = id /\ versions'[n].prev = current[id]
        /\ \A v \in Versions : IdOf(v)' = IdOf(v) /\ versions'[v] = versions[v]
    BY <1>1, <1>2 DEF IdOf
  <1>6. \A w \in Versions' : versions'[w].prev # n
    <2>1. \A w \in Versions : versions[w].prev \in Nat /\ versions[w].prev < w
      BY VersionsFacts
    <2>2. \A w \in Versions : versions[w].prev # n
      BY <1>2, <2>1 DEF NextVersion
    <2>3. current[id] # n
      BY <1>4, VersionsFacts
    <2> QED BY <1>4, <1>5, <2>2, <2>3
  <1>7. \A v \in Versions : Latest(v)' <=> Latest(v) /\ v # current[id]
    BY <1>4, <1>5 DEF Latest
  <1>8. Latest(n)'
    BY <1>6 DEF Latest
  <1> QED BY <1>1, <1>4, <1>5, <1>7, <1>8

\* What is in a slice, for any set of entries.
LEMMA InSlice ==
    ASSUME NEW X, NEW Y, NEW Z, NEW B \in SUBSET (X \X Y \X Z), NEW t, NEW v
    PROVE  v \in {m[2] : m \in {x \in B : x[1] = t}} <=> \E h : <<t, v, h>> \in B
  <1>1. ASSUME v \in {m[2] : m \in {x \in B : x[1] = t}} PROVE \E h : <<t, v, h>> \in B
    <2>1. PICK m \in B : m[1] = t /\ m[2] = v
      BY <1>1
    <2>2. m = <<t, v, m[3]>>
      BY <2>1
    <2> QED BY <2>1, <2>2
  <1>2. ASSUME NEW h, <<t, v, h>> \in B
        PROVE  v \in {m[2] : m \in {x \in B : x[1] = t}}
    <2>1. <<t, v, h>>[1] = t /\ <<t, v, h>>[2] = v
      OBVIOUS
    <2> QED BY <1>2, <2>1
  <1> QED BY <1>1, <1>2

-----------------------------------------------------------------------------

\* create_and_track keeps the invariant: the new version takes over the tags of
\* the one it replaces, and its id no longer reacts to any.
LEMMA TrackTagsInv ==
    ASSUME TInv, IInv', NEW id \in Ids, NEW ctr \in Nat \cup {-1},
           CreateAndTrack(id, ctr), NEW T \in SUBSET Tags, Track(id, T),
           id \in Placeholders => current[id] = 0,
           last' \in Ids \cup {None}, inCell' \in BOOLEAN,
           inCell' => ctr > -1 /\ counter' = ctr,
           loose' = loose
    PROVE  TInv'
  <1>0. PICK n, p, all :
            n = NextVersion /\ p = current[id] /\ all = T \cup TagsOf(p)
    OBVIOUS
  <1>1. /\ Versions' = Versions \cup {n} /\ n \notin Versions
        /\ n = Len(versions') /\ n # 0
        /\ IdOf(n)' = id /\ versions'[n].prev = p
        /\ \A v \in Versions : IdOf(v)' = IdOf(v) /\ versions'[v] = versions[v]
        /\ Latest(n)'
        /\ \A v \in Versions : Latest(v)' <=> Latest(v) /\ v # p
    BY <1>0, LatestAfter DEF TInv
  <1>2. /\ p \in {0} \cup Versions /\ (p # 0 => IdOf(p) = id)
        /\ all \in SUBSET Tags /\ TagsOf(p) \subseteq all
    BY <1>0, VersionsFacts, TagsFacts DEF TInv
  <1>3. /\ tags' = Append(tags, all) /\ reacts' = Append(reacts, {})
        /\ byTag' = (byTag \ {<<t, p, id>> : t \in TagsOf(p)}) \cup {<<t, n, id>> : t \in all}
        /\ reactive' = reactive \ {<<t, id>> : t \in ReactsOf(p)}
    BY <1>0 DEF Track, Retagged, Unreact
  <1>4. /\ tags' \in Seq(SUBSET Tags) /\ Len(tags') = n
        /\ reacts' \in Seq(SUBSET Tags) /\ Len(reacts') = n
        /\ tags'[n] = all /\ reacts'[n] = {}
        /\ \A v \in Versions : tags'[v] = tags[v] /\ reacts'[v] = reacts[v]
    <2>1. /\ tags \in Seq(SUBSET Tags) /\ Len(tags) = Len(versions)
          /\ reacts \in Seq(SUBSET Tags) /\ Len(reacts) = Len(versions)
          /\ Versions = 1..Len(versions) /\ n = Len(versions) + 1
      BY <1>0, VersionsFacts DEF TInv, TagsTyped, NextVersion
    <2>2. {} \in SUBSET Tags
      OBVIOUS
    <2> QED BY <1>2, <1>3, <2>1, <2>2, AppendProperties
  <1>5. /\ \A i \in Ids : i # id => current'[i] = current[i]
        /\ current'[id] = IF Replaces(ctr, p) THEN n ELSE p
    BY <1>0 DEF CreateAndTrack, TInv, IInv, TypeOK
  <1>6. p = 0 => \A v \in Versions : IdOf(v) # id
    BY <1>0, VersionsFacts DEF TInv
  <1>7. TagsTyped'
    <2>1. byTag' \subseteq Tags \X Versions' \X Ids
      BY <1>1, <1>2, <1>3 DEF TInv, TagsTyped
    <2> QED BY <1>1, <1>3, <1>4, <2>1 DEF TInv, TagsTyped
  <1>8. NumbersDiffer' /\ LastRuns'
    <2>1. byCtr' = IF ctr > -1 THEN {m \in byCtr : m[1] # ctr} \cup {<<ctr, n>>} ELSE byCtr
      BY <1>0 DEF CreateAndTrack, Tracked
    <2> QED BY <1>1, <2>1 DEF TInv, NumbersDiffer, LastRuns
  <1>9. PlaceholderOnce'
    <2> SUFFICES ASSUME NEW i \in Placeholders, NEW v \in Versions', IdOf(v)' = i
                 PROVE  v = current'[i] /\ versions'[v].prev = 0
      BY DEF PlaceholderOnce
    <2>1. i \in Ids
      BY TagsAssumption
    <2>2. CASE v = n
      BY <1>0, <1>1, <1>5, <2>2 DEF Replaces
    <2>3. CASE v \in Versions
      <3>1. IdOf(v) = i /\ versions'[v] = versions[v]
        BY <1>1, <2>3
      <3>2. i # id
        BY <1>0, <1>6, <2>3, <3>1
      <3> QED BY <1>5, <2>1, <2>3, <3>1, <3>2 DEF TInv, PlaceholderOnce
    <2> QED BY <1>1, <2>2, <2>3
  <1>10. HashedById'
    <2> SUFFICES ASSUME NEW m \in byTag', <<m[1], m[2]>> \notin loose
                 PROVE  m[3] = IdOf(m[2])'
      BY DEF HashedById
    <2>1. CASE m \in byTag
      <3>1. m[2] \in Versions /\ m[3] = IdOf(m[2])
        BY <2>1 DEF TInv, HashedById, TagsTyped
      <3> QED BY <1>1, <3>1
    <2>2. CASE m \in {<<t, n, id>> : t \in all}
      BY <1>1, <2>2
    <2> QED BY <1>3, <2>1, <2>2
  <1>11. TagsFollowCells'
    <2>0. \A t, v : v \in SliceCells(t)' <=> \E h : <<t, v, h>> \in byTag'
      BY <1>7, InSlice DEF TagsTyped, SliceCells
    <2> SUFFICES ASSUME NEW t \in Tags, NEW v \in Versions', <<t, v>> \notin loose
                 PROVE  (\E h : <<t, v, h>> \in byTag') <=> t \in tags'[v] /\ Latest(v)'
      BY <2>0 DEF TagsFollowCells
    <2>1. CASE v = n
      <3>1. \A h : <<t, n, h>> \notin byTag
        BY <1>1 DEF TInv, TagsTyped
      <3>2. \A h : <<t, n, h>> \in byTag' <=> h = id /\ t \in all
        BY <1>3, <3>1
      <3> QED BY <1>1, <1>4, <2>1, <3>2
    <2>2. CASE v \in Versions
      <3>1. (\E h : <<t, v, h>> \in byTag) <=> t \in tags[v] /\ Latest(v)
        <4>1. v \in SliceCells(t) <=> \E h : <<t, v, h>> \in byTag
          BY InSlice DEF TInv, TagsTyped, SliceCells
        <4> QED BY <2>2, <4>1 DEF TInv, TagsFollowCells
      <3>2. \A h : <<t, v, h>> \in byTag => h = IdOf(v)
        BY DEF TInv, HashedById
      <3>3. CASE v = p
        <4>1. p # 0 /\ IdOf(p) = id /\ tags[p] = TagsOf(p) /\ ~Latest(p)'
          BY <1>1, <1>2, <2>2, <3>3, VersionsFacts, TagsFacts DEF TInv
        <4>2. \A h : <<t, p, h>> \in byTag => t \in TagsOf(p) /\ h = id
          BY <3>1, <3>2, <3>3, <4>1
        <4>3. \A h : <<t, p, h>> \notin byTag'
          BY <1>1, <1>3, <2>2, <3>3, <4>2
        <4> QED BY <3>3, <4>1, <4>3
      <3>4. CASE v # p
        BY <1>1, <1>3, <1>4, <2>2, <3>1, <3>4
      <3> QED BY <3>3, <3>4
    <2> QED BY <1>1, <2>1, <2>2
  <1>12. ReactsFollow'
    <2> SUFFICES ASSUME NEW i \in Ids, NEW t \in Tags, Kept(i)'
                 PROVE  <<t, i>> \in reactive' <=> t \in ReactsOf(current[i])'
      BY DEF ReactsFollow
    <2>1. 0 \notin Versions
      BY VersionsFacts DEF TInv
    <2>2. \A v \in Versions : IdOf(v) = i /\ Latest(v) /\ v # p => v = current'[i]
      BY <1>1 DEF Kept
    <2>3. CASE i = id
      <3>1. p # n /\ current'[i] = n
        BY <1>1, <1>2, <1>5, <2>3 DEF Kept
      <3>2. Kept(i)
        BY <1>1, <1>0, <2>2, <2>3, <3>1 DEF Kept
      <3>3. <<t, i>> \in reactive <=> t \in ReactsOf(p)
        BY <1>0, <2>3, <3>2 DEF TInv, ReactsFollow
      <3> QED BY <1>1, <1>3, <1>4, <2>3, <3>1, <3>3 DEF ReactsOf
    <2>4. CASE i # id
      <3>1. Kept(i)
        BY <1>2, <1>5, <2>1, <2>2, <2>4 DEF Kept
      <3>2. <<t, i>> \in reactive <=> t \in ReactsOf(current[i])
        BY <3>1 DEF TInv, ReactsFollow
      <3>3. current'[i] = current[i] /\ current[i] \in {0} \cup Versions
        BY <1>5, <2>4, VersionsFacts DEF TInv
      <3> QED BY <1>3, <1>4, <2>4, <3>2, <3>3 DEF ReactsOf
    <2> QED BY <2>3, <2>4
  <1> QED BY <1>7, <1>8, <1>9, <1>10, <1>11, <1>12 DEF TInv

\* A cell that starts to run keeps the invariant.
LEMMA StartCellInv ==
    ASSUME TInv, NEW id \in Ids, NEW store \in BOOLEAN, NEW T \in SUBSET Tags,
           StartCell(id, store, T)
    PROVE  TInv'
  <1>1. Run(id, store) /\ IInv'
    BY RunInv DEF StartCell, TInv
  <1>2. /\ CreateAndTrack(id, NextCtr(store)) /\ counter' = NextCtr(store)
        /\ NextCtr(store) \in Nat
    BY <1>1, NextCtrType DEF Run, TInv, IInv
  <1> QED BY <1>1, <1>2, TrackTagsInv DEF StartCell

\* So does one that appears in the notebook before it has been run.
LEMMA NewCellInv ==
    ASSUME TInv, NEW id \in Ids, NewCell(id) PROVE TInv'
  <1>1. IInv' /\ CreateAndTrack(id, -1)
    BY CreateUntrackedInv DEF NewCell, TInv, CreateUntracked
  <1>2. last' \in Ids \cup {None} /\ inCell' = FALSE
    BY DEF NewCell, TInv, TagsTyped
  <1> QED BY <1>1, <1>2, TrackTagsInv DEF NewCell

\* A number in use denotes a version; the running cell's, the last one made.
LEMMA NumberedVersion ==
    ASSUME TInv, NEW ctr \in Numbered
    PROVE  At(ctr) \in Versions /\ <<ctr, At(ctr)>> \in byCtr
  <1>1. Versions = 1..Len(versions) /\ byCtr \subseteq Nat \X (1..Len(versions))
    BY VersionsFacts DEF TInv, IInv, TypeOK
  <1>2. PICK m \in byCtr : ctr = m[1]
    BY DEF Numbered
  <1>3. m = <<ctr, m[2]>> /\ m[2] \in Versions
    BY <1>1, <1>2
  <1> QED BY <1>2, <1>3 DEF At

LEMMA RunningVersion ==
    ASSUME TInv, inCell
    PROVE  At(counter) \in Versions /\ Latest(At(counter))
  <1>1. Versions = 1..Len(versions) /\ Len(versions) \in Nat
    BY VersionsFacts DEF TInv
  <1>2. <<counter, Len(versions)>> \in byCtr /\ byCtr \subseteq Nat \X Versions
    BY <1>1 DEF TInv, LastRuns, IInv, TypeOK
  <1>3. Len(versions) \in Versions
    BY <1>2
  <1>4. At(counter) \in Versions /\ <<counter, At(counter)>> \in byCtr
    BY <1>2, <1>3 DEF At
  <1>5. At(counter) = Len(versions)
    BY <1>2, <1>4 DEF TInv, NumbersDiffer
  <1>6. \A w \in Versions : versions[w].prev \in Nat /\ versions[w].prev < w
    BY VersionsFacts DEF TInv
  <1>7. \A w \in Versions : versions[w].prev # Len(versions)
    BY <1>1, <1>6
  <1> QED BY <1>3, <1>5, <1>7 DEF Latest

\* A step that leaves the registry alone leaves all that is said of it alone.
LEMMA RegistrySame ==
    ASSUME TInv, UNCHANGED vars
    PROVE  /\ IInv' /\ NumbersDiffer' /\ PlaceholderOnce' /\ Versions' = Versions
           /\ \A v : IdOf(v)' = IdOf(v) /\ (Latest(v)' <=> Latest(v))
           /\ \A id : Kept(id)' <=> Kept(id)
  BY StepInv DEF TInv, vars, NumbersDiffer, PlaceholderOnce, Versions, IdOf, Latest, Kept

\* A tag given to a version is in both places afterwards.
LEMMA AddTagInv ==
    ASSUME TInv, NEW ctr \in Numbered, NEW t \in Tags, AddTag(ctr, t) PROVE TInv'
  <1>0. At(ctr) \in Versions
    BY NumberedVersion
  <1>1. PICK v \in Versions : v = At(ctr)
    BY <1>0
  <1>2. /\ tags' = [tags EXCEPT ![v] = tags[v] \cup {t}]
        /\ byTag' = byTag \cup {<<t, v, IdOf(v)>>}
        /\ loose' = IF Latest(v) THEN loose ELSE loose \cup {<<t, v>>}
        /\ UNCHANGED vars /\ UNCHANGED <<reacts, reactive, last, inCell>>
    BY <1>1 DEF AddTag
  <1>3. /\ IInv' /\ NumbersDiffer' /\ PlaceholderOnce' /\ Versions' = Versions
        /\ \A w : IdOf(w)' = IdOf(w) /\ (Latest(w)' <=> Latest(w))
        /\ \A id : Kept(id)' <=> Kept(id)
    BY <1>2, RegistrySame
  <1>4. /\ tags \in Seq(SUBSET Tags) /\ tags[v] \cup {t} \in SUBSET Tags
        /\ Versions = 1..Len(tags) /\ IdOf(v) \in Ids
    BY VersionsFacts DEF TInv, TagsTyped
  <1>5. /\ tags' \in Seq(SUBSET Tags) /\ Len(tags') = Len(tags)
        /\ \A w \in Versions : tags'[w] = IF w = v THEN tags[v] \cup {t} ELSE tags[w]
    BY <1>2, <1>4, ExceptSeq
  <1>6. TagsTyped'
    BY <1>2, <1>3, <1>4, <1>5 DEF TInv, TagsTyped, vars
  <1>7. LastRuns' /\ ReactsFollow'
    BY <1>2, <1>3 DEF TInv, LastRuns, ReactsFollow, ReactsOf, vars
  <1>8. HashedById'
    BY <1>2, <1>3 DEF TInv, HashedById
  <1>9. TagsFollowCells'
    <2>0. \A u, w : /\ w \in SliceCells(u)' <=> \E h : <<u, w, h>> \in byTag'
                    /\ w \in SliceCells(u) <=> \E h : <<u, w, h>> \in byTag
      BY <1>6, InSlice DEF TInv, TagsTyped, SliceCells
    <2> SUFFICES ASSUME NEW u \in Tags, NEW w \in Versions, <<u, w>> \notin loose'
                 PROVE  w \in SliceCells(u)' <=> u \in tags'[w] /\ Latest(w)
      BY <1>3 DEF TagsFollowCells
    <2>1. w \in SliceCells(u) <=> u \in tags[w] /\ Latest(w)
      BY <1>2 DEF TInv, TagsFollowCells
    <2>2. CASE u = t /\ w = v
      <3>1. Latest(w) /\ <<u, w, IdOf(v)>> \in byTag' /\ u \in tags'[w]
        BY <1>2, <1>5, <2>2
      <3> QED BY <2>0, <3>1
    <2>3. CASE ~(u = t /\ w = v)
      <3>1. (u \in tags'[w] <=> u \in tags[w]) /\ <<u, w>> \notin loose
        BY <1>2, <1>5, <2>3
      <3>2. \A h : <<u, w, h>> \in byTag' <=> <<u, w, h>> \in byTag
        BY <1>2, <2>3
      <3>3. w \in SliceCells(u)' <=> w \in SliceCells(u)
        BY <2>0, <3>2
      <3> QED BY <2>1, <3>1, <3>3
    <2> QED BY <2>2, <2>3
  <1> QED BY <1>3, <1>6, <1>7, <1>8, <1>9 DEF TInv

\* A tag taken away is loose from then on.
LEMMA RemoveTagInv ==
    ASSUME TInv, NEW ctr \in Numbered, NEW t \in Tags, RemoveTag(ctr, t) PROVE TInv'
  <1>0. At(ctr) \in Versions
    BY NumberedVersion
  <1>1. PICK v \in Versions : v = At(ctr)
    BY <1>0
  <1>2. /\ tags' = [tags EXCEPT ![v] = tags[v] \ {t}]
        /\ loose' = loose \cup {<<t, v>>}
        /\ UNCHANGED vars /\ UNCHANGED <<reacts, byTag, reactive, last, inCell>>
    BY <1>1 DEF RemoveTag
  <1>3. /\ IInv' /\ NumbersDiffer' /\ PlaceholderOnce' /\ Versions' = Versions
        /\ \A w : IdOf(w)' = IdOf(w) /\ (Latest(w)' <=> Latest(w))
        /\ \A id : Kept(id)' <=> Kept(id)
    BY <1>2, RegistrySame
  <1>4. /\ tags \in Seq(SUBSET Tags) /\ tags[v] \ {t} \in SUBSET Tags
        /\ Versions = 1..Len(tags)
    BY VersionsFacts DEF TInv, TagsTyped
  <1>5. /\ tags' \in Seq(SUBSET Tags) /\ Len(tags') = Len(tags)
        /\ \A w \in Versions : tags'[w] = IF w = v THEN tags[v] \ {t} ELSE tags[w]
    BY <1>2, <1>4, ExceptSeq
  <1>6. TagsTyped'
    BY <1>2, <1>3, <1>5 DEF TInv, TagsTyped, vars
  <1>7. LastRuns' /\ ReactsFollow' /\ HashedById'
    BY <1>2, <1>3 DEF TInv, LastRuns, ReactsFollow, ReactsOf, HashedById, vars
  <1>8. TagsFollowCells'
    <2> SUFFICES ASSUME NEW u \in Tags, NEW w \in Versions, <<u, w>> \notin loose'
                 PROVE  w \in SliceCells(u)' <=> u \in tags'[w] /\ Latest(w)
      BY <1>3 DEF TagsFollowCells
    <2> QED BY <1>2, <1>5 DEF TInv, TagsFollowCells, SliceCells
  <1> QED BY <1>3, <1>6, <1>7, <1>8 DEF TInv

\* What a run reacts to is registered under the id it has.
LEMMA ReactInv ==
    ASSUME TInv, NEW t \in Tags, React(t) PROVE TInv'
  <1>0. At(counter) \in Versions /\ Latest(At(counter))
    BY RunningVersion DEF React
  <1>1. PICK v \in Versions : v = At(counter) /\ Latest(v)
    BY <1>0
  <1>2. /\ reacts' = [reacts EXCEPT ![v] = reacts[v] \cup {t}]
        /\ reactive' = reactive \cup {<<t, IdOf(v)>>}
        /\ UNCHANGED vars /\ UNCHANGED <<tags, byTag, last, inCell, loose>>
    BY <1>1 DEF React
  <1>3. /\ IInv' /\ NumbersDiffer' /\ PlaceholderOnce' /\ Versions' = Versions
        /\ \A w : IdOf(w)' = IdOf(w) /\ (Latest(w)' <=> Latest(w))
        /\ \A id : Kept(id)' <=> Kept(id)
    BY <1>2, RegistrySame
  <1>4. /\ reacts \in Seq(SUBSET Tags) /\ reacts[v] \cup {t} \in SUBSET Tags
        /\ Versions = 1..Len(reacts) /\ IdOf(v) \in Ids
    BY VersionsFacts DEF TInv, TagsTyped
  <1>5. /\ reacts' \in Seq(SUBSET Tags) /\ Len(reacts') = Len(reacts)
        /\ \A w \in Versions : reacts'[w] = IF w = v THEN reacts[v] \cup {t} ELSE reacts[w]
    BY <1>2, <1>4, ExceptSeq
  <1>6. TagsTyped'
    BY <1>2, <1>3, <1>4, <1>5 DEF TInv, TagsTyped, vars
  <1>7. LastRuns' /\ HashedById' /\ TagsFollowCells'
    BY <1>2, <1>3 DEF TInv, LastRuns, HashedById, TagsFollowCells, SliceCells, vars
  <1>8. ReactsFollow'
    <2> SUFFICES ASSUME NEW i \in Ids, NEW u \in Tags, Kept(i)
                 PROVE  <<u, i>> \in reactive' <=> u \in ReactsOf(current[i])'
      BY <1>3 DEF ReactsFollow
    <2>1. <<u, i>> \in reactive <=> u \in ReactsOf(current[i])
      BY DEF TInv, ReactsFollow
    <2>2. /\ current' = current /\ current[i] \in {0} \cup Versions /\ 0 \notin Versions
          /\ current[i] # 0 => IdOf(current[i]) = i
      BY <1>2, VersionsFacts DEF TInv, vars
    <2>3. i = IdOf(v) => current[i] = v
      BY <1>1 DEF Kept
    <2>4. i # IdOf(v) => current[i] # v
      BY <1>1, <2>2
    <2>5. CASE i = IdOf(v)
      BY <1>1, <1>2, <1>5, <2>1, <2>2, <2>3, <2>5 DEF ReactsOf
    <2>6. CASE i # IdOf(v)
      BY <1>2, <1>5, <2>1, <2>2, <2>4, <2>6 DEF ReactsOf
    <2> QED BY <2>5, <2>6
  <1> QED BY <1>3, <1>6, <1>7, <1>8 DEF TInv

\* What is in a relation in which a name has been replaced.
LEMMA Renamed ==
    ASSUME NEW X, NEW Y, NEW R \in SUBSET (X \X Y), NEW old, NEW new, old # new,
           NEW t, NEW i
    PROVE  <<t, i>> \in {IF m[2] = old THEN <<m[1], new>> ELSE m : m \in R}
              <=> (i # old /\ <<t, i>> \in R) \/ (i = new /\ <<t, old>> \in R)
  <1> DEFINE f(m) == IF m[2] = old THEN <<m[1], new>> ELSE m
  <1>1. ASSUME NEW m \in R, <<t, i>> = f(m)
        PROVE  (i # old /\ <<t, i>> \in R) \/ (i = new /\ <<t, old>> \in R)
    <2>1. m = <<m[1], m[2]>>
      OBVIOUS
    <2>2. CASE m[2] = old
      BY <1>1, <2>1, <2>2
    <2>3. CASE m[2] # old
      BY <1>1, <2>1, <2>3
    <2> QED BY <2>2, <2>3
  <1>2. ASSUME i # old, <<t, i>> \in R PROVE \E m \in R : <<t, i>> = f(m)
    <2>1. <<t, i>> = f(<<t, i>>)
      BY <1>2
    <2> QED BY <1>2, <2>1
  <1>3. ASSUME i = new, <<t, old>> \in R PROVE \E m \in R : <<t, i>> = f(m)
    <2>1. <<t, i>> = f(<<t, old>>)
      BY <1>3
    <2> QED BY <1>3, <2>1
  <1> QED BY <1>1, <1>2, <1>3

\* A placeholder has one version, so its name can be changed in one place.
LEMMA RenameInv ==
    ASSUME TInv, NEW old \in Ids, NEW new \in Ids, Rename(old, new) PROVE TInv'
  <1>0. PICK v : v = current[old]
    OBVIOUS
  <1>1. /\ old \in Placeholders /\ new \notin Placeholders /\ v # 0 /\ current[new] = 0
        /\ versions' = [versions EXCEPT ![v].id = new]
        /\ current' = [current EXCEPT ![old] = 0, ![new] = v]
        /\ reactive' = {IF m[2] = old THEN <<m[1], new>> ELSE m : m \in reactive}
        /\ loose' = loose \cup {<<t, v>> : t \in tags[v]}
        /\ inCell' = FALSE /\ UNCHANGED <<byCtr, counter, prompt, tags, reacts, byTag, last>>
    BY <1>0 DEF Rename, ReactiveRenamed
  <1>2. /\ v \in Versions /\ IdOf(v) = old /\ versions[v].prev = 0
        /\ \A w \in Versions : IdOf(w) # new /\ (IdOf(w) = old => w = v)
    BY <1>0, <1>1, VersionsFacts DEF TInv, PlaceholderOnce
  <1>3. /\ versions \in Seq(Version) /\ Versions = 1..Len(versions) /\ Len(versions) \in Nat
        /\ [versions[v] EXCEPT !.id = new] \in Version
    <2>1. /\ versions \in Seq(Version) /\ Versions = 1..Len(versions)
          /\ Len(versions) \in Nat
      BY VersionsType, VersionsFacts DEF TInv, IInv
    <2>2. versions[v] \in Version
      BY <1>2, <2>1
    <2> QED BY <2>1, <2>2 DEF Version
  <1>4. /\ versions' \in Seq(Version) /\ Len(versions') = Len(versions) /\ Versions' = Versions
        /\ \A w \in Versions : w # v => versions'[w] = versions[w]
        /\ versions'[v] = [versions[v] EXCEPT !.id = new]
    BY <1>1, <1>2, <1>3, ExceptSeq DEF Versions
  <1>5. /\ IdOf(v)' = new
        /\ \A w \in Versions :
              /\ w # v => IdOf(w)' = IdOf(w)
              /\ versions'[w].prev = versions[w].prev /\ versions'[w].ctr = versions[w].ctr
              /\ Latest(w)' <=> Latest(w)
    <2>1. versions[v] \in Version
      BY <1>2, <1>3
    <2>2. versions'[v].id = new /\ versions'[v].prev = versions[v].prev /\ versions'[v].ctr = versions[v].ctr
      BY <1>4, <2>1 DEF Version
    <2>3. \A w \in Versions : /\ versions'[w].prev = versions[w].prev
                              /\ versions'[w].ctr = versions[w].ctr
      BY <1>4, <2>2
    <2> QED BY <1>4, <2>2, <2>3 DEF IdOf, Latest
  <1>6. /\ current'[new] = v /\ current'[old] = 0 /\ current' \in [Ids -> 0..Len(versions)]
        /\ \A i \in Ids : i # old /\ i # new => current'[i] = current[i]
    <2>1. current \in [Ids -> 0..Len(versions)] /\ v \in 0..Len(versions) /\ 0 \in 0..Len(versions)
      BY <1>2, <1>3 DEF TInv, IInv, TypeOK
    <2>2. old # new
      BY <1>1
    <2> QED BY <1>1, <2>1, <2>2
  <1>7. IInv'
    <2>1. TypeOK'
      BY <1>1, <1>4, <1>6 DEF TInv, IInv, TypeOK, Version
    <2>2. \A i \in Ids : i # old /\ i # new /\ current[i] # 0 =>
              current[i] \in Versions /\ current[i] # v /\ IdOf(current[i]) = i
      BY <1>2, VersionsFacts DEF TInv
    <2>3. CurrentOfId'
      <3> SUFFICES ASSUME NEW i \in Ids, current'[i] # 0 PROVE versions'[current'[i]].id = i
        BY DEF CurrentOfId
      <3>1. CASE i = new
        BY <1>5, <1>6, <3>1 DEF IdOf
      <3>2. CASE i # new
        <4>1. i # old /\ current'[i] = current[i]
          BY <1>6, <3>2
        <4>2. current[i] \in Versions /\ current[i] # v /\ versions[current[i]].id = i
          BY <2>2, <3>2, <4>1 DEF IdOf
        <4> QED BY <1>4, <4>1, <4>2
      <3> QED BY <3>1, <3>2
    <2>4. CurrentHasHighestNumber'
      <3> SUFFICES ASSUME NEW w \in Versions
                   PROVE  /\ current'[versions'[w].id] # 0
                          /\ versions'[w].ctr <= versions'[current'[versions'[w].id]].ctr
                          /\ versions'[w].prev < w
                          /\ versions'[w].prev # 0
                                => versions'[versions'[w].prev].id = versions'[w].id
        BY <1>3, <1>4 DEF CurrentHasHighestNumber
      <3>1. versions'[w].prev = versions[w].prev /\ versions[w].prev < w /\ versions'[w].ctr \in Int
        BY <1>3, <1>5, VersionsFacts, VersionsType DEF TInv, IInv
      <3>2. CASE w = v
        BY <1>1, <1>2, <1>5, <1>6, <3>1, <3>2 DEF IdOf
      <3>3. CASE w # v
        <4>1. PICK i : i = IdOf(w)
          OBVIOUS
        <4>2. i \in Ids /\ i # old /\ i # new /\ current[i] # 0 /\ versions'[w].id = i
          BY <1>2, <1>4, <3>3, <4>1, VersionsFacts DEF TInv, IdOf
        <4>3. current'[i] = current[i] /\ current[i] \in Versions /\ current[i] # v
          BY <1>6, <2>2, <4>2
        <4>4. versions[w].ctr <= versions[current[i]].ctr
          BY <1>3, <4>1 DEF TInv, IInv, CurrentHasHighestNumber, IdOf
        <4>5. versions[w].prev # 0 =>
                  versions[w].prev \in Versions /\ IdOf(versions[w].prev) = i
          BY <4>1, VersionsFacts DEF TInv
        <4>6. versions[w].prev # 0 => versions'[versions[w].prev].id = i
          BY <1>2, <1>4, <4>2, <4>5 DEF IdOf
        <4> QED BY <1>4, <3>1, <3>3, <4>2, <4>3, <4>4, <4>6
      <3> QED BY <3>2, <3>3
    <2> QED BY <2>1, <2>3, <2>4 DEF IInv
  <1>8. TagsTyped' /\ NumbersDiffer' /\ LastRuns'
    <2>1. reactive' \subseteq Tags \X Ids
      BY <1>1 DEF TInv, TagsTyped
    <2>2. TagsTyped'
      BY <1>1, <1>4, <2>1 DEF TInv, TagsTyped
    <2> QED BY <1>1, <2>2 DEF TInv, NumbersDiffer, LastRuns
  <1>9. PlaceholderOnce'
    <2> SUFFICES ASSUME NEW i \in Placeholders, NEW w \in Versions, IdOf(w)' = i
                 PROVE  w = current'[i] /\ versions'[w].prev = 0
      BY <1>4 DEF PlaceholderOnce
    <2>1. w # v /\ IdOf(w) = i /\ i # old /\ i # new /\ i \in Ids
      BY <1>1, <1>2, <1>5, TagsAssumption
    <2> QED BY <1>5, <1>6, <2>1 DEF TInv, PlaceholderOnce
  <1>10. HashedById' /\ TagsFollowCells'
    <2>1. TagsFollowCells'
      BY <1>1, <1>4, <1>5 DEF TInv, TagsFollowCells, SliceCells
    <2>2. HashedById'
      <3> SUFFICES ASSUME NEW m \in byTag, <<m[1], m[2]>> \notin loose'
                   PROVE  m[3] = IdOf(m[2])'
        BY <1>1 DEF HashedById
      <3>1. m \in Tags \X Versions \X Ids /\ m[3] = IdOf(m[2]) /\ <<m[1], m[2]>> \notin loose
        BY <1>1 DEF TInv, HashedById, TagsTyped
      <3>2. m[2] \in SliceCells(m[1])
        <4>1. m \in {x \in byTag : x[1] = m[1]}
          OBVIOUS
        <4> QED BY <4>1 DEF SliceCells
      <3>3. m[1] \in tags[m[2]]
        BY <3>1, <3>2 DEF TInv, TagsFollowCells
      <3>4. m[2] # v
        BY <1>1, <3>3
      <3> QED BY <1>5, <3>1, <3>4
    <2> QED BY <2>1, <2>2
  <1>11. ReactsFollow'
    <2> SUFFICES ASSUME NEW i \in Ids, NEW t \in Tags, Kept(i)'
                 PROVE  <<t, i>> \in reactive' <=> t \in ReactsOf(current[i])'
      BY DEF ReactsFollow
    <2>1. <<t, i>> \in reactive' <=>
              (i # old /\ <<t, i>> \in reactive) \/ (i = new /\ <<t, old>> \in reactive)
      <3>1. reactive \in SUBSET (Tags \X Ids) /\ old # new
        BY <1>1 DEF TInv, TagsTyped
      <3>2. <<t, i>> \in {IF m[2] = old THEN <<m[1], new>> ELSE m : m \in reactive}
              <=> (i # old /\ <<t, i>> \in reactive) \/ (i = new /\ <<t, old>> \in reactive)
        BY <3>1, Renamed
      <3> QED BY <1>1, <3>2
    <2>4. Kept(new) /\ <<t, new>> \notin reactive
      BY <1>1, <1>2 DEF Kept, TInv, ReactsFollow, ReactsOf
    <2>5. Kept(old) /\ (<<t, old>> \in reactive <=> t \in reacts[v])
      BY <1>0, <1>1, <1>2 DEF Kept, TInv, ReactsFollow, ReactsOf
    <2>6. CASE i = new
      BY <1>1, <1>2, <1>6, <2>1, <2>4, <2>5, <2>6 DEF ReactsOf
    <2>7. CASE i = old
      BY <1>1, <1>6, <2>1, <2>7 DEF ReactsOf
    <2>8. CASE i # old /\ i # new
      <3>1. Kept(i)
        BY <1>2, <1>4, <1>5, <1>6, <2>8 DEF Kept
      <3> QED BY <1>1, <1>6, <2>1, <2>8, <3>1 DEF TInv, ReactsFollow, ReactsOf
    <2> QED BY <2>6, <2>7, <2>8
  <1> QED BY <1>7, <1>8, <1>9, <1>10, <1>11 DEF TInv

-----------------------------------------------------------------------------

LEMMA TagsInitInv == TagsInit => TInv
  <1> SUFFICES ASSUME TagsInit PROVE TInv
    OBVIOUS
  <1>1. IInv /\ versions = << >> /\ Len(versions) = 0 /\ Versions = {}
    <2>1. IInv /\ versions = << >> /\ Len(versions) = 0
      BY InitInv DEF TagsInit, Init
    <2> QED BY <2>1, VersionsFacts
  <1>2. TagsTyped
    <2>1. << >> \in Seq(SUBSET Tags) /\ Len(<< >>) = 0
      OBVIOUS
    <2>2. tags = << >> /\ reacts = << >> /\ byTag = {} /\ reactive = {} /\ last = None
          /\ inCell = FALSE
      BY DEF TagsInit
    <2> QED BY <1>1, <2>1, <2>2 DEF TagsTyped
  <1>3. NumbersDiffer /\ LastRuns /\ PlaceholderOnce /\ HashedById /\ TagsFollowCells
    BY <1>1 DEF TagsInit, Init, NumbersDiffer, LastRuns, PlaceholderOnce, HashedById,
                TagsFollowCells
  <1>4. ReactsFollow
    BY DEF TagsInit, Init, ReactsFollow, ReactsOf
  <1> QED BY <1>1, <1>2, <1>3, <1>4 DEF TInv

\* Every step keeps the invariant.
LEMMA TagsStepInv == TInv /\ [TagsNext]_allVars => TInv'
  <1> SUFFICES ASSUME TInv, [TagsNext]_allVars PROVE TInv'
    OBVIOUS
  <1>1. ASSUME NEW id \in Ids, NEW store \in StoreHistory, NEW T \in SUBSET Tags,
               StartCell(id, store, T)
        PROVE  TInv'
    BY <1>1, StartCellInv, SessionAssumption
  <1>2. ASSUME NEW id \in Ids, NewCell(id) PROVE TInv'
    BY <1>2, NewCellInv
  <1>3. ASSUME NEW ctr \in Numbered, NEW t \in Tags, AddTag(ctr, t) PROVE TInv'
    BY <1>3, AddTagInv
  <1>4. ASSUME NEW ctr \in Numbered, NEW t \in Tags, RemoveTag(ctr, t) PROVE TInv'
    BY <1>4, RemoveTagInv
  <1>5. ASSUME NEW t \in Tags, React(t) PROVE TInv'
    BY <1>5, ReactInv
  <1>6. ASSUME NEW old \in Ids, NEW new \in Ids, Rename(old, new) PROVE TInv'
    BY <1>6, RenameInv
  <1>7. CASE UNCHANGED allVars
    <2>1. /\ IInv' /\ NumbersDiffer' /\ PlaceholderOnce' /\ Versions' = Versions
          /\ \A w : IdOf(w)' = IdOf(w) /\ (Latest(w)' <=> Latest(w))
          /\ \A id : Kept(id)' <=> Kept(id)
      BY <1>7, RegistrySame DEF allVars
    <2> QED BY <1>7, <2>1 DEF allVars, vars, tagVars, TInv, TagsTyped, LastRuns, HashedById,
                              TagsFollowCells, SliceCells, ReactsFollow, ReactsOf
  <1> QED BY <1>1, <1>2, <1>3, <1>4, <1>5, <1>6, <1>7 DEF TagsNext

LEMMA TagsInvariance == TagsSpec => []TInv
  BY TagsInitInv, TagsStepInv, PTL DEF TagsSpec

-----------------------------------------------------------------------------

\* An id stands for its version with the highest number also where placeholders
\* are renamed and tags come and go.
THEOREM HighestNumberWithTags == TagsSpec => []CurrentHasHighestNumber
  BY TagsInvariance, PTL DEF TInv, IInv

\* A slice by tag starts from the latest versions that carry the tag, but for the
\* tags that were taken away, given late or carried by a renamed version.
THEOREM SlicesFollowTags == TagsSpec => []TagsFollowCells
  BY TagsInvariance, PTL DEF TInv

\* A cell runs again after a cell with a tag if and only if its own last run asked
\* for that, under whatever id it had then.
THEOREM ForcedAreThoseWhoAsked == TagsSpec => []ForcedAsAsked
  <1>1. TInv => ForcedAsAsked
    <2> SUFFICES ASSUME TInv, last # None, current[last] # 0, NEW id \in Ids, Kept(id)
                 PROVE  id \in Forced <=> ReactsOf(current[id]) \cap tags[current[last]] # {}
      BY DEF ForcedAsAsked
    <2>1. \A t \in Tags : <<t, id>> \in reactive <=> t \in ReactsOf(current[id])
      BY DEF TInv, ReactsFollow
    <2>2. ReactsOf(current[id]) \in SUBSET Tags
      BY VersionsFacts, TagsFacts DEF TInv
    <2>3. reactive \subseteq Tags \X Ids
      BY DEF TInv, TagsTyped
    <2>4. id \in Forced <=> \E t \in tags[current[last]] : <<t, id>> \in reactive
      <3>1. ASSUME id \in Forced PROVE \E t \in tags[current[last]] : <<t, id>> \in reactive
        <4>1. PICK m \in reactive : m[1] \in tags[current[last]] /\ m[2] = id
          BY <3>1 DEF Forced
        <4>2. m = <<m[1], id>>
          BY <2>3, <4>1
        <4> QED BY <4>1, <4>2
      <3>2. ASSUME NEW t \in tags[current[last]], <<t, id>> \in reactive PROVE id \in Forced
        <4>1. /\ <<t, id>> \in {x \in reactive : x[1] \in tags[current[last]]}
              /\ <<t, id>>[2] = id
          BY <3>2
        <4> QED BY <4>1 DEF Forced
      <3> QED BY <3>1, <3>2
    <2> QED BY <2>1, <2>2, <2>3, <2>4
  <1> QED BY <1>1, TagsInvariance, PTL

=============================================================================
