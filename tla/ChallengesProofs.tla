-------------------------- MODULE ChallengesProofs --------------------------
(***************************************************************************)
(* Proofs about Challenges, for any nodes, providers, models, operators    *)
(* and configured challenge.  What is hard is that the rotation index      *)
(* outlives the list it was computed for: callers hold snapshots of        *)
(* different moments when they take the lock.                              *)
(***************************************************************************)
EXTENDS Challenges, FiniteSetTheorems, WellFoundedInduction, TLAPS

-----------------------------------------------------------------------------
(* The inductive invariant.                                                *)

\* What a dispatch and its judgement leave in the call's variables.
Rans   == {<<>>} \cup (Nodes \X Providers)
Events == {<<>>} \cup [node : Nodes, provider : Providers, passed : BOOLEAN,
                       score : {0, 40, 100}]

Jobs ==
    [model : Nat, tier : Tiers \cup {""}, list : Seq(Providers),
     target : Providers \cup {0}, tried : SUBSET Nodes, ran : Rans, event : Events]

Stages == {"idle", "choosing", "picking", "dispatching", "running", "recording"}

\* The states the nodes, the index and the callers can be in.
TypeOK ==
    /\ status \in [Nodes -> {"gone", "busy", "free"}]
    /\ owner \in [Nodes -> Providers]
    /\ next \in Nat
    /\ at \in [Callers -> Stages]
    /\ job \in [Callers -> Jobs]
    /\ prev \in [list : Seq(Providers), target : Providers \cup {0}]

Distinct(list) == \A i, j \in 1..Len(list) : list[i] = list[j] => i = j

\* No provider is on a list twice, and whoever takes the lock has a list.  A
\* node is only asked on behalf of the provider the call is aimed at, and what
\* its Node said of the provider when it was reserved is what is recorded.
CallOK(stage, j) ==
    /\ Distinct(j.list)
    /\ stage = "picking" => j.list # <<>>
    /\ stage \in {"running", "recording"} =>
          /\ j.ran \in Nodes \X Providers
          /\ j.target # 0 => j.ran[2] = j.target
    /\ stage = "recording" => j.event.provider = j.ran[2]

CallsOK == \A c \in Callers : CallOK(at[c], job[c])

\* The index is the place after the last choice, in the list it was made from.
IndexFollows ==
    /\ Distinct(prev.list)
    /\ prev.list # <<>> =>
          \E k \in 1..Len(prev.list) :
              prev.target = prev.list[k] /\ next = k % Len(prev.list)

ChallengesInv == TypeOK /\ CallsOK /\ IndexFollows

-----------------------------------------------------------------------------
(* Sorting.                                                                *)

\* A set of naturals has a least element.
LEMMA LeastNatural ==
    ASSUME NEW T, T \subseteq Nat, T # {}
    PROVE  \E x \in T : \A y \in T : x <= y
<1> DEFINE Less == OpToRel(<, Nat)
<1>1. IsWellFoundedOn(Less, Nat)
  BY NatLessThanWellFounded, Zenon
<1>2. \A x, y \in Nat : <<y, x>> \notin Less => ~(y < x)
  BY Zenon DEF OpToRel
<1> HIDE DEF Less
<1>3. \E x \in T : \A y \in T : <<y, x>> \notin Less
  BY <1>1, WFMin
<1>4. \A x, y \in Nat : <<y, x>> \notin Less => x <= y
  BY <1>2
<1> QED
  BY <1>3, <1>4

Increasing(list, S) ==
    /\ list \in [1..Cardinality(S) -> S]
    /\ \A i, j \in 1..Cardinality(S) : i < j => list[i] < list[j]

\* A finite set of naturals can be sorted: the least cardinality of one that
\* could not would be that of a set whose rest, without its least element,
\* can be.
LEMMA Sortable ==
    ASSUME NEW S, S \subseteq Nat, IsFiniteSet(S)
    PROVE  \E list : Increasing(list, S)
<1> DEFINE Unsortable(T) ==
             T \subseteq Nat /\ IsFiniteSet(T) /\ ~\E list : Increasing(list, T)
           Bad == {n \in Nat : \E T \in SUBSET Nat : Unsortable(T) /\ Cardinality(T) = n}
<1>1. SUFFICES ASSUME Bad # {} PROVE FALSE
  <2>1. Cardinality(S) \in Nat
    BY FS_CardinalityType
  <2>2. Unsortable(S) => Cardinality(S) \in Bad
    BY <2>1
  <2> QED
    BY <2>2
<1>2. PICK n \in Bad : \A m \in Bad : n <= m
  BY <1>1, LeastNatural
<1>3. PICK T \in SUBSET Nat : Unsortable(T) /\ Cardinality(T) = n
  BY <1>2
<1>4. T # {}
  <2>1. SUFFICES ASSUME T = {} PROVE FALSE
    OBVIOUS
  <2>2. Cardinality(T) = 0
    BY <2>1, FS_EmptySet
  <2>3. Increasing([i \in 1..0 |-> i], T)
    BY <2>1, <2>2 DEF Increasing
  <2> QED
    BY <1>3, <2>3
<1>5. PICK x \in T : \A y \in T : x <= y
  BY <1>4, LeastNatural
<1> DEFINE U == T \ {x}
<1>6. U \subseteq Nat /\ IsFiniteSet(U) /\ Cardinality(U) = n - 1 /\ n \in Nat \ {0}
  <2>1. IsFiniteSet(U) /\ Cardinality(U) = n - 1
    BY <1>3, FS_RemoveElement
  <2>2. Cardinality(U) \in Nat
    BY <2>1, FS_CardinalityType
  <2> QED
    BY <2>1, <2>2
<1>7. PICK rest : Increasing(rest, U)
  BY <1>2, <1>6
<1> DEFINE list == [i \in 1..n |-> IF i = 1 THEN x ELSE rest[i - 1]]
<1>8. Increasing(list, T)
  <2>1. rest \in [1..(n - 1) -> U]
    BY <1>6, <1>7 DEF Increasing
  <2>2. \A i, j \in 1..(n - 1) : i < j => rest[i] < rest[j]
    BY <1>6, <1>7 DEF Increasing
  <2>3. list \in [1..n -> T]
    BY <1>6, <2>1
  <2>4. \A u \in U : x < u
    BY <1>5, <1>6
  <2>5. ASSUME NEW i \in 1..n, NEW j \in 1..n, i < j
        PROVE  list[i] < list[j]
    <3>1. j - 1 \in 1..(n - 1) /\ list[j] = rest[j - 1]
      BY <1>6, <2>5
    <3>2. CASE i = 1
      BY <2>1, <2>4, <3>1, <3>2
    <3>3. CASE i # 1
      <4>1. i - 1 \in 1..(n - 1) /\ list[i] = rest[i - 1]
        BY <1>6, <3>3
      <4> QED
        BY <2>2, <2>5, <3>1, <4>1
    <3> QED
      BY <3>2, <3>3
  <2> QED
    BY <1>3, <2>3, <2>5 DEF Increasing
<1> QED
  BY <1>3, <1>8

\* The keys of a finite map, sorted, are a list without repetitions.
LEMMA SortedDistinct ==
    ASSUME NEW S, S \subseteq Nat, IsFiniteSet(S)
    PROVE  sorted(S) \in Seq(S) /\ Distinct(sorted(S))
<1>1. Increasing(sorted(S), S)
  BY Sortable DEF sorted, Increasing
<1>2. Cardinality(S) \in Nat
  BY FS_CardinalityType
<1>3. sorted(S) \in Seq(S) /\ Len(sorted(S)) = Cardinality(S)
  BY <1>1, <1>2 DEF Increasing
<1>4. ASSUME NEW i \in 1..Cardinality(S), NEW j \in 1..Cardinality(S),
             sorted(S)[i] = sorted(S)[j]
      PROVE  i = j
  <2>1. sorted(S)[i] \in Nat
    BY <1>1 DEF Increasing
  <2> QED
    BY <1>1, <1>2, <1>4, <2>1 DEF Increasing
<1> QED
  BY <1>3, <1>4 DEF Distinct

-----------------------------------------------------------------------------
(* What a call finds in the registry.                                      *)

\* Providers are numbered, and every owner of a node is one.
LEMMA NumberedProviders ==
    Providers \subseteq Nat /\ \A n \in Nodes : OwnersOf[n] \subseteq Providers
<1>1. ASSUME NEW p \in Providers PROVE p \in Nat
  <2>1. PICK n \in Nodes : p \in OwnersOf[n]
    BY DEF Providers
  <2> QED
    BY <2>1, ChallengesAssumption
<1>2. \A n \in Nodes : OwnersOf[n] \subseteq Providers
  BY DEF Providers
<1> QED
  BY <1>1, <1>2

\* So are models; 0 asks for none in particular.
LEMMA NumberedModels == Models \cup {0} \subseteq Nat
<1>1. ASSUME NEW m \in Models PROVE m \in Nat
  <2>1. PICK n \in Nodes : m \in ModelsOf[n]
    BY DEF Models
  <2> QED
    BY <2>1, ChallengesAssumption
<1> QED
  BY <1>1

\* What an operator may ask for, and what the runner asks for.
LEMMA WellFormedAsks ==
    ASSUME NEW ask \in Asks \cup {RunnerAsk}
    PROVE  /\ ask.model \in Models \cup {0} /\ ask.tier \in Tiers \cup {""}
           /\ ask.provider \in Providers \cup {0}
<1>1. ask \in [model : Models \cup {0}, tier : Tiers \cup {""}, provider : Providers \cup {0}]
  BY ChallengesAssumption
<1> QED
  BY <1>1

\* The candidates of a challenge are a list of providers, none of them twice.
LEMMA CandidatesDistinct ==
    ASSUME TypeOK, NEW model, NEW tier
    PROVE  /\ challengeProviderCandidates(model, tier) \in Seq(Providers)
           /\ Distinct(challengeProviderCandidates(model, tier))
<1> DEFINE N == {n \in Nodes : Serves(n, model, tier)}
           S == {owner[n] : n \in N}
<1>1. S \subseteq Providers /\ S \subseteq Nat
  <2>1. \A n \in N : owner[n] \in Providers
    BY DEF TypeOK
  <2> QED
    BY <2>1, NumberedProviders
<1>2. IsFiniteSet(N)
  BY ChallengesAssumption, FS_Subset
<1>3. IsFiniteSet(S)
  <2> DEFINE f == [n \in N |-> owner[n]]
  <2>1. f \in Surjection(N, S)
    BY DEF Surjection
  <2> QED
    BY <1>2, <2>1, FS_Surjection
<1> HIDE DEF S
<1>4. sorted(S) \in Seq(S) /\ Distinct(sorted(S))
  BY <1>1, <1>3, SortedDistinct
<1>5. sorted(S) \in Seq(Providers)
  <2>1. ASSUME NEW list \in Seq(S) PROVE list \in Seq(Providers)
    <3>1. Len(list) \in Nat /\ list \in [1..Len(list) -> S]
      OBVIOUS
    <3>2. list \in [1..Len(list) -> Providers]
      BY <1>1, <3>1
    <3> QED
      BY <3>1, <3>2
  <2> QED
    BY <1>4, <2>1
<1> QED
  BY <1>4, <1>5 DEF challengeProviderCandidates, S

\* The model of a challenge is a name, or 0 when there is none to take.
LEMMA ModelsNumbered ==
    ASSUME NEW ask \in Asks \cup {RunnerAsk}
    PROVE  challengeModel(ask) \in Nat /\ challengeTier(ask) \in Tiers \cup {""}
<1>1. healthyModels \subseteq Nat
  BY NumberedModels DEF healthyModels, Models
<1>2. ask.model \in Nat /\ ask.tier \in Tiers \cup {""}
  BY WellFormedAsks, NumberedModels
<1>3. healthyModels # {} =>
        (CHOOSE x \in healthyModels : \A y \in healthyModels : x <= y) \in Nat
  BY <1>1, LeastNatural
<1> QED
  BY <1>2, <1>3 DEF challengeModel, challengeTier, Tiers

-----------------------------------------------------------------------------
(* The steps.                                                              *)

\* A caller that has nothing to do is in a legal state.
LEMMA NoJobIsOne ==
    NoJob \in Jobs /\ \A stage \in {"idle", "choosing", "dispatching"} : CallOK(stage, NoJob)
<1>1. <<>> \in Rans /\ <<>> \in Events
  BY DEF Rans, Events
<1>2. <<>> \in Seq(Providers)
  OBVIOUS
<1>3. NoJob \in Jobs
  BY <1>1, <1>2 DEF NoJob, Jobs
<1>4. Distinct(NoJob.list)
  BY DEF NoJob, Distinct
<1> QED
  BY <1>3, <1>4 DEF CallOK

\* Nobody runs a challenge at first.
LEMMA ChallengesInit == Init => ChallengesInv
<1> SUFFICES ASSUME Init PROVE ChallengesInv
  OBVIOUS
<1>1. TypeOK
  BY NoJobIsOne DEF Init, TypeOK, Stages
<1>2. CallsOK
  BY NoJobIsOne DEF Init, CallsOK
<1>3. prev.list = <<>>
  BY DEF Init
<1>4. IndexFollows
  BY <1>3 DEF IndexFollows, Distinct
<1> QED
  BY <1>1, <1>2, <1>4 DEF ChallengesInv

\* A step of one caller changes its own call only: the invariant follows from
\* what the step leaves there.
LEMMA OneCall ==
    ASSUME TypeOK, CallsOK, NEW c \in Callers, NEW stage \in Stages, NEW j \in Jobs,
           CallOK(stage, j),
           at' = [at EXCEPT ![c] = stage], job' = [job EXCEPT ![c] = j],
           UNCHANGED <<status, owner>>, next' \in Nat,
           prev' \in [list : Seq(Providers), target : Providers \cup {0}]
    PROVE  TypeOK' /\ CallsOK'
<1>1. TypeOK'
  BY DEF TypeOK
<1>2. ASSUME NEW d \in Callers
      PROVE  CallOK(at'[d], job'[d])
  <2>1. CASE d = c
    <3>1. at'[d] = stage /\ job'[d] = j
      BY <2>1 DEF TypeOK
    <3> QED
      BY <3>1
  <2>2. CASE d # c
    <3>1. at'[d] = at[d] /\ job'[d] = job[d]
      BY <2>2 DEF TypeOK
    <3> QED
      BY <3>1 DEF CallsOK
  <2> QED
    BY <2>1, <2>2
<1>3. CallsOK'
  BY <1>2 DEF CallsOK
<1> QED
  BY <1>1, <1>3

\* The same, for a step that leaves the index alone.
LEMMA OneCallOnly ==
    ASSUME ChallengesInv, NEW c \in Callers, NEW stage \in Stages, NEW j \in Jobs,
           CallOK(stage, j),
           at' = [at EXCEPT ![c] = stage], job' = [job EXCEPT ![c] = j],
           UNCHANGED <<status, owner, next, prev>>
    PROVE  ChallengesInv'
<1>1. next' \in Nat /\ prev' \in [list : Seq(Providers), target : Providers \cup {0}]
  BY DEF ChallengesInv, TypeOK
<1>2. TypeOK' /\ CallsOK'
  BY <1>1, OneCall DEF ChallengesInv
<1>3. IndexFollows'
  BY DEF ChallengesInv, IndexFollows
<1> QED
  BY <1>2, <1>3 DEF ChallengesInv

\* The beginning of a call.
LEMMA BeginStep ==
    ASSUME ChallengesInv, NEW c \in Callers, NEW ask \in Asks \cup {RunnerAsk},
           Begin(c, ask)
    PROVE  ChallengesInv'
<1> DEFINE model == challengeModel(ask)
           tier  == challengeTier(ask)
           stage == IF ask.provider = 0 THEN "choosing" ELSE "dispatching"
           j == [job[c] EXCEPT !.model = model, !.tier = tier, !.target = ask.provider]
<1>1. model \in Nat /\ tier \in Tiers \cup {""} /\ ask.provider \in Providers \cup {0}
  BY ModelsNumbered, WellFormedAsks
<1>2. /\ at' = [at EXCEPT ![c] = stage] /\ job' = [job EXCEPT ![c] = j]
      /\ UNCHANGED <<status, owner, next, prev>>
  BY DEF Begin, Goto
<1>3. job[c] \in Jobs /\ CallOK(at[c], job[c])
  BY DEF ChallengesInv, TypeOK, CallsOK
<1> HIDE DEF model, tier
<1>4. j \in Jobs /\ j.list = job[c].list
  BY <1>1, <1>3 DEF Jobs
<1>5. stage \in {"choosing", "dispatching"} /\ stage \in Stages
  BY DEF Stages
<1> HIDE DEF j, stage
<1>6. CallOK(stage, j)
  BY <1>3, <1>4, <1>5 DEF CallOK
<1> QED
  BY <1>2, <1>4, <1>5, <1>6, OneCallOnly

\* challengeProviderCandidates reads the registry.
LEMMA SnapshotStep ==
    ASSUME ChallengesInv, NEW c \in Callers, Snapshot(c)
    PROVE  ChallengesInv'
<1> DEFINE list  == challengeProviderCandidates(job[c].model, job[c].tier)
           stage == IF list = <<>> THEN "dispatching" ELSE "picking"
           j     == [job[c] EXCEPT !.list = list]
<1>1. list \in Seq(Providers) /\ Distinct(list)
  BY CandidatesDistinct DEF ChallengesInv
<1>2. /\ at' = [at EXCEPT ![c] = stage] /\ job' = [job EXCEPT ![c] = j]
      /\ UNCHANGED <<status, owner, next, prev>>
  BY DEF Snapshot, Goto
<1>3. job[c] \in Jobs
  BY DEF ChallengesInv, TypeOK
<1> HIDE DEF list
<1>4. j \in Jobs /\ j.list = list
  BY <1>1, <1>3 DEF Jobs
<1>5. stage \in {"dispatching", "picking"} /\ stage \in Stages
  BY DEF Stages
<1>6. stage = "picking" => list # <<>>
  OBVIOUS
<1> HIDE DEF j, stage
<1>7. CallOK(stage, j)
  BY <1>1, <1>4, <1>5, <1>6 DEF CallOK
<1> QED
  BY <1>2, <1>4, <1>5, <1>7, OneCallOnly

\* The critical section: wherever the index stood, it moves behind the choice.
LEMMA PickStep ==
    ASSUME ChallengesInv, NEW c \in Callers, nextSyntheticChallengeProvider(c)
    PROVE  ChallengesInv'
<1> DEFINE list == job[c].list
           i == IF next >= Len(list) THEN 0 ELSE next
           j == [job[c] EXCEPT !.target = list[i + 1], !.list = <<>>]
<1>1. job[c] \in Jobs /\ CallOK("picking", job[c]) /\ next \in Nat
  BY DEF nextSyntheticChallengeProvider, ChallengesInv, TypeOK, CallsOK
<1>2. list \in Seq(Providers) /\ list # <<>> /\ Distinct(list)
  BY <1>1 DEF Jobs, CallOK
<1>3. Len(list) \in Nat \ {0} /\ i + 1 \in 1..Len(list)
  BY <1>1, <1>2
<1>4. list[i + 1] \in Providers /\ (i + 1) % Len(list) \in Nat
  BY <1>2, <1>3
<1>5. /\ at' = [at EXCEPT ![c] = "dispatching"]
      /\ next' = (i + 1) % Len(list)
      /\ job' = [job EXCEPT ![c] = j]
      /\ prev' = [list |-> list, target |-> list[i + 1]]
      /\ UNCHANGED <<status, owner>>
  BY DEF nextSyntheticChallengeProvider, Goto
<1> HIDE DEF list, i
<1>6. j \in Jobs /\ j.list = <<>>
  <2>1. <<>> \in Seq(Providers) /\ list[i + 1] \in Providers \cup {0}
    BY <1>4
  <2> QED
    BY <1>1, <2>1 DEF Jobs
<1> HIDE DEF j
<1>7. CallOK("dispatching", j)
  BY <1>6 DEF CallOK, Distinct
<1>8. prev' \in [list : Seq(Providers), target : Providers \cup {0}] /\ next' \in Nat
  BY <1>2, <1>4, <1>5
<1>9. TypeOK' /\ CallsOK'
  <2>1. "dispatching" \in Stages
    BY DEF Stages
  <2> QED
    BY <1>5, <1>6, <1>7, <1>8, <2>1, OneCall DEF ChallengesInv
<1>10. IndexFollows'
  <2>1. prev'.list = list /\ prev'.target = list[i + 1]
    BY <1>5
  <2> QED
    BY <1>2, <1>3, <1>5, <2>1 DEF IndexFollows
<1> QED
  BY <1>9, <1>10 DEF ChallengesInv

\* The dispatch of a challenge and the event made of its outcome.
LEMMA DispatchSteps ==
    ASSUME ChallengesInv, NEW c \in Callers,
           \/ \E n \in Nodes : Reserve(c, n)
           \/ NoNode(c) \/ Retry(c) \/ DispatchFails(c) \/ Recorded(c)
           \/ \E passed \in BOOLEAN : Judge(c, passed)
    PROVE  ChallengesInv'
<1>1. job[c] \in Jobs /\ CallOK(at[c], job[c])
  BY DEF ChallengesInv, TypeOK, CallsOK
<1>2. CASE \E n \in Nodes : Reserve(c, n)
  <2>1. PICK n \in Nodes : Reserve(c, n)
    BY <1>2
  <2> DEFINE ran == <<n, owner[n]>>
             j   == [job[c] EXCEPT !.ran = ran]
  <2>2. /\ at' = [at EXCEPT ![c] = "running"] /\ job' = [job EXCEPT ![c] = j]
        /\ UNCHANGED <<status, owner, next, prev>>
    BY <2>1 DEF Reserve, Goto
  <2>3. /\ ran \in Nodes \X Providers /\ ran \in Rans
        /\ job[c].target # 0 => ran[2] = job[c].target
    BY <2>1 DEF Reserve, Candidate, ChallengesInv, TypeOK, Rans
  <2> HIDE DEF ran
  <2>4. /\ j \in Jobs /\ j.list = job[c].list /\ j.ran = ran
        /\ j.target = job[c].target
    BY <1>1, <2>3 DEF Jobs
  <2> HIDE DEF j
  <2>5. CallOK("running", j)
    BY <1>1, <2>3, <2>4 DEF CallOK
  <2>6. "running" \in Stages
    BY DEF Stages
  <2> QED
    BY <2>2, <2>4, <2>5, <2>6, OneCallOnly
<1>3. CASE NoNode(c) \/ Recorded(c)
  <2>1. /\ at' = [at EXCEPT ![c] = "idle"] /\ job' = [job EXCEPT ![c] = NoJob]
        /\ UNCHANGED <<status, owner, next, prev>>
    BY <1>3 DEF NoNode, Recorded, Returns, Goto
  <2>2. "idle" \in Stages /\ CallOK("idle", NoJob) /\ NoJob \in Jobs
    BY NoJobIsOne DEF Stages
  <2> QED
    BY <2>1, <2>2, OneCallOnly
<1>4. CASE Retry(c)
  <2> DEFINE tried == job[c].tried \cup {job[c].ran[1]}
             j     == [job[c] EXCEPT !.tried = tried, !.ran = <<>>]
  <2>1. job[c].ran \in Nodes \X Providers
    BY <1>1, <1>4 DEF Retry, CallOK
  <2>2. tried \in SUBSET Nodes /\ <<>> \in Rans
    BY <1>1, <2>1 DEF Jobs, Rans
  <2>3. /\ at' = [at EXCEPT ![c] = "dispatching"] /\ job' = [job EXCEPT ![c] = j]
        /\ UNCHANGED <<status, owner, next, prev>>
    BY <1>4 DEF Retry, Goto
  <2> HIDE DEF tried
  <2>4. j \in Jobs /\ j.list = job[c].list
    BY <1>1, <2>2 DEF Jobs
  <2> HIDE DEF j
  <2>5. CallOK("dispatching", j) /\ "dispatching" \in Stages
    BY <1>1, <2>4 DEF CallOK, Stages
  <2> QED
    BY <2>3, <2>4, <2>5, OneCallOnly
<1>5. CASE DispatchFails(c) \/ \E passed \in BOOLEAN : Judge(c, passed)
  <2>1. PICK passed \in BOOLEAN, score \in {0, 40, 100} :
          /\ at[c] = "running" /\ at' = [at EXCEPT ![c] = "recording"]
          /\ job' = [job EXCEPT ![c].event = Event(c, job[c].ran[2], passed, score)]
          /\ UNCHANGED <<status, owner, next, prev>>
    BY <1>5 DEF DispatchFails, Judge, Goto
  <2> DEFINE e == Event(c, job[c].ran[2], passed, score)
             j == [job[c] EXCEPT !.event = e]
  <2>2. /\ job[c].ran \in Nodes \X Providers
        /\ job[c].target # 0 => job[c].ran[2] = job[c].target
    BY <1>1, <2>1 DEF CallOK
  <2>3. e \in Events /\ e.provider = job[c].ran[2]
    BY <2>2 DEF Event, Events
  <2>4. job' = [job EXCEPT ![c] = j]
    BY <2>1
  <2> HIDE DEF e
  <2>5. /\ j \in Jobs /\ j.list = job[c].list /\ j.ran = job[c].ran
        /\ j.target = job[c].target /\ j.event = e
    BY <1>1, <2>3 DEF Jobs
  <2> HIDE DEF j
  <2>6. CallOK("recording", j) /\ "recording" \in Stages
    BY <1>1, <2>2, <2>3, <2>5 DEF CallOK, Stages
  <2> QED
    BY <2>1, <2>4, <2>5, <2>6, OneCallOnly
<1> QED
  BY <1>2, <1>3, <1>4, <1>5

\* Every step of the callers and of the nodes keeps the invariant.
LEMMA ChallengesStep ==
    ASSUME ChallengesInv, [Next]_vars
    PROVE  ChallengesInv'
<1>1. CASE UNCHANGED vars
  BY <1>1 DEF vars, ChallengesInv, TypeOK, CallsOK, IndexFollows
<1>2. ASSUME NEW c \in Callers, NEW ask \in Asks \cup {RunnerAsk}, BeginFails(c, ask)
      PROVE  ChallengesInv'
  BY <1>1, <1>2 DEF BeginFails
<1>3. ASSUME NEW c \in Callers, CallerStep(c)
      PROVE  ChallengesInv'
  <2>1. CASE Snapshot(c)
    BY <2>1, SnapshotStep
  <2>2. CASE nextSyntheticChallengeProvider(c)
    BY <2>2, PickStep
  <2>3. CASE \/ \E n \in Nodes : Reserve(c, n)
             \/ NoNode(c) \/ Retry(c) \/ DispatchFails(c) \/ Recorded(c)
             \/ \E passed \in BOOLEAN : Judge(c, passed)
    BY <2>3, DispatchSteps
  <2> QED
    BY <1>3, <2>1, <2>2, <2>3 DEF CallerStep
<1>4. CASE startChallengeRunner
  <2>1. Runner \in Callers /\ RunnerAsk \in Asks \cup {RunnerAsk}
    BY DEF Callers
  <2>2. CASE Begin(Runner, RunnerAsk)
    BY <2>1, <2>2, BeginStep
  <2>3. CASE BeginFails(Runner, RunnerAsk)
    BY <1>2, <2>1, <2>3
  <2>4. CASE CallerStep(Runner)
    BY <1>3, <2>1, <2>4
  <2> QED
    BY <1>4, <2>2, <2>3, <2>4 DEF startChallengeRunner
<1>5. CASE \E c \in Operators : adminRunChallenge(c)
  <2>1. PICK c \in Operators : adminRunChallenge(c)
    BY <1>5
  <2>2. c \in Callers
    BY DEF Callers
  <2>3. CASE CallerStep(c)
    BY <1>3, <2>2, <2>3
  <2>4. CASE \E ask \in Asks : Begin(c, ask) \/ BeginFails(c, ask)
    <3>1. PICK ask \in Asks : Begin(c, ask) \/ BeginFails(c, ask)
      BY <2>4
    <3>2. ask \in Asks \cup {RunnerAsk}
      OBVIOUS
    <3>3. CASE Begin(c, ask)
      BY <2>2, <3>2, <3>3, BeginStep
    <3>4. CASE BeginFails(c, ask)
      BY <1>2, <2>2, <3>2, <3>4
    <3> QED
      BY <3>1, <3>3, <3>4
  <2> QED
    BY <2>1, <2>3, <2>4 DEF adminRunChallenge
<1>6. CASE \/ \E n \in Nodes, s \in {"gone", "busy", "free"} : StatusChanges(n, s)
           \/ \E n \in Nodes : \E p \in OwnersOf[n] : Register(n, p)
  <2>1. UNCHANGED <<next, at, job, prev>>
    BY <1>6 DEF StatusChanges, Register
  <2>2. /\ status' \in [Nodes -> {"gone", "busy", "free"}]
        /\ owner' \in [Nodes -> Providers]
    <3>1. CASE \E n \in Nodes, s \in {"gone", "busy", "free"} : StatusChanges(n, s)
      BY <3>1 DEF ChallengesInv, TypeOK, StatusChanges
    <3>2. CASE \E n \in Nodes : \E p \in OwnersOf[n] : Register(n, p)
      <4>1. PICK n \in Nodes, p \in Providers : Register(n, p)
        BY <3>2, NumberedProviders
      <4> QED
        BY <4>1 DEF ChallengesInv, TypeOK, Register
    <3> QED
      BY <1>6, <3>1, <3>2
  <2>3. TypeOK'
    BY <2>1, <2>2 DEF ChallengesInv, TypeOK
  <2> QED
    BY <2>1, <2>3 DEF ChallengesInv, CallsOK, IndexFollows
<1> QED
  BY <1>1, <1>4, <1>5, <1>6 DEF Next

\* The inductive invariant of the callers and the index always holds.
THEOREM ChallengesInvariant == Spec => []ChallengesInv
<1>1. ChallengesInv /\ [Next]_vars => ChallengesInv'
  BY ChallengesStep
<1> QED
  BY <1>1, ChallengesInit, PTL DEF Spec

\* runSyntheticChallenge records an event for the provider whose node was
\* asked, and for no other than the one the challenge was aimed at.
THEOREM EventsJudgeTheRightProvider == Spec => []RightProviderJudged
<1>1. ChallengesInv => RightProviderJudged
  BY DEF ChallengesInv, CallsOK, CallOK, RightProviderJudged
<1> QED
  BY <1>1, ChallengesInvariant, PTL

\* The place after the k-th of a list without repetitions is found by After.
LEMMA AfterIsNext ==
    ASSUME NEW list \in Seq(Providers), Distinct(list), NEW k \in 1..Len(list)
    PROVE  After(list, list[k]) = list[(k % Len(list)) + 1]
<1>1. \A i \in 1..Len(list) : list[i] = list[k] <=> i = k
  BY DEF Distinct
<1>2. (CHOOSE i \in 1..Len(list) : list[i] = list[k]) = k
  BY <1>1
<1> QED
  BY <1>2 DEF After

\* nextSyntheticChallengeProvider goes round: a choice from the list that the
\* last choice was made from is the one after it.
THEOREM ChoicesTakeTurns == Spec => TakesTurns
<1> DEFINE Turn ==
      \A c \in Callers :
          at[c] = "picking" /\ at'[c] = "dispatching" /\ job[c].list = prev.list =>
              job'[c].target = After(prev.list, prev.target)
<1>1. ChallengesInv /\ [Next]_vars => Turn
  <2> SUFFICES ASSUME ChallengesInv, [Next]_vars, NEW c \in Callers,
                      at[c] = "picking", at'[c] = "dispatching",
                      job[c].list = prev.list
               PROVE  job'[c].target = After(prev.list, prev.target)
    OBVIOUS
  <2>1. nextSyntheticChallengeProvider(c)
    <3>1. at \in [Callers -> Stages]
      BY DEF ChallengesInv, TypeOK
    <3>2. ASSUME NEW d \in Callers, NEW stage, at[d] # "picking", Goto(d, stage)
          PROVE  FALSE
      BY <3>1, <3>2 DEF Goto
    <3>3. ASSUME NEW d \in Callers, NEW ask, Begin(d, ask)
          PROVE  FALSE
      BY <3>2, <3>3 DEF Begin
    <3>4. ASSUME NEW d \in Callers, CallerStep(d)
          PROVE  nextSyntheticChallengeProvider(c)
      <4>1. CASE nextSyntheticChallengeProvider(d)
        <5>1. d = c
          BY <3>1, <4>1 DEF nextSyntheticChallengeProvider, Goto
        <5> QED
          BY <4>1, <5>1
      <4>2. CASE ~nextSyntheticChallengeProvider(d)
        BY <3>2, <3>4, <4>2
        DEF CallerStep, Snapshot, Reserve, NoNode, Retry, DispatchFails, Recorded, Returns,
            Judge
      <4> QED
        BY <4>1, <4>2
    <3>5. ~UNCHANGED at
      OBVIOUS
    <3>6. \A d \in Callers : \A ask : ~Begin(d, ask) /\ ~BeginFails(d, ask)
      BY <3>3, <3>5 DEF BeginFails, vars
    <3>7. \A n, s : ~StatusChanges(n, s) /\ ~Register(n, s)
      BY <3>5 DEF StatusChanges, Register
    <3> QED
      BY <3>4, <3>5, <3>6, <3>7
      DEF Next, startChallengeRunner, adminRunChallenge, vars, Callers
  <2>2. prev.list \in Seq(Providers) /\ prev.list # <<>> /\ Distinct(prev.list)
    BY DEF ChallengesInv, TypeOK, CallsOK, CallOK, IndexFollows
  <2>3. PICK k \in 1..Len(prev.list) :
          prev.target = prev.list[k] /\ next = k % Len(prev.list)
    BY <2>2 DEF ChallengesInv, IndexFollows
  <2>4. Len(prev.list) \in Nat \ {0} /\ next < Len(prev.list)
    <3>1. Len(prev.list) \in Nat \ {0}
      BY <2>2
    <3>2. \A m \in Nat \ {0} : \A l \in 1..m : l % m < m
      OBVIOUS
    <3> QED
      BY <2>3, <3>1, <3>2
  <2>5. job'[c].target = prev.list[next + 1]
    <3> DEFINE list == job[c].list
               i == IF next >= Len(list) THEN 0 ELSE next
               p == list[i + 1]
    <3>1. job' = [job EXCEPT ![c] = [job[c] EXCEPT !.target = p, !.list = <<>>]]
      BY <2>1 DEF nextSyntheticChallengeProvider
    <3>2. next \in Nat
      BY DEF ChallengesInv, TypeOK
    <3>3. p = prev.list[next + 1]
      BY <2>4, <3>2
    <3>4. job \in [Callers -> Jobs]
      BY DEF ChallengesInv, TypeOK
    <3> HIDE DEF p
    <3>5. job'[c].target = p
      BY <3>1, <3>4 DEF Jobs
    <3> QED
      BY <3>3, <3>5
  <2> QED
    BY <2>2, <2>3, <2>5, AfterIsNext
<1> QED
  BY <1>1, ChallengesInvariant, PTL DEF Spec, TakesTurns

=============================================================================
