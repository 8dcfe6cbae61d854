-------------------------- MODULE ExperimentProofs --------------------------
(***************************************************************************)
(* What Experiment guarantees for every set of charts, session keys,       *)
(* intervals and menus, whatever is drawn and however late plays are       *)
(* recorded.  The argument: a chart that a session takes was in nobody's   *)
(* hands when the session was assigned, so no two targets can be served by *)
(* one play, and what a play did for its target is never counted again.    *)
(***************************************************************************)
EXTENDS Experiment, FiniteSetTheorems, TLAPS

-----------------------------------------------------------------------------
(* Drawing charts.                                                         *)

\* Induction over finite sets: some members of a family of subsets of a finite
\* set have no smaller one in the family.
LEMMA SmallestSubset ==
    ASSUME NEW S, IsFiniteSet(S), NEW T, T \subseteq SUBSET S, T # {}
    PROVE  \E m \in T : \A u \in T : u \subseteq m => u = m
<1>1. IsWellFoundedOn(StrictSubsetOrdering(S), SUBSET S)
  BY FS_StrictSubsetOrderingWellFounded, FS_FiniteSubsetsOfFinite
<1>2. PICK m \in T : \A u \in T : <<u, m>> \notin StrictSubsetOrdering(S)
  BY <1>1, WFMin
<1>3. ASSUME NEW u \in T, u \subseteq m PROVE u = m
  <2>1. <<u, m>> \in (SUBSET S) \X (SUBSET S)
    OBVIOUS
  <2> QED
    BY <1>2, <1>3, <2>1 DEF StrictSubsetOrdering
<1> QED
  BY <1>3

\* A finite set of numbers has a greatest one.
LEMMA GreatestExists ==
    ASSUME NEW S, \A s \in S : s \in Nat, IsFiniteSet(S), S # {}
    PROVE  \E m \in S : \A s \in S : s <= m
<1> DEFINE T == {u \in SUBSET S : u # {} /\ ~ \E m \in u : \A s \in u : s <= m}
<1> SUFFICES ASSUME T # {} PROVE FALSE
  OBVIOUS
<1>1. PICK u \in T : \A v \in T : v \subseteq u => v = u
  <2>1. T \subseteq SUBSET S
    OBVIOUS
  <2> HIDE DEF T
  <2> QED
    BY <2>1, SmallestSubset
<1>2. PICK x \in u : TRUE
  OBVIOUS
<1>3. u \ {x} \notin T
  BY <1>1, <1>2
<1>4. CASE u \ {x} = {}
  <2>1. u = {x} /\ x \in Nat
    BY <1>2, <1>4
  <2> QED
    BY <1>1, <2>1
<1>5. CASE u \ {x} # {}
  <2>1. PICK m \in u \ {x} : \A s \in u \ {x} : s <= m
    BY <1>3, <1>5
  <2>2. m \in Nat /\ x \in Nat /\ m \in u
    BY <1>2, <2>1
  <2>3. CASE x <= m
    BY <1>1, <2>1, <2>2, <2>3
  <2>4. CASE m < x
    <3>1. \A s \in u : s \in Nat /\ s <= x
      BY <2>1, <2>2, <2>4
    <3> QED
      BY <1>1, <1>2, <3>1
  <2> QED
    BY <2>2, <2>3, <2>4
<1> QED
  BY <1>4, <1>5

\* And a least one.
LEMMA LeastExists ==
    ASSUME NEW S, \A s \in S : s \in Nat, S # {}
    PROVE  \E m \in S : \A s \in S : m <= s
<1>1. PICK n \in S : TRUE
  OBVIOUS
<1> DEFINE below == {n - s : s \in {i \in S : i <= n}}
<1>2. below \subseteq 0..n /\ below # {} /\ \A b \in below : b \in Nat
  <2>1. \A s \in {i \in S : i <= n} : n - s \in 0..n
    BY <1>1
  <2>2. n - n \in below
    BY <1>1
  <2>3. below \subseteq 0..n
    BY <2>1
  <2> QED
    BY <2>1, <2>2
<1>3. IsFiniteSet(below)
  <2>1. IsFiniteSet(0..n)
    BY <1>1, FS_Interval
  <2> HIDE DEF below
  <2> QED
    BY <1>2, <2>1, FS_Subset
<1>4. PICK b \in below : \A c \in below : c <= b
  <2> HIDE DEF below
  <2> QED
    BY <1>2, <1>3, GreatestExists
<1>5. PICK m \in S : m <= n /\ b = n - m
  OBVIOUS
<1>6. ASSUME NEW s \in S PROVE m <= s
  <2>1. s \in Nat /\ m \in Nat /\ n \in Nat
    BY <1>1
  <2>2. CASE s <= n
    <3>1. n - s \in below
      BY <2>2
    <3> QED
      BY <1>4, <1>5, <2>1, <3>1
  <2> QED
    BY <1>5, <2>1, <2>2
<1> QED
  BY <1>6

\* Some chart of a list has any number of charts before it that is less than
\* the length of the list.
LEMMA RankExists ==
    ASSUME NEW S, \A s \in S : s \in Nat, IsFiniteSet(S),
           NEW n \in Nat, n < Cardinality(S)
    PROVE  \E c \in S : Cardinality({d \in S : d < c}) = n
<1> DEFINE Ranked(u) == \A i \in Nat : i < Cardinality(u) =>
                           \E c \in u : Cardinality({d \in u : d < c}) = i
           T == {u \in SUBSET S : ~Ranked(u)}
<1>1. SUFFICES T = {}
  OBVIOUS
<1>2. SUFFICES ASSUME T # {} PROVE FALSE
  OBVIOUS
<1>3. PICK u \in T : \A v \in T : v \subseteq u => v = u
  <2>1. T \subseteq SUBSET S
    OBVIOUS
  <2>2. T # {}
    BY <1>2
  <2> HIDE DEF T
  <2> QED
    BY <2>1, <2>2, SmallestSubset
<1>4. IsFiniteSet(u) /\ \A s \in u : s \in Nat
  BY FS_Subset
<1>5. PICK i \in Nat : i < Cardinality(u) /\ ~ \E c \in u : Cardinality({d \in u : d < c}) = i
  OBVIOUS
<1>6. u # {} /\ Cardinality(u) \in Nat
  BY <1>4, <1>5, FS_EmptySet, FS_CardinalityType
<1>7. PICK m \in u : \A s \in u : s <= m
  BY <1>4, <1>6, GreatestExists
<1>8. IsFiniteSet(u \ {m}) /\ Cardinality(u \ {m}) = Cardinality(u) - 1
  BY <1>4, <1>7, FS_RemoveElement
<1>9. Ranked(u \ {m})
  BY <1>3, <1>7
<1>10. CASE i = Cardinality(u) - 1
  <2>1. \A d \in u : d \in Nat /\ m \in Nat /\ (d < m <=> d # m)
    BY <1>4, <1>7
  <2>2. {d \in u : d < m} = u \ {m}
    BY <2>1
  <2> QED
    BY <1>5, <1>7, <1>8, <1>10, <2>2
<1>11. CASE i < Cardinality(u) - 1
  <2>1. PICK c \in u \ {m} : Cardinality({d \in u \ {m} : d < c}) = i
    BY <1>8, <1>9, <1>11
  <2>2. c < m /\ c \in Nat /\ m \in Nat
    BY <1>4, <1>7, <2>1
  <2>3. {d \in u \ {m} : d < c} = {d \in u : d < c}
    BY <2>2
  <2> QED
    BY <1>5, <2>1, <2>3
<1> QED
  BY <1>5, <1>6, <1>10, <1>11

\* What is drawn from a list is on the list.
LEMMA NthIsListed ==
    ASSUME NEW S, \A s \in S : s \in Nat, IsFiniteSet(S), S # {}, NEW n \in Nat
    PROVE  Nth(S, n) \in S
<1>1. Cardinality(S) \in Nat /\ Cardinality(S) # 0
  BY FS_EmptySet, FS_CardinalityType
<1>2. n % Cardinality(S) \in Nat /\ n % Cardinality(S) < Cardinality(S)
  BY <1>1
<1>3. \E c \in S : Cardinality({d \in S : d < c}) = n % Cardinality(S)
  BY <1>2, RankExists
<1> QED
  BY <1>3 DEF Nth

Earlier(i) == {x \in Intervals : x < i}

IsDrawn(g, pool, draw) ==
    g = [i \in Intervals |-> Nth(pool \ {g[j] : j \in Earlier(i)}, draw[i])]

\* The draws of a session, one interval after another, are well defined.
LEMMA DrawsExist == \A pool, draw : \E g : IsDrawn(g, pool, draw)
<1> TAKE pool, draw
<1> DEFINE Initial(D) == \A i \in D : Earlier(i) \subseteq D
           Draws(D) == \E g : g = [i \in D |-> Nth(pool \ {g[j] : j \in Earlier(i)}, draw[i])]
           T == {D \in SUBSET Intervals : Initial(D) /\ ~Draws(D)}
<1>1. ASSUME T # {} PROVE FALSE
  <2>1. PICK D \in T : \A E \in T : E \subseteq D => E = D
    <3>1. T \subseteq SUBSET Intervals /\ IsFiniteSet(Intervals)
      BY ExperimentAssumption
    <3> HIDE DEF T
    <3> QED
      BY <1>1, <3>1, SmallestSubset
  <2>2. D # {}
    <3>1. ASSUME D = {} PROVE Draws(D)
      <4> DEFINE g == [i \in {} |-> 0]
      <4>1. g = [i \in {} |-> Nth(pool \ {g[j] : j \in Earlier(i)}, draw[i])]
        OBVIOUS
      <4> QED
        BY <3>1, <4>1
    <3> QED
      BY <2>1, <3>1
  <2>3. IsFiniteSet(D) /\ \A i \in D : i \in Nat
    BY ExperimentAssumption, FS_Subset
  <2>4. PICK m \in D : \A i \in D : i <= m
    BY <2>2, <2>3, GreatestExists
  <2>5. \A i \in D \ {m} : i \in Nat /\ m \in Nat /\ i < m
    BY <2>3, <2>4
  <2>6. \A i \in D \ {m} : Earlier(i) \subseteq D \ {m}
    BY <2>5 DEF Earlier
  <2>7. Draws(D \ {m})
    BY <2>1, <2>4, <2>6
  <2>8. PICK g : g = [i \in D \ {m} |-> Nth(pool \ {g[j] : j \in Earlier(i)}, draw[i])]
    BY <2>7
  <2> DEFINE value == Nth(pool \ {g[j] : j \in Earlier(m)}, draw[m])
             h == [i \in D |-> IF i = m THEN value ELSE g[i]]
  <2>9. Earlier(m) \subseteq D \ {m}
    BY <2>3, <2>4 DEF Earlier
  <2>10. \A i \in D : {h[j] : j \in Earlier(i)} = {g[j] : j \in Earlier(i)}
    BY <2>6, <2>9
  <2>11. \A i \in D : h[i] = Nth(pool \ {g[j] : j \in Earlier(i)}, draw[i])
    BY <2>8
  <2>12. h = [i \in D |-> Nth(pool \ {h[j] : j \in Earlier(i)}, draw[i])]
    BY <2>10, <2>11
  <2> QED
    BY <2>1, <2>12
<1>2. Draws(Intervals)
  BY <1>1 DEF Earlier
<1> QED
  BY <1>2 DEF IsDrawn

\* What the draws of a session satisfy.
LEMMA TransferChartsDef ==
    ASSUME NEW k
    PROVE  IsDrawn(TransferCharts(k), Left(k).transfer, Draw[k].transfer)
<1> DEFINE pool == Left(k).transfer
           draw == Draw[k].transfer
<1>1. TransferCharts(k) = CHOOSE g : IsDrawn(g, pool, draw)
  BY DEF TransferCharts, Earlier, IsDrawn
<1> HIDE DEF pool, draw
<1>2. \E g : IsDrawn(g, pool, draw)
  BY DrawsExist
<1>3. IsDrawn(TransferCharts(k), pool, draw)
  BY <1>1, <1>2
<1> QED
  BY <1>3 DEF pool, draw

\* If there are charts enough, the draws are from the pool and all different.
LEMMA DrawsDiffer ==
    ASSUME NEW pool, NEW draw, NEW f, IsDrawn(f, pool, draw),
           \A c \in pool : c \in Nat, IsFiniteSet(pool),
           Cardinality(pool) >= Cardinality(Intervals),
           draw \in [Intervals -> Nat]
    PROVE  /\ \A i \in Intervals : f[i] \in pool
           /\ \A i, j \in Intervals : f[i] = f[j] => i = j
<1>1. ASSUME NEW i \in Intervals
      PROVE  f[i] \in pool \ {f[j] : j \in Earlier(i)}
  <2> DEFINE drawn == {f[j] : j \in Earlier(i)}
             g == [j \in Earlier(i) |-> f[j]]
  <2>1. IsFiniteSet(Earlier(i)) /\ Cardinality(Earlier(i)) < Cardinality(Intervals)
    <3>1. i \in Int /\ IsFiniteSet(Intervals)
      BY ExperimentAssumption
    <3>2. Earlier(i) \subseteq Intervals /\ i \notin Earlier(i)
      BY <3>1 DEF Earlier
    <3>3. /\ IsFiniteSet(Earlier(i))
          /\ Cardinality(Earlier(i)) <= Cardinality(Intervals)
          /\ Cardinality(Earlier(i)) # Cardinality(Intervals)
      BY <3>1, <3>2, FS_Subset
    <3> QED
      BY <3>1, <3>3, FS_CardinalityType
  <2>2. g \in Surjection(Earlier(i), drawn)
    BY DEF Surjection
  <2>3. IsFiniteSet(drawn) /\ Cardinality(drawn) <= Cardinality(Earlier(i))
    BY <2>1, <2>2, FS_Surjection
  <2>4. pool \ drawn # {}
    <3>1. ASSUME pool \subseteq drawn PROVE FALSE
      <4>1. Cardinality(pool) <= Cardinality(drawn)
        BY <2>3, <3>1, FS_Subset
      <4> QED
        BY <2>1, <2>3, <4>1, ExperimentAssumption, FS_CardinalityType
    <3> QED
      BY <3>1
  <2>5. IsFiniteSet(pool \ drawn) /\ \A c \in pool \ drawn : c \in Nat
    BY FS_Difference
  <2>6. f[i] = Nth(pool \ drawn, draw[i])
    BY DEF IsDrawn
  <2> HIDE DEF drawn
  <2>7. Nth(pool \ drawn, draw[i]) \in pool \ drawn
    BY <2>4, <2>5, NthIsListed
  <2> QED
    BY <2>6, <2>7 DEF drawn
<1>2. ASSUME NEW i \in Intervals, NEW j \in Intervals, j < i PROVE f[i] # f[j]
  BY <1>1, <1>2 DEF Earlier
<1>3. \A i \in Intervals : i \in Nat
  BY ExperimentAssumption
<1> QED
  BY <1>1, <1>2, <1>3

-----------------------------------------------------------------------------
(* The invariant.                                                          *)

Target ==
    [chart : Charts \cup {0}, at : TimeOf, due : Nat,
     status : {"none", "pending", "resolved", "missing", "duplicate"}, play : 0..MaxPlays]

\* Plays are numbered in the order in which they are played.
PlaysNumbered == \E n \in 0..MaxPlays : DOMAIN plays = 1..n

\* The targets that a resolve command has read are pending until it is done.
DueArePending == due \subseteq Pending

\* A target has the time of its session; one without a session is not there.
TargetsOfSessions ==
    \A t \in Targets :
        /\ targets[t] \in Target
        /\ targets[t].status = "none" <=> targets[t] = NoTarget
        /\ targets[t] # NoTarget => /\ sessions[t[1]] # NoSession
                                    /\ targets[t].at = sessions[t[1]].at

\* The play that serves a target is one of its chart on its day.
OutcomesOfTargets ==
    \A t \in Targets : targets[t].play # 0 =>
        /\ targets[t].play \in DOMAIN plays
        /\ plays[targets[t].play].chart = targets[t].chart
        /\ plays[targets[t].play].at = targets[t].due

Consistent == TypeOK /\ PlaysNumbered /\ DueArePending /\ TargetsOfSessions

IInv == Consistent /\ OutcomesOfTargets /\ ChartsPlayOnePart /\ DuplicatesAreReal

\* Targets are told apart by session, kind and interval.
LEMMA TargetParts ==
    /\ \A t \in Targets : /\ t[1] \in Keys /\ t[2] \in TargetKinds
                          /\ t[3] \in Intervals /\ t[3] \in Nat
    /\ \A t, u \in Targets : t[1] = u[1] /\ t[2] = u[2] /\ t[3] = u[3] => t = u
<1>1. \A i \in Intervals : i \in Nat
  BY ExperimentAssumption
<1> QED
  BY <1>1 DEF Targets

\* The charts of an accepted session: one from the lists of its arm, others
\* from the list for transfers, none of them chosen before.
LEMMA ChartsOfSession ==
    ASSUME TypeOK, NEW k \in Keys, Acceptable(Left(k))
    PROVE  /\ SelectedChart(k) \in Charts \ Reserved
           /\ SelectedChart(k) \notin Left(k).transfer
           /\ Left(k).transfer \subseteq Charts \ Reserved
           /\ Left(k) \in Sets
           /\ \A i \in Intervals : TransferCharts(k)[i] \in Left(k).transfer
           /\ \A i, j \in Intervals : TransferCharts(k)[i] = TransferCharts(k)[j] => i = j
<1>1. /\ read[k].coach \subseteq Charts
      /\ read[k].control \subseteq Charts
      /\ read[k].transfer \subseteq Charts
  BY DEF TypeOK, Sets
<1>2. /\ Left(k).coach \subseteq Charts \ Reserved
      /\ Left(k).control \subseteq Charts \ Reserved
      /\ Left(k).transfer \subseteq Charts \ Reserved
      /\ Left(k) \in Sets
  BY <1>1 DEF Left, Sets
<1>3. \A S \in SUBSET Charts : IsFiniteSet(S) /\ \A c \in S : c \in Nat
  BY ExperimentAssumption, FS_Subset
<1>4. Left(k)[ArmOf(k)] \subseteq Left(k).coach \cup Left(k).control /\ Left(k)[ArmOf(k)] # {}
  BY DEF Acceptable, Usable, ArmOf
<1>5. Draw[k].selection \in Nat /\ Draw[k].transfer \in [Intervals -> Nat]
  BY ExperimentAssumption
<1>6. SelectedChart(k) \in Left(k)[ArmOf(k)]
  <2>1. \A S, n : S \in SUBSET Charts /\ S # {} /\ n \in Nat => Nth(S, n) \in S
    BY <1>3, NthIsListed
  <2>2. Left(k)[ArmOf(k)] \in SUBSET Charts
    BY <1>2, <1>4
  <2> QED
    BY <1>4, <1>5, <2>1, <2>2 DEF SelectedChart
<1>7. SelectedChart(k) \notin Left(k).transfer
  BY <1>4, <1>6 DEF Acceptable
<1>8. /\ \A i \in Intervals : TransferCharts(k)[i] \in Left(k).transfer
      /\ \A i, j \in Intervals : TransferCharts(k)[i] = TransferCharts(k)[j] => i = j
  <2>1. \A f, pool, draw :
           /\ IsDrawn(f, pool, draw) /\ pool \in SUBSET Charts
           /\ Cardinality(pool) >= Cardinality(Intervals)
           /\ draw \in [Intervals -> Nat]
           => /\ \A i \in Intervals : f[i] \in pool
              /\ \A i, j \in Intervals : f[i] = f[j] => i = j
    BY <1>3, DrawsDiffer
  <2>2. Cardinality(Left(k).transfer) >= Cardinality(Intervals)
    BY DEF Acceptable, Usable
  <2>3. Left(k).transfer \in SUBSET Charts
    BY <1>2
  <2> QED
    BY <1>5, <2>1, <2>2, <2>3, TransferChartsDef
<1> QED
  BY <1>2, <1>4, <1>6, <1>7, <1>8

\* What the steps do to plays and targets.
LEMMA Footprints ==
    ASSUME [Next]_vars
    PROVE  /\ plays' = plays \/ \E c \in Playable, completed \in Outcomes : PlayChart(c, completed)
           /\ \/ UNCHANGED <<targets, sessions>>
              \/ \E k \in Keys : AssignSession(k)
              \/ ResolveTargets
           /\ due' = due \/ ReadDueTargets \/ ResolveTargets
BY DEF Next, vars, PassDay, PlayChart, Record, SaveMenu, BuildCandidateSets, AssignSession,
       RefuseSession, ReadDueTargets, ResolveTargets

\* Playing adds a play and changes none.
LEMMA PlaysStay ==
    ASSUME PlaysNumbered, [Next]_vars
    PROVE  PlaysNumbered' /\ \A n \in DOMAIN plays : n \in DOMAIN plays' /\ plays'[n] = plays[n]
<1>1. CASE plays' = plays
  BY <1>1 DEF PlaysNumbered
<1>2. ASSUME NEW c \in Playable, NEW completed \in Outcomes, PlayChart(c, completed)
      PROVE  PlaysNumbered' /\ \A n \in DOMAIN plays : n \in DOMAIN plays' /\ plays'[n] = plays[n]
  <2>1. PICK n \in 0..MaxPlays : DOMAIN plays = 1..n
    BY DEF PlaysNumbered
  <2>2. n \in Nat /\ MaxPlays \in Nat
    BY ExperimentAssumption
  <2>3. Cardinality(DOMAIN plays) = n
    BY <2>1, <2>2, FS_Interval
  <2>4. DOMAIN plays' = 1..(n + 1) /\ n < MaxPlays
    BY <1>2, <2>1, <2>2, <2>3 DEF PlayChart
  <2>5. \A i \in DOMAIN plays : i # n + 1
    BY <2>1, <2>2
  <2> QED
    BY <1>2, <2>1, <2>2, <2>3, <2>4, <2>5 DEF PlayChart, PlaysNumbered
<1> QED
  BY <1>1, <1>2, Footprints

\* What an assignment makes of the targets.
LEMMA TargetsOfAssignment ==
    ASSUME Consistent, NEW k \in Keys, AssignSession(k)
    PROVE  \A t \in Targets :
             /\ t[1] # k => targets'[t] = targets[t]
             /\ t[1] = k =>
                  /\ targets'[t] \in Target
                  /\ targets'[t].status = "pending" /\ targets'[t].play = 0
                  /\ targets'[t].at = today /\ targets'[t].due = today + t[3]
                  /\ targets'[t].chart \in Charts \ Reserved
                  /\ t[2] = "retention" => targets'[t].chart = SelectedChart(k)
                  /\ t[2] = "transfer" => targets'[t].chart = TransferCharts(k)[t[3]]
<1> SUFFICES ASSUME NEW t \in Targets
             PROVE  /\ t[1] # k => targets'[t] = targets[t]
                    /\ t[1] = k =>
                         /\ targets'[t] \in Target
                         /\ targets'[t].status = "pending" /\ targets'[t].play = 0
                         /\ targets'[t].at = today /\ targets'[t].due = today + t[3]
                         /\ targets'[t].chart \in Charts \ Reserved
                         /\ t[2] = "retention" => targets'[t].chart = SelectedChart(k)
                         /\ t[2] = "transfer" => targets'[t].chart = TransferCharts(k)[t[3]]
  OBVIOUS
<1>1. CASE t[1] # k
  BY <1>1 DEF AssignSession
<1>2. CASE t[1] = k
  <2> DEFINE c == IF t[2] = "retention" THEN SelectedChart(k) ELSE TransferCharts(k)[t[3]]
  <2>1. targets'[t] = [chart |-> c, at |-> today, due |-> today + t[3],
                       status |-> "pending", play |-> 0]
    BY <1>2 DEF AssignSession
  <2>2. c \in Charts \ Reserved
    <3>1. /\ SelectedChart(k) \in Charts \ Reserved
          /\ Left(k).transfer \subseteq Charts \ Reserved
          /\ \A i \in Intervals : TransferCharts(k)[i] \in Left(k).transfer
      BY ChartsOfSession DEF AssignSession, Consistent
    <3> QED
      BY <3>1, TargetParts
  <2>3. today \in TimeOf /\ today \in Nat /\ t[3] \in Nat /\ 0 \in 0..MaxPlays
    BY ExperimentAssumption, TargetParts DEF Consistent, TypeOK, TimeOf
  <2>4. targets'[t] \in Target
    <3> HIDE DEF c
    <3> QED
      BY <2>1, <2>2, <2>3 DEF Target
  <2> QED
    BY <1>2, <2>1, <2>2, <2>4
<1> QED
  BY <1>1, <1>2

\* A target that is settled keeps its chart and its times.
LEMMA SettledTarget ==
    ASSUME Consistent, NEW t \in Targets, targets[t] # NoTarget
    PROVE  /\ Settled(t) \in Target
           /\ Settled(t).chart = targets[t].chart /\ Settled(t).at = targets[t].at
           /\ Settled(t).due = targets[t].due /\ Settled(t).status = Verdict(t)
           /\ Settled(t).status \in {"resolved", "missing", "duplicate"}
           /\ Settled(t).play # 0 => Settled(t).play \in Scorable(t)
<1>1. targets[t] \in Target
  BY DEF Consistent, TargetsOfSessions
<1>2. Verdict(t) \in {"resolved", "missing", "duplicate"}
  BY DEF Verdict
<1>3. Scorable(t) \subseteq 1..MaxPlays
  BY DEF Scorable, Recorded, Consistent, TypeOK, Serials
<1>4. Verdict(t) = "resolved" => Scorable(t) # {}
  BY FS_EmptySet DEF Verdict, Count
<1> DEFINE p == IF Verdict(t) = "resolved" THEN CHOOSE n \in Scorable(t) : TRUE ELSE 0
<1>5. p # 0 => p \in Scorable(t)
  BY <1>4
<1>6. p \in 0..MaxPlays
  <2>1. MaxPlays \in Nat
    BY ExperimentAssumption
  <2> HIDE DEF p
  <2> QED
    BY <1>3, <1>5, <2>1
<1>7. Settled(t) = [targets[t] EXCEPT !.status = Verdict(t), !.play = p]
  BY DEF Settled
<1> HIDE DEF p
<1> QED
  BY <1>1, <1>2, <1>5, <1>6, <1>7 DEF Target

\* What a resolve command makes of the targets.
LEMMA TargetsOfResolution ==
    ASSUME Consistent, ResolveTargets
    PROVE  \A t \in Targets :
             \/ targets'[t] = targets[t]
             \/ targets[t].status = "pending" /\ targets[t] # NoTarget /\ targets'[t] = Settled(t)
<1>1. \A t \in due : t \in Targets /\ targets[t].status = "pending" /\ targets[t] # NoTarget
  BY DEF Consistent, DueArePending, Pending, TypeOK, NoTarget
<1> QED
  BY <1>1 DEF ResolveTargets

\* Sessions and targets stay in step.
LEMMA TargetsStep ==
    ASSUME Consistent, [Next]_vars
    PROVE  TargetsOfSessions' /\ DueArePending'
<1>1. CASE UNCHANGED <<targets, sessions>>
  <2>1. TargetsOfSessions'
    BY <1>1 DEF Consistent, TargetsOfSessions
  <2>2. due' = due \/ ReadDueTargets \/ ResolveTargets
    BY Footprints
  <2>3. due' = due \/ due' = {} \/ due' \subseteq Pending
    BY <2>2 DEF ReadDueTargets, ResolveTargets
  <2>4. Pending' = Pending
    BY <1>1 DEF Pending
  <2> QED
    BY <2>1, <2>3, <2>4 DEF Consistent, DueArePending
<1>2. ASSUME NEW k \in Keys, AssignSession(k) PROVE TargetsOfSessions' /\ DueArePending'
  <2>1. sessions'[k] # NoSession /\ sessions'[k].at = today
    BY <1>2 DEF AssignSession, Consistent, TypeOK, NoSession, ArmOf
  <2>2. \A l \in Keys \ {k} : sessions'[l] = sessions[l]
    BY <1>2 DEF AssignSession
  <2>3. ASSUME NEW t \in Targets
        PROVE  /\ targets'[t] \in Target
               /\ targets'[t].status = "none" <=> targets'[t] = NoTarget
               /\ targets'[t] # NoTarget => /\ sessions'[t[1]] # NoSession
                                            /\ targets'[t].at = sessions'[t[1]].at
               /\ targets[t].status = "pending" => targets'[t].status = "pending"
    <3>1. CASE t[1] = k
      BY <1>2, <2>1, <3>1, TargetsOfAssignment DEF NoTarget
    <3>2. CASE t[1] # k
      <4>1. targets'[t] = targets[t] /\ sessions'[t[1]] = sessions[t[1]]
        BY <1>2, <2>2, <3>2, TargetsOfAssignment, TargetParts
      <4> QED
        BY <4>1 DEF Consistent, TargetsOfSessions
    <3> QED
      BY <3>1, <3>2
  <2>4. TargetsOfSessions'
    BY <2>3 DEF TargetsOfSessions
  <2>5. due' = due
    BY <1>2 DEF AssignSession
  <2> QED
    BY <2>3, <2>4, <2>5 DEF Consistent, DueArePending, Pending
<1>3. CASE ResolveTargets
  <2>1. sessions' = sessions /\ due' = {}
    BY <1>3 DEF ResolveTargets
  <2>2. ASSUME NEW t \in Targets
        PROVE  /\ targets'[t] \in Target
               /\ targets'[t].status = "none" <=> targets'[t] = NoTarget
               /\ targets'[t] # NoTarget => /\ sessions'[t[1]] # NoSession
                                            /\ targets'[t].at = sessions'[t[1]].at
    <3>1. CASE targets'[t] = targets[t]
      BY <2>1, <3>1 DEF Consistent, TargetsOfSessions
    <3>2. CASE targets[t] # NoTarget /\ targets'[t] = Settled(t)
      BY <2>1, <3>2, SettledTarget DEF Consistent, TargetsOfSessions, NoTarget
    <3> QED
      BY <1>3, <3>1, <3>2, TargetsOfResolution
  <2> QED
    BY <2>1, <2>2 DEF TargetsOfSessions, DueArePending
<1> QED
  BY <1>1, <1>2, <1>3, Footprints

\* Every variable stays within its type.
LEMMA TypeStep ==
    ASSUME Consistent, [Next]_vars
    PROVE  TypeOK'
<1>1. today' \in TimeOf /\ MaxDay \in Nat
  <2>1. MaxDay \in Nat
    BY ExperimentAssumption
  <2>2. today' = today \/ (today < MaxDay /\ today' = today + 1)
    BY DEF Next, vars, PassDay, PlayChart, Record, SaveMenu, BuildCandidateSets, AssignSession,
           RefuseSession, ReadDueTargets, ResolveTargets
  <2> QED
    BY <2>1, <2>2 DEF Consistent, TypeOK, TimeOf
<1>2. /\ DOMAIN plays' \subseteq Serials
      /\ \A n \in DOMAIN plays' : plays'[n] \in [chart : Charts, at : TimeOf, completed : BOOLEAN]
  <2>1. CASE plays' = plays
    BY <2>1 DEF Consistent, TypeOK
  <2>2. ASSUME NEW c \in Playable, NEW completed \in Outcomes, PlayChart(c, completed)
        PROVE  /\ DOMAIN plays' \subseteq Serials
               /\ \A n \in DOMAIN plays' :
                     plays'[n] \in [chart : Charts, at : TimeOf, completed : BOOLEAN]
    <3>1. c \in Charts /\ completed \in BOOLEAN
      BY ExperimentAssumption
    <3>2. today \in TimeOf
      BY DEF Consistent, TypeOK
    <3>3. PlaysNumbered'
      BY PlaysStay DEF Consistent
    <3>4. \A n \in DOMAIN plays' :
             \/ n \in DOMAIN plays /\ plays'[n] = plays[n]
             \/ plays'[n] = [chart |-> c, at |-> today, completed |-> completed]
      BY <2>2 DEF PlayChart
    <3>5. MaxPlays \in Nat
      BY ExperimentAssumption
    <3> QED
      BY <3>1, <3>2, <3>3, <3>4, <3>5 DEF Consistent, TypeOK, PlaysNumbered, Serials
  <2> QED
    BY <2>1, <2>2, Footprints
<1>3. recorded' \subseteq (DOMAIN plays') \X Sources
  <2>1. recorded' = recorded \/ \E n \in DOMAIN plays, s \in Sources :
                                  recorded' = recorded \cup {<<n, s>>}
    BY DEF Next, vars, PassDay, PlayChart, Record, SaveMenu, BuildCandidateSets, AssignSession,
           RefuseSession, ReadDueTargets, ResolveTargets
  <2>2. DOMAIN plays \subseteq DOMAIN plays'
    BY PlaysStay DEF Consistent
  <2> QED
    BY <2>1, <2>2 DEF Consistent, TypeOK
<1>4. menu'.focus \subseteq Charts /\ menu'.others \subseteq Charts /\ menu'.played \subseteq Charts
  <2>1. menu' = menu \/ \E m \in Menus : SaveMenu(m)
    BY DEF Next, vars, PassDay, PlayChart, Record, SaveMenu, BuildCandidateSets, AssignSession,
           RefuseSession, ReadDueTargets, ResolveTargets
  <2>2. PlayedCharts \subseteq Charts
    <3>1. Practised \subseteq Charts
      BY ExperimentAssumption
    <3>2. \A n \in Recorded : n \in DOMAIN plays /\ plays[n].chart \in Charts
      BY DEF Consistent, TypeOK, Recorded
    <3> QED
      BY <3>1, <3>2 DEF PlayedCharts
  <2>3. ASSUME NEW m \in Menus, SaveMenu(m)
        PROVE  menu'.focus \subseteq Charts /\ menu'.others \subseteq Charts /\ menu'.played \subseteq Charts
    <3>1. m.focus \subseteq Charts /\ m.others \subseteq Charts
      BY ExperimentAssumption
    <3> QED
      BY <2>2, <2>3, <3>1 DEF SaveMenu
  <2> QED
    BY <2>1, <2>3 DEF Consistent, TypeOK
<1>5. DOMAIN read' = Keys /\ \A k \in Keys : read'[k] \in Sets
  <2>1. \/ read' = read
        \/ \E k \in Keys : read' = [read EXCEPT ![k] = NoSets]
        \/ \E k \in Keys : BuildCandidateSets(k)
    BY DEF Next, vars, PassDay, PlayChart, Record, SaveMenu, BuildCandidateSets, AssignSession,
           RefuseSession, ReadDueTargets, ResolveTargets
  <2>2. NoSets \in Sets
    BY DEF NoSets, Sets
  <2>3. \A axis, played : Stratum(axis, played) \in Sets
    BY DEF Stratum, Sets, Consistent, TypeOK
  <2>4. \A k \in Keys : BuildCandidateSets(k) =>
           \E sets \in Sets : read' = [read EXCEPT ![k] = sets]
    BY <2>3 DEF BuildCandidateSets
  <2> QED
    BY <2>1, <2>2, <2>4 DEF Consistent, TypeOK
<1>6. /\ DOMAIN sessions' = Keys
      /\ \A k \in Keys : sessions'[k] # NoSession =>
           /\ sessions'[k].at \in TimeOf /\ sessions'[k].arm \in Arms
           /\ sessions'[k].chart \in Charts /\ sessions'[k].transfer \in Charts
           /\ sessions'[k].sets \in Sets
  <2>1. CASE sessions' = sessions
    BY <2>1 DEF Consistent, TypeOK
  <2>2. ASSUME NEW k \in Keys, AssignSession(k)
        PROVE  /\ DOMAIN sessions' = Keys
               /\ \A l \in Keys : l # k => sessions'[l] = sessions[l]
               /\ sessions'[k].at \in TimeOf /\ sessions'[k].arm \in Arms
               /\ sessions'[k].chart \in Charts /\ sessions'[k].transfer \in Charts
               /\ sessions'[k].sets \in Sets
    <3>1. FirstInterval \in Intervals
      <4>1. Intervals \subseteq Nat /\ Intervals # {} /\ IsFiniteSet(Intervals)
        BY ExperimentAssumption
      <4>2. \E i \in Intervals : \A j \in Intervals : i <= j
        BY <4>1, LeastExists
      <4> QED
        BY <4>2 DEF FirstInterval
    <3>2. /\ SelectedChart(k) \in Charts
          /\ TransferCharts(k)[FirstInterval] \in Charts
          /\ Left(k) \in Sets
      BY <2>2, <3>1, ChartsOfSession DEF AssignSession, Consistent
    <3>3. today \in TimeOf /\ ArmOf(k) \in Arms
      BY DEF Consistent, TypeOK, ArmOf, Arms
    <3> QED
      BY <2>2, <3>2, <3>3 DEF AssignSession, Consistent, TypeOK
  <2>3. sessions' = sessions \/ \E k \in Keys : AssignSession(k)
    BY Footprints DEF ResolveTargets
  <2>4. ASSUME NEW k \in Keys, AssignSession(k), NEW l \in Keys, sessions'[l] # NoSession
        PROVE  /\ sessions'[l].at \in TimeOf /\ sessions'[l].arm \in Arms
               /\ sessions'[l].chart \in Charts /\ sessions'[l].transfer \in Charts
               /\ sessions'[l].sets \in Sets
    <3>1. CASE l = k
      BY <2>2, <2>4, <3>1
    <3>2. CASE l # k
      BY <2>2, <2>4, <3>2 DEF Consistent, TypeOK
    <3> QED
      BY <3>1, <3>2
  <2> QED
    BY <2>1, <2>2, <2>3, <2>4
<1>7. DOMAIN targets' = Targets
  BY Footprints DEF AssignSession, ResolveTargets, Consistent, TypeOK
<1>8. \A t \in Targets : targets'[t] # NoTarget =>
         /\ targets'[t].chart \in Charts /\ targets'[t].play \in 0..MaxPlays
         /\ targets'[t].due = targets'[t].at + t[3]
         /\ targets'[t].status \in {"pending", "resolved", "missing", "duplicate"}
  <2>1. CASE UNCHANGED <<targets, sessions>>
    BY <2>1 DEF Consistent, TypeOK
  <2>2. ASSUME NEW k \in Keys, AssignSession(k), NEW t \in Targets, targets'[t] # NoTarget
        PROVE  /\ targets'[t].chart \in Charts /\ targets'[t].play \in 0..MaxPlays
               /\ targets'[t].due = targets'[t].at + t[3]
               /\ targets'[t].status \in {"pending", "resolved", "missing", "duplicate"}
    <3>1. CASE t[1] = k
      BY <2>2, <3>1, TargetsOfAssignment DEF Target
    <3>2. CASE t[1] # k
      BY <2>2, <3>2, TargetsOfAssignment DEF Consistent, TypeOK
    <3> QED
      BY <3>1, <3>2
  <2>3. ASSUME ResolveTargets, NEW t \in Targets, targets'[t] # NoTarget
        PROVE  /\ targets'[t].chart \in Charts /\ targets'[t].play \in 0..MaxPlays
               /\ targets'[t].due = targets'[t].at + t[3]
               /\ targets'[t].status \in {"pending", "resolved", "missing", "duplicate"}
    <3>1. CASE targets'[t] = targets[t]
      BY <2>3, <3>1 DEF Consistent, TypeOK
    <3>2. CASE targets[t] # NoTarget /\ targets'[t] = Settled(t)
      <4>1. Settled(t) \in Target
        BY <3>2, SettledTarget
      <4> QED
        BY <3>2, <4>1, SettledTarget DEF Consistent, TypeOK, Target
    <3> QED
      BY <2>3, <3>1, <3>2, TargetsOfResolution
  <2> QED
    BY <2>1, <2>2, <2>3, Footprints
<1>9. due' \subseteq Targets
  BY TargetsStep DEF DueArePending, Pending
<1> QED
  BY <1>1, <1>2, <1>3, <1>4, <1>5, <1>6, <1>7, <1>8, <1>9 DEF TypeOK

LEMMA ConsistentInit == Init => Consistent
<1> SUFFICES ASSUME Init PROVE Consistent
  OBVIOUS
<1>1. 0 \in TimeOf /\ 0 \in 0..MaxPlays /\ 1..0 = {} /\ MaxPlays \in Nat
  BY ExperimentAssumption DEF TimeOf
<1>2. DOMAIN plays = {}
  BY DEF Init
<1>3. TypeOK
  BY <1>1, <1>2 DEF Init, TypeOK, NoMenu, NoSets, Sets, NoSession, NoTarget
<1>4. PlaysNumbered
  BY <1>1, <1>2 DEF PlaysNumbered
<1>5. DueArePending /\ TargetsOfSessions
  BY <1>1 DEF Init, DueArePending, TargetsOfSessions, NoTarget, Target
<1> QED
  BY <1>3, <1>4, <1>5 DEF Consistent

LEMMA ConsistentStep == Consistent /\ [Next]_vars => Consistent'
BY TypeStep, TargetsStep, PlaysStay DEF Consistent

-----------------------------------------------------------------------------
(* Targets and the plays that serve them.                                  *)

\* What a step makes of one target: nothing, its assignment or its verdict.
LEMMA TargetSteps ==
    ASSUME Consistent, [Next]_vars, NEW t \in Targets
    PROVE  \/ targets'[t] = targets[t]
           \/ AssignSession(t[1]) /\ targets'[t].status = "pending" /\ targets'[t].play = 0
           \/ /\ ResolveTargets
              /\ targets[t].status = "pending" /\ targets[t] # NoTarget
              /\ targets'[t] = Settled(t)
<1>1. CASE UNCHANGED <<targets, sessions>>
  BY <1>1
<1>2. ASSUME NEW k \in Keys, AssignSession(k)
      PROVE  \/ targets'[t] = targets[t]
             \/ AssignSession(t[1]) /\ targets'[t].status = "pending" /\ targets'[t].play = 0
  BY <1>2, TargetsOfAssignment
<1>3. CASE ResolveTargets
  BY <1>3, TargetsOfResolution
<1> QED
  BY <1>1, <1>2, <1>3, Footprints

LEMMA OutcomesStep ==
    ASSUME Consistent, OutcomesOfTargets, [Next]_vars
    PROVE  OutcomesOfTargets'
<1> SUFFICES ASSUME NEW t \in Targets, targets'[t].play # 0
             PROVE  /\ targets'[t].play \in DOMAIN plays'
                    /\ plays'[targets'[t].play].chart = targets'[t].chart
                    /\ plays'[targets'[t].play].at = targets'[t].due
  BY DEF OutcomesOfTargets
<1>1. CASE targets'[t] = targets[t]
  <2>1. /\ targets[t].play \in DOMAIN plays
        /\ plays[targets[t].play].chart = targets[t].chart
        /\ plays[targets[t].play].at = targets[t].due
    BY <1>1 DEF OutcomesOfTargets
  <2> QED
    BY <1>1, <2>1, PlaysStay DEF Consistent
<1>2. CASE targets[t] # NoTarget /\ targets'[t] = Settled(t)
  <2>1. Settled(t).play \in Scorable(t)
    BY <1>2, SettledTarget
  <2>2. \A n \in Scorable(t) : /\ n \in DOMAIN plays
                               /\ plays[n].chart = targets[t].chart
                               /\ plays[n].at = targets[t].due
    BY DEF Scorable, Recorded
  <2> QED
    BY <1>2, <2>1, <2>2, SettledTarget, PlaysStay DEF Consistent
<1> QED
  BY <1>1, <1>2, TargetSteps

\* A new target takes a chart that no other target has.
LEMMA ChartsStep ==
    ASSUME Consistent, ChartsPlayOnePart, [Next]_vars
    PROVE  ChartsPlayOnePart'
<1>1. CASE \A t \in Targets :
             /\ targets'[t] # NoTarget => targets[t] # NoTarget
             /\ targets'[t].chart = targets[t].chart
  BY <1>1 DEF ChartsPlayOnePart
<1>2. CASE UNCHANGED <<targets, sessions>>
  BY <1>1, <1>2
<1>3. CASE ResolveTargets
  <2>1. \A t \in Targets : /\ targets'[t] # NoTarget => targets[t] # NoTarget
                           /\ targets'[t].chart = targets[t].chart
    BY <1>3, TargetsOfResolution, SettledTarget
  <2> QED
    BY <1>1, <2>1
<1>4. ASSUME NEW k \in Keys, AssignSession(k) PROVE ChartsPlayOnePart'
  <2>1. ASSUME NEW t \in Targets, NEW u \in Targets,
               targets'[t] # NoTarget, targets'[u] # NoTarget,
               targets'[t].chart = targets'[u].chart
        PROVE  t[1] = u[1] /\ t[2] = u[2] /\ (t[2] = "transfer" => t = u)
    <3>1. CASE t[1] # k /\ u[1] # k
      BY <1>4, <2>1, <3>1, TargetsOfAssignment DEF ChartsPlayOnePart
    <3>2. ASSUME NEW x \in Targets, NEW y \in Targets, x[1] = k, y[1] # k
          PROVE  targets'[x].chart # targets'[y].chart
      <4>1. targets'[x].chart \notin Reserved /\ targets'[y] = targets[y]
        BY <1>4, <3>2, TargetsOfAssignment
      <4> QED
        BY <4>1 DEF Reserved
    <3>3. CASE t[1] = k /\ u[1] = k
      <4> DEFINE f == TransferCharts(k)
      <4>1. /\ SelectedChart(k) \notin Left(k).transfer
            /\ \A i \in Intervals : f[i] \in Left(k).transfer
            /\ \A i, j \in Intervals : f[i] = f[j] => i = j
        BY <1>4, ChartsOfSession DEF AssignSession, Consistent
      <4>2. \A x \in {t, u} :
              /\ x[2] = "retention" => targets'[x].chart = SelectedChart(k)
              /\ x[2] = "transfer" => targets'[x].chart = f[x[3]]
        BY <1>4, <3>3, TargetsOfAssignment
      <4>3. \A x \in {t, u} : x[2] \in {"retention", "transfer"} /\ x[3] \in Intervals
        BY TargetParts DEF TargetKinds
      <4> HIDE DEF f
      <4>4. t[2] = u[2] /\ (t[2] = "transfer" => t[3] = u[3])
        BY <2>1, <4>1, <4>2, <4>3
      <4> QED
        BY <3>3, <4>4, TargetParts
    <3> QED
      BY <2>1, <3>1, <3>2, <3>3
  <2> QED
    BY <2>1 DEF ChartsPlayOnePart
<1> QED
  BY <1>2, <1>3, <1>4, Footprints

\* No play serves two targets: of one chart there are at most the retention
\* targets of one session, and these are due on different days.
LEMMA PlaysServeOne ==
    ASSUME Consistent, OutcomesOfTargets, ChartsPlayOnePart,
           NEW t \in Targets, targets[t] # NoTarget, NEW n \in Scorable(t)
    PROVE  ~Used(t, n)
<1> SUFFICES ASSUME NEW u \in Targets \ {t}, targets[u].play = n PROVE FALSE
  BY DEF Used
<1>1. /\ n \in DOMAIN plays /\ n # 0
      /\ plays[n].chart = targets[t].chart /\ plays[n].at = targets[t].due
  BY DEF Scorable, Recorded, Consistent, TypeOK, Serials
<1>2. plays[n].chart = targets[u].chart /\ plays[n].at = targets[u].due
  BY <1>1 DEF OutcomesOfTargets
<1>3. targets[u] # NoTarget
  BY <1>1 DEF NoTarget
<1>4. t[1] = u[1] /\ t[2] = u[2]
  BY <1>1, <1>2, <1>3 DEF ChartsPlayOnePart
<1>5. targets[t].at = targets[u].at /\ targets[t].at \in TimeOf
  BY <1>3, <1>4 DEF Consistent, TargetsOfSessions, Target
<1>6. targets[t].due = targets[t].at + t[3] /\ targets[u].due = targets[u].at + u[3]
  BY <1>3 DEF Consistent, TypeOK
<1>7. targets[t].at \in Int
  BY <1>5 DEF TimeOf
<1>8. t[3] \in Nat /\ u[3] \in Nat
  BY TargetParts
<1>9. t[3] = u[3]
  <2>1. targets[t].at + t[3] = targets[t].at + u[3]
    BY <1>1, <1>2, <1>5, <1>6
  <2>2. \A a \in Int, b, c \in Nat : a + b = a + c => b = c
    OBVIOUS
  <2> QED
    BY <1>7, <1>8, <2>1, <2>2
<1> QED
  BY <1>4, <1>9, TargetParts

Twice(t) == {n \in DOMAIN plays : plays[n].chart = targets[t].chart /\ plays[n].at = targets[t].due}

LEMMA DuplicatesStep ==
    ASSUME Consistent, OutcomesOfTargets, ChartsPlayOnePart, DuplicatesAreReal, [Next]_vars
    PROVE  DuplicatesAreReal'
<1> SUFFICES ASSUME NEW t \in Targets, targets'[t].status = "duplicate"
             PROVE  \/ Cardinality(Twice(t)') > 1
                    \/ t[2] = "transfer" /\ \E n \in DOMAIN plays' :
                          /\ plays'[n].chart = targets'[t].chart
                          /\ plays'[n].at \in targets'[t].at..(targets'[t].due - 1)
  BY DEF DuplicatesAreReal, Twice
<1>1. IsFiniteSet(Twice(t)') /\ Cardinality(Twice(t)') \in Nat
  <2>1. PICK n \in 0..MaxPlays : DOMAIN plays' = 1..n
    BY PlaysStay DEF Consistent, PlaysNumbered
  <2>2. IsFiniteSet(DOMAIN plays')
    BY <2>1, FS_Interval
  <2>3. Twice(t)' \subseteq DOMAIN plays'
    BY DEF Twice
  <2> QED
    BY <2>2, <2>3, FS_Subset, FS_CardinalityType
<1>2. \A S \in SUBSET Twice(t)' : Cardinality(S) \in Nat /\ Cardinality(S) <= Cardinality(Twice(t)')
  BY <1>1, FS_Subset, FS_CardinalityType
<1>3. \A n \in DOMAIN plays : n \in DOMAIN plays' /\ plays'[n] = plays[n]
  BY PlaysStay DEF Consistent
<1>4. CASE targets'[t] = targets[t]
  <2>1. Twice(t) \subseteq Twice(t)'
    BY <1>3, <1>4 DEF Twice
  <2>2. \/ Cardinality(Twice(t)) > 1
        \/ t[2] = "transfer" /\ \E n \in DOMAIN plays :
              /\ plays[n].chart = targets[t].chart
              /\ plays[n].at \in targets[t].at..(targets[t].due - 1)
    BY <1>4 DEF DuplicatesAreReal, Twice
  <2>3. Cardinality(Twice(t)) \in Nat /\ Cardinality(Twice(t)) <= Cardinality(Twice(t)')
    BY <1>2, <2>1
  <2> QED
    BY <1>1, <1>3, <1>4, <2>2, <2>3
<1>5. CASE targets[t] # NoTarget /\ targets'[t] = Settled(t)
  <2>1. /\ targets'[t].chart = targets[t].chart /\ targets'[t].at = targets[t].at
        /\ targets'[t].due = targets[t].due /\ Verdict(t) = "duplicate"
    BY <1>5, SettledTarget
  <2>2. ~ \E n \in Scorable(t) : Used(t, n)
    BY <1>5, PlaysServeOne
  <2>3. \/ t[2] = "transfer" /\ Early(t) # {}
        \/ Count(t) > 1
    BY <2>1, <2>2 DEF Verdict
  <2>4. CASE t[2] = "transfer" /\ Early(t) # {}
    BY <1>3, <2>1, <2>4 DEF Early, Recorded
  <2>5. CASE Count(t) > 1
    <3>1. Scorable(t) \subseteq Twice(t)'
      BY <1>3, <2>1 DEF Scorable, Recorded, Twice
    <3>2. Cardinality(Scorable(t)) > 1
      BY <2>5 DEF Count
    <3> QED
      BY <1>1, <1>2, <3>1, <3>2
  <2> QED
    BY <2>3, <2>4, <2>5
<1> QED
  BY <1>4, <1>5, TargetSteps

-----------------------------------------------------------------------------
(* Menus.                                                                  *)

\* Unless menus are made meanwhile, the menu that a running assign command has
\* read is still the latest one: it plans none of the transfer candidates.
CandidatesNotPlanned ==
    \A k \in Keys : (menu.focus \cup menu.others) \cap read[k].transfer = {}

MenuInv == TransfersNotPlanned /\ CandidatesNotPlanned

LEMMA MenuStep ==
    ASSUME ~MenuDuringAssign, Consistent, MenuInv, [Next]_vars
    PROVE  MenuInv'
<1> DEFINE planned == menu.focus \cup menu.others
<1>1. ASSUME UNCHANGED <<targets, menu, read>> PROVE MenuInv'
  BY <1>1 DEF MenuInv, TransfersNotPlanned, CandidatesNotPlanned, PendingTransfers, Pending
<1>2. ASSUME NEW m \in Menus, SaveMenu(m) PROVE MenuInv'
  <2>1. (menu'.focus \cup menu'.others) \cap PendingTransfers = {}
    BY <1>2 DEF SaveMenu, Candidates
  <2>2. PendingTransfers' = PendingTransfers
    BY <1>2 DEF SaveMenu, PendingTransfers, Pending
  <2>3. \A k \in Keys : read'[k] = NoSets
    BY <1>2 DEF SaveMenu
  <2> QED
    BY <2>1, <2>2, <2>3 DEF MenuInv, TransfersNotPlanned, CandidatesNotPlanned, NoSets
<1>3. ASSUME NEW k \in Keys, BuildCandidateSets(k) PROVE MenuInv'
  <2>1. PICK axis, played : read' = [read EXCEPT ![k] = Stratum(axis, played)]
    BY <1>3 DEF BuildCandidateSets
  <2>2. planned \cap Stratum(axis, played).transfer = {}
    BY DEF Stratum
  <2>3. DOMAIN read = Keys
    BY DEF Consistent, TypeOK
  <2>4. CandidatesNotPlanned'
    BY <1>3, <2>1, <2>2, <2>3 DEF BuildCandidateSets, MenuInv, CandidatesNotPlanned
  <2> QED
    BY <1>3, <2>4 DEF BuildCandidateSets, MenuInv, TransfersNotPlanned, PendingTransfers, Pending
<1>4. ASSUME NEW k \in Keys, AssignSession(k) PROVE MenuInv'
  <2>1. planned \cap Left(k).transfer = {}
    BY DEF MenuInv, CandidatesNotPlanned, Left
  <2>2. \A t \in Pending' : t[2] = "transfer" => targets'[t].chart \notin planned
    <3> SUFFICES ASSUME NEW t \in Targets, targets'[t].status = "pending", t[2] = "transfer"
                 PROVE  targets'[t].chart \notin planned
      BY DEF Pending
    <3>1. CASE t[1] = k
      <4>1. t[3] \in Intervals
        BY TargetParts
      <4>2. targets'[t].chart = TransferCharts(k)[t[3]]
        BY <1>4, <3>1, TargetsOfAssignment
      <4>3. TransferCharts(k)[t[3]] \in Left(k).transfer
        BY <1>4, <4>1, ChartsOfSession DEF AssignSession, Consistent
      <4> QED
        BY <2>1, <4>2, <4>3
    <3>2. CASE t[1] # k
      <4>1. targets'[t] = targets[t]
        BY <1>4, <3>2, TargetsOfAssignment
      <4> QED
        BY <4>1 DEF MenuInv, TransfersNotPlanned, PendingTransfers, Pending
    <3> QED
      BY <3>1, <3>2
  <2>3. menu' = menu /\ read' = [read EXCEPT ![k] = NoSets]
    BY <1>4 DEF AssignSession
  <2>4. TransfersNotPlanned'
    BY <2>2, <2>3 DEF TransfersNotPlanned, PendingTransfers
  <2>5. DOMAIN read = Keys
    BY DEF Consistent, TypeOK
  <2>6. CandidatesNotPlanned'
    BY <2>3, <2>5 DEF MenuInv, CandidatesNotPlanned, NoSets
  <2> QED
    BY <2>4, <2>6 DEF MenuInv
<1>5. ASSUME NEW k \in Keys, RefuseSession(k) PROVE MenuInv'
  <2>1. DOMAIN read = Keys
    BY DEF Consistent, TypeOK
  <2> QED
    BY <1>5, <2>1 DEF RefuseSession, MenuInv, TransfersNotPlanned, CandidatesNotPlanned, PendingTransfers,
                      Pending, NoSets
<1>6. CASE ResolveTargets
  <2>1. \A t \in Pending' : t \in Pending /\ targets'[t] = targets[t]
    BY <1>6, TargetsOfResolution, SettledTarget DEF Pending
  <2>2. PendingTransfers' \subseteq PendingTransfers
    BY <2>1 DEF PendingTransfers
  <2> QED
    BY <1>6, <2>2 DEF ResolveTargets, MenuInv, TransfersNotPlanned, CandidatesNotPlanned
<1> QED
  BY <1>1, <1>2, <1>3, <1>4, <1>5, <1>6
     DEF Next, vars, PassDay, PlayChart, Record, ReadDueTargets

-----------------------------------------------------------------------------
(* The theorems.                                                           *)

LEMMA Invariant == Spec => []IInv
<1>1. Init => IInv
  <2> SUFFICES ASSUME Init PROVE IInv
    OBVIOUS
  <2>1. \A t \in Targets : targets[t] = NoTarget
    BY DEF Init
  <2> QED
    BY <2>1, ConsistentInit DEF IInv, OutcomesOfTargets, ChartsPlayOnePart, DuplicatesAreReal, NoTarget
<1>2. IInv /\ [Next]_vars => IInv'
  BY ConsistentStep, OutcomesStep, ChartsStep, DuplicatesStep DEF IInv
<1> QED
  BY <1>1, <1>2, PTL DEF Spec

\* Sessions, targets, menus and plays stay within their types.
THEOREM TypesHold == Spec => []TypeOK
BY Invariant, PTL DEF IInv, Consistent

\* No chart plays two parts in the experiment, however the assignments of the
\* sessions overlap (plan/experiment.py's reserved charts).
THEOREM ChartsDoNotMix == Spec => []ChartsPlayOnePart
BY Invariant, PTL DEF IInv

\* A target counts as spoilt only if the chart was really played twice or
\* too early: two importers that record one play do not spoil it
\* (semantic_plays), and no other target claims its play.
THEOREM OnlyRealDuplicates == Spec => []DuplicatesAreReal
BY Invariant, PTL DEF IInv

\* What was concluded of a target stays (resolve_targets reads the pending
\* ones only, and a session is assigned once).
THEOREM VerdictsAreFinal == Spec => VerdictsStand
<1> DEFINE Stand == \A t \in Targets :
                      targets[t].status \in {"resolved", "missing", "duplicate"}
                      => targets'[t] = targets[t]
<1>1. ASSUME IInv, [Next]_vars PROVE Stand
  <2> SUFFICES ASSUME NEW t \in Targets,
                      targets[t].status \in {"resolved", "missing", "duplicate"}
               PROVE  targets'[t] = targets[t]
    OBVIOUS
  <2>1. CASE AssignSession(t[1])
    <3>1. sessions[t[1]] = NoSession
      BY <2>1 DEF AssignSession
    <3> QED
      BY <1>1, <3>1 DEF IInv, Consistent, TargetsOfSessions, NoTarget
  <2> QED
    BY <1>1, <2>1, TargetSteps DEF IInv
<1>2. IInv /\ [Next]_vars => [Stand]_vars
  BY <1>1
<1> QED
  BY <1>2, Invariant, PTL DEF Spec, VerdictsStand

\* If no menu is made while a session is being assigned, no menu plans a chart
\* that is still to test the transfer (recommendation_adapter.py's query and
\* build_candidate_sets keep each other's charts out).
THEOREM MenusSpareTransfers ==
    ASSUME ~MenuDuringAssign
    PROVE  Spec => []TransfersNotPlanned
<1>1. Init => MenuInv
  BY DEF Init, MenuInv, TransfersNotPlanned, CandidatesNotPlanned, NoMenu, NoSets
<1>2. Consistent /\ MenuInv /\ [Next]_vars => MenuInv'
  BY MenuStep
<1>3. Spec => []MenuInv
  <2>1. IInv => Consistent
    BY DEF IInv
  <2> QED
    BY <1>1, <1>2, <2>1, Invariant, PTL DEF Spec
<1>4. MenuInv => TransfersNotPlanned
  BY DEF MenuInv
<1> QED
  BY <1>3, <1>4, PTL
=============================================================================
