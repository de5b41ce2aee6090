---------------------- MODULE ReplicaVerificationProofs ----------------------
(***************************************************************************)
(* What replica-verification promises for any number of replicas, through    *)
(* any elections, truncations and fetches that fail.                         *)
(***************************************************************************)
EXTENDS ReplicaVerification, TLAPS, SequenceTheorems, FiniteSetTheorems,
        WellFoundedInduction

-----------------------------------------------------------------------------
(* Least elements, which the operators of the model choose *)

LEMMA LeastExists ==
  ASSUME NEW S \in SUBSET Nat, S # {}
  PROVE  \E x \in S : \A y \in S : x <= y
<1>1. \E x \in S : \A y \in S : ~ (<<y, x>> \in OpToRel(<, Nat))
  BY NatLessThanWellFounded, WFMin, Zenon
<1>2. PICK x \in S : \A y \in S : ~ (<<y, x>> \in OpToRel(<, Nat))
  BY <1>1
<1>3. \A y \in S : ~ (y < x)
  BY <1>2 DEF OpToRel
<1> QED
  BY <1>3

LEMMA LeastProperties ==
  ASSUME NEW S \in SUBSET Nat, S # {}
  PROVE  Least(S) \in S /\ \A y \in S : Least(S) <= y
  BY LeastExists DEF Least

-----------------------------------------------------------------------------
(* Replication: what is committed stays, on every replica that has it *)

RepType ==
  /\ log \in [Replicas -> Seq(Batch)] /\ hw \in [Replicas -> Nat]
  /\ leader \in isr /\ isr \subseteq Replicas /\ epoch \in Nat

\* The first i batches of r are those of the leader.
AsLeader(r, i) ==
  /\ i <= Len(log[r]) /\ i <= Len(log[leader])
  /\ \A j \in 1..i : Same(log[r][j], log[leader][j])

\* The first i batches are on every in-sync replica, and on r.
Held(r, i) == AsLeader(r, i) /\ \A s \in isr : AsLeader(s, i)

InOrder(batches) ==
  \A i, j \in 1..Len(batches) : i < j => batches[i].last < batches[j].last

\* Below its high watermark a replica has nothing that is not committed.
HwInv(r) ==
  /\ hw[r] <= EndOf(log[r])
  /\ \A i \in 1..Len(log[r]) : log[r][i].last < hw[r] => Held(r, i)

RepInv == RepType /\ \A r \in Replicas : InOrder(log[r]) /\ HwInv(r)

LEMMA BatchesType ==
  ASSUME NEW batches \in Seq(Batch)
  PROVE  /\ Len(batches) \in Nat
         /\ \A i \in 1..Len(batches) :
              /\ batches[i] \in Batch /\ batches[i].last \in Nat /\ batches[i].epoch \in Nat
              /\ batches[i].rotten \in BOOLEAN
<1>1. Len(batches) \in Nat
  BY LenProperties
<1>2. \A i \in 1..Len(batches) : batches[i] \in Batch
  BY ElementOfSeq
<1>3. \A b \in Batch : b.last \in Nat /\ b.epoch \in Nat /\ b.rotten \in BOOLEAN
  BY DEF Batch
<1> QED
  BY <1>1, <1>2, <1>3

LEMMA LogType ==
  ASSUME RepType, NEW r \in Replicas
  PROVE  /\ log[r] \in Seq(Batch) /\ Len(log[r]) \in Nat
         /\ \A i \in 1..Len(log[r]) :
              log[r][i] \in Batch /\ log[r][i].last \in Nat /\ log[r][i].epoch \in Nat
         /\ leader \in Replicas /\ hw[r] \in Nat
  BY BatchesType DEF RepType

\* The end of a log is above all of its batches, and just above the last.
LEMMA EndProperties ==
  ASSUME NEW batches \in Seq(Batch), InOrder(batches)
  PROVE  /\ EndOf(batches) \in Nat
         /\ \A i \in 1..Len(batches) : batches[i].last < EndOf(batches)
         /\ Len(batches) = 0 => EndOf(batches) = 0
         /\ Len(batches) > 0 => EndOf(batches) = batches[Len(batches)].last + 1
<1>1. Len(batches) \in Nat /\ \A i \in 1..Len(batches) : batches[i].last \in Nat
  BY BatchesType
<1>2. batches = << >> <=> Len(batches) = 0
  BY EmptySeq
<1>3. CASE Len(batches) = 0
  BY <1>1, <1>2, <1>3 DEF EndOf
<1>4. CASE Len(batches) > 0
  <2>1. EndOf(batches) = batches[Len(batches)].last + 1 /\ Len(batches) \in 1..Len(batches)
    BY <1>1, <1>2, <1>4 DEF EndOf
  <2>2. \A i \in 1..Len(batches) : i = Len(batches) \/ batches[i].last < batches[Len(batches)].last
    BY <1>1, <2>1 DEF InOrder
  <2> QED
    BY <1>1, <1>4, <2>1, <2>2
<1> QED
  BY <1>1, <1>3, <1>4

\* How much of two logs is common is well defined.
LEMMA CommonProperties ==
  ASSUME RepType, NEW r \in Replicas, NEW s \in Replicas
  PROVE  /\ Common(r, s) \in 0..Len(log[r]) /\ Common(r, s) <= Len(log[s])
         /\ \A i \in 1..Common(r, s) : Same(log[r][i], log[s][i])
         /\ Common(r, s) < Len(log[r]) /\ Common(r, s) < Len(log[s]) =>
              ~ Same(log[r][Common(r, s) + 1], log[s][Common(r, s) + 1])
<1> DEFINE Differ == {n \in Nat : /\ n <= Len(log[r]) /\ n <= Len(log[s])
                                  /\ n < Len(log[r]) /\ n < Len(log[s]) =>
                                       ~ Same(log[r][n + 1], log[s][n + 1])}
<1>1. Len(log[r]) \in Nat /\ Len(log[s]) \in Nat
  BY LogType
<1>2. Differ # {}
  <2>1. CASE Len(log[r]) <= Len(log[s])
    BY <1>1, <2>1
  <2>2. CASE Len(log[s]) <= Len(log[r])
    BY <1>1, <2>2
  <2> QED
    BY <1>1, <2>1, <2>2
<1>3. PICK n \in Differ : \A m \in Differ : n <= m
  BY <1>2, LeastExists
<1>4. \A i \in 1..n : Same(log[r][i], log[s][i])
  <2>1. SUFFICES ASSUME NEW i \in 1..n, ~ Same(log[r][i], log[s][i]) PROVE FALSE
    OBVIOUS
  <2>2. i - 1 \in Nat /\ i - 1 < n /\ (i - 1) + 1 = i
    BY <1>1
  <2>3. i - 1 \in Differ
    BY <1>1, <2>1, <2>2
  <2> QED
    BY <1>3, <2>2, <2>3
<1> DEFINE IsCommon(n0) ==
      /\ n0 <= Len(log[s])
      /\ \A i \in 1..n0 : Same(log[r][i], log[s][i])
      /\ n0 < Len(log[r]) /\ n0 < Len(log[s]) => ~ Same(log[r][n0 + 1], log[s][n0 + 1])
<1>5. n \in 0..Len(log[r]) /\ IsCommon(n)
  BY <1>1, <1>3, <1>4
<1>6. Common(r, s) = CHOOSE n0 \in 0..Len(log[r]) : IsCommon(n0)
  BY DEF Common
<1> HIDE DEF IsCommon
<1>7. Common(r, s) \in 0..Len(log[r]) /\ IsCommon(Common(r, s))
  BY <1>5, <1>6
<1> QED
  BY <1>7 DEF IsCommon

LEMMA CommonIsLargest ==
  ASSUME RepType, NEW r \in Replicas, NEW i \in Nat, AsLeader(r, i)
  PROVE  i <= Common(r, leader)
<1>1. leader \in Replicas /\ Len(log[r]) \in Nat
  BY LogType
<1>2. SUFFICES ASSUME Common(r, leader) < i PROVE FALSE
  BY <1>1, CommonProperties
<1>3. Common(r, leader) + 1 \in 1..i
  BY <1>1, <1>2, CommonProperties
<1> QED
  BY <1>1, <1>2, <1>3, CommonProperties, LogType DEF AsLeader

\* A step that keeps what replicas share with the leader, in a partition whose new
\* leader was in sync and whose new members of the in-sync set have the leader's log,
\* keeps what is held.
LEMMA HeldKept ==
  ASSUME RepType,
         \A r \in Replicas, i \in Nat : AsLeader(r, i) =>
            i <= Len(log'[r]) /\ \A j \in 1..i : Same(log'[r][j], log[r][j]),
         leader' \in isr,
         \A s \in isr' : s \in Replicas /\ (s \in isr \/ AsLeader(s, Len(log[leader]))),
         NEW r \in Replicas, NEW i \in Nat, Held(r, i)
  PROVE  Held(r, i)'
<1>1. leader \in Replicas /\ Len(log[leader]) \in Nat /\ leader' \in Replicas
  BY LogType DEF RepType
<1>2. ASSUME NEW s \in isr' PROVE AsLeader(s, i)
  <2>1. AsLeader(r, i)
    BY DEF Held
  <2>2. i <= Len(log[leader])
    BY <2>1 DEF AsLeader
  <2>3. CASE s \in isr
    BY <2>3 DEF Held
  <2>4. CASE AsLeader(s, Len(log[leader]))
    <3>1. Len(log[leader]) <= Len(log[s]) /\ \A j \in 1..Len(log[leader]) : Same(log[s][j], log[leader][j])
      BY <2>4 DEF AsLeader
    <3>2. i <= Len(log[s])
      BY <1>1, <2>2, <3>1, LogType
    <3>3. \A j \in 1..i : Same(log[s][j], log[leader][j])
      BY <1>1, <2>2, <3>1
    <3> QED
      BY <2>2, <3>2, <3>3 DEF AsLeader
  <2> QED
    BY <2>3, <2>4
<1>3. AsLeader(leader', i)
  BY DEF Held
<1>4. ASSUME NEW s \in Replicas, AsLeader(s, i)
      PROVE  AsLeader(s, i)'
  <2>1. i <= Len(log'[s]) /\ i <= Len(log'[leader'])
    BY <1>1, <1>3, <1>4
  <2>2. ASSUME NEW j \in 1..i PROVE Same(log'[s][j], log'[leader'][j])
    <3>1. Same(log'[s][j], log[s][j]) /\ Same(log'[leader'][j], log[leader'][j])
      BY <1>1, <1>3, <1>4
    <3>2. Same(log[s][j], log[leader][j]) /\ Same(log[leader'][j], log[leader][j])
      BY <1>3, <1>4 DEF AsLeader
    <3> QED
      BY <3>1, <3>2 DEF Same
  <2> QED
    BY <2>1, <2>2 DEF AsLeader
<1> QED
  BY <1>2, <1>4 DEF Held

\* What there is to know of a log to which a batch was appended.
Extends(longer, batches, b) ==
  /\ longer \in Seq(Batch) /\ Len(longer) = Len(batches) + 1
  /\ \A j \in 1..Len(batches) : longer[j] = batches[j]
  /\ longer[Len(batches) + 1] = b
  /\ InOrder(longer) /\ EndOf(longer) = b.last + 1

LEMMA AppendBatch ==
  ASSUME NEW batches \in Seq(Batch), InOrder(batches), NEW b \in Batch, EndOf(batches) <= b.last,
         NEW longer, longer = Append(batches, b)
  PROVE  Extends(longer, batches, b)
<1>1. /\ longer \in Seq(Batch) /\ Len(longer) = Len(batches) + 1
      /\ \A j \in 1..Len(batches) : longer[j] = batches[j]
      /\ longer[Len(batches) + 1] = b
  BY AppendProperties
<1>2. Len(batches) \in Nat /\ b.last \in Nat /\ \A i \in 1..Len(batches) : batches[i].last \in Nat
  BY BatchesType DEF Batch
<1>3. EndOf(batches) \in Nat /\ \A i \in 1..Len(batches) : batches[i].last < b.last
  BY <1>2, EndProperties
<1>4. InOrder(longer)
  <2>1. SUFFICES ASSUME NEW i \in 1..Len(longer), NEW j \in 1..Len(longer), i < j
                 PROVE  longer[i].last < longer[j].last
    BY DEF InOrder
  <2>2. i \in 1..Len(batches)
    BY <1>1, <1>2, <2>1
  <2>3. CASE j \in 1..Len(batches)
    BY <1>1, <2>1, <2>2, <2>3 DEF InOrder
  <2>4. CASE j = Len(batches) + 1
    BY <1>1, <1>3, <2>2, <2>4
  <2> QED
    BY <1>1, <1>2, <2>3, <2>4
<1>5. Len(longer) > 0 /\ Len(longer) \in Nat
  BY <1>1, <1>2
<1>6. EndOf(longer) = longer[Len(longer)].last + 1
  BY <1>1, <1>4, <1>5, EndProperties
<1> QED
  BY <1>1, <1>2, <1>4, <1>6 DEF Extends

\* The logs after one of them was replaced.
LEMMA LogUpdate ==
  ASSUME RepType, NEW r \in Replicas, NEW batches \in Seq(Batch),
         log' = [log EXCEPT ![r] = batches]
  PROVE  /\ log' \in [Replicas -> Seq(Batch)] /\ log'[r] = batches
         /\ \A s \in Replicas : s # r => log'[s] = log[s]
  BY DEF RepType

LEMMA FirstBatches ==
  ASSUME NEW s, NEW n \in Nat, \A i \in 1..n : s[i] \in Batch
  PROVE  /\ SubSeq(s, 1, n) \in Seq(Batch) /\ Len(SubSeq(s, 1, n)) = n
         /\ \A j \in 1..n : SubSeq(s, 1, n)[j] = s[j]
<1>1. /\ SubSeq(s, 1, n) \in Seq(Batch)
      /\ Len(SubSeq(s, 1, n)) = IF 1 <= n THEN n - 1 + 1 ELSE 0
      /\ \A i \in 1..n - 1 + 1 : SubSeq(s, 1, n)[i] = s[1 + i - 1]
  BY SubSeqProperties
<1> QED
  BY <1>1

LEMMA PrefixOf ==
  ASSUME NEW batches \in Seq(Batch), InOrder(batches), NEW n \in 0..Len(batches),
         NEW prefix, prefix = SubSeq(batches, 1, n)
  PROVE  /\ prefix \in Seq(Batch) /\ Len(prefix) = n
         /\ \A j \in 1..n : prefix[j] = batches[j]
         /\ InOrder(prefix)
<1>1. Len(batches) \in Nat /\ \A i \in 1..n : batches[i] \in Batch
  BY BatchesType
<1>2. /\ prefix \in Seq(Batch) /\ Len(prefix) = n
      /\ \A j \in 1..n : prefix[j] = batches[j]
  BY <1>1, FirstBatches
<1> QED
  BY <1>1, <1>2 DEF InOrder

\* What a follower shares with the leader survives a step of the partition.
Stays ==
  \A r \in Replicas, i \in Nat : AsLeader(r, i) =>
    i <= Len(log'[r]) /\ \A j \in 1..i : log'[r][j] = log[r][j]

Succession ==
  /\ leader' \in isr'
  /\ leader' \in isr
  /\ \A s \in isr' : s \in Replicas /\ (s \in isr \/ AsLeader(s, Len(log[leader])))

StillHeld == \A r \in Replicas, i \in Nat : Held(r, i) => Held(r, i)'

LEMMA StaysHeld ==
  ASSUME RepType, Stays, Succession
  PROVE  StillHeld
<1>1. \A r \in Replicas, i \in Nat : AsLeader(r, i) =>
         i <= Len(log'[r]) /\ \A j \in 1..i : Same(log'[r][j], log[r][j])
  BY DEF Stays, Same
<1> QED
  BY <1>1, HeldKept DEF Succession, StillHeld

\* A replica that a step leaves alone keeps its part of the invariant.
LEMMA HwInvKept ==
  ASSUME RepType, StillHeld, NEW r \in Replicas, HwInv(r), hw'[r] = hw[r], log'[r] = log[r]
  PROVE  HwInv(r)'
<1>1. \A i \in 1..Len(log[r]) : i \in Nat
  BY LogType
<1> QED
  BY <1>1 DEF HwInv, StillHeld

Keeps == RepInv' /\ Stays /\ StillHeld

LEMMA ProduceKeeps ==
  ASSUME RepInv, NEW size \in 1..2, Produce(size)
  PROVE  Keeps
<1> DEFINE b == [last |-> EndOf(log[leader]) + size - 1, epoch |-> epoch, rotten |-> FALSE]
<1>1. RepType /\ leader \in Replicas /\ log[leader] \in Seq(Batch) /\ InOrder(log[leader])
  BY DEF RepInv, RepType
<1>2. EndOf(log[leader]) \in Nat /\ hw[leader] \in Nat /\ hw[leader] <= EndOf(log[leader])
  BY <1>1, EndProperties, LogType DEF RepInv, HwInv
<1>3. b \in Batch /\ EndOf(log[leader]) <= b.last /\ b.last \in Nat
  BY <1>1, <1>2 DEF Batch, RepType
<1>4. /\ log' = [log EXCEPT ![leader] = Append(@, b)]
      /\ hw' = hw /\ leader' = leader /\ isr' = isr /\ epoch' = epoch
  BY DEF Produce, Append1
<1> HIDE DEF b
<1> DEFINE longer == Append(log[leader], b)
<1>5. log' = [log EXCEPT ![leader] = longer]
  BY <1>4
<1>6. longer = Append(log[leader], b)
  OBVIOUS
<1> HIDE DEF longer
<1>7. Extends(longer, log[leader], b)
  BY <1>6, <1>1, <1>3, AppendBatch
<1>8. /\ longer \in Seq(Batch) /\ Len(longer) = Len(log[leader]) + 1
      /\ \A j \in 1..Len(log[leader]) : longer[j] = log[leader][j]
      /\ longer[Len(log[leader]) + 1] = b
      /\ InOrder(longer) /\ EndOf(longer) = b.last + 1
  BY <1>7 DEF Extends
<1>9. /\ log' \in [Replicas -> Seq(Batch)] /\ log'[leader] = longer
      /\ \A s \in Replicas : s # leader => log'[s] = log[s]
  BY <1>5, <1>1, <1>8, LogUpdate
<1>10. Stays
  <2>1. SUFFICES ASSUME NEW r \in Replicas, NEW i \in Nat, AsLeader(r, i)
                 PROVE  i <= Len(log'[r]) /\ \A j \in 1..i : log'[r][j] = log[r][j]
    BY DEF Stays
  <2>2. i <= Len(log[r]) /\ Len(log[r]) \in Nat
    BY <1>1, <2>1, LogType DEF AsLeader
  <2> QED
    BY <1>8, <1>9, <2>2, SMTT(20)
<1>11. Succession
  BY <1>1, <1>4 DEF Succession, RepType
<1>12. StillHeld
  BY <1>1, <1>10, <1>11, StaysHeld
<1>13. HwInv(leader)'
  <2>1. hw[leader] <= EndOf(longer)
    BY <1>2, <1>3, <1>8
  <2>2. ASSUME NEW i \in 1..Len(log'[leader]), log'[leader][i].last < hw'[leader]
        PROVE  Held(leader, i)'
    <3>1. i \in 1..Len(log[leader])
      BY <1>1, <1>2, <1>3, <1>4, <1>8, <1>9, <2>2, LogType
    <3>2. log[leader][i].last < hw[leader]
      BY <1>4, <1>8, <1>9, <2>2, <3>1
    <3>3. Held(leader, i)
      BY <1>1, <3>1, <3>2 DEF RepInv, HwInv
    <3> QED
      BY <1>1, <1>4, <1>12, <3>1, <3>3, LogType DEF StillHeld
  <2> QED
    BY <1>4, <1>9, <2>1, <2>2 DEF HwInv
<1>14. RepType'
  BY <1>1, <1>4, <1>9 DEF RepType
<1>15. \A r \in Replicas : (InOrder(log[r]) /\ HwInv(r))'
  BY <1>1, <1>4, <1>8, <1>9, <1>12, <1>13, HwInvKept DEF RepInv
<1> QED
  BY <1>10, <1>12, <1>14, <1>15 DEF Keeps, RepInv

LEMMA FollowsProperties ==
  ASSUME RepType, NEW r \in Replicas, Follows(r)
  PROVE  AsLeader(r, Len(log[r]))
  BY LogType, CommonProperties DEF Follows, AsLeader

LEMMA LeastOfTwo ==
  ASSUME NEW a \in Nat, NEW c \in Nat
  PROVE  Least({a, c}) \in Nat /\ Least({a, c}) <= a /\ Least({a, c}) <= c
<1>1. {a, c} \in SUBSET Nat /\ {a, c} # {}
  OBVIOUS
<1> QED
  BY <1>1, LeastProperties

\* What is below the offset two logs agree up to is common to them.
AgreedIs(r) ==
  /\ Agreed(r) \in Nat /\ Agreed(r) <= EndOf(log[r])
  /\ Agreed(r) = EndOf(SubSeq(log[r], 1, Common(r, leader)))
  /\ \A i \in 1..Len(log[leader]) : log[leader][i].last < Agreed(r) => AsLeader(r, i)

LEMMA AgreedProperties ==
  ASSUME RepInv, NEW r \in Replicas
  PROVE  AgreedIs(r)
<1> DEFINE n == Common(r, leader)
           prefix == SubSeq(log[r], 1, n)
<1>1. RepType /\ leader \in Replicas /\ InOrder(log[r]) /\ InOrder(log[leader])
  BY LogType DEF RepInv
<1>2. /\ n \in 0..Len(log[r]) /\ n <= Len(log[leader]) /\ n \in Nat
      /\ Len(log[r]) \in Nat /\ Len(log[leader]) \in Nat
  BY <1>1, CommonProperties, LogType
<1>3. \A i \in 1..n : Same(log[r][i], log[leader][i])
  BY <1>1, CommonProperties
<1>4. log[r] \in Seq(Batch)
  BY <1>1, LogType
<1>5. prefix = SubSeq(log[r], 1, n) /\ Agreed(r) = EndOf(prefix)
  BY DEF Agreed
<1> HIDE DEF n, prefix
<1>6. /\ prefix \in Seq(Batch) /\ Len(prefix) = n
      /\ \A j \in 1..n : prefix[j] = log[r][j]
      /\ InOrder(prefix)
  BY <1>1, <1>2, <1>4, <1>5, PrefixOf
<1>7. /\ EndOf(prefix) \in Nat
      /\ n = 0 => EndOf(prefix) = 0
      /\ n > 0 => EndOf(prefix) = log[r][n].last + 1
  <2>1. EndOf(prefix) \in Nat /\ (Len(prefix) = 0 => EndOf(prefix) = 0)
        /\ (Len(prefix) > 0 => EndOf(prefix) = prefix[Len(prefix)].last + 1)
    BY <1>6, EndProperties
  <2>2. n > 0 => n \in 1..n
    BY <1>2
  <2> QED
    BY <1>6, <2>1, <2>2
<1>8. EndOf(log[r]) \in Nat /\ \A i \in 1..Len(log[r]) : log[r][i].last < EndOf(log[r])
  BY <1>1, <1>4, EndProperties
<1>9. EndOf(prefix) <= EndOf(log[r])
  <2>1. CASE n = 0
    BY <1>7, <1>8, <2>1
  <2>2. CASE n > 0
    BY <1>1, <1>2, <1>7, <1>8, <2>2, LogType
  <2> QED
    BY <1>2, <2>1, <2>2
<1>10. ASSUME NEW i \in 1..Len(log[leader]), log[leader][i].last < EndOf(prefix)
       PROVE  AsLeader(r, i)
  <2>1. log[leader][i].last \in Nat
    BY <1>1, LogType
  <2>2. n > 0 /\ n \in 1..n /\ n \in 1..Len(log[r]) /\ n \in 1..Len(log[leader])
    BY <1>2, <1>7, <1>10, <2>1
  <2>3. log[leader][n].last = log[r][n].last /\ log[r][n].last \in Nat
    BY <1>1, <1>3, <2>2, LogType DEF Same
  <2>4. log[leader][i].last <= log[leader][n].last
    BY <1>7, <1>10, <2>1, <2>2, <2>3
  <2>5. i <= n
    BY <1>1, <1>2, <2>1, <2>2, <2>3, <2>4 DEF InOrder
  <2> QED
    BY <1>2, <1>3, <2>5 DEF AsLeader
<1> QED
  BY <1>5, <1>7, <1>9, <1>10 DEF AgreedIs, n, prefix

LEMMA TruncateKeeps ==
  ASSUME RepInv, NEW r \in Replicas, Truncate(r)
  PROVE  Keeps
<1> DEFINE n == Common(r, leader)
           prefix == SubSeq(log[r], 1, n)
           least == Least({hw[r], Agreed(r)})
<1>1. RepType /\ leader \in Replicas /\ InOrder(log[r]) /\ HwInv(r) /\ log[r] \in Seq(Batch)
      /\ hw[r] \in Nat /\ hw \in [Replicas -> Nat]
  BY LogType DEF RepInv, RepType
<1>2. /\ log' = [log EXCEPT ![r] = prefix] /\ hw' = [hw EXCEPT ![r] = least]
      /\ leader' = leader /\ isr' = isr /\ epoch' = epoch /\ r # leader
  BY DEF Truncate
<1>3. n \in 0..Len(log[r]) /\ n \in Nat /\ Len(log[r]) \in Nat
  BY <1>1, CommonProperties, LogType
<1>4. \A i \in Nat : AsLeader(r, i) => i <= n
  BY <1>1, CommonIsLargest
<1>5. Agreed(r) = EndOf(prefix) /\ Agreed(r) \in Nat
  BY AgreedProperties DEF AgreedIs
<1>6. least \in Nat /\ least <= hw[r] /\ least <= EndOf(prefix)
  BY <1>1, <1>5, LeastOfTwo
<1>7. prefix = SubSeq(log[r], 1, n)
  OBVIOUS
<1> HIDE DEF n, prefix, least
<1>8. /\ prefix \in Seq(Batch) /\ Len(prefix) = n
      /\ \A j \in 1..n : prefix[j] = log[r][j]
      /\ InOrder(prefix)
  BY <1>1, <1>3, <1>7, PrefixOf
<1>9. /\ log' \in [Replicas -> Seq(Batch)] /\ log'[r] = prefix
      /\ \A s \in Replicas : s # r => log'[s] = log[s]
  BY <1>1, <1>2, <1>8, LogUpdate
<1>10. Stays
  <2>1. SUFFICES ASSUME NEW s \in Replicas, NEW i \in Nat, AsLeader(s, i)
                 PROVE  i <= Len(log'[s]) /\ \A j \in 1..i : log'[s][j] = log[s][j]
    BY DEF Stays
  <2>2. i <= Len(log[s]) /\ Len(log[s]) \in Nat
    BY <1>1, <2>1, LogType DEF AsLeader
  <2>3. CASE s = r
    BY <1>3, <1>4, <1>8, <1>9, <2>1, <2>3
  <2> QED
    BY <1>9, <2>2, <2>3
<1>11. Succession
  BY <1>1, <1>2 DEF Succession, RepType
<1>12. StillHeld
  BY <1>1, <1>10, <1>11, StaysHeld
<1>13. HwInv(r)'
  <2>1. hw'[r] = least
    BY <1>1, <1>2
  <2>2. ASSUME NEW i \in 1..Len(log'[r]), log'[r][i].last < hw'[r]
        PROVE  Held(r, i)'
    <3>1. i \in 1..Len(log[r]) /\ i \in 1..n /\ i \in Nat
      BY <1>3, <1>8, <1>9
    <3>2. log[r][i].last < hw[r]
      <4>1. log[r][i].last < least /\ log[r][i].last \in Nat
        BY <1>1, <1>8, <1>9, <2>1, <2>2, <3>1, LogType
      <4> QED
        BY <1>1, <1>6, <4>1
    <3> QED
      BY <1>1, <1>12, <3>1, <3>2 DEF HwInv, StillHeld
  <2> QED
    BY <1>6, <1>9, <2>1, <2>2 DEF HwInv
<1>14. RepType'
  <2>1. hw' \in [Replicas -> Nat]
    BY <1>1, <1>2, <1>6
  <2> QED
    BY <1>1, <1>2, <1>9, <2>1 DEF RepType
<1>15. ASSUME NEW s \in Replicas
       PROVE  InOrder(log'[s]) /\ HwInv(s)'
  <2>1. CASE s = r
    BY <1>8, <1>9, <1>13, <2>1
  <2>2. CASE s # r
    <3>1. log'[s] = log[s] /\ hw'[s] = hw[s]
      BY <1>1, <1>2, <1>9, <2>2
    <3> QED
      BY <1>1, <1>12, <3>1, HwInvKept DEF RepInv
  <2> QED
    BY <2>1, <2>2
<1> QED
  BY <1>10, <1>12, <1>14, <1>15 DEF Keeps, RepInv

LEMMA FetchKeeps ==
  ASSUME RepInv, NEW r \in Replicas, Fetch(r)
  PROVE  Keeps
<1> DEFINE n == Len(log[r])
           next == log[leader][n + 1]
           longer == Append(log[r], next)
           least == Least({hw[leader], next.last + 1})
<1>1. /\ RepType /\ leader \in Replicas /\ log[r] \in Seq(Batch) /\ log[leader] \in Seq(Batch)
      /\ InOrder(log[r]) /\ InOrder(log[leader]) /\ HwInv(leader)
      /\ hw \in [Replicas -> Nat] /\ hw[leader] \in Nat
  BY LogType DEF RepInv, RepType
<1>2. /\ log' = [log EXCEPT ![r] = longer] /\ hw' = [hw EXCEPT ![r] = least]
      /\ leader' = leader /\ isr' = isr /\ epoch' = epoch /\ r # leader
      /\ n < Len(log[leader]) /\ Follows(r)
  BY DEF Fetch, Append1
<1>3. n \in Nat /\ n + 1 \in 1..Len(log[leader])
  BY <1>1, <1>2, LogType
<1>4. next \in Batch /\ next.last \in Nat
  BY <1>1, <1>3, LogType
<1>5. AsLeader(r, n)
  BY <1>1, <1>2, FollowsProperties
<1>6. EndOf(log[r]) <= next.last
  <2>1. CASE n = 0
    BY <1>1, <1>4, <2>1, EndProperties
  <2>2. CASE n > 0
    <3>1. n \in 1..n /\ n \in 1..Len(log[leader])
      BY <1>3, <2>2
    <3>2. log[r][n].last = log[leader][n].last /\ log[leader][n].last \in Nat
      BY <1>1, <1>5, <3>1, LogType DEF AsLeader, Same
    <3>3. log[leader][n].last < next.last
      BY <1>1, <1>3, <3>1 DEF InOrder
    <3>4. EndOf(log[r]) = log[r][n].last + 1
      BY <1>1, <2>2, EndProperties
    <3> HIDE DEF n, next
    <3> QED
      BY <1>4, <3>2, <3>3, <3>4
  <2> QED
    BY <1>3, <2>1, <2>2
<1>7. least \in Nat /\ least <= hw[leader] /\ least <= next.last + 1
  <2>1. next.last + 1 \in Nat
    BY <1>4
  <2> HIDE DEF next
  <2> QED
    BY <1>1, <2>1, LeastOfTwo
<1>8. longer = Append(log[r], next) /\ next = log[leader][n + 1] /\ n = Len(log[r])
  OBVIOUS
<1> HIDE DEF n, next, longer, least
<1>9. Extends(longer, log[r], next)
  BY <1>1, <1>4, <1>6, <1>8, AppendBatch
<1>10. /\ longer \in Seq(Batch) /\ Len(longer) = n + 1
       /\ \A j \in 1..n : longer[j] = log[r][j]
       /\ longer[n + 1] = next /\ InOrder(longer) /\ EndOf(longer) = next.last + 1
  BY <1>8, <1>9 DEF Extends
<1>11. /\ log' \in [Replicas -> Seq(Batch)] /\ log'[r] = longer
       /\ \A s \in Replicas : s # r => log'[s] = log[s]
  BY <1>1, <1>2, <1>10, LogUpdate
<1>12. Stays
  <2>1. SUFFICES ASSUME NEW s \in Replicas, NEW i \in Nat, AsLeader(s, i)
                 PROVE  i <= Len(log'[s]) /\ \A j \in 1..i : log'[s][j] = log[s][j]
    BY DEF Stays
  <2>2. i <= Len(log[s]) /\ Len(log[s]) \in Nat
    BY <1>1, <2>1, LogType DEF AsLeader
  <2>3. CASE s = r
    <3>1. i <= n
      BY <1>8, <2>2, <2>3
    <3> QED
      BY <1>3, <1>10, <1>11, <2>3, <3>1
  <2> QED
    BY <1>11, <2>2, <2>3
<1>13. Succession
  BY <1>1, <1>2 DEF Succession, RepType
<1>14. StillHeld
  BY <1>1, <1>12, <1>13, StaysHeld
<1>15. HwInv(r)'
  <2>1. hw'[r] = least
    BY <1>1, <1>2
  <2>2. \A j \in 1..(n + 1) : Same(log'[r][j], log[leader][j])
    BY <1>3, <1>5, <1>8, <1>10, <1>11 DEF AsLeader, Same
  <2>3. ASSUME NEW i \in 1..Len(log'[r]), log'[r][i].last < hw'[r]
        PROVE  Held(r, i)'
    <3>1. i \in 1..(n + 1) /\ i \in Nat /\ i \in 1..Len(log[leader])
      BY <1>3, <1>10, <1>11
    <3>2. log[leader][i].last < least /\ log[leader][i].last \in Nat
      BY <1>1, <2>1, <2>2, <2>3, <3>1, LogType DEF Same
    <3>3. log[leader][i].last < hw[leader]
      BY <1>1, <1>7, <3>2
    <3>4. Held(leader, i)
      BY <1>1, <3>1, <3>3 DEF HwInv
    <3>5. Held(leader, i)'
      BY <1>1, <1>2, <1>14, <3>1, <3>4 DEF StillHeld
    <3>6. log'[leader] = log[leader] /\ leader' = leader
      BY <1>1, <1>2, <1>11
    <3>7. AsLeader(r, i)'
      BY <1>10, <1>11, <2>2, <3>1, <3>6 DEF AsLeader
    <3> QED
      BY <3>5, <3>7 DEF Held
  <2>4. hw'[r] <= EndOf(log'[r])
    BY <1>7, <1>10, <1>11, <2>1
  <2> QED
    BY <2>3, <2>4 DEF HwInv
<1>16. RepType'
  <2>1. hw' \in [Replicas -> Nat]
    BY <1>1, <1>2, <1>7
  <2> QED
    BY <1>1, <1>2, <1>11, <2>1 DEF RepType
<1>17. ASSUME NEW s \in Replicas
       PROVE  InOrder(log'[s]) /\ HwInv(s)'
  <2>1. CASE s = r
    BY <1>10, <1>11, <1>15, <2>1
  <2>2. CASE s # r
    <3>1. log'[s] = log[s] /\ hw'[s] = hw[s]
      BY <1>1, <1>2, <1>11, <2>2
    <3> QED
      BY <1>1, <1>14, <3>1, HwInvKept DEF RepInv
  <2> QED
    BY <2>1, <2>2
<1> QED
  BY <1>12, <1>14, <1>16, <1>17 DEF Keeps, RepInv

\* Nothing is stored in the other steps: what is held only depends on the leader
\* and the in-sync replicas.
LEMMA SameLogKeeps ==
  ASSUME RepInv, log' = log, Succession, isr' \subseteq Replicas, epoch' \in Nat,
         hw' \in [Replicas -> Nat],
         \A r \in Replicas : hw'[r] = hw[r] \/ (StillHeld => HwInv(r)')
  PROVE  Keeps
<1>1. Stays
  BY LogType DEF Stays, AsLeader, RepInv
<1>2. StillHeld
  BY <1>1, StaysHeld DEF RepInv
<1>3. RepType'
  BY DEF RepType, RepInv, Succession
<1>4. \A r \in Replicas : HwInv(r)'
  BY <1>2, HwInvKept DEF RepInv
<1> QED
  BY <1>1, <1>2, <1>3, <1>4 DEF Keeps, RepInv

LEMMA LearnKeeps ==
  ASSUME RepInv, NEW r \in Replicas, Learn(r)
  PROVE  Keeps
<1> DEFINE least == Least({hw[leader], EndOf(log[r])})
<1>1. /\ RepType /\ leader \in Replicas /\ log[r] \in Seq(Batch) /\ log[leader] \in Seq(Batch)
      /\ InOrder(log[r]) /\ HwInv(leader)
      /\ hw \in [Replicas -> Nat] /\ hw[leader] \in Nat
  BY LogType DEF RepInv, RepType
<1>2. /\ hw' = [hw EXCEPT ![r] = least] /\ Follows(r) /\ r # leader
      /\ log' = log /\ leader' = leader /\ isr' = isr /\ epoch' = epoch
  BY DEF Learn
<1>3. AsLeader(r, Len(log[r])) /\ Len(log[r]) \in Nat
  BY <1>1, <1>2, FollowsProperties, LogType
<1>4. least \in Nat /\ least <= hw[leader] /\ least <= EndOf(log[r])
  BY <1>1, EndProperties, LeastOfTwo
<1> HIDE DEF least
<1>5. ASSUME StillHeld
      PROVE  HwInv(r)'
  <2>1. hw'[r] = least
    BY <1>1, <1>2
  <2>2. ASSUME NEW i \in 1..Len(log[r]), log[r][i].last < least
        PROVE  Held(r, i)'
    <3>1. i \in Nat /\ i \in 1..Len(log[leader]) /\ AsLeader(r, i)
      BY <1>1, <1>3, LogType DEF AsLeader
    <3>2. log[leader][i].last = log[r][i].last /\ log[r][i].last \in Nat
      BY <1>1, <1>3, LogType DEF AsLeader, Same
    <3>3. log[leader][i].last < hw[leader]
      BY <1>1, <1>4, <2>2, <3>2
    <3>4. Held(leader, i)
      BY <1>1, <3>1, <3>3 DEF HwInv
    <3> QED
      BY <1>5, <3>1, <3>4 DEF Held, StillHeld
  <2> QED
    BY <1>2, <1>4, <2>1, <2>2 DEF HwInv
<1>6. hw' \in [Replicas -> Nat] /\ \A s \in Replicas : s # r => hw'[s] = hw[s]
  BY <1>1, <1>2, <1>4
<1>7. Succession /\ isr' \subseteq Replicas /\ epoch' \in Nat
  BY <1>1, <1>2 DEF Succession, RepType
<1> QED
  BY <1>2, <1>5, <1>6, <1>7, SameLogKeeps

LEMMA CommitKeeps ==
  ASSUME RepInv, Commit
  PROVE  Keeps
<1> DEFINE ends == {Agreed(r) : r \in isr}
           least == Least(ends)
<1>1. /\ RepType /\ leader \in Replicas /\ leader \in isr /\ isr \subseteq Replicas
      /\ hw \in [Replicas -> Nat] /\ log[leader] \in Seq(Batch) /\ InOrder(log[leader])
  BY LogType DEF RepInv, RepType
<1>2. /\ hw' = [hw EXCEPT ![leader] = least]
      /\ log' = log /\ leader' = leader /\ isr' = isr /\ epoch' = epoch
  BY DEF Commit
<1>3. \A r \in isr : AgreedIs(r)
  BY <1>1, AgreedProperties
<1>4. ends \in SUBSET Nat /\ ends # {}
  BY <1>1, <1>3 DEF AgreedIs
<1>5. least \in Nat /\ \A r \in isr : least <= Agreed(r)
  <2> HIDE DEF ends
  <2>1. least \in ends /\ \A y \in ends : least <= y
    BY <1>4, LeastProperties
  <2> QED
    BY <1>4, <2>1 DEF ends
<1> HIDE DEF ends, least
<1>6. ASSUME NEW i \in 1..Len(log[leader]), log[leader][i].last < least
      PROVE  Held(leader, i)
  <2>1. log[leader][i].last \in Nat
    BY <1>1, LogType
  <2>2. ASSUME NEW s \in isr PROVE AsLeader(s, i)
    <3>1. Agreed(s) \in Nat /\ least <= Agreed(s)
      BY <1>3, <1>5 DEF AgreedIs
    <3>2. log[leader][i].last < Agreed(s)
      BY <1>5, <1>6, <2>1, <3>1
    <3> QED
      BY <1>3, <3>2 DEF AgreedIs
  <2> QED
    BY <1>1, <2>2 DEF Held
<1>7. least <= EndOf(log[leader])
  BY <1>1, <1>3, <1>5, EndProperties DEF AgreedIs
<1>8. ASSUME StillHeld
      PROVE  HwInv(leader)'
  <2>1. hw'[leader] = least
    BY <1>1, <1>2
  <2>2. \A i \in 1..Len(log[leader]) : i \in Nat
    BY <1>1, LogType
  <2>3. \A i \in 1..Len(log[leader]) : log[leader][i].last < least => Held(leader, i)'
    BY <1>1, <1>2, <1>6, <1>8, <2>2 DEF StillHeld
  <2> QED
    BY <1>2, <1>7, <2>1, <2>3 DEF HwInv
<1>9. hw' \in [Replicas -> Nat] /\ \A s \in Replicas : s # leader => hw'[s] = hw[s]
  BY <1>1, <1>2, <1>5
<1>10. Succession /\ isr' \subseteq Replicas /\ epoch' \in Nat
  BY <1>1, <1>2 DEF Succession, RepType
<1> QED
  BY <1>1, <1>2, <1>8, <1>9, <1>10, SameLogKeeps

\* In-sync replicas leave, or come back with all that the leader has; the next leader
\* is one of them.
LEMMA MembersKeep ==
  ASSUME RepInv, NEW r \in Replicas, Shrink(r) \/ Expand(r) \/ Elect(r)
  PROVE  Keeps
<1>1. /\ RepType /\ leader \in isr /\ isr \subseteq Replicas /\ epoch \in Nat
      /\ hw \in [Replicas -> Nat]
  BY DEF RepInv, RepType
<1>2. log' = log /\ hw' = hw /\ isr' \subseteq Replicas
  BY <1>1 DEF Shrink, Expand, Elect
<1>3. epoch' \in Nat
  BY <1>1 DEF Shrink, Expand, Elect
<1>4. Succession
  <2>1. CASE Shrink(r)
    BY <1>1, <2>1 DEF Shrink, Succession
  <2>2. CASE Expand(r)
    BY <1>1, <2>2, FollowsProperties DEF Expand, Succession
  <2>3. CASE Elect(r)
    BY <1>1, <2>3 DEF Elect, Succession
  <2> QED
    BY <2>1, <2>2, <2>3
<1> QED
  BY <1>1, <1>2, <1>3, <1>4, SameLogKeeps

LEMMA ReplicatingKeeps ==
  ASSUME RepInv, Replicating
  PROVE  Keeps
BY ProduceKeeps, TruncateKeeps, FetchKeeps, LearnKeeps, CommitKeeps, MembersKeep
   DEF Replicating, Replicate

\* The steps of the partition stay within the bounds of the model.
Bounded ==
  epoch <= MaxEpoch /\ \A r \in Replicas : \A i \in 1..Len(log[r]) : log[r][i].last < MaxOffset

LEMMA ReplicatingBounded ==
  ASSUME RepInv, Bounded, Replicating
  PROVE  Bounded'
<1>1. /\ RepType /\ leader \in Replicas /\ log \in [Replicas -> Seq(Batch)] /\ epoch \in Nat
      /\ MaxEpoch \in Nat
  BY LogType, ReplicationAssumption DEF RepInv, RepType
<1>2. ASSUME NEW size \in 1..2, Produce(size)
      PROVE  Bounded'
  <2> DEFINE b == [last |-> EndOf(log[leader]) + size - 1, epoch |-> epoch, rotten |-> FALSE]
             longer == Append(log[leader], b)
  <2>1. /\ log' = [log EXCEPT ![leader] = longer] /\ epoch' = epoch
        /\ b.last < MaxOffset
    BY <1>2 DEF Produce, Append1
  <2>2. log[leader] \in Seq(Batch) /\ InOrder(log[leader])
    BY <1>1, LogType DEF RepInv
  <2>3. EndOf(log[leader]) \in Nat
    BY <2>2, EndProperties
  <2>4. b \in Batch /\ EndOf(log[leader]) <= b.last
    BY <1>1, <2>3 DEF Batch
  <2>5. longer = Append(log[leader], b)
    OBVIOUS
  <2> HIDE DEF b, longer
  <2>6. Extends(longer, log[leader], b)
    BY <2>2, <2>4, <2>5, AppendBatch
  <2>7. /\ Len(longer) = Len(log[leader]) + 1 /\ longer \in Seq(Batch)
        /\ \A j \in 1..Len(log[leader]) : longer[j] = log[leader][j]
        /\ longer[Len(log[leader]) + 1] = b
    BY <2>6 DEF Extends
  <2>8. log'[leader] = longer /\ \A s \in Replicas : s # leader => log'[s] = log[s]
    BY <1>1, <2>1, <2>7, LogUpdate
  <2>9. \A i \in 1..Len(longer) : longer[i].last < MaxOffset
    BY <1>1, <2>1, <2>7, LogType DEF Bounded
  <2> QED
    BY <2>1, <2>8, <2>9 DEF Bounded
<1>3. ASSUME NEW r \in Replicas, Truncate(r)
      PROVE  Bounded'
  <2> DEFINE n == Common(r, leader)
             prefix == SubSeq(log[r], 1, n)
  <2>1. log' = [log EXCEPT ![r] = prefix] /\ epoch' = epoch
    BY <1>3 DEF Truncate
  <2>2. log[r] \in Seq(Batch) /\ InOrder(log[r]) /\ n \in 0..Len(log[r]) /\ Len(log[r]) \in Nat
    BY <1>1, LogType, CommonProperties DEF RepInv
  <2>3. prefix = SubSeq(log[r], 1, n)
    OBVIOUS
  <2> HIDE DEF n, prefix
  <2>4. /\ prefix \in Seq(Batch) /\ Len(prefix) = n
        /\ \A j \in 1..n : prefix[j] = log[r][j]
    BY <2>2, <2>3, PrefixOf
  <2>5. log'[r] = prefix /\ \A s \in Replicas : s # r => log'[s] = log[s]
    BY <1>1, <2>1, <2>4, LogUpdate
  <2>6. \A i \in 1..Len(prefix) : prefix[i].last < MaxOffset
    BY <2>2, <2>4 DEF Bounded
  <2> QED
    BY <2>1, <2>5, <2>6 DEF Bounded
<1>4. ASSUME NEW r \in Replicas, Fetch(r)
      PROVE  Bounded'
  <2> DEFINE next == log[leader][Len(log[r]) + 1]
             longer == Append(log[r], next)
  <2>1. /\ log' = [log EXCEPT ![r] = longer] /\ epoch' = epoch
        /\ Len(log[r]) < Len(log[leader])
    BY <1>4 DEF Fetch, Append1
  <2>2. log[r] \in Seq(Batch) /\ Len(log[r]) \in Nat /\ Len(log[leader]) \in Nat
    BY <1>1, LogType
  <2>3. next \in Batch /\ next.last < MaxOffset
    BY <1>1, <2>1, <2>2, LogType DEF Bounded
  <2>4. longer = Append(log[r], next)
    OBVIOUS
  <2> HIDE DEF next, longer
  <2>5. /\ longer \in Seq(Batch) /\ Len(longer) = Len(log[r]) + 1
        /\ \A j \in 1..Len(log[r]) : longer[j] = log[r][j]
        /\ longer[Len(log[r]) + 1] = next
    BY <2>2, <2>3, <2>4, AppendProperties
  <2>6. log'[r] = longer /\ \A s \in Replicas : s # r => log'[s] = log[s]
    BY <1>1, <2>1, <2>5, LogUpdate
  <2>7. \A i \in 1..Len(longer) : longer[i].last < MaxOffset
    BY <2>2, <2>3, <2>5 DEF Bounded
  <2> QED
    BY <2>1, <2>6, <2>7 DEF Bounded
<1>5. ASSUME NEW r \in Replicas, Learn(r) \/ Commit \/ Shrink(r) \/ Expand(r) \/ Elect(r)
      PROVE  Bounded'
  <2>1. log' = log /\ (epoch' = epoch \/ (epoch < MaxEpoch /\ epoch' = epoch + 1))
    BY <1>5 DEF Learn, Commit, Shrink, Expand, Elect
  <2> QED
    BY <1>1, <2>1 DEF Bounded
<1> QED
  BY <1>1, <1>2, <1>3, <1>4, <1>5 DEF Replicating, Replicate

\* A batch that goes bad is the same batch.
Spoils(r, i) ==
  /\ log' \in [Replicas -> Seq(Batch)]
  /\ \A s \in Replicas : Len(log'[s]) = Len(log[s])
  /\ \A s \in Replicas : \A j \in 1..Len(log[s]) :
       /\ Same(log'[s][j], log[s][j])
       /\ log'[s][j].rotten = (log[s][j].rotten \/ (s = r /\ j = i))

LEMMA RotSpoils ==
  ASSUME RepType, NEW r \in Replicas, NEW i \in 1..Len(log[r]), Rot(r, i)
  PROVE  Spoils(r, i)
<1> DEFINE batch == [log[r][i] EXCEPT !.rotten = TRUE]
           batches == [log[r] EXCEPT ![i] = batch]
<1>1. log' = [log EXCEPT ![r] = batches]
  BY DEF Rot
<1>2. log[r] \in Seq(Batch) /\ log[r][i] \in Batch /\ Len(log[r]) \in Nat
  BY LogType
<1>3. /\ batch \in Batch /\ batch.last = log[r][i].last /\ batch.epoch = log[r][i].epoch
      /\ batch.rotten = TRUE
  BY <1>2 DEF Batch
<1> HIDE DEF batch
<1>4. /\ batches \in Seq(Batch) /\ Len(batches) = Len(log[r]) /\ batches[i] = batch
      /\ \A j \in 1..Len(log[r]) : j # i => batches[j] = log[r][j]
  BY <1>2, <1>3, ExceptSeq
<1> HIDE DEF batches
<1>5. /\ log' \in [Replicas -> Seq(Batch)] /\ log'[r] = batches
      /\ \A s \in Replicas : s # r => log'[s] = log[s]
  BY <1>1, <1>4, LogUpdate
<1>6. ASSUME NEW s \in Replicas, NEW j \in 1..Len(log[s])
      PROVE  /\ Same(log'[s][j], log[s][j])
             /\ log'[s][j].rotten = (log[s][j].rotten \/ (s = r /\ j = i))
  <2>1. log[s][j].rotten \in BOOLEAN
    BY LogType DEF Batch
  <2>2. CASE s = r /\ j = i
    BY <1>3, <1>4, <1>5, <2>2 DEF Same
  <2>3. CASE s = r /\ j # i
    BY <1>4, <1>5, <2>1, <2>3 DEF Same
  <2>4. CASE s # r
    BY <1>5, <2>1, <2>4 DEF Same
  <2> QED
    BY <2>2, <2>3, <2>4
<1> QED
  BY <1>4, <1>5, <1>6 DEF Spoils

LEMMA RotKeeps ==
  ASSUME RepInv, Bounded, NEW r \in Replicas, NEW i \in 1..Len(log[r]), Rot(r, i)
  PROVE  RepInv' /\ StillHeld /\ Bounded' /\ Spoils(r, i)
<1>1. RepType /\ Spoils(r, i)
  BY RotSpoils DEF RepInv
<1>2. hw' = hw /\ leader' = leader /\ isr' = isr /\ epoch' = epoch
  BY DEF Rot
<1>3. ASSUME NEW s \in Replicas
      PROVE  /\ log[s] \in Seq(Batch) /\ log'[s] \in Seq(Batch) /\ Len(log'[s]) = Len(log[s])
             /\ Len(log[s]) \in Nat /\ InOrder(log[s])
             /\ \A j \in 1..Len(log[s]) : /\ log'[s][j].last = log[s][j].last
                                          /\ Same(log'[s][j], log[s][j])
  BY <1>1, LogType DEF Spoils, Same, RepInv
<1>4. StillHeld
  <2>1. \A s \in Replicas, n \in Nat : AsLeader(s, n) =>
          n <= Len(log'[s]) /\ \A j \in 1..n : Same(log'[s][j], log[s][j])
    BY <1>3 DEF AsLeader
  <2>2. leader' \in isr /\ \A s \in isr' : s \in Replicas /\ s \in isr
    BY <1>1, <1>2 DEF RepType
  <2> QED
    BY <1>1, <2>1, <2>2, HeldKept DEF StillHeld
<1>5. RepType'
  BY <1>1, <1>2 DEF RepType, Spoils
<1>6. ASSUME NEW s \in Replicas
      PROVE  InOrder(log'[s]) /\ HwInv(s)'
  <2>1. InOrder(log'[s])
    BY <1>3 DEF InOrder
  <2>2. EndOf(log'[s]) = EndOf(log[s])
    <3>1. CASE Len(log[s]) = 0
      BY <1>3, <2>1, <3>1, EndProperties
    <3>2. CASE Len(log[s]) > 0
      <4>1. Len(log[s]) \in 1..Len(log[s])
        BY <1>3, <3>2
      <4>2. EndOf(log[s]) = log[s][Len(log[s])].last + 1
        BY <1>3, <3>2, EndProperties
      <4>3. EndOf(log'[s]) = log'[s][Len(log'[s])].last + 1
        BY <1>3, <2>1, <3>2, EndProperties
      <4> QED
        BY <1>3, <4>1, <4>2, <4>3
    <3> QED
      BY <1>3, <3>1, <3>2
  <2>3. \A j \in 1..Len(log[s]) : log[s][j].last < hw[s] => Held(s, j)'
    BY <1>3, <1>4 DEF RepInv, HwInv, StillHeld
  <2> QED
    BY <1>2, <1>3, <2>1, <2>2, <2>3 DEF HwInv, RepInv
<1>7. Bounded'
  BY <1>2, <1>3 DEF Bounded
<1> QED
  BY <1>1, <1>4, <1>5, <1>6, <1>7 DEF RepInv

LEMMA InitRep ==
  ASSUME InitReplication
  PROVE  RepInv /\ Bounded
<1>1. \A r \in Replicas : log[r] = << >> /\ Len(log[r]) = 0 /\ hw[r] = 0
  BY DEF InitReplication
<1>2. RepType
  BY DEF InitReplication, RepType
<1>3. \A r \in Replicas : InOrder(log[r]) /\ HwInv(r)
  BY <1>1 DEF InOrder, HwInv, EndOf
<1>4. Bounded
  BY <1>1, ReplicationAssumption DEF Bounded, InitReplication
<1> QED
  BY <1>2, <1>3, <1>4 DEF RepInv

-----------------------------------------------------------------------------
(* The command: what it has passed, and what it was answered in this round *)

\* The first n batches end where the command has come to, and every replica has them:
\* one of them that went bad on some replicas only is reported, or went bad unseen.
PassedUpTo(n) ==
  \A r \in Replicas :
    /\ Held(r, n) /\ log[r][n].last + 1 = offset
    /\ \A s \in Replicas : \A i \in 1..n :
         first <= log[r][i].last /\ log[r][i].rotten /\ ~log[s][i].rotten =>
           log[r][i].last \in reported \union unseen

Passed == first < offset => \E n \in Nat \ {0} : PassedUpTo(n)

\* What was reported is committed, and bad.
Bad(o, r, i) == Held(r, i) /\ log[r][i].last = o /\ log[r][i].rotten

Reported == \A o \in reported : \E r \in Replicas : \E i \in Nat \ {0} : Bad(o, r, i)

\* A batch of an answer, below the answer's high watermark, is the ith of the log, for good.
Answers(r, b, i) ==
  /\ Held(r, i) /\ Same(b, log[r][i])
  /\ b.rotten => log[r][i].rotten
  /\ log[r][i].rotten /\ ~b.rotten => log[r][i].last \in unseen

\* The batch that is compared next is the first from the fetch offset on.
NextIn(r, b, i) ==
  b.last >= offset /\ \A j \in 1..(i - 1) : log[r][j].last < offset

\* The answer of r begins after its first k batches.
AnsweredFrom(r, k) ==
  /\ \A j \in 1..Len(answers[r].batches) :
       Below(answers[r], answers[r].batches[j]) => Answers(r, answers[r].batches[j], k + j)
  /\ cursor <= Len(answers[r].batches) /\ Below(answers[r], answers[r].batches[cursor]) =>
       NextIn(r, answers[r].batches[cursor], k + cursor)

AnsInv == \A r \in Replicas : \E k \in Nat : AnsweredFrom(r, k)

ToolType ==
  /\ pc \in {"start", "fetch", "verify", "failed"}
  /\ offset \in 0..MaxOffset /\ first \in 0..MaxOffset /\ first <= offset
  /\ cursor \in 1..(offset + 1) /\ (pc \in {"start", "fetch"} => cursor = 1)
  /\ pc = "start" => answers = Unanswered /\ first = offset /\ reported = {}
  /\ answers \in [Replicas -> Answer]
  /\ reported \subseteq 0..MaxOffset /\ unseen \subseteq 0..MaxOffset
  /\ faults \in Nat

ToolInv == ToolType /\ Passed /\ Reported /\ AnsInv

IInv == RepInv /\ Bounded /\ ToolInv

\* A step of the partition, as the command sees it.
Kept(r, j) ==
  /\ Same(log'[r][j], log[r][j])
  /\ log[r][j].rotten => log'[r][j].rotten
  /\ log'[r][j].rotten /\ ~log[r][j].rotten /\ (answers[r] # None \/ log[r][j].last < offset) =>
       log[r][j].last \in unseen'

Behind ==
  /\ StillHeld /\ unseen \subseteq unseen'
  /\ \A r \in Replicas, i \in Nat : AsLeader(r, i) => \A j \in 1..i : Kept(r, j)

LEMMA BehindKeepsPassed ==
  ASSUME RepInv, ToolType, Passed, Behind, UNCHANGED tool
  PROVE  Passed'
<1>1. first' = first /\ offset' = offset /\ reported' = reported /\ unseen \subseteq unseen'
  BY DEF tool, Behind
<1>2. SUFFICES ASSUME first < offset PROVE (\E n \in Nat \ {0} : PassedUpTo(n))'
  BY <1>1 DEF Passed
<1>3. PICK n \in Nat \ {0} : PassedUpTo(n)
  BY <1>2 DEF Passed
<1>4. \A r \in Replicas : Held(r, n) /\ AsLeader(r, n) /\ n <= Len(log[r])
  BY <1>3 DEF PassedUpTo, Held, AsLeader
<1>5. \A r \in Replicas : \A i \in 1..n : Kept(r, i) /\ log'[r][i].last = log[r][i].last
  BY <1>4 DEF Behind, Kept, Same
<1>6. ASSUME NEW r \in Replicas
      PROVE  Held(r, n)' /\ log'[r][n].last + 1 = offset'
  BY <1>1, <1>3, <1>4, <1>5 DEF Behind, StillHeld, PassedUpTo
<1>7. ASSUME NEW r \in Replicas, NEW i \in 1..n
      PROVE  log[r][i].last < offset
  <2>1. i = n \/ log[r][i].last < log[r][n].last
    BY <1>4, LogType, SMTT(20) DEF RepInv, InOrder
  <2>2. log[r][n].last + 1 = offset /\ log[r][n].last \in Nat /\ log[r][i].last \in Nat
    BY <1>3, <1>4, LogType DEF PassedUpTo, RepInv
  <2> QED
    BY <2>1, <2>2
<1>8. ASSUME NEW r \in Replicas, NEW s \in Replicas, NEW i \in 1..n,
             first <= log[r][i].last, log'[r][i].rotten, ~log'[s][i].rotten
      PROVE  log[r][i].last \in reported \union unseen'
  <2>1. CASE log[r][i].rotten
    BY <1>1, <1>3, <1>5, <1>8, <2>1 DEF PassedUpTo, Kept
  <2>2. CASE ~log[r][i].rotten
    BY <1>5, <1>7, <1>8, <2>2 DEF Kept
  <2> QED
    BY <2>1, <2>2
<1>9. PassedUpTo(n)'
  BY <1>1, <1>5, <1>6, <1>8 DEF PassedUpTo
<1> QED
  BY <1>9

LEMMA BehindKeepsReported ==
  ASSUME RepInv, Reported, Behind, UNCHANGED tool
  PROVE  Reported'
<1>1. reported' = reported
  BY DEF tool
<1>2. SUFFICES ASSUME NEW o \in reported
               PROVE  (\E r \in Replicas : \E i \in Nat \ {0} : Bad(o, r, i))'
  BY <1>1 DEF Reported
<1>3. PICK r \in Replicas, i \in Nat \ {0} : Bad(o, r, i)
  BY DEF Reported
<1>4. Kept(r, i) /\ Held(r, i)'
  BY <1>3 DEF Bad, Behind, StillHeld, Held
<1>5. Bad(o, r, i)'
  BY <1>3, <1>4 DEF Bad, Kept, Same
<1> QED
  BY <1>5

LEMMA BehindKeepsAnswers ==
  ASSUME RepInv, ToolType, AnsInv, Behind, UNCHANGED tool
  PROVE  AnsInv'
<1>1. answers' = answers /\ cursor' = cursor /\ offset' = offset /\ unseen \subseteq unseen'
  BY DEF tool, Behind
<1>2. SUFFICES ASSUME NEW r \in Replicas
               PROVE  (\E k \in Nat : AnsweredFrom(r, k))'
  BY DEF AnsInv
<1>3. PICK k \in Nat : AnsweredFrom(r, k)
  BY DEF AnsInv
<1> DEFINE a == answers[r]
<1>4. a.batches \in Seq(Batch) /\ Len(a.batches) \in Nat /\ cursor \in Nat \ {0}
  BY BatchesType DEF ToolType, Answer
<1>5. ASSUME NEW j \in 1..Len(a.batches), Answers(r, a.batches[j], k + j)
      PROVE  /\ Answers(r, a.batches[j], k + j)'
             /\ \A i \in 1..(k + j) : log'[r][i].last = log[r][i].last
  <2>1. Held(r, k + j) /\ AsLeader(r, k + j) /\ k + j \in Nat /\ k + j \in 1..(k + j)
    BY <1>4, <1>5 DEF Answers, Held
  <2>2. \A i \in 1..(k + j) : Kept(r, i)
    BY <2>1 DEF Behind
  <2>3. Held(r, k + j)'
    BY <2>1 DEF Behind, StillHeld
  <2>4. a # None
    <3>1. Len(None.batches) = 0
      BY DEF None
    <3> QED
      BY <1>4, <3>1
  <2>5. Kept(r, k + j)
    BY <2>1, <2>2
  <2>6. /\ Same(a.batches[j], log'[r][k + j])
        /\ a.batches[j].rotten => log'[r][k + j].rotten
        /\ log'[r][k + j].last = log[r][k + j].last
    BY <1>5, <2>5 DEF Answers, Kept, Same
  <2>7. ASSUME log'[r][k + j].rotten, ~a.batches[j].rotten
        PROVE  log[r][k + j].last \in unseen'
    <3>1. CASE log[r][k + j].rotten
      BY <1>1, <1>5, <2>7, <3>1 DEF Answers
    <3>2. CASE ~log[r][k + j].rotten
      BY <2>4, <2>5, <2>7, <3>2 DEF Kept
    <3> QED
      BY <3>1, <3>2
  <2>8. Answers(r, a.batches[j], k + j)'
    BY <1>1, <2>3, <2>6, <2>7 DEF Answers
  <2> QED
    BY <2>2, <2>8 DEF Kept, Same
<1>6. \A j \in 1..Len(a.batches) : Below(a, a.batches[j]) => Answers(r, a.batches[j], k + j)
  BY <1>3 DEF AnsweredFrom
<1>7. ASSUME cursor <= Len(a.batches), Below(a, a.batches[cursor])
      PROVE  NextIn(r, a.batches[cursor], k + cursor)'
  <2>1. cursor \in 1..Len(a.batches)
    BY <1>4, <1>7
  <2>2. NextIn(r, a.batches[cursor], k + cursor)
    BY <1>3, <1>7 DEF AnsweredFrom
  <2>3. \A i \in 1..(k + cursor) : log'[r][i].last = log[r][i].last
    BY <1>5, <1>6, <1>7, <2>1
  <2>4. \A i \in 1..((k + cursor) - 1) : i \in 1..(k + cursor)
    BY <1>4
  <2>5. a.batches[cursor].last >= offset /\ \A i \in 1..((k + cursor) - 1) : log'[r][i].last < offset
    BY <2>2, <2>3, <2>4 DEF NextIn
  <2>6. (k + cursor)' = k + cursor /\ a' = a
    BY <1>1
  <2> QED
    BY <1>1, <2>5, <2>6 DEF NextIn
<1>8. AnsweredFrom(r, k)'
  BY <1>1, <1>5, <1>6, <1>7 DEF AnsweredFrom, Below
<1> QED
  BY <1>8

LEMMA HwBounded ==
  ASSUME RepInv, Bounded, NEW r \in Replicas
  PROVE  hw[r] \in 0..MaxOffset
<1>1. /\ log[r] \in Seq(Batch) /\ InOrder(log[r]) /\ Len(log[r]) \in Nat
      /\ hw[r] \in Nat /\ hw[r] <= EndOf(log[r])
  BY LogType DEF RepInv, HwInv
<1>2. EndOf(log[r]) \in Nat /\ MaxOffset \in Nat
  BY <1>1, EndProperties, ReplicationAssumption
<1>3. CASE Len(log[r]) = 0
  BY <1>1, <1>2, <1>3, EndProperties
<1>4. CASE Len(log[r]) > 0
  <2>1. Len(log[r]) \in 1..Len(log[r])
    BY <1>1, <1>4
  <2>2. log[r][Len(log[r])].last < MaxOffset /\ log[r][Len(log[r])].last \in Nat
    BY <2>1, LogType DEF Bounded, RepInv
  <2>3. EndOf(log[r]) = log[r][Len(log[r])].last + 1
    BY <1>1, <1>4, EndProperties
  <2> QED
    BY <1>1, <1>2, <2>2, <2>3
<1> QED
  BY <1>1, <1>3, <1>4

LEMMA PartitionStepKeeps ==
  ASSUME IInv, PartitionStep
  PROVE  IInv'
<1>1. /\ RepInv /\ Bounded /\ ToolType /\ Passed /\ Reported /\ AnsInv
      /\ UNCHANGED tool /\ unseen' = unseen /\ faults' = faults /\ Replicating
  BY DEF IInv, ToolInv, PartitionStep
<1>2. RepInv' /\ Stays /\ StillHeld /\ Bounded'
  BY <1>1, ReplicatingKeeps, ReplicatingBounded DEF Keeps
<1>3. Behind
  <2>1. SUFFICES ASSUME NEW r \in Replicas, NEW i \in Nat, AsLeader(r, i), NEW j \in 1..i
                 PROVE  Kept(r, j)
    BY <1>1, <1>2 DEF Behind
  <2>2. log'[r][j] = log[r][j]
    BY <1>2, <2>1 DEF Stays
  <2> QED
    BY <2>2 DEF Kept, Same
<1>4. ToolType'
  BY <1>1 DEF ToolType, tool
<1> QED
  BY <1>1, <1>2, <1>3, <1>4, BehindKeepsPassed, BehindKeepsReported, BehindKeepsAnswers
     DEF IInv, ToolInv

LEMMA RotStepKeeps ==
  ASSUME IInv, NEW r \in Replicas, NEW i \in 1..Len(log[r]), RotStep(r, i)
  PROVE  IInv'
<1>1. /\ RepInv /\ Bounded /\ ToolType /\ Passed /\ Reported /\ AnsInv
      /\ UNCHANGED tool /\ faults' = faults /\ Rot(r, i)
      /\ unseen' = IF answers[r] # None \/ log[r][i].last < offset
                   THEN unseen \union {log[r][i].last} ELSE unseen
  BY DEF IInv, ToolInv, RotStep
<1>2. RepInv' /\ StillHeld /\ Bounded' /\ Spoils(r, i)
  BY <1>1, RotKeeps
<1>3. Behind
  <2>1. SUFFICES ASSUME NEW s \in Replicas, NEW n \in Nat, AsLeader(s, n), NEW j \in 1..n
                 PROVE  Kept(s, j)
    BY <1>1, <1>2 DEF Behind
  <2>2. j \in 1..Len(log[s])
    BY <1>1, <2>1, LogType DEF AsLeader, RepInv
  <2>3. /\ Same(log'[s][j], log[s][j])
        /\ log'[s][j].rotten = (log[s][j].rotten \/ (s = r /\ j = i))
    BY <1>2, <2>2 DEF Spoils
  <2>4. log[s][j].rotten \in BOOLEAN
    BY <1>1, <2>2, LogType DEF Batch, RepInv
  <2>5. ASSUME log'[s][j].rotten, ~log[s][j].rotten, answers[s] # None \/ log[s][j].last < offset
        PROVE  log[s][j].last \in unseen'
    <3>1. s = r /\ j = i
      BY <2>3, <2>5
    <3> QED
      BY <1>1, <2>5, <3>1
  <2> QED
    BY <2>3, <2>4, <2>5 DEF Kept
<1>4. log[r][i].last \in 0..MaxOffset
  BY <1>1, LogType, ReplicationAssumption DEF Bounded, RepInv
<1>5. ToolType'
  BY <1>1, <1>4 DEF ToolType, tool
<1> QED
  BY <1>1, <1>2, <1>3, <1>5, BehindKeepsPassed, BehindKeepsReported, BehindKeepsAnswers
     DEF IInv, ToolInv

\* The steps of the command leave the partition alone.
SamePartition ==
  /\ RepInv' /\ Bounded' /\ log' = log /\ hw' = hw /\ leader' = leader
  /\ \A r, i : Held(r, i)' = Held(r, i)

LEMMA PartitionUnchanged ==
  ASSUME RepInv, Bounded, UNCHANGED partition
  PROVE  SamePartition
<1>1. log' = log /\ hw' = hw /\ leader' = leader /\ isr' = isr /\ epoch' = epoch
  BY DEF partition
<1>2. \A r, i : Held(r, i)' = Held(r, i)
  BY <1>1 DEF Held, AsLeader
<1>3. \A r : HwInv(r)' = HwInv(r)
  BY <1>1, <1>2 DEF HwInv
<1>4. RepInv' /\ Bounded'
  BY <1>1, <1>3 DEF RepInv, RepType, Bounded
<1> QED
  BY <1>1, <1>2, <1>4 DEF SamePartition

\* As long as the offset and what is known of bad batches stay, so does what is passed.
LEMMA SamePassed ==
  ASSUME Passed, Reported, SamePartition,
         offset' = offset, first' = first, reported' = reported, unseen' = unseen
  PROVE  Passed' /\ Reported'
BY DEF Passed, PassedUpTo, Reported, Bad, SamePartition

LEMMA EmptyAnswer ==
  ASSUME NEW r \in Replicas, Len(answers'[r].batches) = 0, cursor' \in Nat \ {0}
  PROVE  AnsweredFrom(r, 0)'
BY DEF AnsweredFrom

LEMMA NoAnswers ==
  ASSUME answers' = Unanswered, cursor' \in Nat \ {0}
  PROVE  AnsInv'
<1>1. \A r \in Replicas : Len(answers'[r].batches) = 0
  BY DEF Unanswered, None
<1> QED
  BY <1>1, EmptyAnswer DEF AnsInv

LEMMA NoAnswersType ==
  Unanswered \in [Replicas -> Answer]
<1>1. << >> \in Seq(Batch)
  BY EmptySeq
<1> QED
  BY <1>1, ReplicationAssumption DEF Unanswered, None, Answer

LEMMA StartKeeps ==
  ASSUME IInv, Start
  PROVE  IInv'
<1>1. /\ RepInv /\ Bounded /\ ToolType /\ UNCHANGED partition
      /\ pc = "start" /\ pc' = "fetch" /\ first' = offset' /\ answers' = answers
      /\ cursor' = cursor /\ reported' = reported /\ unseen' = unseen /\ faults' = faults
  BY DEF IInv, ToolInv, Start
<1>2. offset' \in 0..MaxOffset
  <2>1. hw[leader] \in 0..MaxOffset /\ MaxOffset \in Nat
    BY <1>1, HwBounded, ReplicationAssumption DEF RepInv, RepType
  <2>2. offset' = 0 \/ offset' = hw[leader] \/ offset' \in 0..(hw[leader] - 1)
    BY DEF Start
  <2> QED
    BY <2>1, <2>2
<1>3. answers = Unanswered /\ cursor = 1 /\ reported = {}
  BY <1>1 DEF ToolType
<1>4. ToolType'
  <2>1. first' <= offset' /\ cursor' \in 1..(offset' + 1) /\ first' \in 0..MaxOffset
    <3>1. PICK o \in 0..MaxOffset : o = offset'
      BY <1>2
    <3>2. cursor' = 1 /\ first' = o
      BY <1>1, <1>3, <3>1
    <3>3. o \in Nat /\ 1 \in 1..(o + 1) /\ o <= o
      BY ReplicationAssumption
    <3> QED
      BY <3>1, <3>2, <3>3
  <2>2. answers' \in [Replicas -> Answer]
    BY <1>1 DEF ToolType
  <2>3. reported' \subseteq 0..MaxOffset /\ unseen' \subseteq 0..MaxOffset /\ faults' \in Nat
    BY <1>1 DEF ToolType
  <2> QED
    BY <1>1, <1>2, <1>3, <2>1, <2>2, <2>3 DEF ToolType
<1>5. AnsInv'
  BY <1>1, <1>3, NoAnswers
<1>6. Passed' /\ Reported'
  BY <1>1, <1>2, <1>3 DEF Passed, Reported
<1>7. SamePartition
  BY <1>1, PartitionUnchanged
<1> QED
  BY <1>4, <1>5, <1>6, <1>7 DEF IInv, ToolInv, SamePartition

LEMMA RoundFailsKeeps ==
  ASSUME IInv, RoundFails
  PROVE  IInv'
<1>1. /\ RepInv /\ Bounded /\ ToolType /\ Passed /\ Reported /\ AnsInv /\ UNCHANGED partition
      /\ pc' = "failed" /\ first' = first /\ offset' = offset /\ answers' = answers
      /\ cursor' = cursor /\ reported' = reported /\ unseen' = unseen /\ faults' = faults + 1
  BY DEF IInv, ToolInv, RoundFails, Fault
<1>2. SamePartition
  BY <1>1, PartitionUnchanged
<1>3. Passed' /\ Reported'
  BY <1>1, <1>2, SamePassed
<1>4. AnsInv'
  BY <1>1, <1>2, ZenonT(40) DEF AnsInv, AnsweredFrom, Answers, NextIn, Below, SamePartition
<1>5. ToolType'
  BY <1>1 DEF ToolType
<1> QED
  BY <1>2, <1>3, <1>4, <1>5 DEF IInv, ToolInv, SamePartition

\* An answer that has come, or a failed fetch, changes nothing of what is passed.
LEMMA RespondKeeps ==
  ASSUME IInv, NEW r \in Replicas, NEW answer \in Answer, Respond(r, answer),
         faults' \in Nat,
         SamePartition => (\E k \in Nat : AnsweredFrom(r, k))'
  PROVE  IInv'
<1>1. /\ RepInv /\ Bounded /\ ToolType /\ Passed /\ Reported /\ AnsInv /\ UNCHANGED partition
      /\ pc = "fetch" /\ pc' \in {"fetch", "verify"}
      /\ first' = first /\ offset' = offset /\ answers' = [answers EXCEPT ![r] = answer]
      /\ cursor' = cursor /\ reported' = reported /\ unseen' = unseen
  BY DEF IInv, ToolInv, Respond
<1>2. SamePartition
  BY <1>1, PartitionUnchanged
<1>3. Passed' /\ Reported'
  BY <1>1, <1>2, SamePassed
<1>4. ASSUME NEW s \in Replicas
      PROVE  (\E k \in Nat : AnsweredFrom(s, k))'
  <2>1. CASE s = r
    BY <1>2, <2>1
  <2>2. CASE s # r
    <3>1. answers'[s] = answers[s]
      BY <1>1, <2>2 DEF ToolType
    <3>2. PICK k \in Nat : AnsweredFrom(s, k)
      BY <1>1 DEF AnsInv
    <3>3. AnsweredFrom(s, k)'
      BY <1>1, <1>2, <3>1, <3>2 DEF AnsweredFrom, Answers, NextIn, Below, SamePartition
    <3> QED
      BY <3>3
  <2> QED
    BY <2>1, <2>2
<1>5. ToolType'
  <2>1. answers' \in [Replicas -> Answer]
    BY <1>1 DEF ToolType
  <2> QED
    BY <1>1, <2>1 DEF ToolType
<1> QED
  BY <1>2, <1>3, <1>4, <1>5 DEF IInv, ToolInv, SamePartition, AnsInv

\* Where the answer to a fetch begins.
FromIs(r) ==
  /\ From(r) \in Nat \ {0} /\ From(r) <= Len(log[r]) + 1
  /\ From(r) <= Len(log[r]) => log[r][From(r)].last >= offset
  /\ \A i \in 1..(From(r) - 1) : log[r][i].last < offset

LEMMA FromProperties ==
  ASSUME RepInv, offset \in Nat, NEW r \in Replicas
  PROVE  FromIs(r)
<1> DEFINE n == Len(log[r])
           Beyond == {i \in 1..(n + 1) : i <= n => log[r][i].last >= offset}
<1>1. n \in Nat /\ \A i \in 1..n : log[r][i].last \in Nat
  BY LogType DEF RepInv
<1>2. Beyond \in SUBSET Nat /\ Beyond # {}
  <2>1. n + 1 \in Beyond
    BY <1>1
  <2>2. \A i \in 1..(n + 1) : i \in Nat
    BY <1>1
  <2> QED
    BY <2>1, <2>2
<1>3. From(r) = Least(Beyond)
  BY DEF From
<1> HIDE DEF Beyond
<1>4. From(r) \in Beyond /\ \A i \in Beyond : From(r) <= i
  BY <1>2, <1>3, LeastProperties
<1>5. /\ From(r) \in 1..(n + 1)
      /\ From(r) <= n => log[r][From(r)].last >= offset
  BY <1>4 DEF Beyond
<1>6. ASSUME NEW i \in 1..(From(r) - 1)
      PROVE  log[r][i].last < offset
  <2>1. i \in 1..n /\ i < From(r)
    BY <1>1, <1>5
  <2>2. i \notin Beyond
    BY <1>4, <1>5, <2>1
  <2> QED
    BY <1>1, <2>1, <2>2 DEF Beyond
<1> QED
  BY <1>1, <1>5, <1>6 DEF FromIs

\* What is fetched: a part of the log, from the first batch that ends beyond the offset.
Fetched(r, k, batches) ==
  /\ \A j \in 1..Len(batches) : k + j \in 1..Len(log[r]) /\ batches[j] = log[r][k + j]
  /\ 1 <= Len(batches) => batches[1].last >= offset
  /\ \A i \in 1..k : log[r][i].last < offset

LEMMA FetchAnswerFetched ==
  ASSUME RepInv, offset \in Nat, NEW r \in Replicas, NEW n \in 0..Len(Stored(r))
  PROVE  /\ SubSeq(Stored(r), 1, n) \in Seq(Batch) /\ From(r) - 1 \in Nat
         /\ Fetched(r, From(r) - 1, SubSeq(Stored(r), 1, n))
<1> DEFINE from == From(r)
           stored == SubSeq(log[r], from, Len(log[r]))
           batches == SubSeq(stored, 1, n)
           k == from - 1
<1>1. batches = SubSeq(Stored(r), 1, n) /\ n \in 0..Len(stored)
  BY DEF Stored
<1>2. /\ from \in Nat \ {0} /\ from <= Len(log[r]) + 1
      /\ from <= Len(log[r]) => log[r][from].last >= offset
      /\ \A i \in 1..(from - 1) : log[r][i].last < offset
  BY FromProperties DEF FromIs
<1>3. log[r] \in Seq(Batch) /\ Len(log[r]) \in Nat
      /\ \A i \in 1..Len(log[r]) : log[r][i] \in Batch
  BY LogType DEF RepInv
<1>4. /\ stored = SubSeq(log[r], from, Len(log[r])) /\ batches = SubSeq(stored, 1, n)
      /\ k = from - 1 /\ k = From(r) - 1
  OBVIOUS
<1> HIDE DEF from, stored, batches, k
<1>5. /\ stored \in Seq(Batch) /\ Len(stored) = Len(log[r]) + 1 - from
      /\ \A j \in 1..Len(stored) : stored[j] = log[r][from + j - 1]
  BY <1>2, <1>3, <1>4, SubSeqProperties
<1>6. /\ batches \in Seq(Batch) /\ Len(batches) = n
      /\ \A j \in 1..n : batches[j] = stored[j]
  <2>1. Len(stored) \in Nat /\ n \in Nat /\ n <= Len(stored)
    BY <1>1, <1>2, <1>3, <1>5
  <2>2. \A j \in 1..n : stored[j] \in Batch
    BY <1>5, <2>1, BatchesType
  <2> QED
    BY <1>4, <2>1, <2>2, FirstBatches
<1>7. k \in Nat /\ k + 1 = from
  BY <1>2, <1>4
<1>8. ASSUME NEW j \in 1..n
      PROVE  k + j \in 1..Len(log[r]) /\ batches[j] = log[r][k + j]
  <2>1. j \in 1..Len(stored) /\ batches[j] = stored[j]
    BY <1>1, <1>5, <1>6
  <2>2. from + j - 1 = k + j /\ k + j \in Nat \ {0}
    BY <1>2, <1>4, <1>7
  <2>3. k + j <= Len(log[r])
    BY <1>2, <1>3, <1>5, <1>7, <2>1
  <2> QED
    BY <1>3, <1>5, <2>1, <2>2, <2>3
<1>9. ASSUME 1 <= n
      PROVE  batches[1].last >= offset
  <2>1. 1 \in 1..n
    BY <1>1, <1>9
  <2>2. from \in 1..Len(log[r]) /\ batches[1] = log[r][from]
    BY <1>7, <1>8, <2>1
  <2> QED
    BY <1>2, <1>3, <2>2
<1>10. Fetched(r, k, batches)
  BY <1>2, <1>4, <1>6, <1>8, <1>9 DEF Fetched
<1> QED
  BY <1>1, <1>4, <1>6, <1>7, <1>10

LEMMA FetchAnswerKeeps ==
  ASSUME IInv, NEW r \in Replicas, FetchAnswer(r)
  PROVE  IInv'
<1>1. RepInv /\ Bounded /\ ToolType
  BY DEF IInv, ToolInv
<1>2. offset \in Nat
  BY <1>1, ReplicationAssumption DEF ToolType
<1>3. PICK n \in 0..Len(Stored(r)) :
        Respond(r, [hw |-> hw[r], batches |-> SubSeq(Stored(r), 1, n)]) /\ faults' = faults
  BY DEF FetchAnswer
<1>4. PICK batches \in Seq(Batch), k \in Nat :
        Respond(r, [hw |-> hw[r], batches |-> batches]) /\ Fetched(r, k, batches)
  BY <1>1, <1>2, <1>3, FetchAnswerFetched
<1>5. PICK mark \in 0..MaxOffset : mark = hw[r]
  BY <1>1, HwBounded
<1> DEFINE answer == [hw |-> mark, batches |-> batches]
<1>6. answer \in Answer /\ Respond(r, answer)
  BY <1>4, <1>5, ReplicationAssumption DEF Answer
<1>7. /\ answers'[r] = answer /\ offset' = offset /\ cursor' = 1 /\ unseen' = unseen
  BY <1>1, <1>6 DEF Respond, ToolType
<1>8. ASSUME SamePartition
      PROVE  AnsweredFrom(r, k)'
  <2>1. ASSUME NEW j \in 1..Len(batches), batches[j].last < mark
        PROVE  Answers(r, batches[j], k + j)'
    <3>1. Held(r, k + j) /\ batches[j] = log[r][k + j]
      BY <1>1, <1>4, <1>5, <2>1 DEF RepInv, HwInv, Fetched
    <3>2. Held(r, k + j)'
      BY <1>8, <3>1 DEF SamePartition
    <3> QED
      BY <1>8, <3>1, <3>2 DEF Answers, Same, SamePartition
  <2>2. ASSUME 1 <= Len(batches)
        PROVE  NextIn(r, batches[1], k + 1)'
    <3>1. (k + 1) - 1 = k
      OBVIOUS
    <3>2. batches[1].last >= offset' /\ \A i \in 1..((k + 1) - 1) : log'[r][i].last < offset'
      BY <1>4, <1>7, <1>8, <2>2, <3>1 DEF SamePartition, Fetched
    <3> QED
      BY <3>2 DEF NextIn
  <2> QED
    BY <1>7, <2>1, <2>2 DEF AnsweredFrom, Below
<1>9. SamePartition => (\E i \in Nat : AnsweredFrom(r, i))'
  BY <1>8
<1>10. faults' \in Nat
  BY <1>1, <1>3 DEF ToolType
<1> HIDE DEF answer
<1> QED
  BY <1>6, <1>9, <1>10, RespondKeeps

LEMMA FetchNothingKeeps ==
  ASSUME IInv, NEW r \in Replicas, FetchNothing(r)
  PROVE  IInv'
<1>1. ToolType /\ Respond(r, Nothing) /\ faults' = faults + 1
  BY DEF IInv, ToolInv, FetchNothing, Fault
<1>2. Nothing \in Answer /\ Len(Nothing.batches) = 0
  BY EmptySeq, ReplicationAssumption DEF Nothing, Answer
<1>3. answers'[r] = Nothing /\ cursor' = 1
  BY <1>1 DEF Respond, ToolType
<1>4. AnsweredFrom(r, 0)'
  BY <1>2, <1>3, EmptyAnswer
<1>5. faults' \in Nat
  BY <1>1 DEF ToolType
<1> QED
  BY <1>1, <1>2, <1>4, <1>5, RespondKeeps

\* What is compared of r is the pth batch of the log, whichever log it is.
Comparable(r, p) ==
  /\ Answers(r, At(r), p) /\ NextIn(r, At(r), p) /\ At(r) \in Batch
  /\ \E k \in Nat : AnsweredFrom(r, k) /\ k + cursor = p
  /\ p \in 1..Len(log[leader]) /\ Same(At(r), log[leader][p])

\* There is one first batch from the fetch offset on.
IsNext(p) ==
  /\ p \in 1..Len(log[leader]) /\ log[leader][p].last >= offset
  /\ \A j \in 1..(p - 1) : log[leader][j].last < offset

LEMMA NextIsOne ==
  ASSUME RepInv, offset \in Nat, NEW p, NEW q, IsNext(p), IsNext(q)
  PROVE  p = q
<1>1. Len(log[leader]) \in Nat /\ \A j \in 1..Len(log[leader]) : log[leader][j].last \in Nat
  BY LogType DEF RepInv, RepType
<1>2. p \in Nat /\ q \in Nat /\ p >= 1 /\ q >= 1
  BY <1>1 DEF IsNext
<1>3. ~ (p < q)
  <2>1. SUFFICES ASSUME p < q PROVE FALSE
    OBVIOUS
  <2>2. p \in 1..(q - 1)
    BY <1>2, <2>1
  <2>3. log[leader][p].last < offset /\ log[leader][p].last >= offset /\ log[leader][p].last \in Nat
    BY <1>1, <2>2 DEF IsNext
  <2> QED
    BY <2>3
<1>4. ~ (q < p)
  <2>1. SUFFICES ASSUME q < p PROVE FALSE
    OBVIOUS
  <2>2. q \in 1..(p - 1)
    BY <1>2, <2>1
  <2>3. log[leader][q].last < offset /\ log[leader][q].last >= offset /\ log[leader][q].last \in Nat
    BY <1>1, <2>2 DEF IsNext
  <2> QED
    BY <2>3
<1> QED
  BY <1>2, <1>3, <1>4

LEMMA ReadyIsComparable ==
  ASSUME RepInv, ToolType, AnsInv, NEW r \in Ready
  PROVE  \E p \in Nat \ {0} : Comparable(r, p) /\ IsNext(p)
<1>1. PICK k \in Nat : AnsweredFrom(r, k)
  BY DEF AnsInv, Ready
<1> DEFINE p == k + cursor
<1>2. /\ answers[r].batches \in Seq(Batch) /\ cursor \in Nat \ {0} /\ p \in Nat \ {0}
      /\ Len(answers[r].batches) \in Nat
  BY BatchesType, ReplicationAssumption, SMTT(20) DEF ToolType, Answer, Ready
<1>3. cursor \in 1..Len(answers[r].batches) /\ Below(answers[r], At(r)) /\ At(r) \in Batch
  BY <1>2, BatchesType DEF Ready, At
<1>4. Answers(r, At(r), p) /\ NextIn(r, At(r), p)
  BY <1>1, <1>3 DEF AnsweredFrom, At
<1>5. Held(r, p) /\ AsLeader(r, p) /\ p \in 1..Len(log[leader]) /\ p \in 1..p /\ p \in 1..Len(log[r])
  BY <1>2, <1>4, LogType DEF Answers, Held, AsLeader, RepInv
<1> HIDE DEF p
<1>6. Same(At(r), log[r][p]) /\ Same(log[r][p], log[leader][p])
  BY <1>4, <1>5 DEF Answers, AsLeader
<1>7. \A j \in 1..(p - 1) : log[leader][j].last < offset
  <2>1. \A j \in 1..(p - 1) : j \in 1..p
    BY <1>2
  <2> QED
    BY <1>4, <1>5, <2>1 DEF NextIn, AsLeader, Same
<1>8. IsNext(p)
  BY <1>4, <1>5, <1>6, <1>7 DEF IsNext, NextIn, Same
<1>9. \E k0 \in Nat : AnsweredFrom(r, k0) /\ k0 + cursor = p
  BY <1>1 DEF p
<1> QED
  BY <1>2, <1>3, <1>4, <1>5, <1>6, <1>8, <1>9 DEF Comparable, Same

LEMMA ReadyAgree ==
  ASSUME RepInv, ToolType, AnsInv
  PROVE  \E p \in Nat \ {0} : \A r \in Ready : Comparable(r, p)
<1>1. offset \in Nat
  BY ReplicationAssumption DEF ToolType
<1>2. CASE Ready = {}
  BY <1>2
<1>3. ASSUME NEW r \in Ready
      PROVE  \E p \in Nat \ {0} : \A s \in Ready : Comparable(s, p)
  <2>1. PICK p \in Nat \ {0} : Comparable(r, p) /\ IsNext(p)
    BY ReadyIsComparable
  <2>2. ASSUME NEW s \in Ready PROVE Comparable(s, p)
    <3>1. PICK q \in Nat \ {0} : Comparable(s, q) /\ IsNext(q)
      BY ReadyIsComparable
    <3> QED
      BY <1>1, <2>1, <3>1, NextIsOne
  <2> QED
    BY <2>2
<1> QED
  BY <1>2, <1>3

\* What is compared never differs but in being bad.
LEMMA ComparedAgree ==
  ASSUME NEW p, NEW visited \in SUBSET Ready, \A r \in Ready : Comparable(r, p)
  PROVE  /\ {At(r).last : r \in visited} \subseteq {log[leader][p].last}
         /\ ~ (Cardinality({At(r).last : r \in visited}) > 1)
         /\ Cardinality({Checksum(At(r)) : r \in visited}) > 1 =>
              \E r \in visited : At(r).rotten
         /\ \A r, s \in visited : At(r).rotten /\ ~At(s).rotten =>
              Cardinality({Checksum(At(t)) : t \in visited}) > 1
<1> DEFINE last == log[leader][p].last
           lasts == {At(r).last : r \in visited}
           sums == {Checksum(At(r)) : r \in visited}
<1>1. \A r \in visited : /\ At(r).last = last /\ At(r).epoch = log[leader][p].epoch
                         /\ At(r).rotten \in BOOLEAN
  BY DEF Comparable, Same, Batch
<1>2. lasts \subseteq {last}
  BY <1>1
<1>3. ASSUME NEW x, NEW S \in SUBSET {x} PROVE ~ (Cardinality(S) > 1)
  <2>1. IsFiniteSet({x}) /\ Cardinality({x}) = 1
    BY FS_Singleton
  <2>2. IsFiniteSet(S) /\ Cardinality(S) <= Cardinality({x}) /\ Cardinality(S) \in Nat
    BY <2>1, FS_Subset, FS_CardinalityType
  <2> QED
    BY <2>1, <2>2
<1>4. ~ (Cardinality(lasts) > 1)
  <2> HIDE DEF lasts, last
  <2> QED
    BY <1>2, <1>3
<1>5. ASSUME \A r \in visited : ~At(r).rotten
      PROVE  ~ (Cardinality(sums) > 1)
  <2> DEFINE sound == <<log[leader][p].epoch, FALSE>>
  <2>1. \A r \in visited : Checksum(At(r)) = sound
    <3>1. \A r \in visited : At(r).rotten = FALSE
      BY <1>1, <1>5
    <3> QED
      BY <1>1, <3>1 DEF Checksum
  <2>2. sums \in SUBSET {sound}
    BY <2>1
  <2> HIDE DEF sums, sound
  <2> QED
    BY <1>3, <2>2
<1>6. ASSUME NEW r \in visited, NEW s \in visited, At(r).rotten, ~At(s).rotten
      PROVE  Cardinality(sums) > 1
  <2>1. Checksum(At(r)) \in sums /\ Checksum(At(s)) \in sums /\ Checksum(At(r)) # Checksum(At(s))
    <3>1. At(r).rotten # At(s).rotten
      BY <1>6
    <3> QED
      BY <3>1 DEF Checksum
  <2>2. sums \subseteq {<<log[leader][p].epoch, TRUE>>} \union {<<log[leader][p].epoch, FALSE>>}
    <3>1. \A t \in visited : At(t).rotten = TRUE \/ At(t).rotten = FALSE
      BY <1>1
    <3> QED
      BY <1>1, <3>1 DEF Checksum
  <2>3. IsFiniteSet(sums)
    <3> DEFINE one == {<<log[leader][p].epoch, TRUE>>}
               both == one \union {<<log[leader][p].epoch, FALSE>>}
    <3>1. IsFiniteSet(one)
      BY FS_Singleton
    <3> HIDE DEF one
    <3>2. IsFiniteSet(both)
      BY <3>1, FS_AddElement
    <3>3. sums \subseteq both
      BY <2>2 DEF one
    <3> HIDE DEF sums, both
    <3> QED
      BY <3>2, <3>3, FS_Subset
  <2> HIDE DEF sums
  <2>4. Cardinality(sums) \in Nat /\ Cardinality(sums) # 0 /\ Cardinality(sums) # 1
    <3>1. Cardinality(sums) \in Nat
      BY <2>3, FS_CardinalityType
    <3>2. Cardinality(sums) # 0
      BY <2>1, <2>3, FS_EmptySet
    <3>3. Cardinality(sums) # 1
      BY <2>1, <2>3, FS_Singleton
    <3> QED
      BY <3>1, <3>2, <3>3
  <2> QED
    BY <2>4
<1> QED
  BY <1>2, <1>4, <1>5, <1>6

\* What a comparison does, once it is known that the offsets agree.
CompareDoes(visited, last) ==
  /\ visited \in SUBSET Ready
  /\ \/ reported' = reported
     \/ (\E r \in visited : At(r).rotten) /\ reported' = reported \union {last}
  /\ \/ /\ visited = Replicas /\ pc' = "verify"
        /\ offset' = last + 1 /\ cursor' = cursor + 1
        /\ answers' = answers /\ unseen' = unseen
        /\ \A r, s \in Replicas : At(r).rotten /\ ~At(s).rotten => last \in reported'
     \/ /\ pc' = "fetch" /\ offset' = offset /\ cursor' = 1 /\ answers' = Unanswered
        /\ unseen' = {o \in unseen : o < offset}

LEMMA CompareMeans ==
  ASSUME RepInv, ToolType, AnsInv, NEW visited \in SUBSET Replicas, Compare(visited),
         NEW p \in Nat, \A r \in Ready : Comparable(r, p)
  PROVE  CompareDoes(visited, log[leader][p].last)
<1> DEFINE lasts == {At(r).last : r \in visited}
           sums == {Checksum(At(r)) : r \in visited}
           last == log[leader][p].last
<1>1. visited \in SUBSET Ready
  BY DEF Compare
<1>2. /\ lasts \subseteq {last} /\ ~ (Cardinality(lasts) > 1)
      /\ Cardinality(sums) > 1 => \E r \in visited : At(r).rotten
      /\ \A r, s \in visited : At(r).rotten /\ ~At(s).rotten => Cardinality(sums) > 1
  BY <1>1, ComparedAgree
<1>3. /\ reported' = IF Cardinality(sums) > 1 THEN reported \union lasts ELSE reported
      /\ pc' = IF visited = Replicas THEN "verify" ELSE "fetch"
      /\ IF visited = Replicas
         THEN offset' = NextOffset(Least(lasts)) /\ cursor' = cursor + 1
         ELSE offset' = offset /\ cursor' = 1
      /\ answers' = IF pc' = "fetch" THEN Unanswered ELSE answers
      /\ unseen' = IF pc' = "fetch" THEN {o \in unseen : o < offset} ELSE unseen
  BY <1>2 DEF Compare
<1>4. ASSUME NEW r \in visited PROVE lasts = {last}
  <2>1. At(r).last \in lasts
    OBVIOUS
  <2> QED
    BY <1>2, <2>1
<1>5. visited = Replicas => Least(lasts) = last
  <2>1. SUFFICES ASSUME visited = Replicas PROVE Least(lasts) = last
    OBVIOUS
  <2>2. PICK r \in visited : TRUE
    BY <2>1, ReplicationAssumption
  <2>3. lasts = {last}
    BY <1>4, <2>2
  <2>4. last \in Nat
    <3>1. p \in 1..Len(log[leader])
      BY <1>1, <2>2 DEF Comparable
    <3> QED
      BY <3>1, LogType DEF RepInv, RepType
  <2> HIDE DEF lasts, last
  <2>5. Least({last}) \in {last}
    BY <2>4, LeastProperties
  <2> QED
    BY <2>3, <2>5
<1> HIDE DEF lasts, last, sums
<1>6. \/ reported' = reported
      \/ (\E r \in visited : At(r).rotten) /\ reported' = reported \union {last}
  <2>1. CASE Cardinality(sums) > 1
    BY <1>2, <1>3, <1>4, <2>1
  <2> QED
    BY <1>3, <2>1
<1>7. CASE visited = Replicas
  <2>1. /\ pc' = "verify" /\ offset' = last + 1 /\ cursor' = cursor + 1
        /\ answers' = answers /\ unseen' = unseen
    BY <1>3, <1>5, <1>7 DEF NextOffset
  <2>2. \A r, s \in Replicas : At(r).rotten /\ ~At(s).rotten => last \in reported'
    BY <1>2, <1>3, <1>4, <1>7
  <2> QED
    BY <1>1, <1>6, <1>7, <2>1, <2>2 DEF CompareDoes, last
<1>8. CASE visited # Replicas
  BY <1>1, <1>3, <1>6, <1>8 DEF CompareDoes, last
<1> QED
  BY <1>7, <1>8

LEMMA CompareKeeps ==
  ASSUME IInv, NEW visited \in SUBSET Replicas, Compare(visited)
  PROVE  IInv'
<1>1. /\ RepInv /\ Bounded /\ ToolType /\ Passed /\ Reported /\ AnsInv
      /\ UNCHANGED partition /\ first' = first /\ faults' = faults
  BY DEF IInv, ToolInv, Compare
<1>2. PICK p \in Nat \ {0} : \A r \in Ready : Comparable(r, p)
  BY <1>1, ReadyAgree
<1>3. SamePartition
  BY <1>1, PartitionUnchanged
<1>4. PICK last : last = log[leader][p].last
  OBVIOUS
<1>5. CompareDoes(visited, last)
  BY <1>1, <1>2, <1>4, CompareMeans
<1>6. \A r \in Ready : /\ r \in Replicas /\ Held(r, p) /\ p \in 1..Len(log[r]) /\ log[r][p].last = last
                       /\ At(r).rotten => log[r][p].rotten
                       /\ log[r][p].rotten /\ ~At(r).rotten => last \in unseen
  <2>1. SUFFICES ASSUME NEW r \in Ready
                 PROVE  /\ r \in Replicas /\ Held(r, p) /\ p \in 1..Len(log[r]) /\ log[r][p].last = last
                        /\ At(r).rotten => log[r][p].rotten
                        /\ log[r][p].rotten /\ ~At(r).rotten => last \in unseen
    OBVIOUS
  <2>2. Comparable(r, p) /\ Answers(r, At(r), p) /\ Same(At(r), log[leader][p]) /\ r \in Replicas
    BY <1>2 DEF Comparable, Ready
  <2>3. p \in 1..Len(log[r]) /\ log[r][p].last = last
    BY <1>1, <1>4, <2>2, LogType DEF Answers, Held, AsLeader, Same, RepInv
  <2> QED
    BY <2>2, <2>3 DEF Answers
<1>7. ASSUME NEW r \in Ready
      PROVE  last \in 0..(MaxOffset - 1) /\ offset <= last /\ last \in Nat /\ offset \in Nat
  <2>1. p \in 1..Len(log[r]) /\ log[r][p].last = last /\ r \in Replicas
    BY <1>6
  <2>2. last \in Nat /\ last < MaxOffset /\ MaxOffset \in Nat /\ offset \in Nat
    BY <1>1, <2>1, LogType, ReplicationAssumption DEF Bounded, ToolType, RepInv
  <2>3. At(r).last = last /\ At(r).last >= offset
    BY <1>2, <1>4 DEF Comparable, NextIn, Same
  <2> QED
    BY <2>2, <2>3
<1>8. Reported' /\ reported' \subseteq 0..MaxOffset
  <2>1. ASSUME NEW o \in reported
        PROVE  (\E r \in Replicas : \E i \in Nat \ {0} : Bad(o, r, i))'
    BY <1>1, <1>3 DEF Reported, Bad, SamePartition
  <2>2. ASSUME NEW r \in visited, At(r).rotten
        PROVE  (\E s \in Replicas : \E i \in Nat \ {0} : Bad(last, s, i))' /\ last \in 0..MaxOffset
    <3>1. Bad(last, r, p) /\ r \in Replicas /\ last \in 0..MaxOffset
      BY <1>5, <1>6, <1>7, <2>2, ReplicationAssumption DEF CompareDoes, Bad
    <3>2. Bad(last, r, p)'
      BY <1>3, <3>1 DEF Bad, SamePartition
    <3> QED
      BY <3>1, <3>2
  <2>3. reported \subseteq 0..MaxOffset
    BY <1>1 DEF ToolType
  <2> QED
    BY <1>5, <2>1, <2>2, <2>3 DEF CompareDoes, Reported
<1>9. unseen' \subseteq unseen /\ reported \subseteq reported'
  BY <1>5 DEF CompareDoes
<1>10. ASSUME NEW n \in Nat \ {0}, PassedUpTo(n), NEW r \in Replicas, NEW i \in 1..n
       PROVE  log[r][i].last < offset
  <2>1. Held(r, n) /\ log[r][n].last + 1 = offset /\ n <= Len(log[r])
    BY <1>10 DEF PassedUpTo, Held, AsLeader
  <2>2. n \in 1..Len(log[r]) /\ i \in 1..Len(log[r])
    BY <1>1, <2>1, LogType DEF RepInv
  <2>3. i = n \/ log[r][i].last < log[r][n].last
    BY <1>1, <2>2 DEF RepInv, InOrder
  <2>4. log[r][n].last \in Nat /\ log[r][i].last \in Nat
    BY <1>1, <2>2, LogType DEF RepInv
  <2> QED
    BY <2>1, <2>3, <2>4
<1>11. CASE pc' = "fetch"
  <2>1. /\ offset' = offset /\ cursor' = 1 /\ answers' = Unanswered
        /\ unseen' = {o \in unseen : o < offset}
    BY <1>5, <1>11 DEF CompareDoes
  <2>2. AnsInv'
    BY <2>1, NoAnswers
  <2>3. Passed'
    <3>1. SUFFICES ASSUME first < offset PROVE (\E n \in Nat \ {0} : PassedUpTo(n))'
      BY <1>1, <2>1 DEF Passed
    <3>2. PICK n \in Nat \ {0} : PassedUpTo(n)
      BY <1>1, <3>1 DEF Passed
    <3>3. ASSUME NEW r \in Replicas, NEW s \in Replicas, NEW i \in 1..n,
                 first <= log[r][i].last, log[r][i].rotten, ~log[s][i].rotten
          PROVE  log[r][i].last \in reported' \union unseen'
      <4>1. log[r][i].last \in reported \union unseen
        BY <3>2, <3>3 DEF PassedUpTo
      <4> QED
        BY <1>9, <1>10, <2>1, <3>2, <4>1
    <3>4. \A r \in Replicas : Held(r, n) /\ log[r][n].last + 1 = offset
      BY <3>2 DEF PassedUpTo
    <3>5. PassedUpTo(n)'
      BY <1>1, <1>3, <2>1, <3>3, <3>4 DEF PassedUpTo, SamePartition
    <3> QED
      BY <3>5
  <2>4. ToolType'
    <3>1. PICK o \in 0..MaxOffset : o = offset
      BY <1>1 DEF ToolType
    <3>2. o \in Nat /\ 1 \in 1..(o + 1) /\ first \in 0..MaxOffset /\ first <= o
          /\ unseen' \subseteq 0..MaxOffset /\ faults \in Nat
      BY <1>1, <1>9, <3>1, ReplicationAssumption DEF ToolType
    <3> QED
      BY <1>1, <1>8, <1>11, <2>1, <3>1, <3>2, NoAnswersType DEF ToolType
  <2> QED
    BY <1>3, <1>8, <2>2, <2>3, <2>4 DEF IInv, ToolInv, SamePartition
<1>12. CASE pc' # "fetch"
  <2>1. /\ visited = Replicas /\ pc' = "verify" /\ Ready = Replicas
        /\ offset' = last + 1 /\ cursor' = cursor + 1
        /\ answers' = answers /\ unseen' = unseen
        /\ \A r, s \in Replicas : At(r).rotten /\ ~At(s).rotten => last \in reported'
    BY <1>5, <1>12 DEF CompareDoes, Ready
  <2>2. last \in 0..(MaxOffset - 1) /\ offset <= last /\ last \in Nat /\ offset \in Nat
    BY <1>7, <2>1, ReplicationAssumption
  <2>3. Passed'
    <3>1. ASSUME NEW r \in Replicas, NEW s \in Replicas, NEW i \in 1..p,
                 first <= log[r][i].last, log[r][i].rotten, ~log[s][i].rotten
          PROVE  log[r][i].last \in reported' \union unseen'
      <4>1. CASE i = p
        BY <1>6, <2>1, <3>1, <4>1
      <4>2. CASE i # p
        <5>1. i \in 1..(p - 1) /\ log[r][i].last < offset
          BY <1>2, <2>1, <4>2 DEF Comparable, NextIn
        <5>2. first < offset
          <6>1. i \in 1..Len(log[r])
            BY <1>1, <1>6, <2>1, LogType DEF RepInv
          <6>2. log[r][i].last \in Nat /\ first \in Nat
            BY <1>1, <6>1, LogType, ReplicationAssumption DEF RepInv, ToolType
          <6> QED
            BY <2>2, <3>1, <5>1, <6>2
        <5>3. PICK n \in Nat \ {0} : PassedUpTo(n)
          BY <1>1, <5>2 DEF Passed
        <5>4. i \in 1..n
          <6>1. Held(r, n) /\ log[r][n].last + 1 = offset /\ n \in 1..Len(log[r])
                /\ i \in 1..Len(log[r])
            BY <1>1, <1>6, <2>1, <5>3, LogType DEF PassedUpTo, Held, AsLeader, RepInv
          <6>2. log[r][n].last \in Nat /\ log[r][i].last \in Nat
            BY <1>1, <6>1, LogType DEF RepInv
          <6>3. ~ (n < i)
            BY <1>1, <5>1, <6>1, <6>2 DEF RepInv, InOrder
          <6> QED
            BY <6>1, <6>3
        <5> QED
          BY <1>9, <2>1, <3>1, <5>3, <5>4 DEF PassedUpTo
      <4> QED
        BY <4>1, <4>2
    <3>2. \A r \in Replicas : Held(r, p) /\ log[r][p].last + 1 = last + 1
      BY <1>6, <2>1
    <3>3. PassedUpTo(p)'
      BY <1>1, <1>3, <2>1, <3>1, <3>2 DEF PassedUpTo, SamePartition
    <3> QED
      BY <3>3 DEF Passed
  <2>4. AnsInv'
    <3>1. SUFFICES ASSUME NEW r \in Replicas
                   PROVE  (\E k \in Nat : AnsweredFrom(r, k))'
      BY DEF AnsInv
    <3>2. PICK k \in Nat : AnsweredFrom(r, k) /\ k + cursor = p
      BY <1>2, <2>1 DEF Comparable
    <3>3. cursor \in Nat
      BY <1>1, ReplicationAssumption DEF ToolType
    <3>4. PICK a, c : a = answers[r] /\ c = cursor + 1
      OBVIOUS
    <3>5. a.batches \in Seq(Batch) /\ c \in Nat \ {0} /\ k + c = p + 1
      BY <1>1, <3>2, <3>3, <3>4 DEF ToolType, Answer
    <3>6. \A j \in 1..Len(a.batches) : Below(a, a.batches[j]) => Answers(r, a.batches[j], k + j)
      BY <3>2, <3>4 DEF AnsweredFrom
    <3>7. \A b, i : Answers(r, b, i) => Answers(r, b, i)'
      BY <1>3, <2>1 DEF Answers, SamePartition
    <3>8. ASSUME c <= Len(a.batches), Below(a, a.batches[c])
          PROVE  NextIn(r, a.batches[c], p + 1)'
      <4>1. c \in 1..Len(a.batches)
        BY <3>5, <3>8, BatchesType
      <4>2. Answers(r, a.batches[c], p + 1)
        BY <3>5, <3>6, <3>8, <4>1
      <4>3. p + 1 \in 1..Len(log[r]) /\ p \in 1..Len(log[r])
        BY <1>1, <1>6, <2>1, <4>2, LogType DEF Answers, Held, AsLeader, RepInv
      <4>4. \A j \in 1..p : log[r][j].last <= last
        <5>1. SUFFICES ASSUME NEW j \in 1..p PROVE log[r][j].last <= last
          OBVIOUS
        <5>2. j \in 1..Len(log[r]) /\ log[r][j].last \in Nat /\ log[r][p].last = last
          BY <1>1, <1>6, <2>1, <4>3, LogType DEF RepInv
        <5>3. j = p \/ log[r][j].last < log[r][p].last
          BY <1>1, <4>3, <5>2 DEF RepInv, InOrder
        <5> QED
          BY <2>2, <5>2, <5>3
      <4>5. last < log[r][p + 1].last /\ log[r][p + 1].last \in Nat
        BY <1>1, <1>6, <2>1, <4>3, LogType DEF RepInv, InOrder
      <4>6. a.batches[c].last >= last + 1
        BY <2>2, <4>2, <4>5 DEF Answers, Same
      <4>7. \A j \in 1..((p + 1) - 1) : log[r][j].last < last + 1
        <5>1. (p + 1) - 1 = p
          OBVIOUS
        <5>2. \A j \in 1..p : log[r][j].last \in Nat
          BY <1>1, <4>3, LogType DEF RepInv
        <5> QED
          BY <2>2, <4>4, <5>1, <5>2
      <4> QED
        BY <1>3, <2>1, <4>6, <4>7 DEF NextIn, SamePartition
    <3>9. answers'[r] = a /\ cursor' = c
      BY <2>1, <3>4
    <3>10. AnsweredFrom(r, k)'
      BY <3>5, <3>6, <3>7, <3>8, <3>9 DEF AnsweredFrom, Below
    <3> QED
      BY <3>10
  <2>5. ToolType'
    <3>1. PICK o \in 0..MaxOffset : o = last + 1 /\ offset < o
      BY <2>2, ReplicationAssumption
    <3>2. PICK c \in 1..(o + 1) : c = cursor + 1
      BY <1>1, <2>2, <3>1 DEF ToolType
    <3>3. first \in 0..MaxOffset /\ first <= o /\ faults \in Nat /\ unseen \subseteq 0..MaxOffset
          /\ answers \in [Replicas -> Answer]
      BY <1>1, <2>2, <3>1, ReplicationAssumption DEF ToolType
    <3> QED
      BY <1>1, <1>8, <2>1, <3>1, <3>2, <3>3 DEF ToolType
  <2> QED
    BY <1>3, <1>8, <2>3, <2>4, <2>5 DEF IInv, ToolInv, SamePartition
<1> QED
  BY <1>11, <1>12

-----------------------------------------------------------------------------
(* The invariant, and what follows from it *)

LEMMA InitIInv ==
  ASSUME Init
  PROVE  IInv
<1>1. RepInv /\ Bounded
  BY InitRep DEF Init
<1>2. ToolType
  BY NoAnswersType, ReplicationAssumption DEF Init, ToolType
<1>3. Passed /\ Reported
  BY DEF Init, Passed, Reported
<1>4. \A r \in Replicas : AnsweredFrom(r, 0)
  <2>1. \A r \in Replicas : Len(answers[r].batches) = 0 /\ cursor = 1
    BY DEF Init, Unanswered, None
  <2> QED
    BY <2>1 DEF AnsweredFrom
<1> QED
  BY <1>1, <1>2, <1>3, <1>4 DEF IInv, ToolInv, AnsInv

LEMMA NextIInv ==
  ASSUME IInv, [Next]_vars
  PROVE  IInv'
<1>1. CASE PartitionStep
  BY <1>1, PartitionStepKeeps
<1>2. CASE Verifying
  BY <1>2, StartKeeps, RoundFailsKeeps, FetchAnswerKeeps, FetchNothingKeeps, CompareKeeps
     DEF Verifying
<1>3. CASE \E r \in Replicas : \E i \in 1..Len(log[r]) : RotStep(r, i)
  BY <1>3, RotStepKeeps
<1>4. CASE UNCHANGED vars
  <2>1. UNCHANGED partition /\ UNCHANGED tool /\ unseen' = unseen /\ faults' = faults
    BY <1>4 DEF vars
  <2>2. SamePartition
    BY <2>1, PartitionUnchanged DEF IInv
  <2>3. /\ pc' = pc /\ offset' = offset /\ cursor' = cursor /\ answers' = answers
        /\ reported' = reported /\ first' = first
    BY <2>1 DEF tool
  <2>4. Passed' /\ Reported'
    BY <2>1, <2>2, <2>3, SamePassed DEF IInv, ToolInv
  <2>5. AnsInv'
    BY <2>1, <2>2, <2>3, ZenonT(40)
       DEF AnsInv, AnsweredFrom, Answers, NextIn, Below, SamePartition, IInv, ToolInv
  <2>6. ToolType'
    BY <2>1, <2>3 DEF ToolType, IInv, ToolInv
  <2> QED
    BY <2>2, <2>4, <2>5, <2>6 DEF IInv, ToolInv, SamePartition
<1> QED
  BY <1>1, <1>2, <1>3, <1>4 DEF Next

\* Whatever the brokers answer and whatever happens to them, what is held stays where
\* it is, and every answer is a part of what its replica holds.
THEOREM Inductive == Spec => []IInv
<1>1. Init => IInv
  BY InitIInv
<1>2. IInv /\ [Next]_vars => IInv'
  BY NextIInv
<1> QED
  BY <1>1, <1>2, PTL DEF Spec

\* The command's state has its types, in any partition: the verified offset stays within
\* the log, and the comparison within the answers' batches.
THEOREM TypeCorrect == Spec => []TypeOK
<1>1. ASSUME IInv PROVE TypeOK
  <2>1. RepInv /\ Bounded /\ RepType /\ ToolType
    BY <1>1 DEF IInv, RepInv, ToolInv
  <2>2. hw \in [Replicas -> 0..MaxOffset]
    BY <2>1, HwBounded DEF RepType
  <2>3. epoch \in 0..MaxEpoch
    BY <2>1, ReplicationAssumption DEF RepType, Bounded
  <2>4. cursor \in 1..(MaxOffset + 1)
    <3>1. PICK o \in 0..MaxOffset : o = offset
      BY <2>1 DEF ToolType
    <3>2. PICK c \in 1..(o + 1) : c = cursor
      BY <2>1, <3>1 DEF ToolType
    <3>3. c \in 1..(MaxOffset + 1)
      BY ReplicationAssumption
    <3> QED
      BY <3>2, <3>3
  <2> QED
    BY <2>1, <2>2, <2>3, <2>4 DEF TypeOK, ToolType, RepType
<1> QED
  BY <1>1, Inductive, PTL

\* A difference is only ever reported (verify_partition) of a batch that has gone bad: replicas
\* that lag, truncate or lead another epoch are never reported, and never end the command.
THEOREM NoFalseAlarms == Spec => []NoFalseAlarm
<1>1. ASSUME IInv PROVE NoFalseAlarm
  <2>1. pc # "exited"
    BY <1>1 DEF IInv, ToolInv, ToolType
  <2>2. ASSUME NEW o \in reported
        PROVE  \E r \in Replicas : \E i \in 1..Len(log[r]) : log[r][i].last = o /\ log[r][i].rotten
    <3>1. PICK r \in Replicas, i \in Nat \ {0} : Bad(o, r, i)
      BY <1>1 DEF IInv, ToolInv, Reported
    <3>2. i \in 1..Len(log[r])
      BY <1>1, <3>1, LogType DEF Bad, Held, AsLeader, IInv, RepInv
    <3> QED
      BY <3>1, <3>2 DEF Bad
  <2> QED
    BY <2>1, <2>2 DEF NoFalseAlarm
<1> QED
  BY <1>1, Inductive, PTL

\* Behind the verified offset all replicas store the same, but for the bad batches that
\* were reported, or that went bad after their replica had answered.
THEOREM PassedIsTheSame == Spec => []VerifiedIsTheSame
<1>1. ASSUME IInv PROVE VerifiedIsTheSame
  <2>1. SUFFICES ASSUME NEW r \in Replicas, NEW s \in Replicas, NEW i \in 1..Len(log[r]),
                        log[r][i].last >= first, log[r][i].last < offset
                 PROVE  /\ i <= Len(log[s]) /\ Same(log[r][i], log[s][i])
                        /\ log[r][i].rotten # log[s][i].rotten =>
                             log[r][i].last \in reported \union unseen
    BY DEF VerifiedIsTheSame
  <2>2. RepInv /\ RepType /\ ToolType /\ Passed
    BY <1>1 DEF IInv, RepInv, ToolInv
  <2>3. log[r][i].last \in Nat /\ first \in Nat /\ offset \in Nat /\ Len(log[r]) \in Nat
        /\ Len(log[s]) \in Nat
    BY <2>2, LogType, ReplicationAssumption DEF ToolType
  <2>4. PICK n \in Nat \ {0} : PassedUpTo(n)
    BY <2>1, <2>2, <2>3 DEF Passed
  <2>5. /\ AsLeader(r, n) /\ AsLeader(s, n) /\ n \in 1..Len(log[r]) /\ n \in 1..Len(log[s])
        /\ log[r][n].last + 1 = offset
    BY <2>3, <2>4 DEF PassedUpTo, Held, AsLeader
  <2>6. i \in 1..n /\ i \in 1..Len(log[s])
    <3>1. log[r][n].last \in Nat
      BY <2>2, <2>5, LogType
    <3>2. ~ (n < i)
      BY <2>1, <2>2, <2>3, <2>5, <3>1 DEF RepInv, InOrder
    <3> QED
      BY <2>3, <2>5, <3>2
  <2>7. Same(log[r][i], log[s][i])
    BY <2>5, <2>6 DEF AsLeader, Same
  <2>8. ASSUME log[r][i].rotten # log[s][i].rotten
        PROVE  log[r][i].last \in reported \union unseen
    <3>1. log[r][i].rotten \in BOOLEAN /\ log[s][i].rotten \in BOOLEAN
      BY <2>2, <2>6, LogType DEF Batch
    <3>2. CASE log[r][i].rotten /\ ~log[s][i].rotten
      BY <2>1, <2>4, <2>6, <3>2 DEF PassedUpTo
    <3>3. CASE log[s][i].rotten /\ ~log[r][i].rotten
      BY <2>1, <2>4, <2>6, <2>7, <3>3 DEF PassedUpTo, Same
    <3> QED
      BY <2>8, <3>1, <3>2, <3>3
  <2> QED
    BY <2>6, <2>7, <2>8
<1> QED
  BY <1>1, Inductive, PTL
=============================================================================
