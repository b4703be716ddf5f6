------------------------- MODULE QueryHistoryProofs -------------------------
(***************************************************************************)
(* The history of blocked queries of QueryStats, for every number of hours *)
(* it keeps: what the web page is told, although the sum is taken without a *)
(* mutex while the forwarding task counts, the buckets change hours, the   *)
(* clock jumps and the device restarts; and the types of both halves.      *)
(*                                                                         *)
(* Counting is counting elements of sets: a block is its position in       *)
(* counted, and each number the code keeps is compared with the            *)
(* cardinality of a set of blocks.                                         *)
(***************************************************************************)
EXTENDS QueryStatsProofs, FiniteSetTheorems

USE StatsAssumption

(* The blocks since the start, those of a bucket, and those of an hour in it. *)
Live == since + 1 .. Len(counted)

InBucket(b) == {k \in Live : Bucket(counted[k]) = b}

At(b, h) == {k \in InBucket(b) : counted[k] = h}

(* The hour a bucket is for: from the moment it is being taken over, the new *)
(* one, whatever its identifier still says.                                   *)
Taking == todo \cap {"id", "reset"} # {}

Mine(b) == Taking /\ b = Bucket(hour_id)

HourOf(b) == IF Mine(b) THEN hour_id ELSE s_blocked_hour_id[b]

(* A bucket counts the blocks of its hour, none is later, and until it is     *)
(* reset it counts no more blocks than have ever gone through it.             *)
BucketOK(b) ==
  /\ s_blocked_hour_count[b] <= Cardinality(InBucket(b))
  /\ HourOf(b) <= hour
  /\ Bucket(HourOf(b)) = b \/ HourOf(b) = 0
  /\ \A k \in InBucket(b) : counted[k] <= HourOf(b)
  /\ IF Mine(b) /\ "reset" \in todo
       THEN At(b, hour_id) = {}
       ELSE s_blocked_hour_count[b] = Cardinality(At(b, HourOf(b)))

BucketsOK == \A b \in Buckets : BucketOK(b)

StoresOK ==
  /\ todo # {} <=> pc = "bucket"
  /\ "reset" \in todo => "count" \in todo
  /\ todo # {} /\ "id" \notin todo => s_blocked_hour_id[Bucket(hour_id)] = hour_id
  /\ queries_blocked = Len(counted) - since
                        + (IF pc = "record" \/ "count" \in todo THEN 1 ELSE 0)

(* What the sum has visited; what of it is sure to be in it, and what may be; *)
(* and what was there when it began.                                           *)
Below(n) == {k \in Live : Bucket(counted[k]) < n}

Sure(S) == {k \in S : Recent(k) /\ ~Turned(k)}

Likely(S) == {k \in S : Recent(k) \/ Turned(k)}

Prior(S) == {k \in S : k <= before}

(* A bucket is being taken over during the sum only if it is among those that *)
(* turned; the others keep their identifiers and are for no later hour.  The  *)
(* sum is between what is sure and was there when it began, and what is       *)
(* likely and is there now; a bucket whose count is already read will take it *)
(* no further, unless the bucket turns.                                        *)
Steady(b) == b \notin turned

SteadyRead ==
  /\ early <= Cardinality(At(i, s_blocked_hour_id[i]))
  /\ Cardinality(Prior(At(i, s_blocked_hour_id[i]))) <= early

SumBounds ==
  /\ Taking => Bucket(hour_id) \in turned
  /\ \A b \in Buckets : Steady(b) => s_blocked_hour_id[b] <= current_hour
  /\ total <= Cardinality(Likely(Below(i)))
  /\ Cardinality(Prior(Sure(Below(i)))) <= total
  /\ wpc = "test early" => early <= Cardinality(InBucket(i))
  /\ wpc = "test early" /\ Steady(i) => SteadyRead
  /\ wpc = "add" /\ Steady(i) => InWindow(s_blocked_hour_id[i])

SumOK ==
  /\ wpc \notin Summing => i = 0 /\ total = 0
  /\ wpc = "done" => i = HistoryHours
  /\ wpc \in Summing => SumBounds

HistoryInv == HistoryTypeOK /\ BucketsOK /\ StoresOK /\ SumOK

-----------------------------------------------------------------------------
LEMMA BucketType ==
  ASSUME NEW h \in Nat
  PROVE  Bucket(h) \in Buckets
BY Z3 DEF Bucket, Buckets

(* Two hours of the same bucket are at least a whole history apart.           *)
LEMMA HoursApart ==
  ASSUME NEW g \in Nat, NEW h \in Nat, Bucket(g) = Bucket(h), g < h
  PROVE  g <= h - HistoryHours
<1> DEFINE H == HistoryHours
<1> DEFINE r == g % H
<1> DEFINE d == (h \div H) - (g \div H)
<1>1. H \in Nat \ {0}
  OBVIOUS
<1> HIDE DEF H
<1>2. /\ g = H * (g \div H) + r /\ h = H * (h \div H) + r
      /\ g \div H \in Int /\ h \div H \in Int /\ r \in Int
  BY <1>1, Z3 DEF Bucket, H
<1>3. d \in Int /\ h - g = H * d
  BY <1>1, <1>2, Z3
<1>4. CASE d >= 1
  <2>1. H * d >= H
    BY <1>1, <1>3, <1>4, Z3
  <2> QED
    BY <1>1, <1>3, <2>1 DEF H
<1>5. CASE d <= 0
  <2>1. H * d <= 0
    BY <1>1, <1>3, <1>5, Z3
  <2> QED
    BY <1>3, <2>1
<1> HIDE DEF d
<1> QED
  BY <1>3, <1>4, <1>5

LEMMA HistoryTypes ==
  ASSUME HistoryTypeOK
  PROVE  /\ counted \in Seq(Hours) /\ Len(counted) \in Nat
         /\ since \in 0 .. Len(counted) /\ before \in 0 .. Len(counted)
         /\ hour \in Nat /\ hour_id \in Nat /\ current_hour \in Nat
         /\ \A b \in Buckets : /\ s_blocked_hour_id[b] \in Nat
                              /\ s_blocked_hour_count[b] \in Nat
         /\ early \in Nat /\ total \in Nat /\ queries_blocked \in Nat
<1>1. /\ counted \in Seq(Hours) /\ {since, before} \subseteq 0 .. Len(counted)
      /\ {hour, hour_id, current_hour} \subseteq Hours
      /\ s_blocked_hour_id \in [Buckets -> Hours]
      /\ s_blocked_hour_count \in [Buckets -> Nat]
      /\ {early, total} \subseteq Nat /\ queries_blocked \in 0 .. MaxBlocks
  BY DEF HistoryTypeOK
<1>2. Hours \subseteq Nat
  BY DEF Hours
<1>3. hour \in Nat /\ hour_id \in Nat /\ current_hour \in Nat /\ early \in Nat /\ total \in Nat
  BY <1>1, <1>2
<1>4. since \in 0 .. Len(counted) /\ before \in 0 .. Len(counted)
  BY <1>1
<1>5. \A b \in Buckets : s_blocked_hour_id[b] \in Nat /\ s_blocked_hour_count[b] \in Nat
  BY <1>1, <1>2
<1>6. Len(counted) \in Nat /\ queries_blocked \in Nat
  BY <1>1
<1> QED
  BY <1>1, <1>3, <1>4, <1>5, <1>6

(* Sets of blocks are finite: their cardinalities can be compared.            *)
LEMMA Countable ==
  ASSUME NEW n \in Nat, NEW S \in SUBSET (1 .. n)
  PROVE  IsFiniteSet(S) /\ Cardinality(S) \in Nat
<1>1. IsFiniteSet(1 .. n)
  BY FS_Interval
<1> QED
  BY <1>1, FS_Subset, FS_CardinalityType

LEMMA Fewer ==
  ASSUME NEW n \in Nat, NEW T \in SUBSET (1 .. n), NEW S \in SUBSET T
  PROVE  /\ Cardinality(S) \in Nat /\ Cardinality(T) \in Nat
         /\ Cardinality(S) <= Cardinality(T)
BY Countable, FS_Subset

LEMMA Together ==
  ASSUME NEW S, NEW T, IsFiniteSet(S), IsFiniteSet(T), S \cap T = {}
  PROVE  /\ Cardinality(S) \in Nat /\ Cardinality(T) \in Nat
         /\ Cardinality(S \cup T) = Cardinality(S) + Cardinality(T)
<1>1. Cardinality(S \cup T) = Cardinality(S) + Cardinality(T) - Cardinality(S \cap T)
  BY FS_Union
<1>2. Cardinality(S \cap T) = 0
  BY FS_EmptySet
<1>3. Cardinality(S) \in Nat /\ Cardinality(T) \in Nat
  BY FS_CardinalityType
<1> QED
  BY <1>1, <1>2, <1>3

(* A block is counted for an hour of the clock and belongs to a bucket.       *)
LEMMA LiveBlocks ==
  ASSUME HistoryTypeOK
  PROVE  /\ Len(counted) \in Nat /\ Live \in SUBSET (1 .. Len(counted))
         /\ \A k \in Live : k \in Nat /\ counted[k] \in Hours /\ counted[k] \in Nat
                            /\ Bucket(counted[k]) \in Buckets
         /\ \A b : InBucket(b) \in SUBSET Live
         /\ \A b, h : At(b, h) \in SUBSET Live /\ At(b, h) \in SUBSET InBucket(b)
         /\ \A n : Below(n) \in SUBSET Live
         /\ \A S \in SUBSET Live :
              Sure(S) \in SUBSET S /\ Likely(S) \in SUBSET S /\ Prior(S) \in SUBSET S
<1>1. \A k \in Live : k \in 1 .. Len(counted) /\ counted[k] \in Hours
  BY HistoryTypes DEF Live
<1>2. \A k \in Live : counted[k] \in Nat /\ Bucket(counted[k]) \in Buckets
  BY <1>1, BucketType DEF Hours
<1> QED
  BY <1>1, <1>2, HistoryTypes DEF InBucket, At, Below, Sure, Likely, Prior

(* The sum visits one bucket more.                                            *)
LEMMA BelowNext ==
  ASSUME HistoryTypeOK, NEW n \in Buckets
  PROVE  Below(n + 1) = Below(n) \cup InBucket(n) /\ Below(n) \cap InBucket(n) = {}
<1>1. \A k \in Live : Bucket(counted[k]) \in Int /\ n \in Int
  BY LiveBlocks DEF Buckets
<1> QED
  BY <1>1 DEF Below, InBucket

LEMMA BelowAll ==
  ASSUME HistoryTypeOK
  PROVE  Below(HistoryHours) = Live
BY LiveBlocks DEF Below, Buckets

(* What of a bucket that has not turned is in the window is of the bucket's   *)
(* hour, all of it or nothing; of one that has, everything is likely and      *)
(* nothing sure.                                                                *)
LEMMA ShareOfBucket ==
  ASSUME HistoryTypeOK, BucketsOK, SumBounds, NEW b \in Buckets
  PROVE  /\ Steady(b) => LET T == IF InWindow(s_blocked_hour_id[b])
                                   THEN At(b, s_blocked_hour_id[b]) ELSE {}
                         IN  Sure(InBucket(b)) = T /\ Likely(InBucket(b)) = T
         /\ ~Steady(b) => Sure(InBucket(b)) = {} /\ Likely(InBucket(b)) = InBucket(b)
<1>0. \A k \in InBucket(b) : Turned(k) <=> ~Steady(b)
  BY DEF InBucket, Turned, Steady
<1>a. CASE ~Steady(b)
  BY <1>0, <1>a DEF Sure, Likely
<1>b. CASE Steady(b)
  <2> DEFINE id == s_blocked_hour_id[b]
  <2>1. HourOf(b) = id
    BY <1>b DEF HourOf, Mine, SumBounds, Steady
  <2>2. /\ \A k \in InBucket(b) : counted[k] <= id
        /\ Bucket(id) = b \/ id = 0
    BY <2>1 DEF BucketsOK, BucketOK
  <2>3. id \in Nat /\ id <= current_hour /\ current_hour \in Nat /\ HistoryHours \in Nat \ {0}
    BY <1>b, HistoryTypes DEF SumBounds
  <2>4. ASSUME NEW k \in InBucket(b), counted[k] # id
        PROVE  counted[k] <= current_hour - HistoryHours
    <3>1. counted[k] \in Nat /\ counted[k] < id /\ Bucket(counted[k]) = b
      BY <2>2, <2>3, <2>4, LiveBlocks DEF InBucket
    <3>2. Bucket(id) = b
      BY <2>2, <2>3, <3>1
    <3>3. counted[k] <= id - HistoryHours
      BY <2>3, <3>1, <3>2, HoursApart
    <3> QED
      BY <2>3, <3>1, <3>3
  <2>5. \A k \in InBucket(b) : counted[k] \in Nat
    BY LiveBlocks
  <2> HIDE DEF id
  <2>6. CASE InWindow(id)
    <3>1. \A k \in InBucket(b) : Recent(k) <=> counted[k] = id
      BY <2>3, <2>4, <2>5, <2>6 DEF InWindow, Recent
    <3>2. Sure(InBucket(b)) = At(b, id) /\ Likely(InBucket(b)) = At(b, id)
      BY <1>0, <1>b, <3>1 DEF Sure, Likely, At
    <3> QED
      BY <1>b, <2>6, <3>2 DEF id
  <2>7. CASE ~InWindow(id)
    <3>1. \A k \in InBucket(b) : ~Recent(k)
      BY <2>3, <2>4, <2>5, <2>7 DEF InWindow, Recent
    <3>2. Sure(InBucket(b)) = {} /\ Likely(InBucket(b)) = {}
      BY <1>0, <1>b, <3>1 DEF Sure, Likely
    <3> QED
      BY <1>b, <2>7, <3>2 DEF id
  <2> QED
    BY <2>6, <2>7 DEF id
<1> QED
  BY <1>a, <1>b

-----------------------------------------------------------------------------
(* Counting a block adds it to the sets; every other step leaves them alone.  *)
LEMMA Grown ==
  ASSUME HistoryTypeOK, UNCHANGED since,
         counted' = counted \/ counted' = Append(counted, hour_id)
  PROVE  /\ Len(counted)' \in Nat /\ Live' \in SUBSET (1 .. Len(counted)')
         /\ \A k \in Live : k \in Live' /\ counted'[k] = counted[k]
         /\ \A k \in Live' \ Live : k > before
         /\ \A b : InBucket(b) \subseteq InBucket(b)' /\ InBucket(b)' \in SUBSET Live'
         /\ \A b, h : At(b, h) \subseteq At(b, h)' /\ At(b, h)' \in SUBSET Live'
         /\ \A n : Below(n) \subseteq Below(n)' /\ Below(n)' \in SUBSET Live'
<1>1. /\ counted \in Seq(Hours) /\ Len(counted) \in Nat
      /\ since \in 0 .. Len(counted) /\ before \in 0 .. Len(counted)
  BY HistoryTypes
<1>2. /\ Len(counted)' \in {Len(counted), Len(counted) + 1}
      /\ \A k \in 1 .. Len(counted) : counted'[k] = counted[k]
  BY <1>1
<1>3. /\ Len(counted)' \in Nat /\ Live' \in SUBSET (1 .. Len(counted)')
      /\ \A k \in Live : k \in Live' /\ counted'[k] = counted[k]
      /\ \A k \in Live' \ Live : k > before
  BY <1>1, <1>2 DEF Live
<1>4. \A b : InBucket(b) \subseteq InBucket(b)' /\ InBucket(b)' \in SUBSET Live'
  BY <1>3 DEF InBucket
<1>5. \A b, h : At(b, h) \subseteq At(b, h)' /\ At(b, h)' \in SUBSET Live'
  BY <1>3, <1>4 DEF At, InBucket
<1>6. \A n : Below(n) \subseteq Below(n)' /\ Below(n)' \in SUBSET Live'
  BY <1>3 DEF Below
<1> QED
  BY <1>3, <1>4, <1>5, <1>6

LEMMA SameBlocks ==
  ASSUME UNCHANGED <<counted, since>>
  PROVE  /\ Live' = Live
         /\ \A b : InBucket(b)' = InBucket(b)
         /\ \A b, h : At(b, h)' = At(b, h)
         /\ \A n : Below(n)' = Below(n)
<1>1. Live' = Live
  BY DEF Live
<1>2. \A b : InBucket(b)' = InBucket(b)
  BY <1>1 DEF InBucket
<1> QED
  BY <1>1, <1>2 DEF At, Below

(* A step of the forwarding task preserves what is known of the sum: what is  *)
(* counted meanwhile comes after what was there when the sum began, and a     *)
(* bucket that is taken over becomes one of those that turned.                *)
LEMMA SumUnderSteps ==
  ASSUME HistoryTypeOK, SumOK,
         UNCHANGED <<since, wpc, i, early, total, current_hour, before>>,
         counted' = counted \/ counted' = Append(counted, hour_id),
         wpc \in Summing => /\ turned \subseteq turned'
                            /\ Taking' => Bucket(hour_id)' \in turned'
                            /\ \A b \in Buckets : b \notin turned' =>
                                  s_blocked_hour_id'[b] = s_blocked_hour_id[b]
  PROVE  SumOK'
<1> SUFFICES ASSUME wpc \in Summing PROVE SumBounds'
  BY DEF SumOK
<1> PICK n : n = i
  OBVIOUS
<1> i' = n /\ total' = total /\ early' = early /\ wpc' = wpc
  OBVIOUS
<1>0. SumBounds
  BY DEF SumOK
<1>1. total \in Nat /\ early \in Nat
  BY HistoryTypes
<1>2. /\ \A k \in Live : /\ Recent(k) => Recent(k)'
                         /\ Turned(k) => Turned(k)'
                         /\ Recent(k)' => Recent(k)
      /\ \A k \in Live' : (k \in Live \/ k > before) /\ k \in Nat
      /\ before \in Nat
  <2>1. \A k \in Live : counted'[k] = counted[k]
    BY Grown
  <2>2. \A k \in Live : Bucket(counted[k])' = Bucket(counted[k])
    BY <2>1 DEF Bucket
  <2>3. \A k \in Live' : k \in Live \/ k > before
    BY Grown
  <2>4. Live' \in SUBSET (1 .. Len(counted)') /\ before \in Nat
    BY Grown, HistoryTypes
  <2> QED
    BY <2>1, <2>2, <2>3, <2>4 DEF Recent, Turned
<1>3. total <= Cardinality(Likely(Below(n))')
  <2>1. /\ Likely(Below(n)) \subseteq Likely(Below(n))'
        /\ Likely(Below(n))' \in SUBSET (1 .. Len(counted)') /\ Len(counted)' \in Nat
    <3>1. \A k \in Below(n) : k \in Live /\ k \in Below(n)'
      BY Grown DEF Below
    <3> QED
      BY <1>2, <3>1, Grown DEF Likely
  <2>2. /\ Cardinality(Likely(Below(n))) \in Nat /\ Cardinality(Likely(Below(n))') \in Nat
        /\ Cardinality(Likely(Below(n))) <= Cardinality(Likely(Below(n))')
    BY <2>1, Fewer
  <2>3. total <= Cardinality(Likely(Below(n)))
    BY <1>0 DEF SumBounds
  <2> QED
    BY <1>1, <2>2, <2>3
<1>4. Cardinality(Prior(Sure(Below(n)))') <= total
  <2>1. Prior(Sure(Below(n)))' \subseteq Prior(Sure(Below(n)))
    <3>1. \A k \in Below(n)' : k \in Live' /\ (k \in Live => k \in Below(n))
      BY Grown DEF Below
    <3> QED
      BY <1>2, <3>1 DEF Sure, Prior
  <2>2. Prior(Sure(Below(n))) \in SUBSET (1 .. Len(counted)) /\ Len(counted) \in Nat
    BY LiveBlocks DEF Sure, Prior
  <2>3. /\ Cardinality(Prior(Sure(Below(n)))') \in Nat /\ Cardinality(Prior(Sure(Below(n)))) \in Nat
        /\ Cardinality(Prior(Sure(Below(n)))') <= Cardinality(Prior(Sure(Below(n))))
    BY <2>1, <2>2, Fewer
  <2>4. Cardinality(Prior(Sure(Below(n)))) <= total
    BY <1>0 DEF SumBounds
  <2> QED
    BY <1>1, <2>3, <2>4
<1>5. ASSUME wpc = "test early" PROVE early <= Cardinality(InBucket(n)')
  <2>1. Cardinality(InBucket(n)) \in Nat /\ Cardinality(InBucket(n)') \in Nat
        /\ Cardinality(InBucket(n)) <= Cardinality(InBucket(n)')
    BY Grown, Fewer
  <2>2. early <= Cardinality(InBucket(n))
    BY <1>0, <1>5 DEF SumBounds
  <2> QED
    BY <1>1, <2>1, <2>2
<1>6. \A b \in Buckets : Steady(b)' => Steady(b) /\ s_blocked_hour_id'[b] = s_blocked_hour_id[b]
  BY DEF Steady
<1>7. wpc \in {"test early", "add"} => n \in Buckets
  BY DEF HistoryTypeOK
<1>8. ASSUME wpc = "test early", Steady(n)'
      PROVE  /\ early <= Cardinality(At(n, s_blocked_hour_id[n])')
             /\ Cardinality(Prior(At(n, s_blocked_hour_id[n]))') <= early
  <2> PICK id : id = s_blocked_hour_id[n]
    OBVIOUS
  <2> s_blocked_hour_id[n]' = id /\ Steady(n)
    BY <1>6, <1>7, <1>8
  <2>1. Prior(At(n, id))' = Prior(At(n, id))
    <3>1. \A k \in At(n, id)' : k \in Live => k \in At(n, id)
      BY Grown DEF At, InBucket
    <3> QED
      BY <1>2, <3>1, Grown DEF Prior
  <2>2. /\ Cardinality(At(n, id)) \in Nat /\ Cardinality(At(n, id)') \in Nat
        /\ Cardinality(At(n, id)) <= Cardinality(At(n, id)')
    BY Grown, Fewer
  <2>3. early <= Cardinality(At(n, id)) /\ Cardinality(Prior(At(n, id))) <= early
    BY <1>0, <1>8 DEF SumBounds, SteadyRead
  <2>4. early <= Cardinality(At(n, id)')
    BY <1>1, <2>2, <2>3
  <2>5. Cardinality(Prior(At(n, id))') <= early
    BY <2>1, <2>3
  <2> QED
    BY <2>4, <2>5
<1>9. wpc = "add" /\ Steady(n)' => InWindow(s_blocked_hour_id[n])'
  BY <1>0, <1>6, <1>7 DEF SumBounds, InWindow
<1>10. \A b \in Buckets : Steady(b)' => s_blocked_hour_id'[b] <= current_hour'
  BY <1>0, <1>6 DEF SumBounds
<1> QED
  BY <1>3, <1>4, <1>5, <1>8, <1>9, <1>10 DEF SumBounds, SteadyRead

-----------------------------------------------------------------------------
(* The types, one task at a time.                                             *)
LEMMA Bounds ==
  ASSUME HistoryTypeOK
  PROVE  /\ MaxBlocks \in Nat /\ MaxHour \in Nat /\ Hours \subseteq Nat /\ 0 \in Hours
         /\ 0 \in Buckets /\ \A h \in Hours : Bucket(h) \in Buckets
<1>1. MaxBlocks \in Nat /\ MaxHour \in Nat
  BY {MaxBlocks, MaxHour} \subseteq Nat
<1>2. Hours \subseteq Nat /\ 0 \in Hours /\ 0 \in Buckets
  BY <1>1 DEF Hours, Buckets
<1> QED
  BY <1>1, <1>2, BucketType

LEMMA DnsTypes ==
  ASSUME HistoryTypeOK, StoresOK, DnsTask
  PROVE  HistoryTypeOK'
<1> UNCHANGED <<since, hour, wpc, i, early, total, current_hour, before>>
  BY DEF DnsTask, webVars, sumVars
<1>0. /\ counted \in Seq(Hours) /\ Len(counted) \in Nat
      /\ since \in 0 .. Len(counted) /\ before \in 0 .. Len(counted)
      /\ hour \in Hours /\ hour_id \in Hours /\ current_hour \in Hours
  BY HistoryTypes DEF HistoryTypeOK
<1>1. CASE \E e \in Entries : NoteQuery(e)
  <2>1. queries_blocked = Len(counted) - since /\ queries_blocked \in 0 .. MaxBlocks
    <3>1. pc = "idle" /\ "count" \notin todo
      BY <1>1 DEF NoteQuery, StoresOK
    <3>2. queries_blocked = Len(counted) - since
      BY <1>0, <3>1 DEF StoresOK
    <3> QED
      BY <3>2 DEF HistoryTypeOK
  <2>2. \/ queries_blocked' = queries_blocked
        \/ Len(counted) < MaxBlocks /\ queries_blocked' = queries_blocked + 1
    BY <1>1 DEF NoteQuery
  <2>3. queries_blocked' \in 0 .. MaxBlocks
    BY <1>0, <2>1, <2>2, Bounds
  <2> QED
    BY <1>1, <2>3 DEF NoteQuery, bucketVars, HistoryTypeOK
<1>2. CASE RecordBlock
  <2>1. todo' \subseteq {"id", "reset", "count"} /\ turned' \subseteq Buckets
    <3>1. turned \subseteq Buckets /\ Bucket(hour) \in Buckets
      BY <1>0, Bounds DEF HistoryTypeOK
    <3>2. turned' \subseteq turned \cup {Bucket(hour)}
      BY <1>2 DEF RecordBlock
    <3> QED
      BY <1>2, <3>1, <3>2 DEF RecordBlock
  <2>2. {hour', hour_id', current_hour'} \subseteq Hours
    BY <1>0, <1>2 DEF RecordBlock
  <2> QED
    BY <1>2, <2>1, <2>2 DEF RecordBlock, historyVars, HistoryTypeOK
<1>3. CASE StoreId \/ StoreReset
  <2>1. s_blocked_hour_id' \in [Buckets -> Hours] /\ s_blocked_hour_count' \in [Buckets -> Nat]
    BY <1>0, <1>3, Bounds DEF StoreId, StoreReset, HistoryTypeOK
  <2> QED
    BY <1>3, <2>1 DEF StoreId, StoreReset, Store, HistoryTypeOK
<1>4. CASE StoreCount
  <2>1. s_blocked_hour_count' \in [Buckets -> Nat]
    <3>1. s_blocked_hour_count \in [Buckets -> Nat] /\ Bucket(hour_id) \in Buckets
      BY <1>0, Bounds DEF HistoryTypeOK
    <3> QED
      BY <1>4, <3>1 DEF StoreCount
  <2>2. counted' \in Seq(Hours) /\ Len(counted') = Len(counted) + 1
    BY <1>0, <1>4 DEF StoreCount
  <2>3. {since', before'} \subseteq 0 .. Len(counted')
    BY <1>0, <2>2
  <2> QED
    BY <1>4, <2>1, <2>2, <2>3 DEF StoreCount, Store, HistoryTypeOK
<1>5. CASE TakeLog \/ AppendLog \/ SkipLog
  BY <1>5 DEF TakeLog, AppendLog, SkipLog, LeaveLog, historyVars, bucketVars, HistoryTypeOK
<1> QED
  BY <1>1, <1>2, <1>3, <1>4, <1>5 DEF DnsTask

LEMMA WebTypes ==
  ASSUME HistoryTypeOK, SumOK, WebTask
  PROVE  HistoryTypeOK'
<1> UNCHANGED <<counted, since, hour, queries_blocked, s_blocked_hour_id,
                s_blocked_hour_count, hour_id, todo>>
  BY DEF WebTask, dnsVars, historyVars, bucketVars
<1>0. /\ counted \in Seq(Hours) /\ Len(counted) \in Nat
      /\ since \in 0 .. Len(counted) /\ before \in 0 .. Len(counted)
      /\ hour \in Hours /\ hour_id \in Hours /\ current_hour \in Hours
      /\ early \in Nat /\ total \in Nat
      /\ \A b \in Buckets : s_blocked_hour_count[b] \in Nat
  BY HistoryTypes DEF HistoryTypeOK
<1>1. CASE RequestLog \/ CopyEntry \/ ReturnLog \/ LogBusy
  <2>1. wpc \in {"idle", "copy"} /\ wpc' \in {"idle", "copy"}
        /\ UNCHANGED <<i, early, total, current_hour, before, turned>>
    BY <1>1 DEF RequestLog, CopyEntry, ReturnLog, LogBusy, sumVars
  <2> QED
    BY <2>1 DEF HistoryTypeOK, Summing
<1>2. CASE RequestStats
  <2>1. i = 0 /\ 0 \in Buckets
    BY <1>2, Bounds DEF RequestStats, SumOK, Summing
  <2>2. {hour', hour_id', current_hour'} \subseteq Hours
        /\ {since', before'} \subseteq 0 .. Len(counted')
    BY <1>0, <1>2 DEF RequestStats
  <2>3. turned' \subseteq Buckets
    BY <1>0, <1>2, Bounds DEF RequestStats
  <2> QED
    BY <1>2, <2>1, <2>2, <2>3 DEF RequestStats, HistoryTypeOK, Summing
<1>3. CASE TestBucket \/ AddBucket \/ ReadCountEarly \/ TestBucketLate
  <2>1. i \in Buckets
    BY <1>3 DEF TestBucket, AddBucket, ReadCountEarly, TestBucketLate, HistoryTypeOK
  <2>2. UNCHANGED <<current_hour, before, turned>>
    BY <1>3 DEF TestBucket, AddBucket, ReadCountEarly, TestBucketLate, SumFrame
  <2>3. /\ wpc' \in Summing
        /\ i' \in IF wpc' \in {"test", "test early", "add"} THEN Buckets ELSE {0, HistoryHours}
    <3>1. CASE UNCHANGED i /\ wpc' \in {"add", "test early"}
      BY <2>1, <3>1 DEF Summing
    <3>2. CASE NextBucket
      BY <2>1, <3>2 DEF NextBucket, Summing, Buckets
    <3> QED
      BY <1>3, <3>1, <3>2 DEF TestBucket, AddBucket, ReadCountEarly, TestBucketLate
  <2>4. early' \in Nat /\ total' \in Nat
    <3>1. s_blocked_hour_count[i] \in Nat
      BY <1>0, <2>1
    <3>2. /\ early' \in {early, 0, s_blocked_hour_count[i]}
          /\ total' \in {total, total + early, total + s_blocked_hour_count[i]}
      BY <1>3 DEF TestBucket, AddBucket, ReadCountEarly, TestBucketLate
    <3> QED
      BY <1>0, <3>1, <3>2
  <2>5. {early', total'} \subseteq Nat
    BY <2>4
  <2> QED
    BY <2>2, <2>3, <2>5 DEF HistoryTypeOK
<1>4. CASE ReturnStats
  <2>1. {hour', hour_id', current_hour'} \subseteq Hours
        /\ {since', before'} \subseteq 0 .. Len(counted')
        /\ {early', total'} \subseteq Nat
    BY <1>0, <1>4, Bounds DEF ReturnStats
  <2> QED
    BY <1>4, <2>1 DEF ReturnStats, HistoryTypeOK
<1> QED
  BY <1>1, <1>2, <1>3, <1>4 DEF WebTask

LEMMA TypesNext ==
  ASSUME HistoryInv, [Next]_vars
  PROVE  HistoryTypeOK'
<1> USE DEF HistoryInv
<1>0. /\ Len(counted) \in Nat /\ hour_id \in Hours /\ current_hour \in Hours
      /\ hour \in Hours /\ {since, before} \subseteq 0 .. Len(counted)
  BY HistoryTypes DEF HistoryTypeOK
<1>1. CASE DnsTask
  BY <1>1, DnsTypes
<1>2. CASE WebTask
  BY <1>2, WebTypes
<1>3. CASE AdvanceHour
  <2>1. hour' \in Hours
    BY <1>0, <1>3, Bounds DEF AdvanceHour, Hours
  <2>2. UNCHANGED <<s_blocked_hour_id, s_blocked_hour_count, queries_blocked, hour_id,
                    current_hour, todo, wpc, i, early, total, counted, since, before, turned>>
    BY <1>3 DEF AdvanceHour, dnsVars, webVars, historyVars, bucketVars, sumVars
  <2>3. {hour', hour_id', current_hour'} \subseteq Hours
    BY <1>0, <2>1, <2>2
  <2> QED
    BY <2>2, <2>3 DEF HistoryTypeOK
<1>4. CASE Restart
  <2>1. {hour', hour_id', current_hour'} \subseteq Hours
        /\ {since', before'} \subseteq 0 .. Len(counted')
        /\ {early', total'} \subseteq Nat
    BY <1>0, <1>4, Bounds DEF Restart
  <2>2. s_blocked_hour_id' \in [Buckets -> Hours] /\ s_blocked_hour_count' \in [Buckets -> Nat]
        /\ queries_blocked' \in 0 .. MaxBlocks
    BY <1>4, Bounds DEF Restart
  <2> QED
    BY <1>4, <2>1, <2>2 DEF Restart, HistoryTypeOK
<1>5. CASE UNCHANGED vars
  BY <1>5 DEF vars, dnsVars, webVars, historyVars, bucketVars, sumVars, HistoryTypeOK
<1> QED
  BY <1>1, <1>2, <1>3, <1>4, <1>5 DEF Next

-----------------------------------------------------------------------------
(* The buckets: a step that touches neither them nor the blocks.              *)
LEMMA BucketsQuiet ==
  ASSUME HistoryTypeOK, BucketsOK, hour' \in Nat, hour <= hour',
         UNCHANGED <<counted, since, s_blocked_hour_id, s_blocked_hour_count, hour_id>>,
         UNCHANGED todo
  PROVE  BucketsOK'
<1> SUFFICES ASSUME NEW b \in Buckets PROVE BucketOK(b)'
  BY DEF BucketsOK
<1>1. BucketOK(b)
  BY DEF BucketsOK
<1>2. HourOf(b)' = HourOf(b) /\ Mine(b)' = Mine(b)
  BY DEF HourOf, Mine, Taking
<1>3. HourOf(b) \in Nat /\ hour \in Nat
  BY HistoryTypes DEF HourOf
<1>4. HourOf(b)' <= hour'
  BY <1>1, <1>2, <1>3 DEF BucketOK
<1> QED
  BY <1>1, <1>2, <1>4, SameBlocks DEF BucketOK

(* A bucket that is taken over holds no block of its new hour: all are of     *)
(* hours no later than its old one, which has passed.                          *)
LEMMA BucketsRecord ==
  ASSUME HistoryTypeOK, BucketsOK, StoresOK, RecordBlock, UNCHANGED <<since, hour>>
  PROVE  BucketsOK'
<1> SUFFICES ASSUME NEW b \in Buckets PROVE BucketOK(b)'
  BY DEF BucketsOK
<1>0. UNCHANGED <<counted, s_blocked_hour_id, s_blocked_hour_count>> /\ hour_id' = hour
      /\ Bucket(hour)' = Bucket(hour)
  BY DEF RecordBlock, historyVars
<1>1. BucketOK(b) /\ ~Taking
  BY DEF BucketsOK, StoresOK, RecordBlock, Taking
<1>2. ~Mine(b) /\ HourOf(b) = s_blocked_hour_id[b]
  BY <1>1 DEF HourOf, Mine
<1>3. CASE b = Bucket(hour) /\ s_blocked_hour_id[Bucket(hour)] # hour
  <2>1. HourOf(b)' = hour /\ Mine(b)' /\ "reset" \in todo'
    BY <1>0, <1>3 DEF HourOf, Mine, Taking, RecordBlock
  <2>2. \A k \in InBucket(b) : counted[k] \in Nat /\ counted[k] < hour
    BY <1>1, <1>2, <1>3, HistoryTypes, LiveBlocks DEF BucketOK
  <2>3. At(b, hour) = {} /\ \A k \in InBucket(b) : counted[k] <= hour
    BY <2>2, HistoryTypes DEF At
  <2>4. At(b, hour_id)' = {}
    BY <1>0, <2>3, SameBlocks
  <2>5. hour \in Nat
    BY HistoryTypes
  <2> QED
    BY <1>0, <1>1, <1>3, <2>1, <2>3, <2>4, <2>5, SameBlocks DEF BucketOK
<1>4. CASE ~(b = Bucket(hour) /\ s_blocked_hour_id[Bucket(hour)] # hour)
  <2>1. HourOf(b)' = HourOf(b) /\ ~Mine(b)'
    BY <1>0, <1>2, <1>4 DEF HourOf, Mine, Taking, RecordBlock
  <2> QED
    BY <1>0, <1>1, <1>2, <2>1, SameBlocks DEF BucketOK
<1> QED
  BY <1>3, <1>4

LEMMA BucketsId ==
  ASSUME HistoryTypeOK, BucketsOK, StoreId, UNCHANGED <<since, hour>>
  PROVE  BucketsOK'
<1> SUFFICES ASSUME NEW b \in Buckets PROVE BucketOK(b)'
  BY DEF BucketsOK
<1>0. /\ UNCHANGED <<counted, s_blocked_hour_count, hour_id>>
      /\ Bucket(hour_id)' = Bucket(hour_id) /\ Bucket(hour_id) \in Buckets
      /\ s_blocked_hour_id' = [s_blocked_hour_id EXCEPT ![Bucket(hour_id)] = hour_id]
      /\ s_blocked_hour_id \in [Buckets -> Hours]
      /\ "id" \in todo /\ todo' = todo \ {"id"}
  BY HistoryTypes, BucketType DEF StoreId, Store, HistoryTypeOK
<1>1. BucketOK(b) /\ Taking
  BY <1>0 DEF BucketsOK, Taking
<1>2. /\ HourOf(b)' = HourOf(b)
      /\ Mine(b)' /\ "reset" \in todo' <=> Mine(b) /\ "reset" \in todo
  BY <1>0, <1>1 DEF HourOf, Mine, Taking
<1> QED
  BY <1>0, <1>1, <1>2, SameBlocks DEF BucketOK

LEMMA BucketsReset ==
  ASSUME HistoryTypeOK, BucketsOK, StoresOK, StoreReset, UNCHANGED <<since, hour>>
  PROVE  BucketsOK'
<1> SUFFICES ASSUME NEW b \in Buckets PROVE BucketOK(b)'
  BY DEF BucketsOK
<1>0. /\ UNCHANGED <<counted, s_blocked_hour_id, hour_id>>
      /\ Bucket(hour_id)' = Bucket(hour_id) /\ Bucket(hour_id) \in Buckets
      /\ s_blocked_hour_count' = [s_blocked_hour_count EXCEPT ![Bucket(hour_id)] = 0]
      /\ s_blocked_hour_count \in [Buckets -> Nat]
      /\ "reset" \in todo /\ todo' = todo \ {"reset"}
  BY HistoryTypes, BucketType DEF StoreReset, Store, HistoryTypeOK
<1>1. BucketOK(b) /\ Taking
  BY <1>0 DEF BucketsOK, Taking
<1>2. HourOf(b)' = HourOf(b)
  BY <1>0, <1>1 DEF HourOf, Mine, Taking, StoresOK
<1>3. CASE b = Bucket(hour_id)
  <2>1. HourOf(b) = hour_id /\ At(b, hour_id) = {} /\ s_blocked_hour_count'[b] = 0
    BY <1>0, <1>1, <1>3 DEF HourOf, Mine, BucketOK
  <2>2. Cardinality(At(b, hour_id)) = 0
    BY <2>1, FS_EmptySet
  <2>3. InBucket(b) \in SUBSET (1 .. Len(counted))
    BY LiveBlocks
  <2>4. 0 <= Cardinality(InBucket(b))
    <3>1. Cardinality(InBucket(b)) \in Nat
      BY <2>3, HistoryTypes, Countable
    <3> QED
      BY <3>1
  <2> QED
    BY <1>0, <1>1, <1>2, <2>1, <2>2, <2>4, SameBlocks DEF BucketOK
<1>4. CASE b # Bucket(hour_id)
  <2>1. s_blocked_hour_count'[b] = s_blocked_hour_count[b] /\ ~Mine(b) /\ ~Mine(b)'
    BY <1>0, <1>4 DEF Mine
  <2> QED
    BY <1>0, <1>1, <1>2, <2>1, SameBlocks DEF BucketOK
<1> QED
  BY <1>3, <1>4

(* The block that is counted joins its bucket and the blocks of its hour.     *)
LEMMA OneMore ==
  ASSUME HistoryTypeOK, counted' = Append(counted, hour_id), UNCHANGED since
  PROVE  LET m == Len(counted) + 1 IN
         /\ m \notin Live /\ counted'[m] = hour_id
         /\ \A k \in Live : counted'[k] = counted[k]
         /\ \A b : InBucket(b)' = IF b = Bucket(hour_id) THEN InBucket(b) \cup {m} ELSE InBucket(b)
         /\ \A b, h : At(b, h)' = IF b = Bucket(hour_id) /\ h = hour_id
                                    THEN At(b, h) \cup {m} ELSE At(b, h)
<1> DEFINE m == Len(counted) + 1
<1>1. /\ counted \in Seq(Hours) /\ Len(counted) \in Nat /\ since \in 0 .. Len(counted)
      /\ hour_id \in Hours
  BY HistoryTypes DEF HistoryTypeOK
<1>2. Len(counted') = m /\ counted'[m] = hour_id
      /\ \A k \in 1 .. Len(counted) : counted'[k] = counted[k]
  BY <1>1
<1>3. Live' = Live \cup {m} /\ m \notin Live
      /\ \A k \in Live : counted'[k] = counted[k]
  BY <1>1, <1>2 DEF Live
<1> HIDE DEF m
<1>4. \A b : InBucket(b)' = IF b = Bucket(hour_id) THEN InBucket(b) \cup {m} ELSE InBucket(b)
  BY <1>2, <1>3 DEF InBucket
<1>5. ASSUME NEW b, NEW h
      PROVE  At(b, h)' = IF b = Bucket(hour_id) /\ h = hour_id
                           THEN At(b, h) \cup {m} ELSE At(b, h)
  <2>1. At(b, h)' = {k \in InBucket(b)' : counted'[k] = h}
    BY DEF At
  <2>2. \A k \in InBucket(b) : counted'[k] = counted[k]
    BY <1>3 DEF InBucket
  <2>3. At(b, h) = {k \in InBucket(b) : counted[k] = h}
    BY DEF At
  <2> QED
    BY <1>2, <1>4, <2>1, <2>2, <2>3
<1> QED
  BY <1>2, <1>3, <1>4, <1>5 DEF m

LEMMA Another ==
  ASSUME NEW n \in Nat, NEW S \in SUBSET (1 .. n), NEW m, m \notin S
  PROVE  Cardinality(S \cup {m}) = Cardinality(S) + 1 /\ Cardinality(S) \in Nat
BY Countable, FS_AddElement

LEMMA BucketsCount ==
  ASSUME HistoryTypeOK, BucketsOK, StoresOK, StoreCount, UNCHANGED <<since, hour>>
  PROVE  BucketsOK'
<1> SUFFICES ASSUME NEW b \in Buckets PROVE BucketOK(b)'
  BY DEF BucketsOK
<1>0. /\ UNCHANGED <<s_blocked_hour_id, hour_id>>
      /\ Bucket(hour_id)' = Bucket(hour_id) /\ Bucket(hour_id) \in Buckets
      /\ s_blocked_hour_count' = [s_blocked_hour_count EXCEPT ![Bucket(hour_id)] = @ + 1]
      /\ s_blocked_hour_count \in [Buckets -> Nat]
      /\ counted' = Append(counted, hour_id)
      /\ "count" \in todo /\ "reset" \notin todo /\ todo' = todo \ {"count"}
  BY HistoryTypes, BucketType DEF StoreCount, Store, HistoryTypeOK
<1>1. BucketOK(b)
  BY DEF BucketsOK
<1>2. HourOf(b)' = HourOf(b) /\ "reset" \notin todo'
  BY <1>0 DEF HourOf, Mine, Taking
<1>3. CASE b = Bucket(hour_id)
  <2> PICK m : m = Len(counted) + 1
    OBVIOUS
  <2> PICK h : h = hour_id
    OBVIOUS
  <2>1. HourOf(b) = h
    BY <1>0, <1>3 DEF HourOf, Mine, Taking, StoresOK
  <2>2. /\ InBucket(b)' = InBucket(b) \cup {m} /\ At(b, h)' = At(b, h) \cup {m}
        /\ counted'[m] = h /\ m \notin Live
        /\ \A k \in Live : counted'[k] = counted[k]
    BY <1>0, <1>3, OneMore
  <2>3. /\ s_blocked_hour_count'[b] = s_blocked_hour_count[b] + 1
        /\ s_blocked_hour_count[b] \in Nat
    BY <1>0, <1>3
  <2>4. /\ InBucket(b) \in SUBSET (1 .. Len(counted)) /\ m \notin InBucket(b)
        /\ At(b, h) \in SUBSET (1 .. Len(counted)) /\ m \notin At(b, h)
        /\ Len(counted) \in Nat /\ InBucket(b) \in SUBSET Live
    BY <2>2, LiveBlocks
  <2>5. /\ Cardinality(InBucket(b)') = Cardinality(InBucket(b)) + 1
        /\ Cardinality(At(b, h)') = Cardinality(At(b, h)) + 1
        /\ Cardinality(InBucket(b)) \in Nat
    BY <2>2, <2>4, Another
  <2>6. /\ s_blocked_hour_count[b] <= Cardinality(InBucket(b))
        /\ s_blocked_hour_count[b] = Cardinality(At(b, h))
    BY <1>0, <1>1, <2>1 DEF BucketOK
  <2>7. /\ s_blocked_hour_count'[b] <= Cardinality(InBucket(b)')
        /\ s_blocked_hour_count'[b] = Cardinality(At(b, h)')
    BY <2>3, <2>5, <2>6
  <2>8. \A k \in InBucket(b)' : counted'[k] <= h
    <3>1. \A k \in InBucket(b) : counted'[k] <= h
      BY <1>1, <2>1, <2>2, <2>4 DEF BucketOK
    <3>2. h \in Nat
      BY HistoryTypes
    <3> QED
      BY <2>2, <3>1, <3>2
  <2>9. HourOf(b)' = h /\ hour' = hour
    BY <1>2, <2>1
  <2> QED
    BY <1>1, <1>2, <2>1, <2>7, <2>8, <2>9 DEF BucketOK
<1>4. CASE b # Bucket(hour_id)
  <2>1. s_blocked_hour_count'[b] = s_blocked_hour_count[b] /\ ~Mine(b) /\ ~Mine(b)'
    BY <1>0, <1>4 DEF Mine
  <2>2. InBucket(b)' = InBucket(b) /\ \A h : At(b, h)' = At(b, h)
    BY <1>0, <1>4, OneMore
  <2>3. \A k \in InBucket(b) : counted'[k] = counted[k]
    BY <1>0, OneMore DEF InBucket
  <2> QED
    BY <1>1, <1>2, <2>1, <2>2, <2>3 DEF BucketOK
<1> QED
  BY <1>3, <1>4

LEMMA BucketsNext ==
  ASSUME HistoryInv, [Next]_vars
  PROVE  BucketsOK'
<1> USE DEF HistoryInv
<1>0. hour \in Nat
  BY HistoryTypes
<1>1. CASE DnsTask
  <2> UNCHANGED <<since, hour>>
    BY <1>1 DEF DnsTask
  <2>1. CASE RecordBlock
    BY <2>1, BucketsRecord
  <2>2. CASE StoreId
    BY <2>2, BucketsId
  <2>3. CASE StoreReset
    BY <2>3, BucketsReset
  <2>4. CASE StoreCount
    BY <2>4, BucketsCount
  <2>5. CASE (\E e \in Entries : NoteQuery(e)) \/ TakeLog \/ AppendLog \/ SkipLog
    <3>1. UNCHANGED <<counted, s_blocked_hour_id, s_blocked_hour_count, hour_id, todo>>
      BY <2>5 DEF NoteQuery, TakeLog, AppendLog, SkipLog, LeaveLog, historyVars, bucketVars
    <3> QED
      BY <1>0, <3>1, BucketsQuiet
  <2> QED
    BY <1>1, <2>1, <2>2, <2>3, <2>4, <2>5 DEF DnsTask
<1>2. CASE WebTask \/ UNCHANGED vars
  <2>1. UNCHANGED <<counted, since, hour, s_blocked_hour_id, s_blocked_hour_count, hour_id, todo>>
    BY <1>2 DEF WebTask, vars, dnsVars, historyVars, bucketVars
  <2> QED
    BY <1>0, <2>1, BucketsQuiet
<1>3. CASE AdvanceHour
  <2>1. UNCHANGED <<counted, since, s_blocked_hour_id, s_blocked_hour_count, hour_id, todo>>
    BY <1>3 DEF AdvanceHour, dnsVars, historyVars, bucketVars
  <2>2. hour' \in Nat /\ hour <= hour'
    BY <1>0, <1>3, Bounds DEF AdvanceHour
  <2> QED
    BY <2>1, <2>2, BucketsQuiet
<1>4. CASE Restart
  <2> SUFFICES ASSUME NEW b \in Buckets PROVE BucketOK(b)'
    BY DEF BucketsOK
  <2>1. Live' = {}
    BY <1>4, HistoryTypes DEF Restart, Live
  <2>2. InBucket(b)' = {} /\ \A h : At(b, h)' = {}
    BY <2>1 DEF InBucket, At
  <2>3. HourOf(b)' = 0 /\ s_blocked_hour_count'[b] = 0 /\ ~Mine(b)'
    BY <1>4 DEF Restart, HourOf, Mine, Taking
  <2>4. hour' \in Nat
    BY <1>0, <1>4 DEF Restart
  <2> QED
    BY <2>2, <2>3, <2>4, FS_EmptySet DEF BucketOK
<1> QED
  BY <1>1, <1>2, <1>3, <1>4 DEF Next

LEMMA StoresNext ==
  ASSUME HistoryInv, [Next]_vars
  PROVE  StoresOK'
<1> USE DEF HistoryInv
<1>0. /\ counted \in Seq(Hours) /\ Len(counted) \in Nat /\ since \in 0 .. Len(counted)
      /\ hour_id \in Nat /\ Bucket(hour_id) \in Buckets /\ Bucket(hour) \in Buckets
      /\ s_blocked_hour_id \in [Buckets -> Hours] /\ queries_blocked \in Nat
      /\ todo \subseteq {"id", "reset", "count"}
  BY HistoryTypes, BucketType DEF HistoryTypeOK
<1>1. CASE DnsTask
  <2> UNCHANGED since
    BY <1>1 DEF DnsTask
  <2>1. CASE \E e \in Entries : NoteQuery(e)
    BY <1>0, <2>1 DEF NoteQuery, bucketVars, StoresOK
  <2>2. CASE RecordBlock
    BY <1>0, <2>2 DEF RecordBlock, historyVars, StoresOK, Bucket
  <2>3. CASE StoreId
    BY <1>0, <2>3 DEF StoreId, Store, StoresOK, Bucket
  <2>4. CASE StoreReset
    BY <1>0, <2>4 DEF StoreReset, Store, StoresOK, Bucket
  <2>5. CASE StoreCount
    <3>1. /\ "count" \in todo /\ "reset" \notin todo /\ todo' = todo \ {"count"}
          /\ pc = "bucket" /\ pc' = IF todo' = {} THEN "log" ELSE "bucket"
          /\ UNCHANGED <<hour_id, s_blocked_hour_id, queries_blocked>>
      BY <2>5 DEF StoreCount, Store
    <3>2. queries_blocked = Len(counted) - since + 1
      BY <1>0, <3>1 DEF StoresOK
    <3>3. Len(counted') = Len(counted) + 1
      BY <1>0, <2>5 DEF StoreCount
    <3>4. queries_blocked' = Len(counted') - since' + 0
      BY <1>0, <3>1, <3>2, <3>3
    <3>5. pc' # "record" /\ "count" \notin todo' /\ "reset" \notin todo'
      BY <3>1
    <3> QED
      BY <3>1, <3>4, <3>5 DEF StoresOK, Bucket
  <2>6. CASE TakeLog \/ AppendLog \/ SkipLog
    BY <1>0, <2>6 DEF TakeLog, AppendLog, SkipLog, LeaveLog, historyVars, bucketVars,
                      StoresOK, Bucket
  <2> QED
    BY <1>1, <2>1, <2>2, <2>3, <2>4, <2>5, <2>6 DEF DnsTask
<1>2. CASE WebTask \/ AdvanceHour \/ UNCHANGED vars
  <2>1. UNCHANGED <<counted, since, queries_blocked, s_blocked_hour_id, hour_id, todo, pc>>
    BY <1>2 DEF WebTask, AdvanceHour, vars, dnsVars, historyVars, bucketVars
  <2> QED
    BY <2>1 DEF StoresOK, Bucket
<1>3. CASE Restart
  BY <1>0, <1>3 DEF Restart, StoresOK
<1> QED
  BY <1>1, <1>2, <1>3 DEF Next

-----------------------------------------------------------------------------
(* The sum has gone past a bucket, of which it took x.                        *)
LEMMA SumVisits ==
  ASSUME HistoryTypeOK, BucketsOK, SumOK, NEW x \in Nat,
         wpc \in Summing, i \in Buckets,
         x <= Cardinality(Likely(InBucket(i))),
         Cardinality(Prior(Sure(InBucket(i)))) <= x,
         NextBucket, total' = total + x,
         UNCHANGED <<counted, since, s_blocked_hour_id, hour_id, todo, turned,
                     current_hour, before>>
  PROVE  SumOK'
<1> PICK n : n = i
  OBVIOUS
<1>0. /\ n \in Buckets /\ n + 1 \in Nat /\ i' = n + 1 /\ total \in Nat /\ Len(counted) \in Nat
      /\ wpc' = IF i' = HistoryHours THEN "done" ELSE "test"
  BY HistoryTypes DEF NextBucket, Buckets
<1> PICK m : m = n + 1
  OBVIOUS
<1>1. /\ Below(m)' = Below(n) \cup InBucket(n) /\ Below(n) \cap InBucket(n) = {}
      /\ Below(n) \in SUBSET (1 .. Len(counted)) /\ InBucket(n) \in SUBSET (1 .. Len(counted))
      /\ IsFiniteSet(Below(n)) /\ IsFiniteSet(InBucket(n))
  BY <1>0, BelowNext, SameBlocks, LiveBlocks, Countable
<1>2. SumBounds /\ \A k : (Recent(k)' <=> Recent(k)) /\ (Turned(k)' <=> Turned(k))
  BY DEF SumOK, Recent, Turned, Bucket
<1>3. total + x <= Cardinality(Likely(Below(m))')
  <2> DEFINE S == Likely(Below(n))
  <2> DEFINE T == Likely(InBucket(n))
  <2>1. /\ Likely(Below(m))' = S \cup T /\ S \cap T = {}
        /\ S \in SUBSET Below(n) /\ T \in SUBSET InBucket(n)
    BY <1>1, <1>2 DEF Likely
  <2>2. total <= Cardinality(S) /\ x <= Cardinality(T)
    BY <1>2 DEF SumBounds
  <2> HIDE DEF S, T
  <2>a. IsFiniteSet(S) /\ IsFiniteSet(T)
    BY <1>1, <2>1, FS_Subset
  <2>3. /\ Cardinality(S \cup T) = Cardinality(S) + Cardinality(T)
        /\ Cardinality(S) \in Nat /\ Cardinality(T) \in Nat
    BY <2>1, <2>a, Together
  <2>4. total + x <= Cardinality(S \cup T)
    BY <1>0, <2>2, <2>3
  <2> QED
    BY <2>1, <2>4
<1>4. Cardinality(Prior(Sure(Below(m)))') <= total + x
  <2> DEFINE S == Prior(Sure(Below(n)))
  <2> DEFINE T == Prior(Sure(InBucket(n)))
  <2>1. /\ Prior(Sure(Below(m)))' = S \cup T /\ S \cap T = {}
        /\ S \in SUBSET Below(n) /\ T \in SUBSET InBucket(n)
    BY <1>1, <1>2 DEF Prior, Sure
  <2>2. Cardinality(S) <= total /\ Cardinality(T) <= x
    BY <1>2 DEF SumBounds
  <2> HIDE DEF S, T
  <2>a. IsFiniteSet(S) /\ IsFiniteSet(T)
    BY <1>1, <2>1, FS_Subset
  <2>3. /\ Cardinality(S \cup T) = Cardinality(S) + Cardinality(T)
        /\ Cardinality(S) \in Nat /\ Cardinality(T) \in Nat
    BY <2>1, <2>a, Together
  <2>4. Cardinality(S \cup T) <= total + x
    BY <1>0, <2>2, <2>3
  <2> QED
    BY <2>1, <2>4
<1>5. /\ Taking' => Bucket(hour_id)' \in turned'
      /\ \A b \in Buckets : Steady(b)' => s_blocked_hour_id'[b] <= current_hour'
  BY <1>2 DEF SumBounds, Steady, Taking, Bucket
<1>6. wpc' \in Summing /\ (wpc' = "done" => i' = HistoryHours) /\ wpc' # "test early"
      /\ wpc' # "add" /\ i' = m /\ total' = total + x
  BY <1>0 DEF Summing
<1>7. SumBounds'
  BY <1>3, <1>4, <1>5, <1>6 DEF SumBounds
<1> QED
  BY <1>6, <1>7 DEF SumOK

(* What is read of a bucket: its count, which for one that has not turned     *)
(* are the blocks of its hour.                                                 *)
LEMMA BucketCount ==
  ASSUME HistoryTypeOK, BucketsOK, SumBounds, NEW b \in Buckets
  PROVE  /\ s_blocked_hour_count[b] <= Cardinality(InBucket(b))
         /\ Steady(b) =>
              LET S == At(b, s_blocked_hour_id[b]) IN
              /\ s_blocked_hour_count[b] <= Cardinality(S)
              /\ Cardinality(Prior(S)) <= s_blocked_hour_count[b]
<1>1. BucketOK(b)
  BY DEF BucketsOK
<1>2. ASSUME Steady(b)
      PROVE  LET S == At(b, s_blocked_hour_id[b]) IN
             /\ s_blocked_hour_count[b] <= Cardinality(S)
             /\ Cardinality(Prior(S)) <= s_blocked_hour_count[b]
  <2> DEFINE S == At(b, s_blocked_hour_id[b])
  <2>1. ~Mine(b) /\ HourOf(b) = s_blocked_hour_id[b]
    BY <1>2 DEF SumBounds, Steady, Mine, HourOf
  <2>2. s_blocked_hour_count[b] = Cardinality(S)
    BY <1>1, <2>1 DEF BucketOK
  <2>3. S \in SUBSET (1 .. Len(counted)) /\ Prior(S) \in SUBSET S /\ Len(counted) \in Nat
    BY LiveBlocks
  <2> HIDE DEF S
  <2>4. /\ Cardinality(Prior(S)) <= Cardinality(S)
        /\ Cardinality(S) \in Nat
    BY <2>3, Fewer
  <2>5. /\ s_blocked_hour_count[b] <= Cardinality(S)
        /\ Cardinality(Prior(S)) <= s_blocked_hour_count[b]
    BY <2>2, <2>4
  <2> QED
    BY <2>5 DEF S
<1> QED
  BY <1>1, <1>2 DEF BucketOK

(* What is added for a bucket is between what of it is sure and was there,    *)
(* and what of it is likely: its count x, as it was read, when its identifier *)
(* is in the window, and nothing otherwise.                                     *)
LEMMA CountAdded ==
  ASSUME HistoryTypeOK, BucketsOK, SumBounds, NEW b \in Buckets, NEW x \in Nat,
         x <= Cardinality(InBucket(b)),
         Steady(b) =>
           LET S == At(b, s_blocked_hour_id[b]) IN
           /\ InWindow(s_blocked_hour_id[b])
           /\ x <= Cardinality(S) /\ Cardinality(Prior(S)) <= x
  PROVE  /\ x <= Cardinality(Likely(InBucket(b)))
         /\ Cardinality(Prior(Sure(InBucket(b)))) <= x
<1>1. CASE Steady(b)
  BY <1>1, ShareOfBucket
<1>2. CASE ~Steady(b)
  <2>1. Sure(InBucket(b)) = {} /\ Likely(InBucket(b)) = InBucket(b)
    BY <1>2, ShareOfBucket
  <2>2. Prior({}) = {} /\ Cardinality({}) = 0
    BY FS_EmptySet DEF Prior
  <2> QED
    BY <2>1, <2>2
<1> QED
  BY <1>1, <1>2

LEMMA NothingAdded ==
  ASSUME HistoryTypeOK, BucketsOK, SumBounds, NEW b \in Buckets,
         ~InWindow(s_blocked_hour_id[b])
  PROVE  /\ 0 <= Cardinality(Likely(InBucket(b)))
         /\ Cardinality(Prior(Sure(InBucket(b)))) <= 0
<1>1. Sure(InBucket(b)) = {}
  BY ShareOfBucket
<1>2. Prior({}) = {} /\ Cardinality({}) = 0
  BY FS_EmptySet DEF Prior
<1>3. Likely(InBucket(b)) \in SUBSET (1 .. Len(counted)) /\ Len(counted) \in Nat
  BY LiveBlocks
<1>4. Cardinality(Likely(InBucket(b))) \in Nat
  BY <1>3, Countable
<1> QED
  BY <1>1, <1>2, <1>4

(* When no sum is running.                                                     *)
LEMMA SumAtRest ==
  ASSUME i' = 0, total' = 0, wpc' \notin Summing
  PROVE  SumOK'
BY DEF SumOK, Summing

LEMMA SumUnderDns ==
  ASSUME HistoryInv, DnsTask
  PROVE  SumOK'
<1> USE DEF HistoryInv
<1>1. UNCHANGED <<since, wpc, i, early, total, current_hour, before>>
  BY DEF DnsTask, webVars, sumVars
<1>2. counted' = counted \/ counted' = Append(counted, hour_id)
  BY DEF DnsTask, NoteQuery, RecordBlock, StoreId, StoreReset, StoreCount, TakeLog,
         AppendLog, SkipLog, LeaveLog, historyVars
<1>3. ASSUME wpc \in Summing
      PROVE  /\ turned \subseteq turned'
             /\ Taking' => Bucket(hour_id)' \in turned'
             /\ \A b \in Buckets : b \notin turned' =>
                   s_blocked_hour_id'[b] = s_blocked_hour_id[b]
  <2>0. /\ Taking => Bucket(hour_id) \in turned
        /\ s_blocked_hour_id \in [Buckets -> Hours]
    BY <1>3 DEF SumOK, SumBounds, HistoryTypeOK
  <2>1. CASE RecordBlock
    <3>1. /\ hour_id' = hour /\ UNCHANGED s_blocked_hour_id
          /\ todo' \cap {"id", "reset"} # {} <=> "id" \in todo'
          /\ turned' = turned \cup IF wpc \in Summing /\ "id" \in todo' THEN {Bucket(hour)} ELSE {}
      BY <2>1 DEF RecordBlock, historyVars
    <3>2. Bucket(hour_id)' = Bucket(hour)
      BY <3>1 DEF Bucket
    <3> QED
      BY <1>3, <3>1, <3>2 DEF Taking
  <2>2. CASE StoreId
    <3>1. /\ UNCHANGED <<turned, hour_id>> /\ Taking
          /\ s_blocked_hour_id' = [s_blocked_hour_id EXCEPT ![Bucket(hour_id)] = hour_id]
      BY <2>2 DEF StoreId, Store, Taking
    <3>2. Bucket(hour_id)' = Bucket(hour_id)
      BY <3>1 DEF Bucket
    <3> QED
      BY <2>0, <3>1, <3>2
  <2>3. CASE StoreReset \/ StoreCount
    <3>1. /\ UNCHANGED <<turned, hour_id, s_blocked_hour_id>> /\ todo' \subseteq todo
      BY <2>3 DEF StoreReset, StoreCount, Store
    <3>2. Bucket(hour_id)' = Bucket(hour_id)
      BY <3>1 DEF Bucket
    <3> QED
      BY <2>0, <3>1, <3>2 DEF Taking
  <2>4. CASE (\E e \in Entries : NoteQuery(e)) \/ TakeLog \/ AppendLog \/ SkipLog
    <3>1. UNCHANGED <<turned, todo, hour_id, s_blocked_hour_id>>
      BY <2>4 DEF NoteQuery, TakeLog, AppendLog, SkipLog, LeaveLog, historyVars, bucketVars
    <3>2. Bucket(hour_id)' = Bucket(hour_id)
      BY <3>1 DEF Bucket
    <3> QED
      BY <2>0, <3>1, <3>2 DEF Taking
  <2> QED
    BY <2>1, <2>2, <2>3, <2>4 DEF DnsTask
<1> QED
  BY <1>1, <1>2, <1>3, SumUnderSteps

LEMMA SumUnderWeb ==
  ASSUME HistoryInv, WebTask
  PROVE  SumOK'
<1> USE DEF HistoryInv
<1>1. UNCHANGED <<counted, since, s_blocked_hour_id, s_blocked_hour_count, hour_id, todo>>
  BY DEF WebTask, dnsVars, historyVars, bucketVars
<1>2. CASE RequestLog \/ CopyEntry \/ ReturnLog \/ LogBusy \/ ReturnStats
  <2>1. wpc' \notin Summing /\ i' = 0 /\ total' = 0
    BY <1>2 DEF RequestLog, CopyEntry, ReturnLog, LogBusy, ReturnStats, SumOK, Summing, sumVars
  <2> QED
    BY <2>1, SumAtRest
<1>3. CASE RequestStats
  <2>1. /\ i' = 0 /\ total' = 0 /\ wpc' = "test" /\ current_hour' = hour
        /\ turned' = IF Taking THEN {Bucket(hour_id)} ELSE {}
    BY <1>3 DEF RequestStats, SumOK, Summing, Taking
  <2>2. Below(0) = {}
    BY LiveBlocks DEF Below, Buckets
  <2>3. Below(0)' = {}
    BY <1>1, <2>2, SameBlocks
  <2>4. Likely(Below(0))' = {} /\ Prior(Sure(Below(0)))' = {}
    BY <2>3 DEF Likely, Sure, Prior
  <2>5. 0 <= Cardinality(Likely(Below(0))') /\ Cardinality(Prior(Sure(Below(0)))') <= 0
    BY <2>4, FS_EmptySet
  <2>6. ASSUME NEW b \in Buckets, Steady(b)'
        PROVE  s_blocked_hour_id'[b] <= current_hour'
    <3>1. ~Mine(b)
      BY <2>1, <2>6 DEF Mine, Steady
    <3>2. s_blocked_hour_id[b] <= hour
      BY <3>1 DEF BucketsOK, BucketOK, HourOf
    <3> QED
      BY <1>1, <2>1, <3>2
  <2>7. Taking' => Bucket(hour_id)' \in turned'
    BY <1>1, <2>1 DEF Taking, Bucket
  <2>8. SumBounds'
    BY <2>1, <2>5, <2>6, <2>7 DEF SumBounds
  <2> QED
    BY <2>1, <2>8 DEF SumOK, Summing
<1>4. CASE TestBucket \/ AddBucket \/ ReadCountEarly \/ TestBucketLate
  <2> PICK n : n = i
    OBVIOUS
  <2>1. /\ n \in Buckets /\ wpc \in Summing /\ UNCHANGED <<current_hour, before, turned>>
        /\ total \in Nat /\ early \in Nat /\ s_blocked_hour_count[n] \in Nat
    <3>1. n \in Buckets /\ wpc \in Summing
      BY <1>4 DEF TestBucket, AddBucket, ReadCountEarly, TestBucketLate, HistoryTypeOK, Summing
    <3>2. UNCHANGED <<current_hour, before, turned>>
      BY <1>4 DEF TestBucket, AddBucket, ReadCountEarly, TestBucketLate, SumFrame
    <3> QED
      BY <3>1, <3>2, HistoryTypes
  <2>2. SumBounds
    BY <2>1 DEF SumOK
  <2>3. ASSUME UNCHANGED <<i, total>>
        PROVE  /\ total' <= Cardinality(Likely(Below(n))')
               /\ Cardinality(Prior(Sure(Below(n)))') <= total'
               /\ Taking' => Bucket(hour_id)' \in turned'
               /\ \A b \in Buckets : Steady(b)' => s_blocked_hour_id'[b] <= current_hour'
    <3>1. Below(n)' = Below(n) /\ \A k : (Recent(k)' <=> Recent(k)) /\ (Turned(k)' <=> Turned(k))
      BY <1>1, <2>1, SameBlocks DEF Recent, Turned, Bucket
    <3>2. Likely(Below(n))' = Likely(Below(n)) /\ Prior(Sure(Below(n)))' = Prior(Sure(Below(n)))
      BY <2>1, <3>1 DEF Likely, Sure, Prior
    <3>3. /\ total <= Cardinality(Likely(Below(n)))
          /\ Cardinality(Prior(Sure(Below(n)))) <= total
      BY <2>2 DEF SumBounds
    <3>4. /\ Taking' => Bucket(hour_id)' \in turned'
          /\ \A b \in Buckets : Steady(b)' => s_blocked_hour_id'[b] <= current_hour'
      BY <1>1, <2>1, <2>2 DEF SumBounds, Taking, Bucket, Steady
    <3> QED
      BY <2>3, <3>2, <3>3, <3>4
  <2>4. ASSUME wpc' = "add", UNCHANGED <<i, total>>, InWindow(s_blocked_hour_id[n])
        PROVE  SumOK'
    <3>1. InWindow(s_blocked_hour_id[i])'
      BY <1>1, <2>1, <2>4 DEF InWindow
    <3>2. SumBounds'
      BY <2>3, <2>4, <3>1 DEF SumBounds
    <3> QED
      BY <2>4, <3>2 DEF SumOK, Summing
  <2>5. ASSUME ~InWindow(s_blocked_hour_id[n]), NextBucket, UNCHANGED total
        PROVE  SumOK'
    <3>1. /\ 0 <= Cardinality(Likely(InBucket(n)))
          /\ Cardinality(Prior(Sure(InBucket(n)))) <= 0
      BY <2>1, <2>2, <2>5, NothingAdded
    <3>2. total' = total + 0
      BY <2>1, <2>5
    <3> QED
      BY <1>1, <2>1, <2>5, <3>1, <3>2, SumVisits
  <2>6. CASE TestBucket
    BY <2>4, <2>5, <2>6 DEF TestBucket
  <2>7. CASE AddBucket
    <3>1. Steady(n) => InWindow(s_blocked_hour_id[n])
      BY <2>2, <2>7 DEF AddBucket, SumBounds
    <3>2. NextBucket /\ total' = total + s_blocked_hour_count[n]
      BY <2>7 DEF AddBucket
    <3>3. /\ s_blocked_hour_count[n] <= Cardinality(Likely(InBucket(n)))
          /\ Cardinality(Prior(Sure(InBucket(n)))) <= s_blocked_hour_count[n]
      BY <2>1, <2>2, <3>1, BucketCount, CountAdded
    <3> QED
      BY <1>1, <2>1, <3>2, <3>3, SumVisits
  <2>8. CASE ReadCountEarly
    <3>1. /\ early' = s_blocked_hour_count[n] /\ wpc' = "test early"
          /\ UNCHANGED <<i, total>>
      BY <2>8 DEF ReadCountEarly
    <3>2. early' <= Cardinality(InBucket(n)')
      BY <1>1, <2>1, <2>2, <3>1, SameBlocks, BucketCount
    <3>3. ASSUME Steady(n)' PROVE SteadyRead'
      <4> PICK id : id = s_blocked_hour_id[n]
        OBVIOUS
      <4>1. Prior(At(n, id))' = Prior(At(n, id)) /\ At(n, id)' = At(n, id)
        BY <1>1, <2>1, SameBlocks DEF Prior
      <4>2. Steady(n)
        BY <2>1, <3>3 DEF Steady
      <4>3. /\ early' <= Cardinality(At(n, id)')
            /\ Cardinality(Prior(At(n, id))') <= early'
        BY <2>1, <2>2, <3>1, <4>1, <4>2, BucketCount
      <4>4. s_blocked_hour_id'[n] = id /\ i' = n
        BY <1>1, <3>1
      <4> QED
        BY <4>3, <4>4 DEF SteadyRead
    <3>4. SumBounds'
      BY <2>3, <3>1, <3>2, <3>3 DEF SumBounds
    <3> QED
      BY <3>1, <3>4 DEF SumOK, Summing
  <2>9. CASE TestBucketLate
    <3>1. CASE InWindow(s_blocked_hour_id[n])
      <4>1. NextBucket /\ total' = total + early
        BY <2>9, <3>1 DEF TestBucketLate
      <4>2. /\ early <= Cardinality(InBucket(n))
            /\ Steady(n) => SteadyRead
        BY <2>2, <2>9 DEF TestBucketLate, SumBounds
      <4>3. /\ early <= Cardinality(Likely(InBucket(n)))
            /\ Cardinality(Prior(Sure(InBucket(n)))) <= early
        BY <2>1, <2>2, <3>1, <4>2, CountAdded DEF SteadyRead
      <4> QED
        BY <1>1, <2>1, <4>1, <4>3, SumVisits
    <3>2. CASE ~InWindow(s_blocked_hour_id[n])
      BY <2>5, <2>9, <3>2 DEF TestBucketLate
    <3> QED
      BY <3>1, <3>2
  <2> QED
    BY <1>4, <2>6, <2>7, <2>8, <2>9
<1> QED
  BY <1>2, <1>3, <1>4 DEF WebTask

LEMMA SumNext ==
  ASSUME HistoryInv, [Next]_vars
  PROVE  SumOK'
<1> USE DEF HistoryInv
<1>1. CASE AdvanceHour \/ UNCHANGED vars
  <2>1. UNCHANGED <<counted, since, wpc, i, early, total, current_hour, before, turned,
                    hour_id, todo, s_blocked_hour_id>>
    BY <1>1 DEF AdvanceHour, vars, dnsVars, webVars, historyVars, bucketVars, sumVars
  <2>2. wpc \in Summing => (Taking' => Bucket(hour_id)' \in turned')
    BY <2>1 DEF SumOK, SumBounds, Taking, Bucket
  <2> QED
    BY <2>1, <2>2, SumUnderSteps
<1>2. CASE Restart
  <2>1. i' = 0 /\ total' = 0 /\ wpc' = "idle"
    BY <1>2 DEF Restart
  <2> QED
    BY <2>1, SumAtRest DEF Summing
<1> QED
  BY <1>1, <1>2, SumUnderDns, SumUnderWeb DEF Next

-----------------------------------------------------------------------------
LEMMA InitHistoryInv == Init => HistoryInv
<1> SUFFICES ASSUME Init PROVE HistoryInv
  OBVIOUS
<1>1. MaxBlocks \in Nat /\ 0 \in Hours
  <2>1. MaxBlocks \in Nat /\ MaxHour \in Nat
    BY {MaxBlocks, MaxHour} \subseteq Nat
  <2> QED
    BY <2>1 DEF Hours
<1>2. counted = <<>> /\ Len(counted) = 0 /\ since = 0 /\ before = 0 /\ Live = {}
  BY DEF Init, Live
<1>3. HistoryTypeOK
  <2>1. {hour, hour_id, current_hour} \subseteq Hours /\ {early, total} \subseteq Nat
        /\ {since, before} \subseteq 0 .. Len(counted) /\ counted \in Seq(Hours)
    BY <1>1, <1>2 DEF Init
  <2>2. wpc \in {"idle", "copy"} \cup Summing
        /\ i \in IF wpc \in {"test", "test early", "add"} THEN Buckets ELSE {0, HistoryHours}
    BY DEF Init
  <2>3. s_blocked_hour_id \in [Buckets -> Hours] /\ s_blocked_hour_count \in [Buckets -> Nat]
    BY <1>1 DEF Init
  <2>4. queries_blocked \in 0 .. MaxBlocks /\ todo \subseteq {"id", "reset", "count"}
    BY <1>1 DEF Init
  <2>5. turned \subseteq Buckets
    BY DEF Init
  <2> QED
    BY <2>1, <2>2, <2>3, <2>4, <2>5 DEF HistoryTypeOK
<1>4. BucketsOK
  <2> SUFFICES ASSUME NEW b \in Buckets PROVE BucketOK(b)
    BY DEF BucketsOK
  <2>1. InBucket(b) = {} /\ \A h : At(b, h) = {}
    BY <1>2 DEF InBucket, At
  <2>2. HourOf(b) = 0 /\ s_blocked_hour_count[b] = 0 /\ ~Mine(b) /\ hour = 0
    BY DEF Init, HourOf, Mine, Taking
  <2> QED
    BY <2>1, <2>2, FS_EmptySet DEF BucketOK
<1>5. StoresOK
  BY <1>2 DEF Init, StoresOK
<1>6. SumOK
  BY DEF Init, SumOK, Summing
<1> QED
  BY <1>3, <1>4, <1>5, <1>6 DEF HistoryInv

LEMMA HistoryInvariant == Spec => []HistoryInv
<1>1. HistoryInv /\ [Next]_vars => HistoryInv'
  <2> SUFFICES ASSUME HistoryInv, [Next]_vars PROVE HistoryInv'
    OBVIOUS
  <2>1. HistoryTypeOK'
    BY TypesNext
  <2>2. BucketsOK'
    BY BucketsNext
  <2>3. StoresOK'
    BY StoresNext
  <2>4. SumOK'
    BY SumNext
  <2> QED
    BY <2>1, <2>2, <2>3, <2>4 DEF HistoryInv
<1> QED
  BY <1>1, InitHistoryInv, PTL DEF Spec

(* The sum at its end is what the property says of it.                        *)
LEMMA ExactAtEnd ==
  ASSUME HistoryInv
  PROVE  HistoryExact
<1> USE DEF HistoryInv
<1> SUFFICES ASSUME wpc = "done"
             PROVE  /\ total <= queries_blocked
                    /\ Cardinality({k \in since + 1 .. before : Recent(k) /\ ~Turned(k)}) <= total
                    /\ total <= Cardinality({k \in since + 1 .. Len(counted) : Recent(k) \/ Turned(k)})
  BY DEF HistoryExact
<1>0. /\ Len(counted) \in Nat /\ since \in 0 .. Len(counted) /\ before \in 0 .. Len(counted)
      /\ total \in Nat /\ queries_blocked \in Nat
  BY HistoryTypes
<1>1. /\ total <= Cardinality(Likely(Live))
      /\ Cardinality(Prior(Sure(Live))) <= total
  <2>1. Below(i) = Live /\ SumBounds
    BY BelowAll DEF SumOK, Summing
  <2> QED
    BY <2>1 DEF SumBounds
<1>2. total <= queries_blocked
  <2>1. Cardinality(Live) = Len(counted) - since
    <3> PICK a : a = since + 1
      OBVIOUS
    <3>1. a \in Int /\ Len(counted) \in Int
      BY <1>0
    <3>2. Cardinality(a .. Len(counted)) = IF a > Len(counted) THEN 0 ELSE Len(counted) - a + 1
      BY <3>1, FS_Interval
    <3> QED
      BY <1>0, <3>2 DEF Live
  <2>2. total <= Cardinality(Live)
    <3>1. /\ Cardinality(Likely(Live)) <= Cardinality(Live)
          /\ Cardinality(Likely(Live)) \in Nat /\ Cardinality(Live) \in Nat
      BY LiveBlocks, Fewer
    <3> QED
      BY <1>0, <1>1, <3>1
  <2>3. queries_blocked \in {Len(counted) - since, Len(counted) - since + 1}
    BY <1>0 DEF StoresOK
  <2> QED
    BY <1>0, <2>1, <2>2, <2>3
<1>3. Likely(Live) = {k \in since + 1 .. Len(counted) : Recent(k) \/ Turned(k)}
  BY DEF Likely, Live
<1>4. Prior(Sure(Live)) = {k \in since + 1 .. before : Recent(k) /\ ~Turned(k)}
  BY <1>0 DEF Prior, Sure, Live
<1> QED
  BY <1>1, <1>2, <1>3, <1>4

(* Types, indices and the holder of the mutex, of both tasks.                 *)
THEOREM TypeCorrect == Spec => []TypeOK
<1>1. Spec => []LogInv
  BY InitLogInv, NextInv, PTL DEF Spec
<1>2. LogInv /\ HistoryInv => TypeOK
  BY DEF LogInv, HistoryInv, TypeOK
<1> QED
  BY <1>1, <1>2, HistoryInvariant, PTL

(* What blocked_last_24h returns of the blocks since the start, without a     *)
(* mutex and with the compiler's choice of the order of the stores and of the *)
(* reads: never more than were ever blocked, and exact but for what is        *)
(* blocked while it sums; a bucket taken over meanwhile may be missed or      *)
(* counted for the hours it had, and no other bucket is touched by that.      *)
THEOREM HistoryIsExact == Spec => []HistoryExact
BY HistoryInvariant, ExactAtEnd, PTL
=============================================================================
