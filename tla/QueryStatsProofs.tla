-------------------------- MODULE QueryStatsProofs --------------------------
(***************************************************************************)
(* The query log of QueryStats implements RecentQueries, for every size of *)
(* the ring and of a page: what a page shows is the newest queries, in     *)
(* order, although the indices wrap and both tasks run.                    *)
(***************************************************************************)
EXTENDS QueryStats, TLAPS

USE StatsAssumption

(* The ring holds the last queries logged, the newest just behind the index *)
(* of the next; a page being copied agrees with them as far as it has got,  *)
(* and the mutex keeps them as they are until it is complete.               *)
RingOK ==
  /\ s_query_log_count = IF Len(logged) < LogSize THEN Len(logged) ELSE LogSize
  /\ \A k \in 0 .. s_query_log_count - 1 :
       s_query_log[Back(k)] = logged[Len(logged) - k]

CopyOK ==
  /\ wpc = "copy" => count = Min({s_query_log_count, MaxEntries})
  /\ wpc # "copy" => out = <<>> /\ count = 0
  /\ \A k \in 1 .. Len(out) : out[k] = logged[Len(logged) + 1 - k]

LogInv == LogTypeOK /\ RingOK /\ CopyOK

-----------------------------------------------------------------------------
(* The least of two numbers, as the code's conditional and as the abstract  *)
(* log's choice.                                                            *)
LEMMA MinOfTwo ==
  ASSUME NEW a \in Nat, NEW b \in Nat
  PROVE  Min({a, b}) = IF a <= b THEN a ELSE b
BY DEF Min

LEMMA AtMostOfThree ==
  ASSUME NEW a \in Nat, NEW b \in Nat, NEW c \in Nat
  PROVE  QueryLog!AtMost(a, {b, c}) = IF a <= b THEN IF a <= c THEN a ELSE c
                                               ELSE IF b <= c THEN b ELSE c
BY DEF QueryLog!AtMost

(* The walk back from the next index visits the cells in the order in which *)
(* they were filled: the cell just filled comes first, the others move one  *)
(* step away and are not touched.                                           *)
LEMMA WalkBack ==
  ASSUME NEW n \in Cells
  PROVE  /\ Following(n) \in Cells
         /\ (Following(n) + LogSize - 1) % LogSize = n
         /\ \A k \in 1 .. LogSize - 1 :
              /\ (Following(n) + LogSize - 1 - k) % LogSize
                   = (n + LogSize - 1 - (k - 1)) % LogSize
              /\ (Following(n) + LogSize - 1 - k) % LogSize \in Cells \ {n}
<1>1. Following(n) = IF n = LogSize - 1 THEN 0 ELSE n + 1
  BY Z3 DEF Following, Cells
<1>2. Following(n) \in Cells
  BY <1>1 DEF Cells
<1>3. (Following(n) + LogSize - 1) % LogSize = n
  BY <1>1, Z3 DEF Cells
<1>4. ASSUME NEW k \in 1 .. LogSize - 1
      PROVE  /\ (Following(n) + LogSize - 1 - k) % LogSize
                  = (n + LogSize - 1 - (k - 1)) % LogSize
             /\ (Following(n) + LogSize - 1 - k) % LogSize \in Cells \ {n}
  <2> DEFINE w == IF n >= k THEN n - k ELSE n + LogSize - k
  <2>1. (Following(n) + LogSize - 1 - k) % LogSize = w
    BY <1>1, Z3 DEF Cells
  <2>2. (n + LogSize - 1 - (k - 1)) % LogSize = w
    BY Z3 DEF Cells
  <2>3. w \in Cells \ {n}
    BY DEF Cells
  <2> QED
    BY <2>1, <2>2, <2>3
<1> QED
  BY <1>2, <1>3, <1>4

LEMMA BackInCells ==
  ASSUME s_query_log_next \in Cells, NEW k \in 0 .. LogSize - 1
  PROVE  Back(k) \in Cells
BY Z3 DEF Back, Cells

-----------------------------------------------------------------------------
LEMMA InitLogInv == Init => LogInv
<1> SUFFICES ASSUME Init PROVE LogInv
  OBVIOUS
<1>1. LogTypeOK
  BY DEF Init, LogTypeOK, Cells
<1>2. RingOK
  BY DEF Init, RingOK
<1>3. CopyOK
  BY DEF Init, CopyOK
<1> QED
  BY <1>1, <1>2, <1>3 DEF LogInv

(* Logging: the new entry is where the next walk begins, and what was there *)
(* is beyond its end.                                                        *)
LEMMA AppendInv ==
  ASSUME LogInv, AppendLog, UNCHANGED webVars
  PROVE  LogInv'
<1> USE DEF LogInv, LogTypeOK, RingOK
<1>1. /\ s_query_log_next' = Following(s_query_log_next)
      /\ s_query_log' = [s_query_log EXCEPT ![s_query_log_next] = entry]
      /\ logged' = Append(logged, entry)
      /\ entry \in Entries
  BY DEF AppendLog
<1>2. s_query_log_count' = IF Len(logged') < LogSize THEN Len(logged') ELSE LogSize
  <2>1. s_query_log_count + 1 \in Nat /\ LogSize \in Nat
    OBVIOUS
  <2>2. s_query_log_count' = IF s_query_log_count + 1 <= LogSize
                               THEN s_query_log_count + 1 ELSE LogSize
    BY <2>1, MinOfTwo DEF AppendLog
  <2>3. Len(logged') = Len(logged) + 1
    BY <1>1
  <2> QED
    BY <2>2, <2>3
<1>3. wpc # "copy"
  BY DEF AppendLog
<1>4. UNCHANGED <<wpc, out, count, page>>
  BY DEF webVars, copyVars
<1>5. LogTypeOK'
  <2>1. s_query_log' \in [Cells -> Entries \cup {Blank}]
    BY <1>1
  <2>2. s_query_log_next' \in Cells
    BY <1>1, WalkBack
  <2>3. s_query_log_count' \in 0 .. LogSize /\ s_query_log_count <= s_query_log_count'
    BY <1>1, <1>2
  <2>4. logged' \in Seq(Entries)
    BY <1>1
  <2> QED
    BY <2>1, <2>2, <2>3, <2>4, <1>3, <1>4 DEF AppendLog, LeaveLog
<1>6. ASSUME NEW k \in 0 .. s_query_log_count' - 1
      PROVE  s_query_log'[Back(k)'] = logged'[Len(logged') - k]
  <2>1. Back(k)' = (Following(s_query_log_next) + LogSize - 1 - k) % LogSize
    BY <1>1 DEF Back
  <2>2. CASE k = 0
    <3>1. Back(k)' = s_query_log_next
      BY <2>1, <2>2, WalkBack
    <3> QED
      BY <3>1, <2>2, <1>1
  <2>3. CASE k # 0
    <3>1. k \in 1 .. LogSize - 1 /\ k - 1 \in 0 .. s_query_log_count - 1
      BY <2>3, <1>1, <1>2
    <3>2. Back(k)' = Back(k - 1) /\ Back(k)' \in Cells \ {s_query_log_next}
      BY <2>1, <3>1, WalkBack DEF Back
    <3>3. s_query_log'[Back(k)'] = s_query_log[Back(k - 1)]
      BY <3>2, <1>1
    <3>4. s_query_log[Back(k - 1)] = logged[Len(logged) - (k - 1)]
      BY <3>1
    <3>5. logged'[Len(logged') - k] = logged[Len(logged) - (k - 1)]
      BY <3>1, <1>1, <1>2
    <3> QED
      BY <3>3, <3>4, <3>5
  <2> QED
    BY <2>2, <2>3
<1>7. CopyOK'
  BY <1>3, <1>4 DEF CopyOK
<1> QED
  BY <1>2, <1>5, <1>6, <1>7

(* Copying: the next entry of the page is the next one back in the ring.    *)
LEMMA CopyInv ==
  ASSUME LogInv, CopyEntry, UNCHANGED dnsVars
  PROVE  LogInv'
<1> USE DEF LogInv, LogTypeOK
<1> DEFINE l == Len(out)
<1>1. UNCHANGED <<s_query_log, s_query_log_next, s_query_log_count, logged, pc, entry,
                  s_query_log_mutex, wpc, count, page>>
  BY DEF CopyEntry, dnsVars, logVars
<1>2. l \in 0 .. s_query_log_count - 1 /\ s_query_log_count <= Len(logged)
  BY DEF CopyEntry, RingOK
<1>3. s_query_log[Back(l)] = logged[Len(logged) - l] /\ logged[Len(logged) - l] \in Entries
  BY <1>2 DEF RingOK
<1>4. out' = Append(out, logged[Len(logged) - l])
  BY <1>3 DEF CopyEntry
<1>5. LogTypeOK'
  BY <1>1, <1>3, <1>4 DEF CopyEntry
<1>6. RingOK'
  BY <1>1 DEF RingOK, Back
<1>7. CopyOK'
  BY <1>1, <1>3, <1>4 DEF CopyOK, CopyEntry
<1> QED
  BY <1>5, <1>6, <1>7

(* A page is returned when the whole of the count has been copied.          *)
LEMMA ReturnShows ==
  ASSUME LogInv, ReturnLog, UNCHANGED dnsVars
  PROVE  QueryLog!Show
<1> USE DEF LogInv, LogTypeOK
<1> DEFINE n == QueryLog!AtMost(Len(logged), {LogSize, MaxEntries})
<1>1. Len(out) = n
  <2> DEFINE L == Len(logged)
  <2>1. L \in Nat /\ LogSize \in Nat /\ MaxEntries \in Nat
    OBVIOUS
  <2>2. s_query_log_count = IF L <= LogSize THEN L ELSE LogSize
    BY <2>1 DEF RingOK
  <2>3. count = IF s_query_log_count <= MaxEntries THEN s_query_log_count ELSE MaxEntries
    BY <2>1, <2>2, MinOfTwo DEF ReturnLog, CopyOK
  <2>4. n = IF L <= LogSize THEN IF L <= MaxEntries THEN L ELSE MaxEntries
            ELSE IF LogSize <= MaxEntries THEN LogSize ELSE MaxEntries
    <3>1. n = QueryLog!AtMost(L, {LogSize, MaxEntries})
      OBVIOUS
    <3> HIDE DEF n, L, LogInv, LogTypeOK
    <3> QED
      BY <2>1, <3>1, AtMostOfThree
  <2> HIDE DEF n, L
  <2> QED
    BY <2>1, <2>2, <2>3, <2>4 DEF ReturnLog
<1>2. out = [k \in 1 .. n |-> logged[Len(logged) + 1 - k]]
  <2>1. out = [k \in 1 .. Len(out) |-> out[k]]
    OBVIOUS
  <2>2. \A k \in 1 .. Len(out) : out[k] = logged[Len(logged) + 1 - k]
    BY DEF CopyOK
  <2> HIDE DEF n
  <2> QED
    BY <1>1, <2>1, <2>2
<1>3. page' = QueryLog!Newest(n)
  BY <1>2 DEF ReturnLog, QueryLog!Newest
<1> QED
  BY <1>3 DEF QueryLog!Show, dnsVars, logVars

(* The steps that leave the ring, and a page being copied, as they are.     *)
LEMMA RingKept ==
  ASSUME LogInv, LogTypeOK', UNCHANGED logVars,
         wpc' = "copy" => /\ wpc = "copy" => UNCHANGED <<out, count>>
                          /\ wpc # "copy" => out' = <<>> /\ count' = Min({s_query_log_count, MaxEntries}),
         wpc' # "copy" => out' = <<>> /\ count' = 0
  PROVE  LogInv'
<1>1. RingOK'
  BY DEF LogInv, RingOK, logVars, Back
<1>2. CopyOK'
  BY DEF LogInv, CopyOK, logVars
<1> QED
  BY <1>1, <1>2 DEF LogInv

LEMMA DnsTaskInv ==
  ASSUME LogInv, DnsTask
  PROVE  LogInv' /\ (QueryLog!Log \/ UNCHANGED <<logged, page>>)
<1> UNCHANGED webVars
  BY DEF DnsTask
<1>0. UNCHANGED <<wpc, out, count, page>>
  BY DEF webVars, copyVars
<1>1. CASE AppendLog
  <2>1. QueryLog!Log
    BY <1>1, <1>0 DEF LogInv, LogTypeOK, AppendLog, QueryLog!Log
  <2> QED
    BY <1>1, <2>1, AppendInv
<1>2. CASE \/ \E e \in Entries : NoteQuery(e)
           \/ RecordBlock \/ StoreId \/ StoreReset \/ StoreCount \/ TakeLog \/ SkipLog
  <2>1. UNCHANGED logVars
    BY <1>2 DEF NoteQuery, RecordBlock, StoreId, StoreReset, StoreCount, Store,
                TakeLog, SkipLog
  <2>2. LogTypeOK'
    <3> USE <1>0, <2>1 DEF LogInv, LogTypeOK, logVars
    <3>1. CASE \E e \in Entries : NoteQuery(e)
      BY <3>1 DEF NoteQuery
    <3>2. CASE RecordBlock
      BY <3>2 DEF RecordBlock
    <3>3. CASE StoreId \/ StoreReset \/ StoreCount
      BY <3>3 DEF StoreId, StoreReset, StoreCount, Store
    <3>4. CASE TakeLog
      BY <3>4 DEF TakeLog
    <3>5. CASE SkipLog
      BY <3>5 DEF SkipLog, LeaveLog
    <3> QED
      BY <1>2, <3>1, <3>2, <3>3, <3>4, <3>5
  <2>3. LogInv'
    BY <2>1, <2>2, <1>0, RingKept DEF LogInv, CopyOK
  <2> QED
    BY <2>1, <2>3, <1>0 DEF logVars
<1> QED
  BY <1>1, <1>2 DEF DnsTask

LEMMA WebTaskInv ==
  ASSUME LogInv, WebTask
  PROVE  LogInv' /\ (QueryLog!Show \/ UNCHANGED <<logged, page>>)
<1> UNCHANGED dnsVars
  BY DEF WebTask
<1>0. UNCHANGED <<logVars, pc, entry>>
  BY DEF dnsVars
<1>a. UNCHANGED <<s_query_log, s_query_log_next, s_query_log_count, logged>>
  BY <1>0 DEF logVars
<1>1. CASE RequestLog
  <2>1. count' \in 0 .. s_query_log_count
    BY <1>1, MinOfTwo DEF RequestLog, LogInv, LogTypeOK
  <2>2. out = <<>>
    BY <1>1 DEF RequestLog, LogInv, CopyOK
  <2>3. LogTypeOK'
    BY <1>1, <2>1, <2>2, <1>0, <1>a DEF RequestLog, LogInv, LogTypeOK
  <2>4. LogInv'
    BY <1>1, <2>2, <2>3, <1>0, RingKept DEF RequestLog
  <2> QED
    BY <1>1, <2>4, <1>a DEF RequestLog
<1>2. CASE CopyEntry
  BY <1>2, <1>a, CopyInv DEF CopyEntry
<1>3. CASE ReturnLog
  <2>1. LogTypeOK'
    BY <1>3, <1>0, <1>a DEF ReturnLog, LogInv, LogTypeOK
  <2>2. LogInv'
    BY <1>3, <2>1, <1>0, RingKept DEF ReturnLog
  <2> QED
    BY <1>3, <2>2, ReturnShows
<1>4. CASE LogBusy
  <2>1. LogTypeOK'
    BY <1>4, <1>0, <1>a DEF LogBusy, LogInv, LogTypeOK
  <2>2. LogInv'
    BY <1>4, <2>1, <1>0, RingKept DEF LogBusy, LogInv, CopyOK
  <2>3. QueryLog!Show
    BY <1>4, <1>a DEF LogBusy, QueryLog!Show
  <2> QED
    BY <2>2, <2>3
<1>5. CASE RequestStats \/ TestBucket \/ AddBucket
           \/ ReadCountEarly \/ TestBucketLate \/ ReturnStats
  <2>1. /\ UNCHANGED <<s_query_log_mutex, out, count, page>>
        /\ wpc # "copy" /\ wpc' # "copy"
    BY <1>5 DEF RequestStats, TestBucket, AddBucket, ReadCountEarly, TestBucketLate,
                ReturnStats, NextBucket, SumFrame, copyVars
  <2>2. LogTypeOK'
    BY <2>1, <1>0, <1>a DEF LogInv, LogTypeOK
  <2>3. LogInv'
    BY <2>1, <2>2, <1>0, RingKept DEF LogInv, CopyOK
  <2> QED
    BY <2>1, <2>3, <1>a
<1> QED
  BY <1>1, <1>2, <1>3, <1>4, <1>5 DEF WebTask

LEMMA NextInv ==
  ASSUME LogInv, [Next]_vars
  PROVE  LogInv' /\ [QueryLog!Log \/ QueryLog!Show \/ QueryLog!Forget]_<<logged, page>>
<1>1. CASE DnsTask
  BY <1>1, DnsTaskInv
<1>2. CASE WebTask
  BY <1>2, WebTaskInv
<1>3. CASE AdvanceHour \/ UNCHANGED vars
  <2>1. UNCHANGED <<logVars, pc, entry, wpc, copyVars, s_query_log_mutex>>
    BY <1>3 DEF AdvanceHour, vars, dnsVars, webVars
  <2>2. UNCHANGED <<s_query_log, s_query_log_next, s_query_log_count, logged,
                    out, count, page>>
    BY <2>1 DEF logVars, copyVars
  <2>3. LogTypeOK'
    BY <2>1, <2>2 DEF LogInv, LogTypeOK
  <2>4. LogInv'
    BY <2>1, <2>2, <2>3, RingKept DEF LogInv, CopyOK
  <2> QED
    BY <2>2, <2>4
<1>4. CASE Restart
  <2>1. LogTypeOK'
    BY <1>4 DEF Restart, LogInv, LogTypeOK, Cells
  <2>2. RingOK' /\ CopyOK'
    BY <1>4 DEF Restart, RingOK, CopyOK
  <2>3. QueryLog!Forget
    BY <1>4 DEF Restart, QueryLog!Forget
  <2> QED
    BY <2>1, <2>2, <2>3 DEF LogInv
<1> QED
  BY <1>1, <1>2, <1>3, <1>4 DEF Next

-----------------------------------------------------------------------------
(* Every page the web server gets is a snapshot of the newest entries, for  *)
(* every size of log_query's ring and every max_entries.                    *)
THEOREM LogImplements == Spec => LogSpec
<1>1. Init => QueryLog!Init
  BY DEF Init, QueryLog!Init
<1>2. Spec => []LogInv
  BY InitLogInv, NextInv, PTL DEF Spec
<1> QED
  BY <1>1, <1>2, NextInv, PTL DEF Spec, LogSpec, QueryLog!Spec
=============================================================================
