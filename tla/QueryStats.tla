----------------------------- MODULE QueryStats -----------------------------
(***************************************************************************)
(* What dns_proxy.c records of each query and what the web page reads: the *)
(* ring of recent queries, shared under a mutex, and the blocked queries   *)
(* of the last hours in one bucket per hour, shared without one.           *)
(*                                                                         *)
(* The forwarding task writes, the HTTP server's task reads; the clock     *)
(* advances, by one hour or (when SNTP first sets it) by many; the device  *)
(* restarts.  The record a query leaves in the log is an element of        *)
(* Entries.  What each task leaves alone is said once for all its steps,   *)
(* in DnsTask and WebTask.                                                 *)
(***************************************************************************)
EXTENDS Integers, Sequences, FiniteSetsExt, Functions

CONSTANTS
  Entries,
  LogSize,        \* CONFIG_DNS_PROXY_QUERY_LOG_SIZE
  MaxEntries,     \* what a page asks for
  HistoryHours,   \* BLOCKED_HISTORY_HOURS
  MaxLogged,      \* bound: entries ever logged
  MaxBlocks,      \* bound: blocked queries ever counted
  MaxHour         \* bound: the last hour of the clock

Blank == "blank"

ASSUME StatsAssumption ==
  /\ Blank \notin Entries
  /\ LogSize \in Nat \ {0}
  /\ MaxEntries \in Nat
  /\ HistoryHours \in Nat \ {0}
  /\ {MaxLogged, MaxBlocks, MaxHour} \subseteq Nat

Cells   == 0 .. LogSize - 1
Buckets == 0 .. HistoryHours - 1
Hours   == 0 .. MaxHour

VARIABLES
  s_query_log, s_query_log_next, s_query_log_count,
  s_query_log_mutex,                      \* "free", or who holds it
  logged,                                 \* everything logged since the start (not in the code)
  s_blocked_hour_id, s_blocked_hour_count,
  queries_blocked,                        \* s_stats.queries_blocked
  counted,                                \* the hours of all blocks ever counted (not in the code)
  since,                                  \* how many of them before the start (not in the code)
  turned,                                 \* the buckets that changed hours during the sum (not in the code)
  hour,                                   \* time(NULL) / 3600
  \* the forwarding task
  pc, entry,                              \* the query being recorded
  hour_id, todo,                          \* the stores to its bucket still to be made
  \* the HTTP server's task
  wpc,
  out, count, page,                       \* dns_proxy_get_query_log, and the last page
  i, early, total, current_hour,          \* blocked_last_24h
  before                                  \* how many blocks were counted when it began (not in the code)

logVars     == <<s_query_log, s_query_log_next, s_query_log_count, logged>>
historyVars == <<s_blocked_hour_id, s_blocked_hour_count, queries_blocked, counted>>
bucketVars  == <<hour_id, todo>>
copyVars    == <<out, count, page>>
sumVars     == <<i, early, total, current_hour, before>>
dnsVars     == <<logVars, historyVars, pc, entry, bucketVars>>
webVars     == <<wpc, copyVars, sumVars>>
vars == <<dnsVars, webVars, s_query_log_mutex, since, turned, hour>>

Init ==
  /\ s_query_log = [c \in Cells |-> Blank]
  /\ s_query_log_next = 0 /\ s_query_log_count = 0
  /\ s_query_log_mutex = "free"
  /\ logged = <<>>
  /\ s_blocked_hour_id = [b \in Buckets |-> 0]
  /\ s_blocked_hour_count = [b \in Buckets |-> 0]
  /\ queries_blocked = 0
  /\ counted = <<>> /\ since = 0
  /\ turned = {}
  /\ hour = 0
  /\ pc = "idle" /\ entry = Blank
  /\ hour_id = 0 /\ todo = {}
  /\ wpc = "idle"
  /\ out = <<>> /\ count = 0 /\ page = <<>>
  /\ i = 0 /\ early = 0 /\ total = 0 /\ current_hour = 0 /\ before = 0

-----------------------------------------------------------------------------
(* The forwarding task. *)

(* A query that is forwarded or refused is only logged; a blocked one is    *)
(* counted twice first,                                                     *)
NoteQuery(e) ==
  /\ pc = "idle"
  /\ Len(logged) < MaxLogged
  /\ entry' = e
  /\ \/ pc' = "log" /\ UNCHANGED queries_blocked
     \/ /\ Len(counted) < MaxBlocks
        /\ queries_blocked' = queries_blocked + 1
        /\ pc' = "record"
  /\ UNCHANGED <<logVars, s_query_log_mutex, s_blocked_hour_id, s_blocked_hour_count,
                 counted, turned, bucketVars>>

(* ... the second time in the bucket of the hour, which is taken over when  *)
(* it holds another hour.                                                   *)
Bucket(h) == h % HistoryHours

Summing == {"test", "test early", "add", "done"}

RecordBlock ==
  /\ pc = "record"
  /\ hour_id' = hour
  /\ todo' = {"count"} \cup IF s_blocked_hour_id[Bucket(hour)] = hour
                              THEN {} ELSE {"id", "reset"}
  /\ turned' = turned \cup IF wpc \in Summing /\ "id" \in todo' THEN {Bucket(hour)} ELSE {}
  /\ pc' = "bucket"
  /\ UNCHANGED <<logVars, s_query_log_mutex, historyVars, entry>>

(* The stores are plain ones: the compiler may put the one to the identifier *)
(* anywhere among those to the counter.                                      *)
Store(s) ==
  /\ pc = "bucket"
  /\ s \in todo
  /\ todo' = todo \ {s}
  /\ pc' = IF todo' = {} THEN "log" ELSE "bucket"
  /\ UNCHANGED <<logVars, s_query_log_mutex, queries_blocked, turned, entry, hour_id>>

StoreId ==
  /\ Store("id")
  /\ s_blocked_hour_id' = [s_blocked_hour_id EXCEPT ![Bucket(hour_id)] = hour_id]
  /\ UNCHANGED <<s_blocked_hour_count, counted>>

StoreReset ==
  /\ Store("reset")
  /\ s_blocked_hour_count' = [s_blocked_hour_count EXCEPT ![Bucket(hour_id)] = 0]
  /\ UNCHANGED <<s_blocked_hour_id, counted>>

StoreCount ==
  /\ Store("count")
  /\ "reset" \notin todo
  /\ s_blocked_hour_count' = [s_blocked_hour_count EXCEPT ![Bucket(hour_id)] = @ + 1]
  /\ counted' = Append(counted, hour_id)
  /\ UNCHANGED s_blocked_hour_id

(* log_query: with the mutex, *)
TakeLog ==
  /\ pc = "log"
  /\ s_query_log_mutex = "free"
  /\ s_query_log_mutex' = "dns_proxy"
  /\ pc' = "append"
  /\ UNCHANGED <<logVars, historyVars, turned, entry, bucketVars>>

LeaveLog ==
  /\ entry' = Blank
  /\ pc' = "idle"
  /\ UNCHANGED <<historyVars, turned, bucketVars>>

(* Mutant of Following: the index is never wrapped. *)
FollowingUnwrapped(c) == c + 1

Following(c) == (c + 1) % LogSize

AppendLog ==
  /\ pc = "append"
  /\ s_query_log' = [s_query_log EXCEPT ![s_query_log_next] = entry]
  /\ s_query_log_next' = Following(s_query_log_next)
  /\ s_query_log_count' = Min({s_query_log_count + 1, LogSize})
  /\ logged' = Append(logged, entry)
  /\ s_query_log_mutex' = "free"
  /\ LeaveLog

(* ... or not at all when a page held it for 50 ms. *)
SkipLog ==
  /\ pc = "log"
  /\ s_query_log_mutex = "web_ui"
  /\ LeaveLog
  /\ UNCHANGED <<logVars, s_query_log_mutex>>

DnsTask ==
  /\ \/ \E e \in Entries : NoteQuery(e)
     \/ RecordBlock \/ StoreId \/ StoreReset \/ StoreCount
     \/ TakeLog \/ AppendLog \/ SkipLog
  /\ UNCHANGED <<since, hour, webVars>>

-----------------------------------------------------------------------------
(* The HTTP server's task: dns_proxy_get_query_log, *)
RequestLog ==
  /\ wpc = "idle"
  /\ s_query_log_mutex = "free"
  /\ s_query_log_mutex' = "web_ui"
  /\ count' = Min({s_query_log_count, MaxEntries})
  /\ wpc' = "copy"
  /\ UNCHANGED <<out, page, sumVars, turned>>

(* Mutant of Back: the walk starts at the slot the next entry will take. *)
BackFromNext(n) == (s_query_log_next + LogSize - n) % LogSize

Back(n) == (s_query_log_next + LogSize - 1 - n) % LogSize

CopyEntry ==
  /\ wpc = "copy"
  /\ Len(out) < count
  /\ out' = Append(out, s_query_log[Back(Len(out))])
  /\ UNCHANGED <<s_query_log_mutex, wpc, count, page, sumVars, turned>>

ReturnLog ==
  /\ wpc = "copy"
  /\ Len(out) = count
  /\ page' = out
  /\ out' = <<>> /\ count' = 0
  /\ s_query_log_mutex' = "free"
  /\ wpc' = "idle"
  /\ UNCHANGED <<sumVars, turned>>

(* ... which gives an empty page when it waited 50 ms in vain; *)
LogBusy ==
  /\ wpc = "idle"
  /\ s_query_log_mutex = "dns_proxy"
  /\ page' = <<>>
  /\ UNCHANGED <<s_query_log_mutex, wpc, out, count, sumVars, turned>>

(* and blocked_last_24h, which reads each bucket's identifier and, for one  *)
(* that is in the window, its count.                                        *)
RequestStats ==
  /\ wpc = "idle"
  /\ current_hour' = hour
  /\ before' = Len(counted)
  /\ turned' = IF todo \cap {"id", "reset"} = {} THEN {} ELSE {Bucket(hour_id)}
  /\ wpc' = "test"
  /\ UNCHANGED <<s_query_log_mutex, copyVars, i, early, total>>

SumFrame == UNCHANGED <<s_query_log_mutex, copyVars, current_hour, before, turned>>

NextBucket ==
  /\ i' = i + 1
  /\ wpc' = IF i' = HistoryHours THEN "done" ELSE "test"

(* Mutant of InWindow: the hour that has just left the window counts. *)
InWindowOneMore(id) == id >= current_hour - HistoryHours

InWindow(id) == id > current_hour - HistoryHours

TestBucket ==
  /\ wpc = "test"
  /\ \/ InWindow(s_blocked_hour_id[i]) /\ wpc' = "add" /\ UNCHANGED i
     \/ ~InWindow(s_blocked_hour_id[i]) /\ NextBucket
  /\ UNCHANGED <<early, total>>
  /\ SumFrame

AddBucket ==
  /\ wpc = "add"
  /\ total' = total + s_blocked_hour_count[i]
  /\ NextBucket
  /\ UNCHANGED early
  /\ SumFrame

(* The reads too are plain ones: the compiler may read the count first. *)
ReadCountEarly ==
  /\ wpc = "test"
  /\ early' = s_blocked_hour_count[i]
  /\ wpc' = "test early"
  /\ UNCHANGED <<i, total>>
  /\ SumFrame

TestBucketLate ==
  /\ wpc = "test early"
  /\ total' = IF InWindow(s_blocked_hour_id[i]) THEN total + early ELSE total
  /\ early' = 0
  /\ NextBucket
  /\ SumFrame

ReturnStats ==
  /\ wpc = "done"
  /\ wpc' = "idle"
  /\ i' = 0 /\ total' = 0 /\ current_hour' = 0 /\ before' = 0
  /\ turned' = {}
  /\ UNCHANGED <<s_query_log_mutex, copyVars, early>>

WebTask ==
  /\ \/ RequestLog \/ CopyEntry \/ ReturnLog \/ LogBusy
     \/ RequestStats \/ TestBucket \/ AddBucket
     \/ ReadCountEarly \/ TestBucketLate \/ ReturnStats
  /\ UNCHANGED <<dnsVars, since, hour>>

-----------------------------------------------------------------------------
AdvanceHour ==
  /\ hour' \in hour + 1 .. MaxHour
  /\ UNCHANGED <<dnsVars, webVars, s_query_log_mutex, since, turned>>

(* The device restarts: everything is in RAM.  The clock survives a reset,  *)
(* and after a loss of power begins again at 1970.                           *)
Restart ==
  /\ s_query_log' = [c \in Cells |-> Blank]
  /\ s_query_log_next' = 0 /\ s_query_log_count' = 0
  /\ s_query_log_mutex' = "free"
  /\ logged' = <<>>
  /\ s_blocked_hour_id' = [b \in Buckets |-> 0]
  /\ s_blocked_hour_count' = [b \in Buckets |-> 0]
  /\ queries_blocked' = 0
  /\ since' = Len(counted)
  /\ turned' = {}
  /\ hour' \in {0, hour}
  /\ pc' = "idle" /\ entry' = Blank
  /\ hour_id' = 0 /\ todo' = {}
  /\ wpc' = "idle"
  /\ out' = <<>> /\ count' = 0
  /\ i' = 0 /\ early' = 0 /\ total' = 0 /\ current_hour' = 0 /\ before' = 0
  /\ UNCHANGED <<counted, page>>

Next == DnsTask \/ WebTask \/ AdvanceHour \/ Restart

Spec == Init /\ [][Next]_vars

-----------------------------------------------------------------------------
(* Every index stays within its array, and the mutex is with the task that  *)
(* is between its take and its give.                                        *)
LogTypeOK ==
  /\ s_query_log \in [Cells -> Entries \cup {Blank}]
  /\ s_query_log_next \in Cells
  /\ s_query_log_count \in 0 .. LogSize
  /\ s_query_log_mutex \in {"free", "dns_proxy", "web_ui"}
  /\ s_query_log_mutex = "dns_proxy" <=> pc = "append"
  /\ s_query_log_mutex = "web_ui" <=> wpc = "copy"
  /\ logged \in Seq(Entries)
  /\ pc \in {"idle", "record", "bucket", "log", "append"}
  /\ entry \in IF pc = "idle" THEN {Blank} ELSE Entries
  /\ out \in Seq(Entries) /\ page \in Seq(Entries)
  /\ count \in 0 .. s_query_log_count
  /\ Len(out) <= count

HistoryTypeOK ==
  /\ s_blocked_hour_id \in [Buckets -> Hours]
  /\ s_blocked_hour_count \in [Buckets -> Nat]
  /\ queries_blocked \in 0 .. MaxBlocks
  /\ {hour, hour_id, current_hour} \subseteq Hours
  /\ todo \subseteq {"id", "reset", "count"}
  /\ wpc \in {"idle", "copy"} \cup Summing
  /\ i \in IF wpc \in {"test", "test early", "add"} THEN Buckets ELSE {0, HistoryHours}
  /\ {early, total} \subseteq Nat
  /\ counted \in Seq(Hours)
  /\ {since, before} \subseteq 0 .. Len(counted)
  /\ turned \subseteq Buckets

TypeOK == LogTypeOK /\ HistoryTypeOK

(* The ring and the walk back through it give the page the most recent      *)
(* queries, newest first, as one snapshot, although the forwarding task     *)
(* logs while the page is being copied; or the page is empty.               *)
QueryLog == INSTANCE RecentQueries WITH Kept <- LogSize, Asked <- MaxEntries
LogSpec == QueryLog!Spec

(* The blocked queries of the last day since the device started, summed     *)
(* without a mutex while the forwarding task records more: never more than  *)
(* were ever blocked, and between what had been blocked in the window when  *)
(* the sum began and what has when it ends; no hour that has left the       *)
(* window is counted, although nothing clears its bucket.  A bucket that    *)
(* changes hours meanwhile may be missed, or counted for the hours it had;  *)
(* the error is that bucket's and no other's.                               *)
Recent(k) == counted[k] > current_hour - HistoryHours
Turned(k) == Bucket(counted[k]) \in turned

HistoryExact ==
  wpc = "done" =>
    /\ total <= queries_blocked
    /\ Cardinality({k \in since + 1 .. before : Recent(k) /\ ~Turned(k)}) <= total
    /\ total <= Cardinality({k \in since + 1 .. Len(counted) : Recent(k) \/ Turned(k)})

-----------------------------------------------------------------------------
(* A statement of dns_proxy.c:60-65 that the code does not keep.            *)

(* The count of the last day is to "survive being read across a reboot, not *)
(* reset to 0 whenever the device restarts": while the clock goes on, the   *)
(* blocks of the window from before a restart are counted.                  *)
SurvivesReboot ==
  wpc = "done" /\ turned = {} =>
    Cardinality({k \in 1 .. before : Recent(k)}) <= total
=============================================================================
