# esp-adblocker in TLA+

A verification project for the firmware of esp-adblocker, a DNS proxy on an
ESP32-S3 that blocks advertising domains: TLA+ modules translated from the C
sources, TLC configurations that check them on small instances, and theorems
that TLAPS proves for every value of the constants.

Contents: [the system](#the-system) · [modules](#modules-and-the-code-they-model) ·
[runs](#runs-what-is-checked) · [proofs](#proofs) · [findings](#findings) ·
[not modelled](#what-is-not-modelled-and-why).

## The system

| component | state it keeps | operations | talks to |
|---|---|---|---|
| `dns_proxy`, forwarding loop | pending table, upstream socket and index, timeout count, statistics | one task: select, receive, relay, sweep, fail over; `apply_upstream_config` from another task | clients and resolver (UDP), `app_config`, `web_ui` |
| `dns_proxy`, blocking decision | mapped Bloom filter, allowlist | `try_block`, `reload_bloom_filter`, `reload_allowlist` | `bloom_filter`, `sd_storage`, `app_config`; reloaded by `blocklist_updater` and `web_ui` |
| `dns_proxy`, query log, 24-hour history | ring of the last queries under a mutex; 24 hourly buckets without one | append, copy newest first; count, sum | `web_ui` |
| `dns_proxy`, wire format | none | parse a question, make error and zero-address answers | the loop |
| `bloom_filter` | none (views a buffer) | check a header, test a name | the decision, the updater, `tools/` |
| `blocklist_updater` | locals of each running update | update the filter, update the list; periodic task and tasks on request | HTTPS server, flash, SD card, NVS, `dns_proxy`, `sd_storage` |
| `sd_storage` | mounted flag, the list in PSRAM and its index | mount, load, confirm | the decision, the updater, boot |
| `app_config` | NVS | get and set single keys | everybody |
| `fw_updater` | OTA slots of the bootloader | update and restart, confirm a new image | HTTPS server, `eth_init` |
| `eth_init` | network interface, GOT_IP bit | start, wait for an address | everybody that needs the network |
| `web_ui` | none | ten HTTP handlers in one task | all of the above |
| `app_main` | none | the boot sequence | all of the above |
| `tools/` | none | build `bloom.bin` and `domains.idx` | a person at a desk |

FreeRTOS runs the forwarding task, the HTTP server's task, the periodic update
task, and one more task for every update on request and every OTA request, on
two cores. Only the query log has a mutex. So the hard behaviours are: late,
duplicated and lost replies against a table whose index is the transaction id;
two tasks that replace one socket, one filter, one list or one partition; a power
loss anywhere in an update; an update of which one step fails; arithmetic on
clocks and intervals. `PROJECT.json` lists each hazard at its line, with the
properties that cover it or the reason why none does yet.

What makes each component correct:

- *forwarding loop*: every query that arrives is answered, exactly once, by the
  proxy or with the upstream's answer to that query; a resolver is left because
  of its own silence; the statistics account for every query.
- *blocking decision*: a listed name is blocked and an unlisted one is not,
  whatever is being reloaded at the time; the allowlist wins.
- *settings*: the upstream socket follows what is stored; descriptors are neither
  lost nor taken from somebody else; a restart takes up a network that was asked
  for, whatever was lost of a request.
- *wire format and filter*: every well-formed question is read as its name and
  nothing else is; a blocked client gets one well-formed answer; what the builder
  put into a filter is never missed.
- *query log and history*: the page shows the last N queries, newest first, and
  the blocks of the last 24 hours.
- *updates*: nothing that is active or served is ever erased or overwritten;
  what becomes active is complete; a failure or a power loss leaves the old
  artifact in service.
- *firmware update*: an image that never reaches the network is rolled back.

## Modules and the code they model

| module | what it is |
|---|---|
| `DnsService` | abstract: what the proxy promises a client |
| `DnsProxy` | the forwarding loop of `dns_proxy.c`, lines 116-163 and 403-609 |
| `MCDnsProxy` | constants for TLC |
| `DnsProxyProofs` | theorems about `DnsProxy` |
| `ServedArtifact` | abstract: what an A/B update promises about one artifact |
| `BlocklistUpdater` | `blocklist_updater.c` with the code it drives in `dns_proxy.c`, `sd_storage.c`, `app_config.c` and `app_main.c` |
| `MCBlocklistUpdater` | for TLC |
| `BlocklistUpdaterProofs` | theorems about `BlocklistUpdater` |
| `RecentQueries` | abstract: what the query log promises the web page |
| `QueryStats` | the query log and the 24-hour history of `dns_proxy.c`, lines 60-114, 326-360, 538-542 |
| `MCQueryStats` | for TLC |
| `QueryStatsProofs` | the query log implements `RecentQueries` |
| `QueryHistoryProofs` | the 24-hour history is exact |
| `FirmwareTrial` | abstract: an update with rollback |
| `FwUpdater` | `fw_updater.c` and `eth_init.c`, with the boot order and the handlers that start an update |
| `MCFwUpdater` | for TLC |
| `FwUpdaterProofs` | theorems about `FwUpdater` |
| `BloomFilter` | the filter as `tools/` builds it and `bloom_filter.c` reads it |
| `DnsWire` | the questions and answers of `dns_wire.c` |
| `Blocking` | `try_block` against the three reloads: `dns_proxy.c`, lines 192-324 and 366-401, and `sd_storage.c` |
| `BlockedQueries` | `Blocking` with the filters, names and datagrams it works on: `BloomFilter` and `DnsWire` composed with the decision |
| `MCBlocking` | for TLC |
| `BlockingProofs` | theorems about `Blocking` and `BloomFilter` |
| `BlockedQueriesProofs` | theorems about `BlockedQueries` and `DnsWire` |
| `Settings` | the settings page and what takes the settings up: `web_ui.c`, `app_config.c`, `connect_upstream_socket`, `eth_init.c` |
| `MCSettings` | for TLC |
| `SettingsProofs` | theorems about `Settings` |

### DnsProxy

The variables are the static variables of `dns_proxy.c` under their own names,
with these changes. `pending[i]` is the query in slot `i`, or `None` when the
slot is not `in_use`; `age[i]` is the time since `sent_at_us`, counted up to the
timeout, because only "expired or not" is read. `pc`, `rfds` and `due` are where
`dns_proxy_task` is: in `select`, at one of the three sockets of a round, or in
the sweep with the expired slots it has still to visit. `listenq`, `wire` and
`rxbuf` are the socket buffers and the network. `unsent`, `answers`, `reply` and
`sentTo` are history that only the properties read.

One action is one handler call, because only the task itself touches the table:
`handle_client_datagram` is `BlockQuery`, `RejectQuery` or `ForwardQuery`,
`handle_upstream_datagram` is `RelayReply` or `DropReply`, one iteration of
`sweep_timeouts` is `SweepSlot`, with the fail-over inside. `ApplyUpstreamConfig`
is the one entry from another task; it may come between any two of these, which
is where the sources allow it to do harm: between `select` and `recv`.

The abstractions, each wider than the code: `try_block`'s verdict is a free
choice; a reply that is sent stays in `wire` and may arrive any number of times,
late or never; a reconnect succeeds or fails freely. A query is an element of
`Queries`, so two identical datagrams are two elements. Datagrams that are empty
(dropped by `n <= 0` without an answer) are not clients' queries here.

### BlocklistUpdater

`flash`, `sd` and `legacy` are the two partitions, the two files and the file of a
card prepared by hand; `bloom_slot` and `list_slot` are the keys in NVS; `mapped`
and `domains` are what `dns_proxy` and `sd_storage` serve. The content of a
partition or file is a published version, or `Erased`, `Torn`, `Absent`. A list in
memory is a version and its extent, `whole` or `part`: `fread` may stop short, and
what it read is then used as the list (`sd_storage.c:130-132`). `Updaters` are the
tasks inside `blocklist_updater_check_and_apply`; each has its program counter and
locals. One action is one call with an effect: erase, write, activate, reload, open,
fill, fetch the digest, verify, activate, free, load. Each of them that can fail has
its failing outcome, with what the code leaves behind. `PowerLoss` is enabled
everywhere: it tears a partition that was being erased or written and restarts the
boot sequence, in which the filter is mapped before the card is mounted
(`BootList`).

Wider than the code: any version may be downloaded at any request; a torn partition
may pass the header check of `bloom_filter_init` or not; any reload may fail, or
load a part; the file prepared by hand may be read whenever the active one cannot be
opened, be it there or not. Assumed of the environment: a download that passes its
CRC or SHA-256 is complete; a write to NVS succeeds or fails as a whole (what
`nvs_set_u8` leaves behind when only `nvs_commit` fails is ESP-IDF's, and a hazard
that no property covers); the file system survives power losses. The first two
devices of `Init` are a factory-new one and one with a filter or list already in
slot `a`.

### QueryStats

Two tasks share what the forwarding task records of each query. The log is shared
under `s_query_log_mutex`: `TakeLog` and `AppendLog` are the two ends of
`log_query`'s critical section, `RequestLog`, `CopyEntry` (one entry a step) and
`ReturnLog` are `dns_proxy_get_query_log`'s, and each side has its way out when the
other holds the mutex for 50 ms (`SkipLog`, `LogBusy`). The history has no mutex, so
its steps are single reads and writes of the arrays. They are plain C objects: the
compiler may delay the store of a bucket's new hour or read a bucket's count before
its hour, and both orders are behaviours (`todo`, `ReadCountEarly`). An hour fits in
the low word of its 64-bit variable, so a read of it cannot be torn. `logged`,
`counted` (the hours of all blocks that were counted), `since`, `before` and
`turned` are history that only the properties read. `turned` has the buckets that
change hours while a sum is taken: of these, and of no others, `HistoryExact` allows
the count of another hour, or none. The clock goes forward, by any number of hours,
which is what SNTP's first answer does. `Restart`, enabled everywhere, loses both
arrays, which are in RAM; the clock then goes on, or begins again at 0 after a loss
of power. `HistoryExact` speaks of what was blocked since the start,
`SurvivesReboot`, which the code does not keep, of what was blocked before it too. A
clock that is set back while the program runs is not modelled.

### FwUpdater

`image`, `ota_state` and `boot` are the two application partitions and
`otadata`, `net_mode` and `static_ip` the two keys in NVS on which `eth_init.c`
decides, `got_ip` is `ETH_INIT_GOT_IP_BIT`. `app_main`, `fw_confirm` and
`fw_update[t]` are where app_main, the confirming task and each update task are.
`eth_init_start` is three steps, because the bit is set between the second and
the third and any of the three may fail without consequence for app_main.
`Restart` is enabled everywhere: it stands for the button, for a crash and for
the loss of power. External, as ESP-IDF 5.5 with
`CONFIG_BOOTLOADER_APP_ROLLBACK_ENABLE` defines them: `esp_https_ota` refuses to
begin while the running image is to be confirmed, erases the other partition,
writes it (two tasks may leave any mixture, which is `Partial` or an image), and
chooses it when it verifies; the bootloader gives a new image one start, and
passes over one that does not verify. An image is in `Working` when the network
can come up on it; the web page, so a change of the settings or another update,
can only be reached then.

### Blocking, DnsWire, BloomFilter, BlockedQueries

The forwarding task, the HTTP server's task and any number of update tasks share
the filter, the exact list and the allowlist without a lock.
`s_bloom` is the version it points to and whether that mapping is still there
(`live`); `s_domains` and `s_allowlist` are loaded, freed or empty, with their
names. An update task (`upc[u]`) publishes a filter or a list, then reloads it:
`Unmap` and `Map` are the two halves of `dns_proxy_reload_bloom_filter`, between
which `s_bloom_ready` is set and the mapping is gone; `FreeList`, `ClearList`,
`LoadList` are `sd_storage_load_domain_list`. Nothing keeps two update tasks
(`blocklist_updater.c:291`, `:327`) from being in one of these reloads together,
each freeing what the other has just set. From that step on (`raced`) the filter
may be left unmapped and the list freed when both are over, and stay so until a
restart. A version that was active when a task read the key (`Active`) may be
loaded after another has been activated. `BootList` is app_main's own load, before
any update. The HTTP server's task (`wpc`) does
the same to the allowlist. The forwarding task (`pc`) decides on `qname`, in the
order of `try_block`: `Receive` reads the switch and `s_bloom_ready`, `TestFilter`
the filter; `OpenAllowlist` and `ScanAllowlist` are the count and the loop of
`is_allowlisted`, `OpenList` and `SearchList` the guard and the `bsearch` of
`sd_storage_confirm`; `Finish` answers or passes the query on. A look at a
structure and the reads behind it are two steps, which is where another task
comes between. Reads of freed or unmapped memory are undefined: `Outcomes` lets
them return anything, and `Restart`, enabled everywhere, covers the case that
they stop the program. A load may succeed, fail, or stop short: `Loadable` has
every part of the file, which is what a read error leaves (`sd_storage.c:130`).

`misread`, `seen`, `raced` and `list_served` are history. `misread` is the set of
structures that this decision reads although they are gone; `seen` collects what
each structure said about the name while the decision was at it. With them the two
properties about verdicts can be stated for decisions that overlap any number of
reloads: what was decided had each of its reasons at some moment of the decision.
Among the reasons to block is that there is no list, which is the fail-safe of
`sd_storage.h:28` when there never was one ("no list"), and a gap that a reload
makes when there was ("list gone", by `list_served`): `NoFalsePositive` is what the
README promises of the latter and the code does not keep. Nothing can be said of a
decision that misread; that such decisions exist is a fact of the code, and
`MisreadNeedsReload` says exactly when, as `Restored` says what a reload leaves
behind, both until two update tasks are in the same reload.

`BloomFilter` has the test of the firmware (`Index`, `Test`, `Accepts`) and the
construction of the tool (`BitIndex`, `Build`) over arbitrary functions `h1` and
`h2`, with 64-bit words and `size_t` as the constants `Word` and `Size`: a
wraparound is a wraparound at any width. `DnsWire` has the parser and the two
answer makers on messages whose header is a record of the fields the code
touches and whose body is a sequence of bytes. The loop of
`dns_wire_parse_question` is a function on the positions of the body
(`NamesFrom`, whose value at a position is `ReadName` of the positions after it),
the text it collects one on the labels (`Joined`). `qname` is a C string: of a name
with a zero byte in a label the filter, the allowlist and the list see what stands
before it (`CString`). Its reference is the format read
the other way: `Encoding` of labels.

`BlockedQueries` puts the data under the decision: sizes of filters, names, bytes
and datagrams are constants, of which `QueriesAssumption` asks only what any client
or builder can produce (labels of 1 to 63 bytes, bodies of any bytes, datagrams that
fit in the receive buffer), and each statement about `BloomFilter` or `DnsWire` is an
invariant of the moment at which the program relies on it.

### Settings

`config_post_handler` looks for nine keys in a fixed order and writes each that it
finds: `Post` takes the request, `Store` writes the next key, or not -- no return
value is looked at -- `ApplyUpstreamConfig` reconnects when a resolver was among
them, `Respond` says ok in any case. `static_ip` stands for the three fields of
the address, which are one blob. Requests that cannot be read or parsed change
nothing and are left out. `net` is what `eth_init_start` took up at the last start.

`connect_upstream_socket` is here in steps, in both tasks that run it (`cpc`):
look at the old descriptor, close it, open a new one, read the resolver of the
index from NVS (`addr`), connect, or close it again. `table` is the system's
descriptors: free, somebody else's, a fresh socket of the proxy, or one connected
to a resolver. `socket()` returns any free number, and other components open and
close theirs at any time. `Open` and `Connect` may fail at any time.

`asked`, `clash`, `overlapped` and `stolen` are history: the networks the last
request leaves room for; whether the last connect began while another one was
running; whether any did since the start; whether a descriptor of somebody else
was closed. The two properties of the socket are conditional on `clash` and
`overlapped`, because the code has no lock: without the condition TLC finds a
fail-over that has read the second resolver, then a change of the settings that
reconnects, then both connects on one socket, which ends up on the resolver of the
other index, against what `dns_proxy.h:54-59` says. The condition is as weak as
the code allows: `ConnectedAsConfigured` needs only the *last* connect to be
alone, whatever those before it have left; that is what recovers.

## Runs: what is checked

| run | instance | shows |
|---|---|---|
| `dns_proxy` | 3 queries, 2 slots, threshold 2, 1 change of the configuration, with fairness; 568k states | `TypeOK`, `QueryAccounted`, `StrangeAnswerIsLate`, `StatsAddUp`; `RefinesService`: the loop implements `DnsService`, until the configuration is changed also its liveness |
| `dns_proxy_failover` | 4 queries, 4 slots, threshold 2 | a counterexample to `FailoverBlamesCurrent` |
| `dns_proxy_apply_stall` | 2 queries, 1 change of the configuration, with fairness | a counterexample to `EveryQueryAnswered` |
| `updater_one` | 1 update task, 2 versions; 114k states | `TypeOK`, `EraseIsSafe`, `ListWriteIsSafe`, `FilterServed`, `ListServed` |
| `updater_two` | 2 update tasks, 2 versions | a counterexample to `WorkingFilter` |
| `query_stats` | 2 kinds of entries, a log of 2, a history of 2 hours, 3 queries and 2 blocks in all, 4 hours, restarts; 1.4M states | `TypeOK`, `HistoryExact`, `LogSpec`: the log implements `RecentQueries` |
| `history_reboot` | 1 block, 1 hour, 1 restart or more | a counterexample to `SurvivesReboot` |
| `fw_rollback` | 3 images, one of them broken, 2 update tasks; 10k states | `TypeOK`, `CanRestart`, `ImplementsTrial`, `ConfirmedOnline` |
| `fw_static` | 2 images, one of them broken, 1 update task | a counterexample to `BrokenRollsBack` |
| `blocking_reload` | 2 names, 2 versions and the seed, 1 allowlist, 2 update tasks; 2.3M states; filters of 1 to 9 bits, 259 names, bodies of up to 8 bytes | `TypeOK`, `Restored`, `BlockedHasReason`, `PassedHasReason`, `MisreadNeedsReload`; `FiltersComplete`, `FiltersInBounds`; `EveryNameRead`, `OnlyNamesRead`, `BlockedAnswered` |
| `blocking_unconfirmed` | the same with 1 update task | a counterexample to `NoFalsePositive` |
| `settings` | 4 kinds of requests, 2 descriptors; 1.8M states | `TypeOK`, `ConnectedAsConfigured`, `DescriptorsKept`, `NetworkWasAsked` |

**Bounds.** Three queries on two slots fill the table (a refused query), free
slots and use them again under the id of an earlier query, and expire two at a
time, which reaches the threshold; one of them arrives on the IPv6 socket. The
timeout is one tick: the code only distinguishes expired slots, and `Tick` may
happen between any two steps. One change of the configuration meets the loop at
every step. The safety theorems hold for all values of these bounds. Two
versions are enough to tell "the old one", "the new one" and a digest that belongs to the
other; power losses and updates are unbounded in number. Three queries in a log of
two and four hours in a history of two wrap both, during a read as well as before
it, and leave a bucket whose hour has passed; restarts are unlimited; the theorems
hold for every size of the log and of the history and every number of queries,
blocks and hours. `FwUpdater` has no bound but its constants.

`Blocking` has no bound but its constants either: publications, queries and restarts
are unlimited. Two update tasks, which are symmetric, are enough to meet in a
reload, to follow one another and to activate between another's two steps; the
theorems are for any number. One allowlist can be saved, loaded, freed and lost. Two
names and three filters give a true hit, a false positive, a miss, and a name that
only the new version has. Words of 4 bits and a `size_t` of one bit wrap in most of
the filters tried. A buffer for names of 7 and one for messages of 48 (255 and 512
in the code) are reached from both sides by names of up to three labels; labels
contain upper case, a dot and a zero byte; a query has one question or claims two;
the bodies are all strings of up to four bytes from an alphabet of lengths, a
pointer byte and text, with a question's tail cut at each place. The pure functions
are checked at the moments the program uses them: the filter when a query is tested,
the parser when one may arrive, the answer when one is blocked; the theorems hold
for filters, names and datagrams of any size.

`Settings`: requests that swap the resolvers and turn DHCP on, change one
resolver, or set one of two addresses (symmetric); each of their keys may be
lost, and each step may meet a restart. Two descriptors: the proxy holds one, and
the other one is free, somebody else's, or just what the next `socket()` returns.
Requests, fail-overs and restarts are unlimited.

**Fairness.** `FairSpec` has weak fairness of the forwarding task as a whole,
which a FreeRTOS task of priority 5 that blocks only in `select` and `recv` gets
from the scheduler, and of the clock. Nothing is assumed of clients, network,
resolver or HTTP server. Weak fairness of the task is enough because its loop is
sequential: no part of the round can be skipped for ever. `RefinesService` then
gives the weak fairness of `Answer` for every query.

**Deadlock.** TLC checks for deadlock in every run but the three of `DnsProxy`. With a
change of the configuration the forwarding task may really block in `recv` for
good, and in the run without one all queries may be done.

## Proofs

All proofs are checked by `tlapm` with Z3, Zenon and LS4, without anything taken
on trust. They use only the named assumptions of the modules
(`ProxyAssumption`, `QueriesFinite`, `UpdaterAssumption`, `StatsAssumption`, `FwAssumption`,
`BloomAssumption`, `BlockingAssumption`, `WireAssumption`, `QueriesAssumption`,
`SettingsAssumption`), which
TLC evaluates in the runs, and for the updater the hypothesis `SingleUpdater`.

**DnsProxyProofs.** `Invariance` proves `Spec => []IInv` for any set of queries,
table size, timeout, threshold and number of changes of the configuration.
`IInv` adds two facts to `TypeOK` and `QueryAccounted`. `SweepInUse`: the slots
still due in a sweep are in use -- without it `SweepSlot` might answer an empty
slot. `RepliesKnown`: every reply on the wire or in the socket buffer is about a
query that was received, and one whose id is not the slot's present query is
about a query already answered -- without it nothing is known of the reply that
`RelayReply` takes. From the invariant follow `TypeCorrect`, `Accounting`
(no query lost, duplicated or answered twice) and `LateRepliesOnly`.
`ImplementsService` proves the safety part of the refinement: the initial state
is one of `DnsService`, and `ClientSends` is its `Ask`, the five
answering actions its `Answer`, every other action a stutter.

`CountersAddUp` proves `StatsAddUp` for any finite set
of queries (`QueriesFinite`). Each action moves one query between the sets whose
sizes are compared -- received, pending, relayed -- so a lemma per kind of step
(a local answer, a forward, a relay, a sweep) adds or removes one element. The
invariant needs `NoReplyYet`: a query without an answer is not yet among the
relayed ones, so a relay adds an element that was not there.

**BlocklistUpdaterProofs.** Every theorem assumes one update task
(`SingleUpdater`); the run `updater_two` shows that it is needed.
`UpdaterInvariance` proves a conjunction of three parts, one per sub-system:
`FilterInv` ties the program counter to the target, to what is mapped and to what
the partitions hold (the mapped partition is complete, the target is neither
active nor mapped until it is activated, between activation and reload the old
one may still be mapped); `ListInv` does the same for the files; `BootInv` says
what holds before the list is loaded. From it follow `SafeErase`,
`SafeListWrite`, and, through the refinement mapping of each artifact,
`FilterImplements` and `ListImplements`: across all failures and power losses the
stored artifact changes only to complete versions and the served one only to the
stored one or to a fallback, the seed for the filter, and for the list the file
prepared by hand or none. Of a list "the stored one" means as far as it was read:
the code cannot tell a list cut short from a whole one. The theorem does not say
that a list which is served stays when its reload fails; it does not
(finding 6).

**QueryStatsProofs.** `LogImplements` proves `Spec => LogSpec` for every size of
the ring and of a page. The invariant `LogInv` says that the cell `Back(k)` holds
the entry logged `k` before the last (`RingOK`) and that the part of a page copied
so far agrees with it (`CopyOK`); `WalkBack` is the lemma about the two modular
indices: the cell just filled comes first, every other one moves one step away
and is not the one written. That the mutex keeps `AppendLog` out while a page is
being copied is what makes `CopyOK` inductive.

**QueryHistoryProofs.** `HistoryIsExact` proves `Spec => []HistoryExact` for every
length of the history, and `TypeCorrect` the types of both halves. The code adds
and resets numbers; the proof compares each of them with the cardinality of a set
of blocks, so no sum has to be taken over the buckets. The invariant `HistoryInv`
has four parts: the types; `BucketsOK`, by which a bucket counts the blocks of its
hour, where a bucket that is being taken over belongs to its new hour from the
first store on (`HourOf`); `StoresOK`, what is still to be stored; and `SumOK`, by
which a sum that has got to bucket `i` lies between the blocks of the window in
the buckets below `i` when it began and those there now. `HoursApart` is why no
hour is counted for another one: two hours of one bucket are a whole history
apart, so at most one of them is in the window. `SumUnderSteps` is the step of the
forwarding task under a sum, `SumVisits` the visit of one bucket, whichever of
its two reads comes first. A bucket that is taken over during the sum may be missed
or counted for the hours it had; its blocks count for nothing in the lower bound
(`Sure`) and for all they may be in the upper one (`Likely`), and those of no other
bucket do (`ShareOfBucket`). The theorem speaks of
blocks since the start: what a restart does to those before is finding 5.

**FwUpdaterProofs.** `AlwaysRestartable`, `UpdateIsTrial` and `ConfirmsOnline`
hold for any images and any number of update tasks. The invariant adds to
`CanRestart` what `otadata` says of the running and of the chosen partition, that
no update task is past its connect during a trial (`BootOK`), and what the GOT_IP
bit stands for (`GotIpOK`): with a static address, nothing.

**BlockingProofs.** `MissIsTrusted` proves that the firmware finds what the tool has
put in, for any hash functions and any word: the two indices are equal
(`SameIndex`), because masking the product before the sum changes nothing modulo the
word (`WrapOnce`, from `Remainder`, the uniqueness of quotient and remainder).
`ReadsInBounds` proves that an accepted filter is read within its buffer. It needs
the size to be one that the check computes without wrapping (`Countable`); a header
with a larger count passes the check by accident. `ReloadInvariance` ties each
structure to the program counter of the task that replaces it (`FilterWhole`,
`ListWhole`, `AllowlistWhole`), for any number of update tasks, until two of them
are in the same reload: then one of them at most has unmapped the filter, and one at
most has freed the list. `ReloadsRestore` and `MisreadOnlyInReload` follow, with the
same condition. `DecisionInvariance` adds what a decision has seen by the time it
reaches each stage (`FactsSeen`, `HitSeen`, `NotAllowedSeen`, `ListSeen`): it is
inductive because a stage notes what its structure says when it is entered and again
after every step of another task, and because a list or an allowlist that is being
searched cannot go without being misread (`ListOpen`, `AllowlistOpen`). It holds
whether reloads overlap or not. `BlockedReasoned` and `PassedReasoned` follow. That
a listed name is hit, which `PassedReasoned` needs, is `MissIsTrusted`.

**BlockedQueriesProofs.** The parser and the two answer makers are correct for
names of any length and number of labels and for any bytes, not only for the
bounded inputs of the run. Two obstacles stand before such a proof: `NamesFrom`,
`Joined` and the library's `FlattenSeq` are recursive functions, of which nothing is
known until it is shown that a function with these values exists (`NamesExist`,
`JoinExists`, `FlattenExists` build it one value at a time); and the induction
theorems of the library take an operator as a parameter, so `Induction` derives from
well-foundedness that a set that has 0 and is closed under successor is `Nat`, and
every induction below is about such a set. `EveryNameIsRead` rests on `ReadsAs`:
behind any bytes, an encoded name is read as its labels in lower case, wherever it
stands and whatever follows; by induction on the number of labels (`RootReads`,
`LabelReads`). `OnlyNamesAreRead` rests on `Sound`: whatever is read at a position
is a list of labels whose encoding is exactly the bytes passed over, in lower case;
by induction from the last position back (`SoundStep`). Both need `JoinIsText`, that
the parser's way of placing dots yields the text of the name, `LowerConcat`, and
`EndsAtZero`, by which the C string ends at the first zero byte of that text.
That a length byte is never changed by the lower-casing, which `LowerLabel` needs, is
where the limit of 63 comes in. `BlockedAreAnswered` uses `Sound` for the end of the
question, and `AnswerOf` for the record that is added; that the count of questions is
right is proved only for queries that have one. `FiltersAlwaysComplete` and
`FiltersAlwaysInBounds` are `MissIsTrusted` and `ReadsInBounds` at the moment a
filter is tested. The five hold in every state, since they are about data; the
invariants name the moments at which the decision needs them.

**SettingsProofs.** `RequestInvariance`: the next key is one that was posted, and
the page's connect is over when its request is. `NetworkNeverInvented` adds
`NetworksAsked`: at each point of a request, what is stored, what may still be
stored, and every mixture of mode and address lead to a network in `asked`.
`UpstreamFollowsSettings` rests on `SocketInv`: unless it clashes, at most one
connect is under way, its socket is fresh from opening to connecting, and the
resolver it has read is still the one stored, until the page stores another,
after which the page reconnects. `DescriptorsTracked` rests on `Tracked`: the
descriptors of the proxy are the one that the running step of the connect is
about, or the socket's.

**Left to TLC.** Liveness (the fair half of `RefinesService`), which the provers
cannot do. Every invariant and every action property of the passing runs is a
theorem, those of the updater for one update task.

## Findings

Six statements of the repository that the code does not keep; each is a run that
ends in a counterexample.

1. **A burst of timeouts fails over twice** (`dns_proxy_failover`). Timeouts are
   counted against whichever resolver is current; a sweep over twice the
   threshold of expired queries returns to the silent resolver without having
   sent the other one anything.
2. **A change of the upstream can stop the proxy** (`dns_proxy_apply_stall`).
   Between `select` and `recv` the HTTP server's task closes the socket and opens
   another, which gets the same number; `recv` blocks, and with it the sweep that
   promises a SERVFAIL.
3. **Two updates erase the active filter** (`updater_two`). Both choose the same
   inactive partition.
4. **A static address confirms any image** (`fw_static`). `eth_init_start` sets the
   GOT_IP bit for a static address before it starts the driver, so the confirming
   task does not wait for a network, and an image whose driver fails is kept.
   `ConfirmedOnline` shows that over DHCP this does not happen.
5. **A restart resets the count of the last day** (`history_reboot`). It is to
   "survive being read across a reboot, not reset to 0 whenever the device restarts"
   (`dns_proxy.c:60-65`), but its buckets are in RAM. `HistoryExact` says what the
   count is instead: that of the day since the start.
6. **False positives are blocked while the list is reloaded**
   (`blocking_unconfirmed`). `sd_storage_load_domain_list` frees the old list before
   it knows whether the new one can be loaded, and without a list a hit of the filter
   alone blocks: for the time of a reload, and after a failed one until the next.
   `README.md:23-26` promises that "no false positives ever reach a client", `:31-32`
   that a failed update "never disturbs what's currently serving". `BlockedHasReason`
   says what holds: with a list in memory a hit alone is never enough.

Facts that came out of the models without a run of their own:

- A late reply is relayed to a stranger: a query expires, its client gets SERVFAIL,
  the slot is used for another query, and then the first reply arrives; the table
  index is its only key (`dns_proxy.c:471-478`), so it goes to the second client under
  that client's id, although `dns_proxy.h:22-24` speaks of "the real response".
  `StrangeAnswerIsLate` bounds the damage: there is no other way to a foreign
  answer.
- Two connects at once (`dns_proxy.c:118`), by a fail-over and by the settings page,
  may leave the socket on the resolver of the other index, against
  `dns_proxy.h:54-59`, lose a descriptor, or close somebody else's. The two properties
  of `Settings` exempt themselves from the overlap and are violated without it.
- The reloads free what a query may be reading (`misread`), although
  `sd_storage.h:36` calls a second load "Safe to call again"; and two update tasks in
  one reload (`raced`) may leave freed lines or an unmapped filter in use for good.
- A read error of the card cuts the list short without anybody noticing
  (`sd_storage.c:130`). The models have it as an outcome; no property fails by it.
- A label with a zero byte cuts the name for the filter and the lists, not for the
  upstream. A query that claims two questions and is blocked with the zero address
  keeps its QDCOUNT over one question (`dns_wire.c:112`, `:128-135`).

## What is not modelled, and why

- The content of the upstream's answers: the proxy looks at the id and passes the
  rest on. An answer of more than 512 bytes is cut by `recv`, and a datagram of one
  byte has its id read from uninitialised memory; neither is modelled.
- The timing of the periodic task: tick rate and the width of `pdMS_TO_TICKS` are
  FreeRTOS's. The model lets an update begin at any time.
- What a failed `nvs_commit` leaves behind is ESP-IDF's; a write of a key succeeds
  or fails as a whole.
- The text of URLs and of allowlist entries: that a URL of 256 characters is
  stored but cannot be read back, and that entries are matched exactly although
  they are not normalised, are listed as hazards.
- The erase of NVS at boot, in either of the modules that read NVS.
- A connect in steps inside `DnsProxy`, and the reloads inside `BlocklistUpdater`:
  they are in `Settings` and `Blocking`, because together they would multiply the
  states without touching each other's properties. `DnsProxy` takes the verdict of
  `Blocking` as a free choice, `Blocking` the failures of `BlocklistUpdater` as
  outcomes of its loads.
- What the build's `FD_SET(-1, ...)` does (`dns_proxy.c:516`).
- Driver bring-up, JSON, HTML, logging, TLS: straight-line calls into libraries.
- SHA-256, CRC-32 and FNV-1a as functions on bits: the repository's own
  cross-check compares them with a reference implementation.
