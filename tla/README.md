# Easy-Load-Balancer in TLA+

Specifications of the load-balancing system in this repository, the TLC
configurations that check them, and TLAPS proofs about every component: the
load balancer, the agent's routes, the dnsserver, the clients, the static routes
and the reporter. Everything is written from the sources under `src/`; where a
document and the code disagree the model follows the code and the disagreement
is a `violation` run.

## 1. The system

A *module* `[modid, cmdid]` is a remote service on several hosts. Clients ask
the **agent** on their machine for a host (UDP), call it, and report the result
to the agent, which routes around hosts that fail. The agent pulls routes from
the **dnsserver** (TCP), which reads them from MySQL and pushes changes. Call
statistics go from the agent to the **reporter**.

| Component | State | Operations | Interacts through |
|---|---|---|---|
| Load balancer of a module, `class LB`, `struct HI` (`lbagent/src/RouteLb.cc`) | a load record per host, a running and a down list, `_accessCnt` | getHost, report, reportSomeErr, reportSomeSucc, update, report2Rpter | called by RouteLB under its mutex; `reptQueue` |
| Route management, `class RouteLB` ×3, three UDP threads, the dnsserver client thread (`RouteLb.cc`, `AgentServer.cc`, `DssClient.cc`) | `_routeMap`; per LB `status`, `effectData`, `version`; `pullQueue` | getHost, getRoute, cacheGetRoute, report, batchReport, update, clearPulling, persistRoute | mutex per RouteLB, `pullQueue`, TCP to the dnsserver |
| Reporter client thread (`RptClient.cc`) | none | newReportReq | `reptQueue`, TCP to the reporter |
| Agent process (`lbagent/src/Server.cc`, `HeartBeat.h`) | a timestamp in shared memory | recordTs every second | read by the API |
| dnsserver (`dnsserver/src`) | `_data`/`_tmpData`, `routeVersion`, subscriptions, push lists | getRoute, clearSubscribe, pushChange, dataLoader | rwlock, two list locks, tasks to the loops, MySQL |
| mod-manager and tables (`mod-manager`, `common/sql`) | `DnsServerRoute`, `RouteVersion`, `ChangeLog` | online, offline | MySQL |
| reporter (`reporter/src`) | rows of `ServerCallStatus` | report | thread queues, MySQL |
| C++ API (`api/cpp/elbApi`) | route cache, held-back successes, UDP sockets, sequence number | apiGetHost, apiReportRes, apiGetRoute, apiRegister | UDP to the agent, heartbeat, backup files |
| Python API (`api/python/elbApi`) | the same | the same | the same |
| Static routes (`StaticRoute.h`, `.py`, `persistRoute`) | `/tmp/backupRoute.dat.N` | getHost, freeData; rewritten every 60 s | files |

Outside: Easy-Reactor (a git submodule, its sources are not in the repository;
its event loops, thread queues and TCP client are modelled from the way the
code uses them), MySQL, protobuf, generated code, logging, examples and load
generators.

What is hard in it, and what makes it correct:

* *Judging hosts.* Six written-out copies of "move this host to the other
  list", unsigned subtractions on counters several report paths advance, early
  returns. Correct: lists and overload flags agree; no counter passes its
  limit between reports; no report leaves stale statistics.
* *Scheduling.* Picks, probes and refusals share one counter while hosts come
  and go. Correct: round robin, nobody starved, refusals only when every host
  is overloaded and never longer than the probe period.
* *Pulling routes.* Two threads, a queue, a connection that drops what is sent
  while it is down, and one mark (`ISPULLING`) that must survive none of the
  losses. Correct: no module is marked without a pull under way; every pull
  ends; the agent's routes converge to the dnsserver's.
* *Publishing routes.* A version in seconds, a change log that is deleted after
  it has been read, subscriptions per connection, pushes filed under file
  descriptors. Correct: every subscriber learns of every change.
* *The client.* Late UDP answers on a socket that modules share, a cached route,
  successes held back. Correct: an answer is taken for its own request or for
  none; results keep their order; the cache converges to the agent's route.
* *The agent's death.* A heartbeat read without a lock, files truncated and
  rewritten in blocks, tables loaded from them. Correct: a live agent is used, a
  dead one noticed; what is served statically is not of an earlier outage, and
  nothing that has stayed in its file is withheld.
* *Reports.* Two processes, a connection and a thread per group of modules
  between a report and its row. Correct: rows only go forward, and stay behind
  only for a loss.

`PROJECT.json` lists these hazards line by line with the properties that cover
them.

## 2. Modules

| Module | Models | Notes |
|---|---|---|
| `HostLoad` | `struct HI` and every judgement on it, as operators on records | no state |
| `LB` | class `LB` with the RouteLB calls that reach it | EXTENDS `HostLoad` |
| `Dispatcher` | what an `LB` promises its clients (abstract) | instantiated by `LB` |
| `MCLB` | TLC instance of `LB` | symmetry, a check of `Without` |
| `LBProofs` | theorems on `LB` | EXTENDS `LB`, `TLAPS` |
| `RouteLB` | the agent's threads, queues, marks and versions, its connection to the dnsserver | an LB is its set of hosts |
| `MCRouteLB` | TLC instance of `RouteLB` | gives `Shard` and `Routes` |
| `RouteLBProofs` | theorems on `RouteLB` | EXTENDS `RouteLB`, `TLAPS` |
| `DnsServer` | operators, loader thread, subscription and push lists, workers | the database is three variables |
| `RouteFeed` | what the dnsserver promises the agents (abstract) | instantiated by `DnsServer` |
| `MCDnsServer` | TLC instance of `DnsServer` | symmetry |
| `DnsProofs` | theorems on `DnsServer` | EXTENDS `DnsServer`, `TLAPS` |
| `FeedProofs` | `DnsServer` implements `RouteFeed` | EXTENDS `DnsProofs` |
| `ApiClient` | both client APIs: cache, held results, requests and answers on one socket | the agent is what it answers |
| `MCApiClient` | TLC instance of `ApiClient` | gives `HostsOf` |
| `ApiProofs` | theorems on `ApiClient` | EXTENDS `ApiClient`, `TLAPS` |
| `SocketProofs` | what a client reads is the answer to its request | EXTENDS `ApiProofs` |
| `StaticRoute` | heartbeat, persistRoute, the clients' `StaticRoute` | the agent is its routes |
| `MCStaticRoute` | TLC instance of `StaticRoute` | gives `Lines` |
| `StaticProofs` | theorems on `StaticRoute` | EXTENDS `StaticRoute`, `TLAPS` |
| `Reporter` | reptQueue, the reporter client, the reporter and its table | a report is its time |
| `MCReporter` | TLC instance of `Reporter` | gives `HostsOf`, `Column`, `HashTo` |
| `ReporterProofs` | theorems on `Reporter` | EXTENDS `Reporter`, `TLAPS` |

### LB and HostLoad

Every handler holds its RouteLB's mutex from the lookup to the answer, so a
handler is an action: `GetHost` (with its disjuncts `Pick`, `Probe`, `Refuse`),
`Report(h, n)`, where `n` is the number of errors the cost of the call counts
for (0 a success, 1 `LB::report`, more `reportSomeErr`), `Update(S)`, `Delete`
and `Tick`. `batchReport` is a loop of judgements under one lock:
`BatchBegin`, `BatchOne` in any order of hosts, `BatchEnd`; `batching` is the
mutex. `Report2Rpter` is part of the report actions. `Update` takes a leaving host
out of the list its flag names, as the code does, so a flag that disagreed with
the lists would leave it in one. The written-out moves of a judged host are one
operator, `Settle`: they are alike in the code, and a slip in a single one of them
could not show. `HostLoad` computes the
record a report leaves: count, judge, then `AgeCheck` (the window of an idle
host, the waiting time of an overloaded one), with the early returns of
`LB::report` and without them in the batch paths, as in the code.

`answer` and `reptQueue` are what the last step sent. Rates are integers in
units of `1/RateUnit`; `needErr`/`needSucc` are the exact ceilings the code
computes by truncating and correcting. One handler reads one second, although
the code calls `time()` several times.

### Dispatcher

Two sets of hosts, a patience and an answer: a host of the route is handed out
or the request is refused, refusals and idle answers use up patience while a
host is down, at zero an overloaded host must be handed out; one host at a time
changes sides and only on a report; a new route keeps every judgement. `LB`
implements it with `idle`/`down` the sets of its lists and
`patience = ProbeNum - accessCnt` (`KeepsPromise`).

### RouteLB

An LB is `[hosts, pulling, expired, version]`. The UDP threads do `GetHost`,
`GetRoute`, `CacheGetRoute`; the latter two copy pointers under the mutex and
read them in later steps (`ReadHost`), and `Free` records which of the pointers
still to be read have been deleted. `cached` is the copy of a caching client per
module: the hosts, the version it will name in its next request, and the second it
copied them in. `Routes` are the routes the dnsserver may have for a module. The
dnsserver client thread is one event
loop (`Looping`): `NewPullReq`, `RecvRoute`, `Connect` followed by one
`ClearPulling` per RouteLB, `Disconnect`. A failed assertion sets `aborted` and
stops the agent. The dnsserver is what the agent sees of it: `DnsAnswer`,
`DnsChange` (a reload makes a route visible), `DnsFile` (the loader files the
pushes for it, later, for those who subscribe by then), `DnsPush`. A push can be
missing (a change found by the periodic reload) or belong to an earlier
connection with the same file descriptor, which is free for the next one when
`DnsUnsubscribe` has gone through the modules of the lost one.

### DnsServer

`Commit` is a transaction of `ModOperator.py`; its stamp is any second, because
the process reads the clock before the transaction and may be overtaken. The
loader thread is `dataLoader` query by query: `LoadVersion`, `Reload`, `Swap`,
`LoadChanges`, `Push`, `RunTask`, `RmChanges`, or a periodic `Reload` and
`Swap`; each query may fail. A look at an unchanged version is no step. A worker
is one event loop: what it does over several steps is in `busy` (a request
between subscription and answer, a `pushChange` between fetching the push lists
and the last send, a `clearSubscribe` between its unsubscriptions). The lists
are sets of `<<fd, mod>>`; a push list outlives its connection. `told` is what
was last sent to a subscriber, `everEmpty` and `owed` are history variables.

### RouteFeed

The dnsserver as `RouteLB` takes it, for any number of connections, with the names
of `RouteLB`'s actions: answers and pushes with the visible route, pushes filed for
all who subscribe, none forgotten or invented, lost connections (`gone`) that lose
their subscriptions one by one and can still have pushes filed. `DnsServer`
implements it (`KeepsFeed`) with `dns` the map `*_data`, `subs` the list `bookl`,
`filed` the push lists and the workers' news, `gone` the connections a worker is
closing. `RouteLB` adds the TCP connection in between and its own bounds.

### ApiClient

One object of either client (`language`), used by one thread as the API demands,
and the modules whose `(modid + cmdid) % 3` gives the same socket. `call` is what
the thread waits for: the route of a module that is not cached (`fetch`), a
route older than two seconds (`refresh`), a host (`host`) or the hosts of
`apiGetRoute` (`route`). `Query`, `Ask` and `ApiGetRoute` send, `RecvRoute4Cache`,
`RecvHost` and `RecvRoute` read one packet each, `Timeout` is a `recvfrom` that
gives up. A refresh goes on whatever it has read, a fetch fails with it.
`requests` and `inbox` are the socket's two directions; an answer that comes
after its timeout is just still there. `Serve` is the end of `apiGetHost` for
what the cache then has. `due` is a history variable: the results in the order
they were made, less those that have been sent. A cached item has its age
instead of `lstUpdTs`, and `version` counts the seconds in which the route has
changed, so all changes of one second (`changed` counts them) share one. The
history variable `hasty` says that some route has changed three times in a
second. The agent is reduced to a route, its version and whether a host of it is
overloaded.

The Python client differs in the initial `_agentOff`, in `Readable` (once it
drains late answers it compares their id with that of the request) and in
`AnswersCall` (it does not compare the module), and has no `apiGetRoute`.

### StaticRoute

`RecordTs` and `Tick` are the heartbeat: a second does not pass while a running
agent's beat is more than `Jitter` old. `die()` is two readings, `LookAtClock`
first or, as C++ leaves the order open, `LookAtBeat`; `Dead` compares them as
each language does, modulo 2^64 in C++. Besides the value it has read, `look`
keeps as history whether the agent has run ever since (`live`), how long it had
been dead if it still is (`down`), and the clock and its steps back at the first
reading (`began`, `steps`). `PersistOpen` truncates, `PersistPrint`
copies the routes under the mutex, `PersistFlush` hands some of the lines to the
kernel, the last time all of them. Nobody looks at the result of a write:
`PersistFails` leaves a part of the block, which may end in half a line, and ends the
writing for this minute. A failing `fopen` changes nothing and is no step. `Crash`
may come between any two of them and leaves the files as they are. Two history
variables look at the files from when the client last saw the agent alive: `seen` is
what has been in one at some time since, `steady` the lines that have been in theirs
all the time. `Restart` is the first beat and the start of the UDP threads in one
step; the threads start a moment earlier in the code, and their first write is a
minute later. `FindAlive` and `GetHost`
are the two ways `apiGetHost` can begin; after `FindAlive` it is `ApiClient`'s
`ApiGetHost`, and after `GetHost` its `ApiGetHostStatic`. `Loads` is what a client
gets from the files: the C++ client all of them, half a line included; the Python
client may fail in the middle, and its next call serves what was read before.

### Reporter

A report is `[mod, ts, hosts]`. `Report2Rpter` is the handler with its early
return; it reads the clock once for `lstRptTime` and again for the `ts` it sends
(`RouteLb.cc:610` and `:618`), and a second may begin in between, so consecutive
reports are `ReportTimo - 1` apart at least. `queries[t]` are the reports a thread
has taken, the first with the hosts still to write. `NewReportReq` is the agent's
client thread, `ReportStatus` the reporter's main thread, `RecvMsg` and `Query` the
database threads, one query per host. `Disconnect`, `AgentCrash` and `ReporterCrash`
lose what is on the way, `Query` may fail and have been done nonetheless. `last` and
`lost` are history variables.

### How the modules meet

`RouteLB` assumes of the dnsserver what `RouteFeed` says and `DnsServer` is proved to
implement; `ApiClient`
assumes of the agent an answer per request with the route, version and overload
of `RouteLB` and `LB`; `StaticRoute`'s `Learn` is `RouteLB`'s `Update`; `Reporter`'s
`Report2Rpter` is the one of `LB` without counters. They are checked side by side
and not as one product: each adds queues of its own, and two of the smallest
instances together are beyond TLC.

## 3. Runs

| Run | Instance | Shows |
|---|---|---|
| `lb_safety` | 2 hosts, 3 seconds, 3 results per window, limits of 2, rates in quarters | `TypeOK`, `ListsPartition`, `BelowLimits`, `JudgementsFresh`, `KeepsPromise` |
| `lb_live` | 3 hosts, limits of 1, one result per window | `RoundRobin`, `Probed`, `Scheduled` |
| `lb_err_rate` | 1 host | violation: an idle host above the failure rate |
| `routelb` | 1 module whose route is empty, `{h1}` or `{h1, h2}`, 2 RouteLBs, 2 route changes, 1 lost connection, 2 seconds | `TypeOK`, `PullAccounted`, `CopiesCurrent`, `PullResolved`, `RoutesConverge` |
| `routelb_abort` | no change, no loss | violation: `assert(lb->status == LB::ISPULLING)` |
| `routelb_dangling` | 1 change | violation: a deleted host is read |
| `dns_safety` | 1 module, 2 connections on 2 workers, 2 transactions with stamps in 2 seconds, 1 failed query | `TypeOK`, `OwedOnTheirWay`, `NeverWiped`, `KeepsFeed` |
| `dns_live` | the same with 1 connection | `AgentsConverge` |
| `api` | 2 modules on a socket, one of which the agent never has, 1 host, 1 late or lost packet, 2 changes at the agent, 2 results, `_seqid` wrapping at 3 | `TypeOK`, `OrderKept`, `FrontExists`, `OwnHosts`, `FreshAnswer`, `CacheConverges` |
| `api_stuck` | 1 module with an overloaded host, 1 late answer | violation: `apiGetHost` fails for ever |
| `static` | 2 files with 3 lines, 1 change of the routes, 1 death of the agent, 1 failing write, 1 step back of a clock of seconds 0 to 3, a threshold of 2 | `TypeOK`, `LiveAgentUsed`, `DeadNoticed`, `StaticFresh`, `StaticComplete` |
| `reporter` | 2 modules on 2 threads, one with 2 hosts that share a row, a report every 2 of 5 seconds, 3 changes of routes, 2 faults | `TypeOK`, `RowsAdvance`, `RowsCatchUp` |

**Bounds.** `MaxCnt` bounds the real results of a host in one window; three
results reach every limit of the safety instance by every route (two errors in
a row, a rate of 3/4, two bad windows, one weighted error). Hosts do not share
counters, so two of them show every interplay of lists and batches; the third
of `lb_live` is there for the orders of the lists. `MaxNow` covers the window,
the waiting time and the report period. In `routelb` the RouteLBs share only
the event loop that clears them one after the other, so one module on the last
of two shows the interleavings of clearing; two changes and a loss give answers
and pushes of three generations; `drops` and `changes` are the only counters. The
three routes have every kind of change among them, a host that joins, one that
leaves, a deletion and a return, and a client's copy can be of each.
In `dns_safety` modules share nothing but the loader's pass, so one is enough
for who is told what; two connections on two workers give every order of tasks,
fetches and closes, and two transactions overlap one pass with the next.
In `api` one late packet is enough to shift every later answer on the socket, and
the second module is there to read the answers of the first (it has no hosts of its
own here; that each keeps to its own when both have some is what `ApiOwnHosts` and
`AnswersAreFresh` prove); two changes give a
cached route three states, a result held back is followed by one more; a
sequence number that wraps at 3 wraps within a few calls. In `static` a client
that has loaded the files can find the agent alive, and find it dead again, with
one death, because the C++ comparison wraps; three lines in two files and a failing
write make every kind of missing, short and torn file; the last second is the first
that is past the threshold. In `reporter` the second report of a module
may follow a crash and a new route; two faults lose a report and break what
carries the next one.

**Fairness.** `LB`: a handler that holds the mutex goes on (weak fairness on
`BatchStep`); clients keep asking and one thread serves the requests of a
module in their order of arrival, so `GetHost` is served again and again (strong
fairness, because batches take the mutex in between). `RouteLB`: every thread
runs its handlers, the dnsserver answers, clears and pushes, the TCP client reconnects,
clients keep asking for every module (strong, since an idle thread is needed),
routes expire. `DnsServer`: the loader and the workers run, the load interval
passes, agents repull (strong, since their worker may be
busy). `ApiClient`: the program goes on asking for hosts of each module and finds
the agent alive again and again (strong, since other calls come in between), the
agent answers, `recvfrom` has a timeout, seconds pass. `Reporter`: the event loops
run the callbacks of what has arrived; nothing makes the client connect. Nothing
forces changes, losses, or requests other than these. `StaticRoute` has only safety
properties.

`routelb` and its violation runs switch the deadlock check off: after an
assertion the process is gone.

**Findings.** (1) `lb_err_rate`: `reportSomeErr` compares the errors of one request
with all successes and ignores the errors already counted, so a host can stay
idle above the documented failure rate. (2) `routelb_abort`: `clearPulling` clears
the mark of an LB that is still empty and the next request for it aborts the
agent; it takes a request before the first connection is up, or a reconnection
before the first answer. (3) `routelb_dangling`: hosts are read after the mutex is
released. (4) `api_stuck`: `getRoute4Cache` does not drain late answers as
`apiGetHost` does. A refresh that times out once leaves the socket one answer
ahead; while the module is overloaded each call then sends two requests, reads
two answers of other requests, fails, and leaves the cache as old as it was.

**Behaviours the passing properties leave room for**, each a disjunct or an
exception in them: two updates of a route in one second share a version, and a client
that copied the first of them keeps it until the next change (`CopiesCurrent` excepts
copies made in the second of their version, `Current` compares versions);
a change committed in the second of the
loaded version is removed from the change log unpushed, and agents learn of it
by repulling (`AgentsConverge`); the push list of a closed connection is
delivered to the next one with its descriptor, whose agent ignores it unless it
knows the module (`RoutesConverge`); after a late answer to a client of a module
without overload nothing drains the socket, and every other refresh of its cache
fails (`CacheConverges` asks for an empty socket); a beat between the two
readings of `die()`, or a clock set back, makes a C++ client find a live agent
dead, and a clock set back by more than the threshold between the two readings
makes any client do so, when a beat is read that was written after it
(`LiveAgentUsed`); a route that is replaced, deleted and added again in one second
has the same version before and after, and an answer without hosts, meant for who
has that version, can then meet a client that has forgotten the route in between:
it makes a cached route with no hosts and takes `front()` of an empty list
(`FrontExists`, with three changes at the agent); an agent that dies while it writes a
file, or a full disk, leaves an empty, short or torn one, and an agent that has
restarted writes only what it has learned since: what is lost from a file so is lost to
the clients until the next `persistRoute` (`StaticComplete` speaks of the lines that
stay); the Python client stops at a missing file or at half a line, and then serves what
it has read before it (the second exception of `StaticComplete`). The results that a
client drops while its `_agentOff` is set were never held back, and no property speaks
of them.

## 4. Proofs

The theorems hold for every value of the constants that satisfies the named
assumptions of the modules: well-formed bounds, `HostsOf` and `Column` and the like
within their sets, a finite set of hosts where the code has a list of them
(`ApiClientAssumption`), and return codes that are not hosts (`ValuesDistinct`). One
theorem, `AnswersAreFresh`, has a hypothesis of its own.

### LBProofs

* `TypeCorrect`: `Spec => []TypeOK`
* `ListsPartitionTheRoute`: `Spec => []ListsPartition`
* `HostsStayBelowLimits`: `Spec => []BelowLimits`
* `ReportsLeaveFresh`: `Spec => JudgementsFresh`
* `LBKeepsPromise`: `Spec => KeepsPromise`, the refinement of `Dispatcher`
* `SchedulingIsRoundRobin`: `Spec => RoundRobin`

None of the first three is inductive alone. `IInv` adds what each needs of the
others: each record is in `HI` with its timestamps not after `now` and its counters
below their limits (`HostsInv`), and the lists, the batch and the clock are well
formed (`RestInv`). A lemma per judgement shows that the record it leaves is good; a
lemma on `Without`, `Rotate`, `Listings` and concatenation says what they do to
lists without repetition; `SettleFacts` puts them together for a move between the
lists; then one lemma per action. `BelowLimits` is where the order of the judgements
matters: a counter at its limit is judged in the step that brings it there, because
the run of results is tested in every path.

`JudgementsFresh` needs for each path that it either ends in `AgeCheck` or starts
the window or the waiting time anew. The refinement needs that nothing is
answered during a batch (`BatchInv`) and that `accessCnt` is within the probe period
(`PatienceFacts`); one lemma per action maps it to an action of `Dispatcher` or a
stutter. `RoundRobin` rests on what the list operations
do to the order of two hosts; it needs `ListsPartition`, because a host that were in
a list twice would be in front of and behind every host between.

`Without` and `Listings` are written without recursion so that the proofs can use
them; `MCLB` has TLC compare `Without` with `SelectSeq`.

### DnsProofs and FeedProofs

* `DnsTypeCorrect`: `Spec => []TypeOK`
* `AgentsNeverWiped`: `Spec => []NeverWiped`
* `PushesNotLost`: `Spec => []OwedOnTheirWay`
* `DnsServerFeeds`: `Spec => KeepsFeed`, the refinement of `RouteFeed`

`IInv` adds four conjuncts. `WorkersInv`: a worker's news are of its own connections
and it closes only those, and the agent of a connection that is being closed is told
nothing more; without it `Closed` could strand a push. `SubscribersInv`: a subscribed
connection is open, and whoever was told or is owed is subscribed; so `Push` finds
everyone who is owed and `RunTask` wakes the right worker. `MapsInv`: the visible
map, and the spare one while the loader is about to swap it in, have an empty route
only where the table had one. `EarlyInv`: nothing is pushed before the first load,
when the map is empty for another reason. `Kinds` tells apart what a worker can be in
the middle of; `OneTurn` and `OneSend` say what a worker's step changes; one lemma per
action.

Most steps of the refinement are stutters or one action of `RouteFeed`; the two that
need the invariant are a push, which is never to a connection that is gone, because
only the worker of the connection has it and that worker is not closing
(`WorkersInv`), and the opening of a descriptor, which is then not among those being
closed.

### RouteLBProofs

* `RouteTypeCorrect`: `Spec => []TypeOK`
* `PullsAccountedFor`: `Spec => []PullAccounted`
* `VersionsTellRoutes`: `Spec => []CopiesCurrent`

`PullAccounted` is inductive with `TypeOK`. `Requested` is what all requests have in
common (whatever they mark is in the queue), `UpdateFacts` what an answer or push
does (its own mark goes, no other does); each step of the client thread hands a pull
on from one of the five places of `Accounted` to the next, or loses the connection,
which makes every mark one to be cleared.

`CopiesCurrent` needs that no version and no copy is of a second to come, and that a
copy is no older than its version (`VersionsInv`): a version made in this second can be
met only by copies of this second, and a copy made later than its version is of a route
that can no longer change without getting another. `Copied` says what a step may do to
the copies, `Versioned` what it may do to the routes, a deletion and a new, empty LB
included; `CopiesStep` puts the two together.

### ApiProofs

* `ApiTypeCorrect`: `Spec => []TypeOK`
* `ApiKeepsOrder`: `Spec => []OrderKept`
* `ApiOwnHosts`: `Spec => []OwnHosts`
* `ApiFrontExists`: `Spec => []FrontExists`

The four have one inductive invariant. `OrderKept` needs `Results`: nothing is held
for a module that is overloaded, that has no successes counted, or that is being
refreshed (`batchReportRes` has just sent it), so replacing or deleting the item
loses nothing. `OwnHosts` needs that every answer on the socket has hosts of its own
module (`OwnAnswers`); the check of the module in `getRoute4Cache` does the rest.

`FrontExists` is the deep one. An answer has no hosts when the request named the
agent's version, and is safe when the cache still has that version as the answer is
read. `Versions` says why it does: no version is ahead of the agent's (`NotAhead`);
while the agent has the route, whoever has its version keeps it, because no answer
that is still unread says anything else (`KeptWhilePresent`); a version that a route
got by being deleted in this second is seen by nobody (`UnseenWhenDeleted`); and an
empty answer finds its version in the cache and in every answer in front of it
(`EmptyMeetsItsVersion`). All of that is for runs in which no route has changed three
times in a second (`hasty`), and it is false without: see the behaviours in section 3.

### SocketProofs

* `AnswersAreFresh`: if `MaxFault < SeqLim` then `Spec => FreshAnswer`

`_seqid` is all that tells an answer from a late one, and it wraps. `Line` looks at
the packets between client and agent as one queue. Their number is bounded by the
faults so far, since a call that waits has one packet of its own and every other has
outlived its call by a timeout; and each packet of a `GetHostReq` that is `k`-th in
the queue and `n` requests old has cost `k + n - 1` faults at least. A packet with the
number of the waiting call is therefore that call's own, and the last in the queue:
to have the same number and be older it would have to be `SeqLim` requests old. So it
is also for the module that was asked for, which the Python client does not compare. The
hypothesis is sharp: with as many faults as numbers TLC finds a wrapped number that
takes a late answer for its own. In the code that is 2^32 timeouts (2^31 in Python).

### StaticProofs

* `StaticTypeCorrect`: `Spec => []TypeOK`
* `ServedHostsAreFresh`: `Spec => StaticFresh`
* `ServedTablesAreComplete`: `Spec => StaticComplete`
* `DeathIsNoticed`: `Spec => DeadNoticed`
* `LifeIsNoticed`: `Spec => LiveAgentUsed`

`IInv` adds that whatever is in a file or in the client's table has been in a file
since the client last saw the agent alive (`SeenInv`), which holds only because
`FindAlive` empties the table in the step that forgets what was seen; that the steady
lines are in the files, and in the client's table unless that is empty or a Python
client has met a missing or torn file (`SteadyInv`, which needs that a thread writes only
its own lines, `OwnLines`, and that a missing file has been seen missing, `GapsInv`); that the age of
the beat is at least the time since the agent's death less the steps of the clock, and
at most `Jitter + 1` while it runs (`HeartInv`); and what a first reading is still
worth when the second is made, one part for each order of reading (`ClockInv`,
`BeatInv`). The subtraction wraps in C++ only when the beat is after the clock, which
these bound by the steps of the clock.

### ReporterProofs

* `ReporterTypeCorrect`: `Spec => []TypeOK`
* `ReporterRowsAdvance`: `Spec => RowsAdvance`

The reports of a module pass four queues: the agent's, the connection, its thread's,
and what that thread has taken. `InLine` says that they and the rows are in order of
age, each report `ReportTimo - 1` seconds after the one before, and that the next one
will be later than all of them (`Past`), also when the route has been deleted and come
back, or the agent has been restarted. `OwnThread` gives the one thread that a
module's reports go through; without it two threads could overtake each other.

### What the proofs have found about the models

Four properties were true on their instances for a bound's sake and are now stated as
they are: `FrontExists` (false from three changes in one second on), `LiveAgentUsed`
(a clock set back by more than the threshold between two readings deceives the Python
client as well), `DeadNoticed` (an agent restarted and dead again while a client was
between its readings was taken for one that had been dead all the time), and
`FreshAnswer` (`MaxFault < SeqLim`, which `Api.cfg` satisfies). The distance of the rows
in `RowsAdvance` follows the second reading of the clock in `report2Rpter`.

### Only model-checked

Liveness under fairness is out of the prover's reach: `Probed`, `Scheduled`,
`PullResolved`, `RoutesConverge`, `AgentsConverge`, `CacheConverges`, `RowsCatchUp`. Every
other property of the passing runs has a theorem. That `Without` is
`SelectSeq`, which is recursive, is compared by TLC on small lists.

## 5. Plan

Every component of section 1 has its module, runs and theorems; every invariant and
action property that is checked is proved. What is left:

1. The safety half of the liveness properties, which is in reach of the prover: that
   a host of the down list is `ProbeNum` answers from a probe at most, that a module
   asked for after its mark has gone is pulled again, that what a row lacks is on the
   way or lost.
2. For the violation runs, when the flaw cannot bite, as theorems: that the agent
   aborts only after `ClearPulling` has cleared the mark of an empty LB, and that a
   host is idle above the failure rate only after `reportSomeErr`.
3. `StaticRoute`, `ApiClient` and `Reporter` have no abstract specification; one for the
   client (a host of the last route seen, results in order) could be stated over
   `ApiClient` and proved from its `IInv`.

## 6. Not modelled

Logging, parsing and formats of messages, configuration, the MySQL client's
errors other than failure, memory exhaustion, the examples and benchmarks, and
generated and third-party code. The wrap of 32-bit call counters within one
window (15 s) is out of reach of the code; float rounding at a rate boundary
moves a judgement by at most one result. Durations of calls (`_tsget`) and the
counters of status reports are left to their modules' abstractions.

Most of the lines under `src/` are not the system's own: the headers of the MySQL
client in `common/mysql-connector-c` and the generated `elb.pb.*`, `elb_pb2.py` make
up about nine tenths of them and have no behaviour to specify. The programs
themselves are some 3500 lines; what no module mentions of them is logging, the
socket and message boilerplate around the mapped code, Easy-Reactor's
configuration reader, test drivers and load generators.
