----------------------------- MODULE ApiClient ------------------------------
(***************************************************************************)
(* The client API: class elbClient of api/cpp/elbApi and of                *)
(* api/python/elbApi.  A client is used by one thread.  It caches the      *)
(* routes of modules, hands hosts out round robin while no host of the     *)
(* module is overloaded, holds the results of successful calls back, and   *)
(* asks the agent over UDP for everything else.                            *)
(*                                                                         *)
(* The modules here have the same (modid + cmdid) % 3, so they share one   *)
(* socket: an answer that comes after its timeout is read by the next      *)
(* request on it, of whatever kind and module.  The agent is reduced to    *)
(* what it answers (module RouteLB): a route with a version, and whether a *)
(* host is overloaded.  Loopback UDP keeps the order; buffers may overflow.*)
(***************************************************************************)
EXTENDS Integers, Sequences, FiniteSets, SequencesExt

CONSTANTS
    Mods,        \* the modules <<modid, cmdid>> of one socket
    Hosts,       \* the hosts routes are made of
    HostsOf(_),  \* the hosts a module may have
    NoItem,      \* not in the cache
    SeqLim,      \* where _seqid wraps (2^32; 2^31 in Python)
    MaxFault,    \* bound: packets lost or answered after the timeout
    MaxChange,   \* bound: changes of routes and overloads at the agent
    MaxReport    \* bound: results reported

ASSUME ApiClientAssumption ==
    /\ IsFiniteSet(Hosts) /\ \A m \in Mods : HostsOf(m) \subseteq Hosts
    /\ SeqLim \in Nat \ {0}
    /\ {MaxFault, MaxChange, MaxReport} \subseteq Nat

\* What the calls return besides hosts: -9999, -9998 and -10000, front() of an
\* empty list, and nothing yet.
Failed   == "failed"
NoExist  == "no exist"
Overload == "overload"
Garbage  == "garbage"
Pending  == "pending"
Codes    == {Failed, NoExist, Overload, Garbage, Pending}

Absent == -1     \* the version of a route the agent does not have
Fresh  == 2      \* a cached route is good for that many seconds

VARIABLES
    language,  \* which of the two clients this is
    cache,     \* _cacheLayer
    call,      \* the call that waits for an answer
    ret,       \* what the last call has returned
    seq,       \* _seqid
    agentOff,  \* _agentOff
    due,       \* history: the results made and not yet sent, per module and host
    requests,  \* on the socket, to the agent
    inbox,     \* on the socket, to the client
    route,     \* the agent's route of a module, empty if it has none
    overload,  \* some host of the route is overloaded
    version,   \* the version of the route
    changed,   \* how often the route has changed in this second
    hasty,     \* history: a route has changed three times in a second
    faults, changes, reports

clientVars == <<cache, call, ret, seq, agentOff, due, reports>>
netVars    == <<requests, inbox, faults>>
agentVars  == <<route, overload, version, changed, hasty, changes>>
vars       == <<language, clientVars, netVars, agentVars>>

\* A CacheUnit: the list of hosts, its version and its age in seconds, the
\* successes held back for each host and their number.
Item == [hosts : Seq(Hosts), overload : BOOLEAN, version : 0..MaxChange,
         age : 0..Fresh, held : [Hosts -> Nat], succCnt : Nat]

ASSUME ValuesDistinct == Hosts \cap Codes = {} /\ NoItem \notin Item

Zero == [h \in Hosts |-> 0]

Idle == [op |-> "idle"]
Gone == [op |-> "gone"]
Ready   == call = Idle
Waiting == call \notin {Idle, Gone}

CacheReq(m, v) == [kind |-> "cache", mod |-> m, version |-> v]
HostReq(m, n)  == [kind |-> "host", mod |-> m, seq |-> n]
RouteReq(m)    == [kind |-> "route", mod |-> m]

Init ==
    /\ language \in {"C++", "Python"}
    /\ cache = [m \in Mods |-> NoItem]
    /\ call = Idle /\ ret = NoExist /\ seq = 0
    /\ agentOff \in IF language = "C++" THEN BOOLEAN ELSE {TRUE}
    /\ due = [m \in Mods |-> [h \in Hosts |-> <<>>]]
    /\ requests = <<>> /\ inbox = <<>>
    /\ route \in [Mods -> SUBSET Hosts]
    /\ \A m \in Mods : route[m] \subseteq HostsOf(m)
    /\ overload \in [Mods -> BOOLEAN] /\ \A m \in Mods : route[m] = {} => ~overload[m]
    /\ version = [m \in Mods |-> 0]
    /\ changed = [m \in Mods |-> 0] /\ hasty = FALSE
    /\ faults = 0 /\ changes = 0 /\ reports = 0

-----------------------------------------------------------------------------
(* Results.                                                                *)

\* The results due of m once the first n[h] of each host have been sent.
Sent(m, n) == [h \in Hosts |-> SubSeq(due[m][h], n[h] + 1, Len(due[m][h]))]

Holds(m) == cache[m] # NoItem /\ cache[m].succCnt # 0

Flushed(m) ==
    IF Holds(m) THEN [cache[m] EXCEPT !.succCnt = 0, !.held = Zero] ELSE cache[m]

Owed(m) == IF Holds(m) THEN Sent(m, cache[m].held) ELSE due[m]

\* batchReportRes.
BatchReportRes(m) ==
    /\ cache' = [cache EXCEPT ![m] = Flushed(m)]
    /\ due' = [due EXCEPT ![m] = Owed(m)]

\* A ReportReq with the result r for h is sent, S being what is due besides.
SendResult(m, h, r, S) ==
    due' = [due EXCEPT ![m] = [S EXCEPT ![h] = Tail(Append(@, r))]]

\* CacheUnit::report of a success: nothing is kept for a host that has left.
Holding(item, h) == [item EXCEPT !.held[h] = @ + 1, !.succCnt = @ + 1]

Hold(m, h) ==
    IF h \in ToSet(cache[m].hosts)
    THEN /\ cache' = [cache EXCEPT ![m] = Holding(cache[m], h)]
         /\ due' = [due EXCEPT ![m][h] = Append(@, 0)]
    ELSE UNCHANGED <<cache, due>>

RouteIsCalm(m) == cache[m] # NoItem /\ ~cache[m].overload

\* Mutant of ApiReportRes: an error overtakes the successes held back.
ReportUnflushed(m, h, r) ==
    /\ Ready /\ reports < MaxReport
    /\ reports' = reports + 1
    /\ \/ agentOff /\ UNCHANGED <<cache, due>>
       \/ ~agentOff /\ RouteIsCalm(m) /\ r = 0 /\ Hold(m, h)
       \/ /\ ~agentOff /\ (~RouteIsCalm(m) \/ r # 0)
          /\ SendResult(m, h, r, due[m])
          /\ UNCHANGED cache
    /\ UNCHANGED <<language, call, ret, seq, agentOff, netVars, agentVars>>

\* apiReportRes: r is 0 for a success.
ApiReportRes(m, h, r) ==
    /\ Ready /\ reports < MaxReport
    /\ reports' = reports + 1
    /\ \/ agentOff /\ UNCHANGED <<cache, due>>
       \/ ~agentOff /\ RouteIsCalm(m) /\ r = 0 /\ Hold(m, h)
       \/ /\ ~agentOff /\ RouteIsCalm(m) /\ r # 0
          /\ cache' = [cache EXCEPT ![m] = Flushed(m)]
          /\ SendResult(m, h, r, Owed(m))
       \/ /\ ~agentOff /\ ~RouteIsCalm(m)
          /\ SendResult(m, h, r, due[m])
          /\ UNCHANGED cache
    /\ UNCHANGED <<language, call, ret, seq, agentOff, netVars, agentVars>>

\* The destructor.
Exit ==
    /\ Ready
    /\ call' = Gone
    /\ cache' = [m \in Mods |-> Flushed(m)]
    /\ due' = [m \in Mods |-> Owed(m)]
    /\ UNCHANGED <<language, ret, seq, agentOff, reports, netVars, agentVars>>

-----------------------------------------------------------------------------
(* Getting a host.                                                         *)

Return(r) == call' = Idle /\ ret' = r

FrontOf(hosts) == IF hosts = <<>> THEN Garbage ELSE Head(hosts)
Rotate(hosts)  == IF hosts = <<>> THEN <<>> ELSE Append(Tail(hosts), Head(hosts))
Rotated(item)  == [item EXCEPT !.hosts = Rotate(@)]

\* Mutant of Ask: the sequence number does not wrap.
AskForEver(m) ==
    /\ call' = [op |-> "host", mod |-> m, seq |-> seq, again |-> FALSE]
    /\ requests' = Append(requests, HostReq(m, seq))
    /\ seq' = seq + 1
    /\ ret' = Pending

\* A GetHostReq is sent.
Ask(m) ==
    /\ call' = [op |-> "host", mod |-> m, seq |-> seq, again |-> FALSE]
    /\ requests' = Append(requests, HostReq(m, seq))
    /\ seq' = (seq + 1) % SeqLim
    /\ ret' = Pending

\* The end of apiGetHost, when item is what the cache has of m.
Serve(m, item) ==
    \/ /\ item = NoItem
       /\ cache' = [cache EXCEPT ![m] = NoItem]
       /\ Return(NoExist)
       /\ UNCHANGED <<requests, seq>>
    \/ /\ item # NoItem /\ ~item.overload
       /\ cache' = [cache EXCEPT ![m] = Rotated(item)]
       /\ Return(FrontOf(item.hosts))
       /\ UNCHANGED <<requests, seq>>
    \/ /\ item # NoItem /\ item.overload
       /\ cache' = [cache EXCEPT ![m] = item]
       /\ Ask(m)

\* getRoute4Cache sends its request.
Query(m, op, v) ==
    /\ call' = [op |-> op, mod |-> m, age |-> 0]
    /\ requests' = Append(requests, CacheReq(m, v))
    /\ ret' = Pending
    /\ UNCHANGED seq

\* apiGetHost, the agent being alive by its heartbeat.
ApiGetHost(m) ==
    /\ Ready
    /\ agentOff' = FALSE
    /\ \/ /\ cache[m] = NoItem
          /\ Query(m, "fetch", Absent)
          /\ UNCHANGED <<cache, due>>
       \/ /\ cache[m] # NoItem /\ cache[m].age >= Fresh
          /\ BatchReportRes(m)
          /\ Query(m, "refresh", cache[m].version)
       \/ /\ cache[m] # NoItem /\ cache[m].age < Fresh
          /\ Serve(m, cache[m])
          /\ UNCHANGED due
    /\ UNCHANGED <<language, reports, inbox, faults, agentVars>>

\* apiGetHost, the agent being dead: a host of the backup files, if any.
ApiGetHostStatic(m) ==
    /\ Ready
    /\ agentOff' = TRUE
    /\ \E r \in HostsOf(m) \cup {NoExist} : Return(r)
    /\ UNCHANGED <<language, cache, seq, due, reports, netVars, agentVars>>

Take == inbox # <<>> /\ inbox' = Tail(inbox)

\* Mutant of RouteFor: the module of the answer is not looked at.
RouteForAny(p, m) == p.kind = "cache"

\* The packet p is a route for m.
RouteFor(p, m) == p.kind = "cache" /\ p.mod = m

NewItem(p) ==
    [hosts |-> SetToSeq(p.hosts), overload |-> p.overload, version |-> p.version,
     age |-> call.age, held |-> Zero, succCnt |-> 0]

\* Mutants of Updated: a route the agent does not have is taken for an empty
\* one; an overload is only looked at in a new version.
UpdatedWithAbsent(item, p) ==
    IF p.version = Absent
    THEN [NewItem(p) EXCEPT !.version = 0]
    ELSE IF item = NoItem \/ item.version # p.version THEN NewItem(p)
    ELSE [item EXCEPT !.overload = p.overload, !.succCnt = 0, !.age = call.age]

UpdatedByVersion(item, p) ==
    IF p.version = Absent THEN NoItem
    ELSE IF item = NoItem \/ item.version # p.version THEN NewItem(p)
    ELSE [item EXCEPT !.succCnt = 0, !.age = call.age]

\* What getRoute4Cache makes of the cached item when it has the route p.
Updated(item, p) ==
    IF p.version = Absent THEN NoItem
    ELSE IF item = NoItem \/ item.version # p.version THEN NewItem(p)
    ELSE [item EXCEPT !.overload = p.overload, !.succCnt = 0, !.age = call.age]

\* getRoute4Cache reads one packet.  Its failure is the failure of the call
\* when the route is first fetched, and is ignored when it is refreshed.
RecvRoute4Cache ==
    /\ Waiting /\ call.op \in {"fetch", "refresh"}
    /\ Take
    /\ LET m == call.mod
           p == Head(inbox)
       IN  \/ RouteFor(p, m) /\ Serve(m, Updated(cache[m], p))
           \/ /\ ~RouteFor(p, m) /\ call.op = "fetch"
              /\ Return(Failed)
              /\ UNCHANGED <<cache, requests, seq>>
           \/ ~RouteFor(p, m) /\ call.op = "refresh" /\ Serve(m, cache[m])
    /\ UNCHANGED <<language, agentOff, due, reports, faults, agentVars>>

\* A packet the loop for a GetHostRsp can read.  Once in the loop that drains
\* late answers, the Python client looks for the id of the request.
Readable(p) == p.kind = "host" /\ ~(language = "Python" /\ call.again)

\* Mutant of AnswersCall: any readable answer will do.
AnswersAnyCall(p) == TRUE

\* The Python client does not look at the module again.
AnswersCall(p) ==
    p.seq = call.seq /\ (language = "C++" => p.mod = call.mod)

\* apiGetHost reads one packet.
RecvHost ==
    /\ Waiting /\ call.op = "host"
    /\ Take
    /\ LET p == Head(inbox)
       IN  \/ ~Readable(p) /\ Return(Failed)
           \/ /\ Readable(p) /\ AnswersCall(p) /\ Return(p.answer)
           \/ /\ Readable(p) /\ ~AnswersCall(p) /\ p.seq < call.seq
              /\ call' = [call EXCEPT !.again = TRUE]
              /\ UNCHANGED ret
           \/ /\ Readable(p) /\ ~AnswersCall(p) /\ p.seq >= call.seq
              /\ Return(Failed)
    /\ UNCHANGED <<language, cache, seq, agentOff, due, reports, requests, faults,
                   agentVars>>

Fault == faults < MaxFault /\ faults' = faults + 1

\* recvfrom gives up: the answer is late or has been lost.
Timeout ==
    /\ Waiting /\ inbox = <<>>
    /\ IF requests = <<>> THEN UNCHANGED faults ELSE Fault
    /\ \/ call.op = "refresh" /\ Serve(call.mod, cache[call.mod])
       \/ /\ call.op # "refresh" /\ Return(Failed)
          /\ UNCHANGED <<cache, requests, seq>>
    /\ UNCHANGED <<language, agentOff, due, reports, inbox, agentVars>>

-----------------------------------------------------------------------------
(* apiGetRoute, of the C++ client.                                         *)

\* When the agent is dead it returns -1 and does nothing.
ApiGetRoute(m) ==
    /\ Ready /\ language = "C++"
    /\ call' = [op |-> "route", mod |-> m]
    /\ requests' = Append(requests, RouteReq(m))
    /\ ret' = Pending
    /\ UNCHANGED <<language, cache, seq, agentOff, due, reports, inbox, faults,
                   agentVars>>

\* The hosts of the answer go to the caller, whatever module they are of.
RecvRoute ==
    /\ Waiting /\ call.op = "route"
    /\ Take
    /\ Return(IF Head(inbox).kind = "route" THEN NoExist ELSE Failed)
    /\ UNCHANGED <<language, cache, seq, agentOff, due, reports, requests, faults,
                   agentVars>>

-----------------------------------------------------------------------------
(* The agent, the socket and the clock.                                    *)

CacheAnswer(p) ==
    LET m == p.mod
    IN  [kind |-> "cache", mod |-> m, overload |-> overload[m],
         version |-> IF route[m] = {} THEN Absent ELSE version[m],
         hosts |-> IF version[m] = p.version THEN {} ELSE route[m]]

HostAnswers(p) ==
    [kind : {"host"}, mod : {p.mod}, seq : {p.seq},
     answer : IF route[p.mod] = {} THEN {NoExist}
              ELSE IF overload[p.mod] THEN route[p.mod] \cup {Overload}
              ELSE route[p.mod]]

Answers(p) ==
    CASE p.kind = "cache" -> {CacheAnswer(p)}
      [] p.kind = "host"  -> HostAnswers(p)
      [] p.kind = "route" -> {p}

AgentServe ==
    /\ requests # <<>>
    /\ requests' = Tail(requests)
    /\ \E p \in Answers(Head(requests)) : inbox' = Append(inbox, p)
    /\ UNCHANGED <<language, clientVars, faults, agentVars>>

\* A route changes, which gives it the second as its version, or the state of
\* its hosts does.
AgentChange(m, S, ov) ==
    /\ changes < MaxChange
    /\ <<S, ov>> # <<route[m], overload[m]>> /\ (S = {} => ~ov)
    /\ changes' = changes + 1
    /\ route' = [route EXCEPT ![m] = S]
    /\ overload' = [overload EXCEPT ![m] = ov]
    /\ IF S = route[m] THEN UNCHANGED <<version, changed, hasty>>
       ELSE /\ version' = [version EXCEPT ![m] = IF changed[m] = 0 THEN @ + 1 ELSE @]
            /\ changed' = [changed EXCEPT ![m] = @ + 1]
            /\ hasty' = (hasty \/ changed[m] >= 2)
    /\ UNCHANGED <<language, clientVars, netVars>>

Lose ==
    /\ Fault
    /\ \/ /\ requests # <<>> /\ requests' = Tail(requests) /\ UNCHANGED inbox
       \/ /\ inbox # <<>> /\ inbox' = Tail(inbox) /\ UNCHANGED requests
    /\ UNCHANGED <<language, clientVars, agentVars>>

\* A second passes; getRoute4Cache waits 50 ms, so at most one while it does.
Older(age) == IF age = Fresh THEN Fresh ELSE age + 1
Aged(item) == IF item = NoItem THEN NoItem ELSE [item EXCEPT !.age = Older(@)]

Tick ==
    /\ \/ call.op \notin {"fetch", "refresh"} /\ UNCHANGED call
       \/ /\ call.op \in {"fetch", "refresh"} /\ call.age = 0
          /\ call' = [call EXCEPT !.age = 1]
    /\ cache' = [m \in Mods |-> Aged(cache[m])]
    /\ changed' = [m \in Mods |-> 0]
    /\ UNCHANGED <<language, ret, seq, agentOff, due, reports, netVars, route,
                   overload, version, hasty, changes>>

Next ==
    \/ \E m \in Mods :
          \/ ApiGetHost(m) \/ ApiGetHostStatic(m) \/ ApiGetRoute(m)
          \/ \E h \in HostsOf(m), r \in {0, 1} : ApiReportRes(m, h, r)
          \/ \E S \in SUBSET HostsOf(m), ov \in BOOLEAN : AgentChange(m, S, ov)
    \/ RecvRoute4Cache \/ RecvHost \/ RecvRoute \/ Timeout
    \/ Exit
    \/ AgentServe \/ Lose \/ Tick

\* The program goes on calling apiGetHost for each of its modules, and again
\* and again finds the agent alive; the agent answers; recvfrom has a timeout.
Fairness ==
    /\ \A m \in Mods : SF_vars(ApiGetHost(m))
    /\ WF_vars(RecvRoute4Cache) /\ WF_vars(RecvHost) /\ WF_vars(RecvRoute)
    /\ WF_vars(Timeout) /\ WF_vars(AgentServe) /\ WF_vars(Tick)

Spec == Init /\ [][Next]_vars /\ Fairness

-----------------------------------------------------------------------------
(* Properties.                                                             *)

Calls ==
    {Idle, Gone}
    \cup [op : {"fetch", "refresh"}, mod : Mods, age : 0..1]
    \cup [op : {"host"}, mod : Mods, seq : 0..(SeqLim - 1), again : BOOLEAN]
    \cup [op : {"route"}, mod : Mods]

Requests ==
    [kind : {"cache"}, mod : Mods, version : -1..MaxChange]
    \cup [kind : {"host"}, mod : Mods, seq : 0..(SeqLim - 1)]
    \cup [kind : {"route"}, mod : Mods]

Packets ==
    [kind : {"cache"}, mod : Mods, overload : BOOLEAN, version : -1..MaxChange,
     hosts : SUBSET Hosts]
    \cup [kind : {"host"}, mod : Mods, seq : 0..(SeqLim - 1), answer : Hosts \cup {NoExist, Overload}]
    \cup [kind : {"route"}, mod : Mods]

\* The state of the client, of its socket and of the agent is well formed.
TypeOK ==
    /\ language \in {"C++", "Python"}
    /\ cache \in [Mods -> Item \cup {NoItem}]
    /\ call \in Calls /\ ret \in Hosts \cup Codes
    /\ seq \in 0..(SeqLim - 1) /\ agentOff \in BOOLEAN
    /\ due \in [Mods -> [Hosts -> Seq({0, 1})]]
    /\ requests \in Seq(Requests) /\ inbox \in Seq(Packets)
    /\ route \in [Mods -> SUBSET Hosts] /\ overload \in [Mods -> BOOLEAN]
    /\ version \in [Mods -> 0..MaxChange]
    /\ changed \in [Mods -> 0..MaxChange] /\ hasty \in BOOLEAN
    /\ faults \in 0..MaxFault /\ changes \in 0..MaxChange
    /\ reports \in 0..MaxReport

\* CacheLayer.md: successes are held back and anything else is sent at once,
\* in the order the results were made.  What has not been sent of a host is
\* exactly the successes held for it: none is lost when the route is replaced
\* or deleted, none is overtaken, and none stays behind when the client goes.
HeldFor(m, h) ==
    IF cache[m] = NoItem \/ call = Gone THEN 0 ELSE cache[m].held[h]

OrderKept ==
    \A m \in Mods, h \in Hosts : due[m][h] = [i \in 1..HeldFor(m, h) |-> 0]

\* CacheUnit::getHost takes the front of the list: the list it is called on is
\* never empty, although an answer may carry no hosts (same version), come
\* late, and meet a cache that has changed or forgotten the module since;
\* unless a route has been replaced, deleted and added again in one second,
\* and so has the same version before and after it was deleted.
FrontExists == ret = Garbage => hasty

\* Late answers for another module on the socket never get into the cache of
\* this one.
OwnHosts ==
    \A m \in Mods : cache[m] # NoItem => ToSet(cache[m].hosts) \subseteq HostsOf(m)

\* A host, or a refusal, that apiGetHost gets over the network answers this
\* very request and not an earlier one: nothing is left on the socket, and it is
\* for the module asked for, although the Python client does not look at that.
FreshAnswer ==
    [][call.op = "host" /\ call' = Idle /\ ret' # Failed
          => requests' = <<>> /\ inbox' = <<>> /\ Head(inbox).mod = call.mod]_vars

\* As long as no late answer is on the socket, a cached route comes to have the
\* agent's version and overload once these are left alone.
InStep == Ready => requests = <<>> /\ inbox = <<>>

Current(m) ==
    cache[m] # NoItem => /\ route[m] # {}
                         /\ cache[m].version = version[m]
                         /\ cache[m].overload = overload[m]

CacheConverges == <>[]InStep => <>[](call = Gone \/ \A m \in Mods : Current(m))

\* CacheLayer.md:3 gives occasional timeouts of apiGetHost as what the cache is
\* there to solve: a program that only gets hosts, and whose calls are answered
\* in time again, gets hosts (or a refusal) again.
Recovers ==
    [](call.op # "route") => []<>(call = Gone \/ ret \notin {Failed, Pending})
=============================================================================
