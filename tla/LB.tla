--------------------------------- MODULE LB ---------------------------------
(***************************************************************************)
(* The load balancer of one module [modid, cmdid]: class LB of             *)
(* lbagent/src/RouteLb.cc with the calls RouteLB makes on it.  Clients ask *)
(* for hosts and report call results over UDP, the dnsserver thread        *)
(* installs routes; every handler holds the mutex of its RouteLB for all   *)
(* it does here, so a handler is one action.  Only batchReport, a loop of  *)
(* judgements, is a sequence of steps that keep the mutex (batching).      *)
(*                                                                         *)
(* The life cycle of a route (status, effectData, version, the pull queue) *)
(* is the subject of module RouteLB.                                       *)
(***************************************************************************)
EXTENDS HostLoad, Sequences, SequencesExt

CONSTANTS
    Hosts,        \* the hosts, <<ip, port>>, a route may name
    ProbeNum,     \* answers between two probes of an overloaded host
    ReportTimo,   \* period of the reports to the reporter
    ErrCap,       \* a call that cost more counts for so many errors (50)
    MaxNow,       \* bound: the last second of the clock
    MaxCnt        \* bound: real results counted in one window of a host

ASSUME LBAssumption ==
    /\ ProbeNum \in Nat /\ ReportTimo \in Nat
    /\ ErrCap \in Nat \ {0} /\ MaxNow \in Nat /\ MaxCnt \in Nat

NoReply  == [kind |-> "none"]
OVERLOAD == [kind |-> "overload"]
Serve(h) == [kind |-> "host", host |-> h]
Answers  == {NoReply, OVERLOAD} \cup {Serve(h) : h \in Hosts}

VARIABLES
    hostMap,      \* _hostMap: the hosts of the route, each with its load
    runningList,  \* _runningList, front first
    downList,     \* _downList, front first
    accessCnt,    \* _accessCnt
    lstRptTime,   \* lstRptTime
    reptQueue,    \* what the last step sent to the RptClient thread
    answer,       \* what the last step answered to a getHost
    batching,     \* a batchReport holds the mutex
    batch,        \* ... and has these results still to apply
    now           \* time(NULL)

vars == <<hostMap, runningList, downList, accessCnt, lstRptTime, reptQueue,
          answer, batching, batch, now>>

Route == DOMAIN hostMap

-----------------------------------------------------------------------------
(* Lists.                                                                  *)

\* std::list::remove: s without the elements of D, order kept.  A set of
\* sequences with one member when no element of s repeats.
Without(s, D) ==
    LET rest == ToSet(s) \ D
    IN  {t \in UNION {[1..m -> rest] : m \in 0..Len(s)} :
            /\ ToSet(t) = rest
            /\ \A i, j \in DOMAIN t : i < j =>
                  \E a, b \in DOMAIN s : a < b /\ s[a] = t[i] /\ s[b] = t[j]}

\* The orders in which a GetRouteRsp can list the hosts of S.
Listings(S) ==
    {t \in UNION {[1..m -> S] : m \in 0..Cardinality(S)} :
        /\ ToSet(t) = S
        /\ \A i, j \in DOMAIN t : i # j => t[i] # t[j]}

\* pop_front, then push_back of the same host.
Rotate(s) == Append(Tail(s), Head(s))

-----------------------------------------------------------------------------
Init ==
    /\ hostMap = [h \in {} |-> NewHI(0)]
    /\ runningList = <<>> /\ downList = <<>>
    /\ accessCnt = 0 /\ lstRptTime = 0
    /\ reptQueue = <<>> /\ answer = NoReply
    /\ batching = FALSE /\ batch = [h \in {} |-> 0]
    /\ now = 0

(* LB::getHost *)

\* Mutant of Pick: the picked host keeps its place.
PickStays ==
    /\ answer' = Serve(Head(runningList))
    /\ UNCHANGED <<runningList, downList>>

Pick ==
    /\ answer' = Serve(Head(runningList))
    /\ runningList' = Rotate(runningList)
    /\ UNCHANGED downList

\* Mutant of Probe: the probed host keeps its place.
ProbeStays ==
    /\ accessCnt >= ProbeNum
    /\ accessCnt' = 0
    /\ answer' = Serve(Head(downList))
    /\ UNCHANGED <<runningList, downList>>

Probe ==
    /\ accessCnt >= ProbeNum
    /\ accessCnt' = 0
    /\ answer' = Serve(Head(downList))
    /\ downList' = Rotate(downList)
    /\ UNCHANGED runningList

\* Mutant of Refuse: refusals do not make way for a probe.
RefuseForEver ==
    /\ accessCnt' = accessCnt + 1
    /\ answer' = OVERLOAD
    /\ UNCHANGED <<runningList, downList>>

Refuse ==
    /\ accessCnt < ProbeNum
    /\ accessCnt' = accessCnt + 1
    /\ answer' = OVERLOAD
    /\ UNCHANGED <<runningList, downList>>

GetHost ==
    /\ ~batching
    /\ Route # {}
    /\ \/ /\ runningList = <<>>
          /\ Probe \/ Refuse
       \/ /\ runningList # <<>> /\ downList = <<>>
          /\ accessCnt' = 0
          /\ Pick
       \/ /\ runningList # <<>> /\ downList # <<>>
          /\ \/ Probe
             \/ /\ accessCnt < ProbeNum
                /\ accessCnt' = accessCnt + 1
                /\ Pick
    /\ reptQueue' = <<>>
    /\ UNCHANGED <<hostMap, lstRptTime, batching, batch, now>>

-----------------------------------------------------------------------------
(* Reports.                                                                *)

\* Stores the record a report leaves of host h and moves h to the list its
\* state asks for.
Settle(h, hi) ==
    /\ hostMap' = [hostMap EXCEPT ![h] = hi]
    /\ \/ /\ hi.overload = hostMap[h].overload
          /\ UNCHANGED <<runningList, downList>>
       \/ /\ hi.overload /\ ~hostMap[h].overload
          /\ runningList' \in Without(runningList, {h})
          /\ downList' = Append(downList, h)
       \/ /\ ~hi.overload /\ hostMap[h].overload
          /\ downList' \in Without(downList, {h})
          /\ runningList' = Append(runningList, h)

\* The state of every host for the reporter: running hosts, then down hosts.
StatusReport ==
    LET order == runningList' \o downList'
    IN  [ts |-> now,
         results |-> [i \in DOMAIN order |->
            [host |-> order[i], succ |-> hostMap'[order[i]].rSucc,
             err |-> hostMap'[order[i]].rErr,
             overload |-> i > Len(runningList')]]]

\* LB::report2Rpter, after the results of the request have been applied.
Report2Rpter ==
    \/ /\ DOMAIN hostMap' # {} /\ now - lstRptTime >= ReportTimo
       /\ lstRptTime' = now
       /\ reptQueue' = <<StatusReport>>
    \/ /\ DOMAIN hostMap' = {} \/ now - lstRptTime < ReportTimo
       /\ reptQueue' = <<>>
       /\ UNCHANGED lstRptTime

\* The bound on the counters.
Room(h, n) ==
    hostMap[h].rSucc + hostMap[h].rErr + (IF n = 0 THEN 1 ELSE n) <= MaxCnt

\* One call result that counts for n errors (n = 0: a success), sent for a
\* host the route may have lost in the meantime.
Load(h, n) ==
    CASE n = 0 -> ReportOk(hostMap[h], now)
      [] n = 1 -> ReportErr(hostMap[h], now)
      [] OTHER -> SomeErr(hostMap[h], n, now)

Report(h, n) ==
    /\ ~batching
    /\ \/ /\ h \in Route
          /\ Room(h, n)
          /\ Settle(h, Load(h, n))
       \/ /\ h \notin Route
          /\ UNCHANGED <<hostMap, runningList, downList>>
    /\ Report2Rpter
    /\ answer' = NoReply
    /\ UNCHANGED <<accessCnt, batching, batch, now>>

\* RouteLB::batchReport: the successes a client held back, host by host.
BatchBegin(results) ==
    /\ ~batching
    /\ batching' = TRUE
    /\ batch' = results
    /\ answer' = NoReply /\ reptQueue' = <<>>
    /\ UNCHANGED <<hostMap, runningList, downList, accessCnt, lstRptTime, now>>

BatchOne(h) ==
    /\ h \in DOMAIN batch
    /\ \/ /\ h \in Route
          /\ Settle(h, SomeSucc(hostMap[h], batch[h], now))
       \/ /\ h \notin Route
          /\ UNCHANGED <<hostMap, runningList, downList>>
    /\ batch' = [x \in DOMAIN batch \ {h} |-> batch[x]]
    /\ UNCHANGED <<accessCnt, lstRptTime, reptQueue, answer, batching, now>>

BatchEnd ==
    /\ batching /\ DOMAIN batch = {}
    /\ batching' = FALSE
    /\ UNCHANGED <<hostMap, runningList, downList>>
    /\ Report2Rpter
    /\ UNCHANGED <<accessCnt, answer, batch, now>>

-----------------------------------------------------------------------------
(* Routes.                                                                 *)

\* Mutants of Update: hosts that leave are only looked for in the running
\* list; the running list is rebuilt in the order of the response; every host
\* of the response is taken as new.
UpdateRunningOnly(S) ==
    /\ ~batching /\ S # {}
    /\ hostMap' = [h \in S |-> IF h \in Route THEN hostMap[h] ELSE NewHI(now)]
    /\ \E arrived \in Listings(S \ Route) :
          runningList' \in Without(runningList \o arrived, Route \ S)
    /\ answer' = NoReply /\ reptQueue' = <<>>
    /\ UNCHANGED <<downList, lstRptTime, accessCnt, batching, batch, now>>

UpdateReorders(S) ==
    /\ ~batching /\ S # {}
    /\ hostMap' = [h \in S |-> IF h \in Route THEN hostMap[h] ELSE NewHI(now)]
    /\ runningList' \in Listings(S \ ToSet(downList))
    /\ downList' \in Without(downList, Route \ S)
    /\ answer' = NoReply /\ reptQueue' = <<>>
    /\ UNCHANGED <<lstRptTime, accessCnt, batching, batch, now>>

UpdateTrustsAll(S) ==
    /\ ~batching /\ S # {}
    /\ hostMap' = [h \in S |-> NewHI(now)]
    /\ runningList' \in Listings(S) /\ downList' = <<>>
    /\ answer' = NoReply /\ reptQueue' = <<>>
    /\ UNCHANGED <<lstRptTime, accessCnt, batching, batch, now>>

\* The hosts with this flag that a route of the hosts S no longer names.
Leavers(S, overload) == {h \in Route \ S : hostMap[h].overload = overload}

\* LB::update with the hosts of S: new hosts join the running list as idle,
\* hosts the route no longer names are removed from the list their flag names.
Update(S) ==
    /\ ~batching
    /\ S # {}
    /\ hostMap' = [h \in S |-> IF h \in Route THEN hostMap[h] ELSE NewHI(now)]
    /\ \E arrived \in Listings(S \ Route) :
          runningList' \in Without(runningList \o arrived, Leavers(S, FALSE))
    /\ downList' \in Without(downList, Leavers(S, TRUE))
    /\ lstRptTime' = IF Route = {} THEN now ELSE lstRptTime
    /\ answer' = NoReply /\ reptQueue' = <<>>
    /\ UNCHANGED <<accessCnt, batching, batch, now>>

\* RouteLB::update with no hosts deletes the LB; the next request makes one.
Delete ==
    /\ ~batching
    /\ Route # {}
    /\ hostMap' = [h \in {} |-> NewHI(0)]
    /\ runningList' = <<>> /\ downList' = <<>>
    /\ accessCnt' = 0 /\ lstRptTime' = 0
    /\ answer' = NoReply /\ reptQueue' = <<>>
    /\ UNCHANGED <<batching, batch, now>>

Tick ==
    /\ ~batching
    /\ now < MaxNow
    /\ now' = now + 1
    /\ answer' = NoReply /\ reptQueue' = <<>>
    /\ UNCHANGED <<hostMap, runningList, downList, accessCnt, lstRptTime,
                   batching, batch>>

\* A client holds back at most what keeps the counters within the bound.
Batches == {b \in UNION {[D -> 1..MaxCnt] : D \in SUBSET Hosts \ {{}}} :
               \A h \in DOMAIN b \cap Route : Room(h, b[h])}

BatchStep == BatchEnd \/ \E h \in Hosts : BatchOne(h)

Next ==
    \/ GetHost
    \/ \E h \in Hosts, n \in 0..ErrCap : Report(h, n)
    \/ \E results \in Batches : BatchBegin(results)
    \/ BatchStep
    \/ \E S \in SUBSET Hosts : Update(S)
    \/ Delete
    \/ Tick

\* A handler that holds the mutex finishes.  Clients keep asking for hosts,
\* and one thread takes the requests of a module in their order of arrival,
\* so none is passed over for ever.
Fairness == WF_vars(BatchStep) /\ SF_vars(GetHost)

Spec == Init /\ [][Next]_vars /\ Fairness

-----------------------------------------------------------------------------
(* Properties.                                                             *)

\* The state of the load balancer is well formed.
TypeOK ==
    /\ Route \subseteq Hosts /\ hostMap \in [Route -> HI]
    /\ runningList \in Seq(Hosts) /\ downList \in Seq(Hosts)
    /\ accessCnt \in 0..ProbeNum
    /\ lstRptTime \in 0..now /\ now \in 0..MaxNow
    /\ answer \in Answers
    /\ batching \in BOOLEAN
    /\ DOMAIN batch \subseteq Hosts /\ batch \in [DOMAIN batch -> 1..MaxCnt]

\* The two lists hold each host of the route once, in the list its overload
\* flag names: what getHost (front() of a list) and the delete in update
\* (which list to remove the host from) rely on.
Distinct(s) == \A i, j \in DOMAIN s : s[i] = s[j] => i = j

ListsPartition ==
    /\ Distinct(runningList) /\ Distinct(downList)
    /\ ToSet(runningList) = {h \in Route : ~hostMap[h].overload}
    /\ ToSet(downList) = {h \in Route : hostMap[h].overload}

\* Between two reports no host is at a limit it should have been judged on:
\* the unsigned subtractions of reportSomeErr and reportSomeSucc
\* (leftErrCnt, leftSuccCnt) cannot wrap, whatever mix of single and batch
\* reports, windows and routes came before.
BelowLimit(hi) ==
    /\ ~hi.overload => hi.continErr < ContinErrLim /\ hi.windErrCnt < WindErrLim
    /\ hi.overload => hi.continSucc < ContinSuccLim /\ hi.windErrCnt = 0

BelowLimits == \A h \in Route : BelowLimit(hostMap[h])

\* lbagent/README.md: "when the failure rate of an idle node exceeds the preset
\* value, the node is judged overload".  reportSomeErr compares the errors of
\* one request with all of the successes and forgets the errors already counted.
IdleErrRateRespected ==
    \A h \in Route : ~hostMap[h].overload =>
        hostMap[h].err * RateUnit <= ErrRate * (hostMap[h].succ + hostMap[h].err)

\* A report leaves no host with statistics past their time: an idle host is
\* within its window, an overloaded one within its waiting time, on every
\* path through the early returns of LB::report and the tails of the others.
Fresh(hi) == IF hi.overload THEN now - hi.overloadTs < OvldWaitLim
                            ELSE now - hi.windowTs < ClearTimo

JudgementsFresh ==
    [][\A h \in Route \cap Route' :
          hostMap'[h] # hostMap[h] => Fresh(hostMap[h])']_vars

\* Scheduling is round robin: a host passes another one of its list only
\* when that one has just been handed out, whatever reports and route
\* updates take out of the list or add to it.
Before(s, g, h) == \E i, j \in DOMAIN s : i < j /\ s[i] = g /\ s[j] = h

KeepsOrder(s, t, served) ==
    \A g, h \in ToSet(s) \cap ToSet(t) :
        Before(s, g, h) /\ served # Serve(g) => Before(t, g, h)

RoundRobin ==
    [][/\ KeepsOrder(runningList, runningList', answer')
       /\ KeepsOrder(downList, downList', answer')]_vars

\* The probe mechanism starves nobody: an overloaded host is handed out
\* again, unless it leaves the down list; and so is an idle host.
Probed == \A h \in Hosts :
    h \in ToSet(downList) ~> answer = Serve(h) \/ h \notin ToSet(downList)

Scheduled == \A h \in Hosts :
    h \in ToSet(runningList) ~> answer = Serve(h) \/ h \notin ToSet(runningList)

\* The load balancer keeps the promises of Dispatcher: the sides are the two
\* lists, the patience what accessCnt leaves of the probe period.
Promise == INSTANCE Dispatcher WITH
    idle <- ToSet(runningList), down <- ToSet(downList),
    patience <- ProbeNum - accessCnt

KeepsPromise == Promise!Spec
=============================================================================
