------------------------------ MODULE RouteLB -------------------------------
(***************************************************************************)
(* The routes of the agent and how they are kept up to date: the three     *)
(* RouteLB objects (lbagent/src/RouteLb.cc), each served by one UDP thread *)
(* (AgentServer.cc), and the dnsserver client thread (DssClient.cc) that   *)
(* pulls routes over TCP and installs answers and pushes.  A mutex per     *)
(* RouteLB makes each call on it one step; what a thread does after it has *)
(* unlocked (reading the hosts it copied) is further steps.                *)
(*                                                                         *)
(* A load balancer is its set of hosts here, module LB says what it does   *)
(* with them.  The dnsserver is reduced to what the agent sees of it.  The *)
(* reactor's TCP client drops what is sent while it is not connected.      *)
(***************************************************************************)
EXTENDS Integers, Sequences, SequencesExt

CONSTANTS
    Mods,        \* the modules <<modid, cmdid>>
    Hosts,       \* the hosts routes are made of
    Routes,      \* the routes the dnsserver may have for a module, sets of hosts
    NShard,      \* how many RouteLB objects, and UDP threads, there are (3)
    Shard(_),    \* (modid + cmdid) % 3: the RouteLB that has a module
    NoLB,        \* not in _routeMap
    MaxNow,      \* bound: the last second of the clock
    MaxChange,   \* bound: route changes at the dnsserver
    MaxDrop      \* bound: losses of the TCP connection

Shards == 0..(NShard - 1)

\* An LB as far as its route goes.  expired: more than updateTimo has passed
\* since effectData, which is 0 in a new LB.  A new LB has no version.
LB == [hosts : SUBSET Hosts, pulling : BOOLEAN, expired : BOOLEAN, version : 0..MaxNow]

ASSUME RouteLBAssumption ==
    /\ NShard \in Nat
    /\ Routes \subseteq SUBSET Hosts
    /\ \A m \in Mods : Shard(m) \in Shards
    /\ MaxNow \in Nat /\ MaxChange \in Nat /\ MaxDrop \in Nat
    /\ NoLB \notin LB

VARIABLES
    routeMap,   \* the three _routeMap
    pullQueue,  \* pull requests from the UDP threads to the DSS client thread
    reading,    \* per UDP thread: HI pointers copied from a route, still to read
    connected,  \* the TCP connection to the dnsserver
    clearNext,  \* whenConnected: the RouteLB to clear next, NShard when done
    toDss,      \* requests on the connection
    fromDss,    \* answers and pushes on the connection
    aborted,    \* an assertion failed
    dns,        \* the dnsserver's routes
    subs,       \* the modules this agent has subscribed to
    unfiled,    \* changed modules whose pushes the dnsserver has yet to file
    toPush,     \* the changed modules the dnsserver has to push
    cached,     \* per module: what a caching client last copied from the agent
    changes, drops, now

agentVars == <<routeMap, pullQueue, reading, aborted>>
linkVars  == <<connected, clearNext, toDss, fromDss, drops>>
dnsVars   == <<dns, subs, unfiled, toPush, changes>>
vars      == <<agentVars, linkVars, dnsVars, cached, now>>

\* The module whose hosts a thread reads, those it has still to read, and
\* those among them that have been deleted since it copied the pointers.
NoRead == [mods |-> {}, left |-> {}, freed |-> {}]

\* A client's copy: the hosts, the version that came with them, and the second
\* in which the agent answered.  The version -1 asks for a first copy.
Copies == [hosts : SUBSET Hosts, version : -1..MaxNow, at : 0..MaxNow]
NoCopy == [hosts |-> {}, version |-> -1, at |-> 0]

Known(m)   == routeMap[m] # NoLB
Pulling(m) == Known(m) /\ routeMap[m].pulling

Init ==
    /\ routeMap = [m \in Mods |-> NoLB]
    /\ pullQueue = <<>>
    /\ reading = [s \in Shards |-> NoRead]
    /\ connected = FALSE /\ clearNext = NShard
    /\ toDss = <<>> /\ fromDss = <<>>
    /\ aborted = FALSE
    /\ dns \in [Mods -> Routes]
    /\ subs = {} /\ unfiled = {} /\ toPush = {}
    /\ cached = [m \in Mods |-> NoCopy]
    /\ changes = 0 /\ drops = 0 /\ now = 0

-----------------------------------------------------------------------------
(* The UDP threads.                                                        *)

Idle(s) == ~aborted /\ reading[s] = NoRead

\* LB::pull on the LB lb of m.
Pull(m, lb) ==
    /\ routeMap' = [routeMap EXCEPT ![m] = [lb EXCEPT !.pulling = TRUE]]
    /\ pullQueue' = Append(pullQueue, m)

\* A request for a module nobody has asked for yet.
Create(m) ==
    /\ ~Known(m)
    /\ Pull(m, [hosts |-> {}, pulling |-> TRUE, expired |-> TRUE, version |-> 0])
    /\ UNCHANGED <<reading, aborted>>

\* The check every request for a known module ends with.
Repull(m) ==
    IF ~routeMap[m].pulling /\ routeMap[m].expired
    THEN Pull(m, routeMap[m])
    ELSE UNCHANGED <<routeMap, pullQueue>>

\* assert(lb->status == LB::ISPULLING) on an empty LB.
AssertPulling(m) ==
    /\ Known(m) /\ routeMap[m].hosts = {}
    /\ aborted' = ~routeMap[m].pulling
    /\ UNCHANGED <<routeMap, pullQueue, reading>>

GetHost(m) ==
    /\ Idle(Shard(m))
    /\ \/ Create(m)
       \/ AssertPulling(m)
       \/ /\ Known(m) /\ routeMap[m].hosts # {}
          /\ Repull(m)
          /\ UNCHANGED <<reading, aborted>>
    /\ UNCHANGED <<linkVars, dnsVars, cached, now>>

\* Copies the HI pointers of m, to be dereferenced once the mutex is released.
CopyRoute(m) ==
    reading' = [reading EXCEPT ![Shard(m)] =
        IF routeMap[m].hosts = {} THEN NoRead
        ELSE [mods |-> {m}, left |-> routeMap[m].hosts, freed |-> {}]]

\* RouteLB::getRoute, for the command line tool.
GetRoute(m) ==
    /\ Idle(Shard(m))
    /\ \/ Create(m)
       \/ /\ Known(m)
          /\ CopyRoute(m) /\ Repull(m)
          /\ UNCHANGED aborted
    /\ UNCHANGED <<linkVars, dnsVars, cached, now>>

\* RouteLB::cacheGetRoute, from a client with the version of its copy.  One that
\* is told there is no such module drops its copy, one whose version is still
\* the LB's is sent no hosts and keeps it.  (Clients with other versions do to
\* the agent what GetHost and GetRoute do.)
CacheGetRoute(m) ==
    /\ Idle(Shard(m))
    /\ \/ /\ Create(m) \/ AssertPulling(m)
          /\ cached' = [cached EXCEPT ![m] = NoCopy]
       \/ /\ Known(m) /\ routeMap[m].hosts # {}
          /\ IF routeMap[m].version = cached[m].version
             THEN UNCHANGED <<reading, cached>>
             ELSE /\ CopyRoute(m)
                  /\ cached' = [cached EXCEPT ![m] =
                        [hosts |-> routeMap[m].hosts, version |-> routeMap[m].version,
                         at |-> now]]
          /\ Repull(m)
          /\ UNCHANGED aborted
    /\ UNCHANGED <<linkVars, dnsVars, now>>

\* The loop over the copied pointers, after the mutex has been released.
ReadHost(s) ==
    /\ ~aborted
    /\ \E h \in reading[s].left :
          reading' = [reading EXCEPT ![s] =
              IF reading[s].left = {h} THEN NoRead
              ELSE [reading[s] EXCEPT !.left = @ \ {h}, !.freed = @ \ {h}]]
    /\ UNCHANGED <<routeMap, pullQueue, aborted, linkVars, dnsVars, cached, now>>

-----------------------------------------------------------------------------
(* The DSS client thread: one event loop, busy while whenConnected runs.   *)

Looping == ~aborted /\ clearNext = NShard

\* newPullReq: everything in the queue is sent, or lost.
NewPullReq ==
    /\ Looping
    /\ pullQueue # <<>>
    /\ pullQueue' = <<>>
    /\ toDss' = IF connected THEN toDss \o pullQueue ELSE toDss
    /\ UNCHANGED <<routeMap, reading, aborted, connected, clearNext, fromDss,
                   drops, dnsVars, cached, now>>

\* Deleting the hosts D of m leaves a thread that is to read them with
\* dangling pointers.
Free(m, D) ==
    reading' = [s \in Shards |->
        IF m \in reading[s].mods
        THEN [reading[s] EXCEPT !.freed = @ \cup (D \cap reading[s].left)]
        ELSE reading[s]]

\* Mutants of Update: the mark ISPULLING survives; hosts are only added; ...
UpdateKeepsMark(m, S) ==
    \/ ~Known(m) /\ UNCHANGED <<routeMap, reading>>
    \/ /\ Known(m)
       /\ routeMap' = [routeMap EXCEPT ![m].hosts = S]
       /\ UNCHANGED reading

UpdateOnlyAdds(m, S) ==
    \/ ~Known(m) /\ UNCHANGED <<routeMap, reading>>
    \/ /\ Known(m) /\ S = {}
       /\ routeMap' = [routeMap EXCEPT ![m] = NoLB]
       /\ Free(m, routeMap[m].hosts)
    \/ /\ Known(m) /\ S # {}
       /\ routeMap' = [routeMap EXCEPT ![m] =
             [hosts |-> @.hosts \cup S, pulling |-> FALSE, expired |-> FALSE,
              version |-> now]]
       /\ UNCHANGED reading

\* ... only hosts that join make a new version.
UpdateMissesLeavers(m, S) ==
    \/ ~Known(m) /\ UNCHANGED <<routeMap, reading>>
    \/ /\ Known(m) /\ S = {}
       /\ routeMap' = [routeMap EXCEPT ![m] = NoLB]
       /\ Free(m, routeMap[m].hosts)
    \/ /\ Known(m) /\ S # {}
       /\ routeMap' = [routeMap EXCEPT ![m] =
             [hosts |-> S, pulling |-> FALSE, expired |-> FALSE,
              version |-> IF S \subseteq @.hosts THEN @.version ELSE now]]
       /\ Free(m, routeMap[m].hosts \ S)

\* RouteLB::update and LB::update with the hosts of S.
Update(m, S) ==
    \/ ~Known(m) /\ UNCHANGED <<routeMap, reading>>
    \/ /\ Known(m) /\ S = {}
       /\ routeMap' = [routeMap EXCEPT ![m] = NoLB]
       /\ Free(m, routeMap[m].hosts)
    \/ /\ Known(m) /\ S # {}
       /\ routeMap' = [routeMap EXCEPT ![m] =
             [hosts |-> S, pulling |-> FALSE, expired |-> FALSE,
              version |-> IF @.hosts = S THEN @.version ELSE now]]
       /\ Free(m, routeMap[m].hosts \ S)

\* recvRoute: an answer or a push.
RecvRoute ==
    /\ Looping
    /\ fromDss # <<>>
    /\ fromDss' = Tail(fromDss)
    /\ Update(Head(fromDss).mod, Head(fromDss).hosts)
    /\ UNCHANGED <<pullQueue, aborted, connected, clearNext, toDss, drops,
                   dnsVars, cached, now>>

\* Mutant of Connect: nothing is cleared.
ConnectForgets ==
    /\ Looping
    /\ ~connected /\ subs = {}
    /\ connected' = TRUE
    /\ UNCHANGED <<agentVars, clearNext, toDss, fromDss, drops, dnsVars, cached, now>>

\* The connection is made, first or again, and whenConnected begins.
Connect ==
    /\ Looping
    /\ ~connected /\ subs = {}
    /\ connected' = TRUE
    /\ clearNext' = 0
    /\ UNCHANGED <<agentVars, toDss, fromDss, drops, dnsVars, cached, now>>

\* Mutant of ClearPulling: one RouteLB too many.
ClearPullingPastEnd ==
    /\ ~aborted
    /\ clearNext <= NShard
    /\ clearNext' = clearNext + 1
    /\ UNCHANGED <<agentVars, connected, toDss, fromDss, drops, dnsVars, cached, now>>

\* RouteLB::clearPulling of the next RouteLB.
ClearPulling ==
    /\ ~aborted
    /\ clearNext < NShard
    /\ clearNext' = clearNext + 1
    /\ routeMap' = [m \in Mods |->
          IF Pulling(m) /\ Shard(m) = clearNext
          THEN [routeMap[m] EXCEPT !.pulling = FALSE] ELSE routeMap[m]]
    /\ UNCHANGED <<pullQueue, reading, aborted, connected, toDss, fromDss,
                   drops, dnsVars, cached, now>>

\* The connection is lost with all that is on it.  The next one has another file
\* descriptor at the dnsserver, or the same, once its subscriptions have been
\* cleared; what is on its push list then stays behind for the next one.
Disconnect ==
    /\ Looping
    /\ connected /\ drops < MaxDrop
    /\ connected' = FALSE /\ drops' = drops + 1
    /\ toDss' = <<>> /\ fromDss' = <<>>
    /\ \/ subs' = {} /\ toPush' = {}
       \/ UNCHANGED <<subs, toPush>>
    /\ UNCHANGED <<agentVars, clearNext, dns, unfiled, changes, cached, now>>

-----------------------------------------------------------------------------
(* The dnsserver, as the agent sees it.                                    *)

\* getRoute: subscribe, then answer.
DnsAnswer ==
    /\ toDss # <<>>
    /\ toDss' = Tail(toDss)
    /\ subs' = subs \cup {Head(toDss)}
    /\ fromDss' = Append(fromDss,
                         [mod |-> Head(toDss), hosts |-> dns[Head(toDss)]])
    /\ UNCHANGED <<agentVars, connected, clearNext, drops, dns, unfiled,
                   toPush, changes, cached, now>>

\* clearSubscribe goes through the modules of a lost connection.
DnsUnsubscribe(m) ==
    /\ ~connected /\ m \in subs
    /\ subs' = subs \ {m}
    /\ UNCHANGED <<agentVars, linkVars, dns, unfiled, toPush, changes, cached, now>>

\* A new route becomes visible.  Unless the periodic reload is what finds it,
\* pushes will be filed for it.
DnsChange(m, S) ==
    /\ changes < MaxChange
    /\ changes' = changes + 1
    /\ dns' = [dns EXCEPT ![m] = S]
    /\ unfiled' \in {unfiled, unfiled \cup {m}}
    /\ UNCHANGED <<agentVars, linkVars, subs, toPush, cached, now>>

\* The change is put on the push lists of those who subscribe by now, who may
\* have been answered with it already.
DnsFile(m) ==
    /\ m \in unfiled
    /\ unfiled' = unfiled \ {m}
    /\ toPush' = toPush \cup (subs \cap {m})
    /\ UNCHANGED <<agentVars, linkVars, dns, subs, changes, cached, now>>

DnsPush(m) ==
    /\ connected /\ m \in toPush
    /\ toPush' = toPush \ {m}
    /\ fromDss' = Append(fromDss, [mod |-> m, hosts |-> dns[m]])
    /\ UNCHANGED <<agentVars, connected, clearNext, toDss, drops, dns, subs,
                   unfiled, changes, cached, now>>

-----------------------------------------------------------------------------
(* Time.  The period of validity ends when it will; now is only used for   *)
(* the versions, which are seconds.                                        *)

Lapse(m) ==
    /\ ~aborted
    /\ Known(m) /\ ~routeMap[m].expired
    /\ routeMap' = [routeMap EXCEPT ![m].expired = TRUE]
    /\ UNCHANGED <<pullQueue, reading, aborted, linkVars, dnsVars, cached, now>>

Tick ==
    /\ now < MaxNow
    /\ now' = now + 1
    /\ UNCHANGED <<agentVars, linkVars, dnsVars, cached>>

Next ==
    \/ \E m \in Mods :
          \/ GetHost(m) \/ GetRoute(m) \/ CacheGetRoute(m)
          \/ \E S \in Routes : DnsChange(m, S)
          \/ DnsUnsubscribe(m) \/ DnsFile(m) \/ DnsPush(m)
          \/ Lapse(m)
    \/ \E s \in Shards : ReadHost(s)
    \/ NewPullReq \/ RecvRoute \/ Connect \/ ClearPulling \/ Disconnect
    \/ DnsAnswer
    \/ Tick

\* Every thread runs, the dnsserver answers, the client reconnects, routes
\* expire, and clients keep asking for every module.
Fairness ==
    /\ \A m \in Mods : SF_vars(GetHost(m)) /\ WF_vars(Lapse(m)) /\ WF_vars(DnsPush(m))
    /\ \A s \in Shards : WF_vars(ReadHost(s))
    /\ WF_vars(NewPullReq) /\ WF_vars(RecvRoute)
    /\ WF_vars(Connect) /\ WF_vars(ClearPulling)
    /\ WF_vars(DnsAnswer) /\ \A m \in Mods : WF_vars(DnsUnsubscribe(m))

Spec == Init /\ [][Next]_vars /\ Fairness

-----------------------------------------------------------------------------
(* Properties.                                                             *)

Messages == [mod : Mods, hosts : SUBSET Hosts]

\* The state of the agent and of its connection is well formed.
TypeOK ==
    /\ routeMap \in [Mods -> LB \cup {NoLB}]
    /\ pullQueue \in Seq(Mods)
    /\ reading \in [Shards -> [mods : SUBSET Mods, left : SUBSET Hosts,
                               freed : SUBSET Hosts]]
    /\ connected \in BOOLEAN /\ clearNext \in 0..NShard
    /\ toDss \in Seq(Mods) /\ fromDss \in Seq(Messages)
    /\ aborted \in BOOLEAN
    /\ dns \in [Mods -> SUBSET Hosts]
    /\ subs \in SUBSET Mods /\ unfiled \in SUBSET Mods /\ toPush \in SUBSET Mods
    /\ cached \in [Mods -> Copies]
    /\ changes \in 0..MaxChange /\ drops \in 0..MaxDrop /\ now \in 0..MaxNow

\* An LB marked ISPULLING has a pull on its way: in the queue, on the
\* connection, or its answer is; or else the mark will be cleared, because
\* there is no connection or whenConnected has not reached its RouteLB yet.
\* Without this a module would never be pulled again.
Answered(m) == \E i \in DOMAIN fromDss : fromDss[i].mod = m

Accounted(m) ==
    \/ m \in ToSet(pullQueue)
    \/ m \in ToSet(toDss)
    \/ Answered(m)
    \/ ~connected
    \/ Shard(m) >= clearNext

PullAccounted == \A m \in Mods : Pulling(m) => Accounted(m)

\* A pull ends, whatever is lost on the way.
PullResolved == \A m \in Mods : Pulling(m) ~> ~Pulling(m) \/ aborted

\* Once the dnsserver's routes and the connection are left alone, the agent
\* comes to have the dnsserver's route of every module it is asked for, and
\* keeps it.
InSync(m) == Known(m) => routeMap[m].hosts = dns[m]

RoutesConverge == <>[](aborted \/ \A m \in Mods : InSync(m))

\* The assertions at the head of getHost and cacheGetRoute: "this module is
\* being pulled for the first time and the answer is not back".
NoAbort == ~aborted

\* The mutex "synchronises the agent thread and the dnsserver client thread":
\* no UDP thread is about to read a host the other thread has deleted.
NoDanglingRead == \A s \in Shards : reading[s].freed = {}

\* RouteLb.cc:592, "the route has really changed, so update the version", and
\* 771: the agent sends the hosts to those who have another version.  Versions
\* are seconds, so two routes of one second share one, and a route deleted and
\* added again starts from no version.  Still, a client that has the version of
\* a route, and will be sent no hosts, has the hosts of that route, whatever
\* answers, pushes and deletions there were since it copied them; or it copied
\* them within the very second that gave the route this version.
CopiesCurrent ==
    \A m \in Mods :
        /\ Known(m) /\ routeMap[m].hosts # {}
        /\ cached[m].version = routeMap[m].version
        => \/ cached[m].hosts = routeMap[m].hosts
           \/ cached[m].at = cached[m].version
=============================================================================
