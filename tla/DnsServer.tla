----------------------------- MODULE DnsServer ------------------------------
(***************************************************************************)
(* The dnsserver and its database: operators change the route of a module  *)
(* in one transaction (mod-manager/ModOperator.py); the loader thread      *)
(* (dataLoader, dnsserver/src/Route.cc) looks for a new version every      *)
(* second, reloads the table, swaps it in and puts the changed modules on  *)
(* the push lists of the connections that have subscribed to them          *)
(* (SubscribeList.cc); the worker threads, one event loop each, answer the *)
(* agents and send the pushes (Server.cc).                                 *)
(*                                                                         *)
(* What an agent has been sent on a connection stands for what it has: the *)
(* connection keeps the order.  A worker's read of the route and its send  *)
(* are one step, nobody else sends on the connections of a worker.         *)
(***************************************************************************)
EXTENDS Naturals

CONSTANTS
    Mods,       \* the modules <<modid, cmdid>>
    Hosts,      \* the hosts routes are made of
    Fds,        \* file descriptors of connections
    Workers,    \* worker threads, one event loop each
    Nobody,     \* no worker: the descriptor is free
    MaxTs,      \* bound: the last second versions are taken from
    MaxChange,  \* bound: transactions of operators
    MaxFail     \* bound: failed database queries

ASSUME DnsServerAssumption ==
    Nobody \notin Workers /\ {MaxTs, MaxChange, MaxFail} \subseteq Nat

Pairs == Fds \X Mods
Rows  == [mod : Mods, version : 0..MaxTs]

VARIABLES
    table,         \* DnsServerRoute
    version,       \* RouteVersion
    changeLog,     \* ChangeLog
    transactions,  \* how many there have been
    everEmpty,     \* history: the modules that have had no host in the table
    step,          \* where the loader thread is
    data,          \* *_data
    tmpData,       \* *_tmpData
    routeVersion,  \* routeVersion
    changes,       \* what loadChanges has found
    due,           \* load_interval has passed since lstLoadTs
    failures,      \* how many queries have failed
    book,          \* bookl: <<fd, mod>>
    pushList,      \* pushl: <<fd, mod>>
    task,          \* per worker: a pushChange is queued
    server,        \* per connection: its worker
    busy,          \* per worker: what it is in the middle of
    told,          \* per <<fd, mod>>: the route last sent to a subscriber
    owed           \* history: the <<fd, mod>> that had been told another route
                   \* when the change was found

dbVars     == <<table, version, changeLog, transactions, everEmpty>>
routeVars  == <<data, tmpData, routeVersion>>
loaderVars == <<step, changes, due, failures>>
listVars   == <<book, pushList, task>>
workVars   == <<server, busy, told, owed>>
vars == <<dbVars, routeVars, loaderVars, listVars, workVars>>

Steps == {"Load", "RmAll", "Sleep", "Reload", "Swap", "LoadChanges", "Push",
          "RunTask", "RmChanges", "PeriodicReload", "PeriodicSwap"}

Untold  == [told |-> FALSE]
Told(S) == [told |-> TRUE, route |-> S]

Rest             == [kind |-> "rest"]
Answering(fd, m) == [kind |-> "answer", fd |-> fd, mod |-> m]
Pushing(news)    == [kind |-> "push", news |-> news]
Closing(fd)      == [kind |-> "close", fd |-> fd]

EmptyIn(t) == {m \in Mods : t[m] = {}}

\* Route::Route has read the version and is about to read the table.
Init ==
    /\ table \in [Mods -> SUBSET Hosts]
    /\ version = 0 /\ changeLog = {} /\ transactions = 0
    /\ everEmpty = EmptyIn(table)
    /\ step = "Load"
    /\ data = [m \in Mods |-> {}] /\ tmpData = [m \in Mods |-> {}]
    /\ routeVersion = 0
    /\ changes = {} /\ due = FALSE /\ failures = 0
    /\ book = {} /\ pushList = {}
    /\ task = [w \in Workers |-> FALSE]
    /\ server = [fd \in Fds |-> Nobody]
    /\ busy = [w \in Workers |-> Rest]
    /\ told = [p \in Pairs |-> Untold]
    /\ owed = {}

-----------------------------------------------------------------------------
(* The operators.                                                          *)

\* A transaction that sets a host online or offline.  It is stamped with the
\* second its process read before: several may have the same one, and they may
\* commit in another order.
Commit(m, h, ts) ==
    /\ transactions < MaxChange
    /\ transactions' = transactions + 1
    /\ \E S \in {table[m] \cup {h}, table[m] \ {h}} :
          table' = [table EXCEPT ![m] = S]
    /\ version' = ts
    /\ changeLog' = changeLog \cup {[mod |-> m, version |-> ts]}
    /\ everEmpty' = everEmpty \cup EmptyIn(table')
    /\ UNCHANGED <<routeVars, loaderVars, listVars, workVars>>

-----------------------------------------------------------------------------
(* The loader thread.                                                      *)

Goto(from, to) == step = from /\ step' = to

QueryFails == failures < MaxFail /\ failures' = failures + 1
QueryOk    == UNCHANGED failures

\* The rest of Route::Route: the table goes straight to *_data.
Load ==
    /\ Goto("Load", "RmAll")
    /\ data' = table
    /\ UNCHANGED <<dbVars, tmpData, routeVersion, changes, due, failures,
                   listVars, workVars>>

\* rmChanges(false) and rmChanges().
RmRows(rows) ==
    /\ \/ QueryOk /\ changeLog' = changeLog \ rows
       \/ QueryFails /\ UNCHANGED changeLog
    /\ changes' = {}
    /\ UNCHANGED <<table, version, transactions, everEmpty, routeVars, due,
                   listVars, workVars>>

Logged == {r \in changeLog : r.version <= routeVersion}

RmAll     == Goto("RmAll", "Sleep") /\ RmRows(changeLog)
RmChanges == Goto("RmChanges", "Sleep") /\ RmRows(Logged)

Elapse ==
    /\ ~due /\ due' = TRUE
    /\ UNCHANGED <<dbVars, routeVars, step, changes, failures, listVars, workVars>>

NoNews == QueryFails \/ (QueryOk /\ version = routeVersion)

\* Mutant of LoadVersion: versions are counted, not stored.
LoadVersionCounts ==
    /\ \/ /\ QueryOk /\ version # routeVersion
          /\ routeVersion' = routeVersion + 1
          /\ Goto("Sleep", "Reload")
       \/ /\ NoNews
          /\ due /\ Goto("Sleep", "PeriodicReload")
          /\ UNCHANGED routeVersion
    /\ UNCHANGED <<dbVars, data, tmpData, changes, due, listVars, workVars>>

\* Mutant of LoadVersion: no periodic reload.
LoadVersionOnly ==
    /\ QueryOk /\ version # routeVersion
    /\ routeVersion' = version
    /\ Goto("Sleep", "Reload")
    /\ UNCHANGED <<dbVars, data, tmpData, changes, due, listVars, workVars>>

\* loadVersion, after a second of sleep, and the choice that follows.  A look
\* at the version that changes nothing is no step, unless it fails.
LoadVersion ==
    /\ \/ /\ QueryOk /\ version # routeVersion
          /\ routeVersion' = version
          /\ Goto("Sleep", "Reload")
       \/ /\ NoNews
          /\ due /\ Goto("Sleep", "PeriodicReload")
          /\ UNCHANGED routeVersion
       \/ /\ QueryFails /\ ~due /\ Goto("Sleep", "Sleep")
          /\ UNCHANGED routeVersion
    /\ UNCHANGED <<dbVars, data, tmpData, changes, due, listVars, workVars>>

\* Mutant of Reload: its return value is ignored.
ReloadUnchecked ==
    /\ Goto("Reload", "Swap") \/ Goto("PeriodicReload", "PeriodicSwap")
    /\ \/ QueryOk /\ tmpData' = table
       \/ QueryFails /\ tmpData' = [m \in Mods |-> {}]
    /\ UNCHANGED <<dbVars, data, routeVersion, changes, due, listVars, workVars>>

\* Route::reload: *_tmpData is cleared first.
Reload ==
    /\ \/ /\ QueryOk /\ tmpData' = table
          /\ Goto("Reload", "Swap") \/ Goto("PeriodicReload", "PeriodicSwap")
       \/ /\ QueryFails /\ tmpData' = [m \in Mods |-> {}]
          /\ Goto("Reload", "Sleep") \/ Goto("PeriodicReload", "Sleep")
    /\ UNCHANGED <<dbVars, data, routeVersion, changes, due, listVars, workVars>>

Swap ==
    /\ Goto("Swap", "LoadChanges") \/ Goto("PeriodicSwap", "Sleep")
    /\ data' = tmpData /\ tmpData' = data
    /\ due' = FALSE
    /\ UNCHANGED <<dbVars, routeVersion, changes, failures, listVars, workVars>>

LoadChanges ==
    /\ Goto("LoadChanges", "Push")
    /\ \/ QueryOk /\ changes' = {r.mod : r \in Logged}
       \/ QueryFails /\ changes' = {}
    /\ owed' = owed \cup {p \in Pairs : /\ p[2] \in changes'
                                        /\ told[p] \notin {Untold, Told(data[p[2]])}}
    /\ UNCHANGED <<dbVars, routeVars, due, listVars, server, busy, told>>

\* Mutant of Push: the push lists are made anew.
PushReplaces ==
    /\ Goto("Push", "RunTask")
    /\ pushList' = {p \in book : p[2] \in changes}
    /\ UNCHANGED <<dbVars, routeVars, changes, due, failures, book, task, workVars>>

\* SubscribeList::push: the lists under both locks, then a task for every worker.
Push ==
    /\ Goto("Push", "RunTask")
    /\ pushList' = pushList \cup {p \in book : p[2] \in changes}
    /\ UNCHANGED <<dbVars, routeVars, changes, due, failures, book, task, workVars>>

RunTask ==
    /\ Goto("RunTask", "RmChanges")
    /\ task' = [w \in Workers |-> TRUE]
    /\ UNCHANGED <<dbVars, routeVars, changes, due, failures, book, pushList,
                   workVars>>

Loader ==
    \/ Load \/ RmAll \/ LoadVersion \/ Reload \/ Swap
    \/ LoadChanges \/ Push \/ RunTask \/ RmChanges

-----------------------------------------------------------------------------
(* The workers.                                                            *)

Open(fd) == server[fd] # Nobody

Connect(fd, w) ==
    /\ ~Open(fd)
    /\ server' = [server EXCEPT ![fd] = w]
    /\ UNCHANGED <<dbVars, routeVars, loaderVars, listVars, busy, told, owed>>

Turn(w, from, to) == busy[w] = from /\ busy' = [busy EXCEPT ![w] = to]

\* A subscriber has been sent the visible route of p[2].
Send(p) ==
    /\ told' = IF p \in book THEN [told EXCEPT ![p] = Told(data[p[2]])] ELSE told
    /\ owed' = owed \ {p}

\* getRoute, first half: the agent subscribes.
GetRoute(fd, m) ==
    /\ Open(fd)
    /\ Turn(server[fd], Rest, Answering(fd, m))
    /\ book' = book \cup {<<fd, m>>}
    /\ UNCHANGED <<dbVars, routeVars, loaderVars, pushList, task, server, told, owed>>

\* ... and is answered, once the Route has been constructed.
Answer(fd, m) ==
    /\ Open(fd)
    /\ step # "Load"
    /\ Turn(server[fd], Answering(fd, m), Rest)
    /\ Send(<<fd, m>>)
    /\ UNCHANGED <<dbVars, routeVars, loaderVars, listVars, server>>

\* Mutant of FetchPush: takes the push lists of every worker's connections.
FetchPushOfAll(w) ==
    LET news == {p \in pushList : server[p[1]] = w}
    IN  /\ task[w]
        /\ task' = [task EXCEPT ![w] = FALSE]
        /\ Turn(w, Rest, IF news = {} THEN Rest ELSE Pushing(news))
        /\ pushList' = {}
        /\ UNCHANGED <<dbVars, routeVars, loaderVars, book, server, told, owed>>

\* pushChange: takes what is on the push lists of the worker's connections ...
FetchPush(w) ==
    LET news == {p \in pushList : server[p[1]] = w}
    IN  /\ task[w]
        /\ task' = [task EXCEPT ![w] = FALSE]
        /\ Turn(w, Rest, IF news = {} THEN Rest ELSE Pushing(news))
        /\ pushList' = pushList \ news
        /\ UNCHANGED <<dbVars, routeVars, loaderVars, book, server, told, owed>>

\* ... and sends the routes one by one.
PushOne(w) ==
    /\ busy[w].kind = "push"
    /\ \E p \in busy[w].news :
          LET left == busy[w].news \ {p}
          IN  /\ Turn(w, busy[w], IF left = {} THEN Rest ELSE Pushing(left))
              /\ Send(p)
    /\ UNCHANGED <<dbVars, routeVars, loaderVars, listVars, server>>

\* A connection is lost; clearSubscribe.
Close(fd) ==
    /\ Open(fd)
    /\ Turn(server[fd], Rest, Closing(fd))
    /\ told' = [p \in Pairs |-> IF p[1] = fd THEN Untold ELSE told[p]]
    /\ owed' = {p \in owed : p[1] # fd}
    /\ UNCHANGED <<dbVars, routeVars, loaderVars, listVars, server>>

Unsubscribe(fd, m) ==
    /\ Open(fd) /\ busy[server[fd]] = Closing(fd)
    /\ <<fd, m>> \in book
    /\ book' = book \ {<<fd, m>>}
    /\ UNCHANGED <<dbVars, routeVars, loaderVars, pushList, task, workVars>>

Closed(fd) ==
    /\ Open(fd)
    /\ \A m \in Mods : <<fd, m>> \notin book
    /\ Turn(server[fd], Closing(fd), Rest)
    /\ server' = [server EXCEPT ![fd] = Nobody]
    /\ UNCHANGED <<dbVars, routeVars, loaderVars, listVars, told, owed>>

WorkerStep(w) ==
    \/ FetchPush(w) \/ PushOne(w)
    \/ \E fd \in Fds :
          /\ server[fd] = w
          /\ Closed(fd) \/ \E m \in Mods : Answer(fd, m) \/ Unsubscribe(fd, m)

Next ==
    \/ \E m \in Mods, h \in Hosts, ts \in 0..MaxTs : Commit(m, h, ts)
    \/ Loader
    \/ Elapse
    \/ \E fd \in Fds : \/ \E w \in Workers : Connect(fd, w)
                       \/ \E m \in Mods : GetRoute(fd, m)
                       \/ Close(fd)
    \/ \E w \in Workers : WorkerStep(w)

\* The threads run and the load interval passes; an agent goes on asking for
\* the modules it has asked for (RouteLB repulls what has expired), and a
\* worker serves its connections in turn.
Fairness ==
    /\ WF_vars(Loader) /\ WF_vars(Elapse)
    /\ \A w \in Workers : WF_vars(WorkerStep(w))
    /\ \A fd \in Fds, m \in Mods : SF_vars(GetRoute(fd, m))

Spec == Init /\ [][Next]_vars /\ Fairness

-----------------------------------------------------------------------------
(* Properties.                                                             *)

\* The state of the database, of the loader and of the workers is well formed.
TypeOK ==
    /\ table \in [Mods -> SUBSET Hosts]
    /\ version \in 0..MaxTs /\ changeLog \subseteq Rows
    /\ transactions \in 0..MaxChange /\ everEmpty \subseteq Mods
    /\ step \in Steps
    /\ data \in [Mods -> SUBSET Hosts] /\ tmpData \in [Mods -> SUBSET Hosts]
    /\ routeVersion \in 0..MaxTs
    /\ changes \subseteq Mods /\ due \in BOOLEAN /\ failures \in 0..MaxFail
    /\ book \subseteq Pairs /\ pushList \subseteq Pairs
    /\ task \in [Workers -> BOOLEAN]
    /\ server \in [Fds -> Workers \cup {Nobody}]
    /\ busy \in [Workers -> {Rest} \cup {Answering(fd, m) : fd \in Fds, m \in Mods}
                                   \cup {Pushing(news) : news \in SUBSET Pairs}
                                   \cup {Closing(fd) : fd \in Fds}]
    /\ told \in [Pairs -> {Untold} \cup {Told(S) : S \in SUBSET Hosts}]
    /\ owed \subseteq Pairs

\* A subscriber that knows an older route than the one whose change has been
\* found gets a push: it is on its way through the loader, the push lists, the
\* task of its own worker or that worker's news, whatever requests, closes and
\* other pushes run in between.
OnItsWay(p) ==
    \/ step = "Push" /\ p[2] \in changes /\ p \in book
    \/ p \in pushList /\ (step = "RunTask" \/ (Open(p[1]) /\ task[server[p[1]]]))
    \/ /\ Open(p[1]) /\ busy[server[p[1]]].kind = "push"
       /\ p \in busy[server[p[1]]].news

OwedOnTheirWay == \A p \in owed : OnItsWay(p)

\* An agent is told that a module has no hosts, and then deletes what it has of
\* the module, only if the table has really had none: a failed reload, which
\* leaves the spare map empty, never shows.
NeverWiped ==
    \A p \in Pairs : told[p] = Told({}) => p[2] \in everEmpty

\* The dnsserver keeps the promises of module RouteFeed, which RouteLB builds on,
\* although subscriptions, push lists and news are of different threads, and
\* clearSubscribe unsubscribes module by module.
Newses == {busy[w].news : w \in {v \in Workers : busy[v].kind = "push"}}

Feed == INSTANCE RouteFeed WITH
    dns   <- data,
    subs  <- book,
    filed <- pushList \cup UNION Newses,
    gone  <- {fd \in Fds : Open(fd) /\ busy[server[fd]] = Closing(fd)}

KeepsFeed == Feed!Spec

\* When the operators leave the table alone every connected agent comes to have
\* the current routes, although changes are lost by the version check, by
\* failed queries and by rmChanges.
AgentsConverge ==
    <>[](\A p \in Pairs : told[p] \in {Untold, Told(table[p[2]])})
=============================================================================
