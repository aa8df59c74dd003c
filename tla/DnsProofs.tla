----------------------------- MODULE DnsProofs ------------------------------
(***************************************************************************)
(* Theorems about DnsServer: its type invariant, that an agent is never    *)
(* told of an empty route the table never had, and that whoever is owed a  *)
(* route has a push on its way.                                            *)
(***************************************************************************)
EXTENDS DnsServer, TLAPS

\* What a worker can be in the middle of, and what a subscriber can have been
\* told.
Occupations ==
    {Rest} \cup {Answering(fd, m) : fd \in Fds, m \in Mods}
           \cup {Pushing(news) : news \in SUBSET Pairs}
           \cup {Closing(fd) : fd \in Fds}

Knowledge == {Untold} \cup {Told(S) : S \in SUBSET Hosts}

\* A worker has only news of its own connections, and closes only those.  The
\* agent of a connection that is being closed is owed nothing more.
WorkersInv ==
    /\ \A w \in Workers :
          busy[w].kind = "push" => \A p \in busy[w].news : server[p[1]] = w
    /\ \A fd \in Fds, w \in Workers : busy[w] = Closing(fd) =>
          server[fd] = w /\ \A m \in Mods : told[<<fd, m>>] = Untold

\* Only subscribers are told and owed, and only on open connections.
SubscribersInv ==
    /\ \A p \in book : Open(p[1])
    /\ \A p \in Pairs : told[p] # Untold => p \in book
    /\ \A p \in owed : told[p] # Untold

\* No map that is visible, or about to be, has an empty route of its own making.
MapsInv ==
    /\ EmptyIn(table) \subseteq everEmpty
    /\ step # "Load" => EmptyIn(data) \subseteq everEmpty
    /\ step \in {"Swap", "PeriodicSwap"} => EmptyIn(tmpData) \subseteq everEmpty

\* No push before the first load.
EarlyInv ==
    step = "Load" => pushList = {} /\ \A w \in Workers : busy[w].kind # "push"

IInv == /\ TypeOK /\ MapsInv /\ EarlyInv /\ NeverWiped
        /\ WorkersInv /\ SubscribersInv /\ OwedOnTheirWay

-----------------------------------------------------------------------------
(* Occupations are told apart by their kinds.                              *)

LEMMA Kinds ==
    /\ Rest.kind = "rest"
    /\ \A fd \in Fds, m \in Mods : Answering(fd, m).kind = "answer"
    /\ \A news \in SUBSET Pairs :
          Pushing(news).kind = "push" /\ Pushing(news).news = news
    /\ \A fd \in Fds : Closing(fd).kind = "close" /\ Closing(fd).fd = fd
    /\ \A S \in SUBSET Hosts : Told(S) # Untold
    /\ \A S, T \in SUBSET Hosts : Told(S) = Told(T) => S = T
<1>1. Rest.kind = "rest"
  BY DEF Rest
<1>2. \A fd \in Fds, m \in Mods : Answering(fd, m).kind = "answer"
  BY DEF Answering
<1>3. \A news \in SUBSET Pairs :
         Pushing(news).kind = "push" /\ Pushing(news).news = news
  BY DEF Pushing
<1>4. \A fd \in Fds : Closing(fd).kind = "close" /\ Closing(fd).fd = fd
  BY DEF Closing
<1>5. ASSUME NEW S PROVE Told(S).told = TRUE /\ Told(S).route = S
  BY DEF Told
<1>6. Untold.told = FALSE
  BY DEF Untold
<1>7. \A S \in SUBSET Hosts : Told(S) # Untold
  BY <1>5, <1>6
<1>8. \A S, T \in SUBSET Hosts : Told(S) = Told(T) => S = T
  BY <1>5
<1> QED
  BY <1>1, <1>2, <1>3, <1>4, <1>7, <1>8

LEMMA NewsOfPush ==
    ASSUME NEW x \in Occupations, x.kind = "push"
    PROVE  x.news \subseteq Pairs
BY Kinds DEF Occupations

LEMMA OneClosed ==
    ASSUME NEW fd \in Fds, NEW other \in Fds, Closing(other) = Closing(fd)
    PROVE  other = fd
BY Kinds

\* What TypeOK says of the workers, and what a turn of one of them does.
LEMMA WorkersTyped ==
    ASSUME TypeOK
    PROVE  /\ server \in [Fds -> Workers \cup {Nobody}]
           /\ busy \in [Workers -> Occupations]
           /\ told \in [Pairs -> Knowledge]
BY DEF TypeOK, Occupations, Knowledge

LEMMA OneTurn ==
    ASSUME TypeOK, NEW w \in Workers, NEW x \in Occupations,
           busy' = [busy EXCEPT ![w] = x]
    PROVE  /\ busy' \in [Workers -> Occupations]
           /\ busy'[w] = x
           /\ \A v \in Workers : v # w => busy'[v] = busy[v]
BY WorkersTyped

\* What a send does.
LEMMA OneSend ==
    ASSUME TypeOK, NEW p \in Pairs, Send(p)
    PROVE  /\ told' \in [Pairs -> Knowledge]
           /\ p \in book => told'[p] = Told(data[p[2]])
           /\ p \notin book => told'[p] = told[p]
           /\ \A q \in Pairs : q # p => told'[q] = told[q]
           /\ owed' = owed \ {p}
<1>1. p[2] \in Mods /\ data[p[2]] \in SUBSET Hosts
  BY DEF TypeOK, Pairs
<1>2. told \in [Pairs -> Knowledge] /\ Told(data[p[2]]) \in Knowledge
  BY <1>1, WorkersTyped DEF Knowledge
<1>3. CASE p \in book
  BY <1>2, <1>3 DEF Send
<1>4. CASE p \notin book
  BY <1>2, <1>4 DEF Send
<1> QED
  BY <1>3, <1>4

-----------------------------------------------------------------------------
(* What a step disturbs only if it changes certain variables.              *)

LEMMA WorkersUntouched ==
    ASSUME IInv, UNCHANGED <<book, workVars>>
    PROVE  WorkersInv' /\ SubscribersInv'
BY DEF IInv, WorkersInv, SubscribersInv, Open, workVars

LEMMA LoaderUntouched ==
    ASSUME IInv, UNCHANGED <<dbVars, routeVars, loaderVars>>
    PROVE  MapsInv'
BY DEF IInv, MapsInv, EmptyIn, dbVars, routeVars, loaderVars

LEMMA NobodyTold ==
    ASSUME IInv, UNCHANGED told, everEmpty \subseteq everEmpty'
    PROVE  NeverWiped'
BY DEF IInv, NeverWiped

LEMMA SendKeeps ==
    ASSUME IInv, NEW p \in Pairs, Send(p), step # "Load",
           UNCHANGED <<everEmpty, book, server>>
    PROVE  NeverWiped' /\ SubscribersInv'
<1>1. p[2] \in Mods /\ data[p[2]] \in SUBSET Hosts
  BY DEF IInv, TypeOK, Pairs
<1>2. /\ told' \in [Pairs -> Knowledge]
      /\ p \in book => told'[p] = Told(data[p[2]])
      /\ p \notin book => told'[p] = told[p]
      /\ \A q \in Pairs : q # p => told'[q] = told[q]
      /\ owed' = owed \ {p}
  BY OneSend DEF IInv
<1>3. data[p[2]] = {} => p[2] \in everEmpty
  BY <1>1 DEF IInv, MapsInv, EmptyIn
<1>4. Told(data[p[2]]) = Told({}) => data[p[2]] = {}
  BY <1>1, Kinds
<1>5. told'[p] = Told({}) => p[2] \in everEmpty
  BY <1>2, <1>3, <1>4 DEF IInv, NeverWiped
<1>6. NeverWiped'
  BY <1>2, <1>5 DEF IInv, NeverWiped
<1>7. SubscribersInv'
  <2>1. \A q \in Pairs : told'[q] # Untold => q \in book
    BY <1>2 DEF IInv, SubscribersInv
  <2>2. \A q \in owed' : q \in owed /\ q \in Pairs /\ q # p
    BY <1>2 DEF IInv, TypeOK
  <2>3. \A q \in owed' : told'[q] # Untold
    BY <2>2, <1>2 DEF IInv, SubscribersInv
  <2> QED
    BY <2>1, <2>3 DEF IInv, SubscribersInv, Open
<1> QED
  BY <1>6, <1>7

-----------------------------------------------------------------------------
LEMMA InitInv == Init => IInv
<1> SUFFICES ASSUME Init PROVE IInv
  OBVIOUS
<1> USE DnsServerAssumption
<1>1. TypeOK
  <2>1. /\ table \in [Mods -> SUBSET Hosts] /\ version \in 0..MaxTs
        /\ changeLog \subseteq Rows /\ transactions \in 0..MaxChange
        /\ everEmpty \subseteq Mods
    BY DEF Init, EmptyIn
  <2>2. /\ step \in Steps /\ data \in [Mods -> SUBSET Hosts]
        /\ tmpData \in [Mods -> SUBSET Hosts] /\ routeVersion \in 0..MaxTs
        /\ changes \subseteq Mods /\ due \in BOOLEAN /\ failures \in 0..MaxFail
    <3>1. 0 \in 0..MaxTs /\ 0 \in 0..MaxFail /\ "Load" \in Steps
      BY DEF Steps
    <3> QED
      BY <3>1 DEF Init
  <2>3. /\ book \subseteq Pairs /\ pushList \subseteq Pairs
        /\ task \in [Workers -> BOOLEAN] /\ owed \subseteq Pairs
    BY DEF Init
  <2>4. /\ server \in [Fds -> Workers \cup {Nobody}]
        /\ busy \in [Workers -> Occupations] /\ told \in [Pairs -> Knowledge]
    BY DEF Init, Occupations, Knowledge
  <2> QED
    BY <2>1, <2>2, <2>3, <2>4 DEF TypeOK, Occupations, Knowledge
<1>2. MapsInv /\ NeverWiped
  BY Kinds DEF Init, MapsInv, NeverWiped, EmptyIn
<1>3. WorkersInv /\ EarlyInv
  BY Kinds DEF Init, WorkersInv, EarlyInv
<1>4. SubscribersInv /\ OwedOnTheirWay
  BY DEF Init, SubscribersInv, OwedOnTheirWay
<1> QED
  BY <1>1, <1>2, <1>3, <1>4 DEF IInv

-----------------------------------------------------------------------------
(* The operators and the loader thread.                                    *)

LEMMA CommitInv ==
    ASSUME IInv, NEW m \in Mods, NEW h \in Hosts, NEW ts \in 0..MaxTs, Commit(m, h, ts)
    PROVE  IInv'
<1> USE DnsServerAssumption DEF dbVars, routeVars, loaderVars, listVars, workVars
<1>1. TypeOK'
  BY DEF IInv, TypeOK, Commit, EmptyIn, Goto, QueryFails, QueryOk, Steps, Rows
<1>2. MapsInv'
  BY DEF IInv, TypeOK, MapsInv, EmptyIn, Commit, EmptyIn, Goto
<1>3. NeverWiped'
  BY NobodyTold DEF Commit, EmptyIn
<1>4. WorkersInv' /\ SubscribersInv'
  BY WorkersUntouched DEF Commit, EmptyIn
<1>5. OwedOnTheirWay'
  BY DEF IInv, SubscribersInv, OwedOnTheirWay, OnItsWay, Open, Commit, EmptyIn, Goto
<1>6. EarlyInv'
  BY DEF IInv, EarlyInv, Commit, EmptyIn, Goto
<1> QED
  BY <1>1, <1>2, <1>3, <1>4, <1>5, <1>6 DEF IInv

LEMMA LoadInv ==
    ASSUME IInv, Load
    PROVE  IInv'
<1> USE DnsServerAssumption DEF dbVars, routeVars, loaderVars, listVars, workVars
<1>1. TypeOK'
  BY DEF IInv, TypeOK, Load, Goto, QueryFails, QueryOk, Steps, Rows
<1>2. MapsInv'
  BY DEF IInv, TypeOK, MapsInv, EmptyIn, Load, Goto
<1>3. NeverWiped'
  BY NobodyTold DEF Load
<1>4. WorkersInv' /\ SubscribersInv'
  BY WorkersUntouched DEF Load
<1>5. OwedOnTheirWay'
  BY DEF IInv, SubscribersInv, OwedOnTheirWay, OnItsWay, Open, Load, Goto
<1>6. EarlyInv'
  BY DEF IInv, EarlyInv, Load, Goto
<1> QED
  BY <1>1, <1>2, <1>3, <1>4, <1>5, <1>6 DEF IInv

LEMMA RmAllInv ==
    ASSUME IInv, RmAll
    PROVE  IInv'
<1> USE DnsServerAssumption DEF dbVars, routeVars, loaderVars, listVars, workVars
<1>1. TypeOK'
  BY DEF IInv, TypeOK, RmAll, RmRows, Goto, QueryFails, QueryOk, Steps, Rows
<1>2. MapsInv'
  BY DEF IInv, TypeOK, MapsInv, EmptyIn, RmAll, RmRows, Goto
<1>3. NeverWiped'
  BY NobodyTold DEF RmAll, RmRows
<1>4. WorkersInv' /\ SubscribersInv'
  BY WorkersUntouched DEF RmAll, RmRows
<1>5. OwedOnTheirWay'
  BY DEF IInv, SubscribersInv, OwedOnTheirWay, OnItsWay, Open, RmAll, RmRows, Goto
<1>6. EarlyInv'
  BY DEF IInv, EarlyInv, RmAll, RmRows, Goto
<1> QED
  BY <1>1, <1>2, <1>3, <1>4, <1>5, <1>6 DEF IInv

LEMMA RmChangesInv ==
    ASSUME IInv, RmChanges
    PROVE  IInv'
<1> USE DnsServerAssumption DEF dbVars, routeVars, loaderVars, listVars, workVars
<1>1. TypeOK'
  BY DEF IInv, TypeOK, RmChanges, RmRows, Logged, Goto, QueryFails, QueryOk, Steps, Rows
<1>2. MapsInv'
  BY DEF IInv, TypeOK, MapsInv, EmptyIn, RmChanges, RmRows, Logged, Goto
<1>3. NeverWiped'
  BY NobodyTold DEF RmChanges, RmRows, Logged
<1>4. WorkersInv' /\ SubscribersInv'
  BY WorkersUntouched DEF RmChanges, RmRows, Logged
<1>5. OwedOnTheirWay'
  BY DEF IInv, SubscribersInv, OwedOnTheirWay, OnItsWay, Open, RmChanges, RmRows, Logged, Goto
<1>6. EarlyInv'
  BY DEF IInv, EarlyInv, RmChanges, RmRows, Logged, Goto
<1> QED
  BY <1>1, <1>2, <1>3, <1>4, <1>5, <1>6 DEF IInv

LEMMA ElapseInv ==
    ASSUME IInv, Elapse
    PROVE  IInv'
<1> USE DnsServerAssumption DEF dbVars, routeVars, loaderVars, listVars, workVars
<1>1. TypeOK'
  BY DEF IInv, TypeOK, Elapse, Goto, QueryFails, QueryOk, Steps, Rows
<1>2. MapsInv'
  BY DEF IInv, TypeOK, MapsInv, EmptyIn, Elapse, Goto
<1>3. NeverWiped'
  BY NobodyTold DEF Elapse
<1>4. WorkersInv' /\ SubscribersInv'
  BY WorkersUntouched DEF Elapse
<1>5. OwedOnTheirWay'
  BY DEF IInv, SubscribersInv, OwedOnTheirWay, OnItsWay, Open, Elapse, Goto
<1>6. EarlyInv'
  BY DEF IInv, EarlyInv, Elapse, Goto
<1> QED
  BY <1>1, <1>2, <1>3, <1>4, <1>5, <1>6 DEF IInv

LEMMA LoadVersionInv ==
    ASSUME IInv, LoadVersion
    PROVE  IInv'
<1> USE DnsServerAssumption DEF dbVars, routeVars, loaderVars, listVars, workVars
<1>1. TypeOK'
  BY DEF IInv, TypeOK, LoadVersion, NoNews, Goto, QueryFails, QueryOk, Steps, Rows
<1>2. MapsInv'
  BY DEF IInv, TypeOK, MapsInv, EmptyIn, LoadVersion, NoNews, Goto
<1>3. NeverWiped'
  BY NobodyTold DEF LoadVersion, NoNews
<1>4. WorkersInv' /\ SubscribersInv'
  BY WorkersUntouched DEF LoadVersion, NoNews
<1>5. OwedOnTheirWay'
  BY DEF IInv, SubscribersInv, OwedOnTheirWay, OnItsWay, Open, LoadVersion, NoNews, Goto
<1>6. EarlyInv'
  BY DEF IInv, EarlyInv, LoadVersion, NoNews, Goto
<1> QED
  BY <1>1, <1>2, <1>3, <1>4, <1>5, <1>6 DEF IInv

LEMMA ReloadInv ==
    ASSUME IInv, Reload
    PROVE  IInv'
<1> USE DnsServerAssumption DEF dbVars, routeVars, loaderVars, listVars, workVars
<1>1. TypeOK'
  BY DEF IInv, TypeOK, Reload, Goto, QueryFails, QueryOk, Steps, Rows
<1>2. MapsInv'
  BY DEF IInv, TypeOK, MapsInv, EmptyIn, Reload, Goto
<1>3. NeverWiped'
  BY NobodyTold DEF Reload
<1>4. WorkersInv' /\ SubscribersInv'
  BY WorkersUntouched DEF Reload
<1>5. OwedOnTheirWay'
  BY DEF IInv, SubscribersInv, OwedOnTheirWay, OnItsWay, Open, Reload, Goto
<1>6. EarlyInv'
  BY DEF IInv, EarlyInv, Reload, Goto
<1> QED
  BY <1>1, <1>2, <1>3, <1>4, <1>5, <1>6 DEF IInv

LEMMA SwapInv ==
    ASSUME IInv, Swap
    PROVE  IInv'
<1> USE DnsServerAssumption DEF dbVars, routeVars, loaderVars, listVars, workVars
<1>1. TypeOK'
  <2>1. step' \in Steps /\ due' \in BOOLEAN
    BY DEF Swap, Goto, Steps
  <2>2. data' \in [Mods -> SUBSET Hosts] /\ tmpData' \in [Mods -> SUBSET Hosts]
    BY DEF IInv, TypeOK, Swap
  <2>3. UNCHANGED <<dbVars, routeVersion, changes, failures, listVars, workVars>>
    BY DEF Swap
  <2> QED
    BY <2>1, <2>2, <2>3 DEF IInv, TypeOK
<1>2. MapsInv'
  BY DEF IInv, TypeOK, MapsInv, EmptyIn, Swap, Goto
<1>3. NeverWiped'
  BY NobodyTold DEF Swap
<1>4. WorkersInv' /\ SubscribersInv'
  BY WorkersUntouched DEF Swap
<1>5. OwedOnTheirWay'
  BY DEF IInv, SubscribersInv, OwedOnTheirWay, OnItsWay, Open, Swap, Goto
<1>6. EarlyInv'
  BY DEF IInv, EarlyInv, Swap, Goto
<1> QED
  BY <1>1, <1>2, <1>3, <1>4, <1>5, <1>6 DEF IInv

LEMMA LoadChangesInv ==
    ASSUME IInv, LoadChanges
    PROVE  IInv'
<1> USE DnsServerAssumption DEF dbVars, routeVars, loaderVars, listVars, workVars
<1>1. TypeOK'
  BY DEF IInv, TypeOK, LoadChanges, Logged, Goto, QueryFails, QueryOk, Steps, Rows
<1>2. MapsInv'
  BY DEF IInv, TypeOK, MapsInv, EmptyIn, LoadChanges, Logged, Goto
<1>3. NeverWiped'
  BY NobodyTold DEF LoadChanges, Logged
<1>4. WorkersInv' /\ SubscribersInv'
  <2>1. WorkersInv'
    BY DEF IInv, WorkersInv, LoadChanges
  <2>2. \A p \in owed' : told'[p] # Untold
    BY DEF IInv, SubscribersInv, LoadChanges
  <2> QED
    BY <2>1, <2>2 DEF IInv, SubscribersInv, Open, LoadChanges
<1>5. OwedOnTheirWay'
  BY DEF IInv, SubscribersInv, OwedOnTheirWay, OnItsWay, Open, LoadChanges, Logged, Goto
<1>6. EarlyInv'
  BY DEF IInv, EarlyInv, LoadChanges, Logged, Goto
<1> QED
  BY <1>1, <1>2, <1>3, <1>4, <1>5, <1>6 DEF IInv

LEMMA PushInv ==
    ASSUME IInv, Push
    PROVE  IInv'
<1> USE DnsServerAssumption DEF dbVars, routeVars, loaderVars, listVars, workVars
<1>1. TypeOK'
  BY DEF IInv, TypeOK, Push, Goto, QueryFails, QueryOk, Steps, Rows
<1>2. MapsInv'
  BY DEF IInv, TypeOK, MapsInv, EmptyIn, Push, Goto
<1>3. NeverWiped'
  BY NobodyTold DEF Push
<1>4. WorkersInv' /\ SubscribersInv'
  BY WorkersUntouched DEF Push
<1>5. OwedOnTheirWay'
  BY DEF IInv, SubscribersInv, OwedOnTheirWay, OnItsWay, Open, Push, Goto
<1>6. EarlyInv'
  BY DEF IInv, EarlyInv, Push, Goto
<1> QED
  BY <1>1, <1>2, <1>3, <1>4, <1>5, <1>6 DEF IInv

LEMMA RunTaskInv ==
    ASSUME IInv, RunTask
    PROVE  IInv'
<1> USE DnsServerAssumption DEF dbVars, routeVars, loaderVars, listVars, workVars
<1>1. TypeOK'
  BY DEF IInv, TypeOK, RunTask, Goto, QueryFails, QueryOk, Steps, Rows
<1>2. MapsInv'
  BY DEF IInv, TypeOK, MapsInv, EmptyIn, RunTask, Goto
<1>3. NeverWiped'
  BY NobodyTold DEF RunTask
<1>4. WorkersInv' /\ SubscribersInv'
  BY WorkersUntouched DEF RunTask
<1>5. OwedOnTheirWay'
  <2>1. ASSUME NEW p \in owed
        PROVE  p[1] \in Fds /\ Open(p[1])
    BY DEF IInv, TypeOK, SubscribersInv, Pairs
  <2>2. ASSUME NEW fd \in Fds, Open(fd)
        PROVE  Open(fd)' /\ task'[server'[fd]]
    BY <2>2 DEF IInv, TypeOK, Open, RunTask
  <2> QED
    BY <2>1, <2>2 DEF IInv, OwedOnTheirWay, OnItsWay, RunTask, Goto
<1>6. EarlyInv'
  BY DEF IInv, EarlyInv, RunTask, Goto
<1> QED
  BY <1>1, <1>2, <1>3, <1>4, <1>5, <1>6 DEF IInv

-----------------------------------------------------------------------------
(* The workers.                                                            *)

LEMMA ConnectInv ==
    ASSUME IInv, NEW fd \in Fds, NEW w \in Workers, Connect(fd, w)
    PROVE  IInv'
<1> USE DnsServerAssumption DEF dbVars, routeVars, loaderVars, listVars, workVars
<1>1. server' \in [Fds -> Workers \cup {Nobody}]
  BY DEF IInv, TypeOK, Connect
<1>2. /\ server[fd] = Nobody
      /\ \A other \in Fds : Open(other) => server'[other] = server[other] /\ Open(other)'
  BY DEF IInv, TypeOK, Connect, Open
<1>3. TypeOK'
  BY <1>1 DEF IInv, TypeOK, Connect
<1>4. MapsInv' /\ NeverWiped'
  BY LoaderUntouched, NobodyTold DEF Connect
<1>5. WorkersInv'
  <2>1. ASSUME NEW v \in Workers, busy[v].kind = "push", NEW p \in busy[v].news
        PROVE  server'[p[1]] = v
    <3>1. server[p[1]] = v
      BY <2>1 DEF IInv, WorkersInv
    <3>2. p[1] \in Fds
      BY <2>1, WorkersTyped, NewsOfPush DEF IInv, Pairs
    <3> QED
      BY <3>1, <3>2, <1>2 DEF Open
  <2>2. ASSUME NEW other \in Fds, NEW v \in Workers, busy[v] = Closing(other)
        PROVE  server'[other] = v /\ \A m \in Mods : told[<<other, m>>] = Untold
    BY <2>2, <1>2 DEF IInv, WorkersInv, Open
  <2> QED
    BY <2>1, <2>2 DEF WorkersInv, Connect
<1>6. SubscribersInv'
  BY <1>2 DEF IInv, TypeOK, SubscribersInv, Connect, Pairs
<1>7. OwedOnTheirWay'
  <2>1. \A p \in owed : p[1] \in Fds /\ Open(p[1])
    BY DEF IInv, TypeOK, SubscribersInv, Pairs
  <2> QED
    BY <2>1, <1>2 DEF IInv, OwedOnTheirWay, OnItsWay, Connect
<1>8. EarlyInv'
  BY DEF IInv, EarlyInv, Connect
<1> QED
  BY <1>3, <1>4, <1>5, <1>6, <1>7, <1>8 DEF IInv

LEMMA GetRouteInv ==
    ASSUME IInv, NEW fd \in Fds, NEW m \in Mods, GetRoute(fd, m)
    PROVE  IInv'
<1> USE DnsServerAssumption DEF dbVars, routeVars, loaderVars, listVars, workVars
<1> DEFINE w == server[fd]
<1>1. w \in Workers
  BY DEF IInv, TypeOK, GetRoute, Open
<1>2. Answering(fd, m) \in Occupations /\ Answering(fd, m).kind = "answer"
  BY Kinds DEF Occupations
<1>3. /\ busy[w] = Rest
      /\ busy' \in [Workers -> Occupations] /\ busy'[w] = Answering(fd, m)
      /\ \A v \in Workers : v # w => busy'[v] = busy[v]
  BY <1>1, <1>2, OneTurn DEF IInv, GetRoute, Turn
<1>4. TypeOK'
  <2>1. <<fd, m>> \in Pairs
    BY DEF Pairs
  <2> QED
    BY <1>3, <2>1 DEF IInv, TypeOK, Occupations, GetRoute
<1>5. MapsInv' /\ NeverWiped'
  BY LoaderUntouched, NobodyTold DEF GetRoute
<1>6. WorkersInv'
  <2>1. \A other \in Fds : busy'[w] # Closing(other)
    BY <1>2, <1>3, Kinds
  <2> QED
    BY <1>1, <1>2, <1>3, <2>1 DEF IInv, WorkersInv, GetRoute
<1>7. SubscribersInv'
  BY DEF IInv, SubscribersInv, Open, GetRoute
<1>8. OwedOnTheirWay'
  <2>1. \A p \in owed : p[1] \in Fds
    BY DEF IInv, TypeOK, Pairs
  <2>2. \A other \in Fds : Open(other) /\ busy[server[other]].kind = "push" =>
                               busy'[server[other]] = busy[server[other]]
    BY <1>3, Kinds DEF IInv, TypeOK, Open
  <2> QED
    BY <2>1, <2>2 DEF IInv, OwedOnTheirWay, OnItsWay, Open, GetRoute
<1>9. EarlyInv'
  BY <1>1, <1>2, <1>3 DEF IInv, EarlyInv, GetRoute
<1> QED
  BY <1>4, <1>5, <1>6, <1>7, <1>8, <1>9 DEF IInv

LEMMA AnswerInv ==
    ASSUME IInv, NEW fd \in Fds, NEW m \in Mods, Answer(fd, m)
    PROVE  IInv'
<1> USE DnsServerAssumption DEF dbVars, routeVars, loaderVars, listVars, workVars
<1> DEFINE w == server[fd]
<1>1. w \in Workers /\ <<fd, m>> \in Pairs
  BY DEF IInv, TypeOK, Answer, Open, Pairs
<1>2. Rest \in Occupations /\ Rest.kind = "rest"
  BY Kinds DEF Occupations
<1>3. busy[w] = Answering(fd, m) /\ busy[w].kind = "answer"
  BY Kinds DEF Answer, Turn
<1>4. /\ busy' \in [Workers -> Occupations] /\ busy'[w] = Rest
      /\ \A v \in Workers : v # w => busy'[v] = busy[v]
  <2>1. busy' = [busy EXCEPT ![w] = Rest]
    BY DEF Answer, Turn
  <2> QED
    BY <1>1, <1>2, <2>1, OneTurn DEF IInv
<1>5. /\ told' \in [Pairs -> Knowledge]
      /\ \A q \in Pairs : q # <<fd, m>> => told'[q] = told[q]
      /\ owed' = owed \ {<<fd, m>>}
  BY <1>1, OneSend DEF IInv, Answer
<1>6. TypeOK'
  BY <1>4, <1>5 DEF IInv, TypeOK, Occupations, Knowledge, Answer
<1>7. MapsInv' /\ NeverWiped' /\ SubscribersInv'
  BY <1>1, LoaderUntouched, SendKeeps DEF Answer
<1>8. WorkersInv'
  <2>1. ASSUME NEW other \in Fds, NEW v \in Workers, busy'[v] = Closing(other)
        PROVE  server[other] = v /\ \A n \in Mods : told'[<<other, n>>] = Untold
    <3>1. v # w /\ busy[v] = Closing(other)
      BY <2>1, <1>2, <1>4, Kinds
    <3>2. server[other] = v /\ \A n \in Mods : told[<<other, n>>] = Untold
      BY <3>1 DEF IInv, WorkersInv
    <3>3. \A n \in Mods : <<other, n>> \in Pairs /\ <<other, n>> # <<fd, m>>
      BY <3>1, <3>2 DEF Pairs
    <3> QED
      BY <3>2, <3>3, <1>5
  <2>2. \A v \in Workers : busy'[v].kind = "push" => busy'[v] = busy[v]
    BY <1>2, <1>4
  <2> QED
    BY <2>1, <2>2 DEF IInv, WorkersInv, Answer
<1>9. OwedOnTheirWay'
  <2>1. \A p \in owed' : p \in owed /\ p[1] \in Fds
    BY <1>5 DEF IInv, TypeOK, Pairs
  <2>2. \A other \in Fds : Open(other) /\ busy[server[other]].kind = "push" =>
                               busy'[server[other]] = busy[server[other]]
    BY <1>3, <1>4 DEF IInv, TypeOK, Open
  <2> QED
    BY <2>1, <2>2 DEF IInv, OwedOnTheirWay, OnItsWay, Open, Answer
<1>10. EarlyInv'
  BY DEF EarlyInv, Answer
<1> QED
  BY <1>6, <1>7, <1>8, <1>9, <1>10 DEF IInv

LEMMA FetchPushInv ==
    ASSUME IInv, NEW w \in Workers, FetchPush(w)
    PROVE  IInv'
<1> USE DnsServerAssumption DEF dbVars, routeVars, loaderVars, listVars, workVars
<1> DEFINE news == {p \in pushList : server[p[1]] = w}
           next == IF news = {} THEN Rest ELSE Pushing(news)
<1>1. news \in SUBSET Pairs
  BY DEF IInv, TypeOK
<1>2. next \in Occupations
  BY <1>1 DEF Occupations
<1>3. /\ next.kind = "push" => next.news = news
      /\ news # {} => next.kind = "push"
      /\ news = {} => next.kind = "rest"
      /\ next.kind \in {"push", "rest"}
  BY <1>1, Kinds
<1>4. /\ busy[w] = Rest /\ busy[w].kind = "rest"
      /\ busy' \in [Workers -> Occupations] /\ busy'[w] = next
      /\ \A v \in Workers : v # w => busy'[v] = busy[v]
  <2>1. busy[w] = Rest /\ busy' = [busy EXCEPT ![w] = next]
    BY DEF FetchPush, Turn
  <2> HIDE DEF next
  <2> QED
    BY <1>2, <2>1, OneTurn, Kinds DEF IInv
<1>5. /\ task' \in [Workers -> BOOLEAN]
      /\ \A v \in Workers : v # w => task'[v] = task[v]
      /\ pushList' = pushList \ news
  BY DEF IInv, TypeOK, FetchPush
<1> HIDE DEF next
<1>6. TypeOK'
  BY <1>4, <1>5 DEF IInv, TypeOK, Occupations, FetchPush
<1>7. MapsInv' /\ NeverWiped'
  BY LoaderUntouched, NobodyTold DEF FetchPush
<1>8. SubscribersInv'
  BY DEF IInv, SubscribersInv, Open, FetchPush
<1>9. WorkersInv'
  <2>1. \A other \in Fds : busy'[w] # Closing(other)
    BY <1>3, <1>4, Kinds
  <2>2. ASSUME NEW v \in Workers, busy'[v].kind = "push", NEW p \in busy'[v].news
        PROVE  server[p[1]] = v
    <3>1. CASE v = w
      BY <2>2, <3>1, <1>3, <1>4
    <3>2. CASE v # w
      BY <2>2, <3>2, <1>4 DEF IInv, WorkersInv
    <3> QED
      BY <3>1, <3>2
  <2>3. \A other \in Fds, v \in Workers : busy'[v] = Closing(other) =>
           server[other] = v /\ \A m \in Mods : told[<<other, m>>] = Untold
    BY <2>1, <1>4 DEF IInv, WorkersInv
  <2> QED
    BY <2>2, <2>3 DEF WorkersInv, FetchPush
<1>10. OwedOnTheirWay'
  <2> SUFFICES ASSUME NEW p \in owed PROVE OnItsWay(p)'
    BY DEF OwedOnTheirWay, FetchPush
  <2>1. p[1] \in Fds /\ Open(p[1]) /\ server[p[1]] \in Workers
    BY DEF IInv, TypeOK, SubscribersInv, Pairs, Open
  <2>2. OnItsWay(p)
    BY DEF IInv, OwedOnTheirWay
  <2>3. CASE p \in news
    BY <2>1, <2>3, <1>3, <1>4 DEF OnItsWay, Open, FetchPush
  <2>4. CASE p \notin news
    <3>1. CASE server[p[1]] = w
      BY <2>2, <2>4, <3>1, <1>4 DEF OnItsWay, FetchPush
    <3>2. CASE server[p[1]] # w
      BY <2>1, <2>2, <2>4, <3>2, <1>4, <1>5 DEF OnItsWay, Open, FetchPush
    <3> QED
      BY <3>1, <3>2
  <2> QED
    BY <2>3, <2>4
<1>11. EarlyInv'
  BY <1>3, <1>4, <1>5 DEF IInv, EarlyInv, FetchPush
<1> QED
  BY <1>6, <1>7, <1>8, <1>9, <1>10, <1>11 DEF IInv

LEMMA PushOneInv ==
    ASSUME IInv, NEW w \in Workers, PushOne(w)
    PROVE  IInv'
<1> USE DnsServerAssumption DEF dbVars, routeVars, loaderVars, listVars, workVars
<1>1. busy[w] \in Occupations /\ busy[w].kind = "push"
  BY WorkersTyped DEF IInv, PushOne
<1>2. busy[w].news \in SUBSET Pairs
  BY <1>1, NewsOfPush
<1>3. PICK p \in busy[w].news :
         LET left == busy[w].news \ {p}
         IN  /\ Turn(w, busy[w], IF left = {} THEN Rest ELSE Pushing(left))
             /\ Send(p)
  BY DEF PushOne
<1> DEFINE left == busy[w].news \ {p}
           next == IF left = {} THEN Rest ELSE Pushing(left)
<1>4. p \in Pairs /\ p[1] \in Fds /\ server[p[1]] = w
  BY <1>1, <1>2 DEF IInv, WorkersInv, Pairs
<1>5. left \in SUBSET Pairs /\ next \in Occupations
  BY <1>2 DEF Occupations
<1>6. /\ next.kind = "push" => next.news = left
      /\ left # {} => next.kind = "push"
      /\ next.kind \in {"push", "rest"}
  BY <1>5, Kinds
<1>7. /\ busy' \in [Workers -> Occupations] /\ busy'[w] = next
      /\ \A v \in Workers : v # w => busy'[v] = busy[v]
  <2>1. busy' = [busy EXCEPT ![w] = next]
    BY <1>3 DEF Turn
  <2> HIDE DEF next
  <2> QED
    BY <1>5, <2>1, OneTurn DEF IInv
<1> HIDE DEF next
<1>8. /\ told' \in [Pairs -> Knowledge]
      /\ \A q \in Pairs : q # p => told'[q] = told[q]
      /\ owed' = owed \ {p}
  BY <1>3, <1>4, OneSend DEF IInv
<1>9. step # "Load"
  BY <1>1 DEF IInv, EarlyInv
<1>10. TypeOK'
  BY <1>7, <1>8 DEF IInv, TypeOK, Occupations, Knowledge, PushOne
<1>11. MapsInv' /\ NeverWiped' /\ SubscribersInv'
  BY <1>3, <1>4, <1>9, LoaderUntouched, SendKeeps DEF PushOne
<1>12. WorkersInv'
  <2>1. ASSUME NEW v \in Workers, busy'[v].kind = "push", NEW q \in busy'[v].news
        PROVE  server[q[1]] = v
    <3>1. v = w => q \in busy[w].news
      BY <2>1, <1>6, <1>7
    <3>2. v # w => busy[v].kind = "push" /\ q \in busy[v].news
      BY <2>1, <1>7
    <3> QED
      BY <3>1, <3>2, <1>1 DEF IInv, WorkersInv
  <2>2. ASSUME NEW fd \in Fds, NEW v \in Workers, busy'[v] = Closing(fd)
        PROVE  server[fd] = v /\ \A m \in Mods : told'[<<fd, m>>] = Untold
    <3>1. v # w /\ busy[v] = Closing(fd)
      BY <2>2, <1>6, <1>7, Kinds
    <3>2. server[fd] = v /\ \A m \in Mods : told[<<fd, m>>] = Untold
      BY <3>1 DEF IInv, WorkersInv
    <3>3. p[1] # fd
      BY <1>4, <3>1, <3>2
    <3>4. ASSUME NEW m \in Mods PROVE <<fd, m>> \in Pairs /\ <<fd, m>> # p
      <4>1. <<fd, m>>[1] = fd /\ <<fd, m>> \in Pairs
        BY DEF Pairs
      <4> QED
        BY <4>1, <3>3
    <3> QED
      BY <3>2, <3>4, <1>8
  <2> QED
    BY <2>1, <2>2 DEF WorkersInv, PushOne
<1>13. OwedOnTheirWay'
  <2> SUFFICES ASSUME NEW q \in owed, q # p PROVE OnItsWay(q)'
    BY <1>8 DEF OwedOnTheirWay
  <2>1. q[1] \in Fds /\ Open(q[1]) /\ server[q[1]] \in Workers
    BY DEF IInv, TypeOK, SubscribersInv, Pairs, Open
  <2>2. OnItsWay(q)
    BY DEF IInv, OwedOnTheirWay
  <2>3. CASE server[q[1]] = w
    BY <2>1, <2>2, <2>3, <1>6, <1>7 DEF OnItsWay, Open, PushOne
  <2>4. CASE server[q[1]] # w
    BY <2>1, <2>2, <2>4, <1>7 DEF OnItsWay, Open, PushOne
  <2> QED
    BY <2>3, <2>4
<1>14. EarlyInv'
  BY <1>9 DEF EarlyInv, PushOne
<1> QED
  BY <1>10, <1>11, <1>12, <1>13, <1>14 DEF IInv

LEMMA CloseInv ==
    ASSUME IInv, NEW fd \in Fds, Close(fd)
    PROVE  IInv'
<1> USE DnsServerAssumption DEF dbVars, routeVars, loaderVars, listVars, workVars
<1> DEFINE w == server[fd]
<1>1. w \in Workers
  BY DEF IInv, TypeOK, Close, Open
<1>2. Closing(fd) \in Occupations /\ Closing(fd).kind = "close"
  BY Kinds DEF Occupations
<1>3. busy[w] = Rest /\ busy[w].kind = "rest"
  BY Kinds DEF Close, Turn
<1>4. /\ busy' \in [Workers -> Occupations] /\ busy'[w] = Closing(fd)
      /\ \A v \in Workers : v # w => busy'[v] = busy[v]
  <2>1. busy' = [busy EXCEPT ![w] = Closing(fd)]
    BY DEF Close, Turn
  <2> QED
    BY <1>1, <1>2, <2>1, OneTurn DEF IInv
<1>5. /\ told' \in [Pairs -> Knowledge]
      /\ \A p \in Pairs : told'[p] = IF p[1] = fd THEN Untold ELSE told[p]
      /\ owed' = {p \in owed : p[1] # fd}
  BY WorkersTyped DEF IInv, Close, Knowledge
<1>6. TypeOK'
  BY <1>4, <1>5 DEF IInv, TypeOK, Occupations, Knowledge, Close
<1>7. MapsInv'
  BY LoaderUntouched DEF Close
<1>8. NeverWiped'
  BY <1>5, Kinds DEF IInv, NeverWiped, Close
<1>9. SubscribersInv'
  BY <1>5 DEF IInv, TypeOK, SubscribersInv, Open, Close
<1>10. WorkersInv'
  <2>1. \A v \in Workers : busy'[v].kind = "push" => busy'[v] = busy[v]
    BY <1>2, <1>4
  <2>2. ASSUME NEW other \in Fds, NEW v \in Workers, busy'[v] = Closing(other)
        PROVE  server[other] = v /\ \A m \in Mods : told'[<<other, m>>] = Untold
    <3>1. \A m \in Mods : /\ <<other, m>> \in Pairs /\ <<other, m>>[1] = other
      BY DEF Pairs
    <3>2. CASE v = w
      BY <2>2, <3>1, <3>2, <1>4, <1>5, OneClosed
    <3>3. CASE v # w
      BY <2>2, <3>1, <3>3, <1>4, <1>5 DEF IInv, WorkersInv
    <3> QED
      BY <3>2, <3>3
  <2> QED
    BY <2>1, <2>2 DEF IInv, WorkersInv, Close
<1>11. OwedOnTheirWay'
  <2>1. \A p \in owed' : p \in owed /\ p[1] \in Fds
    BY <1>5 DEF IInv, TypeOK, Pairs
  <2>2. \A other \in Fds : Open(other) /\ busy[server[other]].kind = "push" =>
                               busy'[server[other]] = busy[server[other]]
    BY <1>3, <1>4 DEF IInv, TypeOK, Open
  <2> QED
    BY <2>1, <2>2 DEF IInv, OwedOnTheirWay, OnItsWay, Open, Close
<1>12. EarlyInv'
  BY <1>2, <1>4 DEF IInv, EarlyInv, Close
<1> QED
  BY <1>6, <1>7, <1>8, <1>9, <1>10, <1>11, <1>12 DEF IInv

LEMMA UnsubscribeInv ==
    ASSUME IInv, NEW fd \in Fds, NEW m \in Mods, Unsubscribe(fd, m)
    PROVE  IInv'
<1> USE DnsServerAssumption DEF dbVars, routeVars, loaderVars, listVars, workVars
<1>1. told[<<fd, m>>] = Untold /\ book' = book \ {<<fd, m>>}
  BY DEF IInv, TypeOK, WorkersInv, Unsubscribe, Open
<1>2. TypeOK'
  BY <1>1 DEF IInv, TypeOK, Unsubscribe
<1>3. MapsInv' /\ NeverWiped'
  BY LoaderUntouched, NobodyTold DEF Unsubscribe
<1>4. WorkersInv'
  BY DEF IInv, WorkersInv, Unsubscribe
<1>5. SubscribersInv'
  BY <1>1 DEF IInv, SubscribersInv, Open, Unsubscribe
<1>6. OwedOnTheirWay'
  <2>1. \A p \in owed : p # <<fd, m>>
    BY <1>1 DEF IInv, SubscribersInv
  <2> QED
    BY <1>1, <2>1 DEF IInv, OwedOnTheirWay, OnItsWay, Open, Unsubscribe
<1>7. EarlyInv'
  BY DEF IInv, EarlyInv, Unsubscribe
<1> QED
  BY <1>2, <1>3, <1>4, <1>5, <1>6, <1>7 DEF IInv

LEMMA ClosedInv ==
    ASSUME IInv, NEW fd \in Fds, Closed(fd)
    PROVE  IInv'
<1> USE DnsServerAssumption DEF dbVars, routeVars, loaderVars, listVars, workVars
<1> DEFINE w == server[fd]
<1>1. w \in Workers
  BY DEF IInv, TypeOK, Closed, Open
<1>2. Rest \in Occupations /\ Rest.kind = "rest"
  BY Kinds DEF Occupations
<1>3. busy[w] = Closing(fd) /\ busy[w].kind = "close"
  BY Kinds DEF Closed, Turn
<1>4. /\ busy' \in [Workers -> Occupations] /\ busy'[w] = Rest
      /\ \A v \in Workers : v # w => busy'[v] = busy[v]
  <2>1. busy' = [busy EXCEPT ![w] = Rest]
    BY DEF Closed, Turn
  <2> QED
    BY <1>1, <1>2, <2>1, OneTurn DEF IInv
<1>5. /\ server' \in [Fds -> Workers \cup {Nobody}]
      /\ \A other \in Fds : other # fd => server'[other] = server[other]
  BY DEF IInv, TypeOK, Closed
<1>6. \A p \in book : p[1] \in Fds /\ p[1] # fd
  BY DEF IInv, TypeOK, Closed, Pairs
<1>7. TypeOK'
  BY <1>4, <1>5 DEF IInv, TypeOK, Occupations, Closed
<1>8. MapsInv' /\ NeverWiped'
  BY LoaderUntouched, NobodyTold DEF Closed
<1>9. SubscribersInv'
  BY <1>5, <1>6 DEF IInv, SubscribersInv, Open, Closed
<1>10. WorkersInv'
  <2>1. ASSUME NEW v \in Workers, busy'[v].kind = "push", NEW p \in busy'[v].news
        PROVE  server'[p[1]] = v
    <3>1. v # w /\ busy[v].kind = "push" /\ p \in busy[v].news
      BY <2>1, <1>2, <1>4
    <3>2. server[p[1]] = v
      BY <3>1 DEF IInv, WorkersInv
    <3>3. p[1] \in Fds
      BY <3>1, WorkersTyped, NewsOfPush DEF IInv, Pairs
    <3> QED
      BY <3>1, <3>2, <3>3, <1>5
  <2>2. ASSUME NEW other \in Fds, NEW v \in Workers, busy'[v] = Closing(other)
        PROVE  server'[other] = v /\ \A m \in Mods : told[<<other, m>>] = Untold
    <3>1. v # w /\ busy[v] = Closing(other)
      BY <2>2, <1>2, <1>4, Kinds
    <3>2. server[other] = v /\ \A m \in Mods : told[<<other, m>>] = Untold
      BY <3>1 DEF IInv, WorkersInv
    <3> QED
      BY <3>1, <3>2, <1>5
  <2> QED
    BY <2>1, <2>2 DEF WorkersInv, Closed
<1>11. OwedOnTheirWay'
  <2> SUFFICES ASSUME NEW p \in owed PROVE OnItsWay(p)'
    BY DEF OwedOnTheirWay, Closed
  <2>1. p[1] \in Fds /\ p[1] # fd /\ Open(p[1]) /\ server[p[1]] \in Workers
    BY <1>6 DEF IInv, TypeOK, SubscribersInv, Open
  <2>2. server'[p[1]] = server[p[1]]
    BY <2>1, <1>5
  <2>3. busy[server[p[1]]].kind = "push" => busy'[server[p[1]]] = busy[server[p[1]]]
    BY <2>1, <1>3, <1>4
  <2> QED
    BY <2>2, <2>3 DEF IInv, OwedOnTheirWay, OnItsWay, Open, Closed
<1>12. EarlyInv'
  BY <1>2, <1>4 DEF IInv, EarlyInv, Closed
<1> QED
  BY <1>7, <1>8, <1>9, <1>10, <1>11, <1>12 DEF IInv

-----------------------------------------------------------------------------
LEMMA NextInv == IInv /\ [Next]_vars => IInv'
<1> SUFFICES ASSUME IInv, [Next]_vars PROVE IInv'
  OBVIOUS
<1>1. ASSUME NEW m \in Mods, NEW h \in Hosts, NEW ts \in 0..MaxTs, Commit(m, h, ts)
      PROVE  IInv'
  BY <1>1, CommitInv
<1>2. CASE Loader
  BY <1>2, LoadInv, RmAllInv, LoadVersionInv, ReloadInv, SwapInv,
     LoadChangesInv, PushInv, RunTaskInv, RmChangesInv DEF Loader
<1>3. CASE Elapse
  BY <1>3, ElapseInv
<1>4. ASSUME NEW fd \in Fds,
             \/ \E w \in Workers : Connect(fd, w)
             \/ \E m \in Mods : GetRoute(fd, m)
             \/ Close(fd)
      PROVE  IInv'
  BY <1>4, ConnectInv, GetRouteInv, CloseInv
<1>5. ASSUME NEW w \in Workers, WorkerStep(w) PROVE IInv'
  BY <1>5, FetchPushInv, PushOneInv, AnswerInv, UnsubscribeInv, ClosedInv
     DEF WorkerStep
<1>6. CASE UNCHANGED vars
  BY <1>6 DEF IInv, TypeOK, MapsInv, EarlyInv, NeverWiped, WorkersInv, SubscribersInv,
              OwedOnTheirWay, OnItsWay, Open, EmptyIn,
              vars, dbVars, routeVars, loaderVars, listVars, workVars
<1> QED
  BY <1>1, <1>2, <1>3, <1>4, <1>5, <1>6 DEF Next

LEMMA Invariant == Spec => []IInv
BY InitInv, NextInv, PTL DEF Spec

\* The database, the loader and the workers of DnsServer are well formed in
\* every state, for any modules, hosts, connections, workers and bounds.
THEOREM DnsTypeCorrect == Spec => []TypeOK
<1>1. IInv => TypeOK
  BY DEF IInv
<1> QED
  BY Invariant, <1>1, PTL

\* Route::reload clears *_tmpData before its query, which may fail; swap is
\* only reached when it has not, so no agent is ever sent the empty map and
\* made to delete a module that has hosts.
THEOREM AgentsNeverWiped == Spec => []NeverWiped
<1>1. IInv => NeverWiped
  BY DEF IInv
<1> QED
  BY Invariant, <1>1, PTL

\* SubscribeList::push and pushChange: a subscriber that knows an older route
\* than the one whose change loadChanges has found has its push under way,
\* whatever the workers do in between.
THEOREM PushesNotLost == Spec => []OwedOnTheirWay
<1>1. IInv => OwedOnTheirWay
  BY DEF IInv
<1> QED
  BY Invariant, <1>1, PTL
=============================================================================
