----------------------------- MODULE FeedProofs ------------------------------
(***************************************************************************)
(* DnsServer implements RouteFeed: what RouteLB assumes of the dnsserver   *)
(* holds of its threads.  The invariant of DnsProofs says which worker may *)
(* have a push or close a connection; one lemma per kind of step says what *)
(* the step is in RouteFeed.                                               *)
(***************************************************************************)
EXTENDS DnsProofs

USE DnsServerAssumption

\* The refinement mapping: what is filed, and who has gone.
Filed == pushList \cup UNION Newses
Gone  == {fd \in Fds : Open(fd) /\ busy[server[fd]] = Closing(fd)}

Mapped == [Feed!Next]_(Feed!feed)

\* A step that changes nothing RouteFeed has is a stutter of it.
LEMMA Stutter ==
  ASSUME data' = data, book' = book, told' = told, Filed' = Filed, Gone' = Gone
  PROVE  Mapped
  BY DEF Mapped, Feed!feed, Filed, Gone

LEMMA InFiled ==
  ASSUME NEW p
  PROVE  p \in Filed <=> \/ p \in pushList
                         \/ \E w \in Workers : busy[w].kind = "push" /\ p \in busy[w].news
  BY DEF Filed, Newses

LEMMA InFiledNext ==
  ASSUME NEW p
  PROVE  p \in Filed' <=> \/ p \in pushList'
                          \/ \E w \in Workers : busy'[w].kind = "push" /\ p \in busy'[w].news
  BY DEF Filed, Newses

\* What worker w, whose turn it is, and the others have.
HeldByOthers(p, w) ==
    \E v \in Workers \ {w} : busy[v].kind = "push" /\ p \in busy[v].news

LEMMA FiledInTurn ==
  ASSUME NEW p, NEW w \in Workers, \A v \in Workers : v # w => busy'[v] = busy[v]
  PROVE  /\ p \in Filed <=> \/ p \in pushList \/ HeldByOthers(p, w)
                            \/ busy[w].kind = "push" /\ p \in busy[w].news
         /\ p \in Filed' <=> \/ p \in pushList' \/ HeldByOthers(p, w)
                             \/ busy'[w].kind = "push" /\ p \in busy'[w].news
  BY InFiled, InFiledNext DEF HeldByOthers

\* Steps of the loader and the operators leave the workers alone.
LEMMA WorkersRest ==
  ASSUME busy' = busy, server' = server
  PROVE  Newses' = Newses /\ Gone' = Gone
  BY DEF Newses, Gone, Open

\* A turn of a worker between two occupations neither of which is a close.
LEMMA NobodyGoes ==
  ASSUME TypeOK, NEW w \in Workers, server' = server,
         \A v \in Workers : v # w => busy'[v] = busy[v],
         busy[w].kind # "close", busy'[w].kind # "close"
  PROVE  Gone' = Gone
  <1>1. ASSUME NEW fd \in Fds, server[fd] \in Workers
        PROVE  busy'[server[fd]] = Closing(fd) <=> busy[server[fd]] = Closing(fd)
    BY <1>1, Kinds
  <1>2. \A fd \in Fds : Open(fd) <=> server[fd] \in Workers
    BY DEF TypeOK, Open
  <1>3. QED
    BY <1>1, <1>2 DEF Gone, Open

\* ... neither of which is a push.
LEMMA NothingFetched ==
  ASSUME NEW w \in Workers, pushList' = pushList,
         \A v \in Workers : v # w => busy'[v] = busy[v],
         busy[w].kind # "push", busy'[w].kind # "push"
  PROVE  Filed' = Filed
  <1>1. ASSUME NEW p PROVE p \in Filed' <=> p \in Filed
    BY InFiled, InFiledNext
  <1>2. QED
    BY <1>1

-----------------------------------------------------------------------------
LEMMA InitMaps == Init => Feed!Init
  <1> SUFFICES ASSUME Init PROVE Feed!Init
    OBVIOUS
  <1>1. Newses = {}
    BY Kinds DEF Init, Newses
  <1>2. Gone = {}
    BY DEF Init, Gone, Open
  <1>3. data \in [Mods -> SUBSET Hosts] /\ book = {} /\ pushList = {}
        /\ told = [p \in Pairs |-> Untold]
    BY DEF Init
  <1>4. QED
    BY <1>1, <1>2, <1>3 DEF Feed!Init, Feed!Pairs, Gone, Pairs

LEMMA LoaderMaps == ASSUME IInv, Loader PROVE Mapped
  <1>1. data \in [Mods -> SUBSET Hosts] /\ tmpData \in [Mods -> SUBSET Hosts]
        /\ table \in [Mods -> SUBSET Hosts] /\ changes \subseteq Mods
    BY DEF IInv, TypeOK
  <1>2. busy' = busy /\ server' = server /\ told' = told /\ book' = book
    BY DEF Loader, Load, RmAll, LoadVersion, Reload, Swap, LoadChanges, Push, RunTask,
           RmChanges, RmRows, listVars, workVars
  <1>3. Newses' = Newses /\ Gone' = Gone
    BY <1>2, WorkersRest
  <1>4. CASE Load \/ Swap
    <2>1. data' \in [Mods -> SUBSET Hosts] /\ pushList' = pushList
      BY <1>1, <1>4 DEF Load, Swap, listVars
    <2>2. Feed!Change
      BY <1>2, <1>3, <2>1 DEF Feed!Change, Gone
    <2>3. QED
      BY <2>2 DEF Mapped, Feed!Next
  <1>5. CASE Push
    <2>1. pushList' = pushList \cup {p \in book : p[2] \in changes} /\ data' = data
      BY <1>5 DEF Push, routeVars
    <2>2. Feed!File
      BY <1>1, <1>2, <1>3, <2>1 DEF Feed!File, Gone
    <2>3. QED
      BY <2>2 DEF Mapped, Feed!Next
  <1>6. CASE RmAll \/ LoadVersion \/ Reload \/ LoadChanges \/ RunTask \/ RmChanges
    <2>1. data' = data /\ pushList' = pushList
      BY <1>6 DEF RmAll, LoadVersion, Reload, LoadChanges, RunTask, RmChanges, RmRows,
                  routeVars, listVars
    <2>2. QED
      BY <1>2, <1>3, <2>1, Stutter DEF Filed
  <1>7. QED
    BY <1>4, <1>5, <1>6 DEF Loader

LEMMA OutsideMaps ==
  ASSUME \/ \E m \in Mods, h \in Hosts, ts \in 0..MaxTs : Commit(m, h, ts)
         \/ Elapse \/ UNCHANGED vars
  PROVE  Mapped
  <1>1. UNCHANGED <<data, book, pushList, told, busy, server>>
    BY DEF Commit, Elapse, vars, routeVars, listVars, workVars
  <1>2. QED
    BY <1>1, WorkersRest, Stutter DEF Filed

\* A new connection is not one that is being closed.
LEMMA ConnectMaps ==
  ASSUME IInv, NEW fd \in Fds, NEW w \in Workers, Connect(fd, w)
  PROVE  Mapped
  <1>1. /\ server[fd] = Nobody /\ server' = [server EXCEPT ![fd] = w]
        /\ UNCHANGED <<data, book, pushList, told, busy>>
    BY DEF Connect, Open, routeVars, listVars
  <1>2. server \in [Fds -> Workers \cup {Nobody}] /\ Nobody \notin Workers
    BY DEF IInv, TypeOK
  <1>3. busy[w] # Closing(fd)
    BY <1>1, <1>2 DEF IInv, WorkersInv
  <1>4. ASSUME NEW other \in Fds
        PROVE  (server'[other] # Nobody /\ busy'[server'[other]] = Closing(other))
               <=> (server[other] # Nobody /\ busy[server[other]] = Closing(other))
    BY <1>1, <1>2, <1>3
  <1>5. Gone' = Gone
    BY <1>4 DEF Gone, Open
  <1>6. Newses' = Newses
    BY <1>1 DEF Newses
  <1>7. QED
    BY <1>1, <1>5, <1>6, Stutter DEF Filed

-----------------------------------------------------------------------------
(* The workers.                                                            *)

LEMMA GetRouteMaps ==
  ASSUME IInv, NEW fd \in Fds, NEW m \in Mods, GetRoute(fd, m)
  PROVE  Mapped
  <1> DEFINE w == server[fd]
  <1>1. w \in Workers /\ server \in [Fds -> Workers \cup {Nobody}]
    BY DEF GetRoute, Open, IInv, TypeOK
  <1>2. PICK v \in Workers : v = w
    BY <1>1
  <1>3. /\ busy[v] = Rest /\ busy' = [busy EXCEPT ![v] = Answering(fd, m)]
        /\ book' = book \cup {<<fd, m>>}
        /\ UNCHANGED <<data, pushList, server, told>>
    BY <1>2 DEF GetRoute, Turn, routeVars
  <1>4. Answering(fd, m) \in Occupations
    BY DEF Occupations
  <1>5. busy'[v] = Answering(fd, m) /\ \A u \in Workers : u # v => busy'[u] = busy[u]
    BY <1>3, <1>4, OneTurn DEF IInv
  <1>6. busy[v].kind = "rest" /\ busy'[v].kind = "answer"
    BY <1>3, <1>5, Kinds
  <1>7. Filed' = Filed /\ Gone' = Gone
    BY <1>3, <1>5, <1>6, NobodyGoes, NothingFetched DEF IInv
  <1>8. fd \notin Gone
    BY <1>2, <1>6, Kinds DEF Gone
  <1>9. Feed!Subscribe(<<fd, m>>)
    BY <1>3, <1>7, <1>8 DEF Feed!Subscribe, Filed, Gone
  <1>10. QED
    BY <1>9 DEF Mapped, Feed!Next, Feed!Pairs

LEMMA AnswerMaps ==
  ASSUME IInv, NEW fd \in Fds, NEW m \in Mods, Answer(fd, m)
  PROVE  Mapped
  <1> DEFINE p == <<fd, m>>
  <1>1. PICK w \in Workers : w = server[fd]
    BY DEF Answer, Open, IInv, TypeOK
  <1>2. /\ busy[w] = Answering(fd, m) /\ busy' = [busy EXCEPT ![w] = Rest]
        /\ Send(p) /\ UNCHANGED <<data, book, pushList, server>>
    BY <1>1 DEF Answer, Turn, routeVars, listVars
  <1>3. Rest \in Occupations
    BY DEF Occupations
  <1>4. busy'[w] = Rest /\ \A u \in Workers : u # w => busy'[u] = busy[u]
    BY <1>2, <1>3, OneTurn DEF IInv
  <1>5. busy[w].kind = "answer" /\ busy'[w].kind = "rest"
    BY <1>2, <1>4, Kinds
  <1>6. Filed' = Filed /\ Gone' = Gone
    BY <1>2, <1>4, <1>5, NobodyGoes, NothingFetched DEF IInv
  <1>7. fd \notin Gone
    BY <1>1, <1>5, Kinds DEF Gone
  <1>8. CASE p \in book
    <2>1. Feed!Answer(p)
      BY <1>2, <1>6, <1>7, <1>8 DEF Feed!Answer, Feed!Say, Send, Filed, Gone
    <2>2. QED
      BY <2>1 DEF Mapped, Feed!Next, Feed!Pairs
  <1>9. CASE p \notin book
    BY <1>2, <1>6, <1>9, Stutter DEF Send
  <1>10. QED
    BY <1>8, <1>9

\* What a worker fetches stays filed.
LEMMA FetchPushMaps ==
  ASSUME IInv, NEW w \in Workers, FetchPush(w)
  PROVE  Mapped
  <1> DEFINE news == {p \in pushList : server[p[1]] = w}
             next == IF news = {} THEN Rest ELSE Pushing(news)
  <1>1. /\ busy[w] = Rest /\ busy' = [busy EXCEPT ![w] = next]
        /\ pushList' = pushList \ news
        /\ UNCHANGED <<data, book, server, told>>
    BY DEF FetchPush, Turn, routeVars
  <1>2. news \in SUBSET Pairs
    BY DEF IInv, TypeOK
  <1>3. next \in Occupations
    BY <1>2 DEF Occupations
  <1>4. busy'[w] = next /\ \A u \in Workers : u # w => busy'[u] = busy[u]
    BY <1>1, <1>3, OneTurn DEF IInv
  <1>5. busy[w].kind = "rest" /\ next.kind # "close"
    BY <1>1, <1>2, Kinds
  <1>6. next.kind = "push" => next.news = news
    BY <1>2, Kinds
  <1>7. news # {} => next.kind = "push" /\ next.news = news
    BY <1>2, Kinds
  <1>8. ASSUME NEW p PROVE p \in Filed' <=> p \in Filed
    <2>1. p \in Filed <=> p \in pushList \/ HeldByOthers(p, w)
      BY <1>4, <1>5, FiledInTurn
    <2>2. p \in news <=> next.kind = "push" /\ p \in next.news
      BY <1>5, <1>6, <1>7, Kinds
    <2>3. p \in Filed' <=> p \in pushList \ news \/ HeldByOthers(p, w) \/ p \in news
      <3>1. p \in Filed' <=> \/ p \in pushList' \/ HeldByOthers(p, w)
                             \/ busy'[w].kind = "push" /\ p \in busy'[w].news
        BY <1>4, FiledInTurn
      <3>2. p \in pushList' <=> p \in pushList \ news
        BY <1>1
      <3>3. p \in news <=> busy'[w].kind = "push" /\ p \in busy'[w].news
        BY <1>4, <2>2
      <3>4. QED
        BY <3>1, <3>2, <3>3
    <2>4. news \subseteq pushList
      OBVIOUS
    <2>5. QED
      BY <2>1, <2>3, <2>4
  <1>9. Gone' = Gone
    BY <1>1, <1>4, <1>5, NobodyGoes DEF IInv
  <1>10. QED
    BY <1>1, <1>8, <1>9, Stutter

\* A push is sent to a connection that is not being closed, since its own worker
\* sends it; and only that worker has it.
LEMMA PushOneMaps ==
  ASSUME IInv, NEW w \in Workers, PushOne(w)
  PROVE  Mapped
  <1>1. PICK p \in busy[w].news :
          /\ busy' = [busy EXCEPT ![w] = IF busy[w].news \ {p} = {} THEN Rest
                                        ELSE Pushing(busy[w].news \ {p})]
          /\ Send(p)
    BY DEF PushOne, Turn
  <1> DEFINE left == busy[w].news \ {p}
             next == IF left = {} THEN Rest ELSE Pushing(left)
  <1>2. busy[w].kind = "push" /\ UNCHANGED <<data, book, pushList, server>>
    BY DEF PushOne, routeVars, listVars
  <1>3. busy[w].news \in SUBSET Pairs
    BY <1>2, WorkersTyped, NewsOfPush DEF IInv
  <1>4. p \in Pairs /\ left \in SUBSET Pairs
    BY <1>3
  <1>5. next \in Occupations
    BY <1>4 DEF Occupations
  <1>6. busy'[w] = next /\ \A u \in Workers : u # w => busy'[u] = busy[u]
    BY <1>1, <1>5, OneTurn DEF IInv
  <1>7. next.kind # "close" /\ (next.kind = "push" => next.news = left)
    BY <1>4, Kinds
  <1>8. left # {} => next.kind = "push" /\ next.news = left
    BY <1>4, Kinds
  <1>9. Gone' = Gone
    BY <1>2, <1>6, <1>7, NobodyGoes DEF IInv
  <1>10. \A v \in Workers : busy[v].kind = "push" => \A q \in busy[v].news : server[q[1]] = v
    BY DEF IInv, WorkersInv
  <1>11. ASSUME NEW q PROVE q \in Filed' <=> q \in Filed /\ (q # p \/ p \in pushList)
    <2>1. q \in Filed <=> q \in pushList \/ HeldByOthers(q, w) \/ q \in busy[w].news
      BY <1>2, <1>6, FiledInTurn
    <2>2. q \in left <=> next.kind = "push" /\ q \in next.news
      BY <1>4, <1>7, <1>8, Kinds
    <2>3. q \in Filed' <=> q \in pushList \/ HeldByOthers(q, w) \/ q \in left
      BY <1>2, <1>6, <2>2, FiledInTurn
    <2>4. ~HeldByOthers(p, w)
      BY <1>1, <1>2, <1>10 DEF HeldByOthers
    <2>5. q \in left <=> q \in busy[w].news /\ q # p
      OBVIOUS
    <2>6. QED
      BY <1>1, <2>1, <2>3, <2>4, <2>5
  <1>12. p \in Filed /\ Filed' \in {Filed, Filed \ {p}}
    <2>1. p \in Filed
      BY <1>1, <1>2, InFiled
    <2>2. CASE p \in pushList
      BY <1>11, <2>1, <2>2
    <2>3. CASE p \notin pushList
      BY <1>11, <2>1, <2>3
    <2>4. QED
      BY <2>1, <2>2, <2>3
  <1>13. p[1] \notin Gone
    <2>1. server[p[1]] = w
      BY <1>1, <1>2, <1>10
    <2>2. QED
      BY <1>2, <2>1, Kinds DEF Gone
  <1>14. Feed!DnsPush(p)
    BY <1>1, <1>2, <1>9, <1>12, <1>13 DEF Feed!DnsPush, Feed!Say, Send, Filed, Gone
  <1>15. QED
    BY <1>4, <1>14 DEF Mapped, Feed!Next, Feed!Pairs, Pairs

\* clearSubscribe: the agent is gone until its last subscription is.
LEMMA CloseMaps ==
  ASSUME IInv, NEW fd \in Fds, Close(fd)
  PROVE  Mapped
  <1>1. PICK w \in Workers : w = server[fd]
    BY DEF Close, Open, IInv, TypeOK
  <1>2. /\ busy[w] = Rest /\ busy' = [busy EXCEPT ![w] = Closing(fd)]
        /\ told' = [p \in Pairs |-> IF p[1] = fd THEN Untold ELSE told[p]]
        /\ Open(fd) /\ UNCHANGED <<data, book, pushList, server>>
    BY <1>1 DEF Close, Turn, routeVars, listVars
  <1>3. Closing(fd) \in Occupations
    BY DEF Occupations
  <1>4. busy'[w] = Closing(fd) /\ \A u \in Workers : u # w => busy'[u] = busy[u]
    BY <1>2, <1>3, OneTurn DEF IInv
  <1>5. busy[w].kind = "rest" /\ busy'[w].kind = "close"
    BY <1>2, <1>4, Kinds
  <1>6. Filed' = Filed
    BY <1>2, <1>4, <1>5, NothingFetched
  <1>7. fd \notin Gone /\ Gone' = Gone \cup {fd}
    <2>1. fd \notin Gone
      BY <1>1, <1>5, Kinds DEF Gone
    <2>2. fd \in Gone'
      BY <1>1, <1>2, <1>4 DEF Gone, Open
    <2>3. ASSUME NEW other \in Fds, other # fd PROVE other \in Gone' <=> other \in Gone
      <3>1. busy'[w] # Closing(other) /\ busy[w] # Closing(other)
        BY <1>4, <1>5, <2>3, OneClosed, Kinds
      <3>2. server[other] \in Workers <=> Open(other)
        BY DEF Open, IInv, TypeOK
      <3>3. QED
        BY <1>2, <1>4, <3>1, <3>2 DEF Gone, Open
    <2>4. QED
      BY <2>1, <2>2, <2>3 DEF Gone
  <1>8. Feed!Disconnect(fd)
    BY <1>2, <1>6, <1>7 DEF Feed!Disconnect, Feed!Pairs, Pairs, Filed, Gone
  <1>9. QED
    BY <1>8 DEF Mapped, Feed!Next

LEMMA UnsubscribeMaps ==
  ASSUME IInv, NEW fd \in Fds, NEW m \in Mods, Unsubscribe(fd, m)
  PROVE  Mapped
  <1>1. /\ Open(fd) /\ busy[server[fd]] = Closing(fd) /\ book' = book \ {<<fd, m>>}
        /\ UNCHANGED <<data, pushList, server, busy, told>>
    BY DEF Unsubscribe, routeVars, workVars
  <1>2. Newses' = Newses /\ Gone' = Gone /\ fd \in Gone
    BY <1>1, WorkersRest DEF Gone
  <1>3. Feed!Unsubscribe(<<fd, m>>)
    BY <1>1, <1>2 DEF Feed!Unsubscribe, Gone
  <1>4. QED
    BY <1>3 DEF Mapped, Feed!Next, Feed!Pairs

LEMMA ClosedMaps ==
  ASSUME IInv, NEW fd \in Fds, Closed(fd)
  PROVE  Mapped
  <1>1. PICK w \in Workers : w = server[fd]
    BY DEF Closed, Open, IInv, TypeOK
  <1>2. /\ busy[w] = Closing(fd) /\ busy' = [busy EXCEPT ![w] = Rest]
        /\ Open(fd) /\ \A m \in Mods : <<fd, m>> \notin book
        /\ server' = [server EXCEPT ![fd] = Nobody]
        /\ UNCHANGED <<data, book, pushList, told>>
    BY <1>1 DEF Closed, Turn, routeVars, listVars
  <1>3. Rest \in Occupations
    BY DEF Occupations
  <1>4. busy'[w] = Rest /\ \A u \in Workers : u # w => busy'[u] = busy[u]
    BY <1>2, <1>3, OneTurn DEF IInv
  <1>5. busy[w].kind = "close" /\ busy'[w].kind = "rest"
    BY <1>2, <1>4, Kinds
  <1>6. Filed' = Filed
    BY <1>2, <1>4, <1>5, NothingFetched
  <1>7. server \in [Fds -> Workers \cup {Nobody}]
    BY DEF IInv, TypeOK
  <1>8. fd \in Gone /\ Gone' = Gone \ {fd}
    <2>1. fd \in Gone
      BY <1>1, <1>2 DEF Gone
    <2>2. fd \notin Gone'
      BY <1>2, <1>7 DEF Gone, Open
    <2>3. ASSUME NEW other \in Fds, other # fd PROVE other \in Gone' <=> other \in Gone
      <3>1. busy'[w] # Closing(other) /\ busy[w] # Closing(other)
        BY <1>2, <1>4, <1>5, <2>3, OneClosed, Kinds
      <3>2. server'[other] = server[other] /\ (server[other] \in Workers <=> Open(other))
        BY <1>2, <1>7, <2>3 DEF Open
      <3>3. QED
        BY <1>4, <3>1, <3>2 DEF Gone, Open
    <2>4. QED
      BY <2>1, <2>2, <2>3 DEF Gone
  <1>9. \A p \in book : p[1] # fd
    BY <1>2 DEF IInv, TypeOK, Pairs
  <1>10. Feed!Cleared(fd)
    BY <1>2, <1>6, <1>8, <1>9 DEF Feed!Cleared, Filed, Gone
  <1>11. QED
    BY <1>10 DEF Mapped, Feed!Next

-----------------------------------------------------------------------------
LEMMA NextMaps == IInv /\ [Next]_vars => Mapped
  <1> SUFFICES ASSUME IInv, [Next]_vars PROVE Mapped
    OBVIOUS
  <1>1. CASE Loader
    BY <1>1, LoaderMaps
  <1>2. ASSUME NEW w \in Workers, WorkerStep(w) PROVE Mapped
    BY <1>2, FetchPushMaps, PushOneMaps, AnswerMaps, UnsubscribeMaps, ClosedMaps
       DEF WorkerStep
  <1>3. ASSUME NEW fd \in Fds,
               \/ \E w \in Workers : Connect(fd, w)
               \/ \E m \in Mods : GetRoute(fd, m)
               \/ Close(fd)
        PROVE  Mapped
    BY <1>3, ConnectMaps, GetRouteMaps, CloseMaps
  <1>4. QED
    BY <1>1, <1>2, <1>3, OutsideMaps DEF Next

\* The loader, the lists and the workers of the dnsserver together are what
\* RouteLB takes them for: the route in a message is the one that is visible, a
\* filed push is sent or its connection lost, and nobody else is pushed to.
THEOREM DnsServerFeeds == Spec => KeepsFeed
  <1>1. Spec => Feed!Init /\ [][Feed!Next]_(Feed!feed)
    <2>1. IInv /\ [Next]_vars => [Feed!Next]_(Feed!feed)
      BY NextMaps DEF Mapped
    <2>2. QED
      BY <2>1, InitMaps, Invariant, PTL DEF Spec
  <1>2. QED
    BY <1>1 DEF KeepsFeed, Feed!Spec
=============================================================================
