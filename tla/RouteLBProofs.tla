---------------------------- MODULE RouteLBProofs ----------------------------
(***************************************************************************)
(* Theorems on RouteLB: its state is well formed, no module is marked      *)
(* ISPULLING without a pull on its way, and clients with the version of a  *)
(* route have its hosts.                                                   *)
(***************************************************************************)
EXTENDS RouteLB, SequenceTheorems, TLAPS

IInv == TypeOK /\ PullAccounted

USE RouteLBAssumption

-----------------------------------------------------------------------------
(* What the sequence operations do to the modules on their way.            *)

LEMMA AppendKeeps ==
  ASSUME NEW S, NEW q \in Seq(S), NEW e \in S
  PROVE  Append(q, e) \in Seq(S) /\ ToSet(Append(q, e)) = ToSet(q) \cup {e}
  BY AppendProperties, LenProperties DEF ToSet

LEMMA ConcatKeeps ==
  ASSUME NEW S, NEW p \in Seq(S), NEW q \in Seq(S)
  PROVE  p \o q \in Seq(S) /\ ToSet(p) \cup ToSet(q) \subseteq ToSet(p \o q)
  <1>1. p \o q \in Seq(S) /\ Len(p \o q) = Len(p) + Len(q)
    BY ConcatProperties
  <1>2. Len(p) \in Nat /\ Len(q) \in Nat
    BY LenProperties
  <1>3. ASSUME NEW i \in 1..Len(p) PROVE (p \o q)[i] = p[i] /\ i \in 1..Len(p \o q)
    BY <1>1, <1>2, <1>3, ConcatProperties
  <1>4. ASSUME NEW i \in 1..Len(q)
        PROVE  (p \o q)[Len(p) + i] = q[i] /\ Len(p) + i \in 1..Len(p \o q)
    BY <1>1, <1>2, <1>4, ConcatProperties
  <1>5. /\ DOMAIN p = 1..Len(p) /\ DOMAIN q = 1..Len(q)
        /\ DOMAIN (p \o q) = 1..Len(p \o q)
    BY <1>1, LenProperties
  <1>6. QED
    BY <1>1, <1>3, <1>4, <1>5 DEF ToSet

LEMMA TailKeeps ==
  ASSUME NEW S, NEW q \in Seq(S), q # <<>>
  PROVE  /\ Head(q) \in S /\ Tail(q) \in Seq(S)
         /\ ToSet(q) \subseteq {Head(q)} \cup ToSet(Tail(q))
  <1>1. /\ Head(q) \in S /\ Tail(q) \in Seq(S)
        /\ Len(q) \in Nat \ {0} /\ Len(Tail(q)) = Len(q) - 1
        /\ \A i \in 1..Len(Tail(q)) : Tail(q)[i] = q[i + 1]
    BY HeadTailProperties, EmptySeq
  <1>2. DOMAIN q = 1..Len(q) /\ DOMAIN Tail(q) = 1..Len(Tail(q))
    BY <1>1, LenProperties
  <1>3. ASSUME NEW i \in 1..Len(q), i # 1
        PROVE  i - 1 \in 1..Len(Tail(q)) /\ Tail(q)[i - 1] = q[i]
    BY <1>1, <1>3
  <1>4. q[1] = Head(q)
    BY <1>1
  <1>5. ASSUME NEW i \in 1..Len(q)
        PROVE  q[i] \in {Head(q)} \cup ToSet(Tail(q))
    BY <1>2, <1>3, <1>4 DEF ToSet
  <1>6. QED
    BY <1>1, <1>2, <1>5 DEF ToSet

LEMMA AnsweredIs ==
  ASSUME NEW m
  PROVE  Answered(m) <=> \E a \in ToSet(fromDss) : a.mod = m
  BY DEF Answered, ToSet

LEMMA AnsweredIsNext ==
  ASSUME NEW m
  PROVE  Answered(m)' <=> \E a \in ToSet(fromDss') : a.mod = m
  BY DEF Answered, ToSet

-----------------------------------------------------------------------------
(* The parts of the state.                                                 *)

LEMMA KnownIsLB ==
  ASSUME TypeOK, NEW m \in Mods, Known(m)
  PROVE  /\ routeMap[m] \in LB
         /\ routeMap[m].hosts \in SUBSET Hosts /\ routeMap[m].pulling \in BOOLEAN
         /\ routeMap[m].expired \in BOOLEAN /\ routeMap[m].version \in 0..MaxNow
  BY DEF TypeOK, Known, LB

\* A request leaves everything but the marks, the queue and the thread's
\* pointers alone, and every module it marks is in the queue.
Requested ==
    /\ routeMap' \in [Mods -> LB \cup {NoLB}]
    /\ pullQueue' \in Seq(Mods) /\ ToSet(pullQueue) \subseteq ToSet(pullQueue')
    /\ \A m \in Mods : Pulling(m)' => Pulling(m) \/ m \in ToSet(pullQueue')
    /\ \A m \in Mods : Known(m) => Known(m)' /\ routeMap'[m].hosts = routeMap[m].hosts
                                            /\ routeMap'[m].version = routeMap[m].version
    /\ \A m \in Mods : ~Known(m) /\ Known(m)' => routeMap'[m].hosts = {}
                                                 /\ routeMap'[m].version = 0

LEMMA PullRequested ==
  ASSUME TypeOK, NEW m \in Mods, NEW lb \in LB, Pull(m, lb),
         Known(m) => lb.hosts = routeMap[m].hosts /\ lb.version = routeMap[m].version,
         ~Known(m) => lb.hosts = {} /\ lb.version = 0
  PROVE  Requested
  <1>1. /\ routeMap' = [routeMap EXCEPT ![m] = [lb EXCEPT !.pulling = TRUE]]
        /\ pullQueue' = Append(pullQueue, m)
    BY DEF Pull
  <1>2. /\ [lb EXCEPT !.pulling = TRUE] \in LB
        /\ [lb EXCEPT !.pulling = TRUE].hosts = lb.hosts
        /\ [lb EXCEPT !.pulling = TRUE].version = lb.version
    BY DEF LB
  <1>3. /\ pullQueue' \in Seq(Mods)
        /\ ToSet(pullQueue') = ToSet(pullQueue) \cup {m}
    BY <1>1, AppendKeeps DEF TypeOK
  <1>4. routeMap' \in [Mods -> LB \cup {NoLB}]
    BY <1>1, <1>2 DEF TypeOK
  <1>5. \A n \in Mods : n # m => routeMap'[n] = routeMap[n]
    BY <1>1 DEF TypeOK
  <1>6. routeMap'[m] = [lb EXCEPT !.pulling = TRUE]
    BY <1>1 DEF TypeOK
  <1>7. ASSUME NEW n \in Mods, Pulling(n)' PROVE Pulling(n) \/ n \in ToSet(pullQueue')
    BY <1>3, <1>5, <1>7 DEF Pulling, Known
  <1>8. ASSUME NEW n \in Mods, Known(n)
        PROVE  Known(n)' /\ routeMap'[n].hosts = routeMap[n].hosts
                         /\ routeMap'[n].version = routeMap[n].version
    <2>1. CASE n # m
      BY <1>5, <1>8, <2>1 DEF Known
    <2>2. CASE n = m
      BY <1>2, <1>6, <1>8, <2>2 DEF Known
    <2>3. QED
      BY <2>1, <2>2
  <1>9. ASSUME NEW n \in Mods, ~Known(n), Known(n)'
        PROVE  routeMap'[n].hosts = {} /\ routeMap'[n].version = 0
    BY <1>2, <1>5, <1>6, <1>9 DEF Known
  <1>10. QED
    BY <1>3, <1>4, <1>7, <1>8, <1>9 DEF Requested

\* The requests of the clients.
LEMMA RepullRequested ==
  ASSUME TypeOK, NEW m \in Mods, Known(m), Repull(m)
  PROVE  Requested
  <1>1. CASE ~routeMap[m].pulling /\ routeMap[m].expired
    BY <1>1, KnownIsLB, PullRequested DEF Repull
  <1>2. CASE ~(~routeMap[m].pulling /\ routeMap[m].expired)
    BY <1>2 DEF Repull, Requested, TypeOK, Pulling, Known
  <1>3. QED
    BY <1>1, <1>2

LEMMA CreateRequested ==
  ASSUME TypeOK, NEW m \in Mods, Create(m)
  PROVE  Requested /\ UNCHANGED <<reading, aborted>>
  <1>1. [hosts |-> {}, pulling |-> TRUE, expired |-> TRUE, version |-> 0] \in LB
    BY DEF LB
  <1>2. QED
    BY <1>1, PullRequested DEF Create

LEMMA CopyRouteType ==
  ASSUME TypeOK, NEW m \in Mods, Known(m), CopyRoute(m)
  PROVE  reading' \in [Shards -> [mods : SUBSET Mods, left : SUBSET Hosts,
                                  freed : SUBSET Hosts]]
  <1>1. routeMap[m].hosts \in SUBSET Hosts
    BY KnownIsLB
  <1>2. /\ [mods |-> {m}, left |-> routeMap[m].hosts, freed |-> {}]
             \in [mods : SUBSET Mods, left : SUBSET Hosts, freed : SUBSET Hosts]
        /\ NoRead \in [mods : SUBSET Mods, left : SUBSET Hosts, freed : SUBSET Hosts]
    BY <1>1 DEF NoRead
  <1>3. QED
    BY <1>2 DEF CopyRoute, TypeOK

ReadingType ==
  reading \in [Shards -> [mods : SUBSET Mods, left : SUBSET Hosts, freed : SUBSET Hosts]]

\* The requests, together with what each does to the thread and the process.
Asks == \E m \in Mods : GetHost(m) \/ GetRoute(m) \/ CacheGetRoute(m)

\* What a client has copied: what it had, nothing, or the route of this second.
CopiedNow(m) ==
    [hosts |-> routeMap[m].hosts, version |-> routeMap[m].version, at |-> now]

Copied ==
    /\ cached' \in [Mods -> Copies]
    /\ \A m \in Mods :
          \/ cached'[m] \in {cached[m], NoCopy}
          \/ Known(m) /\ cached'[m] = CopiedNow(m)

LEMMA AsksCopied ==
  ASSUME TypeOK, NEW m \in Mods,
         \/ UNCHANGED cached
         \/ cached' = [cached EXCEPT ![m] = NoCopy]
         \/ Known(m) /\ cached' = [cached EXCEPT ![m] = CopiedNow(m)]
  PROVE  Copied
  <1>1. NoCopy \in Copies
    BY DEF NoCopy, Copies, TypeOK
  <1>2. Known(m) => CopiedNow(m) \in Copies
    BY KnownIsLB DEF CopiedNow, Copies, TypeOK
  <1>3. cached \in [Mods -> Copies]
    BY DEF TypeOK
  <1>4. QED
    BY <1>1, <1>2, <1>3 DEF Copied

LEMMA AsksRequested ==
  ASSUME TypeOK, Asks
  PROVE  /\ Requested /\ ReadingType' /\ aborted' \in BOOLEAN
         /\ Copied /\ UNCHANGED <<linkVars, dnsVars, now>>
  <1>1. PICK m \in Mods : GetHost(m) \/ GetRoute(m) \/ CacheGetRoute(m)
    BY DEF Asks
  <1>2. UNCHANGED <<linkVars, dnsVars, now>>
    BY <1>1 DEF GetHost, GetRoute, CacheGetRoute
  <1>3. ReadingType /\ aborted \in BOOLEAN
    BY DEF TypeOK, ReadingType
  <1>4. \/ UNCHANGED cached
        \/ cached' = [cached EXCEPT ![m] = NoCopy]
        \/ Known(m) /\ cached' = [cached EXCEPT ![m] = CopiedNow(m)]
    BY <1>1 DEF GetHost, GetRoute, CacheGetRoute, CopiedNow
  <1>5. Copied
    BY <1>4, AsksCopied
  <1>6. CASE Create(m)
    BY <1>2, <1>3, <1>5, <1>6, CreateRequested DEF ReadingType
  <1>7. CASE AssertPulling(m)
    <2>1. aborted' = ~routeMap[m].pulling /\ UNCHANGED <<routeMap, pullQueue, reading>>
      BY <1>7 DEF AssertPulling
    <2>2. Requested
      BY <2>1 DEF Requested, TypeOK, Pulling, Known
    <2>3. QED
      BY <1>2, <1>3, <1>5, <2>1, <2>2 DEF ReadingType
  <1>8. CASE /\ Known(m) /\ Repull(m) /\ UNCHANGED aborted
             /\ CopyRoute(m) \/ UNCHANGED reading
    <2>1. Requested
      BY <1>8, RepullRequested
    <2>2. ReadingType'
      BY <1>3, <1>8, CopyRouteType DEF ReadingType
    <2>3. QED
      BY <1>2, <1>3, <1>5, <1>8, <2>1, <2>2
  <1>9. QED
    BY <1>1, <1>6, <1>7, <1>8 DEF GetHost, GetRoute, CacheGetRoute

LEMMA AsksInv ==
  ASSUME IInv, Asks
  PROVE  IInv'
  <1>1. /\ Requested /\ ReadingType' /\ aborted' \in BOOLEAN
        /\ Copied /\ UNCHANGED <<linkVars, dnsVars, now>>
    BY AsksRequested DEF IInv
  <1>2. TypeOK'
    BY <1>1 DEF IInv, TypeOK, Requested, Copied, ReadingType, linkVars, dnsVars
  <1>3. ASSUME NEW m \in Mods, Pulling(m)' PROVE Accounted(m)'
    <2>1. CASE m \in ToSet(pullQueue')
      BY <2>1 DEF Accounted, ToSet
    <2>2. CASE Pulling(m)
      BY <1>1, <2>2 DEF IInv, PullAccounted, Accounted, Answered, Requested, ToSet, linkVars
    <2>3. QED
      BY <1>1, <1>3, <2>1, <2>2 DEF Requested
  <1>4. QED
    BY <1>2, <1>3 DEF IInv, PullAccounted

-----------------------------------------------------------------------------
(* The reading of the copied pointers, and time.                           *)

LEMMA InitInv == Init => IInv
  <1> SUFFICES ASSUME Init PROVE IInv
    OBVIOUS
  <1>1. <<>> \in Seq(Mods) /\ <<>> \in Seq(Messages)
    BY EmptySeq
  <1>2. ReadingType
    BY DEF Init, ReadingType, NoRead
  <1>3. TypeOK
    <2>1. routeMap \in [Mods -> LB \cup {NoLB}] /\ pullQueue \in Seq(Mods)
      BY <1>1 DEF Init
    <2>2. /\ connected \in BOOLEAN /\ toDss \in Seq(Mods) /\ fromDss \in Seq(Messages)
      BY <1>1 DEF Init
    <2>3. clearNext \in 0..NShard
      BY DEF Init
    <2>4. drops \in 0..MaxDrop /\ changes \in 0..MaxChange /\ now \in 0..MaxNow
      BY DEF Init
    <2>5. aborted \in BOOLEAN /\ dns \in [Mods -> SUBSET Hosts]
      BY DEF Init
    <2>6. subs \in SUBSET Mods /\ unfiled \in SUBSET Mods /\ toPush \in SUBSET Mods
      BY DEF Init
    <2>7. cached \in [Mods -> Copies]
      BY DEF Init, NoCopy, Copies
    <2>8. QED
      BY <1>2, <2>1, <2>2, <2>3, <2>4, <2>5, <2>6, <2>7 DEF TypeOK, ReadingType
  <1>4. PullAccounted
    BY DEF Init, PullAccounted, Pulling, Known
  <1>5. QED
    BY <1>3, <1>4 DEF IInv

\* Steps that leave the marks, the queues and the connection alone.
LEMMA ElsewhereInv ==
  ASSUME IInv, UNCHANGED <<pullQueue, linkVars>>, TypeOK',
         \A m \in Mods : Pulling(m)' => Pulling(m)
  PROVE  IInv'
  BY DEF IInv, PullAccounted, Accounted, Answered, ToSet, linkVars

LEMMA ReadHostInv ==
  ASSUME IInv, NEW s \in Shards, ReadHost(s)
  PROVE  IInv'
  <1>1. PICK h \in reading[s].left :
          reading' = [reading EXCEPT ![s] =
              IF reading[s].left = {h} THEN NoRead
              ELSE [reading[s] EXCEPT !.left = @ \ {h}, !.freed = @ \ {h}]]
    BY DEF ReadHost
  <1>2. reading[s] \in [mods : SUBSET Mods, left : SUBSET Hosts, freed : SUBSET Hosts]
    BY DEF IInv, TypeOK
  <1>3. /\ NoRead \in [mods : SUBSET Mods, left : SUBSET Hosts, freed : SUBSET Hosts]
        /\ [reading[s] EXCEPT !.left = @ \ {h}, !.freed = @ \ {h}]
              \in [mods : SUBSET Mods, left : SUBSET Hosts, freed : SUBSET Hosts]
    BY <1>2 DEF NoRead
  <1>4. ReadingType'
    BY <1>1, <1>3 DEF IInv, TypeOK, ReadingType
  <1>5. UNCHANGED <<routeMap, pullQueue, aborted, linkVars, dnsVars, cached, now>>
    BY DEF ReadHost
  <1>6. TypeOK'
    BY <1>4, <1>5 DEF IInv, TypeOK, ReadingType, linkVars, dnsVars
  <1>7. QED
    BY <1>5, <1>6, ElsewhereInv DEF Pulling, Known

LEMMA LapseInv ==
  ASSUME IInv, NEW m \in Mods, Lapse(m)
  PROVE  IInv'
  <1>1. routeMap[m] \in LB
    BY KnownIsLB DEF IInv, Lapse
  <1>2. [routeMap[m] EXCEPT !.expired = TRUE] \in LB
        /\ [routeMap[m] EXCEPT !.expired = TRUE].pulling = routeMap[m].pulling
    BY <1>1 DEF LB
  <1>3. routeMap' = [routeMap EXCEPT ![m] = [routeMap[m] EXCEPT !.expired = TRUE]]
    BY DEF Lapse
  <1>4. UNCHANGED <<pullQueue, reading, aborted, linkVars, dnsVars, cached, now>>
    BY DEF Lapse
  <1>5. TypeOK'
    BY <1>2, <1>3, <1>4 DEF IInv, TypeOK, linkVars, dnsVars
  <1>6. \A n \in Mods : Pulling(n)' => Pulling(n)
    BY <1>2, <1>3 DEF IInv, TypeOK, Pulling, Known, Lapse
  <1>7. QED
    BY <1>4, <1>5, <1>6, ElsewhereInv

LEMMA TickInv == ASSUME IInv, Tick PROVE IInv'
  <1>1. TypeOK'
    BY DEF IInv, TypeOK, Tick, agentVars, linkVars, dnsVars
  <1>2. QED
    BY <1>1, ElsewhereInv DEF Tick, agentVars, Pulling, Known

LEMMA DnsFileInv ==
  ASSUME IInv, NEW m \in Mods, DnsFile(m)
  PROVE  IInv'
  <1>1. TypeOK'
    BY DEF IInv, TypeOK, DnsFile, agentVars, linkVars
  <1>2. QED
    BY <1>1, ElsewhereInv DEF DnsFile, agentVars, Pulling, Known

LEMMA DnsUnsubscribeInv ==
  ASSUME IInv, NEW m \in Mods, DnsUnsubscribe(m)
  PROVE  IInv'
  <1>1. TypeOK'
    BY DEF IInv, TypeOK, DnsUnsubscribe, agentVars, linkVars
  <1>2. QED
    BY <1>1, ElsewhereInv DEF DnsUnsubscribe, agentVars, Pulling, Known

LEMMA DnsChangeInv ==
  ASSUME IInv, NEW m \in Mods, NEW S \in Routes, DnsChange(m, S)
  PROVE  IInv'
  <1>1. TypeOK'
    BY DEF IInv, TypeOK, DnsChange, agentVars, linkVars
  <1>2. QED
    BY <1>1, ElsewhereInv DEF DnsChange, agentVars, Pulling, Known

-----------------------------------------------------------------------------
(* The DSS client thread and the connection.                               *)

LEMMA NewPullReqInv == ASSUME IInv, NewPullReq PROVE IInv'
  <1>1. /\ pullQueue \in Seq(Mods) /\ toDss \in Seq(Mods)
        /\ <<>> \in Seq(Mods)
    BY EmptySeq DEF IInv, TypeOK
  <1>2. /\ toDss \o pullQueue \in Seq(Mods)
        /\ ToSet(toDss) \cup ToSet(pullQueue) \subseteq ToSet(toDss \o pullQueue)
    BY <1>1, ConcatKeeps
  <1>3. /\ pullQueue' = <<>>
        /\ toDss' = IF connected THEN toDss \o pullQueue ELSE toDss
        /\ UNCHANGED <<routeMap, reading, aborted, connected, clearNext, fromDss,
                       drops, dnsVars, cached, now>>
    BY DEF NewPullReq
  <1>4. TypeOK'
    BY <1>1, <1>2, <1>3 DEF IInv, TypeOK, dnsVars
  <1>5. ASSUME NEW m \in Mods, Pulling(m)' PROVE Accounted(m)'
    <2>1. Accounted(m)
      BY <1>3, <1>5 DEF IInv, PullAccounted, Pulling, Known
    <2>2. CASE connected
      <3>1. m \in ToSet(pullQueue) \/ m \in ToSet(toDss) => m \in ToSet(toDss')
        BY <1>2, <1>3, <2>2
      <3>2. Answered(m) => Answered(m)'
        BY <1>3 DEF Answered
      <3>3. m \in ToSet(toDss') => m \in ToSet(toDss)'
        BY DEF ToSet
      <3>4. QED
        BY <1>3, <2>1, <2>2, <3>1, <3>2, <3>3 DEF Accounted
    <2>3. CASE ~connected
      BY <1>3, <2>3 DEF Accounted
    <2>4. QED
      BY <2>2, <2>3
  <1>6. QED
    BY <1>4, <1>5 DEF IInv, PullAccounted

LEMMA FreeType ==
  ASSUME ReadingType, NEW m, NEW D, Free(m, D)
  PROVE  ReadingType'
  <1>1. ASSUME NEW s \in Shards
        PROVE  [reading[s] EXCEPT !.freed = @ \cup (D \cap reading[s].left)]
                 \in [mods : SUBSET Mods, left : SUBSET Hosts, freed : SUBSET Hosts]
    BY DEF ReadingType
  <1>2. QED
    BY <1>1 DEF Free, ReadingType

\* An answer or push removes the mark of its module and no other module's.
LEMMA UpdateFacts ==
  ASSUME TypeOK, NEW m \in Mods, NEW S \in SUBSET Hosts, Update(m, S)
  PROVE  /\ routeMap' \in [Mods -> LB \cup {NoLB}] /\ ReadingType'
         /\ \A n \in Mods : Pulling(n)' => Pulling(n) /\ n # m
         /\ \A n \in Mods : n # m => routeMap'[n] = routeMap[n]
         /\ Known(m)' => /\ Known(m)
                         /\ \/ /\ routeMap'[m].hosts = routeMap[m].hosts
                               /\ routeMap'[m].version = routeMap[m].version
                            \/ routeMap'[m].version = now
  <1>1. ReadingType /\ routeMap \in [Mods -> LB \cup {NoLB}] /\ now \in 0..MaxNow
    BY DEF TypeOK, ReadingType
  <1>2. CASE ~Known(m)
    BY <1>1, <1>2 DEF Update, ReadingType, Pulling, Known
  <1>3. CASE Known(m) /\ S = {}
    <2>1. routeMap' = [routeMap EXCEPT ![m] = NoLB] /\ Free(m, routeMap[m].hosts)
      BY <1>3 DEF Update
    <2>2. QED
      BY <1>1, <2>1, FreeType DEF Pulling, Known
  <1>4. CASE Known(m) /\ S # {}
    <2> DEFINE new == [hosts |-> S, pulling |-> FALSE, expired |-> FALSE,
                       version |-> IF routeMap[m].hosts = S
                                   THEN routeMap[m].version ELSE now]
    <2>1. routeMap' = [routeMap EXCEPT ![m] = new] /\ Free(m, routeMap[m].hosts \ S)
      BY <1>4 DEF Update
    <2>2. new \in LB
      BY <1>1, <1>4, KnownIsLB DEF LB
    <2>3. /\ routeMap'[m] = new
          /\ \A n \in Mods : n # m => routeMap'[n] = routeMap[n]
      BY <1>1, <2>1
    <2>4. routeMap' \in [Mods -> LB \cup {NoLB}] /\ ReadingType'
      BY <1>1, <2>1, <2>2, FreeType
    <2>5. /\ new.pulling = FALSE
          /\ \/ new.hosts = routeMap[m].hosts /\ new.version = routeMap[m].version
             \/ new.version = now
      OBVIOUS
    <2>6. QED
      BY <1>4, <2>3, <2>4, <2>5 DEF Pulling, Known
  <1>5. QED
    BY <1>2, <1>3, <1>4

LEMMA RecvRouteInv == ASSUME IInv, RecvRoute PROVE IInv'
  <1> DEFINE msg == Head(fromDss)
  <1>1. /\ fromDss \in Seq(Messages) /\ fromDss # <<>>
        /\ fromDss' = Tail(fromDss) /\ Update(msg.mod, msg.hosts)
        /\ UNCHANGED <<pullQueue, aborted, connected, clearNext, toDss, drops,
                       dnsVars, cached, now>>
    BY DEF RecvRoute, IInv, TypeOK
  <1>2. /\ msg \in Messages /\ Tail(fromDss) \in Seq(Messages)
        /\ ToSet(fromDss) \subseteq {msg} \cup ToSet(Tail(fromDss))
    BY <1>1, TailKeeps
  <1>3. msg.mod \in Mods /\ msg.hosts \in SUBSET Hosts
    BY <1>2 DEF Messages
  <1>4. /\ routeMap' \in [Mods -> LB \cup {NoLB}] /\ ReadingType'
        /\ \A n \in Mods : Pulling(n)' => Pulling(n) /\ n # msg.mod
    BY <1>1, <1>3, UpdateFacts DEF IInv
  <1>5. TypeOK'
    BY <1>1, <1>2, <1>4 DEF IInv, TypeOK, ReadingType, dnsVars
  <1>6. ASSUME NEW m \in Mods, Pulling(m)' PROVE Accounted(m)'
    <2>1. m # msg.mod /\ Accounted(m)
      BY <1>4, <1>6 DEF IInv, PullAccounted
    <2>2. Answered(m) => Answered(m)'
      BY <1>1, <1>2, <2>1, AnsweredIs, AnsweredIsNext
    <2>3. QED
      BY <1>1, <2>1, <2>2 DEF Accounted, ToSet
  <1>7. QED
    BY <1>5, <1>6 DEF IInv, PullAccounted

LEMMA ConnectInv == ASSUME IInv, Connect PROVE IInv'
  <1>1. TypeOK'
    BY DEF IInv, TypeOK, Connect, agentVars, dnsVars
  <1>2. \A m \in Mods : Shard(m) >= clearNext'
    BY DEF Connect, Shards
  <1>3. QED
    BY <1>1, <1>2 DEF IInv, PullAccounted, Accounted

\* whenConnected clears the marks of a RouteLB in the step that passes it.
LEMMA ClearPullingInv == ASSUME IInv, ClearPulling PROVE IInv'
  <1>1. /\ clearNext < NShard /\ clearNext' = clearNext + 1
        /\ routeMap' = [m \in Mods |->
              IF Pulling(m) /\ Shard(m) = clearNext
              THEN [routeMap[m] EXCEPT !.pulling = FALSE] ELSE routeMap[m]]
        /\ UNCHANGED <<pullQueue, reading, aborted, connected, toDss, fromDss,
                       drops, dnsVars, cached, now>>
    BY DEF ClearPulling
  <1>2. ASSUME NEW m \in Mods, Pulling(m)
        PROVE  /\ [routeMap[m] EXCEPT !.pulling = FALSE] \in LB
               /\ [routeMap[m] EXCEPT !.pulling = FALSE].pulling = FALSE
    BY <1>2, KnownIsLB DEF IInv, Pulling, LB
  <1>3. routeMap' \in [Mods -> LB \cup {NoLB}]
    BY <1>1, <1>2 DEF IInv, TypeOK
  <1>4. clearNext' \in 0..NShard
    BY <1>1 DEF IInv, TypeOK
  <1>5. TypeOK'
    BY <1>1, <1>3, <1>4 DEF IInv, TypeOK, dnsVars
  <1>6. ASSUME NEW m \in Mods, Pulling(m)' PROVE Accounted(m)'
    <2>1. CASE Pulling(m) /\ Shard(m) = clearNext
      BY <1>1, <1>2, <1>6, <2>1 DEF Pulling
    <2>2. CASE ~(Pulling(m) /\ Shard(m) = clearNext)
      <3>1. Pulling(m) /\ Shard(m) # clearNext
        BY <1>1, <1>6, <2>2 DEF Pulling, Known
      <3>2. Accounted(m)
        BY <3>1 DEF IInv, PullAccounted
      <3>3. Shard(m) >= clearNext => Shard(m) >= clearNext'
        BY <1>1, <3>1 DEF Shards, IInv, TypeOK
      <3>4. QED
        BY <1>1, <3>2, <3>3 DEF Accounted, Answered, ToSet
    <2>3. QED
      BY <2>1, <2>2
  <1>7. QED
    BY <1>5, <1>6 DEF IInv, PullAccounted

LEMMA DisconnectInv == ASSUME IInv, Disconnect PROVE IInv'
  <1>1. <<>> \in Seq(Mods) /\ <<>> \in Seq(Messages)
    BY EmptySeq
  <1>2. TypeOK'
    <2>1. /\ connected' = FALSE /\ drops' = drops + 1 /\ drops < MaxDrop
          /\ toDss' = <<>> /\ fromDss' = <<>>
          /\ UNCHANGED <<agentVars, clearNext, dns, unfiled, changes, cached, now>>
      BY DEF Disconnect
    <2>2. subs' \in SUBSET Mods /\ toPush' \in SUBSET Mods
      BY DEF Disconnect, IInv, TypeOK
    <2>3. drops' \in 0..MaxDrop
      BY <2>1 DEF IInv, TypeOK
    <2>4. QED
      BY <1>1, <2>1, <2>2, <2>3 DEF IInv, TypeOK, agentVars
  <1>3. QED
    BY <1>2 DEF IInv, PullAccounted, Accounted, Disconnect

-----------------------------------------------------------------------------
(* The dnsserver.                                                          *)

LEMMA DnsAnswerInv == ASSUME IInv, DnsAnswer PROVE IInv'
  <1> DEFINE mod == Head(toDss)
             msg == [mod |-> mod, hosts |-> dns[mod]]
  <1>1. /\ toDss \in Seq(Mods) /\ toDss # <<>> /\ fromDss \in Seq(Messages)
        /\ toDss' = Tail(toDss) /\ subs' = subs \cup {mod}
        /\ fromDss' = Append(fromDss, msg)
        /\ UNCHANGED <<agentVars, connected, clearNext, drops, dns, unfiled,
                       toPush, changes, cached, now>>
    BY DEF DnsAnswer, IInv, TypeOK
  <1>2. /\ mod \in Mods /\ Tail(toDss) \in Seq(Mods)
        /\ ToSet(toDss) \subseteq {mod} \cup ToSet(Tail(toDss))
    BY <1>1, TailKeeps
  <1>3. msg \in Messages /\ msg.mod = mod
    BY <1>2 DEF IInv, TypeOK, Messages
  <1>4. /\ Append(fromDss, msg) \in Seq(Messages)
        /\ ToSet(Append(fromDss, msg)) = ToSet(fromDss) \cup {msg}
    BY <1>1, <1>3, AppendKeeps
  <1>5. TypeOK'
    BY <1>1, <1>2, <1>4 DEF IInv, TypeOK, agentVars
  <1>6. ASSUME NEW m \in Mods, Pulling(m)' PROVE Accounted(m)'
    <2>1. Accounted(m)
      BY <1>1, <1>6 DEF IInv, PullAccounted, Pulling, Known, agentVars
    <2>2. Answered(m) \/ m = mod => Answered(m)'
      BY <1>1, <1>3, <1>4, AnsweredIs, AnsweredIsNext
    <2>3. m \in ToSet(toDss) => m = mod \/ m \in ToSet(toDss')
      BY <1>1, <1>2
    <2>4. m \in ToSet(toDss') => m \in ToSet(toDss)'
      BY DEF ToSet
    <2>5. QED
      BY <1>1, <2>1, <2>2, <2>3, <2>4 DEF Accounted, ToSet, agentVars
  <1>7. QED
    BY <1>5, <1>6 DEF IInv, PullAccounted

LEMMA DnsPushInv ==
  ASSUME IInv, NEW m \in Mods, DnsPush(m)
  PROVE  IInv'
  <1> DEFINE msg == [mod |-> m, hosts |-> dns[m]]
  <1>1. /\ fromDss \in Seq(Messages) /\ fromDss' = Append(fromDss, msg)
        /\ toPush' = toPush \ {m}
        /\ UNCHANGED <<agentVars, connected, clearNext, toDss, drops, dns, subs,
                       unfiled, changes, cached, now>>
    BY DEF DnsPush, IInv, TypeOK
  <1>2. msg \in Messages
    BY DEF IInv, TypeOK, Messages
  <1>3. /\ Append(fromDss, msg) \in Seq(Messages)
        /\ ToSet(Append(fromDss, msg)) = ToSet(fromDss) \cup {msg}
    BY <1>1, <1>2, AppendKeeps
  <1>4. TypeOK'
    BY <1>1, <1>3 DEF IInv, TypeOK, agentVars
  <1>5. ASSUME NEW n \in Mods, Pulling(n)' PROVE Accounted(n)'
    <2>1. Accounted(n)
      BY <1>1, <1>5 DEF IInv, PullAccounted, Pulling, Known, agentVars
    <2>2. Answered(n) => Answered(n)'
      BY <1>1, <1>3, AnsweredIs, AnsweredIsNext
    <2>3. QED
      BY <1>1, <2>1, <2>2 DEF Accounted, ToSet, agentVars
  <1>6. QED
    BY <1>4, <1>5 DEF IInv, PullAccounted

-----------------------------------------------------------------------------
(* The copies of the clients and the versions they go by.                  *)

\* No version, and no copy, is of a second to come, and a copy is no older than
\* the version that came with it.
VersionsInv ==
    \A m \in Mods :
        /\ Known(m) => routeMap[m].version <= now
        /\ cached[m].version <= cached[m].at /\ cached[m].at <= now

CopyInv == VersionsInv /\ CopiesCurrent

\* What steps do to versions: a route keeps its version, or gets this second as
\* its version, or is yet to come.
Versioned ==
    \A m \in Mods : Known(m)' =>
        \/ /\ Known(m) /\ routeMap'[m].hosts = routeMap[m].hosts
           /\ routeMap'[m].version = routeMap[m].version
        \/ Known(m) /\ routeMap'[m].version = now
        \/ routeMap'[m].hosts = {} /\ routeMap'[m].version = 0

LEMMA InitCopyInv == Init => CopyInv
  BY DEF Init, CopyInv, VersionsInv, CopiesCurrent, Known, NoCopy

LEMMA CopiesStep ==
  ASSUME TypeOK, TypeOK', CopyInv, Versioned, Copied, now <= now'
  PROVE  CopyInv'
  <1>1. PICK t \in Int, u \in Int : t = now /\ u = now' /\ 0 <= t /\ t <= u
    BY DEF TypeOK
  <1>2. ASSUME NEW m \in Mods
        PROVE  /\ cached'[m].version <= cached'[m].at /\ cached'[m].at <= t
               /\ cached'[m].version \in Int /\ cached'[m].at \in Int
    <2>1. /\ cached[m].version <= cached[m].at /\ cached[m].at <= t
          /\ cached[m].version \in Int /\ cached[m].at \in Int
      BY <1>1 DEF TypeOK, CopyInv, VersionsInv, Copies
    <2>2. CASE cached'[m] = cached[m]
      BY <2>1, <2>2
    <2>3. CASE cached'[m] = NoCopy
      BY <1>1, <2>3 DEF NoCopy
    <2>4. CASE Known(m) /\ cached'[m] = CopiedNow(m)
      BY <1>1, <2>4, KnownIsLB DEF CopiedNow, CopyInv, VersionsInv
    <2>5. QED
      BY <2>2, <2>3, <2>4 DEF Copied
  <1>3. ASSUME NEW m \in Mods, Known(m)' PROVE routeMap'[m].version <= t
    <2>1. CASE Known(m) /\ routeMap'[m].version = routeMap[m].version
      BY <1>1, <2>1 DEF CopyInv, VersionsInv
    <2>2. CASE routeMap'[m].version = now \/ routeMap'[m].version = 0
      BY <1>1, <2>2
    <2>3. QED
      BY <1>3, <2>1, <2>2 DEF Versioned
  <1>4. VersionsInv'
    <2>1. ASSUME NEW m \in Mods
          PROVE  /\ Known(m)' => routeMap'[m].version <= u
                 /\ cached'[m].version <= cached'[m].at /\ cached'[m].at <= u
      <3>1. Known(m)' => routeMap'[m].version \in Int
        BY DEF TypeOK, Known, LB
      <3>2. QED
        BY <1>1, <1>2, <1>3, <3>1
    <2>2. QED
      BY <1>1, <2>1 DEF VersionsInv
  <1>5. ASSUME NEW m \in Mods, Known(m)', routeMap'[m].hosts # {},
               cached'[m].version = routeMap'[m].version
        PROVE  cached'[m].hosts = routeMap'[m].hosts \/ cached'[m].at = cached'[m].version
    <2>1. CASE Known(m) /\ routeMap'[m].version = now
      BY <1>1, <1>2, <1>5, <2>1
    <2>2. CASE /\ Known(m) /\ routeMap'[m].hosts = routeMap[m].hosts
               /\ routeMap'[m].version = routeMap[m].version
      <3>1. CASE cached'[m] = cached[m]
        BY <1>5, <2>2, <3>1 DEF CopyInv, CopiesCurrent
      <3>2. CASE cached'[m] = NoCopy
        BY <1>5, <2>2, <3>2, KnownIsLB DEF NoCopy
      <3>3. CASE cached'[m] = CopiedNow(m)
        BY <2>2, <3>3 DEF CopiedNow
      <3>4. QED
        BY <3>1, <3>2, <3>3 DEF Copied
    <2>3. QED
      BY <1>5, <2>1, <2>2 DEF Versioned
  <1>6. QED
    BY <1>4, <1>5 DEF CopyInv, CopiesCurrent

LEMMA CachedCopied == ASSUME TypeOK, UNCHANGED cached PROVE Copied
  BY DEF TypeOK, Copied

LEMMA NextVersioned ==
  ASSUME IInv, [Next]_vars
  PROVE  Versioned /\ Copied /\ now <= now'
  <1> USE DEF IInv
  <1>1. CASE Asks
    <2>1. Requested /\ Copied /\ now' = now
      BY <1>1, AsksRequested
    <2>2. Versioned
      BY <2>1 DEF Requested, Versioned
    <2>3. QED
      BY <2>1, <2>2 DEF TypeOK
  <1>2. CASE RecvRoute
    <2>1. fromDss \in Seq(Messages) /\ fromDss # <<>>
          /\ Update(Head(fromDss).mod, Head(fromDss).hosts)
          /\ UNCHANGED <<cached, now>>
      BY <1>2 DEF RecvRoute, TypeOK
    <2>2. Head(fromDss) \in Messages
      BY <2>1, TailKeeps
    <2>3. PICK n \in Mods, S \in SUBSET Hosts : Update(n, S)
      BY <2>1, <2>2 DEF Messages
    <2>4. /\ \A m \in Mods : m # n => routeMap'[m] = routeMap[m]
          /\ Known(n)' => /\ Known(n)
                          /\ \/ /\ routeMap'[n].hosts = routeMap[n].hosts
                                /\ routeMap'[n].version = routeMap[n].version
                             \/ routeMap'[n].version = now
      BY <2>3, UpdateFacts
    <2>5. Versioned
      BY <2>4 DEF Versioned, Known
    <2>6. QED
      BY <2>1, <2>5, CachedCopied DEF TypeOK
  <1>3. CASE \E m \in Mods : Lapse(m)
    <2>1. PICK m \in Mods : Lapse(m)
      BY <1>3
    <2>2. /\ routeMap[m] \in LB /\ UNCHANGED <<cached, now>>
          /\ routeMap' = [routeMap EXCEPT ![m].expired = TRUE]
      BY <2>1, KnownIsLB DEF Lapse
    <2>3. Versioned
      BY <2>1, <2>2 DEF TypeOK, LB, Versioned, Known, Lapse
    <2>4. QED
      BY <2>2, <2>3, CachedCopied DEF TypeOK
  <1>4. CASE ClearPulling
    <2>1. /\ UNCHANGED <<cached, now>>
          /\ \A m \in Mods : routeMap'[m] = IF Pulling(m) /\ Shard(m) = clearNext
                THEN [routeMap[m] EXCEPT !.pulling = FALSE] ELSE routeMap[m]
      BY <1>4 DEF ClearPulling
    <2>2. \A m \in Mods : Pulling(m) => Known(m) /\ routeMap[m] \in LB
      BY KnownIsLB DEF Pulling
    <2>3. Versioned
      BY <2>1, <2>2 DEF LB, Versioned, Known
    <2>4. QED
      BY <2>1, <2>3, CachedCopied DEF TypeOK
  <1>5. CASE UNCHANGED <<routeMap, cached>> /\ now <= now'
    BY <1>5, CachedCopied DEF Versioned, Known
  <1>6. QED
    <2>1. now \in Nat
      BY DEF TypeOK
    <2>2. CASE Tick
      <3>1. UNCHANGED <<routeMap, cached>> /\ now' = now + 1
        BY <2>2 DEF Tick, agentVars
      <3>2. now <= now'
        BY <2>1, <3>1
      <3>3. QED
        BY <1>5, <3>1, <3>2
    <2>3. ASSUME ~Asks, ~RecvRoute, ~ClearPulling, ~\E m \in Mods : Lapse(m), ~Tick
          PROVE  UNCHANGED <<routeMap, cached, now>>
      BY <2>3 DEF Next, Asks, ReadHost, DnsChange, DnsFile, DnsUnsubscribe, DnsPush,
                  NewPullReq, Connect, Disconnect, DnsAnswer, vars, agentVars
    <2>4. now = now' => now <= now'
      BY <2>1
    <2>5. QED
      BY <1>1, <1>2, <1>3, <1>4, <1>5, <2>2, <2>3, <2>4

-----------------------------------------------------------------------------
(* The theorems.                                                           *)

LEMMA NextInv == IInv /\ [Next]_vars => IInv'
  <1> SUFFICES ASSUME IInv, [Next]_vars PROVE IInv'
    OBVIOUS
  <1>1. CASE UNCHANGED vars
    <2>1. TypeOK'
      BY <1>1 DEF vars, agentVars, linkVars, dnsVars, IInv, TypeOK
    <2>2. QED
      BY <1>1, <2>1, ElsewhereInv DEF vars, agentVars, Pulling, Known
  <1>2. CASE Next
    BY <1>2, AsksInv, ReadHostInv, LapseInv, TickInv, DnsChangeInv, DnsFileInv,
       DnsUnsubscribeInv, NewPullReqInv, RecvRouteInv, ConnectInv, ClearPullingInv, DisconnectInv, DnsAnswerInv, DnsPushInv
    DEF Next, Asks
  <1>3. QED
    BY <1>1, <1>2

LEMMA Inductive == Spec => []IInv
  BY InitInv, NextInv, PTL DEF Spec

\* The agent's routes, marks and queues and its connection are well formed in
\* every reachable state, for any modules, RouteLBs and route changes.
THEOREM RouteTypeCorrect == Spec => []TypeOK
  <1>1. IInv => TypeOK
    BY DEF IInv
  <1>2. QED
    BY <1>1, Inductive, PTL

\* ISPULLING (RouteLb.h) is never left behind: in whatever order requests,
\* losses, reconnections and clearings come, a marked LB has a pull on its way
\* or will be cleared.
THEOREM PullsAccountedFor == Spec => []PullAccounted
  <1>1. IInv => PullAccounted
    BY DEF IInv
  <1>2. QED
    BY <1>1, Inductive, PTL

\* RouteLb.cc:592 and 771: whoever has the version of a route has its hosts,
\* through updates, deletions, new pulls and any number of changes per second,
\* except for a copy made within the second that the version names.
THEOREM VersionsTellRoutes == Spec => []CopiesCurrent
  <1>1. Init => IInv /\ CopyInv
    BY InitInv, InitCopyInv
  <1>2. IInv /\ CopyInv /\ [Next]_vars => IInv' /\ CopyInv'
    <2> SUFFICES ASSUME IInv, CopyInv, [Next]_vars PROVE IInv' /\ CopyInv'
      OBVIOUS
    <2>1. IInv'
      BY NextInv
    <2>2. QED
      BY <2>1, NextVersioned, CopiesStep DEF IInv
  <1>3. CopyInv => CopiesCurrent
    BY DEF CopyInv
  <1>4. QED
    BY <1>1, <1>2, <1>3, PTL DEF Spec
=============================================================================
